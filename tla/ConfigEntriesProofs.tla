------------------------- MODULE ConfigEntriesProofs -------------------------
(***************************************************************************)
(* What the flows, the discoveries and the life of the entries keep of     *)
(* them, for any number of entries, flows, forms, meters and addresses:    *)
(* what the user saved runs, no meter has two entries, no step loses one,  *)
(* and what is stored can be used.                                         *)
(*                                                                         *)
(* None of the four is inductive.  What runs must be known from the start  *)
(* of a setup, not from its end.  Two entries of a meter are excluded by   *)
(* the unique ids, which no write may change.  And a form writes what it   *)
(* kept while it waited for the validation: EntriesInd says that this is   *)
(* still data of the entry it is written to, although the entry may have   *)
(* been written, migrated or set up since.  SoundInd says of the data what *)
(* the fourth needs: what every version left is sound as that version kept *)
(* it, and so is what the forms keep, and a Bluetooth route leads to where *)
(* the meter is, so that a discovery that moves it to the address it found *)
(* does not move it onto another route (AddressAssumption).                *)
(***************************************************************************)
EXTENDS ConfigEntries, FiniteSetTheorems, SequenceTheorems, TLAPS

-----------------------------------------------------------------------------
(* Sequences *)

LEMMA LeastNumber ==
  ASSUME NEW T, T \subseteq Nat, T # {}
  PROVE  \E x \in T : \A y \in T : x <= y
<1> DEFINE R == {ss \in Nat \X Nat : ss[1] < ss[2]}
<1>1. IsWellFoundedOn(R, Nat)
  BY NatLessThanWellFounded DEF OpToRel
<1>2. \A x, y \in Nat : ~(<<y, x>> \in R) => x <= y
  OBVIOUS
<1> HIDE DEF R
<1>3. \E x \in T : \A y \in T : ~(<<y, x>> \in R)
  BY <1>1, WFMin
<1> QED BY <1>2, <1>3

LEMMA GreatestNumber ==
  ASSUME NEW n \in Nat, NEW T, T \subseteq 1 .. n, T # {}
  PROVE  \E x \in T : \A y \in T : y <= x
<1> DEFINE D == {n - x : x \in T}
<1>1. D \subseteq Nat /\ D # {}
  <2>1. \A x \in T : n - x \in Nat
    OBVIOUS
  <2> QED BY <2>1
<1>2. PICK d \in D : \A y \in D : d <= y
  BY <1>1, LeastNumber
<1>3. PICK x \in T : d = n - x
  BY <1>2
<1>4. \A y \in T : n - x <= n - y
  BY <1>2, <1>3
<1> QED BY <1>4

LEMMA SetInduction ==
  ASSUME NEW S, 0 \in S, \A n \in Nat : n \in S => n + 1 \in S
  PROVE  Nat \subseteq S
<1> SUFFICES ASSUME Nat \ S # {}
             PROVE  FALSE
  OBVIOUS
<1>1. PICK x \in Nat \ S : \A y \in Nat \ S : x <= y
  BY LeastNumber
<1>2. x # 0 /\ x - 1 \in Nat /\ x = (x - 1) + 1
  BY <1>1
<1>3. x - 1 \in S
  BY <1>1, <1>2
<1> QED BY <1>1, <1>2, <1>3

Gathers(u, values, kept, N) ==
  u = [n \in 0 .. N |-> IF n = 0 THEN <<>>
                        ELSE IF n \in kept THEN Append(u[n - 1], values[n])
                        ELSE u[n - 1]]

\* The recursion of Gathered has a solution.
LEMMA GatheringIs ==
  ASSUME NEW values, NEW kept, NEW N \in Nat
  PROVE  \E u : Gathers(u, values, kept, N)
<1> DEFINE S == {k \in Nat : \E u : Gathers(u, values, kept, k)}
<1>1. 0 \in S
  <2> DEFINE u == [n \in 0 .. 0 |-> <<>>]
  <2>1. Gathers(u, values, kept, 0)
    BY DEF Gathers
  <2> HIDE DEF u
  <2> QED BY <2>1
<1>2. ASSUME NEW k \in Nat, k \in S
      PROVE  k + 1 \in S
  <2>1. PICK u : Gathers(u, values, kept, k)
    BY <1>2
  <2> DEFINE last == IF k + 1 \in kept THEN Append(u[k], values[k + 1]) ELSE u[k]
             w == [n \in 0 .. k + 1 |-> IF n = k + 1 THEN last ELSE u[n]]
  <2>2. w[k + 1] = last /\ \A n \in 0 .. k : w[n] = u[n]
    OBVIOUS
  <2>3. DOMAIN w = 0 .. k + 1 /\ w = [n \in DOMAIN w |-> w[n]]
    OBVIOUS
  <2> HIDE DEF w
  <2>4. \A n \in 0 .. k + 1 : w[n] = IF n = 0 THEN <<>>
                                      ELSE IF n \in kept THEN Append(w[n - 1], values[n])
                                      ELSE w[n - 1]
    <3> TAKE n \in 0 .. k + 1
    <3>1. CASE n = k + 1
      BY <2>2, <3>1
    <3>2. CASE n \in 0 .. k
      <4>1. n # 0 => n - 1 \in 0 .. k
        BY <3>2
      <4>2. u[n] = IF n = 0 THEN <<>>
                   ELSE IF n \in kept THEN Append(u[n - 1], values[n])
                   ELSE u[n - 1]
        BY <2>1, <3>2 DEF Gathers
      <4> QED BY <2>2, <3>2, <4>1, <4>2
    <3> QED BY <3>1, <3>2
  <2>5. Gathers(w, values, kept, k + 1)
    BY <2>3, <2>4 DEF Gathers
  <2> QED BY <2>5
<1> HIDE DEF S
<1>3. N \in S
  BY <1>1, <1>2, SetInduction
<1> QED BY <1>3 DEF S

\* Each kept value is met once, and nothing else is.
LEMMA GatheredIs ==
  ASSUME NEW values, IsSequence(values), NEW kept, kept \subseteq DOMAIN values
  PROVE  LET s == Gathered(values, kept) IN
         /\ IsSequence(s)
         /\ \E at \in [DOMAIN s -> kept] :
              /\ \A i \in DOMAIN s : s[i] = values[at[i]]
              /\ \A i, j \in DOMAIN s : at[i] = at[j] => i = j
              /\ \A k \in kept : \E i \in DOMAIN s : at[i] = k
<1> DEFINE N == Len(values)
           R == {values[i] : i \in DOMAIN values}
<1>1. N \in Nat /\ DOMAIN values = 1 .. N /\ \A i \in 1 .. N : values[i] \in R
  BY DEF IsSequence
<1> HIDE DEF N, R
<1>2. PICK u : Gathers(u, values, kept, N) /\ Gathered(values, kept) = u[N]
  <2>1. \E u : Gathers(u, values, kept, N)
    BY <1>1, GatheringIs
  <2>2. Gathered(values, kept) = (CHOOSE u : Gathers(u, values, kept, N))[N]
    BY DEF Gathered, Gathers, N
  <2> QED BY <2>1, <2>2
<1> DEFINE Good(n, s, at) ==
             /\ s \in Seq(R) /\ at \in [1 .. Len(s) -> kept \cap (1 .. n)]
             /\ \A i \in 1 .. Len(s) : s[i] = values[at[i]]
             /\ \A i, j \in 1 .. Len(s) : at[i] = at[j] => i = j
             /\ \A k \in kept \cap (1 .. n) : \E i \in 1 .. Len(s) : at[i] = k
           S == {n \in Nat : n <= N => \E at : Good(n, u[n], at)}
<1>3. 0 \in S
  <2>1. Good(0, <<>>, <<>>)
    OBVIOUS
  <2>2. u[0] = <<>>
    BY <1>1, <1>2 DEF Gathers
  <2> HIDE DEF Good
  <2>3. \E at : Good(0, u[0], at)
    BY <2>1, <2>2
  <2> QED BY <2>3
<1>4. ASSUME NEW n \in Nat, n \in S
      PROVE  n + 1 \in S
  <2> SUFFICES ASSUME n + 1 <= N
               PROVE  \E at : Good(n + 1, u[n + 1], at)
    OBVIOUS
  <2>1. PICK at : Good(n, u[n], at)
    BY <1>1, <1>4
  <2>2. u[n + 1] = IF n + 1 \in kept THEN Append(u[n], values[n + 1]) ELSE u[n]
    <3>1. n + 1 \in 0 .. N /\ n + 1 # 0 /\ (n + 1) - 1 = n
      BY <1>1
    <3> QED BY <1>2, <3>1 DEF Gathers
  <2>3. CASE n + 1 \notin kept
    <3>1. kept \cap (1 .. n + 1) = kept \cap (1 .. n)
      BY <2>3
    <3> QED BY <2>1, <2>2, <2>3, <3>1
  <2>4. CASE n + 1 \in kept
    <3> DEFINE s == u[n]
               t == Append(s, values[n + 1])
               more == [i \in 1 .. Len(s) + 1 |-> IF i = Len(s) + 1 THEN n + 1 ELSE at[i]]
    <3>1. s \in Seq(R) /\ Len(s) \in Nat /\ values[n + 1] \in R
      BY <1>1, <2>1
    <3> HIDE DEF s
    <3>2. /\ t \in Seq(R) /\ Len(t) = Len(s) + 1 /\ t[Len(s) + 1] = values[n + 1]
          /\ \A i \in 1 .. Len(s) : t[i] = s[i]
      BY <3>1
    <3>3. more[Len(s) + 1] = n + 1 /\ \A i \in 1 .. Len(s) : more[i] = at[i]
      BY <3>1
    <3>4. /\ at \in [1 .. Len(s) -> kept \cap (1 .. n)]
          /\ \A i \in 1 .. Len(s) : s[i] = values[at[i]]
          /\ \A i, j \in 1 .. Len(s) : at[i] = at[j] => i = j
          /\ \A k \in kept \cap (1 .. n) : \E i \in 1 .. Len(s) : at[i] = k
      BY <2>1 DEF s
    <3>5. more \in [1 .. Len(t) -> kept \cap (1 .. n + 1)]
      BY <2>4, <3>1, <3>2, <3>4
    <3> HIDE DEF t, more
    <3>6. \A i \in 1 .. Len(t) : i \in 1 .. Len(s) \/ i = Len(s) + 1
      BY <3>1, <3>2
    <3>7. \A i \in 1 .. Len(t) : t[i] = values[more[i]]
      BY <3>2, <3>3, <3>4, <3>6
    <3>8. \A i \in 1 .. Len(s) : more[i] # n + 1
      BY <3>3, <3>4
    <3>9. \A i, j \in 1 .. Len(t) : more[i] = more[j] => i = j
      BY <3>3, <3>4, <3>6, <3>8
    <3>10. \A k \in kept \cap (1 .. n + 1) : \E i \in 1 .. Len(t) : more[i] = k
      <4> TAKE k \in kept \cap (1 .. n + 1)
      <4>1. CASE k = n + 1
        BY <3>1, <3>2, <3>3, <4>1
      <4>2. CASE k \in kept \cap (1 .. n)
        BY <3>1, <3>2, <3>3, <3>4, <4>2
      <4> QED BY <4>1, <4>2
    <3>11. Good(n + 1, t, more)
      BY <3>2, <3>5, <3>7, <3>9, <3>10
    <3>12. u[n + 1] = t
      BY <2>2, <2>4 DEF t, s
    <3> QED BY <3>11, <3>12
  <2> QED BY <2>3, <2>4
<1> HIDE DEF S
<1>5. N \in S
  BY <1>1, <1>3, <1>4, SetInduction
<1>6. PICK at : Good(N, u[N], at)
  BY <1>1, <1>5 DEF S
<1> DEFINE s == Gathered(values, kept)
<1>7. s \in Seq(R) /\ DOMAIN s = 1 .. Len(s) /\ kept \cap (1 .. N) = kept
  BY <1>1, <1>2, <1>6
<1>8. IsSequence(s)
  BY <1>7, SeqOfRange DEF IsSequence, Range
<1>9. Good(N, s, at)
  BY <1>2, <1>6
<1> HIDE DEF s
<1>10. at \in [DOMAIN s -> kept]
  BY <1>7, <1>9
<1>11. /\ \A i \in DOMAIN s : s[i] = values[at[i]]
       /\ \A i, j \in DOMAIN s : at[i] = at[j] => i = j
       /\ \A k \in kept : \E i \in DOMAIN s : at[i] = k
  BY <1>7, <1>9
<1> HIDE DEF Good
<1>12. IsSequence(s) /\ \E f \in [DOMAIN s -> kept] :
              /\ \A i \in DOMAIN s : s[i] = values[f[i]]
              /\ \A i, j \in DOMAIN s : f[i] = f[j] => i = j
              /\ \A k \in kept : \E i \in DOMAIN s : f[i] = k
  BY <1>8, <1>10, <1>11
<1> QED BY <1>12 DEF s

\* The values of two sequences, one after the other
Joined(u, s, t) ==
  /\ IsSequence(u)
  /\ \A i \in DOMAIN u : (\E j \in DOMAIN s : u[i] = s[j]) \/ \E j \in DOMAIN t : u[i] = t[j]
  /\ \A j \in DOMAIN s : \E i \in DOMAIN u : u[i] = s[j]

LEMMA ValuesAreSequence == ASSUME NEW R, NEW u \in Seq(R) PROVE IsSequence(u)
  BY SeqOfRange DEF IsSequence, Range

LEMMA ConcatIs == ASSUME NEW s, IsSequence(s), NEW t, IsSequence(t) PROVE Joined(s \o t, s, t)
<1> DEFINE R == {s[i] : i \in DOMAIN s} \cup {t[i] : i \in DOMAIN t}
           u == s \o t
<1>1. s \in Seq(R) /\ t \in Seq(R)
  <2>1. \A S, T, q : q \in Seq(S) /\ S \subseteq T => q \in Seq(T)
    BY SeqMonotonic
  <2> QED BY <2>1 DEF IsSequence
<1> HIDE DEF R
<1>2. /\ u \in Seq(R)
      /\ Len(u) = Len(s) + Len(t)
      /\ \A i \in 1 .. Len(s) : u[i] = s[i]
      /\ \A i \in 1 .. Len(t) : u[Len(s) + i] = t[i]
  <2>1. Len(s) \in Nat /\ Len(t) \in Nat
    BY <1>1
  <2> QED BY <1>1, <2>1, ConcatProperties
<1> HIDE DEF u
<1>3. /\ DOMAIN s = 1 .. Len(s) /\ DOMAIN t = 1 .. Len(t) /\ DOMAIN u = 1 .. Len(s) + Len(t)
      /\ Len(s) \in Nat /\ Len(t) \in Nat
  BY <1>1, <1>2
<1>4. IsSequence(u)
  BY <1>2, ValuesAreSequence
<1>5. ASSUME NEW i \in DOMAIN u
      PROVE  (\E j \in DOMAIN s : u[i] = s[j]) \/ (\E j \in DOMAIN t : u[i] = t[j])
  <2>1. CASE i \in 1 .. Len(s)
    BY <1>2, <1>3, <2>1
  <2>2. CASE i - Len(s) \in 1 .. Len(t)
    <3>1. u[Len(s) + (i - Len(s))] = t[i - Len(s)] /\ Len(s) + (i - Len(s)) = i
      BY <1>2, <1>3, <2>2
    <3> QED BY <1>3, <2>2, <3>1
  <2> QED BY <1>3, <2>1, <2>2
<1>6. \A j \in DOMAIN s : \E i \in DOMAIN u : u[i] = s[j]
  BY <1>2, <1>3
<1>7. Joined(u, s, t)
  BY <1>4, <1>5, <1>6 DEF Joined
<1> QED BY <1>7 DEF u

LEMMA MapIsSequence ==
  ASSUME NEW s, IsSequence(s), NEW t, t = [i \in DOMAIN s |-> t[i]]
  PROVE  IsSequence(t) /\ DOMAIN t = DOMAIN s
<1>1. PICK n \in Nat : DOMAIN s = 1 .. n
  BY DEF IsSequence
<1> DEFINE R == {t[i] : i \in DOMAIN t}
<1>2. DOMAIN t = 1 .. n
  BY <1>1
<1>3. \A i \in 1 .. n : t[i] \in R
  BY <1>2
<1>4. t = [i \in 1 .. n |-> t[i]]
  BY <1>1
<1> HIDE DEF R
<1>5. t \in Seq(R)
  BY <1>3, <1>4
<1> QED BY <1>1, <1>2, <1>5 DEF IsSequence, R

\* Gathering every value gives the values.
LEMMA GatheredAll ==
  ASSUME NEW values, IsSequence(values)
  PROVE  Gathered(values, DOMAIN values) = values
<1> DEFINE N == Len(values)
           R == {values[i] : i \in DOMAIN values}
           kept == DOMAIN values
<1>1. N \in Nat /\ kept = 1 .. N /\ values = [i \in 1 .. N |-> values[i]]
  BY DEF IsSequence
<1> HIDE DEF N, kept
<1>2. PICK u : Gathers(u, values, kept, N) /\ Gathered(values, kept) = u[N]
  <2>1. \E u : Gathers(u, values, kept, N)
    BY <1>1, GatheringIs
  <2>2. Gathered(values, kept) = (CHOOSE u : Gathers(u, values, kept, N))[N]
    BY DEF Gathered, Gathers, N
  <2> QED BY <2>1, <2>2
<1> DEFINE upTo(n) == [i \in 1 .. n |-> values[i]]
           S == {n \in Nat : n <= N => u[n] = upTo(n)}
<1>3. 0 \in S
  <2>1. u[0] = <<>>
    BY <1>1, <1>2 DEF Gathers
  <2>2. upTo(0) = <<>>
    OBVIOUS
  <2> QED BY <2>1, <2>2
<1>4. ASSUME NEW n \in Nat, n \in S
      PROVE  n + 1 \in S
  <2> SUFFICES ASSUME n + 1 <= N
               PROVE  u[n + 1] = upTo(n + 1)
    OBVIOUS
  <2>1. u[n] = upTo(n)
    BY <1>1, <1>4
  <2>2. u[n + 1] = Append(u[n], values[n + 1])
    <3>1. n + 1 \in 0 .. N /\ n + 1 # 0 /\ (n + 1) - 1 = n /\ n + 1 \in kept
      BY <1>1
    <3> QED BY <1>2, <3>1 DEF Gathers
  <2>3. Append(upTo(n), values[n + 1]) = upTo(n + 1)
    <3> DEFINE s == upTo(n)
               T == {values[i] : i \in 1 .. N}
    <3>1. s \in Seq(T) /\ Len(s) = n /\ values[n + 1] \in T
      <4>1. \A i \in 1 .. n : values[i] \in T
        BY <1>1
      <4>2. values[n + 1] \in T
        BY <1>1
      <4> QED BY <4>1, <4>2
    <3>2. \A i \in 1 .. n : s[i] = values[i]
      OBVIOUS
    <3> HIDE DEF s
    <3>3. /\ DOMAIN Append(s, values[n + 1]) = 1 .. n + 1
          /\ Append(s, values[n + 1])[n + 1] = values[n + 1]
          /\ \A i \in 1 .. n : Append(s, values[n + 1])[i] = s[i]
          /\ Append(s, values[n + 1]) \in Seq(T)
      BY <3>1
    <3>4. \A i \in 1 .. n + 1 : Append(s, values[n + 1])[i] = values[i]
      BY <3>2, <3>3
    <3>5. Append(s, values[n + 1]) = [i \in 1 .. n + 1 |-> Append(s, values[n + 1])[i]]
      BY <3>3
    <3> QED BY <3>4, <3>5 DEF s
  <2> QED BY <2>1, <2>2, <2>3
<1> HIDE DEF S
<1>5. N \in S
  BY <1>1, <1>3, <1>4, SetInduction
<1>6. u[N] = upTo(N)
  BY <1>1, <1>5 DEF S
<1> QED BY <1>1, <1>2, <1>6 DEF kept

-----------------------------------------------------------------------------
(* Routes *)

Distinct(routes) ==
  \A i, j \in DOMAIN routes : StorageKey(routes[i]) = StorageKey(routes[j]) => i = j

\* The routes are among the others.
Among(routes, others) == \A i \in DOMAIN routes : \E j \in DOMAIN others : routes[i] = others[j]

LEMMA SameKeys ==
  ASSUME NEW r, NEW q, RouteKey(r) = RouteKey(q)
  PROVE  StorageKey(r) = StorageKey(q)
<1>1. r.transport = q.transport
  BY DEF RouteKey
<1> QED BY <1>1 DEF StorageKey, IsDirect

\* What deduplicate_configured_routes keeps of the routes it is given
LEMMA DeduplicatedIs ==
  ASSUME NEW routes, IsSequence(routes)
  PROVE  LET kept == Deduplicate(routes) IN
         /\ IsSequence(kept) /\ Distinct(kept) /\ Among(kept, routes)
         /\ routes # <<>> => kept # <<>>
<1> DEFINE First(i) == \A j \in 1 .. i - 1 : StorageKey(routes[j]) # StorageKey(routes[i])
           Newest(i) == CHOOSE j \in DOMAIN routes :
                          /\ StorageKey(routes[j]) = StorageKey(routes[i])
                          /\ \A k \in j + 1 .. Len(routes) : StorageKey(routes[k]) # StorageKey(routes[i])
           values == [i \in DOMAIN routes |-> routes[Newest(i)]]
           first == {i \in DOMAIN routes : First(i)}
           kept == Gathered(values, first)
<1>1. Len(routes) \in Nat /\ DOMAIN routes = 1 .. Len(routes)
  BY DEF IsSequence
<1>2. \A i \in DOMAIN routes : Newest(i) \in DOMAIN routes /\ StorageKey(routes[Newest(i)]) = StorageKey(routes[i])
  <2> TAKE i \in DOMAIN routes
  <2> DEFINE T == {j \in DOMAIN routes : StorageKey(routes[j]) = StorageKey(routes[i])}
  <2>1. PICK j \in T : \A k \in T : k <= j
    BY <1>1, GreatestNumber
  <2>2. \A k \in j + 1 .. Len(routes) : k \in DOMAIN routes /\ ~(k <= j)
    BY <1>1, <2>1
  <2>3. \A k \in j + 1 .. Len(routes) : StorageKey(routes[k]) # StorageKey(routes[i])
    BY <2>1, <2>2
  <2>4. \E n \in DOMAIN routes :
          /\ StorageKey(routes[n]) = StorageKey(routes[i])
          /\ \A k \in n + 1 .. Len(routes) : StorageKey(routes[k]) # StorageKey(routes[i])
    BY <2>1, <2>3
  <2> QED BY <2>4
<1>3. Deduplicate(routes) = kept
  BY DEF Deduplicate
<1> HIDE DEF Newest
<1>4. IsSequence(values) /\ first \subseteq DOMAIN values
  <2>1. values = [i \in DOMAIN routes |-> values[i]]
    OBVIOUS
  <2> HIDE DEF values
  <2> QED BY <2>1, MapIsSequence
<1>5. \A i \in DOMAIN routes : values[i] = routes[Newest(i)] /\ StorageKey(values[i]) = StorageKey(routes[i])
  BY <1>2
<1>6. \A i, j \in first : StorageKey(routes[i]) = StorageKey(routes[j]) => i = j
  <2> SUFFICES ASSUME NEW i \in first, NEW j \in first, i < j
               PROVE  StorageKey(routes[i]) # StorageKey(routes[j])
    BY <1>1
  <2>1. i \in 1 .. j - 1
    BY <1>1
  <2> QED BY <2>1
<1>7. routes # <<>> => 1 \in first
  <2> SUFFICES ASSUME routes # <<>>
               PROVE  1 \in first
    OBVIOUS
  <2>1. 1 \in DOMAIN routes
    BY <1>1 DEF IsSequence
  <2> QED BY <2>1
<1> HIDE DEF values, first
<1>8. /\ IsSequence(kept)
      /\ \E at \in [DOMAIN kept -> first] :
              /\ \A i \in DOMAIN kept : kept[i] = values[at[i]]
              /\ \A i, j \in DOMAIN kept : at[i] = at[j] => i = j
              /\ \A k \in first : \E i \in DOMAIN kept : at[i] = k
  BY <1>4, GatheredIs
<1> HIDE DEF kept
<1>9. PICK at \in [DOMAIN kept -> first] :
              /\ \A i \in DOMAIN kept : kept[i] = values[at[i]]
              /\ \A i, j \in DOMAIN kept : at[i] = at[j] => i = j
              /\ \A k \in first : \E i \in DOMAIN kept : at[i] = k
  BY <1>8
<1>10. first \subseteq DOMAIN routes
  BY DEF first
<1>11. Distinct(kept)
  <2> SUFFICES ASSUME NEW i \in DOMAIN kept, NEW j \in DOMAIN kept,
                      StorageKey(kept[i]) = StorageKey(kept[j])
               PROVE  i = j
    BY DEF Distinct
  <2>1. at[i] \in first /\ at[j] \in first
    BY <1>9
  <2>2. StorageKey(routes[at[i]]) = StorageKey(routes[at[j]])
    BY <1>5, <1>9, <1>10, <2>1
  <2> QED BY <1>6, <1>9, <2>1, <2>2
<1>12. Among(kept, routes)
  <2> SUFFICES ASSUME NEW i \in DOMAIN kept
               PROVE  \E j \in DOMAIN routes : kept[i] = routes[j]
    BY DEF Among
  <2>1. at[i] \in DOMAIN routes
    BY <1>9, <1>10
  <2> QED BY <1>2, <1>5, <1>9, <2>1
<1>13. routes # <<>> => kept # <<>>
  BY <1>7, <1>9
<1> QED BY <1>3, <1>8, <1>11, <1>12, <1>13

\* Distinct routes are kept as they are.
LEMMA DistinctStays ==
  ASSUME NEW routes, IsSequence(routes), Distinct(routes)
  PROVE  Deduplicate(routes) = routes
<1> DEFINE First(i) == \A j \in 1 .. i - 1 : StorageKey(routes[j]) # StorageKey(routes[i])
           Newest(i) == CHOOSE j \in DOMAIN routes :
                          /\ StorageKey(routes[j]) = StorageKey(routes[i])
                          /\ \A k \in j + 1 .. Len(routes) : StorageKey(routes[k]) # StorageKey(routes[i])
           values == [i \in DOMAIN routes |-> routes[Newest(i)]]
           first == {i \in DOMAIN routes : First(i)}
<1>1. Len(routes) \in Nat /\ DOMAIN routes = 1 .. Len(routes)
  BY DEF IsSequence
<1>2. \A i \in DOMAIN routes : First(i)
  <2> SUFFICES ASSUME NEW i \in DOMAIN routes, NEW j \in 1 .. i - 1
               PROVE  StorageKey(routes[j]) # StorageKey(routes[i])
    OBVIOUS
  <2>1. j \in DOMAIN routes /\ j # i
    BY <1>1
  <2> QED BY <2>1 DEF Distinct
<1>3. \A i \in DOMAIN routes : Newest(i) = i
  <2> TAKE i \in DOMAIN routes
  <2>1. \A k \in i + 1 .. Len(routes) : k \in DOMAIN routes /\ k # i
    BY <1>1
  <2>2. \A k \in i + 1 .. Len(routes) : StorageKey(routes[k]) # StorageKey(routes[i])
    BY <2>1 DEF Distinct
  <2> QED BY <2>2 DEF Distinct
<1>4. first = DOMAIN routes
  BY <1>2
<1>5. values = routes
  <2>1. routes = [i \in DOMAIN routes |-> routes[i]]
    BY DEF IsSequence
  <2> HIDE DEF Newest
  <2> QED BY <1>3, <2>1
<1>6. Deduplicate(routes) = Gathered(values, first)
  BY DEF Deduplicate
<1> HIDE DEF values, first
<1> QED BY <1>4, <1>5, <1>6, GatheredAll

\* The active route is one of the routes.
LEMMA SelectedIs ==
  ASSUME NEW routes, IsSequence(routes), routes # <<>>, NEW key
  PROVE  \E i \in DOMAIN routes : SelectActive(routes, key) = routes[i]
<1>1. DOMAIN routes \subseteq Nat /\ 1 \in DOMAIN routes
  BY DEF IsSequence
<1> DEFINE FirstOf(S) == CHOOSE i \in S : \A j \in S : i <= j
           exact == {i \in DOMAIN routes : RouteKey(routes[i]) = key}
           same == {i \in DOMAIN routes :
                      IsDirect(routes[i]) /\ IsDirect(key) /\ DirectKey(routes[i]) = DirectKey(key)}
<1>2. \A S : S \subseteq DOMAIN routes /\ S # {} => FirstOf(S) \in DOMAIN routes
  <2> SUFFICES ASSUME NEW S, S \subseteq DOMAIN routes, S # {}
               PROVE  FirstOf(S) \in DOMAIN routes
    OBVIOUS
  <2>1. \E i \in S : \A j \in S : i <= j
    BY <1>1, LeastNumber
  <2> QED BY <2>1
<1>3. SelectActive(routes, key) = IF key # NoKey /\ exact # {} THEN routes[FirstOf(exact)]
                                  ELSE IF key # NoKey /\ same # {} THEN routes[FirstOf(same)]
                                  ELSE routes[1]
  BY DEF SelectActive
<1>4. exact \subseteq DOMAIN routes /\ same \subseteq DOMAIN routes
  OBVIOUS
<1> HIDE DEF FirstOf, exact, same
<1> QED BY <1>1, <1>2, <1>3, <1>4

LEMMA KeyIsSome == \A r : RouteKey(r) # NoKey
<1>1. \A r : DOMAIN RouteKey(r) = {"transport", "ep", "slave"}
  BY DEF RouteKey
<1>2. DOMAIN NoKey = {"transport"}
  BY DEF NoKey
<1> QED BY <1>1, <1>2

\* Among distinct routes, the key of one selects it.
LEMMA SelectedOwn ==
  ASSUME NEW routes, IsSequence(routes), Distinct(routes), NEW i \in DOMAIN routes
  PROVE  SelectActive(routes, RouteKey(routes[i])) = routes[i]
<1> DEFINE key == RouteKey(routes[i])
           exact == {j \in DOMAIN routes : RouteKey(routes[j]) = key}
<1>1. exact = {i}
  BY SameKeys DEF Distinct
<1>2. DOMAIN routes \subseteq Nat
  BY DEF IsSequence
<1>3. (CHOOSE k \in exact : \A j \in exact : k <= j) = i
  BY <1>1, <1>2
<1>4. key # NoKey
  BY KeyIsSome
<1>5. SelectActive(routes, key) = routes[CHOOSE k \in exact : \A j \in exact : k <= j]
  BY <1>1, <1>4 DEF SelectActive
<1> QED BY <1>3, <1>5

-----------------------------------------------------------------------------
(* Entries and what is written over them *)

\* The data of an entry written over another: the same entry.
Written(d, e) ==
  /\ IsEntry(d) /\ d.uid = e.uid
  /\ e.version = LatestVersion =>
       /\ d.version = LatestVersion /\ d.bus = e.bus
       /\ ~e.bus => d.serial = e.serial /\ d.title = e.title

\* The same, and the entry has its meters still.
Keeps(d, e) ==
  /\ IsEntry(d) /\ d.uid = e.uid
  /\ e.version = LatestVersion => d.version = LatestVersion
  /\ d.bus = e.bus
  /\ ~e.bus => d.serial = e.serial /\ d.title = e.title
  /\ SerialsOf(e) \subseteq SerialsOf(d)

LEMMA KeepsIsWritten == ASSUME NEW d, NEW e, Keeps(d, e) PROVE Written(d, e)
  BY DEF Keeps, Written

LEMMA KeepsItself == ASSUME NEW e, IsEntry(e) PROVE Keeps(e, e)
  BY DEF Keeps

LEMMA KeepsTransitive ==
  ASSUME NEW c, NEW d, NEW e, Keeps(c, d), Keeps(d, e)
  PROVE  Keeps(c, e)
  BY DEF Keeps

LEMMA WithRoutesKeeps ==
  ASSUME NEW e, IsEntry(e), ~e.bus, NEW routes, NEW key
  PROVE  Keeps(WithRoutes(e, routes, key), e)
<1> DEFINE kept == Deduplicate(routes)
           active == SelectActive(kept, key)
           d == WithRoutes(e, routes, key)
<1> HIDE DEF kept, active
<1>1. d = [e EXCEPT !.transport = active.transport, !.ep = active.ep, !.line = active.line,
               !.slave = active.slave, !.routes = kept, !.active = RouteKey(active)]
  BY DEF WithRoutes, kept, active
<1> HIDE DEF d
<1>2. /\ DOMAIN d = DOMAIN e
      /\ \A f \in {"version", "serial", "title", "bus", "meters", "uid"} : d[f] = e[f]
  BY <1>1 DEF IsEntry, EntryFields
<1>3. IsEntry(d)
  BY <1>2 DEF IsEntry
<1> QED BY <1>2, <1>3 DEF Keeps, SerialsOf, d

-----------------------------------------------------------------------------
(* What the operators on entries keep *)

\* Bluetooth and Zeroconf change where a meter is, not which it is.
LEMMA FieldsKeep ==
  ASSUME NEW e, IsEntry(e), ~e.bus, NEW d, DOMAIN d = DOMAIN e,
         \A f \in {"version", "serial", "title", "bus", "meters", "uid"} : d[f] = e[f]
  PROVE  Keeps(d, e)
<1>1. IsEntry(d)
  BY DEF IsEntry
<1> QED BY <1>1 DEF Keeps, SerialsOf

LEMMA ZeroconfKeeps ==
  ASSUME NEW e, IsEntry(e), NEW ep
  PROVE  Keeps(ZeroconfUpdate(e, ep), e)
<1>1. CASE e.bus \/ ~IsDirect(e)
  BY <1>1, KeepsItself DEF ZeroconfUpdate
<1>2. CASE ~e.bus /\ IsDirect(e) /\ e.routes = <<>>
  <2> DEFINE d == [e EXCEPT !.ep = ep]
  <2>1. DOMAIN d = DOMAIN e
    OBVIOUS
  <2>2. \A f \in {"version", "serial", "title", "bus", "meters", "uid"} : d[f] = e[f]
    BY DEF IsEntry, EntryFields
  <2>3. Keeps(d, e)
    BY <1>2, <2>1, <2>2, FieldsKeep
  <2> QED BY <1>2, <2>3 DEF ZeroconfUpdate
<1>3. CASE ~e.bus /\ IsDirect(e) /\ e.routes # <<>>
  <2>1. \E routes, key : ZeroconfUpdate(e, ep) = WithRoutes(e, routes, key)
    BY <1>3 DEF ZeroconfUpdate
  <2> QED BY <1>3, <2>1, WithRoutesKeeps
<1> QED BY <1>1, <1>2, <1>3 DEF IsEntry

LEMMA BluetoothKeeps ==
  ASSUME NEW e, IsEntry(e), NEW ep, NEW name
  PROVE  Keeps(BluetoothUpdate(e, ep, name), e)
<1>1. CASE e.bus \/ e.transport # "bluetooth"
  BY <1>1, KeepsItself DEF BluetoothUpdate
<1>2. CASE ~e.bus /\ e.transport = "bluetooth"
  <2>1. PICK routes, key : BluetoothUpdate(e, ep, name) =
               [e EXCEPT !.ep = ep, !.line = name, !.routes = routes, !.active = key]
    BY <1>2 DEF BluetoothUpdate
  <2> DEFINE d == [e EXCEPT !.ep = ep, !.line = name, !.routes = routes, !.active = key]
  <2>2. DOMAIN d = DOMAIN e
    OBVIOUS
  <2>3. \A f \in {"version", "serial", "title", "bus", "meters", "uid"} : d[f] = e[f]
    BY DEF IsEntry, EntryFields
  <2>4. Keeps(d, e)
    BY <1>2, <2>2, <2>3, FieldsKeep
  <2> QED BY <2>1, <2>4
<1> QED BY <1>1, <1>2 DEF IsEntry

\* A bus whose meters were written, each over itself
LEMMA MetersKeep ==
  ASSUME NEW e, IsEntry(e), e.bus, NEW t, t = [i \in DOMAIN e.meters |-> t[i]],
         \A i \in DOMAIN t : DOMAIN t[i] = MeterFields /\ t[i].serial = e.meters[i].serial
  PROVE  Keeps([e EXCEPT !.meters = t], e)
<1> DEFINE d == [e EXCEPT !.meters = t]
<1>1. DOMAIN d = DOMAIN e /\ d.meters = t
  BY DEF IsEntry, EntryFields
<1>2. \A f \in {"version", "serial", "title", "bus", "uid"} : d[f] = e[f]
  BY DEF IsEntry, EntryFields
<1>3. IsSequence(t) /\ DOMAIN t = DOMAIN e.meters
  BY MapIsSequence DEF IsEntry
<1> HIDE DEF d
<1>4. IsEntry(d)
  BY <1>1, <1>2, <1>3 DEF IsEntry
<1>5. SerialsOf(e) \subseteq SerialsOf(d)
  BY <1>1, <1>2, <1>3 DEF SerialsOf
<1> QED BY <1>2, <1>4, <1>5 DEF Keeps, d

LEMMA MeterKeeps ==
  ASSUME NEW m, DOMAIN m = MeterFields, NEW routes, NEW key
  PROVE  LET n == WithMeterRoutes(m, routes, key) IN
         DOMAIN n = MeterFields /\ n.serial = m.serial
<1>1. PICK slave, kept, active :
        WithMeterRoutes(m, routes, key) = [m EXCEPT !.slave = slave, !.routes = kept, !.active = active]
  BY DEF WithMeterRoutes
<1> QED BY <1>1 DEF MeterFields

LEMMA EnsuredMeterKeeps ==
  ASSUME NEW m, DOMAIN m = MeterFields, NEW bus
  PROVE  LET n == EnsureBusRoute(m, bus) IN
         DOMAIN n = MeterFields /\ n.serial = m.serial
<1>1. \E routes, key : EnsureBusRoute(m, bus) = WithMeterRoutes(m, routes, key)
  BY DEF EnsureBusRoute
<1> QED BY <1>1, MeterKeeps

LEMMA NormalizeKeeps ==
  ASSUME NEW e, IsEntry(e)
  PROVE  Keeps(Normalize(e), e)
<1>1. CASE e.bus
  <2> DEFINE t == [i \in DOMAIN e.meters |->
                     IF e.meters[i].routes = <<>> THEN e.meters[i]
                     ELSE WithMeterRoutes(e.meters[i], e.meters[i].routes, e.meters[i].active)]
  <2>1. Normalize(e) = [e EXCEPT !.meters = t]
    BY <1>1 DEF Normalize, ForMeters
  <2>2. \A i \in DOMAIN t : DOMAIN t[i] = MeterFields /\ t[i].serial = e.meters[i].serial
    BY MeterKeeps DEF IsEntry
  <2>3. t = [i \in DOMAIN e.meters |-> t[i]]
    OBVIOUS
  <2> HIDE DEF t
  <2> QED BY <1>1, <2>1, <2>2, <2>3, MetersKeep
<1>2. CASE ~e.bus
  BY <1>2, KeepsItself, WithRoutesKeeps DEF Normalize
<1> QED BY <1>1, <1>2

LEMMA EnsuredKeeps ==
  ASSUME NEW e, IsEntry(e), e.bus, NEW bus
  PROVE  Keeps([e EXCEPT !.meters = [i \in DOMAIN e.meters |-> EnsureBusRoute(e.meters[i], bus)]], e)
<1> DEFINE t == [i \in DOMAIN e.meters |-> EnsureBusRoute(e.meters[i], bus)]
<1>2. \A i \in DOMAIN t : DOMAIN t[i] = MeterFields /\ t[i].serial = e.meters[i].serial
  BY EnsuredMeterKeeps DEF IsEntry
<1>3. t = [i \in DOMAIN e.meters |-> t[i]]
  OBVIOUS
<1> HIDE DEF t
<1>4. Keeps([e EXCEPT !.meters = t], e)
  BY <1>2, <1>3, MetersKeep
<1> QED BY <1>4 DEF t

\* The meter with the key of another has the serial of the other.
LEMMA SelectedSerial ==
  ASSUME NEW e, IsEntry(e), NEW i \in DOMAIN e.meters
  PROVE  LET s == Selected(e, MeterKey(e.meters[i])) IN
         DOMAIN s = MeterFields /\ s.serial = e.meters[i].serial
<1> DEFINE k == MeterKey(e.meters[i])
           s == Selected(e, k)
<1>1. PICK j \in DOMAIN e.meters : s = e.meters[j] /\ MeterKey(e.meters[j]) = k
  BY DEF Selected
<1>2. \A a, b, c : <<a>> # <<b, c>>
  OBVIOUS
<1>3. e.meters[j].serial = e.meters[i].serial
  BY <1>1, <1>2 DEF MeterKey
<1> QED BY <1>1, <1>3 DEF IsEntry

LEMMA ApplyKeepsBus ==
  ASSUME NEW e, IsEntry(e), e.bus, NEW k, k # NoMeter, NEW data, NEW routes, NEW key
  PROVE  Keeps(Apply(e, k, data, routes, key), e)
<1> DEFINE m(i) == IF MeterKey(e.meters[i]) = k THEN WithMeterRoutes(Selected(e, k), routes, key)
                   ELSE e.meters[i]
           t == [i \in DOMAIN e.meters |-> EnsureBusRoute(m(i), e)]
<1>1. Apply(e, k, data, routes, key) = [e EXCEPT !.meters = t]
  BY DEF Apply, ForMeters
<1>2. \A i \in DOMAIN e.meters : DOMAIN m(i) = MeterFields /\ m(i).serial = e.meters[i].serial
  <2> SUFFICES ASSUME NEW i \in DOMAIN e.meters
               PROVE  DOMAIN m(i) = MeterFields /\ m(i).serial = e.meters[i].serial
    OBVIOUS
  <2>1. CASE MeterKey(e.meters[i]) # k
    BY <2>1 DEF IsEntry
  <2>2. CASE MeterKey(e.meters[i]) = k
    <3>1. DOMAIN Selected(e, k) = MeterFields /\ Selected(e, k).serial = e.meters[i].serial
      BY <2>2, SelectedSerial
    <3> QED BY <2>2, <3>1, MeterKeeps
  <2> QED BY <2>1, <2>2
<1> HIDE DEF m
<1>3. \A i \in DOMAIN t : DOMAIN t[i] = MeterFields /\ t[i].serial = e.meters[i].serial
  BY <1>2, EnsuredMeterKeeps
<1>4. t = [i \in DOMAIN e.meters |-> t[i]]
  OBVIOUS
<1> HIDE DEF t
<1> QED BY <1>1, <1>3, <1>4, MetersKeep

LEMMA ApplyKeepsSingle ==
  ASSUME NEW e, NEW data, IsEntry(data), ~data.bus, NEW routes, NEW key
  PROVE  Keeps(Apply(e, NoMeter, data, routes, key), data)
  BY WithRoutesKeeps DEF Apply

LEMMA EditedBusKeeps ==
  ASSUME NEW e, IsEntry(e), e.bus, NEW ep, NEW line, NEW slaves
  PROVE  Keeps(EditedBus(e, ep, line, slaves), e)
<1> DEFINE bus == [e EXCEPT !.ep = ep, !.line = line]
<1>1. Keeps(bus, e) /\ bus.meters = e.meters
  <2>1. DOMAIN bus = DOMAIN e /\ \A f \in {"version", "serial", "title", "bus", "meters", "uid"} : bus[f] = e[f]
    BY DEF IsEntry, EntryFields
  <2> HIDE DEF bus
  <2>2. IsEntry(bus)
    BY <2>1 DEF IsEntry
  <2> QED BY <2>1, <2>2 DEF Keeps, SerialsOf
<1> HIDE DEF bus
<1> DEFINE t == [i \in DOMAIN bus.meters |->
                   EditedMeter(bus.meters[i], e, bus, slaves[MeterKey(bus.meters[i])])]
<1>2. EditedBus(e, ep, line, slaves) = [bus EXCEPT !.meters = t]
  BY DEF EditedBus, ForMeters, bus
<1>3. \A i \in DOMAIN t : DOMAIN t[i] = MeterFields /\ t[i].serial = bus.meters[i].serial
  <2> SUFFICES ASSUME NEW i \in DOMAIN e.meters
               PROVE  DOMAIN t[i] = MeterFields /\ t[i].serial = e.meters[i].serial
    BY <1>1
  <2>1. \E routes, key : t[i] = EnsureBusRoute(WithMeterRoutes(e.meters[i], routes, key), bus)
    BY <1>1 DEF EditedMeter
  <2> QED BY <2>1, MeterKeeps, EnsuredMeterKeeps DEF IsEntry
<1>4. t = [i \in DOMAIN bus.meters |-> t[i]]
  OBVIOUS
<1> HIDE DEF t
<1>5. Keeps([bus EXCEPT !.meters = t], bus)
  BY <1>1, <1>3, <1>4, MetersKeep DEF Keeps
<1> QED BY <1>1, <1>2, <1>5, KeepsTransitive

\* Meters that are added to a bus
LEMMA AppendedKeeps ==
  ASSUME NEW e, IsEntry(e), e.bus, NEW s, IsSequence(s),
         \A i \in DOMAIN s : DOMAIN s[i] = MeterFields
  PROVE  Keeps([e EXCEPT !.meters = @ \o s], e)
<1> DEFINE d == [e EXCEPT !.meters = @ \o s]
           u == e.meters \o s
<1>1. DOMAIN d = DOMAIN e /\ d.meters = u
  BY DEF IsEntry, EntryFields
<1>2. \A f \in {"version", "serial", "title", "bus", "uid"} : d[f] = e[f]
  BY DEF IsEntry, EntryFields
<1>3. IsSequence(e.meters)
  BY DEF IsEntry
<1>4. Joined(u, e.meters, s)
  BY <1>3, ConcatIs
<1> HIDE DEF u, d
<1>7. \A i \in DOMAIN d.meters : DOMAIN d.meters[i] = MeterFields
  BY <1>1, <1>4 DEF IsEntry, Joined
<1>8. IsEntry(d)
  BY <1>1, <1>2, <1>4, <1>7 DEF IsEntry, Joined
<1>9. SerialsOf(e) \subseteq SerialsOf(d)
  BY <1>1, <1>2, <1>4 DEF SerialsOf, Joined
<1> QED BY <1>2, <1>8, <1>9 DEF Keeps, d

\* The elements of a finite set, in some order
LEMMA SetToSeqIs ==
  ASSUME NEW S, IsFiniteSet(S)
  PROVE  IsSequence(SetToSeq(S)) /\ \A i \in DOMAIN SetToSeq(S) : SetToSeq(S)[i] \in S
<1>1. Cardinality(S) \in Nat /\ ExistsBijection(1 .. Cardinality(S), S)
  BY FS_CardinalityType
<1>2. \E f \in [1 .. Cardinality(S) -> S] : IsInjective(f)
  BY <1>1 DEF ExistsBijection, Bijection, Injection, IsInjective
<1>3. SetToSeq(S) \in [1 .. Cardinality(S) -> S]
  BY <1>2 DEF SetToSeq
<1>4. SetToSeq(S) \in Seq(S)
  BY <1>1, <1>3
<1> QED BY <1>3, <1>4, SeqOfRange DEF IsSequence, Range

\* Subsets of what was found on a bus are finite.
LEMMA FoundIsFinite ==
  ASSUME NEW ep
  PROVE  IsFiniteSet(OnBus(ep, Slaves))
<1> DEFINE found(s) == [serial |-> Reaches[<<Canonical[ep], s>>], slave |-> s]
<1>1. IsFiniteSet(Slaves)
  <2> DEFINE f == [r \in Inputs |-> r.slave]
  <2>1. f \in Surjection(Inputs, Slaves)
    BY DEF Surjection, Slaves
  <2> QED BY <2>1, FS_Surjection, InputsAssumption
<1>2. IsFiniteSet({found(s) : s \in Slaves})
  <2> DEFINE f == [s \in Slaves |-> found(s)]
  <2>1. f \in Surjection(Slaves, {found(s) : s \in Slaves})
    BY DEF Surjection
  <2> QED BY <1>1, <2>1, FS_Surjection
<1>3. OnBus(ep, Slaves) \subseteq {found(s) : s \in Slaves}
  BY DEF OnBus
<1> QED BY <1>2, <1>3, FS_Subset

LEMMA MigrateWrites ==
  ASSUME NEW e, IsEntry(e)
  PROVE  /\ Written(Migrate(e), e)
         /\ e.version = LatestVersion => Keeps(Migrate(e), e)
         /\ Migrate(e).version = LatestVersion
<1> DEFINE a == ToBus(e)
           b == WithSerial(a)
           c == WithFirstRoute(b)
           d == WithBusRoutes(c)
           z == [d EXCEPT !.version = LatestVersion]
<1>1. IsEntry(a) /\ a.uid = e.uid /\ (e.version = LatestVersion => a = e)
  <2>1. CASE a = e
    BY <2>1
  <2>2. CASE e.version < 2 /\ a # e
    <3> DEFINE m == [serial |-> e.title, variant |-> e.variant, slave |-> e.slave,
                     routes |-> <<>>, active |-> NoKey]
    <3>1. a = [e EXCEPT !.bus = TRUE, !.meters = <<m>>]
      BY <2>2 DEF ToBus
    <3>2. DOMAIN m = MeterFields
      BY DEF MeterFields
    <3> HIDE DEF m, a
    <3>3. /\ DOMAIN a = EntryFields /\ a.uid = e.uid /\ a.version = e.version
          /\ a.bus = TRUE /\ a.meters = <<m>>
      BY <3>1 DEF IsEntry, EntryFields
    <3>4. IsSequence(<<m>>) /\ DOMAIN <<m>> = {1} /\ <<m>>[1] = m
      BY DEF IsSequence
    <3>5. a.bus \in BOOLEAN
      BY <3>3
    <3> QED BY <2>2, <3>2, <3>3, <3>4, <3>5 DEF IsEntry, LatestVersion
  <2> QED BY <2>1, <2>2 DEF ToBus
<1> HIDE DEF a
<1>2. IsEntry(b) /\ b.uid = e.uid /\ (e.version = LatestVersion => b = e)
  <2>1. CASE b = a
    BY <1>1, <2>1
  <2>2. CASE a.version < 3 /\ ~a.bus /\ b = [a EXCEPT !.serial = a.title]
    <3>1. /\ DOMAIN b = EntryFields
          /\ \A f \in {"version", "bus", "meters", "uid"} : b[f] = a[f]
      BY <1>1, <2>2 DEF IsEntry, EntryFields
    <3>2. e.version # LatestVersion
      BY <1>1, <2>2 DEF LatestVersion
    <3> QED BY <1>1, <3>1, <3>2 DEF IsEntry
  <2> QED BY <2>1, <2>2 DEF WithSerial
<1> HIDE DEF b
<1>3. IsEntry(c) /\ c.uid = e.uid /\ (e.version = LatestVersion => c = e)
  BY <1>2, WithRoutesKeeps DEF WithFirstRoute, Keeps, LatestVersion
<1> HIDE DEF c
<1>4. IsEntry(d) /\ d.uid = e.uid /\ (e.version = LatestVersion => d = e)
  <2>1. CASE d = c
    BY <1>3, <2>1
  <2>2. CASE /\ c.version < 5 /\ c.bus
             /\ d = [c EXCEPT !.meters = [i \in DOMAIN c.meters |-> EnsureBusRoute(c.meters[i], c)]]
    BY <1>3, <2>2, EnsuredKeeps DEF Keeps, LatestVersion
  <2> QED BY <2>1, <2>2 DEF WithBusRoutes, ForMeters
<1> HIDE DEF d
<1>5. /\ DOMAIN z = EntryFields /\ z.version = LatestVersion
      /\ \A f \in {"bus", "meters", "uid", "serial", "title"} : z[f] = d[f]
  BY <1>4 DEF IsEntry, EntryFields
<1>6. z = Migrate(e)
  BY DEF Migrate, a, b, c, d
<1> HIDE DEF z
<1>7. IsEntry(z)
  BY <1>4, <1>5 DEF IsEntry, LatestVersion
<1>8. e.version = LatestVersion => Keeps(z, e)
  BY <1>4, <1>5, <1>7 DEF Keeps, SerialsOf
<1> QED BY <1>4, <1>5, <1>6, <1>7, <1>8, KeepsIsWritten DEF Written

LEMMA NewEntryIsEntry ==
  ASSUME NEW serial, NEW r
  PROVE  LET e == NewEntry(serial, r) IN
         IsEntry(e) /\ e.uid = serial /\ e.serial = serial /\ ~e.bus /\ e.version = LatestVersion
<1> DEFINE e == [version |-> LatestVersion, transport |-> r.transport, ep |-> r.ep, line |-> r.line,
              slave |-> r.slave, serial |-> serial, title |-> serial, variant |-> "grow",
              bus |-> FALSE, meters |-> <<>>, routes |-> <<>>, active |-> NoKey, uid |-> serial]
<1>1. DOMAIN e = EntryFields /\ e.version \in 1 .. LatestVersion
  BY DEF EntryFields, LatestVersion
<1>2. e.bus \in BOOLEAN
  OBVIOUS
<1>3. IsSequence(e.meters) /\ DOMAIN e.meters = {}
  BY DEF IsSequence
<1>4. IsEntry(e) /\ ~e.bus /\ e.uid = serial /\ e.serial = serial /\ e.version = LatestVersion
  BY <1>1, <1>2, <1>3 DEF IsEntry
<1>5. NewEntry(serial, r) = WithRoutes(e, <<r>>, NoKey)
  BY DEF NewEntry
<1> HIDE DEF e
<1> QED BY <1>4, <1>5, WithRoutesKeeps DEF Keeps

LEMMA NewBusIsEntry ==
  ASSUME NEW c, NEW s, IsSequence(s), \A i \in DOMAIN s : DOMAIN s[i] = MeterFields
  PROVE  LET e == NewBus(c, s) IN
         IsEntry(e) /\ e.uid = BusUid(c) /\ e.bus /\ e.version = LatestVersion
<1> DEFINE e == [version |-> LatestVersion, transport |-> c.transport, ep |-> c.ep, line |-> c.line,
            slave |-> 0, serial |-> NoSerial, title |-> NoSerial, variant |-> "grow",
            bus |-> TRUE, meters |-> s, routes |-> <<>>, active |-> NoKey, uid |-> BusUid(c)]
<1>1. DOMAIN e = EntryFields /\ e.version \in 1 .. LatestVersion /\ e.meters = s
  BY DEF EntryFields, LatestVersion
<1>2. e.bus \in BOOLEAN
  OBVIOUS
<1>4. IsEntry(e) /\ e.bus /\ e.uid = BusUid(c) /\ e.version = LatestVersion
  BY <1>1, <1>2 DEF IsEntry
<1>5. NewBus(c, s) = [e EXCEPT !.meters = [i \in DOMAIN e.meters |-> EnsureBusRoute(e.meters[i], e)]]
  BY DEF NewBus, ForMeters
<1> HIDE DEF e
<1> QED BY <1>4, <1>5, EnsuredKeeps DEF Keeps

-----------------------------------------------------------------------------
(* The store of entries *)

LEMMA LeastId ==
  ASSUME NEW T, T \subseteq Ids, T # {}
  PROVE  \E x \in T : \A y \in T : x <= y
  BY LeastNumber, IdsAssumption

LEMMA EntryIsSome == \A e : IsEntry(e) => e # NoEntry
<1>1. "uid" \in EntryFields /\ "uid" \notin DOMAIN NoEntry
  BY DEF EntryFields, NoEntry
<1> QED BY <1>1 DEF IsEntry

\* Every entry is one, with its own unique id; what the user saved is what its
\* coordinator runs with, from the start of its setup, unless a reload is due.
SavedRuns ==
  \A id \in saved :
    state[id] \in {"setup", "loaded"} /\ id \notin reload => running[id] = Connection(entries[id])

StoreOK ==
  /\ DOMAIN entries = Ids /\ DOMAIN state = Ids /\ DOMAIN running = Ids
  /\ saved \subseteq Present
  /\ \A id \in Present : IsEntry(entries[id])
  /\ \A id \in Ids \ Present : state[id] = "not_loaded"
  /\ \A i, j \in Present : entries[i].uid = entries[j].uid => i = j
  /\ SavedRuns

\* Entries stay the entries they are.
Steady == \A id \in Present : id \in Present' /\ Written(entries'[id], entries[id])

\* Meters stay the meters they are, on whatever entry it is.
NoMeterLost ==
  \A id \in Present :
    entries[id].version = LatestVersion => SerialsOf(entries[id]) \subseteq SerialsOf(entries'[id])

LEMMA Unwritten ==
  ASSUME StoreOK, UNCHANGED store
  PROVE  StoreOK' /\ Steady /\ NoMeterLost
<1>1. StoreOK'
  BY DEF store, StoreOK, SavedRuns, Present
<1> QED BY <1>1, KeepsItself, KeepsIsWritten DEF Steady, NoMeterLost, StoreOK, store, Present

\* One entry is written over.
LEMMA OneWritten ==
  ASSUME StoreOK, NEW id \in Present, NEW e, Written(e, entries[id]),
         entries' = [entries EXCEPT ![id] = e]
  PROVE  /\ Present' = Present /\ Steady
         /\ \A i \in Present : IsEntry(entries'[i])
         /\ \A i, j \in Present : entries'[i].uid = entries'[j].uid => i = j
         /\ Keeps(e, entries[id]) => NoMeterLost
<1>1. id \in Ids
  BY DEF Present
<1>2. /\ entries'[id] = e
      /\ \A i \in Ids \ {id} : entries'[i] = entries[i]
  BY <1>1 DEF StoreOK
<1>3. Present' = Present
  BY <1>1, <1>2, EntryIsSome DEF Present, StoreOK, Written
<1>4. \A i \in Present : Written(entries'[i], entries[i])
  BY <1>2, KeepsItself, KeepsIsWritten DEF StoreOK, Present
<1>5. Keeps(e, entries[id]) => NoMeterLost
  BY <1>2 DEF NoMeterLost, Present, Keeps
<1> QED BY <1>3, <1>4, <1>5 DEF Steady, StoreOK, Written

LEMMA SavedKeeps ==
  ASSUME StoreOK, NEW id \in Present, NEW e, Written(e, entries[id]), Saved(id, e)
  PROVE  /\ StoreOK' /\ Steady
         /\ Keeps(e, entries[id]) => NoMeterLost
<1>1. entries' = [entries EXCEPT ![id] = e]
  BY DEF Saved
<1>2. SavedRuns'
  BY <1>1 DEF Saved, SavedRuns, StoreOK, Present
<1> QED BY <1>1, <1>2, OneWritten DEF Saved, StoreOK

LEMMA RediscoveredKeeps ==
  ASSUME StoreOK, NEW id \in Present, NEW e, Keeps(e, entries[id]), NEW serial,
         Rediscovered(id, e, serial)
  PROVE  StoreOK' /\ Steady /\ NoMeterLost
<1>1. entries' = [entries EXCEPT ![id] = e] /\ Written(e, entries[id])
  BY KeepsIsWritten DEF Rediscovered
<1>2. SavedRuns'
  <2>1. ASSUME NEW i \in saved'
        PROVE  i \in saved /\ entries'[i] = entries[i]
    BY <1>1, <2>1 DEF Rediscovered, StoreOK, Present
  <2>2. /\ UNCHANGED <<state, running>>
        /\ reload \subseteq reload'
    BY DEF Rediscovered
  <2> QED BY <2>1, <2>2 DEF SavedRuns, StoreOK
<1>3. saved' \subseteq saved /\ UNCHANGED <<state, running>>
  BY DEF Rediscovered
<1> QED BY <1>1, <1>2, <1>3, OneWritten DEF StoreOK

LEMMA CreatedKeeps ==
  ASSUME StoreOK, NEW e, IsEntry(e), ~UidTaken(e.uid), Created(e)
  PROVE  StoreOK' /\ Steady /\ NoMeterLost
<1> DEFINE id == CHOOSE i \in Ids \ Present : \A j \in Ids \ Present : i <= j
<1>1. id \in Ids \ Present
  <2>1. Ids \ Present # {}
    BY DEF Created, Present
  <2> QED BY <2>1, LeastId
<1>2. /\ entries' = [entries EXCEPT ![id] = e] /\ saved' = saved \cup {id}
      /\ UNCHANGED <<state, reload, running>>
  BY DEF Created
<1> HIDE DEF id
<1>3. /\ entries'[id] = e
      /\ \A i \in Ids \ {id} : entries'[i] = entries[i]
  BY <1>1, <1>2 DEF StoreOK
<1>4. Present' = Present \cup {id}
  BY <1>1, <1>3, EntryIsSome DEF Present
<1>5. \A i \in Present : entries'[i] = entries[i] /\ i # id
  BY <1>1, <1>3 DEF Present
<1>6. state[id] = "not_loaded"
  BY <1>1 DEF StoreOK
<1>7. SavedRuns'
  BY <1>2, <1>5, <1>6 DEF SavedRuns, StoreOK
<1>8. \A i, j \in Present' : entries'[i].uid = entries'[j].uid => i = j
  BY <1>3, <1>4, <1>5 DEF StoreOK, UidTaken
<1>9. StoreOK'
  BY <1>1, <1>2, <1>3, <1>4, <1>5, <1>7, <1>8 DEF StoreOK
<1> QED BY <1>4, <1>5, <1>9, KeepsItself, KeepsIsWritten DEF Steady, NoMeterLost, StoreOK

LEMMA GatewayIdentityKeeps ==
  ASSUME NEW e, IsEntry(e)
  PROVE  Keeps(GatewayIdentity(e), e) /\ Connection(GatewayIdentity(e)) = Connection(e)
<1>1. CASE ~(e.bus /\ e.transport = "gateway")
  BY <1>1, KeepsItself DEF GatewayIdentity
<1>2. CASE e.bus /\ e.transport = "gateway"
  <2> DEFINE d == [e EXCEPT !.serial = "gateway"]
  <2>1. /\ DOMAIN d = EntryFields
        /\ \A f \in EntryFields \ {"serial"} : d[f] = e[f]
    BY DEF IsEntry
  <2>2. /\ d.version = e.version /\ d.bus = e.bus /\ d.meters = e.meters /\ d.uid = e.uid
        /\ d.transport = e.transport /\ d.ep = e.ep /\ d.line = e.line
    BY <2>1 DEF EntryFields
  <2>3. GatewayIdentity(e) = d
    BY <1>2 DEF GatewayIdentity
  <2> HIDE DEF d
  <2>4. IsEntry(d)
    BY <2>1, <2>2 DEF IsEntry
  <2>5. SerialsOf(d) = SerialsOf(e) /\ Connection(d) = Connection(e)
    BY <1>2, <2>2 DEF SerialsOf, Connection
  <2> QED BY <1>2, <2>2, <2>3, <2>4, <2>5 DEF Keeps
<1> QED BY <1>1, <1>2

\* The life of an entry
LEMMA StoreKeeps ==
  ASSUME StoreOK, StoreNext
  PROVE  StoreOK' /\ Steady /\ NoMeterLost
<1>0. PICK id \in Ids : \/ SetUp(id) \/ FirstRefreshOk(id) \/ FirstRefreshFails(id)
                        \/ RetrySetup(id) \/ Unload(id) \/ UnloadFails(id)
  BY DEF StoreNext
<1>1. CASE SetUp(id)
  <2> DEFINE e == Migrate(entries[id])
  <2>1. id \in Present /\ IsEntry(entries[id])
    BY <1>1 DEF SetUp, Absent, Present, StoreOK
  <2>2. Written(e, entries[id]) /\ (entries[id].version = LatestVersion => Keeps(e, entries[id]))
    BY <2>1, MigrateWrites
  <2>3. /\ entries' = [entries EXCEPT ![id] = e] /\ running' = [running EXCEPT ![id] = Connection(e)]
        /\ state' = [state EXCEPT ![id] = "setup"] /\ UNCHANGED <<reload, saved>>
    BY <1>1 DEF SetUp
  <2> HIDE DEF e
  <2>4. /\ Present' = Present /\ Steady
        /\ \A i \in Present : IsEntry(entries'[i])
        /\ \A i, j \in Present : entries'[i].uid = entries'[j].uid => i = j
    BY <2>1, <2>2, <2>3, OneWritten
  <2>5. SavedRuns'
    BY <2>1, <2>3 DEF SavedRuns, StoreOK, Present
  <2>6. NoMeterLost
    BY <2>1, <2>2, <2>3 DEF NoMeterLost, StoreOK, Present, Keeps
  <2> QED BY <2>1, <2>3, <2>4, <2>5, <2>6 DEF StoreOK
<1>2. CASE FirstRefreshOk(id)
  <2>1. id \in Present /\ IsEntry(entries[id])
    BY <1>2 DEF FirstRefreshOk, StoreOK
  <2>2. Keeps(GatewayIdentity(entries[id]), entries[id])
    BY <2>1, GatewayIdentityKeeps
  <2>3. SavedRuns'
    BY <1>2, <2>1, GatewayIdentityKeeps DEF FirstRefreshOk, SavedRuns, StoreOK, Present
  <2>4. /\ entries' = [entries EXCEPT ![id] = GatewayIdentity(entries[id])]
        /\ state' = [state EXCEPT ![id] = "loaded"] /\ UNCHANGED <<reload, running, saved>>
    BY <1>2 DEF FirstRefreshOk
  <2>5. /\ Present' = Present /\ Steady /\ NoMeterLost
        /\ \A i \in Present : IsEntry(entries'[i])
        /\ \A i, j \in Present : entries'[i].uid = entries'[j].uid => i = j
    BY <2>1, <2>2, <2>4, OneWritten, KeepsIsWritten
  <2> QED BY <2>1, <2>3, <2>4, <2>5 DEF StoreOK
<1>3. CASE FirstRefreshFails(id) \/ RetrySetup(id) \/ Unload(id) \/ UnloadFails(id)
  <2>1. UNCHANGED <<entries, saved>> /\ DOMAIN state' = Ids /\ DOMAIN running' = Ids
    BY <1>3 DEF FirstRefreshFails, RetrySetup, Unload, UnloadFails, StoreOK
  <2>2. \A i \in Ids \ Present : state'[i] = state[i]
    BY <1>3 DEF FirstRefreshFails, RetrySetup, Unload, UnloadFails, StoreOK
  <2>3. SavedRuns'
    BY <1>3 DEF FirstRefreshFails, RetrySetup, Unload, UnloadFails, StoreOK, SavedRuns, Present
  <2>4. StoreOK'
    BY <2>1, <2>2, <2>3 DEF StoreOK, Present
  <2> QED BY <2>1, <2>4, KeepsItself, KeepsIsWritten DEF Steady, NoMeterLost, StoreOK, Present
<1> QED BY <1>0, <1>1, <1>2, <1>3

LEMMA StoreInitially == StoreInit => StoreOK
<1> SUFFICES ASSUME StoreInit
             PROVE  StoreOK
  OBVIOUS
<1>1. PICK stored \in StoredBefore :
        entries = [id \in Ids |-> IF id \in DOMAIN stored THEN stored[id] ELSE NoEntry]
  BY DEF StoreInit
<1>2. \A id \in Present : id \in DOMAIN stored /\ entries[id] = stored[id]
  BY <1>1 DEF Present
<1> QED BY <1>1, <1>2, StoredAssumption DEF StoreInit, StoreOK, SavedRuns, WasWritten

-----------------------------------------------------------------------------
(* The options and reconfigure flows *)

\* The entry a flow is about is there, and is the kind of entry the flow is for;
\* the data a flow keeps is data of that entry.
OptOK ==
  opt.kind # "none" =>
    LET e == entries[opt.id] IN
    /\ opt.id \in Present /\ e.version = LatestVersion
    /\ opt.kind \in {"update", "add", "switch", "reconfigure", "scan", "choose"}
    /\ opt.kind \in {"update", "add"} =>
         \/ opt.meter = NoMeter /\ ~e.bus /\ Written(opt.data, e)
         \/ opt.meter # NoMeter /\ e.bus
    /\ opt.kind = "switch" => Written(opt.data, e) /\ Keeps(opt.data, opt.from)
    /\ opt.kind = "reconfigure" => ~e.bus
    /\ opt.kind \in {"scan", "choose"} => e.bus
    /\ opt.kind = "scan" => opt.slaves = Slaves
    /\ opt.kind = "choose" => IsFiniteSet(opt.found)

LEMMA OptStays ==
  ASSUME OptOK, Steady, UNCHANGED opt
  PROVE  OptOK'
<1>1. CASE opt.kind = "none"
  BY <1>1 DEF OptOK
<1>2. CASE opt.kind # "none"
  <2>1. /\ opt.id \in Present' /\ Written(entries'[opt.id], entries[opt.id])
        /\ entries[opt.id].version = LatestVersion
    BY <1>2 DEF OptOK, Steady
  <2>2. \A d : Written(d, entries[opt.id]) => Written(d, entries'[opt.id])
    BY <2>1 DEF Written
  <2>3. entries'[opt.id].version = LatestVersion /\ entries'[opt.id].bus = entries[opt.id].bus
    BY <2>1 DEF Written
  <2> QED BY <1>2, <2>1, <2>2, <2>3 DEF OptOK
<1> QED BY <1>1, <1>2

LEMMA SingleWrittenKeeps ==
  ASSUME NEW d, NEW e, Written(d, e), e.version = LatestVersion, ~e.bus
  PROVE  Keeps(d, e)
  BY DEF Written, Keeps, SerialsOf

LEMMA ImageIsFinite ==
  ASSUME NEW f, IsFiniteSet(DOMAIN f)
  PROVE  IsFiniteSet({f[x] : x \in DOMAIN f})
<1> DEFINE g == [x \in DOMAIN f |-> f[x]]
<1>1. g \in Surjection(DOMAIN f, {f[x] : x \in DOMAIN f})
  BY DEF Surjection
<1> QED BY <1>1, FS_Surjection

\* What the forms write, for the entry as it is then
LEMMA AppliedKeeps ==
  ASSUME StoreOK, OptOK, opt.kind \in {"update", "add"}, NEW routes, NEW key
  PROVE  Keeps(Apply(entries[opt.id], opt.meter, opt.data, routes, key), entries[opt.id])
<1>1. IsEntry(entries[opt.id]) /\ entries[opt.id].version = LatestVersion
  BY DEF StoreOK, OptOK
<1>2. CASE opt.meter = NoMeter
  <2>1. Keeps(opt.data, entries[opt.id])
    BY <1>1, <1>2, SingleWrittenKeeps DEF OptOK
  <2> QED BY <1>2, <2>1, ApplyKeepsSingle, KeepsTransitive DEF Keeps, OptOK
<1>3. CASE opt.meter # NoMeter
  BY <1>1, <1>3, ApplyKeepsBus DEF OptOK
<1> QED BY <1>2, <1>3

LEMMA FinishKeeps ==
  ASSUME StoreOK, OptOK
  PROVE  /\ opt.kind = "update" => Keeps(Normalize(FinishUpdate), entries[opt.id])
         /\ opt.kind = "add" => Keeps(Normalize(FinishAdd), entries[opt.id])
         /\ opt.kind = "reconfigure" => Keeps(FinishReconfigure, entries[opt.id])
<1>1. opt.kind # "none" => IsEntry(entries[opt.id])
  BY DEF StoreOK, OptOK
<1>2. opt.kind = "update" => Keeps(FinishUpdate, entries[opt.id])
  BY AppliedKeeps DEF FinishUpdate
<1>3. opt.kind = "add" => Keeps(FinishAdd, entries[opt.id])
  BY AppliedKeeps DEF FinishAdd
<1>4. opt.kind = "reconfigure" => Keeps(FinishReconfigure, entries[opt.id])
  BY <1>1, WithRoutesKeeps DEF FinishReconfigure, OptOK
<1>5. \A e : IsEntry(e) => Keeps(Normalize(e), e)
  BY NormalizeKeeps
<1>6. \A c, d, e : Keeps(c, d) /\ Keeps(d, e) => Keeps(c, e)
  BY KeepsTransitive
<1>7. \A d, e : Keeps(d, e) => IsEntry(d)
  BY DEF Keeps
<1> HIDE DEF FinishUpdate, FinishAdd, FinishReconfigure
<1> QED BY <1>2, <1>3, <1>4, <1>5, <1>6, <1>7

\* A switch writes what was made of the entry before the validation: it loses no
\* meter unless the entry was written since.
SwitchOfOther(id) == opt.kind = "switch" /\ opt.id = id /\ opt.from # entries[id]

LEMMA ValidatedKeeps ==
  ASSUME StoreOK, OptOK, Validated
  PROVE  /\ StoreOK' /\ OptOK' /\ Steady
         /\ \A id \in Present :
              \/ entries[id].version # LatestVersion
              \/ SwitchOfOther(id)
              \/ SerialsOf(entries[id]) \subseteq SerialsOf(entries'[id])
<1> DEFINE e == CASE opt.kind = "update" -> Normalize(FinishUpdate)
                  [] opt.kind = "add" -> Normalize(FinishAdd)
                  [] opt.kind = "switch" -> Normalize(opt.data)
                  [] opt.kind = "reconfigure" -> FinishReconfigure
<1>1. opt.kind \in {"update", "add", "switch", "reconfigure"} /\ Saved(opt.id, e) /\ opt' = NoFlow
  BY DEF Validated
<1>2. opt.id \in Present /\ entries[opt.id].version = LatestVersion /\ IsEntry(entries[opt.id])
  BY <1>1 DEF OptOK, StoreOK
<1>3. OptOK'
  BY <1>1 DEF OptOK, NoFlow
<1>4. CASE opt.kind # "switch"
  <2>1. Keeps(e, entries[opt.id])
    BY <1>1, <1>4, FinishKeeps
  <2> HIDE DEF e
  <2> QED BY <1>1, <1>2, <1>3, <2>1, SavedKeeps, KeepsIsWritten DEF NoMeterLost
<1>5. CASE opt.kind = "switch"
  <2>1. e = Normalize(opt.data) /\ Written(opt.data, entries[opt.id]) /\ Keeps(opt.data, opt.from)
    BY <1>5 DEF OptOK
  <2>2. Keeps(e, opt.data)
    BY <2>1, NormalizeKeeps DEF Keeps
  <2> HIDE DEF e
  <2>3. Written(e, entries[opt.id])
    BY <1>2, <2>1, <2>2 DEF Keeps, Written
  <2>4. opt.from = entries[opt.id] => Keeps(e, entries[opt.id])
    BY <2>1, <2>2, KeepsTransitive
  <2>5. /\ StoreOK' /\ Steady
        /\ opt.from = entries[opt.id] => NoMeterLost
    BY <1>1, <1>2, <2>3, <2>4, SavedKeeps
  <2>6. \A id \in Present : id # opt.id => entries'[id] = entries[id]
    BY <1>1 DEF Saved, StoreOK, Present
  <2> QED BY <1>3, <1>5, <2>5, <2>6 DEF SwitchOfOther, NoMeterLost
<1> QED BY <1>4, <1>5

LEMMA AppendMetersKeeps ==
  ASSUME StoreOK, OptOK, AppendMeters
  PROVE  StoreOK' /\ OptOK' /\ Steady /\ NoMeterLost
<1> DEFINE e == entries[opt.id]
           kept == [e EXCEPT !.meters = [i \in DOMAIN e.meters |-> EnsureBusRoute(e.meters[i], e)]]
           Added(f) == EnsureBusRoute(NewMeter(f), e)
<1>1. PICK chosen \in SUBSET opt.found \ {{}} :
        Saved(opt.id, Normalize([kept EXCEPT !.meters = @ \o SetToSeq({Added(f) : f \in chosen})]))
  BY DEF AppendMeters, ForMeters
<1>2. /\ opt.kind = "choose" /\ opt' = NoFlow
      /\ opt.id \in Present /\ IsEntry(e) /\ e.bus /\ IsFiniteSet(chosen)
  BY FS_Subset DEF AppendMeters, OptOK, StoreOK
<1>3. Keeps(kept, e)
  BY <1>2, EnsuredKeeps
<1> DEFINE new == {Added(f) : f \in chosen}
<1>4. IsFiniteSet(new)
  <2> DEFINE g == [f \in chosen |-> Added(f)]
  <2>1. new = {g[f] : f \in DOMAIN g}
    OBVIOUS
  <2> QED BY <1>2, <2>1, ImageIsFinite
<1>5. \A m \in new : DOMAIN m = MeterFields
  <2>1. \A f : DOMAIN NewMeter(f) = MeterFields
    BY DEF NewMeter, MeterFields
  <2> QED BY <2>1, EnsuredMeterKeeps
<1> HIDE DEF new
<1> DEFINE s == SetToSeq(new)
<1>6. IsSequence(s) /\ \A i \in DOMAIN s : DOMAIN s[i] = MeterFields
  BY <1>4, <1>5, SetToSeqIs
<1> HIDE DEF s, kept
<1>7. Keeps([kept EXCEPT !.meters = @ \o s], kept)
  BY <1>2, <1>3, <1>6, AppendedKeeps DEF Keeps
<1> DEFINE all == [kept EXCEPT !.meters = @ \o s]
<1> HIDE DEF all
<1>8. Keeps(Normalize(all), e)
  BY <1>3, <1>7, NormalizeKeeps, KeepsTransitive DEF Keeps, all
<1>9. Saved(opt.id, Normalize(all))
  BY <1>1 DEF all, s, new
<1>10. StoreOK' /\ Steady /\ NoMeterLost
  BY <1>2, <1>8, <1>9, SavedKeeps, KeepsIsWritten
<1> QED BY <1>2, <1>10 DEF OptOK, NoFlow

LEMMA OptionsKeep ==
  ASSUME StoreOK, OptOK, OptionsNext
  PROVE  /\ StoreOK' /\ OptOK' /\ Steady
         /\ \A id \in Present :
              \/ entries[id].version # LatestVersion
              \/ SwitchOfOther(id)
              \/ SerialsOf(entries[id]) \subseteq SerialsOf(entries'[id])
<1>1. CASE Validated
  BY <1>1, ValidatedKeeps
<1>2. CASE AppendMeters
  BY <1>2, AppendMetersKeeps DEF NoMeterLost
<1>3. CASE GiveUp
  BY <1>3, Unwritten DEF GiveUp, OptOK, NoFlow, NoMeterLost
<1>4. CASE ScanReturns
  <2>1. StoreOK' /\ Steady /\ NoMeterLost /\ UNCHANGED store
    BY <1>4, Unwritten DEF ScanReturns
  <2>2. opt.kind = "scan" /\ \E ep, e : opt' = [kind |-> "choose", id |-> opt.id,
                                            found |-> NewOnBus(OnBus(ep, opt.slaves), e)]
    BY <1>4 DEF ScanReturns
  <2>3. \A ep, e : IsFiniteSet(NewOnBus(OnBus(ep, opt.slaves), e))
    <3> SUFFICES ASSUME NEW ep, NEW e
                 PROVE  IsFiniteSet(NewOnBus(OnBus(ep, opt.slaves), e))
      OBVIOUS
    <3>1. IsFiniteSet(OnBus(ep, opt.slaves))
      BY <2>2, FoundIsFinite DEF OptOK
    <3>2. NewOnBus(OnBus(ep, opt.slaves), e) \subseteq OnBus(ep, opt.slaves)
      BY DEF NewOnBus
    <3> QED BY <3>1, <3>2, FS_Subset
  <2>4. /\ opt'.kind = "choose" /\ opt'.id = opt.id /\ IsFiniteSet(opt'.found)
        /\ opt.id \in Present /\ entries[opt.id].version = LatestVersion /\ entries[opt.id].bus
    <3>1. PICK ep, e : opt' = [kind |-> "choose", id |-> opt.id,
                               found |-> NewOnBus(OnBus(ep, opt.slaves), e)]
      BY <2>2
    <3>2. opt'.kind = "choose" /\ opt'.id = opt.id /\ IsFiniteSet(opt'.found)
      BY <2>3, <3>1
    <3> QED BY <2>2, <3>2 DEF OptOK
  <2>5. OptOK'
    BY <2>1, <2>4 DEF OptOK, store, Present
  <2> QED BY <2>1, <2>5 DEF NoMeterLost
<1>5. ASSUME NEW id \in Ids, Start(id),
             \/ \E k \in Contexts(entries[id]) :
                  \/ SendSwitch(id, k)
                  \/ \E input \in Inputs :
                       \/ SendUpdate(id, k, input)
                       \/ \E purpose \in {"active", "onboarding"} : SendAdd(id, k, input, purpose)
             \/ \E input \in Inputs : SendReconfigure(id, input)
             \/ SendScan(id, Slaves)
      PROVE  StoreOK' /\ OptOK' /\ Steady /\ NoMeterLost
  <2> DEFINE e == entries[id]
  <2>1. id \in Present /\ IsEntry(e) /\ e.version = LatestVersion
    BY <1>5 DEF Start, Absent, Present, StoreOK
  <2>2. UNCHANGED store
    BY <1>5 DEF SendSwitch, SendUpdate, SendAdd, SendReconfigure, SendScan, Send
  <2>3. StoreOK' /\ Steady /\ NoMeterLost
    BY <2>2, Unwritten
  <2>4. \A k \in Contexts(e) : IF e.bus THEN k # NoMeter ELSE k = NoMeter
    <3>1. \A a, b : <<a>> # <<>> /\ <<a, b>> # <<>>
      OBVIOUS
    <3>2. CASE e.bus
      BY <3>1, <3>2 DEF Contexts, NoMeter, MeterKey
    <3>3. CASE ~e.bus
      BY <3>3 DEF Contexts
    <3> QED BY <3>2, <3>3
  <2>5. CASE \E k \in Contexts(e), input \in Inputs :
               \/ SendUpdate(id, k, input)
               \/ \E purpose \in {"active", "onboarding"} : SendAdd(id, k, input, purpose)
    <3>1. PICK k \in Contexts(e) :
            /\ opt'.kind \in {"update", "add"} /\ opt'.id = id /\ opt'.meter = k
            /\ opt'.data = Snapshot(e, k)
      BY <2>5 DEF SendUpdate, SendAdd, Send
    <3>2. \/ opt'.meter = NoMeter /\ ~e.bus /\ Written(opt'.data, e)
          \/ opt'.meter # NoMeter /\ e.bus
      BY <2>1, <2>4, <3>1, KeepsItself, KeepsIsWritten DEF Snapshot, IsEntry
    <3>3. OptOK'
      BY <2>1, <2>2, <3>1, <3>2 DEF OptOK, store, Present
    <3> QED BY <2>3, <3>3
  <2>6. CASE \E k \in Contexts(e) : SendSwitch(id, k)
    <3>1. PICK k, routes, key :
            /\ k \in Contexts(e)
            /\ opt'.kind = "switch" /\ opt'.id = id /\ opt'.from = e
            /\ opt'.data = Apply(e, k, e, routes, key)
      BY <2>6 DEF SendSwitch, Send
    <3>2. Keeps(opt'.data, e)
      BY <2>1, <2>4, <3>1, ApplyKeepsBus, ApplyKeepsSingle DEF IsEntry
    <3>3. OptOK'
      BY <2>1, <2>2, <3>1, <3>2, KeepsIsWritten DEF OptOK, store, Present
    <3> QED BY <2>3, <3>3
  <2>7. CASE \E input \in Inputs : SendReconfigure(id, input)
    <3>1. opt'.kind = "reconfigure" /\ opt'.id = id /\ ~e.bus
      BY <2>7 DEF SendReconfigure, Send
    <3>2. OptOK'
      BY <2>1, <2>2, <3>1 DEF OptOK, store, Present
    <3> QED BY <2>3, <3>2
  <2>8. CASE SendScan(id, Slaves)
    <3>1. opt'.kind = "scan" /\ opt'.id = id /\ opt'.slaves = Slaves /\ e.bus
      BY <2>8 DEF SendScan, Send
    <3>2. OptOK'
      BY <2>1, <2>2, <3>1 DEF OptOK, store, Present
    <3> QED BY <2>3, <3>2
  <2> QED BY <1>5, <2>5, <2>6, <2>7, <2>8
<1>6. ASSUME NEW id \in Ids, Start(id), NEW input \in Inputs, NEW slaves, EditBus(id, input, slaves)
      PROVE  StoreOK' /\ OptOK' /\ Steady /\ NoMeterLost
  <2> DEFINE e == EditedBus(entries[id], input.ep, input.line, slaves)
  <2>1. id \in Present /\ IsEntry(entries[id]) /\ entries[id].bus
    BY <1>6 DEF EditBus, Start, Absent, Present, StoreOK
  <2>2. Keeps(e, entries[id])
    BY <2>1, EditedBusKeeps
  <2>3. Saved(id, Normalize(e)) /\ UNCHANGED opt
    BY <1>6 DEF EditBus
  <2> HIDE DEF e
  <2>4. Keeps(Normalize(e), entries[id])
    BY <2>2, NormalizeKeeps, KeepsTransitive DEF Keeps
  <2>5. StoreOK' /\ Steady /\ NoMeterLost
    BY <2>1, <2>3, <2>4, SavedKeeps, KeepsIsWritten
  <2> QED BY <2>3, <2>5, OptStays
<1> QED BY <1>1, <1>2, <1>3, <1>4, <1>5, <1>6 DEF OptionsNext, NoMeterLost

-----------------------------------------------------------------------------
(* The flows that add entries *)

CreOK ==
  /\ DOMAIN cre = Flows
  /\ \A f \in Flows : cre[f].kind = "scan" /\ cre[f].pc = "choose" => IsFiniteSet(cre[f].found)

LEMMA CreStays ==
  ASSUME CreOK, NEW f \in Flows, NEW flow, Goto(f, flow),
         flow.kind = "scan" /\ flow.pc = "choose" => IsFiniteSet(flow.found)
  PROVE  CreOK'
  BY DEF Goto, CreOK

LEMMA CreFreed == ASSUME CreOK, NEW f \in Flows, Goto(f, NoFlow) PROVE CreOK'
<1>1. NoFlow.kind # "scan"
  BY DEF NoFlow
<1> QED BY <1>1, CreStays

\* The entry of a meter is one that has it.
LEMMA EntryOfHasIt ==
  ASSUME NEW serial, EntryOf(serial) # 0
  PROVE  EntryOf(serial) \in Present /\ serial \in SerialsOf(entries[EntryOf(serial)])
<1> DEFINE owners == {id \in Present : serial \in SerialsOf(entries[id])}
<1>1. owners # {} /\ EntryOf(serial) = CHOOSE id \in owners : \A other \in owners : id <= other
  BY DEF EntryOf
<1>2. owners \subseteq Ids
  BY DEF Present
<1>3. \E id \in owners : \A other \in owners : id <= other
  BY <1>1, <1>2, LeastId
<1>4. EntryOf(serial) \in owners
  BY <1>1, <1>3
<1> QED BY <1>4

LEMMA BusOfIsPresent ==
  ASSUME NEW c, BusOf(c) # 0
  PROVE  BusOf(c) \in Present /\ entries[BusOf(c)].bus
<1> DEFINE same == {id \in Present : /\ entries[id].bus /\ entries[id].transport = c.transport
                                    /\ Canonical[entries[id].ep] = Canonical[c.ep]}
<1>1. same # {} /\ BusOf(c) = CHOOSE id \in same : \A other \in same : id <= other
  BY DEF BusOf
<1>2. same \subseteq Ids
  BY DEF Present
<1>3. \E id \in same : \A other \in same : id <= other
  BY <1>1, <1>2, LeastId
<1>4. BusOf(c) \in same
  BY <1>1, <1>3
<1> QED BY <1>4

LEMMA UpsertKeeps ==
  ASSUME StoreOK, NEW f, NEW c, NEW found, IsFiniteSet(found), Upsert(f, c, found)
  PROVE  StoreOK' /\ Steady /\ NoMeterLost
<1> DEFINE id == BusOf(c)
           e == entries[id]
           new == IF id = 0 THEN {n \in found : n.serial \notin ConfiguredSerials}
                  ELSE NewOnBus(found, e)
           added == {NewMeter(n) : n \in new}
           s == SetToSeq(added)
<1>1. IsSequence(s) /\ \A i \in DOMAIN s : DOMAIN s[i] = MeterFields
  <2>1. IsFiniteSet(new)
    BY FS_Subset DEF NewOnBus
  <2> HIDE DEF new
  <2>2. IsFiniteSet(added)
    <3> DEFINE g == [n \in new |-> NewMeter(n)]
    <3>1. added = {g[n] : n \in DOMAIN g}
      OBVIOUS
    <3> QED BY <2>1, <3>1, ImageIsFinite
  <2>3. \A m \in added : DOMAIN m = MeterFields
    BY DEF NewMeter, MeterFields
  <2> HIDE DEF added
  <2> QED BY <2>2, <2>3, SetToSeqIs
<1>2. \/ id = 0 /\ ~UidTaken(BusUid(c)) /\ Created(NewBus(c, s))
      \/ /\ id # 0
         /\ Saved(id, [ForMeters([e EXCEPT !.meters = @ \o s], LAMBDA m : EnsureBusRoute(m, e))
                         EXCEPT !.version = LatestVersion, !.ep = c.ep, !.line = c.line])
  BY DEF Upsert
<1> HIDE DEF s
<1>3. CASE ~UidTaken(BusUid(c)) /\ Created(NewBus(c, s))
  BY <1>1, <1>3, NewBusIsEntry, CreatedKeeps
<1>4. CASE /\ id # 0
           /\ Saved(id, [ForMeters([e EXCEPT !.meters = @ \o s], LAMBDA m : EnsureBusRoute(m, e))
                         EXCEPT !.version = LatestVersion, !.ep = c.ep, !.line = c.line])
  <2>1. id \in Present /\ IsEntry(e) /\ e.bus
    BY <1>4, BusOfIsPresent DEF StoreOK
  <2> HIDE DEF id, e
  <2> DEFINE more == [e EXCEPT !.meters = @ \o s]
             kept == [more EXCEPT !.meters =
                        [i \in DOMAIN more.meters |-> EnsureBusRoute(more.meters[i], e)]]
             bus == [kept EXCEPT !.version = LatestVersion, !.ep = c.ep, !.line = c.line]
  <2>2. Keeps(more, e)
    BY <1>1, <2>1, AppendedKeeps
  <2>3. Saved(id, bus)
    BY <1>4 DEF ForMeters
  <2> HIDE DEF more
  <2>4. Keeps(kept, more)
    BY <2>1, <2>2, EnsuredKeeps DEF Keeps
  <2> HIDE DEF kept
  <2>5. Keeps(bus, kept)
    <3>1. /\ DOMAIN bus = EntryFields /\ bus.version = LatestVersion
          /\ \A x \in {"bus", "meters", "uid", "serial", "title"} : bus[x] = kept[x]
      BY <2>4 DEF Keeps, IsEntry, EntryFields
    <3> HIDE DEF bus
    <3>2. IsEntry(bus)
      BY <2>4, <3>1 DEF Keeps, IsEntry, LatestVersion
    <3> QED BY <3>1, <3>2 DEF Keeps, SerialsOf
  <2> HIDE DEF bus
  <2>6. Keeps(bus, e)
    BY <2>2, <2>4, <2>5, KeepsTransitive
  <2> QED BY <2>1, <2>3, <2>6, SavedKeeps, KeepsIsWritten DEF e, id
<1> QED BY <1>2, <1>3, <1>4

LEMMA CreateKeeps ==
  ASSUME StoreOK, NEW f, NEW serial, NEW r, Create(f, serial, r)
  PROVE  StoreOK' /\ Steady /\ NoMeterLost
  BY NewEntryIsEntry, CreatedKeeps DEF Create

LEMMA AdvertKeeps ==
  ASSUME StoreOK, NEW serial, NEW e, NEW id, id = EntryOf(serial), id # 0,
         Keeps(e, entries[id]) , Rediscovered(id, e, serial)
  PROVE  StoreOK' /\ Steady /\ NoMeterLost
  BY EntryOfHasIt, RediscoveredKeeps

LEMMA CreationKeeps ==
  ASSUME StoreOK, CreOK, CreationNext
  PROVE  StoreOK' /\ CreOK' /\ Steady /\ NoMeterLost /\ UNCHANGED opt
<1>1. ASSUME NEW ad, NEW f \in Flows, NEW slave, BluetoothConfirm(f, ad, slave)
      PROVE  StoreOK' /\ CreOK' /\ Steady /\ NoMeterLost /\ UNCHANGED opt
  <2> DEFINE id == EntryOf(ad.serial)
             e == BluetoothUpdate(entries[id], ad.ep, ad.line)
  <2>1. CASE id # 0 /\ Rediscovered(id, e, ad.serial) /\ Goto(f, NoFlow) /\ UNCHANGED options
    <3>1. id \in Present /\ IsEntry(entries[id])
      BY <2>1, EntryOfHasIt DEF StoreOK
    <3>2. Keeps(e, entries[id])
      BY <3>1, BluetoothKeeps
    <3> HIDE DEF id, e
    <3>3. StoreOK' /\ Steady /\ NoMeterLost
      BY <2>1, <3>1, <3>2, RediscoveredKeeps
    <3> QED BY <2>1, <3>3, CreFreed DEF options
  <2>2. CASE Open(f, NoFlow)
    BY <2>2, Unwritten, CreFreed DEF Open, options
  <2>3. CASE \E flow : flow.kind = "bluetooth" /\ Sent(f, flow)
    BY <2>3, Unwritten, CreStays DEF Sent
  <2> QED BY <1>1, <2>1, <2>2, <2>3 DEF BluetoothConfirm, Rediscover
<1>2. ASSUME NEW ad, ZeroconfAdvert(ad)
      PROVE  StoreOK' /\ CreOK' /\ Steady /\ NoMeterLost /\ UNCHANGED opt
  <2> DEFINE id == EntryOf(ad.serial)
             e == ZeroconfUpdate(entries[id], ad.ep)
  <2>1. CASE id # 0 /\ Rediscovered(id, e, ad.serial) /\ UNCHANGED <<options, cre>>
    <3>1. id \in Present /\ IsEntry(entries[id])
      BY <2>1, EntryOfHasIt DEF StoreOK
    <3>2. Keeps(e, entries[id])
      BY <3>1, ZeroconfKeeps
    <3> HIDE DEF id, e
    <3>3. StoreOK' /\ Steady /\ NoMeterLost
      BY <2>1, <3>1, <3>2, RediscoveredKeeps
    <3> QED BY <2>1, <3>3 DEF options, CreOK
  <2>2. CASE \E f \in Flows : \E flow : flow.kind = "zeroconf" /\ Open(f, flow)
    BY <2>2, Unwritten, CreStays DEF Open, options
  <2> QED BY <1>2, <2>1, <2>2 DEF ZeroconfAdvert, Rediscover
<1>3. ASSUME NEW ad, BluetoothAdvert(ad)
      PROVE  StoreOK' /\ CreOK' /\ Steady /\ NoMeterLost /\ UNCHANGED opt
  <2> DEFINE id == EntryOf(ad.serial)
             e == BluetoothUpdate(entries[id], ad.ep, ad.line)
  <2>1. CASE id # 0 /\ Rediscovered(id, e, ad.serial) /\ UNCHANGED <<options, cre>>
    <3>1. id \in Present /\ IsEntry(entries[id])
      BY <2>1, EntryOfHasIt DEF StoreOK
    <3>2. Keeps(e, entries[id])
      BY <3>1, BluetoothKeeps
    <3> HIDE DEF id, e
    <3>3. StoreOK' /\ Steady /\ NoMeterLost
      BY <2>1, <3>1, <3>2, RediscoveredKeeps
    <3> QED BY <2>1, <3>3 DEF options, CreOK
  <2>2. CASE \E f \in Flows : \E flow : flow.kind = "bluetooth" /\ Open(f, flow)
    BY <2>2, Unwritten, CreStays DEF Open, options
  <2> QED BY <1>3, <2>1, <2>2 DEF BluetoothAdvert, Rediscover
<1>4. ASSUME NEW f \in Flows, AdvertisedValidated(f)
      PROVE  StoreOK' /\ CreOK' /\ Steady /\ NoMeterLost /\ UNCHANGED opt
  BY <1>4, CreateKeeps, CreFreed DEF AdvertisedValidated, Create, options
<1>5. ASSUME NEW f \in Flows, ConnectionValidated(f)
      PROVE  StoreOK' /\ CreOK' /\ Steady /\ NoMeterLost /\ UNCHANGED opt
  <2>1. CASE \E c, n : Upsert(f, c, {n}) /\ Goto(f, NoFlow) /\ UNCHANGED options
    <3>1. \A n : IsFiniteSet({n})
      BY FS_Singleton
    <3> QED BY <2>1, <3>1, UpsertKeeps, CreFreed DEF options
  <2>2. CASE \E serial, r : Create(f, serial, r)
    BY <2>2, CreateKeeps, CreFreed DEF Create, options
  <2> QED BY <1>5, <2>1, <2>2 DEF ConnectionValidated
<1>6. ASSUME NEW f \in Flows, ChooseMeters(f)
      PROVE  StoreOK' /\ CreOK' /\ Steady /\ NoMeterLost /\ UNCHANGED opt
  <2>1. PICK chosen \in SUBSET cre[f].found : Upsert(f, cre[f].route, chosen)
    BY <1>6 DEF ChooseMeters
  <2>2. IsFiniteSet(chosen)
    BY <1>6, FS_Subset DEF ChooseMeters, CreOK
  <2> QED BY <1>6, <2>1, <2>2, UpsertKeeps, CreFreed DEF ChooseMeters, options
<1>7. ASSUME NEW f \in Flows, BusScanned(f)
      PROVE  StoreOK' /\ CreOK' /\ Steady /\ NoMeterLost /\ UNCHANGED opt
  <2>1. PICK found \in SUBSET OnBus(cre[f].route.ep, Slaves) :
          Open(f, [kind |-> "scan", pc |-> "choose", uid |-> NoUid, route |-> cre[f].route,
                   found |-> found])
    BY <1>7 DEF BusScanned, NewOnBus
  <2>2. IsFiniteSet(found)
    BY FoundIsFinite, FS_Subset
  <2> QED BY <2>1, <2>2, Unwritten, CreStays DEF Open, options
<1>8. ASSUME NEW f \in Flows,
             \/ ZeroconfConfirm(f) \/ Leave(f)
             \/ \E input \in Inputs : ScanBus(f, input) \/ TypeConnection(f, input)
      PROVE  StoreOK' /\ CreOK' /\ Steady /\ NoMeterLost /\ UNCHANGED opt
  <2>1. CASE Leave(f)
    BY <2>1, Unwritten, CreFreed DEF Leave, Open, options
  <2>2. CASE \E flow : ~(flow.kind = "scan" /\ flow.pc = "choose") /\ Sent(f, flow)
    BY <2>2, Unwritten, CreStays DEF Sent
  <2>3. CASE ZeroconfConfirm(f)
    BY <2>2, <2>3 DEF ZeroconfConfirm
  <2>4. CASE \E input \in Inputs : ScanBus(f, input)
    BY <2>2, <2>4 DEF ScanBus
  <2>5. CASE \E input \in Inputs : TypeConnection(f, input)
    BY <2>2, <2>5 DEF TypeConnection
  <2> QED BY <1>8, <2>1, <2>3, <2>4, <2>5
<1> QED BY <1>1, <1>2, <1>3, <1>4, <1>5, <1>6, <1>7, <1>8 DEF CreationNext

-----------------------------------------------------------------------------
(* The invariant and what it shows *)

\* The inductive invariant: entries with their own unique ids that run as saved,
\* and flows that hold data of the entry they are about.
EntriesInd == StoreOK /\ OptOK /\ CreOK

LEMMA EntriesInitially == Init => EntriesInd
<1> SUFFICES ASSUME Init
             PROVE  EntriesInd
  OBVIOUS
<1>1. OptOK
  BY DEF Init, OptionsInit, OptOK, NoFlow
<1>2. CreOK
  BY DEF Init, CreationInit, CreOK, NoFlow
<1> QED BY <1>1, <1>2, StoreInitially DEF Init, EntriesInd

LEMMA EntriesStep ==
  ASSUME EntriesInd, [Next]_vars
  PROVE  /\ EntriesInd'
         /\ \A id \in Present :
              \/ entries[id].version # LatestVersion
              \/ SwitchOfOther(id)
              \/ SerialsOf(entries[id]) \subseteq SerialsOf(entries'[id])
<1>1. CASE StoreNext /\ UNCHANGED <<options, cre>>
  BY <1>1, StoreKeeps, OptStays DEF EntriesInd, CreOK, options, NoMeterLost
<1>2. CASE OptionsNext /\ UNCHANGED cre
  BY <1>2, OptionsKeep DEF EntriesInd, CreOK
<1>3. CASE CreationNext
  BY <1>3, CreationKeeps, OptStays DEF EntriesInd, NoMeterLost
<1>4. CASE UNCHANGED vars
  BY <1>4, Unwritten, OptStays DEF EntriesInd, CreOK, vars, options, NoMeterLost
<1> QED BY <1>1, <1>2, <1>3, <1>4 DEF Next

\* Whatever flows, discoveries, migrations and setups are interleaved, entries
\* stay apart, keep being what they are, and run as they were saved.
THEOREM EntriesInvariant == Spec => []EntriesInd
<1>1. EntriesInd /\ [Next]_vars => EntriesInd'
  BY EntriesStep
<1> QED BY EntriesInitially, <1>1, PTL DEF Spec

\* An entry that is loaded, with no reload due, polls the connection its user saved
\* last: async_setup_entry builds the coordinator from the data it starts with, and
\* every form that saves during a setup leaves a reload.
THEOREM SavedRunsAlways == Spec => []SavedIsRunning
<1>1. EntriesInd => SavedIsRunning
  BY DEF EntriesInd, StoreOK, SavedRuns, SavedIsRunning
<1> QED BY EntriesInvariant, <1>1, PTL

\* async_set_unique_id with _abort_if_unique_id_configured keeps a meter from
\* getting a second entry, however the flows that could add it overlap.
THEOREM OneDirectEntryAlways == Spec => []OneDirectEntry
<1>1. EntriesInd => OneDirectEntry
  BY DEF EntriesInd, StoreOK, OneDirectEntry
<1> QED BY EntriesInvariant, <1>1, PTL

\* No write of an entry drops a meter, whichever flow, discovery or migration made
\* it and whatever was written meanwhile, but the switch of a route on a bus.
THEOREM MetersStayAlways == Spec => MetersStay
<1> DEFINE A == \A id \in Present :
                  \/ entries[id].version < LatestVersion
                  \/ opt.kind = "switch" /\ opt.id = id /\ opt.from # entries[id]
                  \/ SerialsOf(entries[id]) \subseteq SerialsOf(entries'[id])
<1>1. EntriesInd /\ [Next]_vars => [A]_vars
  <2> SUFFICES ASSUME EntriesInd, [Next]_vars
               PROVE  A
    OBVIOUS
  <2>1. \A id \in Present : entries[id].version # LatestVersion => entries[id].version < LatestVersion
    BY DEF EntriesInd, StoreOK, IsEntry, LatestVersion
  <2> QED BY <2>1, EntriesStep DEF SwitchOfOther
<1> HIDE DEF A
<1>2. Spec => [][A]_vars
  BY EntriesInvariant, <1>1, PTL DEF Spec
<1> QED BY <1>2 DEF MetersStay, A

-----------------------------------------------------------------------------
(* Data that can be used *)

\* The meter with this serial answers on the connection, and will where it advertises
\* itself next.
LeadsTo(c, serial) == AtAddress(c, serial) /\ Answers(c) = serial /\ SameSlave(c, serial)

LEMMA LeadsAlike ==
  ASSUME NEW c, NEW d, d.transport = c.transport, d.ep = c.ep, d.slave = c.slave,
         NEW serial, LeadsTo(c, serial)
  PROVE  LeadsTo(d, serial)
<1>1. AtAddress(d, serial)
  BY DEF LeadsTo, AtAddress
<1>2. Answers(d) = serial
  BY DEF LeadsTo, Answers
<1>3. SameSlave(d, serial)
  BY DEF LeadsTo, SameSlave, OfKind, IsDirect
<1> QED BY <1>1, <1>2, <1>3 DEF LeadsTo

\* Where the meter advertises itself, it answers at the slave it answers at now.
LEMMA LeadsOn ==
  ASSUME NEW c, NEW ad \in Adverts, LeadsTo(c, ad.serial), OfKind(ad, c),
         NEW d, d.transport = c.transport \/ (IsDirect(c) /\ IsDirect(d)),
         d.ep = ad.ep, d.slave = c.slave
  PROVE  LeadsTo(d, ad.serial)
<1>1. Answers(d) = ad.serial
  BY DEF LeadsTo, SameSlave, Answers
<1>2. SameSlave(d, ad.serial)
  BY DEF LeadsTo, SameSlave, OfKind, IsDirect, DirectTcp
<1>3. AtAddress(d, ad.serial)
  <2>1. CASE IsDirect(c)
    BY <2>1 DEF AtAddress, IsDirect, DirectTcp
  <2>2. CASE ~IsDirect(c)
    <3>1. AtAddress([transport |-> ad.by, ep |-> ad.ep], ad.serial)
      BY AddressAssumption
    <3>2. ad.by = "bluetooth"
      BY <2>2 DEF OfKind
    <3> QED BY <3>1, <3>2 DEF AtAddress
  <2> QED BY <2>1, <2>2
<1> QED BY <1>1, <1>2, <1>3 DEF LeadsTo

\* A connection an entry may have
Fits(r, e) == DOMAIN r = RouteFields /\ \A serial \in SerialsOf(e) : LeadsTo(r, serial)

\* What was written, and where the meter is
Sound(e) ==
  /\ WasWritten(e)
  /\ ~e.bus => /\ \A i \in DOMAIN e.routes : Fits(e.routes[i], e)
               /\ \A serial \in SerialsOf(e) : LeadsTo(e, serial)

LEMMA KeysOfDistinct ==
  ASSUME NEW routes, IsSequence(routes), Deduplicate(routes) = routes
  PROVE  Distinct(routes)
  BY DeduplicatedIs

\* Whatever the routes and the key are, what is written is sound.
LEMMA WrittenSound ==
  ASSUME NEW routes, IsSequence(routes), routes # <<>>, NEW key
  PROVE  LET kept == Deduplicate(routes)
             active == SelectActive(kept, key)
         IN /\ IsSequence(kept) /\ Among(kept, routes)
            /\ RoutesSound(kept, RouteKey(active)) /\ SelectActive(kept, RouteKey(active)) = active
            /\ \E i \in DOMAIN routes : active = routes[i]
<1> DEFINE kept == Deduplicate(routes)
           active == SelectActive(kept, key)
<1>1. IsSequence(kept) /\ Distinct(kept) /\ Among(kept, routes) /\ kept # <<>>
  BY DeduplicatedIs
<1> HIDE DEF kept
<1>2. PICK i \in DOMAIN kept : active = kept[i]
  BY <1>1, SelectedIs
<1>3. Deduplicate(kept) = kept
  BY <1>1, DistinctStays
<1>4. SelectActive(kept, RouteKey(active)) = active
  BY <1>1, <1>2, SelectedOwn
<1>5. RoutesSound(kept, RouteKey(active))
  BY <1>1, <1>2, <1>3 DEF RoutesSound
<1>6. \E j \in DOMAIN routes : active = routes[j]
  BY <1>1, <1>2 DEF Among
<1> QED BY <1>1, <1>4, <1>5, <1>6 DEF kept

\* An entry of one meter, whatever its routes are
OfOneMeter(e) ==
  /\ IsEntry(e) /\ ~e.bus
  /\ \A i \in DOMAIN e.meters : IsSequence(e.meters[i].routes)
  /\ e.serial # NoSerial \/ (e.version < 3 /\ e.title # NoSerial)

LEMMA SoundIsOfOne == ASSUME NEW e, Sound(e), ~e.bus PROVE OfOneMeter(e)
  BY DEF Sound, WasWritten, OfOneMeter

LEMMA WithRoutesSound ==
  ASSUME NEW e, OfOneMeter(e), NEW routes, IsSequence(routes), routes # <<>>, NEW key,
         \A i \in DOMAIN routes : Fits(routes[i], e)
  PROVE  Sound(WithRoutes(e, routes, key)) /\ Mirrored(WithRoutes(e, routes, key))
<1> DEFINE kept == Deduplicate(routes)
           active == SelectActive(kept, key)
           d == WithRoutes(e, routes, key)
<1>1. /\ IsSequence(kept) /\ Among(kept, routes)
      /\ RoutesSound(kept, RouteKey(active)) /\ SelectActive(kept, RouteKey(active)) = active
      /\ \E i \in DOMAIN routes : active = routes[i]
  BY WrittenSound
<1> HIDE DEF kept, active
<1>2. d = [e EXCEPT !.transport = active.transport, !.ep = active.ep, !.line = active.line,
               !.slave = active.slave, !.routes = kept, !.active = RouteKey(active)]
  BY DEF WithRoutes, kept, active
<1> HIDE DEF d
<1>3. IsEntry(e) /\ DOMAIN e = EntryFields
  BY DEF OfOneMeter, IsEntry
<1>4. /\ DOMAIN d = EntryFields
      /\ \A f \in {"version", "serial", "title", "bus", "meters", "uid"} : d[f] = e[f]
      /\ d.transport = active.transport /\ d.ep = active.ep /\ d.line = active.line
      /\ d.slave = active.slave /\ d.routes = kept /\ d.active = RouteKey(active)
  BY <1>2, <1>3 DEF EntryFields
<1>5. IsEntry(d)
  BY <1>3, <1>4 DEF IsEntry
<1>6. SerialsOf(d) = SerialsOf(e)
  BY <1>4 DEF SerialsOf
<1>7. Mirrored(d)
  BY <1>1, <1>4 DEF Mirrored
<1>8. \A i \in DOMAIN kept : Fits(kept[i], e)
  BY <1>1 DEF Among
<1>9. \A i \in DOMAIN d.routes : Fits(d.routes[i], d)
  BY <1>4, <1>6, <1>8 DEF Fits
<1>10. \A serial \in SerialsOf(d) : LeadsTo(d, serial)
  <2>1. Fits(active, e)
    BY <1>1
  <2> QED BY <1>4, <1>6, <2>1, LeadsAlike DEF Fits
<1>11. WasWritten(d)
  <2>1. \A i \in DOMAIN d.meters : IsSequence(d.meters[i].routes)
    BY <1>4 DEF OfOneMeter
  <2>2. IsSequence(d.routes) /\ \A i \in DOMAIN d.routes : DOMAIN d.routes[i] = RouteFields
    BY <1>1, <1>4, <1>9 DEF Fits
  <2>3. ~d.bus /\ (d.serial # NoSerial \/ (d.version < 3 /\ d.title # NoSerial))
    BY <1>4 DEF OfOneMeter
  <2> QED BY <1>5, <1>7, <2>1, <2>2, <2>3 DEF WasWritten
<1> QED BY <1>7, <1>9, <1>10, <1>11 DEF Sound, d

LEMMA WithMeterRoutesSound ==
  ASSUME NEW m, DOMAIN m = MeterFields, NEW routes, IsSequence(routes), routes # <<>>, NEW key
  PROVE  LET n == WithMeterRoutes(m, routes, key) IN MeterSound(n) /\ IsSequence(n.routes)
<1> DEFINE kept == Deduplicate(routes)
           active == SelectActive(kept, key)
           n == WithMeterRoutes(m, routes, key)
<1>1. /\ IsSequence(kept)
      /\ RoutesSound(kept, RouteKey(active)) /\ SelectActive(kept, RouteKey(active)) = active
  BY WrittenSound
<1> HIDE DEF kept, active
<1>2. n = [m EXCEPT !.slave = active.slave, !.routes = kept, !.active = RouteKey(active)]
  BY DEF WithMeterRoutes, kept, active
<1> HIDE DEF n
<1>3. n.slave = active.slave /\ n.routes = kept /\ n.active = RouteKey(active)
  BY <1>2 DEF MeterFields
<1> QED BY <1>1, <1>3 DEF MeterSound, n

LEMMA AppendIs ==
  ASSUME NEW s, IsSequence(s), NEW r
  PROVE  /\ IsSequence(Append(s, r)) /\ Append(s, r) # <<>>
         /\ \A i \in DOMAIN Append(s, r) :
              Append(s, r)[i] = r \/ \E j \in DOMAIN s : Append(s, r)[i] = s[j]
<1> DEFINE R == {s[i] : i \in DOMAIN s} \cup {r}
           t == Append(s, r)
<1>1. s \in Seq(R)
  <2>1. \A S, T, q : q \in Seq(S) /\ S \subseteq T => q \in Seq(T)
    BY SeqMonotonic
  <2> QED BY <2>1 DEF IsSequence
<1>2. r \in R
  OBVIOUS
<1> HIDE DEF R
<1>3. /\ t \in Seq(R) /\ DOMAIN t = 1 .. Len(s) + 1 /\ Len(s) \in Nat /\ DOMAIN s = 1 .. Len(s)
      /\ t[Len(s) + 1] = r /\ \A i \in 1 .. Len(s) : t[i] = s[i]
  BY <1>1, <1>2
<1> HIDE DEF t
<1>4. IsSequence(t)
  BY <1>3, ValuesAreSequence
<1>5. t # <<>>
  BY <1>3
<1>6. \A i \in DOMAIN t : t[i] = r \/ \E j \in DOMAIN s : t[i] = s[j]
  BY <1>3
<1> QED BY <1>4, <1>5, <1>6 DEF t

LEMMA MeterRoutesAre ==
  ASSUME NEW m, IsSequence(m.routes), NEW bus
  PROVE  IsSequence(MeterRoutes(m, bus)) /\ MeterRoutes(m, bus) # <<>>
<1>1. CASE m.routes # <<>>
  BY <1>1, DeduplicatedIs DEF MeterRoutes
<1>2. CASE m.routes = <<>>
  <2>1. \A r : IsSequence(<<r>>) /\ <<r>> # <<>>
    BY DEF IsSequence
  <2> QED BY <1>2, <2>1 DEF MeterRoutes
<1> QED BY <1>1, <1>2

LEMMA EnsuredMeterSound ==
  ASSUME NEW m, DOMAIN m = MeterFields, IsSequence(m.routes), NEW bus
  PROVE  LET n == EnsureBusRoute(m, bus) IN MeterSound(n) /\ IsSequence(n.routes)
<1>1. IsSequence(MeterRoutes(m, bus)) /\ MeterRoutes(m, bus) # <<>>
  BY MeterRoutesAre
<1>2. \A r : IsSequence(Append(MeterRoutes(m, bus), r)) /\ Append(MeterRoutes(m, bus), r) # <<>>
  BY <1>1, AppendIs
<1>3. \E routes, key : /\ IsSequence(routes) /\ routes # <<>>
                       /\ EnsureBusRoute(m, bus) = WithMeterRoutes(m, routes, key)
  BY <1>1, <1>2 DEF EnsureBusRoute
<1> QED BY <1>3, WithMeterRoutesSound

\* A bus whose meters are sound is.
LEMMA BusSound ==
  ASSUME NEW d, IsEntry(d), d.bus,
         \A i \in DOMAIN d.meters : MeterSound(d.meters[i]) /\ IsSequence(d.meters[i].routes)
  PROVE  Sound(d)
  BY DEF Sound, WasWritten

LEMMA MetersSound ==
  ASSUME NEW e, IsEntry(e), e.bus, NEW t, t = [i \in DOMAIN e.meters |-> t[i]],
         \A i \in DOMAIN t :
           /\ DOMAIN t[i] = MeterFields /\ t[i].serial = e.meters[i].serial
           /\ MeterSound(t[i]) /\ IsSequence(t[i].routes)
  PROVE  Sound([e EXCEPT !.meters = t])
<1> DEFINE d == [e EXCEPT !.meters = t]
<1>1. Keeps(d, e)
  BY MetersKeep
<1>2. d.meters = t
  BY DEF IsEntry, EntryFields
<1> HIDE DEF d
<1>3. Sound(d)
  BY <1>1, <1>2, BusSound DEF Keeps
<1> QED BY <1>3 DEF d

LEMMA EnsuredSound ==
  ASSUME NEW e, IsEntry(e), e.bus, \A i \in DOMAIN e.meters : IsSequence(e.meters[i].routes), NEW bus
  PROVE  Sound([e EXCEPT !.meters = [i \in DOMAIN e.meters |-> EnsureBusRoute(e.meters[i], bus)]])
<1> DEFINE t == [i \in DOMAIN e.meters |-> EnsureBusRoute(e.meters[i], bus)]
<1>1. \A i \in DOMAIN t : DOMAIN t[i] = MeterFields /\ t[i].serial = e.meters[i].serial
  BY EnsuredMeterKeeps DEF IsEntry
<1>2. \A i \in DOMAIN t : MeterSound(t[i]) /\ IsSequence(t[i].routes)
  BY EnsuredMeterSound DEF IsEntry
<1>3. t = [i \in DOMAIN e.meters |-> t[i]]
  OBVIOUS
<1> HIDE DEF t
<1>4. Sound([e EXCEPT !.meters = t])
  BY <1>1, <1>2, <1>3, MetersSound
<1> QED BY <1>4 DEF t

\* The routes of an entry of one meter
LEMMA RoutesAre ==
  ASSUME NEW e, Sound(e), ~e.bus
  PROVE  /\ IsSequence(Routes(e)) /\ Routes(e) # <<>>
         /\ \A i \in DOMAIN Routes(e) : Fits(Routes(e)[i], e)
<1>1. CASE e.routes # <<>>
  <2>1. Routes(e) = Deduplicate(e.routes)
    BY <1>1 DEF Routes
  <2>2. IsSequence(Routes(e)) /\ Routes(e) # <<>> /\ Among(Routes(e), e.routes)
    BY <1>1, <2>1, DeduplicatedIs DEF Sound, WasWritten
  <2> QED BY <2>2 DEF Among, Sound
<1>2. CASE e.routes = <<>>
  <2> DEFINE r == RouteOf(e, "active")
  <2>1. Routes(e) = <<r>>
    BY <1>2 DEF Routes
  <2>2. DOMAIN r = RouteFields /\ r.transport = e.transport /\ r.ep = e.ep /\ r.slave = e.slave
    BY DEF RouteOf, RouteFields
  <2> HIDE DEF r
  <2>3. Fits(r, e)
    BY <2>2, LeadsAlike DEF Sound, Fits
  <2>4. IsSequence(<<r>>) /\ <<r>> # <<>> /\ DOMAIN <<r>> = {1} /\ <<r>>[1] = r
    BY DEF IsSequence
  <2> QED BY <2>1, <2>3, <2>4
<1> QED BY <1>1, <1>2

LEMMA NormalizeSound ==
  ASSUME NEW e, Sound(e), e.version = LatestVersion
  PROVE  Sound(Normalize(e))
<1>0. IsEntry(e)
  BY DEF Sound, WasWritten
<1>1. CASE e.bus
  <2> DEFINE t == [i \in DOMAIN e.meters |->
                     IF e.meters[i].routes = <<>> THEN e.meters[i]
                     ELSE WithMeterRoutes(e.meters[i], e.meters[i].routes, e.meters[i].active)]
  <2>1. Normalize(e) = [e EXCEPT !.meters = t]
    BY <1>1 DEF Normalize, ForMeters
  <2>2. \A i \in DOMAIN t : DOMAIN t[i] = MeterFields /\ t[i].serial = e.meters[i].serial
    BY <1>0, MeterKeeps DEF IsEntry
  <2>3. \A i \in DOMAIN e.meters : /\ DOMAIN e.meters[i] = MeterFields
                                   /\ e.meters[i].routes # <<>> /\ IsSequence(e.meters[i].routes)
    BY <1>0, <1>1 DEF Sound, WasWritten, MeterSound, RoutesSound, IsEntry
  <2>4. \A i \in DOMAIN t : MeterSound(t[i]) /\ IsSequence(t[i].routes)
    BY <2>3, WithMeterRoutesSound
  <2>5. t = [i \in DOMAIN e.meters |-> t[i]]
    OBVIOUS
  <2> HIDE DEF t
  <2>6. Sound([e EXCEPT !.meters = t])
    BY <1>0, <1>1, <2>2, <2>4, <2>5, MetersSound
  <2> QED BY <2>1, <2>6
<1>2. CASE ~e.bus
  BY <1>2, RoutesAre, WithRoutesSound, SoundIsOfOne DEF Normalize
<1> QED BY <1>1, <1>2

LEMMA MapIs ==
  ASSUME NEW s, IsSequence(s), s # <<>>, NEW t, t = [i \in DOMAIN s |-> t[i]]
  PROVE  IsSequence(t) /\ t # <<>> /\ DOMAIN t = DOMAIN s
<1>1. IsSequence(t) /\ DOMAIN t = DOMAIN s
  BY MapIsSequence
<1>2. 1 \in DOMAIN s
  BY DEF IsSequence
<1>3. t # <<>>
  BY <1>1, <1>2
<1> QED BY <1>1, <1>3

\* Every route is exchanged for one that fits or is left.
LEMMA ExchangeSound ==
  ASSUME NEW e, Sound(e), ~e.bus, NEW t, t = [i \in DOMAIN Routes(e) |-> t[i]], NEW key,
         \A i \in DOMAIN t : t[i] = Routes(e)[i] \/ Fits(t[i], e)
  PROVE  Sound(WithRoutes(e, t, key))
<1>1. /\ IsSequence(Routes(e)) /\ Routes(e) # <<>>
      /\ \A i \in DOMAIN Routes(e) : Fits(Routes(e)[i], e)
  BY RoutesAre
<1>2. IsSequence(t) /\ t # <<>> /\ DOMAIN t = DOMAIN Routes(e)
  BY <1>1, MapIs
<1>3. \A i \in DOMAIN t : Fits(t[i], e)
  BY <1>1, <1>2
<1> QED BY <1>2, <1>3, WithRoutesSound, SoundIsOfOne

LEMMA FieldsSound ==
  ASSUME NEW e, Sound(e), ~e.bus, NEW d, DOMAIN d = DOMAIN e,
         \A f \in {"version", "serial", "title", "bus", "meters", "uid"} : d[f] = e[f]
  PROVE  /\ IsEntry(d) /\ ~d.bus /\ SerialsOf(d) = SerialsOf(e)
         /\ \A i \in DOMAIN d.meters : IsSequence(d.meters[i].routes)
         /\ d.serial # NoSerial \/ (d.version < 3 /\ d.title # NoSerial)
<1>1. Keeps(d, e)
  BY FieldsKeep DEF Sound, WasWritten
<1>2. SerialsOf(d) = SerialsOf(e)
  BY DEF SerialsOf
<1> QED BY <1>1, <1>2 DEF Keeps, Sound, WasWritten

LEMMA ZeroconfSound ==
  ASSUME NEW e, Sound(e), NEW ad \in Adverts, ad.by = "zeroconf", ad.serial \in SerialsOf(e)
  PROVE  Sound(ZeroconfUpdate(e, ad.ep))
<1> DEFINE ep == ad.ep
<1>a. ~e.bus => SerialsOf(e) = {ad.serial}
  BY DEF SerialsOf
<1>1. CASE e.bus \/ ~IsDirect(e)
  BY <1>1 DEF ZeroconfUpdate
<1>2. CASE ~e.bus /\ IsDirect(e) /\ e.routes = <<>>
  <2> DEFINE d == [e EXCEPT !.ep = ep]
  <2>1. DOMAIN d = DOMAIN e
    OBVIOUS
  <2>2. \A f \in EntryFields \ {"ep"} : d[f] = e[f]
    BY DEF Sound, WasWritten, IsEntry
  <2>3. ZeroconfUpdate(e, ep) = d
    BY <1>2 DEF ZeroconfUpdate
  <2>e. d.ep = ep
    BY DEF Sound, WasWritten, IsEntry, EntryFields
  <2> HIDE DEF d
  <2>4. /\ \A f \in {"version", "serial", "title", "bus", "meters", "uid"} : d[f] = e[f]
        /\ d.routes = e.routes /\ d.active = e.active /\ d.transport = e.transport
    BY <2>2 DEF EntryFields
  <2>5. /\ IsEntry(d) /\ ~d.bus
        /\ \A i \in DOMAIN d.meters : IsSequence(d.meters[i].routes)
        /\ d.serial # NoSerial \/ (d.version < 3 /\ d.title # NoSerial)
    BY <1>2, <2>1, <2>4, FieldsSound
  <2>6. d.version < 4
    BY <1>2, <2>4 DEF Sound, WasWritten, Mirrored, RoutesSound
  <2>7. WasWritten(d)
    BY <1>2, <2>4, <2>5, <2>6 DEF WasWritten, Sound
  <2>8. d.slave = e.slave /\ d.ep = ep /\ SerialsOf(d) = {ad.serial}
    <3>1. d.slave = e.slave
      BY <2>2 DEF EntryFields
    <3>2. SerialsOf(d) = SerialsOf(e)
      BY <1>2, <2>1, <2>4, FieldsSound
    <3> QED BY <1>2, <1>a, <2>e, <3>1, <3>2
  <2>9. LeadsTo(e, ad.serial) /\ OfKind(ad, e)
    BY <1>2 DEF Sound, OfKind
  <2>10. LeadsTo(d, ad.serial)
    BY <2>4, <2>8, <2>9, LeadsOn
  <2>11. DOMAIN d.routes = {}
    <3>1. DOMAIN <<>> = {}
      OBVIOUS
    <3> QED BY <1>2, <2>4, <3>1
  <2> QED BY <2>3, <2>7, <2>8, <2>10, <2>11 DEF Sound
<1>3. CASE ~e.bus /\ IsDirect(e) /\ e.routes # <<>>
  <2> DEFINE routes == Routes(e)
             Moved(r) == [r EXCEPT !.ep = ep]
  <2>1. /\ IsSequence(routes) /\ routes # <<>>
        /\ \A i \in DOMAIN routes : Fits(routes[i], e)
    BY <1>3, RoutesAre
  <2>2. ASSUME NEW r, Fits(r, e), IsDirect(r)
        PROVE  Fits([Moved(r) EXCEPT !.transport = e.transport], e) /\ Fits(Moved(r), e)
    <3> DEFINE q == [Moved(r) EXCEPT !.transport = e.transport]
               p == Moved(r)
    <3>1. DOMAIN p = RouteFields /\ p.transport = r.transport /\ p.ep = ep /\ p.slave = r.slave
      BY <2>2 DEF Fits, RouteFields
    <3>2. DOMAIN q = RouteFields /\ q.transport = e.transport /\ q.ep = ep /\ q.slave = r.slave
      BY <2>2 DEF Fits, RouteFields
    <3>3. LeadsTo(r, ad.serial) /\ OfKind(ad, r)
      BY <2>2 DEF Fits, OfKind
    <3> HIDE DEF q, p
    <3>4. LeadsTo(p, ad.serial)
      BY <3>1, <3>3, LeadsOn
    <3>5. IsDirect(q)
      BY <1>3, <3>2 DEF IsDirect
    <3>6. LeadsTo(q, ad.serial)
      BY <2>2, <3>2, <3>3, <3>5, LeadsOn
    <3>7. Fits(q, e) /\ Fits(p, e)
      BY <1>3, <1>a, <3>1, <3>2, <3>4, <3>6 DEF Fits
    <3> QED BY <3>7 DEF q, p
  <2> DEFINE direct == {i \in DOMAIN routes : IsDirect(routes[i])}
             template == IF direct = {} THEN RouteOf(e, "active")
                         ELSE routes[CHOOSE i \in direct : \A j \in direct : i <= j]
             added == [Moved(template) EXCEPT !.transport = e.transport]
  <2>3. \/ \E targets \in SUBSET direct : \E key :
             ZeroconfUpdate(e, ep) =
               WithRoutes(e, [i \in DOMAIN routes |-> IF i \in targets THEN Moved(routes[i])
                                                      ELSE routes[i]], key)
        \/ ZeroconfUpdate(e, ep) = WithRoutes(e, Append(routes, added), e.active)
    <3> DEFINE exact == {i \in direct : routes[i].transport = e.transport /\ routes[i].ep = ep}
               targets == IF exact = {} /\ Cardinality(direct) = 1 THEN direct ELSE exact
               followed == {i \in targets : RouteKey(routes[i]) = e.active}
               key == IF followed = {} THEN e.active
                      ELSE RouteKey(Moved(routes[CHOOSE i \in followed : TRUE]))
               moved == [i \in DOMAIN routes |-> IF i \in targets THEN Moved(routes[i]) ELSE routes[i]]
    <3>1. ZeroconfUpdate(e, ep) = IF targets # {} THEN WithRoutes(e, moved, key)
                                  ELSE WithRoutes(e, Append(routes, added), key)
      BY <1>3 DEF ZeroconfUpdate
    <3>2. targets = {} => key = e.active
      OBVIOUS
    <3>3. targets \in SUBSET direct
      OBVIOUS
    <3> HIDE DEF targets, key, added, template, direct, routes
    <3> QED BY <3>1, <3>2, <3>3
  <2>4. CASE \E targets \in SUBSET direct : \E key :
             ZeroconfUpdate(e, ep) =
               WithRoutes(e, [i \in DOMAIN routes |-> IF i \in targets THEN Moved(routes[i])
                                                      ELSE routes[i]], key)
    <3>1. PICK targets \in SUBSET direct :
            \E key : ZeroconfUpdate(e, ep) =
               WithRoutes(e, [i \in DOMAIN routes |-> IF i \in targets THEN Moved(routes[i])
                                                      ELSE routes[i]], key)
      BY <2>4
    <3> DEFINE t == [i \in DOMAIN routes |-> IF i \in targets THEN Moved(routes[i]) ELSE routes[i]]
    <3>2. PICK key : ZeroconfUpdate(e, ep) = WithRoutes(e, t, key)
      BY <3>1
    <3>3. \A i \in DOMAIN routes : Fits(routes[i], e) /\ (i \in targets => IsDirect(routes[i]))
      BY <2>1
    <3>4. \A i \in DOMAIN t : t[i] = routes[i] \/ Fits(t[i], e)
      BY <2>2, <3>3
    <3>5. t = [i \in DOMAIN routes |-> t[i]]
      OBVIOUS
    <3> HIDE DEF t
    <3> QED BY <1>3, <3>2, <3>4, <3>5, ExchangeSound
  <2>5. CASE ZeroconfUpdate(e, ep) = WithRoutes(e, Append(routes, added), e.active)
    <3>1. Fits(template, e) /\ IsDirect(template)
      <4>1. direct # {} => (CHOOSE i \in direct : \A j \in direct : i <= j) \in direct
        <5>1. direct \subseteq Nat
          BY <2>1 DEF IsSequence
        <5> QED BY <5>1, LeastNumber
      <4> DEFINE r == RouteOf(e, "active")
      <4>2. /\ DOMAIN r = RouteFields
            /\ r.transport = e.transport /\ r.ep = e.ep /\ r.slave = e.slave
        BY DEF RouteOf, RouteFields
      <4> HIDE DEF r
      <4>3. Fits(r, e) /\ IsDirect(r)
        BY <1>3, <4>2, LeadsAlike DEF Sound, Fits, IsDirect
      <4> QED BY <2>1, <4>1, <4>3 DEF r
    <3>2. Fits(added, e)
      BY <2>2, <3>1
    <3> HIDE DEF added
    <3>3. /\ IsSequence(Append(routes, added)) /\ Append(routes, added) # <<>>
          /\ \A i \in DOMAIN Append(routes, added) : Fits(Append(routes, added)[i], e)
      BY <2>1, <3>2, AppendIs
    <3> HIDE DEF routes
    <3> QED BY <1>3, <2>5, <3>3, WithRoutesSound, SoundIsOfOne
  <2> QED BY <2>3, <2>4, <2>5
<1> QED BY <1>1, <1>2, <1>3 DEF Sound, WasWritten, IsEntry

\* What an advertisement finds the meter at is its Bluetooth address: no key changes.
LEMMA BluetoothSound ==
  ASSUME NEW e, Sound(e), NEW ad \in Adverts, ad.by = "bluetooth", ad.serial \in SerialsOf(e)
  PROVE  Sound(BluetoothUpdate(e, ad.ep, ad.line))
<1>1. CASE e.bus \/ e.transport # "bluetooth"
  BY <1>1 DEF BluetoothUpdate
<1>2. CASE ~e.bus /\ e.transport = "bluetooth"
  <2> DEFINE routes == e.routes
             bluetooth == {i \in DOMAIN routes : routes[i].transport = "bluetooth"}
             known == {i \in bluetooth : \/ RouteKey(routes[i]) = e.active
                                         \/ Canonical[routes[i].ep] = Canonical[e.ep]}
             targets == IF known = {} /\ Cardinality(bluetooth) = 1 THEN bluetooth ELSE known
             Moved(r) == [r EXCEPT !.ep = ad.ep, !.line = ad.line]
             t == [i \in DOMAIN routes |-> IF i \in targets THEN Moved(routes[i]) ELSE routes[i]]
             followed == {i \in targets : RouteKey(routes[i]) = e.active}
             key == IF followed = {} THEN e.active
                    ELSE RouteKey(Moved(routes[CHOOSE i \in followed : TRUE]))
             d == [e EXCEPT !.ep = ad.ep, !.line = ad.line, !.routes = t, !.active = key]
  <2>1. BluetoothUpdate(e, ad.ep, ad.line) = d
    BY <1>2 DEF BluetoothUpdate
  <2>2. /\ targets \subseteq bluetooth
        /\ \A i \in bluetooth : RouteKey(routes[i]) = e.active => i \in targets
    OBVIOUS
  <2>3. SerialsOf(e) = {ad.serial}
    BY <1>2 DEF SerialsOf
  <2>5. /\ IsSequence(routes) /\ OfOneMeter(e)
        /\ \A i \in DOMAIN routes : DOMAIN routes[i] = RouteFields /\ LeadsTo(routes[i], ad.serial)
    BY <1>2, <2>3, SoundIsOfOne DEF Sound, WasWritten, Fits
  <2>6. ASSUME NEW r, DOMAIN r = RouteFields, r.transport = "bluetooth", LeadsTo(r, ad.serial)
        PROVE  /\ DOMAIN Moved(r) = RouteFields /\ Moved(r).transport = "bluetooth"
               /\ Moved(r).ep = ad.ep /\ Moved(r).line = ad.line /\ Moved(r).slave = r.slave
               /\ RouteKey(Moved(r)) = RouteKey(r) /\ LeadsTo(Moved(r), ad.serial)
    <3>1. /\ DOMAIN Moved(r) = RouteFields /\ Moved(r).transport = "bluetooth"
          /\ Moved(r).ep = ad.ep /\ Moved(r).line = ad.line /\ Moved(r).slave = r.slave
      BY <2>6 DEF RouteFields
    <3> HIDE DEF Moved
    <3>2. Canonical[r.ep] = Canonical[ad.ep]
      BY <2>6 DEF LeadsTo, AtAddress
    <3>3. RouteKey(Moved(r)) = RouteKey(r)
      BY <2>6, <3>1, <3>2 DEF RouteKey
    <3>4. OfKind(ad, r)
      BY <2>6 DEF OfKind
    <3> DEFINE q == Moved(r)
    <3>5. q.transport = r.transport /\ q.ep = ad.ep /\ q.slave = r.slave
      BY <2>6, <3>1
    <3> HIDE DEF q
    <3>6. LeadsTo(q, ad.serial)
      BY <2>6, <3>4, <3>5, LeadsOn
    <3> QED BY <3>1, <3>3, <3>6 DEF q
  <2> HIDE DEF Moved
  <2>7. key = e.active
    <3>1. followed # {} => (CHOOSE i \in followed : TRUE) \in followed
      OBVIOUS
    <3>2. \A i \in followed : RouteKey(Moved(routes[i])) = e.active
      BY <2>2, <2>5, <2>6
    <3> HIDE DEF followed
    <3> QED BY <3>1, <3>2
  <2>8. t = [i \in DOMAIN routes |-> t[i]] /\ DOMAIN t = DOMAIN routes
    OBVIOUS
  <2>9. \A i \in DOMAIN routes :
          /\ DOMAIN t[i] = RouteFields /\ LeadsTo(t[i], ad.serial)
          /\ RouteKey(t[i]) = RouteKey(routes[i])
          /\ i \in targets => /\ t[i].transport = "bluetooth" /\ t[i].ep = ad.ep
                              /\ t[i].line = ad.line /\ t[i].slave = routes[i].slave
    BY <2>2, <2>5, <2>6
  <2>10. \A i \in bluetooth : RouteKey(routes[i]) = e.active => i \in targets
    BY <2>2
  <2> HIDE DEF t, key, targets
  <2>11. /\ DOMAIN d = DOMAIN e
         /\ \A f \in EntryFields \ {"ep", "line", "routes", "active"} : d[f] = e[f]
         /\ d.ep = ad.ep /\ d.line = ad.line /\ d.routes = t /\ d.active = e.active
    BY <2>5, <2>7 DEF OfOneMeter, IsEntry, EntryFields
  <2> HIDE DEF d
  <2>12. /\ \A f \in {"version", "serial", "title", "bus", "meters", "uid"} : d[f] = e[f]
         /\ d.transport = e.transport /\ d.slave = e.slave
    BY <2>11 DEF EntryFields
  <2>13. /\ IsEntry(d) /\ ~d.bus /\ SerialsOf(d) = SerialsOf(e)
         /\ \A i \in DOMAIN d.meters : IsSequence(d.meters[i].routes)
         /\ d.serial # NoSerial \/ (d.version < 3 /\ d.title # NoSerial)
    BY <1>2, <2>11, <2>12, FieldsSound
  <2>14. IsSequence(t)
    BY <2>5, <2>8, MapIsSequence
  <2>15. ASSUME Mirrored(e)
         PROVE  Mirrored(d)
    <3>1. Distinct(routes) /\ routes # <<>>
      BY <2>5, <2>15, KeysOfDistinct DEF Mirrored, RoutesSound
    <3>2. PICK i \in DOMAIN routes : RouteKey(routes[i]) = e.active
      BY <2>15 DEF Mirrored, RoutesSound
    <3>3. SelectActive(routes, e.active) = routes[i]
      BY <2>5, <3>1, <3>2, SelectedOwn
    <3>4. i \in targets
      BY <1>2, <2>10, <2>15, <3>2, <3>3 DEF Mirrored
    <3>5. \A j \in DOMAIN routes : StorageKey(t[j]) = StorageKey(routes[j])
      BY <2>9, SameKeys
    <3>6. Distinct(t)
      BY <2>8, <3>1, <3>5 DEF Distinct
    <3>7. t # <<>> /\ Deduplicate(t) = t
      BY <2>5, <2>8, <2>14, <3>1, <3>6, MapIs, DistinctStays
    <3>8. RouteKey(t[i]) = e.active /\ SelectActive(t, e.active) = t[i]
      BY <2>8, <2>9, <2>14, <3>2, <3>6, SelectedOwn
    <3>9. RoutesSound(t, e.active)
      BY <2>8, <3>2, <3>7, <3>8 DEF RoutesSound
    <3>10. routes[i].slave = e.slave
      BY <2>15, <3>3 DEF Mirrored
    <3>11. /\ t[i].transport = d.transport /\ t[i].ep = d.ep /\ t[i].line = d.line
           /\ t[i].slave = d.slave
      BY <1>2, <2>9, <2>11, <2>12, <3>4, <3>10
    <3> QED BY <2>11, <3>8, <3>9, <3>11 DEF Mirrored
  <2>16. \/ Mirrored(d)
         \/ d.version < 4 /\ (d.routes = <<>> \/ d.active = NoKey)
    <3>1. routes = <<>> => t = <<>>
      BY <2>8
    <3>2. \/ Mirrored(e)
          \/ e.version < 4 /\ (e.routes = <<>> \/ e.active = NoKey)
      BY <1>2 DEF Sound, WasWritten
    <3> HIDE DEF Mirrored
    <3> QED BY <2>11, <2>12, <2>15, <3>1, <3>2
  <2>17. WasWritten(d)
    BY <2>8, <2>9, <2>11, <2>13, <2>14, <2>16 DEF WasWritten
  <2>18. \A i \in DOMAIN d.routes : Fits(d.routes[i], d)
    BY <2>3, <2>8, <2>9, <2>11, <2>13 DEF Fits
  <2>19. \A serial \in SerialsOf(d) : LeadsTo(d, serial)
    <3>1. LeadsTo(e, ad.serial) /\ OfKind(ad, e)
      BY <1>2 DEF Sound, OfKind
    <3>2. LeadsTo(d, ad.serial)
      BY <2>11, <2>12, <3>1, LeadsOn
    <3> QED BY <2>3, <2>13, <3>2
  <2> QED BY <2>1, <2>17, <2>18, <2>19 DEF Sound
<1> QED BY <1>1, <1>2 DEF Sound, WasWritten, IsEntry

\* The migrations leave an entry of the latest version that can be used.
LEMMA MigrateSound ==
  ASSUME NEW e, Sound(e)
  PROVE  Sound(Migrate(e))
<1> DEFINE a == ToBus(e)
           b == WithSerial(a)
           c == WithFirstRoute(b)
           d == WithBusRoutes(c)
           z == [d EXCEPT !.version = LatestVersion]
<1>1. z = Migrate(e)
  BY DEF Migrate
<1>2. IsEntry(e) /\ \A i \in DOMAIN e.meters : IsSequence(e.meters[i].routes)
  BY DEF Sound, WasWritten
<1>3. ASSUME NEW x, IsEntry(x), NEW y, y = [x EXCEPT !.version = LatestVersion]
      PROVE  /\ IsEntry(y) /\ y.version = LatestVersion
             /\ \A f \in EntryFields \ {"version"} : y[f] = x[f]
  <2>1. /\ DOMAIN y = EntryFields /\ y.version = LatestVersion
        /\ \A f \in EntryFields \ {"version"} : y[f] = x[f]
    BY <1>3 DEF IsEntry, EntryFields
  <2>2. y.bus = x.bus /\ y.meters = x.meters
    BY <2>1 DEF EntryFields
  <2> QED BY <1>3, <2>1, <2>2 DEF IsEntry, LatestVersion
<1>4. ASSUME NEW x, IsEntry(x), x.bus, \A i \in DOMAIN x.meters : IsSequence(x.meters[i].routes),
             x.version = LatestVersion => \A i \in DOMAIN x.meters : MeterSound(x.meters[i]),
             NEW y, y = [WithBusRoutes(x) EXCEPT !.version = LatestVersion]
      PROVE  Sound(y)
  <2> DEFINE t == [i \in DOMAIN x.meters |-> EnsureBusRoute(x.meters[i], x)]
  <2>1. CASE x.version < LatestVersion
    <3>1. WithBusRoutes(x) = [x EXCEPT !.meters = t]
      BY <1>4, <2>1 DEF WithBusRoutes, ForMeters, LatestVersion
    <3>2. \A i \in DOMAIN t : MeterSound(t[i]) /\ IsSequence(t[i].routes)
      BY <1>4, EnsuredMeterSound DEF IsEntry
    <3>3. IsEntry(WithBusRoutes(x)) /\ WithBusRoutes(x).bus
      <4>1. Keeps([x EXCEPT !.meters = t], x)
        BY <1>4, EnsuredKeeps
      <4> HIDE DEF t
      <4> QED BY <1>4, <3>1, <4>1 DEF Keeps
    <3> HIDE DEF t
    <3>4. WithBusRoutes(x).meters = t
      BY <1>4, <3>1 DEF IsEntry, EntryFields
    <3>5. IsEntry(y) /\ y.bus /\ y.meters = t
      BY <1>3, <1>4, <3>3, <3>4 DEF EntryFields
    <3> QED BY <3>2, <3>5, BusSound
  <2>2. CASE x.version = LatestVersion
    <3>1. WithBusRoutes(x) = x
      BY <1>4, <2>2 DEF WithBusRoutes, LatestVersion
    <3>2. IsEntry(y) /\ y.bus /\ y.meters = x.meters
      BY <1>3, <1>4, <3>1 DEF EntryFields
    <3> QED BY <1>4, <2>2, <3>2, BusSound
  <2> QED BY <1>4, <2>1, <2>2 DEF IsEntry, LatestVersion
<1>5. CASE e.bus
  <2>1. a = e
    BY <1>5 DEF ToBus
  <2>2. b = e
    BY <1>5, <2>1 DEF WithSerial
  <2>3. c = e
    BY <1>5, <2>2 DEF WithFirstRoute
  <2>4. z = [WithBusRoutes(e) EXCEPT !.version = LatestVersion]
    BY <2>3
  <2> HIDE DEF z
  <2> QED BY <1>1, <1>2, <1>4, <1>5, <2>4 DEF Sound, WasWritten
<1>6. CASE e.version < 2 /\ e.transport = "serial" /\ ~e.bus
  <2> DEFINE m == [serial |-> e.title, variant |-> e.variant, slave |-> e.slave,
                   routes |-> <<>>, active |-> NoKey]
  <2>1. a = [e EXCEPT !.bus = TRUE, !.meters = <<m>>]
    BY <1>6 DEF ToBus
  <2>2. DOMAIN m = MeterFields /\ m.routes = <<>>
    BY DEF MeterFields
  <2> HIDE DEF m, a
  <2>3. DOMAIN a = EntryFields /\ a.version = e.version /\ a.bus = TRUE /\ a.meters = <<m>>
    BY <1>2, <2>1 DEF IsEntry, EntryFields
  <2>4. IsSequence(<<m>>) /\ DOMAIN <<m>> = {1} /\ <<m>>[1] = m /\ IsSequence(<<>>)
    BY DEF IsSequence
  <2>5. a.bus \in BOOLEAN /\ a.bus
    BY <2>3
  <2>6. IsEntry(a) /\ \A i \in DOMAIN a.meters : IsSequence(a.meters[i].routes)
    BY <1>2, <2>2, <2>3, <2>4, <2>5 DEF IsEntry
  <2>7. a.version # LatestVersion
    BY <1>2, <1>6, <2>3 DEF LatestVersion, IsEntry
  <2>8. b = a
    BY <2>5 DEF WithSerial
  <2>9. c = a
    BY <2>5, <2>8 DEF WithFirstRoute
  <2>10. z = [WithBusRoutes(a) EXCEPT !.version = LatestVersion]
    BY <2>9
  <2> HIDE DEF z
  <2> QED BY <1>1, <1>4, <2>5, <2>6, <2>7, <2>10
<1>7. CASE ~e.bus /\ ~(e.version < 2 /\ e.transport = "serial")
  <2>1. a = e
    BY <1>7 DEF ToBus
  <2>2. /\ OfOneMeter(b) /\ b.serial # NoSerial /\ SerialsOf(b) = SerialsOf(e)
        /\ b.version = e.version /\ b.routes = e.routes /\ b.active = e.active
        /\ b.transport = e.transport /\ b.ep = e.ep /\ b.line = e.line /\ b.slave = e.slave
    <3>1. CASE b = e
      <4>1. b.serial # NoSerial
        BY <1>2, <1>7, <2>1, <3>1 DEF WithSerial, Sound, WasWritten
      <4> QED BY <1>7, <3>1, <4>1, SoundIsOfOne
    <3>2. CASE e.version < 3 /\ e.serial = NoSerial /\ b = [e EXCEPT !.serial = e.title]
      <4>1. /\ DOMAIN b = EntryFields /\ b.serial = e.title
            /\ \A f \in EntryFields \ {"serial"} : b[f] = e[f]
        BY <1>2, <3>2 DEF IsEntry, EntryFields
      <4> HIDE DEF b
      <4>2. /\ b.version = e.version /\ b.routes = e.routes /\ b.active = e.active
            /\ b.transport = e.transport /\ b.ep = e.ep /\ b.line = e.line /\ b.slave = e.slave
            /\ b.bus = e.bus /\ b.meters = e.meters
        BY <4>1 DEF EntryFields
      <4>3. e.title # NoSerial
        BY <1>7, <3>2 DEF Sound, WasWritten
      <4>4. SerialsOf(b) = SerialsOf(e)
        BY <1>7, <3>2, <4>1, <4>2, <4>3 DEF SerialsOf
      <4>5. OfOneMeter(b)
        BY <1>2, <1>7, <4>1, <4>2, <4>3 DEF OfOneMeter, IsEntry
      <4> QED BY <4>1, <4>2, <4>3, <4>4, <4>5
    <3> QED BY <1>7, <2>1, <3>1, <3>2 DEF WithSerial
  <2> HIDE DEF b
  <2>3. Sound(c) /\ Mirrored(c) /\ ~c.bus /\ c.serial # NoSerial
    <3> DEFINE r == RouteOf(b, "active")
    <3>1. CASE c = WithRoutes(b, <<r>>, NoKey)
      <4>1. DOMAIN r = RouteFields /\ r.transport = e.transport /\ r.ep = e.ep /\ r.slave = e.slave
        BY <2>2 DEF RouteOf, RouteFields
      <4> HIDE DEF r
      <4>2. Fits(r, b)
        BY <1>7, <2>2, <4>1, LeadsAlike DEF Sound, Fits
      <4>3. IsSequence(<<r>>) /\ <<r>> # <<>> /\ DOMAIN <<r>> = {1} /\ <<r>>[1] = r
        BY DEF IsSequence
      <4>4. Sound(c) /\ Mirrored(c)
        BY <2>2, <3>1, <4>2, <4>3, WithRoutesSound
      <4>5. c.serial = b.serial /\ ~c.bus
        BY <2>2, <3>1, WithRoutesKeeps DEF Keeps, OfOneMeter
      <4> QED BY <2>2, <4>4, <4>5
    <3>2. CASE c = b /\ ~(b.version < 4 /\ (b.routes = <<>> \/ b.active = NoKey))
      <4>1. Mirrored(e)
        BY <1>7, <2>2, <3>2 DEF Sound, WasWritten
      <4>2. Mirrored(b)
        BY <2>2, <4>1 DEF Mirrored
      <4>3. WasWritten(b)
        BY <1>7, <2>2, <4>2 DEF WasWritten, OfOneMeter, Sound
      <4>4. Sound(b)
        BY <1>7, <2>2, <4>3, LeadsAlike DEF Sound, Fits
      <4> QED BY <2>2, <3>2, <4>2, <4>4 DEF OfOneMeter
    <3> QED BY <2>2, <3>1, <3>2 DEF WithFirstRoute, OfOneMeter
  <2> HIDE DEF c
  <2>4. d = c
    BY <2>3 DEF WithBusRoutes
  <2> HIDE DEF d
  <2>5. IsEntry(z) /\ \A f \in EntryFields \ {"version"} : z[f] = c[f]
    BY <1>3, <2>3, <2>4 DEF Sound, WasWritten
  <2> HIDE DEF z
  <2>6. /\ z.routes = c.routes /\ z.active = c.active /\ z.transport = c.transport /\ z.ep = c.ep
        /\ z.line = c.line /\ z.slave = c.slave /\ z.bus = c.bus /\ z.meters = c.meters
        /\ z.serial = c.serial /\ z.title = c.title
    BY <2>5 DEF EntryFields
  <2>7. Mirrored(z) /\ SerialsOf(z) = SerialsOf(c)
    BY <2>3, <2>6 DEF Mirrored, SerialsOf
  <2>8. WasWritten(z)
    BY <2>3, <2>5, <2>6, <2>7 DEF WasWritten, Sound
  <2>9. Sound(z)
    BY <2>3, <2>6, <2>7, <2>8, LeadsAlike DEF Sound, Fits
  <2> QED BY <1>1, <2>9
<1> QED BY <1>2, <1>5, <1>6, <1>7 DEF IsEntry

LEMMA ApplySoundBus ==
  ASSUME NEW e, Sound(e), e.bus, NEW k, k # NoMeter, NEW data, NEW key,
         NEW routes,
         (\E i \in DOMAIN e.meters : MeterKey(e.meters[i]) = k) => IsSequence(routes) /\ routes # <<>>
  PROVE  Sound(Apply(e, k, data, routes, key))
<1> DEFINE m(i) == IF MeterKey(e.meters[i]) = k THEN WithMeterRoutes(Selected(e, k), routes, key)
                   ELSE e.meters[i]
           t == [i \in DOMAIN e.meters |-> EnsureBusRoute(m(i), e)]
<1>1. Apply(e, k, data, routes, key) = [e EXCEPT !.meters = t]
  BY DEF Apply, ForMeters
<1>2. IsEntry(e) /\ \A i \in DOMAIN e.meters : IsSequence(e.meters[i].routes)
  BY DEF Sound, WasWritten
<1>3. \A i \in DOMAIN e.meters : /\ DOMAIN m(i) = MeterFields /\ m(i).serial = e.meters[i].serial
                                 /\ IsSequence(m(i).routes)
  <2> SUFFICES ASSUME NEW i \in DOMAIN e.meters
               PROVE  /\ DOMAIN m(i) = MeterFields /\ m(i).serial = e.meters[i].serial
                      /\ IsSequence(m(i).routes)
    OBVIOUS
  <2>1. CASE MeterKey(e.meters[i]) # k
    BY <1>2, <2>1 DEF IsEntry
  <2>2. CASE MeterKey(e.meters[i]) = k
    <3>1. DOMAIN Selected(e, k) = MeterFields /\ Selected(e, k).serial = e.meters[i].serial
      BY <1>2, <2>2, SelectedSerial
    <3>2. IsSequence(routes) /\ routes # <<>>
      BY <2>2
    <3> QED BY <2>2, <3>1, <3>2, MeterKeeps, WithMeterRoutesSound
  <2> QED BY <2>1, <2>2
<1> HIDE DEF m
<1>4. \A i \in DOMAIN t : /\ DOMAIN t[i] = MeterFields /\ t[i].serial = e.meters[i].serial
                          /\ MeterSound(t[i]) /\ IsSequence(t[i].routes)
  BY <1>3, EnsuredMeterKeeps, EnsuredMeterSound
<1>5. t = [i \in DOMAIN e.meters |-> t[i]]
  OBVIOUS
<1> HIDE DEF t
<1>6. Sound([e EXCEPT !.meters = t])
  BY <1>2, <1>4, <1>5, MetersSound
<1> QED BY <1>1, <1>6

LEMMA EditedBusSound ==
  ASSUME NEW e, Sound(e), e.bus, NEW ep, NEW line, NEW slaves
  PROVE  Sound(EditedBus(e, ep, line, slaves))
<1> DEFINE bus == [e EXCEPT !.ep = ep, !.line = line]
<1>1. IsEntry(e) /\ \A i \in DOMAIN e.meters : IsSequence(e.meters[i].routes)
  BY DEF Sound, WasWritten
<1>2. IsEntry(bus) /\ bus.bus /\ bus.meters = e.meters
  <2>1. DOMAIN bus = DOMAIN e /\ \A f \in {"version", "bus", "meters"} : bus[f] = e[f]
    BY <1>1 DEF IsEntry, EntryFields
  <2> HIDE DEF bus
  <2> QED BY <1>1, <2>1 DEF IsEntry
<1> HIDE DEF bus
<1> DEFINE t == [i \in DOMAIN bus.meters |->
                   EditedMeter(bus.meters[i], e, bus, slaves[MeterKey(bus.meters[i])])]
<1>3. EditedBus(e, ep, line, slaves) = [bus EXCEPT !.meters = t]
  BY DEF EditedBus, ForMeters, bus
<1>4. \A i \in DOMAIN t : /\ DOMAIN t[i] = MeterFields /\ t[i].serial = bus.meters[i].serial
                          /\ MeterSound(t[i]) /\ IsSequence(t[i].routes)
  <2> SUFFICES ASSUME NEW i \in DOMAIN e.meters
               PROVE  /\ DOMAIN t[i] = MeterFields /\ t[i].serial = e.meters[i].serial
                      /\ MeterSound(t[i]) /\ IsSequence(t[i].routes)
    BY <1>2
  <2> DEFINE m == e.meters[i]
             own == OwnBusRoute(m, e)
             new == [BusRoute(bus, slaves[MeterKey(m)]) EXCEPT !.purpose = own.purpose]
             routes == MeterRoutes(m, e)
             exchanged == [j \in DOMAIN routes |-> IF SameConnection(routes[j], e) THEN new ELSE routes[j]]
             key == IF m.active = RouteKey(own) THEN RouteKey(new) ELSE m.active
  <2>1. t[i] = EnsureBusRoute(WithMeterRoutes(m, exchanged, key), bus)
    BY <1>2 DEF EditedMeter
  <2>2. DOMAIN m = MeterFields /\ IsSequence(routes) /\ routes # <<>>
    BY <1>1, MeterRoutesAre DEF IsEntry
  <2>3. exchanged = [j \in DOMAIN routes |-> exchanged[j]]
    OBVIOUS
  <2> HIDE DEF t, routes, exchanged, key, m
  <2>4. IsSequence(exchanged) /\ exchanged # <<>>
    BY <2>2, <2>3, MapIs
  <2> DEFINE n == WithMeterRoutes(m, exchanged, key)
  <2>5. DOMAIN n = MeterFields /\ n.serial = m.serial /\ IsSequence(n.routes)
    BY <2>2, <2>4, MeterKeeps, WithMeterRoutesSound
  <2> HIDE DEF n
  <2>6. /\ DOMAIN t[i] = MeterFields /\ t[i].serial = m.serial
        /\ MeterSound(t[i]) /\ IsSequence(t[i].routes)
    BY <2>1, <2>5, EnsuredMeterKeeps, EnsuredMeterSound DEF n
  <2> QED BY <2>6 DEF m
<1>5. t = [i \in DOMAIN bus.meters |-> t[i]]
  OBVIOUS
<1> HIDE DEF t
<1> QED BY <1>2, <1>3, <1>4, <1>5, MetersSound

LEMMA AppendedSound ==
  ASSUME NEW e, IsEntry(e), e.bus, NEW s, IsSequence(s), \A i \in DOMAIN s : DOMAIN s[i] = MeterFields
  PROVE  LET d == [e EXCEPT !.meters = @ \o s] IN
         /\ (/\ \A i \in DOMAIN e.meters : IsSequence(e.meters[i].routes)
             /\ \A i \in DOMAIN s : IsSequence(s[i].routes))
              => \A i \in DOMAIN d.meters : IsSequence(d.meters[i].routes)
         /\ (/\ \A i \in DOMAIN e.meters : MeterSound(e.meters[i]) /\ IsSequence(e.meters[i].routes)
             /\ \A i \in DOMAIN s : MeterSound(s[i]) /\ IsSequence(s[i].routes))
              => Sound(d)
<1> DEFINE d == [e EXCEPT !.meters = @ \o s]
<1>1. d.meters = e.meters \o s
  BY DEF IsEntry, EntryFields
<1>2. IsEntry(d) /\ d.bus
  BY AppendedKeeps DEF Keeps
<1> HIDE DEF d
<1>3. \A i \in DOMAIN d.meters : \/ \E j \in DOMAIN e.meters : d.meters[i] = e.meters[j]
                                 \/ \E j \in DOMAIN s : d.meters[i] = s[j]
  <2>1. IsSequence(e.meters)
    BY DEF IsEntry
  <2> DEFINE u == e.meters \o s
  <2>2. Joined(u, e.meters, s)
    BY <2>1, ConcatIs
  <2>3. d.meters = u
    BY <1>1
  <2> HIDE DEF u
  <2> QED BY <2>2, <2>3 DEF Joined
<1>4. ASSUME /\ \A i \in DOMAIN e.meters : IsSequence(e.meters[i].routes)
             /\ \A i \in DOMAIN s : IsSequence(s[i].routes)
      PROVE  \A i \in DOMAIN d.meters : IsSequence(d.meters[i].routes)
  BY <1>3, <1>4
<1>5. ASSUME /\ \A i \in DOMAIN e.meters : MeterSound(e.meters[i]) /\ IsSequence(e.meters[i].routes)
             /\ \A i \in DOMAIN s : MeterSound(s[i]) /\ IsSequence(s[i].routes)
      PROVE  Sound(d)
  <2>1. \A i \in DOMAIN d.meters : MeterSound(d.meters[i]) /\ IsSequence(d.meters[i].routes)
    BY <1>3, <1>5
  <2> QED BY <1>2, <2>1, BusSound
<1> QED BY <1>4, <1>5 DEF d

LEMMA EnsuredMeters ==
  ASSUME NEW e, IsEntry(e), e.bus, \A i \in DOMAIN e.meters : IsSequence(e.meters[i].routes), NEW bus
  PROVE  LET d == [e EXCEPT !.meters = [i \in DOMAIN e.meters |-> EnsureBusRoute(e.meters[i], bus)]]
         IN \A i \in DOMAIN d.meters : MeterSound(d.meters[i]) /\ IsSequence(d.meters[i].routes)
<1> DEFINE t == [i \in DOMAIN e.meters |-> EnsureBusRoute(e.meters[i], bus)]
           d == [e EXCEPT !.meters = t]
<1>1. \A i \in DOMAIN t : MeterSound(t[i]) /\ IsSequence(t[i].routes)
  BY EnsuredMeterSound DEF IsEntry
<1> HIDE DEF t
<1>2. d.meters = t
  BY DEF IsEntry, EntryFields
<1> HIDE DEF d
<1>3. \A i \in DOMAIN d.meters : MeterSound(d.meters[i]) /\ IsSequence(d.meters[i].routes)
  BY <1>1, <1>2
<1> QED BY <1>3 DEF d, t

LEMMA NewEntrySound ==
  ASSUME NEW serial, serial # NoSerial, NEW r, DOMAIN r = RouteFields, LeadsTo(r, serial)
  PROVE  Sound(NewEntry(serial, r))
<1> DEFINE e == [version |-> LatestVersion, transport |-> r.transport, ep |-> r.ep, line |-> r.line,
              slave |-> r.slave, serial |-> serial, title |-> serial, variant |-> "grow",
              bus |-> FALSE, meters |-> <<>>, routes |-> <<>>, active |-> NoKey, uid |-> serial]
<1>1. DOMAIN e = EntryFields /\ e.version \in 1 .. LatestVersion
  BY DEF EntryFields, LatestVersion
<1>2. e.bus \in BOOLEAN
  OBVIOUS
<1>3. IsSequence(e.meters) /\ DOMAIN e.meters = {}
  BY DEF IsSequence
<1>4. OfOneMeter(e)
  BY <1>1, <1>2, <1>3 DEF IsEntry, OfOneMeter
<1>5. SerialsOf(e) = {serial}
  BY DEF SerialsOf
<1>6. NewEntry(serial, r) = WithRoutes(e, <<r>>, NoKey)
  BY DEF NewEntry
<1> HIDE DEF e
<1>7. Fits(r, e)
  BY <1>5 DEF Fits
<1>8. IsSequence(<<r>>) /\ <<r>> # <<>> /\ DOMAIN <<r>> = {1} /\ <<r>>[1] = r
  BY DEF IsSequence
<1> QED BY <1>4, <1>6, <1>7, <1>8, WithRoutesSound

LEMMA NewBusSound ==
  ASSUME NEW c, NEW s, IsSequence(s),
         \A i \in DOMAIN s : DOMAIN s[i] = MeterFields /\ IsSequence(s[i].routes)
  PROVE  Sound(NewBus(c, s))
<1> DEFINE e == [version |-> LatestVersion, transport |-> c.transport, ep |-> c.ep, line |-> c.line,
            slave |-> 0, serial |-> NoSerial, title |-> NoSerial, variant |-> "grow",
            bus |-> TRUE, meters |-> s, routes |-> <<>>, active |-> NoKey, uid |-> BusUid(c)]
<1>1. DOMAIN e = EntryFields /\ e.version \in 1 .. LatestVersion /\ e.meters = s
  BY DEF EntryFields, LatestVersion
<1>2. e.bus \in BOOLEAN
  OBVIOUS
<1>3. IsEntry(e) /\ e.bus /\ \A i \in DOMAIN e.meters : IsSequence(e.meters[i].routes)
  BY <1>1, <1>2 DEF IsEntry
<1>4. NewBus(c, s) = [e EXCEPT !.meters = [i \in DOMAIN e.meters |-> EnsureBusRoute(e.meters[i], e)]]
  BY DEF NewBus, ForMeters
<1> HIDE DEF e
<1> DEFINE d == [e EXCEPT !.meters = [i \in DOMAIN e.meters |-> EnsureBusRoute(e.meters[i], e)]]
<1>5. Sound(d)
  BY <1>3, EnsuredSound
<1> HIDE DEF d
<1>6. NewBus(c, s) = d
  BY <1>4 DEF d
<1> QED BY <1>5, <1>6

LEMMA GatewayIdentitySound ==
  ASSUME NEW e, Sound(e)
  PROVE  Sound(GatewayIdentity(e))
<1>1. CASE ~(e.bus /\ e.transport = "gateway")
  BY <1>1 DEF GatewayIdentity
<1>2. CASE e.bus /\ e.transport = "gateway"
  <2> DEFINE d == [e EXCEPT !.serial = "gateway"]
  <2>1. GatewayIdentity(e) = d
    BY <1>2 DEF GatewayIdentity
  <2>2. IsEntry(d)
    BY <2>1, GatewayIdentityKeeps DEF Sound, WasWritten, Keeps
  <2>3. d.version = e.version /\ d.bus = e.bus /\ d.meters = e.meters
    BY DEF Sound, WasWritten, IsEntry, EntryFields
  <2> HIDE DEF d
  <2> QED BY <1>2, <2>1, <2>2, <2>3 DEF Sound, WasWritten
<1> QED BY <1>1, <1>2

-----------------------------------------------------------------------------
(* Sound entries *)

\* The entries are sound, and so is what the flows keep for them.
AllSound == \A id \in Present : Sound(entries[id])

\* What a form keeps while it waits: sound data, and a connection that, if it leads
\* to the meter, is where the meter is.
SoundOpt ==
  /\ opt.kind \in {"update", "add"} /\ opt.meter = NoMeter => Sound(opt.data)
  /\ opt.kind = "switch" => Sound(opt.data)
  /\ opt.kind \in {"update", "add", "reconfigure"} =>
       /\ DOMAIN opt.route = RouteFields /\ LeadsTo(opt.route, Answers(opt.route))
       /\ ~entries[opt.id].bus => opt.serial = entries[opt.id].serial

\* If the meter answers on the connection
MayLeadTo(c, serial) == Answers(c) = serial => LeadsTo(c, serial)

SoundCre ==
  \A f \in Flows :
    /\ cre[f].kind \in {"zeroconf", "bluetooth"} =>
         /\ cre[f].ad \in Adverts /\ cre[f].ad.by = cre[f].kind
         /\ cre[f].pc = "validate" =>
              DOMAIN cre[f].route = RouteFields /\ MayLeadTo(cre[f].route, cre[f].ad.serial)
    /\ cre[f].kind = "manual" =>
         DOMAIN cre[f].route = RouteFields /\ LeadsTo(cre[f].route, Answers(cre[f].route))

LEMMA WriteSound ==
  ASSUME StoreOK, AllSound, NEW id \in Ids, NEW e, Sound(e), entries' = [entries EXCEPT ![id] = e]
  PROVE  AllSound'
<1>1. /\ entries'[id] = e
      /\ \A i \in Ids \ {id} : entries'[i] = entries[i]
  BY DEF StoreOK
<1>2. \A i \in Present' : i = id \/ i \in Present
  BY <1>1 DEF Present
<1>3. \A i \in Present' : Sound(entries'[i])
  BY <1>1, <1>2 DEF AllSound, Present
<1> QED BY <1>3 DEF AllSound

LEMMA CreatedSound ==
  ASSUME StoreOK, AllSound, NEW e, Sound(e), Created(e)
  PROVE  AllSound'
<1> DEFINE id == CHOOSE i \in Ids \ Present : \A j \in Ids \ Present : i <= j
<1>1. id \in Ids \ Present
  <2>1. Ids \ Present # {}
    BY DEF Created, Present
  <2> QED BY <2>1, LeastId
<1>2. entries' = [entries EXCEPT ![id] = e]
  BY DEF Created
<1> HIDE DEF id
<1> QED BY <1>1, <1>2, WriteSound

LEMMA StoreSound ==
  ASSUME StoreOK, AllSound, StoreNext
  PROVE  AllSound'
<1>1. PICK id \in Ids : \/ SetUp(id) \/ FirstRefreshOk(id) \/ FirstRefreshFails(id)
                        \/ RetrySetup(id) \/ Unload(id) \/ UnloadFails(id)
  BY DEF StoreNext
<1>2. CASE SetUp(id)
  <2>1. id \in Present /\ Sound(entries[id])
    BY <1>2 DEF SetUp, Absent, Present, AllSound
  <2>2. Sound(Migrate(entries[id]))
    BY <2>1, MigrateSound
  <2>3. entries' = [entries EXCEPT ![id] = Migrate(entries[id])]
    BY <1>2 DEF SetUp
  <2> QED BY <2>2, <2>3, WriteSound
<1>3. CASE FirstRefreshOk(id)
  <2>1. id \in Present /\ Sound(entries[id])
    BY <1>3 DEF FirstRefreshOk, StoreOK, AllSound
  <2>2. Sound(GatewayIdentity(entries[id]))
    BY <2>1, GatewayIdentitySound
  <2>3. entries' = [entries EXCEPT ![id] = GatewayIdentity(entries[id])]
    BY <1>3 DEF FirstRefreshOk
  <2> QED BY <2>2, <2>3, WriteSound
<1>4. CASE FirstRefreshFails(id) \/ RetrySetup(id) \/ Unload(id) \/ UnloadFails(id)
  BY <1>4 DEF FirstRefreshFails, RetrySetup, Unload, UnloadFails, AllSound, Present
<1> QED BY <1>1, <1>2, <1>3, <1>4

LEMMA StoreSoundInitially == StoreInit => AllSound
<1> SUFFICES ASSUME StoreInit
             PROVE  AllSound
  OBVIOUS
<1>1. PICK stored \in StoredBefore :
        entries = [id \in Ids |-> IF id \in DOMAIN stored THEN stored[id] ELSE NoEntry]
  BY DEF StoreInit
<1>2. \A id \in Present : id \in DOMAIN stored /\ entries[id] = stored[id]
  BY <1>1 DEF Present
<1>3. ASSUME NEW id \in DOMAIN stored
      PROVE  Sound(stored[id])
  <2> DEFINE e == stored[id]
  <2>1. WasWritten(e)
    BY StoredAssumption
  <2>2. ~e.bus => \A serial \in SerialsOf(e) :
                    LeadsTo(e, serial) /\ \A j \in DOMAIN e.routes : LeadsTo(e.routes[j], serial)
    <3>1. ~e.bus => \A serial \in SerialsOf(e) :
                      AtAddress(e, serial) /\ \A j \in DOMAIN e.routes : AtAddress(e.routes[j], serial)
      BY AddressAssumption
    <3>2. ~e.bus => \A serial \in SerialsOf(e) :
                      /\ Answers(e) = serial /\ SameSlave(e, serial)
                      /\ \A j \in DOMAIN e.routes :
                           Answers(e.routes[j]) = serial /\ SameSlave(e.routes[j], serial)
      BY SlaveAssumption
    <3> QED BY <3>1, <3>2 DEF LeadsTo
  <2>3. ~e.bus => \A i \in DOMAIN e.routes : DOMAIN e.routes[i] = RouteFields
    BY <2>1 DEF WasWritten
  <2> HIDE DEF e
  <2>4. Sound(e)
    BY <2>1, <2>2, <2>3 DEF Sound, Fits
  <2> QED BY <2>4 DEF e
<1> QED BY <1>2, <1>3 DEF AllSound

\* A route of the same connection, kept for something else
LEMMA PurposeFits ==
  ASSUME NEW r, NEW e, Fits(r, e), NEW purpose
  PROVE  Fits([r EXCEPT !.purpose = purpose], e)
<1> DEFINE q == [r EXCEPT !.purpose = purpose]
<1>1. DOMAIN q = RouteFields /\ q.transport = r.transport /\ q.ep = r.ep /\ q.slave = r.slave
  BY DEF Fits, RouteFields
<1> HIDE DEF q
<1>2. Fits(q, e)
  BY <1>1, LeadsAlike DEF Fits
<1> QED BY <1>2 DEF q

LEMMA ExchangeIs ==
  ASSUME NEW routes, IsSequence(routes), routes # <<>>, NEW key, NEW r
  PROVE  LET t == Exchange(routes, key, r) IN
         /\ IsSequence(t) /\ t # <<>> /\ DOMAIN t = DOMAIN routes
         /\ \A i \in DOMAIN t : t[i] = r \/ t[i] = routes[i]
<1> DEFINE t == Exchange(routes, key, r)
<1>1. /\ t = [i \in DOMAIN routes |-> t[i]] /\ DOMAIN t = DOMAIN routes
      /\ \A i \in DOMAIN t : t[i] = r \/ t[i] = routes[i]
  BY DEF Exchange
<1> HIDE DEF t
<1> QED BY <1>1, MapIs DEF t

\* The others, and one more
LEMMA GatheredAppended ==
  ASSUME NEW routes, IsSequence(routes), NEW kept, kept \subseteq DOMAIN routes, NEW r,
         NEW t, t = Append(Gathered(routes, kept), r)
  PROVE  /\ IsSequence(t) /\ t # <<>>
         /\ \A i \in DOMAIN t : t[i] = r \/ \E j \in DOMAIN routes : t[i] = routes[j]
<1> DEFINE s == Gathered(routes, kept)
<1>1. /\ IsSequence(s)
      /\ \E at \in [DOMAIN s -> kept] :
           /\ \A i \in DOMAIN s : s[i] = routes[at[i]]
           /\ \A i, j \in DOMAIN s : at[i] = at[j] => i = j
           /\ \A k \in kept : \E i \in DOMAIN s : at[i] = k
  BY GatheredIs
<1>2. t = Append(s, r)
  OBVIOUS
<1> HIDE DEF s
<1>3. \A i \in DOMAIN s : \E j \in DOMAIN routes : s[i] = routes[j]
  BY <1>1
<1>4. /\ IsSequence(t) /\ t # <<>>
      /\ \A i \in DOMAIN t : t[i] = r \/ \E j \in DOMAIN s : t[i] = s[j]
  BY <1>1, <1>2, AppendIs
<1> QED BY <1>3, <1>4

LEMMA BusRoutesAre ==
  ASSUME NEW e, Sound(e), e.bus, NEW k, k # NoMeter,
         \E i \in DOMAIN e.meters : MeterKey(e.meters[i]) = k
  PROVE  IsSequence(RoutesAt(e, k)) /\ RoutesAt(e, k) # <<>>
<1>1. PICK j \in DOMAIN e.meters : Selected(e, k) = e.meters[j]
  BY DEF Selected
<1>2. IsSequence(Selected(e, k).routes)
  BY <1>1 DEF Sound, WasWritten
<1> QED BY <1>2, MeterRoutesAre DEF RoutesAt

\* Once the connection is known to lead to the meter, it fits the entry.
LEMMA ValidFits ==
  ASSUME AllSound, OptOK, SoundOpt, opt.kind \in {"update", "add", "reconfigure"},
         ~entries[opt.id].bus, Valid(opt.route, opt.serial)
  PROVE  Fits(opt.route, entries[opt.id])
<1> DEFINE e == entries[opt.id]
<1>1. Sound(e) /\ e.version = LatestVersion
  BY DEF OptOK, AllSound
<1>2. e.serial # NoSerial
  BY <1>1 DEF Sound, WasWritten, LatestVersion
<1>3. SerialsOf(e) = {e.serial}
  BY <1>2 DEF SerialsOf
<1>4. opt.serial = e.serial /\ DOMAIN opt.route = RouteFields /\ LeadsTo(opt.route, Answers(opt.route))
  BY DEF SoundOpt
<1>5. Answers(opt.route) = e.serial
  BY <1>2, <1>4 DEF Valid
<1> QED BY <1>3, <1>4, <1>5 DEF Fits

LEMMA AppliedSound ==
  ASSUME StoreOK, AllSound, OptOK, SoundOpt, opt.kind \in {"update", "add"}, NEW routes, NEW key,
         IF opt.meter = NoMeter
           THEN /\ IsSequence(routes) /\ routes # <<>>
                /\ \A i \in DOMAIN routes : Fits(routes[i], entries[opt.id])
           ELSE (\E i \in DOMAIN entries[opt.id].meters :
                   MeterKey(entries[opt.id].meters[i]) = opt.meter)
                  => IsSequence(routes) /\ routes # <<>>
  PROVE  Sound(Normalize(Apply(entries[opt.id], opt.meter, opt.data, routes, key)))
<1> DEFINE e == entries[opt.id]
           d == Apply(e, opt.meter, opt.data, routes, key)
<1>1. Sound(e) /\ e.version = LatestVersion
  BY DEF OptOK, AllSound
<1>2. d.version = LatestVersion
  BY <1>1, AppliedKeeps DEF Keeps
<1>3. Sound(d)
  <2>1. CASE opt.meter # NoMeter
    <3>1. e.bus
      BY <2>1 DEF OptOK
    <3> HIDE DEF e
    <3> QED BY <1>1, <2>1, <3>1, ApplySoundBus DEF e
  <2>2. CASE opt.meter = NoMeter
    <3>1. /\ ~e.bus /\ Written(opt.data, e) /\ Sound(opt.data)
      BY <2>2 DEF OptOK, SoundOpt
    <3>2. OfOneMeter(opt.data) /\ SerialsOf(opt.data) = SerialsOf(e)
      BY <1>1, <3>1, SoundIsOfOne DEF Written, SerialsOf
    <3>3. IsSequence(routes) /\ routes # <<>> /\ \A i \in DOMAIN routes : Fits(routes[i], opt.data)
      BY <2>2, <3>2 DEF Fits
    <3>4. d = WithRoutes(opt.data, routes, key)
      BY <2>2 DEF Apply
    <3> QED BY <3>2, <3>3, <3>4, WithRoutesSound
  <2> QED BY <2>1, <2>2
<1> HIDE DEF d
<1>4. Sound(Normalize(d))
  BY <1>2, <1>3, NormalizeSound
<1> QED BY <1>4 DEF d

LEMMA FinishSound ==
  ASSUME StoreOK, AllSound, OptOK, SoundOpt, Valid(opt.route, opt.serial)
  PROVE  /\ opt.kind = "update" => Sound(Normalize(FinishUpdate))
         /\ opt.kind = "add" => Sound(Normalize(FinishAdd))
         /\ opt.kind = "reconfigure" => Sound(FinishReconfigure)
<1> DEFINE e == entries[opt.id]
<1>1. opt.kind \in {"update", "add", "reconfigure"} => Sound(e)
  BY DEF OptOK, AllSound
<1>2. ASSUME opt.kind \in {"update", "add"}
      PROVE  /\ (opt.meter = NoMeter <=> ~e.bus)
             /\ IF opt.meter = NoMeter
                  THEN /\ IsSequence(RoutesAt(e, opt.meter)) /\ RoutesAt(e, opt.meter) # <<>>
                       /\ \A i \in DOMAIN RoutesAt(e, opt.meter) : Fits(RoutesAt(e, opt.meter)[i], e)
                  ELSE (\E i \in DOMAIN e.meters : MeterKey(e.meters[i]) = opt.meter)
                         => IsSequence(RoutesAt(e, opt.meter)) /\ RoutesAt(e, opt.meter) # <<>>
  <2>1. opt.meter = NoMeter <=> ~e.bus
    BY <1>2 DEF OptOK
  <2>2. CASE opt.meter = NoMeter
    <3>1. RoutesAt(e, opt.meter) = Routes(e)
      BY <2>2 DEF RoutesAt
    <3> HIDE DEF e
    <3> QED BY <1>1, <1>2, <2>1, <2>2, <3>1, RoutesAre
  <2>3. CASE opt.meter # NoMeter
    <3> HIDE DEF e
    <3> QED BY <1>1, <1>2, <2>1, <2>3, BusRoutesAre
  <2> QED BY <2>1, <2>2, <2>3
<1>3. ASSUME opt.kind = "update"
      PROVE  Sound(Normalize(FinishUpdate))
  <2> DEFINE r == [opt.route EXCEPT !.purpose = "active"]
             t == Exchange(RoutesAt(e, opt.meter), opt.key, r)
  <2>1. FinishUpdate = Apply(e, opt.meter, opt.data, t, RouteKey(r))
    BY DEF FinishUpdate
  <2>2. ~e.bus => Fits(r, e)
    BY <1>3, ValidFits, PurposeFits
  <2> HIDE DEF r
  <2>3. IsSequence(RoutesAt(e, opt.meter)) /\ RoutesAt(e, opt.meter) # <<>> =>
          /\ IsSequence(t) /\ t # <<>> /\ DOMAIN t = DOMAIN RoutesAt(e, opt.meter)
          /\ \A i \in DOMAIN t : t[i] = r \/ t[i] = RoutesAt(e, opt.meter)[i]
    BY ExchangeIs
  <2> HIDE DEF t
  <2>4. IF opt.meter = NoMeter
          THEN IsSequence(t) /\ t # <<>> /\ \A i \in DOMAIN t : Fits(t[i], e)
          ELSE (\E i \in DOMAIN e.meters : MeterKey(e.meters[i]) = opt.meter)
                 => IsSequence(t) /\ t # <<>>
    BY <1>2, <1>3, <2>2, <2>3
  <2>5. Sound(Normalize(Apply(e, opt.meter, opt.data, t, RouteKey(r))))
    BY <1>3, <2>4, AppliedSound
  <2> QED BY <2>1, <2>5
<1>4. ASSUME opt.kind = "add"
      PROVE  Sound(Normalize(FinishAdd))
  <2> DEFINE before == RoutesAt(e, opt.meter)
             others == {i \in DOMAIN before : RouteKey(before[i]) # RouteKey(opt.route)}
             t == Append(Gathered(before, others), opt.route)
  <2>1. \E key : FinishAdd = Apply(e, opt.meter, opt.data, t, key)
    BY DEF FinishAdd
  <2>2. ~e.bus => Fits(opt.route, e)
    BY <1>4, ValidFits
  <2>3. others \subseteq DOMAIN before
    OBVIOUS
  <2> HIDE DEF others
  <2>t. t = Append(Gathered(before, others), opt.route)
    OBVIOUS
  <2> HIDE DEF t
  <2>4. IsSequence(before) =>
          /\ IsSequence(t) /\ t # <<>>
          /\ \A i \in DOMAIN t : t[i] = opt.route \/ \E j \in DOMAIN before : t[i] = before[j]
    <3> DEFINE r == opt.route
    <3>1. t = Append(Gathered(before, others), r)
      BY <2>t
    <3> HIDE DEF r, before
    <3>2. IsSequence(before) => (\A i \in DOMAIN t : t[i] = r \/ \E j \in DOMAIN before : t[i] = before[j])
      BY <2>3, <3>1, GatheredAppended
    <3>3. IsSequence(before) => IsSequence(t) /\ t # <<>>
      BY <2>3, <3>1, GatheredAppended
    <3> QED BY <3>2, <3>3 DEF r
  <2>5. IF opt.meter = NoMeter
          THEN IsSequence(t) /\ t # <<>> /\ \A i \in DOMAIN t : Fits(t[i], e)
          ELSE (\E i \in DOMAIN e.meters : MeterKey(e.meters[i]) = opt.meter)
                 => IsSequence(t) /\ t # <<>>
    BY <1>2, <1>4, <2>2, <2>4
  <2>6. \A key : Sound(Normalize(Apply(e, opt.meter, opt.data, t, key)))
    BY <1>4, <2>5, AppliedSound
  <2> QED BY <2>1, <2>6
<1>5. ASSUME opt.kind = "reconfigure"
      PROVE  Sound(FinishReconfigure)
  <2> DEFINE before == Routes(e)
             others == {i \in DOMAIN before : before[i].transport # opt.route.transport}
             t == Append(Gathered(before, others), opt.route)
  <2>1. FinishReconfigure = WithRoutes(e, t, RouteKey(opt.route))
    BY DEF FinishReconfigure
  <2>2. ~e.bus /\ Fits(opt.route, e) /\ Sound(e) /\ OfOneMeter(e)
    BY <1>1, <1>5, ValidFits, SoundIsOfOne DEF OptOK
  <2>3. others \subseteq DOMAIN before
    OBVIOUS
  <2>4. IsSequence(before) /\ \A i \in DOMAIN before : Fits(before[i], e)
    BY <2>2, RoutesAre
  <2> HIDE DEF others
  <2>t. t = Append(Gathered(before, others), opt.route)
    OBVIOUS
  <2> HIDE DEF t
  <2>5. IsSequence(before) =>
          /\ IsSequence(t) /\ t # <<>>
          /\ \A i \in DOMAIN t : t[i] = opt.route \/ \E j \in DOMAIN before : t[i] = before[j]
    <3> DEFINE r == opt.route
    <3>1. t = Append(Gathered(before, others), r)
      BY <2>t
    <3> HIDE DEF r, before
    <3>2. IsSequence(before) => (\A i \in DOMAIN t : t[i] = r \/ \E j \in DOMAIN before : t[i] = before[j])
      BY <2>3, <3>1, GatheredAppended
    <3>3. IsSequence(before) => IsSequence(t) /\ t # <<>>
      BY <2>3, <3>1, GatheredAppended
    <3> QED BY <3>2, <3>3 DEF r
  <2>6. \A i \in DOMAIN t : Fits(t[i], e)
    BY <2>2, <2>4, <2>5
  <2> QED BY <2>1, <2>2, <2>4, <2>5, <2>6, WithRoutesSound
<1> QED BY <1>3, <1>4, <1>5

LEMMA NewMeterIs ==
  ASSUME NEW f
  PROVE  DOMAIN NewMeter(f) = MeterFields /\ IsSequence(NewMeter(f).routes)
<1>1. NewMeter(f).routes = <<>> /\ IsSequence(<<>>)
  BY DEF NewMeter, IsSequence
<1>2. DOMAIN NewMeter(f) = MeterFields
  BY DEF NewMeter, MeterFields
<1> QED BY <1>1, <1>2

LEMMA SavedSound ==
  ASSUME StoreOK, AllSound, NEW id \in Present, NEW e, Sound(e), Saved(id, e)
  PROVE  AllSound'
<1>1. id \in Ids /\ entries' = [entries EXCEPT ![id] = e]
  BY DEF Saved, Present
<1> QED BY <1>1, WriteSound

LEMMA ValidatedSound ==
  ASSUME StoreOK, AllSound, OptOK, SoundOpt, Validated
  PROVE  AllSound'
<1> DEFINE e == CASE opt.kind = "update" -> Normalize(FinishUpdate)
                  [] opt.kind = "add" -> Normalize(FinishAdd)
                  [] opt.kind = "switch" -> Normalize(opt.data)
                  [] opt.kind = "reconfigure" -> FinishReconfigure
<1>1. /\ opt.kind \in {"update", "add", "switch", "reconfigure"} /\ Saved(opt.id, e)
      /\ Valid(opt.route, opt.serial)
  BY DEF Validated
<1>2. opt.id \in Present
  BY <1>1 DEF OptOK
<1>3. opt.kind = "switch" => Sound(Normalize(opt.data))
  <2> SUFFICES ASSUME opt.kind = "switch"
               PROVE  Sound(Normalize(opt.data))
    OBVIOUS
  <2>1. Sound(opt.data) /\ opt.data.version = LatestVersion
    BY DEF OptOK, SoundOpt, Written
  <2> QED BY <2>1, NormalizeSound
<1>4. /\ opt.kind = "update" => Sound(Normalize(FinishUpdate))
      /\ opt.kind = "add" => Sound(Normalize(FinishAdd))
      /\ opt.kind = "reconfigure" => Sound(FinishReconfigure)
  BY <1>1, FinishSound
<1>5. Sound(e)
  BY <1>1, <1>3, <1>4
<1> HIDE DEF e
<1> QED BY <1>1, <1>2, <1>5, SavedSound

LEMMA AppendMetersSound ==
  ASSUME StoreOK, AllSound, OptOK, AppendMeters
  PROVE  AllSound'
<1> DEFINE e == entries[opt.id]
           kept == [e EXCEPT !.meters = [i \in DOMAIN e.meters |-> EnsureBusRoute(e.meters[i], e)]]
           Added(f) == EnsureBusRoute(NewMeter(f), e)
<1>1. PICK chosen \in SUBSET opt.found \ {{}} :
        Saved(opt.id, Normalize([kept EXCEPT !.meters = @ \o SetToSeq({Added(f) : f \in chosen})]))
  BY DEF AppendMeters, ForMeters
<1>2. /\ opt.id \in Present /\ IsEntry(e) /\ e.bus /\ IsFiniteSet(chosen) /\ Sound(e)
      /\ e.version = LatestVersion
  BY FS_Subset DEF AppendMeters, OptOK, StoreOK, AllSound
<1>3. /\ Keeps(kept, e)
      /\ \A i \in DOMAIN kept.meters : MeterSound(kept.meters[i]) /\ IsSequence(kept.meters[i].routes)
  <2>1. Keeps(kept, e)
    BY <1>2, EnsuredKeeps
  <2>2. \A i \in DOMAIN e.meters : IsSequence(e.meters[i].routes)
    BY <1>2 DEF Sound, WasWritten
  <2>3. \A i \in DOMAIN kept.meters : MeterSound(kept.meters[i]) /\ IsSequence(kept.meters[i].routes)
    BY <1>2, <2>2, EnsuredMeters
  <2> QED BY <2>1, <2>3
<1> DEFINE new == {Added(f) : f \in chosen}
<1>4. IsFiniteSet(new)
  <2> DEFINE g == [f \in chosen |-> Added(f)]
  <2>1. new = {g[f] : f \in DOMAIN g}
    OBVIOUS
  <2> QED BY <1>2, <2>1, ImageIsFinite
<1>5. \A m \in new : DOMAIN m = MeterFields /\ MeterSound(m) /\ IsSequence(m.routes)
  BY NewMeterIs, EnsuredMeterKeeps, EnsuredMeterSound
<1> HIDE DEF new
<1> DEFINE s == SetToSeq(new)
<1>6. /\ IsSequence(s)
      /\ \A i \in DOMAIN s : DOMAIN s[i] = MeterFields /\ MeterSound(s[i]) /\ IsSequence(s[i].routes)
  BY <1>4, <1>5, SetToSeqIs
<1> HIDE DEF s, kept
<1> DEFINE all == [kept EXCEPT !.meters = @ \o s]
<1>7. IsEntry(kept) /\ kept.bus /\ kept.version = LatestVersion
  BY <1>2, <1>3 DEF Keeps
<1>8. Sound(all)
  BY <1>3, <1>6, <1>7, AppendedSound
<1>9. all.version = LatestVersion
  BY <1>6, <1>7, AppendedKeeps DEF Keeps
<1> HIDE DEF all
<1>10. Sound(Normalize(all))
  BY <1>8, <1>9, NormalizeSound
<1>11. Saved(opt.id, Normalize(all))
  BY <1>1 DEF all, s, new
<1> QED BY <1>2, <1>10, <1>11, SavedSound

LEMMA InputsLead ==
  ASSUME NEW r \in Inputs
  PROVE  DOMAIN r = RouteFields /\ LeadsTo(r, Answers(r))
<1>1. AtAddress(r, Answers(r))
  BY AddressAssumption
<1>2. SameSlave(r, Answers(r))
  BY SlaveAssumption
<1> QED BY <1>1, <1>2, InputsAssumption DEF LeadsTo

\* The connection an advertisement offers leads to the meter, if it answers there.
LEMMA AdvertMayLead ==
  ASSUME NEW ad \in Adverts, NEW slave \in Slaves \cup {1}, NEW transport \in Transports,
         NEW r, r.transport = transport, r.ep = ad.ep, r.slave = slave, OfKind(ad, r)
  PROVE  MayLeadTo(r, ad.serial)
<1> SUFFICES ASSUME Answers(r) = ad.serial
             PROVE  LeadsTo(r, ad.serial)
  BY DEF MayLeadTo
<1> DEFINE c == [transport |-> transport, ep |-> ad.ep, slave |-> slave]
<1>1. c.transport = r.transport /\ c.ep = r.ep /\ c.slave = r.slave
  OBVIOUS
<1>2. OfKind(ad, c) /\ Answers(c) = ad.serial => SameSlave(c, ad.serial)
  BY SlaveAssumption
<1> HIDE DEF c
<1>3. OfKind(ad, c) /\ Answers(c) = ad.serial
  BY <1>1 DEF OfKind, IsDirect, Answers
<1>4. SameSlave(r, ad.serial)
  BY <1>1, <1>2, <1>3 DEF SameSlave, OfKind, IsDirect
<1>5. AtAddress(r, ad.serial)
  <2>1. AtAddress([transport |-> ad.by, ep |-> ad.ep], ad.serial)
    BY AddressAssumption
  <2> QED BY <2>1 DEF AtAddress, OfKind, IsDirect, DirectTcp
<1> QED BY <1>4, <1>5 DEF LeadsTo

LEMMA SoundOptStays ==
  ASSUME OptOK, SoundOpt, Steady, UNCHANGED opt
  PROVE  SoundOpt'
<1>1. CASE opt.kind \notin {"update", "add", "reconfigure"}
  BY <1>1 DEF SoundOpt
<1>2. CASE opt.kind \in {"update", "add", "reconfigure"}
  <2>1. Written(entries'[opt.id], entries[opt.id]) /\ entries[opt.id].version = LatestVersion
    BY <1>2 DEF OptOK, Steady
  <2>2. /\ entries'[opt.id].bus = entries[opt.id].bus
        /\ ~entries[opt.id].bus => entries'[opt.id].serial = entries[opt.id].serial
    BY <2>1 DEF Written
  <2> QED BY <2>2 DEF SoundOpt
<1> QED BY <1>1, <1>2

LEMMA OptionsSound ==
  ASSUME StoreOK, AllSound, OptOK, SoundOpt, OptionsNext
  PROVE  AllSound' /\ SoundOpt'
<1>0. ASSUME opt'.kind \in {"none", "scan", "choose"}
      PROVE  SoundOpt'
  BY <1>0 DEF SoundOpt
<1>1. CASE Validated
  BY <1>0, <1>1, ValidatedSound DEF Validated, NoFlow
<1>2. CASE AppendMeters
  BY <1>0, <1>2, AppendMetersSound DEF AppendMeters, NoFlow
<1>3. CASE GiveUp
  BY <1>0, <1>3 DEF GiveUp, NoFlow, store, AllSound, Present
<1>4. CASE ScanReturns
  BY <1>0, <1>4 DEF ScanReturns, store, AllSound, Present
<1>5. ASSUME NEW id \in Ids, Start(id),
             \/ \E k \in Contexts(entries[id]) :
                  \/ SendSwitch(id, k)
                  \/ \E input \in Inputs :
                       \/ SendUpdate(id, k, input)
                       \/ \E purpose \in {"active", "onboarding"} : SendAdd(id, k, input, purpose)
             \/ \E input \in Inputs : SendReconfigure(id, input)
             \/ SendScan(id, Slaves)
      PROVE  AllSound' /\ SoundOpt'
  <2> DEFINE e == entries[id]
  <2>1. id \in Present /\ Sound(e) /\ e.version = LatestVersion
    BY <1>5 DEF Start, Absent, Present, AllSound
  <2>2. UNCHANGED store
    BY <1>5 DEF SendSwitch, SendUpdate, SendAdd, SendReconfigure, SendScan, Send
  <2>3. AllSound' /\ entries' = entries
    BY <2>2 DEF store, AllSound, Present
  <2>4. \A k \in Contexts(e) : IF e.bus THEN k # NoMeter ELSE k = NoMeter
    <3>1. \A a, b : <<a>> # <<>> /\ <<a, b>> # <<>>
      OBVIOUS
    <3>2. CASE e.bus
      BY <3>1, <3>2 DEF Contexts, NoMeter, MeterKey
    <3>3. CASE ~e.bus
      BY <3>3 DEF Contexts
    <3> QED BY <3>2, <3>3
  <2>5. ASSUME NEW r \in Inputs, NEW purpose
        PROVE  LET q == [r EXCEPT !.purpose = purpose] IN
               DOMAIN q = RouteFields /\ LeadsTo(q, Answers(q))
    <3> DEFINE q == [r EXCEPT !.purpose = purpose]
    <3>1. DOMAIN r = RouteFields /\ LeadsTo(r, Answers(r))
      BY InputsLead
    <3>2. DOMAIN q = RouteFields /\ q.transport = r.transport /\ q.ep = r.ep /\ q.slave = r.slave
      BY <3>1 DEF RouteFields
    <3> HIDE DEF q
    <3>3. Answers(q) = Answers(r)
      BY <3>2 DEF Answers
    <3>4. DOMAIN q = RouteFields /\ LeadsTo(q, Answers(q))
      BY <3>1, <3>2, <3>3, LeadsAlike
    <3> QED BY <3>4 DEF q
  <2>6. CASE \E k \in Contexts(e), input \in Inputs :
               \/ SendUpdate(id, k, input)
               \/ \E purpose \in {"active", "onboarding"} : SendAdd(id, k, input, purpose)
    <3>0. PICK k \in Contexts(e), input \in Inputs :
            \/ SendUpdate(id, k, input)
            \/ \E purpose \in {"active", "onboarding"} : SendAdd(id, k, input, purpose)
      BY <2>6
    <3>1. /\ opt'.kind \in {"update", "add"} /\ opt'.id = id /\ opt'.meter = k
          /\ opt'.data = Snapshot(e, k) /\ opt'.serial = SerialAt(e, k)
          /\ \/ opt'.route \in Inputs
             \/ \E purpose : opt'.route = [input EXCEPT !.purpose = purpose]
      <4>1. CASE SendUpdate(id, k, input)
        BY <4>1 DEF SendUpdate, Send
      <4>2. CASE \E purpose \in {"active", "onboarding"} : SendAdd(id, k, input, purpose)
        <5>1. PICK purpose : SendAdd(id, k, input, purpose)
          BY <4>2
        <5> DEFINE q == [input EXCEPT !.purpose = purpose]
        <5>2. opt' = [kind |-> "add", id |-> id, meter |-> k, route |-> q, key |-> NoKey,
                      data |-> Snapshot(e, k), serial |-> SerialAt(e, k)]
          BY <5>1 DEF SendAdd, Send
        <5>3. \E p : q = [input EXCEPT !.purpose = p]
          OBVIOUS
        <5> HIDE DEF q
        <5> QED BY <5>2, <5>3
      <4> QED BY <3>0, <4>1, <4>2
    <3>2. DOMAIN opt'.route = RouteFields /\ LeadsTo(opt'.route, Answers(opt'.route))
      <4>1. CASE opt'.route \in Inputs
        BY <4>1, InputsLead
      <4>2. CASE \E purpose : opt'.route = [input EXCEPT !.purpose = purpose]
        BY <2>5, <4>2
      <4> QED BY <3>1, <4>1, <4>2
    <3>3. opt'.meter = NoMeter => Sound(opt'.data)
      BY <2>1, <3>1 DEF Snapshot
    <3>4. ~e.bus => opt'.serial = e.serial
      BY <2>4, <3>1 DEF SerialAt
    <3>5. SoundOpt'
      BY <2>3, <3>1, <3>2, <3>3, <3>4 DEF SoundOpt
    <3> QED BY <2>3, <3>5
  <2>7. CASE \E k \in Contexts(e) : SendSwitch(id, k)
    <3>1. PICK k \in Contexts(e) : SendSwitch(id, k)
      BY <2>7
    <3> DEFINE routes == RoutesAt(e, k)
    <3>2. PICK i \in DOMAIN routes :
            /\ opt'.kind = "switch"
            /\ opt'.data = Apply(e, k, e, Exchange(routes, RouteKey(routes[i]),
                                                   [routes[i] EXCEPT !.purpose = "active"]),
                                 RouteKey(routes[i]))
      BY <3>1 DEF SendSwitch, Send
    <3> DEFINE key == RouteKey(routes[i])
               promoted == [routes[i] EXCEPT !.purpose = "active"]
               t == Exchange(routes, key, promoted)
    <3>3. opt'.data = Apply(e, k, e, t, key)
      BY <3>2
    <3>4. IsSequence(routes) /\ routes # <<>>
      <4>1. CASE e.bus
        <5>1. \E j \in DOMAIN e.meters : MeterKey(e.meters[j]) = k
          BY <4>1 DEF Contexts
        <5> HIDE DEF e
        <5> QED BY <2>1, <2>4, <4>1, <5>1, BusRoutesAre
      <4>2. CASE ~e.bus
        BY <2>1, <2>4, <4>2, RoutesAre DEF RoutesAt
      <4> QED BY <4>1, <4>2
    <3>5. ~e.bus => /\ \A j \in DOMAIN routes : Fits(routes[j], e)
                    /\ Fits(promoted, e)
      <4>1. ~e.bus => \A j \in DOMAIN routes : Fits(routes[j], e)
        BY <2>1, <2>4, RoutesAre DEF RoutesAt
      <4>2. ~e.bus => Fits(promoted, e)
        BY <4>1, PurposeFits
      <4> QED BY <4>1, <4>2
    <3> HIDE DEF routes, key, promoted, e
    <3>6. /\ IsSequence(t) /\ t # <<>> /\ DOMAIN t = DOMAIN routes
          /\ \A j \in DOMAIN t : t[j] = promoted \/ t[j] = routes[j]
      BY <3>4, ExchangeIs
    <3> HIDE DEF t
    <3>7. Sound(opt'.data)
      <4>1. CASE e.bus
        BY <2>1, <2>4, <3>3, <3>6, <4>1, ApplySoundBus
      <4>2. CASE ~e.bus
        <5>1. \A j \in DOMAIN t : Fits(t[j], e)
          BY <3>5, <3>6, <4>2
        <5>2. opt'.data = WithRoutes(e, t, key)
          BY <2>4, <3>3, <4>2 DEF Apply
        <5> QED BY <2>1, <3>6, <4>2, <5>1, <5>2, WithRoutesSound, SoundIsOfOne
      <4> QED BY <4>1, <4>2
    <3>8. SoundOpt'
      BY <3>2, <3>7 DEF SoundOpt
    <3> QED BY <2>3, <3>8
  <2>8. CASE \E input \in Inputs : SendReconfigure(id, input)
    <3>1. /\ opt'.kind = "reconfigure" /\ opt'.id = id /\ opt'.route \in Inputs
          /\ opt'.serial = e.serial
      BY <2>8 DEF SendReconfigure, Send
    <3>2. SoundOpt'
      BY <2>3, <3>1, InputsLead DEF SoundOpt
    <3> QED BY <2>3, <3>2
  <2>9. CASE SendScan(id, Slaves)
    BY <1>0, <2>3, <2>9 DEF SendScan, Send
  <2> QED BY <1>5, <2>6, <2>7, <2>8, <2>9
<1>6. ASSUME NEW id \in Ids, Start(id), NEW input \in Inputs, NEW slaves, EditBus(id, input, slaves)
      PROVE  AllSound' /\ SoundOpt'
  <2> DEFINE e == entries[id]
             d == EditedBus(e, input.ep, input.line, slaves)
  <2>1. id \in Present /\ Sound(e) /\ e.bus /\ e.version = LatestVersion
    BY <1>6 DEF EditBus, Start, Absent, Present, AllSound
  <2>2. IsEntry(e)
    BY <2>1 DEF Sound, WasWritten
  <2>3. Sound(d) /\ d.version = LatestVersion /\ Keeps(d, e)
    <3>1. Keeps(d, e)
      BY <2>1, <2>2, EditedBusKeeps
    <3>2. Sound(d)
      BY <2>1, EditedBusSound
    <3> HIDE DEF d
    <3> QED BY <2>1, <3>1, <3>2 DEF Keeps
  <2>4. Saved(id, Normalize(d)) /\ UNCHANGED opt
    BY <1>6 DEF EditBus
  <2> HIDE DEF d
  <2>5. AllSound'
    BY <2>1, <2>3, <2>4, NormalizeSound, SavedSound
  <2>6. Steady
    <3>1. Written(Normalize(d), entries[id])
      BY <2>3, NormalizeKeeps, KeepsTransitive, KeepsIsWritten DEF Keeps
    <3> QED BY <2>1, <2>4, <3>1, SavedKeeps
  <2> QED BY <2>4, <2>5, <2>6, SoundOptStays
<1> QED BY <1>1, <1>2, <1>3, <1>4, <1>5, <1>6 DEF OptionsNext

\* A flow that is opened, or closed, with what it must keep
SoundFlow(flow) ==
  /\ flow.kind \in {"zeroconf", "bluetooth"} =>
       /\ flow.ad \in Adverts /\ flow.ad.by = flow.kind
       /\ flow.pc = "validate" =>
            DOMAIN flow.route = RouteFields /\ MayLeadTo(flow.route, flow.ad.serial)
  /\ flow.kind = "manual" =>
       DOMAIN flow.route = RouteFields /\ LeadsTo(flow.route, Answers(flow.route))

LEMMA SoundCreStays ==
  ASSUME CreOK, SoundCre, NEW f \in Flows, NEW flow, Goto(f, flow), SoundFlow(flow)
  PROVE  SoundCre'
<1>1. \A g \in Flows : SoundFlow(cre[g])
  BY DEF SoundCre, SoundFlow
<1>2. \A g \in Flows : cre'[g] = IF g = f THEN flow ELSE cre[g]
  BY DEF Goto, CreOK
<1>3. \A g \in Flows : SoundFlow(cre'[g])
  BY <1>1, <1>2
<1> QED BY <1>3 DEF SoundCre, SoundFlow

LEMMA SoundCreFreed ==
  ASSUME CreOK, SoundCre, NEW f \in Flows, Goto(f, NoFlow)
  PROVE  SoundCre'
<1>1. SoundFlow(NoFlow)
  BY DEF SoundFlow, NoFlow
<1> QED BY <1>1, SoundCreStays

LEMMA RediscoveredSound ==
  ASSUME StoreOK, AllSound, NEW id \in Present, NEW e, Sound(e), NEW serial, Rediscovered(id, e, serial)
  PROVE  AllSound'
<1>1. id \in Ids /\ entries' = [entries EXCEPT ![id] = e]
  BY DEF Rediscovered, Present
<1> QED BY <1>1, WriteSound

LEMMA UpsertSound ==
  ASSUME StoreOK, AllSound, NEW f, NEW c, NEW found, IsFiniteSet(found), Upsert(f, c, found)
  PROVE  AllSound'
<1> DEFINE id == BusOf(c)
           e == entries[id]
           new == IF id = 0 THEN {n \in found : n.serial \notin ConfiguredSerials}
                  ELSE NewOnBus(found, e)
           added == {NewMeter(n) : n \in new}
           s == SetToSeq(added)
<1>1. IsSequence(s) /\ \A i \in DOMAIN s : DOMAIN s[i] = MeterFields /\ IsSequence(s[i].routes)
  <2>1. IsFiniteSet(new)
    BY FS_Subset DEF NewOnBus
  <2> HIDE DEF new
  <2>2. IsFiniteSet(added)
    <3> DEFINE g == [n \in new |-> NewMeter(n)]
    <3>1. added = {g[n] : n \in DOMAIN g}
      OBVIOUS
    <3> QED BY <2>1, <3>1, ImageIsFinite
  <2>3. \A m \in added : DOMAIN m = MeterFields /\ IsSequence(m.routes)
    BY NewMeterIs
  <2> HIDE DEF added
  <2> QED BY <2>2, <2>3, SetToSeqIs
<1>2. \/ Created(NewBus(c, s))
      \/ /\ id # 0
         /\ Saved(id, [ForMeters([e EXCEPT !.meters = @ \o s], LAMBDA m : EnsureBusRoute(m, e))
                         EXCEPT !.version = LatestVersion, !.ep = c.ep, !.line = c.line])
  BY DEF Upsert
<1> HIDE DEF s
<1>3. CASE Created(NewBus(c, s))
  BY <1>1, <1>3, NewBusSound, CreatedSound
<1>4. CASE /\ id # 0
           /\ Saved(id, [ForMeters([e EXCEPT !.meters = @ \o s], LAMBDA m : EnsureBusRoute(m, e))
                         EXCEPT !.version = LatestVersion, !.ep = c.ep, !.line = c.line])
  <2>1. id \in Present /\ IsEntry(e) /\ e.bus /\ Sound(e)
    BY <1>4, BusOfIsPresent DEF StoreOK, AllSound
  <2> HIDE DEF id, e
  <2> DEFINE more == [e EXCEPT !.meters = @ \o s]
             kept == [more EXCEPT !.meters =
                        [i \in DOMAIN more.meters |-> EnsureBusRoute(more.meters[i], e)]]
             bus == [kept EXCEPT !.version = LatestVersion, !.ep = c.ep, !.line = c.line]
  <2>2. IsEntry(more) /\ more.bus
    <3>1. Keeps(more, e)
      BY <1>1, <2>1, AppendedKeeps
    <3> HIDE DEF more
    <3> QED BY <2>1, <3>1 DEF Keeps
  <2>3. \A i \in DOMAIN more.meters : IsSequence(more.meters[i].routes)
    <3>1. \A i \in DOMAIN e.meters : IsSequence(e.meters[i].routes)
      BY <2>1 DEF Sound, WasWritten
    <3> QED BY <1>1, <2>1, <3>1, AppendedSound
  <2>4. Saved(id, bus)
    BY <1>4 DEF ForMeters
  <2> HIDE DEF more
  <2>5. Keeps(kept, more)
    BY <2>2, EnsuredKeeps
  <2>6. \A i \in DOMAIN kept.meters : MeterSound(kept.meters[i]) /\ IsSequence(kept.meters[i].routes)
    BY <2>2, <2>3, EnsuredMeters
  <2>7. IsEntry(kept) /\ kept.bus
    BY <2>2, <2>5 DEF Keeps
  <2> HIDE DEF kept
  <2>8. /\ DOMAIN bus = EntryFields /\ bus.version = LatestVersion
        /\ bus.bus = kept.bus /\ bus.meters = kept.meters
    BY <2>7 DEF IsEntry, EntryFields
  <2> HIDE DEF bus
  <2>9. IsEntry(bus)
    BY <2>7, <2>8 DEF IsEntry, LatestVersion
  <2>10. Sound(bus)
    BY <2>6, <2>7, <2>8, <2>9, BusSound
  <2> QED BY <2>1, <2>4, <2>10, SavedSound
<1> QED BY <1>2, <1>3, <1>4

LEMMA CreateSound ==
  ASSUME StoreOK, AllSound, NEW f, NEW serial, serial # NoSerial,
         NEW r, DOMAIN r = RouteFields, LeadsTo(r, serial), Create(f, serial, r)
  PROVE  AllSound'
  BY NewEntrySound, CreatedSound DEF Create

LEMMA CreationSound ==
  ASSUME StoreOK, AllSound, CreOK, SoundCre, CreationNext
  PROVE  AllSound' /\ SoundCre'
<1>0. UNCHANGED store => AllSound'
  BY DEF store, AllSound, Present
<1>1. ASSUME NEW ad \in Adverts, NEW f \in Flows, NEW slave \in Slaves, BluetoothConfirm(f, ad, slave)
      PROVE  AllSound' /\ SoundCre'
  <2> DEFINE id == EntryOf(ad.serial)
             e == BluetoothUpdate(entries[id], ad.ep, ad.line)
             route == [transport |-> "bluetooth", ep |-> ad.ep, line |-> ad.line, slave |-> slave,
                       purpose |-> "active"]
  <2>0. ad.by = "bluetooth"
    BY <1>1 DEF BluetoothConfirm
  <2>1. CASE id # 0 /\ Rediscovered(id, e, ad.serial) /\ Goto(f, NoFlow)
    <3>1. id \in Present /\ Sound(entries[id]) /\ ad.serial \in SerialsOf(entries[id])
      BY <2>1, EntryOfHasIt DEF AllSound
    <3>2. Sound(e)
      BY <2>0, <3>1, BluetoothSound
    <3> HIDE DEF id, e
    <3> QED BY <2>1, <3>1, <3>2, RediscoveredSound, SoundCreFreed
  <2>2. CASE Open(f, NoFlow)
    BY <1>0, <2>2, SoundCreFreed DEF Open
  <2>3. CASE \E uid : Sent(f, [kind |-> "bluetooth", pc |-> "validate", uid |-> uid, ad |-> ad,
                               route |-> route])
    <3>1. PICK uid : Sent(f, [kind |-> "bluetooth", pc |-> "validate", uid |-> uid, ad |-> ad,
                               route |-> route])
      BY <2>3
    <3> DEFINE flow == [kind |-> "bluetooth", pc |-> "validate", uid |-> uid, ad |-> ad,
                        route |-> route]
    <3>2. /\ DOMAIN route = RouteFields
          /\ route.transport = "bluetooth" /\ route.ep = ad.ep /\ route.slave = slave
      BY DEF RouteFields
    <3>3. "bluetooth" \in Transports
      BY DEF Transports
    <3>4. flow.kind = "bluetooth" /\ flow.ad = ad /\ flow.route = route
      OBVIOUS
    <3> HIDE DEF route, flow
    <3>5. MayLeadTo(route, ad.serial)
      BY <1>1, <2>0, <3>2, <3>3, AdvertMayLead DEF OfKind
    <3>6. SoundFlow(flow)
      BY <1>1, <2>0, <3>2, <3>4, <3>5 DEF SoundFlow
    <3>7. Goto(f, flow) /\ UNCHANGED store
      BY <3>1 DEF Sent, flow
    <3> QED BY <1>0, <3>6, <3>7, SoundCreStays
  <2> QED BY <1>1, <2>1, <2>2, <2>3 DEF BluetoothConfirm, Rediscover
<1>2. ASSUME NEW ad \in Adverts, ZeroconfAdvert(ad)
      PROVE  AllSound' /\ SoundCre'
  <2> DEFINE id == EntryOf(ad.serial)
             e == ZeroconfUpdate(entries[id], ad.ep)
  <2>0. ad.by = "zeroconf"
    BY <1>2 DEF ZeroconfAdvert
  <2>1. CASE id # 0 /\ Rediscovered(id, e, ad.serial) /\ UNCHANGED <<options, cre>>
    <3>1. id \in Present /\ Sound(entries[id]) /\ ad.serial \in SerialsOf(entries[id])
      BY <2>1, EntryOfHasIt DEF AllSound
    <3>2. Sound(e)
      BY <2>0, <3>1, ZeroconfSound
    <3> HIDE DEF id, e
    <3> QED BY <2>1, <3>1, <3>2, RediscoveredSound DEF SoundCre
  <2>2. CASE \E f \in Flows : Open(f, [kind |-> "zeroconf", pc |-> "form", uid |-> ad.serial, ad |-> ad])
    <3>1. PICK f \in Flows : Open(f, [kind |-> "zeroconf", pc |-> "form", uid |-> ad.serial, ad |-> ad])
      BY <2>2
    <3>2. SoundFlow([kind |-> "zeroconf", pc |-> "form", uid |-> ad.serial, ad |-> ad])
      BY <2>0 DEF SoundFlow
    <3> QED BY <1>0, <3>1, <3>2, SoundCreStays DEF Open
  <2> QED BY <1>2, <2>1, <2>2 DEF ZeroconfAdvert, Rediscover
<1>3. ASSUME NEW ad \in Adverts, BluetoothAdvert(ad)
      PROVE  AllSound' /\ SoundCre'
  <2> DEFINE id == EntryOf(ad.serial)
             e == BluetoothUpdate(entries[id], ad.ep, ad.line)
  <2>0. ad.by = "bluetooth"
    BY <1>3 DEF BluetoothAdvert
  <2>1. CASE id # 0 /\ Rediscovered(id, e, ad.serial) /\ UNCHANGED <<options, cre>>
    <3>1. id \in Present /\ Sound(entries[id]) /\ ad.serial \in SerialsOf(entries[id])
      BY <2>1, EntryOfHasIt DEF AllSound
    <3>2. Sound(e)
      BY <2>0, <3>1, BluetoothSound
    <3> HIDE DEF id, e
    <3> QED BY <2>1, <3>1, <3>2, RediscoveredSound DEF SoundCre
  <2>2. CASE \E f \in Flows : Open(f, [kind |-> "bluetooth", pc |-> "form", uid |-> ad.serial, ad |-> ad])
    <3>1. PICK f \in Flows : Open(f, [kind |-> "bluetooth", pc |-> "form", uid |-> ad.serial, ad |-> ad])
      BY <2>2
    <3>2. SoundFlow([kind |-> "bluetooth", pc |-> "form", uid |-> ad.serial, ad |-> ad])
      BY <2>0 DEF SoundFlow
    <3> QED BY <1>0, <3>1, <3>2, SoundCreStays DEF Open
  <2> QED BY <1>3, <2>1, <2>2 DEF BluetoothAdvert, Rediscover
<1>4. ASSUME NEW f \in Flows, AdvertisedValidated(f)
      PROVE  AllSound' /\ SoundCre'
  <2>1. Create(f, cre[f].ad.serial, cre[f].route) /\ Goto(f, NoFlow)
    BY <1>4 DEF AdvertisedValidated, Create
  <2>2. /\ cre[f].ad.serial # NoSerial /\ DOMAIN cre[f].route = RouteFields
        /\ LeadsTo(cre[f].route, cre[f].ad.serial)
    <3>1. /\ cre[f].ad \in Adverts /\ DOMAIN cre[f].route = RouteFields
          /\ MayLeadTo(cre[f].route, cre[f].ad.serial)
      BY <1>4 DEF AdvertisedValidated, SoundCre
    <3>2. cre[f].ad.serial # NoSerial
      BY <3>1, AddressAssumption
    <3>3. Answers(cre[f].route) = cre[f].ad.serial
      BY <1>4, <3>2 DEF AdvertisedValidated, Valid
    <3> QED BY <3>1, <3>2, <3>3 DEF MayLeadTo
  <2> QED BY <2>1, <2>2, CreateSound, SoundCreFreed
<1>5. ASSUME NEW f \in Flows, ConnectionValidated(f)
      PROVE  AllSound' /\ SoundCre'
  <2>1. CASE \E c, n : Upsert(f, c, {n}) /\ Goto(f, NoFlow) /\ UNCHANGED options
    <3>1. \A n : IsFiniteSet({n})
      BY FS_Singleton
    <3> QED BY <2>1, <3>1, UpsertSound, SoundCreFreed
  <2>2. CASE Create(f, Answers(cre[f].route), cre[f].route)
    <3>1. /\ Answers(cre[f].route) # NoSerial /\ DOMAIN cre[f].route = RouteFields
          /\ LeadsTo(cre[f].route, Answers(cre[f].route))
      BY <1>5 DEF ConnectionValidated, SoundCre
    <3>2. Goto(f, NoFlow)
      BY <2>2 DEF Create
    <3> QED BY <2>2, <3>1, <3>2, CreateSound, SoundCreFreed
  <2> QED BY <1>5, <2>1, <2>2 DEF ConnectionValidated
<1>6. ASSUME NEW f \in Flows, ChooseMeters(f)
      PROVE  AllSound' /\ SoundCre'
  <2>1. PICK chosen \in SUBSET cre[f].found : Upsert(f, cre[f].route, chosen)
    BY <1>6 DEF ChooseMeters
  <2>2. IsFiniteSet(chosen)
    BY <1>6, FS_Subset DEF ChooseMeters, CreOK
  <2> QED BY <1>6, <2>1, <2>2, UpsertSound, SoundCreFreed DEF ChooseMeters
<1>7. ASSUME NEW f \in Flows, BusScanned(f)
      PROVE  AllSound' /\ SoundCre'
  <2>1. PICK flow : Open(f, flow) /\ flow.kind = "scan"
    BY <1>7 DEF BusScanned
  <2>2. SoundFlow(flow)
    BY <2>1 DEF SoundFlow
  <2> QED BY <1>0, <2>1, <2>2, SoundCreStays DEF Open
<1>8. ASSUME NEW f \in Flows, ZeroconfConfirm(f)
      PROVE  AllSound' /\ SoundCre'
  <2>1. PICK transport \in DirectTcp :
          Sent(f, [kind |-> "zeroconf", pc |-> "validate", uid |-> cre[f].uid, ad |-> cre[f].ad,
                   route |-> [transport |-> transport, ep |-> cre[f].ad.ep, line |-> cre[f].ad.line,
                              slave |-> 1, purpose |-> "active"]])
    BY <1>8 DEF ZeroconfConfirm
  <2> DEFINE route == [transport |-> transport, ep |-> cre[f].ad.ep, line |-> cre[f].ad.line,
                       slave |-> 1, purpose |-> "active"]
             flow == [kind |-> "zeroconf", pc |-> "validate", uid |-> cre[f].uid, ad |-> cre[f].ad,
                      route |-> route]
  <2>2. cre[f].ad \in Adverts /\ cre[f].ad.by = "zeroconf"
    BY <1>8 DEF ZeroconfConfirm, SoundCre
  <2>3. /\ DOMAIN route = RouteFields
        /\ route.transport = transport /\ route.ep = cre[f].ad.ep /\ route.slave = 1
    BY DEF RouteFields
  <2>4. flow.kind = "zeroconf" /\ flow.ad = cre[f].ad /\ flow.route = route
    OBVIOUS
  <2>5. Goto(f, flow) /\ UNCHANGED store
    BY <2>1 DEF Sent
  <2> HIDE DEF route, flow
  <2>6. MayLeadTo(route, cre[f].ad.serial)
    <3>1. transport \in Transports /\ IsDirect(route)
      BY <2>3 DEF Transports, IsDirect
    <3> QED BY <2>2, <2>3, <3>1, AdvertMayLead DEF OfKind
  <2>7. SoundFlow(flow)
    BY <2>2, <2>3, <2>4, <2>6 DEF SoundFlow
  <2> QED BY <1>0, <2>5, <2>7, SoundCreStays
<1>9. ASSUME NEW f \in Flows,
             Leave(f) \/ \E input \in Inputs : ScanBus(f, input) \/ TypeConnection(f, input)
      PROVE  AllSound' /\ SoundCre'
  <2>1. CASE Leave(f)
    BY <1>0, <2>1, SoundCreFreed DEF Leave, Open
  <2>2. CASE \E input \in Inputs : ScanBus(f, input)
    <3>1. PICK flow : Sent(f, flow) /\ flow.kind = "scan"
      BY <2>2 DEF ScanBus
    <3>2. SoundFlow(flow)
      BY <3>1 DEF SoundFlow
    <3> QED BY <1>0, <3>1, <3>2, SoundCreStays DEF Sent
  <2>3. CASE \E input \in Inputs : TypeConnection(f, input)
    <3>1. PICK flow : Sent(f, flow) /\ flow.kind = "manual" /\ flow.route \in Inputs
      BY <2>3 DEF TypeConnection
    <3>2. SoundFlow(flow)
      BY <3>1, InputsLead DEF SoundFlow
    <3> QED BY <1>0, <3>1, <3>2, SoundCreStays DEF Sent
  <2> QED BY <1>9, <2>1, <2>2, <2>3
<1> QED BY <1>1, <1>2, <1>3, <1>4, <1>5, <1>6, <1>7, <1>8, <1>9 DEF CreationNext

\* The invariant of the data, beside EntriesInd
SoundInd == AllSound /\ SoundOpt /\ SoundCre

LEMMA SoundInitially == Init => SoundInd
<1> SUFFICES ASSUME Init
             PROVE  SoundInd
  OBVIOUS
<1>1. SoundOpt
  BY DEF Init, OptionsInit, SoundOpt, NoFlow
<1>2. SoundCre
  BY DEF Init, CreationInit, SoundCre, NoFlow
<1> QED BY <1>1, <1>2, StoreSoundInitially DEF Init, SoundInd

LEMMA SoundStep ==
  ASSUME EntriesInd, SoundInd, [Next]_vars
  PROVE  SoundInd'
<1>1. CASE StoreNext /\ UNCHANGED <<options, cre>>
  <2>1. AllSound' /\ Steady
    BY <1>1, StoreSound, StoreKeeps DEF EntriesInd, SoundInd
  <2>2. SoundOpt'
    BY <1>1, <2>1, SoundOptStays DEF EntriesInd, SoundInd, options
  <2>3. SoundCre'
    BY <1>1 DEF SoundInd, SoundCre
  <2> QED BY <2>1, <2>2, <2>3 DEF SoundInd
<1>2. CASE OptionsNext /\ UNCHANGED cre
  BY <1>2, OptionsSound DEF EntriesInd, SoundInd, SoundCre
<1>3. CASE CreationNext
  <2>1. AllSound' /\ SoundCre' /\ Steady /\ UNCHANGED opt
    BY <1>3, CreationSound, CreationKeeps DEF EntriesInd, SoundInd
  <2> QED BY <2>1, SoundOptStays DEF EntriesInd, SoundInd
<1>4. CASE UNCHANGED vars
  BY <1>4 DEF vars, store, options, SoundInd, AllSound, Present, SoundOpt, SoundCre
<1> QED BY <1>1, <1>2, <1>3, <1>4 DEF Next

\* What the entries and the flows keep can be used and leads to its meter, in every
\* reachable state.
THEOREM SoundInvariant == Spec => []SoundInd
<1>1. EntriesInd /\ SoundInd /\ [Next]_vars => SoundInd'
  BY SoundStep
<1> QED BY EntriesInvariant, SoundInitially, <1>1, PTL DEF Spec

\* The data of an entry of the latest version can be used: of one meter, its routes
\* have different keys, its active route is one of them and the connection fields are
\* those of it; of a bus, this holds of the routes of every meter.  It stays so however
\* the edits of routes, the discoveries and the migrations of entry_data.py follow on
\* one another and whatever was written between the awaits of a form.
THEOREM StoredDataAlways == Spec => []StoredDataSound
<1>1. EntriesInd /\ SoundInd => StoredDataSound
  <2> SUFFICES ASSUME EntriesInd, SoundInd, NEW id \in Present, entries[id].version = LatestVersion
               PROVE  IF entries[id].bus
                        THEN \A i \in DOMAIN entries[id].meters : MeterSound(entries[id].meters[i])
                        ELSE Mirrored(entries[id])
    BY DEF StoredDataSound, MeterSound
  <2>1. WasWritten(entries[id])
    BY DEF SoundInd, AllSound, Sound
  <2> QED BY <2>1 DEF WasWritten, LatestVersion
<1> QED BY EntriesInvariant, SoundInvariant, <1>1, PTL

\* A route of an entry of one meter leads to the meter: a connection that is typed or
\* advertised becomes a route only after the meter there said who it is, for the serial
\* the entry still has when the form is saved, and a route a discovery moves keeps its
\* slave.  It stays so whatever was written between the awaits of a form.
THEOREM RoutesLeadAlways == Spec => []RoutesLeadToMeter
<1>1. SoundInd => RoutesLeadToMeter
  <2> SUFFICES ASSUME SoundInd, NEW id \in Present,
                      ~entries[id].bus, entries[id].version = LatestVersion,
                      NEW i \in DOMAIN Routes(entries[id])
               PROVE  Answers(Routes(entries[id])[i]) = entries[id].serial
    BY DEF RoutesLeadToMeter
  <2> DEFINE e == entries[id]
  <2>1. Sound(e)
    BY DEF SoundInd, AllSound
  <2>2. Fits(Routes(e)[i], e)
    BY <2>1, RoutesAre
  <2>3. e.serial \in SerialsOf(e)
    BY <2>1 DEF Sound, WasWritten, LatestVersion, SerialsOf
  <2> QED BY <2>2, <2>3 DEF Fits, LeadsTo
<1> QED BY <1>1, SoundInvariant, PTL
=============================================================================
