------------------------- MODULE GatewayRouteProofs -------------------------
(***************************************************************************)
(* What holds of a meter behind a gateway (GatewayRoute) for any profile of *)
(* sensors, settings, users, calls, polls and faults, and of the scans that *)
(* lead to it (Discovery) for any network, bus and advertisements.          *)
(*                                                                          *)
(* The grouping of the registers: BuildRegisterBlocks puts every sensor in  *)
(* one block of registers that are its sensors' and no more than the limit, *)
(* by induction over the sensors grouped so far (Grouping).                 *)
(* The buttons: PressInv adds to ActionTakesAll what is left of a plan and, *)
(* between the two writes of apply-and-store, that the first is in force.   *)
(* The polls: PollInv says what the blocks still to read stand for.         *)
(* What the devices hold: HeldInv relates the value last written for every  *)
(* setting to the registers, and the lemmas about the tables of settings    *)
(* say that a value survives its encoding and that no two settings meet.    *)
(* The scans: ScanInd says, for each of the three, what the part that is    *)
(* already scanned shows; the proxy's one by induction over its             *)
(* advertisements (Strongest).                                              *)
(***************************************************************************)
EXTENDS GatewayRoute, Discovery, FiniteSetTheorems, SequenceTheorems, TLAPS

-----------------------------------------------------------------------------
(* Numbers *)

LEMMA LeastNumber ==
  ASSUME NEW T, T \subseteq Nat, T # {}
  PROVE  \E x \in T : \A y \in T : x <= y
<1> DEFINE R == {ss \in Nat \X Nat : ss[1] < ss[2]}
<1>1. IsWellFoundedOn(R, Nat)
  BY NatLessThanWellFounded DEF OpToRel
<1>2. \A x, y \in Nat : ~(<<y, x>> \in R) => x <= y
  OBVIOUS
<1> HIDE DEF R
<1>3. \E x \in T : \A y \in T : ~(<<y, x>> \in R)
  BY <1>1, WFMin
<1> QED BY <1>2, <1>3

LEMMA SetInduction ==
  ASSUME NEW S, 0 \in S, \A n \in Nat : n \in S => n + 1 \in S
  PROVE  Nat \subseteq S
<1> SUFFICES ASSUME Nat \ S # {}
             PROVE  FALSE
  OBVIOUS
<1>1. PICK x \in Nat \ S : \A y \in Nat \ S : x <= y
  BY LeastNumber
<1>2. x # 0 /\ x - 1 \in Nat /\ x = (x - 1) + 1
  BY <1>1
<1>3. x - 1 \in S
  BY <1>1, <1>2
<1> QED BY <1>1, <1>2, <1>3

-----------------------------------------------------------------------------
(* The grouping of registers *)

\* What one sensor more does to the blocks, and to the sensors left
Extend(before) ==
  LET s == FirstOf(before.left)
  IN  [blocks |-> Grouped(before.blocks, s), left |-> before.left \ {s}]

Groups(after, S, N) ==
  after = [n \in 0 .. N |-> IF n = 0 THEN [blocks |-> <<>>, left |-> S]
                            ELSE Extend(after[n - 1])]

\* The recursion of BuildRegisterBlocks has a solution.
LEMMA GroupingIs ==
  ASSUME NEW S, NEW N \in Nat
  PROVE  \E after : Groups(after, S, N)
<1> DEFINE K == {k \in Nat : \E u : Groups(u, S, k)}
<1>1. 0 \in K
  <2> DEFINE u == [n \in 0 .. 0 |-> [blocks |-> <<>>, left |-> S]]
  <2>1. Groups(u, S, 0)
    BY DEF Groups
  <2> HIDE DEF u
  <2> QED BY <2>1
<1>2. ASSUME NEW k \in Nat, k \in K
      PROVE  k + 1 \in K
  <2>1. PICK u : Groups(u, S, k)
    BY <1>2
  <2> DEFINE w == [n \in 0 .. k + 1 |-> IF n = k + 1 THEN Extend(u[k]) ELSE u[n]]
  <2>2. w[k + 1] = Extend(u[k]) /\ \A n \in 0 .. k : w[n] = u[n]
    OBVIOUS
  <2>3. DOMAIN w = 0 .. k + 1 /\ w = [n \in DOMAIN w |-> w[n]]
    OBVIOUS
  <2> HIDE DEF w
  <2>4. \A n \in 0 .. k + 1 : w[n] = IF n = 0 THEN [blocks |-> <<>>, left |-> S]
                                      ELSE Extend(w[n - 1])
    <3> TAKE n \in 0 .. k + 1
    <3>1. CASE n = k + 1
      BY <2>2, <3>1
    <3>2. CASE n \in 0 .. k
      <4>1. n # 0 => n - 1 \in 0 .. k
        BY <3>2
      <4>2. u[n] = IF n = 0 THEN [blocks |-> <<>>, left |-> S] ELSE Extend(u[n - 1])
        BY <2>1, <3>2 DEF Groups
      <4> QED BY <2>2, <3>2, <4>1, <4>2
    <3> QED BY <3>1, <3>2
  <2>5. Groups(w, S, k + 1)
    BY <2>3, <2>4 DEF Groups
  <2> QED BY <2>5
<1> HIDE DEF K
<1>3. N \in K
  BY <1>1, <1>2, SetInduction
<1> QED BY <1>3 DEF K

\* Sensors of a profile, and blocks of such sensors
AreSensors(S) ==
  \A s \in S : s.address \in Nat /\ s.count \in 1 .. MaxRegistersPerRead

IsBlock(b, S) ==
  /\ b = [address |-> b.address, count |-> b.count, sensors |-> b.sensors]
  /\ b.address \in Nat /\ b.count \in 1 .. MaxRegistersPerRead
  /\ b.sensors \in Seq(S) /\ b.sensors # <<>>
  /\ \A s \in Range(b.sensors) : b.address <= s.address /\ End(s) <= End(b)
  /\ RegistersOf(b) = UNION {RegistersOf(s) : s \in Range(b.sensors)}

LEMMA RangeAppended ==
  ASSUME NEW S, NEW q \in Seq(S), NEW s \in S
  PROVE  Range(Append(q, s)) = Range(q) \cup {s}
<1> DEFINE t == Append(q, s)
<1>1. /\ Len(t) = Len(q) + 1 /\ DOMAIN t = 1 .. Len(t) /\ DOMAIN q = 1 .. Len(q)
      /\ \A i \in 1 .. Len(q) : t[i] = q[i]
      /\ t[Len(q) + 1] = s /\ Len(q) \in Nat
  BY AppendProperties, LenProperties
<1> HIDE DEF t
<1>2. Range(t) = Range(q) \cup {s}
  <2>1. ASSUME NEW x \in Range(t)
        PROVE  x \in Range(q) \cup {s}
    <3>1. PICK i \in 1 .. Len(q) + 1 : x = t[i]
      BY <1>1, <2>1 DEF Range
    <3>2. CASE i = Len(q) + 1
      BY <1>1, <3>1, <3>2
    <3>3. CASE i \in 1 .. Len(q)
      BY <1>1, <3>1, <3>3 DEF Range
    <3> QED BY <1>1, <3>2, <3>3
  <2>2. ASSUME NEW x \in Range(q) \cup {s}
        PROVE  x \in Range(t)
    <3>1. CASE x = s
      BY <1>1, <3>1 DEF Range
    <3>2. CASE x \in Range(q)
      <4>1. PICK i \in 1 .. Len(q) : x = q[i]
        BY <1>1, <3>2 DEF Range
      <4>2. i \in DOMAIN t /\ t[i] = x
        BY <1>1, <4>1
      <4> QED BY <4>2 DEF Range
    <3> QED BY <2>2, <3>1, <3>2
  <2> QED BY <2>1, <2>2
<1> QED BY <1>2 DEF t

LEMMA NewBlockIs ==
  ASSUME NEW S, AreSensors(S), NEW s \in S
  PROVE  IsBlock(NewBlock(s), S) /\ Range(NewBlock(s).sensors) = {s}
<1> DEFINE b == NewBlock(s)
<1>1. /\ b = [address |-> s.address, count |-> s.count, sensors |-> <<s>>]
      /\ b.address = s.address /\ b.count = s.count /\ b.sensors = <<s>>
  BY DEF NewBlock
<1>2. <<s>> \in Seq(S) /\ Range(<<s>>) = {s} /\ <<s>> # <<>>
  BY DEF Range
<1>3. End(s) = End(b) /\ RegistersOf(b) = RegistersOf(s)
  BY <1>1 DEF End, RegistersOf
<1>4. End(s) \in Nat
  BY DEF End, AreSensors
<1> HIDE DEF b
<1>5. IsBlock(b, S) /\ Range(b.sensors) = {s}
  BY <1>1, <1>2, <1>3, <1>4 DEF IsBlock, AreSensors
<1> QED BY <1>5 DEF b

LEMMA ExtendedIs ==
  ASSUME NEW S, AreSensors(S), NEW s \in S, NEW b, IsBlock(b, S),
         b.address <= s.address, Fits(b, s)
  PROVE  /\ IsBlock(Extended(b, s), S) /\ Extended(b, s).address = b.address
         /\ Range(Extended(b, s).sensors) = Range(b.sensors) \cup {s}
<1> DEFINE c == Extended(b, s)
           e == IF End(b) >= End(s) THEN End(b) ELSE End(s)
<1>0. c = [b EXCEPT !.count = e - b.address, !.sensors = Append(b.sensors, s)]
  BY DEF Extended
<1>1. /\ c = [address |-> b.address, count |-> e - b.address, sensors |-> Append(b.sensors, s)]
      /\ c.address = b.address /\ c.count = e - b.address /\ c.sensors = Append(b.sensors, s)
  <2> HIDE DEF c, e
  <2>1. b = [address |-> b.address, count |-> b.count, sensors |-> b.sensors]
    BY DEF IsBlock
  <2> QED BY <1>0, <2>1
<1>2. /\ s.address \in Nat /\ s.count \in 1 .. MaxRegistersPerRead /\ MaxRegistersPerRead \in Nat
      /\ b.address \in Nat /\ b.count \in 1 .. MaxRegistersPerRead
      /\ End(b) = b.address + b.count /\ End(s) = s.address + s.count
  BY LimitAssumption DEF End, AreSensors, IsBlock
<1>3. s.address <= End(b) /\ End(s) - b.address <= MaxRegistersPerRead
  BY DEF Fits
<1>4. /\ e \in Nat /\ End(b) <= e /\ End(s) <= e /\ (e = End(b) \/ e = End(s))
      /\ e - b.address \in 1 .. MaxRegistersPerRead
  BY <1>2, <1>3
<1> HIDE DEF e
<1>5. End(c) = e
  BY <1>1, <1>2, <1>4 DEF End
<1>6. /\ Append(b.sensors, s) \in Seq(S) /\ Append(b.sensors, s) # <<>>
      /\ Range(Append(b.sensors, s)) = Range(b.sensors) \cup {s}
  BY RangeAppended, AppendProperties DEF IsBlock
<1>7. RegistersOf(c) = RegistersOf(b) \cup RegistersOf(s)
  <2>1. /\ RegistersOf(c) = b.address .. e - 1
        /\ RegistersOf(b) = b.address .. End(b) - 1 /\ RegistersOf(s) = s.address .. End(s) - 1
    BY <1>1, <1>5 DEF RegistersOf
  <2>2. End(b) \in Int /\ End(s) \in Int /\ b.address <= s.address /\ s.address <= End(b)
    BY <1>2, <1>3
  <2>3. \A x \in Int : b.address <= x /\ x <= e - 1 <=>
           \/ b.address <= x /\ x <= End(b) - 1
           \/ s.address <= x /\ x <= End(s) - 1
    BY <1>2, <1>4, <2>2
  <2> QED BY <1>2, <1>4, <2>1, <2>2, <2>3, SMTT(30)
<1>8. ASSUME NEW t \in Range(b.sensors) \cup {s}
      PROVE  b.address <= t.address /\ End(t) <= e
  <2>1. CASE t = s
    BY <1>4, <2>1
  <2>2. CASE t \in Range(b.sensors)
    <3>1. t \in S
      BY <2>2, RangeOfSeq DEF IsBlock
    <3>2. b.address <= t.address /\ End(t) <= End(b) /\ End(t) \in Int
      BY <2>2, <3>1 DEF IsBlock, AreSensors, End
    <3> QED BY <1>2, <1>4, <3>2
  <2> QED BY <1>8, <2>1, <2>2
<1> HIDE DEF c
<1>9. RegistersOf(c) = UNION {RegistersOf(t) : t \in Range(c.sensors)}
  BY <1>1, <1>6, <1>7 DEF IsBlock
<1>10. IsBlock(c, S)
  BY <1>1, <1>2, <1>4, <1>5, <1>6, <1>8, <1>9 DEF IsBlock
<1> QED BY <1>1, <1>6, <1>10 DEF c

BlockSet(S) == [address : Nat, count : Nat, sensors : Seq(S)]

\* The sensors no longer left are in one block each, and no sensor that is left
\* begins before the last block.
Grouping(r, S) ==
  /\ r = [blocks |-> r.blocks, left |-> r.left] /\ r.left \subseteq S
  /\ r.blocks \in Seq(BlockSet(S))
  /\ \A i \in 1 .. Len(r.blocks) : IsBlock(r.blocks[i], S)
  /\ \A s \in S : s \notin r.left <=> \E i \in 1 .. Len(r.blocks) : s \in Range(r.blocks[i].sensors)
  /\ \A i, j \in 1 .. Len(r.blocks) :
        i # j => Range(r.blocks[i].sensors) \cap Range(r.blocks[j].sensors) = {}
  /\ r.blocks # <<>> => \A t \in r.left : r.blocks[Len(r.blocks)].address <= t.address

LEMMA FirstIs ==
  ASSUME NEW T, T # {}, \A t \in T : t.address \in Nat
  PROVE  FirstOf(T) \in T /\ \A t \in T : FirstOf(T).address <= t.address
<1> DEFINE A == {t.address : t \in T}
<1>1. A \subseteq Nat /\ A # {}
  OBVIOUS
<1>2. PICK a \in A : \A x \in A : a <= x
  BY <1>1, LeastNumber
<1>3. \E s \in T : \A t \in T : s.address <= t.address
  BY <1>2
<1> QED BY <1>3 DEF FirstOf

LEMMA BlockIsTyped ==
  ASSUME NEW S, NEW b, IsBlock(b, S)
  PROVE  b \in BlockSet(S)
  BY DEF IsBlock, BlockSet, AreSensors

\* A sensor that begins a block of its own
LEMMA GroupedApart ==
  ASSUME NEW S, AreSensors(S), NEW r, Grouping(r, S), r.left # {},
         NEW s, s = FirstOf(r.left), NEW bs, bs = Append(r.blocks, NewBlock(s))
  PROVE  Grouping([blocks |-> bs, left |-> r.left \ {s}], S)
<1> DEFINE b == NewBlock(s)
           n == Len(r.blocks)
<1>1. s \in r.left /\ s \in S /\ \A t \in r.left : s.address <= t.address
  BY FirstIs DEF AreSensors, Grouping
<1>2. IsBlock(b, S) /\ Range(b.sensors) = {s} /\ b \in BlockSet(S) /\ b.address = s.address
  BY <1>1, NewBlockIs, BlockIsTyped DEF NewBlock
<1> HIDE DEF b
<1>3. /\ n \in Nat /\ bs \in Seq(BlockSet(S)) /\ Len(bs) = n + 1 /\ bs # <<>>
      /\ \A i \in 1 .. n : bs[i] = r.blocks[i]
      /\ bs[n + 1] = b
  BY <1>2, AppendProperties, LenProperties DEF Grouping, b
<1> HIDE DEF n
<1>4. \A i \in 1 .. n : IsBlock(r.blocks[i], S) /\ s \notin Range(r.blocks[i].sensors)
  BY <1>1 DEF Grouping, n
<1>5. \A i \in 1 .. n + 1 : IsBlock(bs[i], S)
  <2>1. \A i \in 1 .. n + 1 : i = n + 1 \/ i \in 1 .. n
    BY <1>3
  <2> QED BY <1>2, <1>3, <1>4, <2>1
<1>6. ASSUME NEW t \in S
      PROVE  t \notin r.left \ {s} <=> \E i \in 1 .. n + 1 : t \in Range(bs[i].sensors)
  <2>1. \A i \in 1 .. n + 1 : i = n + 1 \/ i \in 1 .. n
    BY <1>3
  <2>2. n + 1 \in 1 .. n + 1 /\ \A i \in 1 .. n : i \in 1 .. n + 1
    BY <1>3
  <2>3. t \notin r.left <=> \E i \in 1 .. n : t \in Range(r.blocks[i].sensors)
    BY DEF Grouping, n
  <2> QED BY <1>2, <1>3, <2>1, <2>2, <2>3
<1>7. ASSUME NEW i \in 1 .. n + 1, NEW j \in 1 .. n + 1, i # j
      PROVE  Range(bs[i].sensors) \cap Range(bs[j].sensors) = {}
  <2>1. CASE i \in 1 .. n /\ j \in 1 .. n
    BY <1>3, <1>7, <2>1 DEF Grouping, n
  <2>2. CASE i = n + 1 /\ j \in 1 .. n
    BY <1>2, <1>3, <1>4, <2>2
  <2>3. CASE i \in 1 .. n /\ j = n + 1
    BY <1>2, <1>3, <1>4, <2>3
  <2>4. (i = n + 1 \/ i \in 1 .. n) /\ (j = n + 1 \/ j \in 1 .. n)
    BY <1>3
  <2> QED BY <1>7, <2>1, <2>2, <2>3, <2>4
<1>8. \A t \in r.left \ {s} : bs[n + 1].address <= t.address
  BY <1>1, <1>2, <1>3
<1>9. r.left \ {s} \subseteq S
  BY DEF Grouping
<1> QED BY <1>3, <1>5, <1>6, <1>7, <1>8, <1>9 DEF Grouping

\* A sensor that joins the last block
LEMMA GroupedTogether ==
  ASSUME NEW S, AreSensors(S), NEW r, Grouping(r, S), r.left # {}, NEW n, n = Len(r.blocks),
         r.blocks # <<>>, NEW s, s = FirstOf(r.left), Fits(r.blocks[n], s),
         NEW bs, bs = [r.blocks EXCEPT ![n] = Extended(r.blocks[n], s)]
  PROVE  Grouping([blocks |-> bs, left |-> r.left \ {s}], S)
<1> DEFINE b == Extended(r.blocks[n], s)
<1>1. s \in r.left /\ s \in S
  BY FirstIs DEF AreSensors, Grouping
<1>2. n \in Nat /\ n \in 1 .. n
  BY EmptySeq, LenProperties DEF Grouping
<1>3. r.blocks[n].address <= s.address /\ IsBlock(r.blocks[n], S)
  BY <1>1, <1>2 DEF Grouping
<1>4. /\ IsBlock(b, S) /\ b.address = r.blocks[n].address /\ b \in BlockSet(S)
      /\ Range(b.sensors) = Range(r.blocks[n].sensors) \cup {s}
  BY <1>1, <1>3, ExtendedIs, BlockIsTyped
<1> HIDE DEF b
<1>5. /\ bs \in Seq(BlockSet(S)) /\ Len(bs) = n
      /\ \A i \in 1 .. n : bs[i] = IF i = n THEN b ELSE r.blocks[i]
  <2>1. bs = [r.blocks EXCEPT ![n] = b]
    BY DEF b
  <2> QED BY <1>2, <1>4, <2>1, ExceptSeq DEF Grouping
<1>6. \A i \in 1 .. n : IsBlock(bs[i], S)
  BY <1>4, <1>5 DEF Grouping
<1>7. \A i \in 1 .. n : s \notin Range(r.blocks[i].sensors)
  BY <1>1 DEF Grouping
<1>8. ASSUME NEW t \in S
      PROVE  t \notin r.left \ {s} <=> \E i \in 1 .. n : t \in Range(bs[i].sensors)
  <2>1. t \notin r.left <=> \E i \in 1 .. n : t \in Range(r.blocks[i].sensors)
    BY DEF Grouping
  <2> QED BY <1>2, <1>4, <1>5, <2>1
<1>9. ASSUME NEW i \in 1 .. n, NEW j \in 1 .. n, i # j
      PROVE  Range(bs[i].sensors) \cap Range(bs[j].sensors) = {}
  <2>1. Range(r.blocks[i].sensors) \cap Range(r.blocks[j].sensors) = {}
    BY <1>9 DEF Grouping
  <2>2. CASE i = n
    <3>1. bs[i] = b /\ bs[j] = r.blocks[j] /\ i = n
      BY <1>5, <1>9, <2>2
    <3> QED BY <1>4, <1>7, <2>1, <3>1
  <2>3. CASE j = n
    <3>1. bs[j] = b /\ bs[i] = r.blocks[i] /\ j = n
      BY <1>5, <1>9, <2>3
    <3> QED BY <1>4, <1>7, <2>1, <3>1
  <2>4. CASE i # n /\ j # n
    BY <1>5, <2>1, <2>4
  <2> QED BY <2>2, <2>3, <2>4
<1>10. \A t \in r.left \ {s} : bs[n].address <= t.address
  BY <1>2, <1>4, <1>5 DEF Grouping
<1>11. r.left \ {s} \subseteq S
  BY DEF Grouping
<1> DEFINE q == [blocks |-> bs, left |-> r.left \ {s}]
<1>12. q.blocks = bs /\ q.left = r.left \ {s} /\ q = [blocks |-> q.blocks, left |-> q.left]
  OBVIOUS
<1> HIDE DEF q
<1>13. \A t \in S : t \notin q.left <=> \E i \in 1 .. Len(q.blocks) : t \in Range(q.blocks[i].sensors)
  BY <1>5, <1>8, <1>12
<1>14. q.blocks \in Seq(BlockSet(S)) /\ q.left \subseteq S /\ Len(q.blocks) = n
  BY <1>5, <1>11, <1>12
<1>15. \A i \in 1 .. Len(q.blocks) : IsBlock(q.blocks[i], S)
  BY <1>6, <1>12, <1>14
<1>16. \A i, j \in 1 .. Len(q.blocks) :
        i # j => Range(q.blocks[i].sensors) \cap Range(q.blocks[j].sensors) = {}
  BY <1>9, <1>12, <1>14
<1>17. \A t \in q.left : q.blocks[Len(q.blocks)].address <= t.address
  BY <1>10, <1>12, <1>14
<1>18. Grouping(q, S)
  BY <1>12, <1>13, <1>14, <1>15, <1>16, <1>17 DEF Grouping
<1> QED BY <1>18 DEF q

LEMMA GroupingKept ==
  ASSUME NEW S, AreSensors(S), NEW r, Grouping(r, S), r.left # {}
  PROVE  Grouping(Extend(r), S) /\ FirstOf(r.left) \in r.left
         /\ Extend(r).left = r.left \ {FirstOf(r.left)}
<1> DEFINE s == FirstOf(r.left)
           n == Len(r.blocks)
<1>1. s \in r.left
  BY FirstIs DEF AreSensors, Grouping
<1>2. n \in Nat /\ (n > 0 <=> r.blocks # <<>>)
  BY EmptySeq, LenProperties DEF Grouping
<1>3. Extend(r) = [blocks |-> Grouped(r.blocks, s), left |-> r.left \ {s}]
  BY DEF Extend
<1>4. CASE n > 0 /\ Fits(r.blocks[n], s)
  <2>1. Grouped(r.blocks, s) = [r.blocks EXCEPT ![n] = Extended(r.blocks[n], s)]
    BY <1>4 DEF Grouped
  <2> HIDE DEF s, n
  <2>2. Grouping([blocks |-> Grouped(r.blocks, s), left |-> r.left \ {s}], S)
    BY <1>2, <1>4, <2>1, GroupedTogether DEF s, n
  <2> QED BY <1>1, <1>3, <2>2 DEF s
<1>5. CASE ~(n > 0 /\ Fits(r.blocks[n], s))
  <2>1. Grouped(r.blocks, s) = Append(r.blocks, NewBlock(s))
    BY <1>5 DEF Grouped
  <2> HIDE DEF s, n
  <2>2. Grouping([blocks |-> Grouped(r.blocks, s), left |-> r.left \ {s}], S)
    BY <2>1, GroupedApart DEF s, n
  <2> QED BY <1>1, <1>3, <2>2 DEF s
<1> QED BY <1>4, <1>5

\* What is grouped is a block for every sensor.
GroupedSensors(blocks, S) ==
  /\ blocks \in Seq(BlockSet(S))
  /\ \A i \in 1 .. Len(blocks) : IsBlock(blocks[i], S)
  /\ \A s \in S : \E i \in 1 .. Len(blocks) : s \in Range(blocks[i].sensors)
  /\ \A i, j \in 1 .. Len(blocks) :
        i # j => Range(blocks[i].sensors) \cap Range(blocks[j].sensors) = {}

LEMMA BlocksAre ==
  ASSUME NEW S, IsFiniteSet(S), AreSensors(S)
  PROVE  GroupedSensors(BuildRegisterBlocks(S), S)
<1> DEFINE N == Cardinality(S)
           after == CHOOSE u : Groups(u, S, N)
<1>1. N \in Nat
  BY FS_CardinalityType
<1>2. BuildRegisterBlocks(S) = after[N].blocks
  BY DEF BuildRegisterBlocks, Groups, Extend
<1>3. Groups(after, S, N)
  BY <1>1, GroupingIs
<1> HIDE DEF after
<1> DEFINE K == {k \in Nat : k <= N => /\ Grouping(after[k], S) /\ IsFiniteSet(after[k].left)
                                      /\ Cardinality(after[k].left) = N - k}
<1>4. 0 \in K
  <2>1. after[0] = [blocks |-> <<>>, left |-> S]
    BY <1>1, <1>3 DEF Groups
  <2>2. Grouping(after[0], S)
    BY <2>1, EmptySeq DEF Grouping
  <2> QED BY <1>1, <2>1, <2>2
<1>5. ASSUME NEW k \in Nat, k \in K
      PROVE  k + 1 \in K
  <2> SUFFICES ASSUME k + 1 <= N
               PROVE  /\ Grouping(after[k + 1], S) /\ IsFiniteSet(after[k + 1].left)
                      /\ Cardinality(after[k + 1].left) = N - (k + 1)
    OBVIOUS
  <2> DEFINE r == after[k]
  <2>1. after[k + 1] = Extend(r)
    BY <1>1, <1>3 DEF Groups
  <2>2. Grouping(r, S) /\ IsFiniteSet(r.left) /\ Cardinality(r.left) = N - k
    BY <1>1, <1>5
  <2> HIDE DEF r
  <2>3. r.left # {}
    BY <1>1, <2>2, FS_EmptySet
  <2>4. /\ Grouping(Extend(r), S) /\ FirstOf(r.left) \in r.left
        /\ Extend(r).left = r.left \ {FirstOf(r.left)}
    BY <2>2, <2>3, GroupingKept
  <2>5. IsFiniteSet(Extend(r).left) /\ Cardinality(Extend(r).left) = N - k - 1
    BY <2>2, <2>4, FS_RemoveElement
  <2> QED BY <1>1, <2>1, <2>4, <2>5
<1> HIDE DEF K
<1>6. N \in K
  BY <1>1, <1>4, <1>5, SetInduction
<1>7. Grouping(after[N], S) /\ after[N].left = {}
  BY <1>1, <1>6, FS_EmptySet DEF K
<1> HIDE DEF N
<1>8. GroupedSensors(after[N].blocks, S)
  BY <1>7 DEF Grouping, GroupedSensors
<1> QED BY <1>2, <1>8

\* A poll of these blocks asks for every register of its sensors, and no other.
LEMMA GroupedCovers ==
  ASSUME NEW S, NEW blocks, GroupedSensors(blocks, S)
  PROVE  CoversExactly(blocks, S)
<1>1. DOMAIN blocks = 1 .. Len(blocks)
  BY LenProperties DEF GroupedSensors
<1>2. ASSUME NEW s \in S
      PROVE  Cardinality({i \in DOMAIN blocks : s \in Range(blocks[i].sensors)}) = 1
  <2>1. PICK i \in DOMAIN blocks : s \in Range(blocks[i].sensors)
    BY <1>1 DEF GroupedSensors
  <2>2. \A j \in DOMAIN blocks : s \in Range(blocks[j].sensors) => j = i
    BY <1>1, <2>1 DEF GroupedSensors
  <2>3. {j \in DOMAIN blocks : s \in Range(blocks[j].sensors)} = {i}
    BY <2>1, <2>2
  <2> QED BY <2>3, FS_Singleton
<1>3. ASSUME NEW i \in DOMAIN blocks
      PROVE  /\ Range(blocks[i].sensors) \subseteq S /\ blocks[i].count <= MaxRegistersPerRead
             /\ RegistersOf(blocks[i]) = UNION {RegistersOf(s) : s \in Range(blocks[i].sensors)}
  <2>1. IsBlock(blocks[i], S)
    BY <1>1 DEF GroupedSensors
  <2>2. Range(blocks[i].sensors) \subseteq S
    BY <2>1, RangeOfSeq DEF IsBlock
  <2> QED BY <2>1, <2>2, LimitAssumption DEF IsBlock
<1> QED BY <1>2, <1>3 DEF CoversExactly

-----------------------------------------------------------------------------
(* The tables of settings *)

\* The writable setting at an address of the meter
At(a) ==
  CASE a = 19462 -> Switch("wifi_support", 19462)
    [] a = 19456 -> Switch("legal_lcd_obis_codes", 19456)
    [] a = 16435 -> Switch("non_legal_lcd_obis_codes", 16435)
    [] a = 19458 -> Select("backlight_mode", 19458, BacklightMode)
    [] a = 16753 -> Select("backlight_level", 16753, BacklightLevel)
    [] a = 19457 -> Select("legal_lcd_tariff_mode", 19457, TariffMode)
    [] a = 16434 -> Select("lcd_orientation", 16434, Orientation)
    [] a = 19460 -> Number("backlight_timeout", 19460, 0, 30)
    [] a = 16400 -> Number("legal_lcd_cycle_time", 16400, 5, 30)
    [] a = 19461 -> Number("non_legal_lcd_cycle_time", 19461, 5, 30)

LEMMA KindsAre ==
  ASSUME NEW k, NEW a, NEW opts, NEW lo, NEW hi
  PROVE  /\ Switch(k, a).key = k /\ Switch(k, a).address = a
         /\ Switch(k, a).platform = "switch" /\ Switch(k, a).options = NoOptions
         /\ Select(k, a, opts).key = k /\ Select(k, a, opts).address = a
         /\ Select(k, a, opts).platform = "select" /\ Select(k, a, opts).options = opts
         /\ Number(k, a, lo, hi).key = k /\ Number(k, a, lo, hi).address = a
         /\ Number(k, a, lo, hi).platform = "number" /\ Number(k, a, lo, hi).options = NoOptions
         /\ Text(k, a).key = k /\ Text(k, a).address = a
         /\ Text(k, a).platform = "text" /\ Text(k, a).options = NoOptions
  BY DEF Switch, Select, Number, Text

\* What the tables say of a setting of the meter
LEMMA WritableIs ==
  ASSUME NEW s \in WritableSettings
  PROVE  /\ s = At(s.address) /\ s.address \in Nat /\ s.address > 16000
         /\ s.platform \in {"switch", "select", "number"}
         /\ s.platform # "select" => s.options = NoOptions
         /\ s.platform # "switch" => s.key # "wifi_support"
<1> DEFINE Is(x) == /\ x = At(x.address) /\ x.address \in Nat /\ x.address > 16000
                    /\ x.platform \in {"switch", "select", "number"}
                    /\ x.platform # "select" => x.options = NoOptions
                    /\ x.platform # "switch" => x.key # "wifi_support"
<1>1. Is(Switch("wifi_support", 19462)) 
  BY KindsAre DEF At
<1>2. Is(Switch("legal_lcd_obis_codes", 19456)) 
  BY KindsAre DEF At
<1>3. Is(Switch("non_legal_lcd_obis_codes", 16435))
  BY KindsAre DEF At
<1>4. Is(Select("backlight_mode", 19458, BacklightMode)) 
  BY KindsAre DEF At
<1>5. Is(Select("backlight_level", 16753, BacklightLevel))
  BY KindsAre DEF At
<1>6. Is(Select("legal_lcd_tariff_mode", 19457, TariffMode))
  BY KindsAre DEF At
<1>7. Is(Select("lcd_orientation", 16434, Orientation))
  BY KindsAre DEF At
<1>8. Is(Number("backlight_timeout", 19460, 0, 30)) 
  BY KindsAre DEF At
<1>9. Is(Number("legal_lcd_cycle_time", 16400, 5, 30)) 
  BY KindsAre DEF At
<1>10. Is(Number("non_legal_lcd_cycle_time", 19461, 5, 30))
  BY KindsAre DEF At
<1> HIDE DEF Is
<1>11. Is(s)
  BY <1>1, <1>2, <1>3, <1>4, <1>5, <1>6, <1>7, <1>8, <1>9, <1>10 DEF WritableSettings
<1> QED BY <1>11 DEF Is

\* The gateway setting at an address, and how far it reaches
GatewayAt(a) ==
  CASE a = 106 -> Switch("dhcp_enabled", 106)
    [] a = 131 -> Switch("ntp_enabled", 131)
    [] a = 115 -> HostName
    [] a = 100 -> Text("ip_address", 100)
    [] a = 102 -> Text("netmask", 102)
    [] a = 104 -> Text("default_gateway", 104)
    [] a = 107 -> Text("dns_server_1", 107)
    [] a = 111 -> Text("dns_server_2", 111)
    [] a = 109 -> Text("ntp_server_1", 109)
    [] a = 113 -> Text("ntp_server_2", 113)
    [] a = 2 -> Select("modbus_port", 2, ModbusPort)
    [] a = 0 -> Select("baudrate", 0, Baudrate)
    [] a = 1 -> Select("parity", 1, Parity)
    [] a = 3 -> Number("timeout_ms", 3, 0, 60000)

Addresses == {0, 1, 2, 3, 100, 102, 104, 106, 107, 109, 111, 113, 115, 131}

WidthAt(a) == IF a = 115 THEN 16 ELSE IF a \in {100, 102, 104, 107, 109, 111, 113} THEN 2 ELSE 1

LEMMA GatewayIs ==
  ASSUME NEW s \in GatewaySettings
  PROVE  /\ s = GatewayAt(s.address) /\ s.address \in Addresses
         /\ WidthOf(s) = WidthAt(s.address)
         /\ s.platform \in {"switch", "select", "number", "text"}
         /\ s = HostName => s.platform = "text"
<1> DEFINE Is(x) == /\ x = GatewayAt(x.address) /\ x.address \in Addresses
                    /\ WidthOf(x) = WidthAt(x.address)
                    /\ x.platform \in {"switch", "select", "number", "text"}
                    /\ x = HostName => x.platform = "text"
<1>0. HostName.address = 115 /\ HostName.platform = "text"
  BY KindsAre DEF HostName
<1> USE <1>0, KindsAre DEF GatewayAt, Addresses, WidthOf, WidthAt, HostNameWords
<1>1. Is(Switch("dhcp_enabled", 106))
  OBVIOUS
<1>2. Is(Switch("ntp_enabled", 131))
  OBVIOUS
<1>3. Is(HostName)
  OBVIOUS
<1>4. Is(Text("ip_address", 100))
  OBVIOUS
<1>5. Is(Text("netmask", 102))
  OBVIOUS
<1>6. Is(Text("default_gateway", 104))
  OBVIOUS
<1>7. Is(Text("dns_server_1", 107))
  OBVIOUS
<1>8. Is(Text("dns_server_2", 111))
  OBVIOUS
<1>9. Is(Text("ntp_server_1", 109))
  OBVIOUS
<1>10. Is(Text("ntp_server_2", 113))
  OBVIOUS
<1>11. Is(Select("modbus_port", 2, ModbusPort))
  OBVIOUS
<1>12. Is(Select("baudrate", 0, Baudrate))
  OBVIOUS
<1>13. Is(Select("parity", 1, Parity))
  OBVIOUS
<1>14. Is(Number("timeout_ms", 3, 0, 60000))
  OBVIOUS
<1> HIDE DEF Is, GatewayAt, Addresses, WidthOf, WidthAt, HostNameWords
<1>15. Is(s)
  BY <1>1, <1>2, <1>3, <1>4, <1>5, <1>6, <1>7, <1>8, <1>9, <1>10, <1>11, <1>12, <1>13, <1>14
     DEF GatewaySettings
<1> QED BY <1>15 DEF Is

\* No two settings share a register.
LEMMA SettingsApart ==
  /\ \A s, t \in WritableSettings : s.address = t.address => s = t
  /\ \A s, t \in GatewaySettings :
        s # t => (s.address .. s.address + WidthOf(s) - 1) \cap (t.address .. t.address + WidthOf(t) - 1) = {}
  /\ WritableSettings \cap GatewaySettings = {}
<1>1. \A s, t \in WritableSettings : s.address = t.address => s = t
  BY WritableIs
<1>2. ASSUME NEW s \in GatewaySettings, NEW t \in GatewaySettings, s # t
      PROVE  (s.address .. s.address + WidthOf(s) - 1) \cap (t.address .. t.address + WidthOf(t) - 1) = {}
  <2>1. \A a, b \in Addresses : a < b => a + WidthAt(a) <= b
    BY DEF Addresses, WidthAt
  <2>2. s.address # t.address /\ s.address \in Addresses /\ t.address \in Addresses
    BY <1>2, GatewayIs
  <2>3. \A a \in Addresses : a \in Nat /\ WidthAt(a) \in Nat
    BY DEF Addresses, WidthAt
  <2>4. WidthOf(s) = WidthAt(s.address) /\ WidthOf(t) = WidthAt(t.address)
    BY GatewayIs
  <2>5. s.address + WidthOf(s) <= t.address \/ t.address + WidthOf(t) <= s.address
    BY <2>1, <2>2, <2>3, <2>4
  <2> QED BY <2>2, <2>3, <2>4, <2>5
<1>3. WritableSettings \cap GatewaySettings = {}
  <2>1. \A a \in Addresses : a < 16000
    BY DEF Addresses
  <2>2. \A a \in Addresses : ~(a > 16000)
    BY <2>1 DEF Addresses
  <2> QED BY <2>2, WritableIs, GatewayIs
<1> QED BY <1>1, <1>2, <1>3

\* What is written for a setting of the meter is what its sensor and the setting
\* make of the word read back.
LEMMA MeterRoundTrip ==
  ASSUME NEW s \in WritableSettings, NEW v, Enterable(s, v), Normalized(s, v) # NoValue
  PROVE  \E w : /\ Encoded(s, Normalized(s, v)) = <<w>>
                /\ Decoded(s, DecodeSensorValue(BackingSensor(s), <<w>>)) = Normalized(s, v)
<1> DEFINE n == Normalized(s, v)
           b == BackingSensor(s)
<1>1. /\ s.platform \in {"switch", "select", "number"}
      /\ s.platform # "select" => s.options = NoOptions
      /\ s.platform # "switch" => s.key # "wifi_support"
  BY WritableIs
<1>2. /\ b.value_type = "uint16" /\ b.count = 1
      /\ b.options = IF s.key = "wifi_support" THEN EnableState
                     ELSE IF s.platform = "switch" THEN OnOff ELSE s.options
  BY DEF BackingSensor
<1> HIDE DEF b
<1>3. ASSUME NEW w
      PROVE  DecodeSensorValue(b, <<w>>) =
               IF b.options = NoOptions THEN [num |-> w]
               ELSE IF w \in DOMAIN b.options THEN [label |-> b.options[w]]
               ELSE [label |-> ToString(w)]
  BY <1>2 DEF DecodeSensorValue, Raw
<1>4. CASE s.platform = "switch"
  <2>0. n = [on |-> v] /\ v \in BOOLEAN
    BY <1>4 DEF Normalized, Enterable
  <2>1. /\ b.options # NoOptions /\ DOMAIN b.options = {0, 1}
        /\ b.options[1] \in OnWords /\ b.options[0] \notin OnWords
    <3>1. DOMAIN EnableState = {0, 1} /\ EnableState[1] = "enabled" /\ EnableState[0] = "disabled"
      BY DEF EnableState
    <3>2. DOMAIN OnOff = {0, 1} /\ OnOff[1] = "on" /\ OnOff[0] = "off"
      BY DEF OnOff
    <3>3. \A f : DOMAIN f = {0, 1} => f # NoOptions
      <4>1. DOMAIN <<>> = {}
        OBVIOUS
      <4> QED BY <4>1 DEF NoOptions
    <3>4. b.options = EnableState \/ b.options = OnOff
      BY <1>2, <1>4
    <3>5. "enabled" \in OnWords /\ "on" \in OnWords /\ "disabled" \notin OnWords /\ "off" \notin OnWords
      BY DEF OnWords
    <3> HIDE DEF EnableState, OnOff, OnWords
    <3>6. CASE b.options = EnableState
      BY <3>1, <3>3, <3>5, <3>6
    <3>7. CASE b.options = OnOff
      BY <3>2, <3>3, <3>5, <3>7
    <3> QED BY <3>4, <3>6, <3>7
  <2>2. \A x : Decoded(s, [label |-> x]) = [on |-> x \in OnWords]
    BY <1>4 DEF Decoded
  <2>3. CASE v = TRUE
    <3>1. n = [on |-> TRUE] /\ Encoded(s, n) = <<1>>
      <4>1. n = [on |-> TRUE]
        BY <2>0, <2>3
      <4>2. Encoded(s, [on |-> TRUE]) = <<1>>
        BY <1>4 DEF Encoded
      <4> QED BY <4>1, <4>2
    <3>2. DecodeSensorValue(b, <<1>>) = [label |-> b.options[1]]
      BY <1>3, <2>1
    <3>3. Decoded(s, DecodeSensorValue(b, <<1>>)) = [on |-> b.options[1] \in OnWords]
      BY <2>2, <3>2
    <3>4. (b.options[1] \in OnWords) = TRUE
      BY <2>1
    <3>5. Decoded(s, DecodeSensorValue(b, <<1>>)) = [on |-> TRUE]
      BY <3>3, <3>4
    <3> QED BY <3>1, <3>5 DEF b
  <2>4. CASE v = FALSE
    <3>1. n = [on |-> FALSE] /\ Encoded(s, n) = <<0>>
      <4>1. n = [on |-> FALSE]
        BY <2>0, <2>4
      <4>2. Encoded(s, [on |-> FALSE]) = <<0>>
        BY <1>4 DEF Encoded
      <4> QED BY <4>1, <4>2
    <3>2. DecodeSensorValue(b, <<0>>) = [label |-> b.options[0]]
      BY <1>3, <2>1
    <3>3. Decoded(s, DecodeSensorValue(b, <<0>>)) = [on |-> b.options[0] \in OnWords]
      BY <2>2, <3>2
    <3>4. (b.options[0] \in OnWords) = FALSE
      BY <2>1
    <3>5. Decoded(s, DecodeSensorValue(b, <<0>>)) = [on |-> FALSE]
      BY <3>3, <3>4
    <3> QED BY <3>1, <3>5 DEF b
  <2> QED BY <2>0, <2>3, <2>4
<1>5. CASE s.platform = "select"
  <2>1. v \in Range(s.options) /\ n = [option |-> v]
    BY <1>5 DEF Normalized
  <2> DEFINE w == CHOOSE w \in DOMAIN s.options : s.options[w] = v
  <2>2. w \in DOMAIN s.options /\ s.options[w] = v
    BY <2>1 DEF Range
  <2>3. Encoded(s, n) = <<w>>
    BY <1>5, <2>1 DEF Encoded
  <2> HIDE DEF w
  <2>4. s.options # NoOptions /\ b.options = s.options
    <3>1. DOMAIN <<>> = {}
      OBVIOUS
    <3> QED BY <1>1, <1>2, <1>5, <2>2, <3>1 DEF NoOptions
  <2>5. DecodeSensorValue(b, <<w>>) = [label |-> v]
    BY <1>3, <2>2, <2>4
  <2>6. Decoded(s, [label |-> v]) = [option |-> v]
    BY <1>5 DEF Decoded
  <2> QED BY <2>1, <2>3, <2>5, <2>6 DEF b
<1>6. CASE s.platform = "number"
  <2> DEFINE w == RoundTenths(v)
  <2>1. n = [number |-> w]
    BY <1>6 DEF Normalized
  <2> HIDE DEF w
  <2>2. Encoded(s, n) = <<w>>
    BY <1>6, <2>1 DEF Encoded
  <2>3. DecodeSensorValue(b, <<w>>) = [num |-> w]
    BY <1>1, <1>2, <1>3, <1>6
  <2>4. Decoded(s, [num |-> w]) = [number |-> w]
    BY <1>6 DEF Decoded
  <2> QED BY <2>1, <2>2, <2>3, <2>4 DEF b
<1> QED BY <1>1, <1>4, <1>5, <1>6

\* The zeros after the characters of a host name are dropped again.
LEMMA NonZeroIs ==
  ASSUME NEW v \in Seq(1 .. WordBase - 1), NEW N \in Nat, Len(v) <= N,
         NEW w, w = [i \in 1 .. N |-> IF i <= Len(v) THEN v[i] ELSE 0]
  PROVE  NonZero(w) = v
<1> DEFINE UpTo(k) == {j \in 1 .. k : w[j] # 0}
           n == Len(v)
<1>1. n \in Nat /\ n <= N /\ \A j \in 1 .. n : v[j] # 0
  <2>1. n \in Nat /\ \A j \in 1 .. n : v[j] \in 1 .. WordBase - 1
    BY LenProperties
  <2>2. \A x \in 1 .. WordBase - 1 : x # 0
    <3>1. WordBase \in Nat
      BY DEF WordBase
    <3> QED BY <3>1
  <2> QED BY <2>1, <2>2
<1>2. Len(w) = N
  <2>1. DOMAIN w = 1 .. N
    OBVIOUS
  <2>2. w \in Seq({w[i] : i \in 1 .. N})
    BY <2>1
  <2> QED BY <2>1, <2>2, LenProperties
<1>3. \A j \in 1 .. N : w[j] # 0 <=> j \in 1 .. n
  BY <1>1
<1>4. \A k \in 0 .. n : UpTo(k) = 1 .. k
  BY <1>1, <1>3
<1>5. UpTo(N) = 1 .. n
  BY <1>1, <1>3
<1>6. \A k \in 0 .. n : Cardinality(1 .. k) = k
  BY <1>1, FS_Interval
<1> HIDE DEF UpTo
<1>7. \A i \in 1 .. n : (CHOOSE k \in 1 .. n : Cardinality(UpTo(k)) = i) = i
  BY <1>1, <1>4, <1>6
<1>8. NonZero(w) = [i \in 1 .. n |-> w[i]]
  <2>1. NonZero(w) = [i \in 1 .. Cardinality(UpTo(N)) |->
                        w[CHOOSE k \in UpTo(N) : Cardinality(UpTo(k)) = i]]
    BY <1>2 DEF NonZero, UpTo
  <2>2. Cardinality(UpTo(N)) = n
    BY <1>1, <1>5, <1>6
  <2>3. NonZero(w) = [i \in 1 .. n |-> w[CHOOSE k \in 1 .. n : Cardinality(UpTo(k)) = i]]
    BY <1>5, <2>1, <2>2
  <2> QED BY <1>7, <2>3
<1>9. \A i \in 1 .. n : w[i] = v[i]
  BY <1>1
<1>10. v = [i \in 1 .. n |-> v[i]]
  BY LenProperties
<1> HIDE DEF n
<1> QED BY <1>8, <1>9, <1>10

\* The words a setting of the gateway is written as are as many as it has
\* registers, and read back they are the value again.
LEMMA GatewayRoundTrip ==
  ASSUME NEW s \in GatewaySettings, NEW v, Enterable(s, v), Normalized(s, v) # NoValue
  PROVE  LET e == Encoded(s, Normalized(s, v))
         IN  /\ Len(e) = WidthOf(s)
             /\ GatewayDecoded(s, [i \in 1 .. WidthOf(s) |-> e[i]]) = Normalized(s, v)
<1> DEFINE n == Normalized(s, v)
<1>1. s.platform \in {"switch", "select", "number", "text"} /\ (s = HostName => s.platform = "text")
  BY GatewayIs
<1>2. ASSUME s.platform # "text"
      PROVE  WidthOf(s) = 1
  BY <1>1, <1>2 DEF WidthOf
<1>3. CASE s.platform = "switch"
  <2>0. n = [on |-> v] /\ v \in BOOLEAN
    BY <1>3 DEF Normalized, Enterable
  <2>1. CASE v = TRUE
    <3>1. n = [on |-> TRUE]
      BY <2>0, <2>1
    <3>2. Encoded(s, [on |-> TRUE]) = <<1>>
      BY <1>3 DEF Encoded
    <3>3. GatewayDecoded(s, [i \in 1 .. 1 |-> <<1>>[i]]) = [on |-> TRUE]
      <4> DEFINE w == [i \in 1 .. 1 |-> <<1>>[i]]
      <4>1. (w[1] # 0) = TRUE
        OBVIOUS
      <4> HIDE DEF w
      <4>2. GatewayDecoded(s, w) = [on |-> w[1] # 0]
        BY <1>3 DEF GatewayDecoded
      <4> QED BY <4>1, <4>2 DEF w
    <3> QED BY <1>2, <1>3, <3>1, <3>2, <3>3
  <2>2. CASE v = FALSE
    <3>1. n = [on |-> FALSE]
      BY <2>0, <2>2
    <3>2. Encoded(s, [on |-> FALSE]) = <<0>>
      BY <1>3 DEF Encoded
    <3>3. GatewayDecoded(s, [i \in 1 .. 1 |-> <<0>>[i]]) = [on |-> FALSE]
      <4> DEFINE w == [i \in 1 .. 1 |-> <<0>>[i]]
      <4>1. (w[1] # 0) = FALSE
        OBVIOUS
      <4> HIDE DEF w
      <4>2. GatewayDecoded(s, w) = [on |-> w[1] # 0]
        BY <1>3 DEF GatewayDecoded
      <4> QED BY <4>1, <4>2 DEF w
    <3> QED BY <1>2, <1>3, <3>1, <3>2, <3>3
  <2> QED BY <2>0, <2>1, <2>2
<1>4. CASE s.platform = "select"
  <2>1. v \in Range(s.options) /\ n = [option |-> v]
    BY <1>4 DEF Normalized
  <2> DEFINE x == CHOOSE x \in DOMAIN s.options : s.options[x] = v
             w == [i \in 1 .. 1 |-> <<x>>[i]]
  <2>2. x \in DOMAIN s.options /\ s.options[x] = v
    BY <2>1 DEF Range
  <2>3. Encoded(s, n) = <<x>>
    BY <1>4, <2>1 DEF Encoded
  <2> HIDE DEF x
  <2>4. w[1] = x
    OBVIOUS
  <2> HIDE DEF w
  <2>5. GatewayDecoded(s, w) = [option |-> v]
    BY <1>4, <2>2, <2>4 DEF GatewayDecoded
  <2> QED BY <1>2, <1>4, <2>1, <2>3, <2>5 DEF w
<1>5. CASE s.platform = "number"
  <2> DEFINE x == RoundTenths(v)
             w == [i \in 1 .. 1 |-> <<x>>[i]]
  <2>1. n = [number |-> x]
    BY <1>5 DEF Normalized
  <2> HIDE DEF x
  <2>2. Encoded(s, n) = <<x>>
    BY <1>5, <2>1 DEF Encoded
  <2>3. w[1] = x
    OBVIOUS
  <2> HIDE DEF w
  <2>4. GatewayDecoded(s, w) = [number |-> x]
    BY <1>5, <2>3 DEF GatewayDecoded
  <2> QED BY <1>2, <1>5, <2>1, <2>2, <2>4 DEF w
<1>6. CASE s.platform = "text" /\ s # HostName
  <2>1. n = [words |-> v] /\ v \in [1 .. 2 -> 0 .. WordBase - 1] /\ WidthOf(s) = 2
    BY <1>6 DEF Normalized, Enterable, WidthOf
  <2>2. Encoded(s, n) = v
    BY <1>6, <2>1 DEF Encoded
  <2>3. Len(v) = 2 /\ [i \in 1 .. 2 |-> v[i]] = v
    BY <2>1
  <2>4. GatewayDecoded(s, v) = [words |-> v]
    BY <1>6 DEF GatewayDecoded
  <2> QED BY <2>1, <2>2, <2>3, <2>4
<1>7. CASE s.platform = "text" /\ s = HostName
  <2>1. /\ n = [words |-> v] /\ v \in Seq(1 .. WordBase - 1) /\ Len(v) <= HostNameWords
        /\ WidthOf(s) = HostNameWords
    <3>1. v \in Seq(1 .. WordBase - 1) /\ WidthOf(s) = HostNameWords
      BY <1>7 DEF Enterable, WidthOf
    <3>2. Normalized(s, v) = IF v = <<>> \/ Len(v) > HostNameWords THEN NoValue ELSE [words |-> v]
      BY <1>7 DEF Normalized
    <3> QED BY <3>1, <3>2, LenProperties DEF HostNameWords
  <2> DEFINE w == [i \in 1 .. HostNameWords |-> IF i <= Len(v) THEN v[i] ELSE 0]
  <2>2. Encoded(s, n) = w
    BY <1>7, <2>1 DEF Encoded
  <2>3. NonZero(w) = v
    BY <2>1, NonZeroIs DEF HostNameWords
  <2>4. Len(w) = HostNameWords /\ [i \in 1 .. HostNameWords |-> w[i]] = w
    BY DEF HostNameWords
  <2> HIDE DEF w
  <2>5. GatewayDecoded(s, w) = [words |-> NonZero(w)]
    BY <1>7 DEF GatewayDecoded
  <2> QED BY <2>1, <2>2, <2>3, <2>4, <2>5
<1> QED BY <1>1, <1>3, <1>4, <1>5, <1>6, <1>7

-----------------------------------------------------------------------------
(* The buttons *)

\* The plan of a call that writes one setting, and what was entered for it.
OneSetting(plan) ==
  \E s \in Settings \cup Managed : \E v :
    /\ Enterable(s, v) /\ Normalized(s, v) # NoValue
    /\ plan = <<[set |-> s, to |-> Normalized(s, v)]>>

\* What a call may have left to write.
Left(o) ==
  \/ o.goal = "setting" /\ OneSetting(o.todo)
  \/ o.goal = "revert" /\ o.todo = <<[act |-> "revert"]>>
  \/ o.goal = "apply" /\ o.todo = <<[act |-> "apply"]>>
  \/ /\ o.goal = "apply_and_store"
     /\ o.todo = <<[act |-> "store"], [act |-> "apply"]>>
  \/ /\ o.goal = "apply_and_store" /\ o.todo = <<[act |-> "apply"]>>
     /\ o.quiet => stored = staged

\* What a call that succeeded has brought about.
InForce(o) ==
  /\ o.goal = "revert" => staged = stored
  /\ o.goal = "apply" => active = staged
  /\ o.goal = "apply_and_store" => active = staged /\ stored = staged

Sound(o) ==
  /\ o.todo # <<>> => o.result = "none" /\ Left(o)
  /\ o.result = "ok" /\ o.quiet => InForce(o)

Record(o) ==
  o = [todo |-> o.todo, goal |-> o.goal, result |-> o.result, quiet |-> o.quiet]

PressInv ==
  /\ op = [u \in Users |-> op[u]]
  /\ \A u \in Users : Record(op[u]) /\ Sound(op[u])

LEMMA PressInit == RouteInit => PressInv
  BY DEF RouteInit, PressInv, Free, Record, Sound

\* A call whose record and whose registers of the gateway stay.
LEMMA Kept ==
  ASSUME NEW v, op'[v] = op[v], UNCHANGED <<staged, active, stored>>,
         Record(op[v]), Sound(op[v])
  PROVE  (Record(op[v]) /\ Sound(op[v]))'
<1>1. Record(op[v])'
  BY DEF Record
<1>2. Left(op[v]) => Left(op[v])'
  BY DEF Left
<1>3. InForce(op[v]) => InForce(op[v])'
  BY DEF InForce
<1>4. (op[v].todo # <<>>)' => op'[v].result = "none" /\ Left(op[v])'
  BY <1>2 DEF Sound
<1>5. op'[v].result = "ok" /\ op'[v].quiet => InForce(op[v])'
  BY <1>3 DEF Sound
<1> QED BY <1>1, <1>4, <1>5 DEF Sound

\* A call that another's write to the gateway has disturbed.
LEMMA Disturbs ==
  ASSUME NEW v, op'[v] = [op[v] EXCEPT !.quiet = FALSE], Record(op[v]), Sound(op[v])
  PROVE  (Record(op[v]) /\ Sound(op[v]))'
<1>1. op'[v] = [todo |-> op[v].todo, goal |-> op[v].goal,
                result |-> op[v].result, quiet |-> FALSE]
  BY DEF Record
<1>2. /\ op'[v].todo = op[v].todo /\ op'[v].goal = op[v].goal
      /\ op'[v].result = op[v].result /\ op'[v].quiet = FALSE
  BY <1>1
<1>3. Record(op[v])'
  BY <1>1, <1>2 DEF Record
<1>4. Left(op[v]) => Left(op[v])'
  BY <1>2 DEF Left
<1> QED BY <1>2, <1>3, <1>4 DEF Sound

\* A new call, whatever was called.
LEMMA NewCall ==
  ASSUME PressInv, NEW u \in Users, NEW goal, NEW plan, plan # <<>>,
         Call(u, goal, plan),
         Left([todo |-> plan, goal |-> goal, result |-> "none", quiet |-> TRUE])
  PROVE  PressInv'
<1> DEFINE o == [todo |-> plan, goal |-> goal, result |-> "none", quiet |-> TRUE]
<1>1. op' = [op EXCEPT ![u] = o] /\ UNCHANGED device
  BY DEF Call
<1>2. op' = [v \in Users |-> IF v = u THEN o ELSE op[v]]
  BY <1>1 DEF PressInv
<1>3. op'[u] = o /\ \A v \in Users \ {u} : op'[v] = op[v]
  BY <1>2
<1>4. UNCHANGED <<staged, active, stored>>
  BY <1>1 DEF device
<1>5. Record(o) /\ o.result = "none" /\ o.todo = plan
  BY DEF Record
<1>6. (Record(op[u]) /\ Sound(op[u]))'
  <2>1. Record(op'[u])
    BY <1>3, <1>5
  <2>2. (op'[u].todo # <<>> => op'[u].result = "none") /\ op'[u].result # "ok"
    BY <1>3, <1>5
  <2>3. Left(op[u])'
    BY <1>3, <1>4 DEF Left
  <2> QED BY <2>1, <2>2, <2>3 DEF Record, Sound
<1>7. ASSUME NEW v \in Users, v # u
      PROVE  (Record(op[v]) /\ Sound(op[v]))'
  BY <1>3, <1>4, <1>7, Kept DEF PressInv
<1> QED BY <1>2, <1>6, <1>7 DEF PressInv

\* A call that ends in failure.
LEMMA Fails ==
  ASSUME NEW v, op'[v] = Finished(op[v], "failed"), Record(op[v])
  PROVE  (Record(op[v]) /\ Sound(op[v]))'
<1>1. op'[v] = [todo |-> <<>>, goal |-> op[v].goal, result |-> "failed",
                quiet |-> op[v].quiet]
  BY DEF Finished, Record
<1> QED BY <1>1 DEF Record, Sound

\* What one user's write does to the calls of all: the writer's is given, and the
\* others stay where the gateway's configuration does.
LEMMA Writes ==
  ASSUME PressInv, NEW u \in Users, NEW w, NEW o,
         Reaches(w), op' = [Disturbed(u, w) EXCEPT ![u] = o],
         "set" \in DOMAIN w => w.set \in Settings \cup Managed,
         "act" \in DOMAIN w \/ "set" \in DOMAIN w,
         (Record(op[u]) /\ Sound(op[u]))'
  PROVE  PressInv'
<1>1. op' = [v \in Users |-> IF v = u THEN o
                ELSE IF "act" \in DOMAIN w \/ w.set \in Managed
                     THEN [op[v] EXCEPT !.quiet = FALSE] ELSE op[v]]
  BY DEF Disturbed
<1>2. ASSUME NEW v \in Users, v # u
      PROVE  (Record(op[v]) /\ Sound(op[v]))'
  <2>1. CASE "act" \in DOMAIN w \/ w.set \in Managed
    BY <1>1, <1>2, <2>1, Disturbs DEF PressInv
  <2>2. CASE ~("act" \in DOMAIN w \/ w.set \in Managed)
    <3>1. UNCHANGED <<staged, active, stored>>
      BY <2>2 DEF Reaches
    <3>2. op'[v] = op[v]
      BY <1>1, <1>2, <2>2
    <3> QED BY <1>2, <3>1, <3>2, Kept DEF PressInv
  <2> QED BY <2>1, <2>2
<1> QED BY <1>1, <1>2 DEF PressInv

\* The next write of a plan, the rest of it, and what the write is.
LEMMA NextWrite ==
  ASSUME NEW o, Left(o)
  PROVE  LET w == Head(o.todo)
         IN  /\ "set" \in DOMAIN w => w.set \in Settings \cup Managed
             /\ "act" \in DOMAIN w \/ "set" \in DOMAIN w
             /\ \/ o.goal = "setting" /\ Len(o.todo) = 1 /\ "set" \in DOMAIN w
                \/ /\ o.goal = "revert" /\ Len(o.todo) = 1
                   /\ w = [act |-> "revert"]
                \/ /\ o.goal = "apply" /\ Len(o.todo) = 1
                   /\ w = [act |-> "apply"]
                \/ /\ o.goal = "apply_and_store" /\ Len(o.todo) = 2
                   /\ w = [act |-> "store"] /\ Tail(o.todo) = <<[act |-> "apply"]>>
                \/ /\ o.goal = "apply_and_store" /\ Len(o.todo) = 1
                   /\ w = [act |-> "apply"]
                   /\ o.quiet => stored = staged
<1>1. CASE o.goal = "setting" /\ OneSetting(o.todo)
  BY <1>1 DEF OneSetting
<1>2. CASE o.goal = "revert" /\ o.todo = <<[act |-> "revert"]>>
  BY <1>2
<1>3. CASE o.goal = "apply" /\ o.todo = <<[act |-> "apply"]>>
  BY <1>3
<1>4. CASE /\ o.goal = "apply_and_store"
           /\ o.todo = <<[act |-> "store"], [act |-> "apply"]>>
  BY <1>4
<1>5. CASE /\ o.goal = "apply_and_store" /\ o.todo = <<[act |-> "apply"]>>
           /\ o.quiet => stored = staged
  BY <1>5
<1> QED BY <1>1, <1>2, <1>3, <1>4, <1>5 DEF Left

LEMMA HoldsStep ==
  ASSUME PressInv, NEW u \in Users, WriteHolds(u)
  PROVE  PressInv'
<1> DEFINE w == Head(op[u].todo)
<1>1. Record(op[u]) /\ op[u].result = "none" /\ Left(op[u])
  BY DEF PressInv, WriteHolds, Sound
<1>2. Reaches(w) /\ op' = [Disturbed(u, w) EXCEPT ![u] = Proceeds(op[u])]
  BY DEF WriteHolds
<1>3. op'[u] = Proceeds(op[u])
  BY <1>2 DEF Disturbed
<1>4. CASE Len(op[u].todo) = 1
  <2>1. op'[u] = [todo |-> <<>>, goal |-> op[u].goal, result |-> "ok",
                  quiet |-> op[u].quiet]
    BY <1>1, <1>3, <1>4 DEF Proceeds, Finished, Record
  <2>2. op[u].quiet => InForce(op[u])'
    <3>1. op'[u].goal = op[u].goal
      BY <2>1
    <3>2. CASE op[u].goal = "setting"
      BY <3>1, <3>2 DEF InForce
    <3>3. CASE op[u].goal = "revert" /\ w = [act |-> "revert"]
      <4>1. staged' = stored /\ stored' = stored
        BY <1>2, <3>3 DEF Reaches
      <4> QED BY <3>1, <3>3, <4>1 DEF InForce
    <3>4. CASE op[u].goal = "apply" /\ w = [act |-> "apply"]
      <4>1. active' = staged /\ staged' = staged
        BY <1>2, <3>4 DEF Reaches
      <4> QED BY <3>1, <3>4, <4>1 DEF InForce
    <3>5. CASE /\ op[u].goal = "apply_and_store" /\ w = [act |-> "apply"]
               /\ op[u].quiet => stored = staged
      <4>1. active' = staged /\ staged' = staged /\ stored' = stored
        BY <1>2, <3>5 DEF Reaches
      <4> QED BY <3>1, <3>5, <4>1 DEF InForce
    <3>6. \/ op[u].goal = "setting"
          \/ op[u].goal = "revert" /\ w = [act |-> "revert"]
          \/ op[u].goal = "apply" /\ w = [act |-> "apply"]
          \/ /\ op[u].goal = "apply_and_store" /\ w = [act |-> "apply"]
             /\ (op[u].quiet => stored = staged)
      <4>1. Left(op[u])
        BY <1>1
      <4> QED BY <1>4, <4>1, NextWrite
    <3> QED BY <3>2, <3>3, <3>4, <3>5, <3>6
  <2>3. (Record(op[u]) /\ Sound(op[u]))'
    BY <2>1, <2>2 DEF Record, Sound
  <2> QED BY <1>1, <1>2, <2>3, NextWrite, Writes
<1>5. CASE /\ op[u].goal = "apply_and_store" /\ Len(op[u].todo) = 2
           /\ w = [act |-> "store"] /\ Tail(op[u].todo) = <<[act |-> "apply"]>>
  <2>1. op'[u] = [todo |-> <<[act |-> "apply"]>>, goal |-> op[u].goal,
                  result |-> "none", quiet |-> op[u].quiet]
    <3>1. Proceeds(op[u]) = [op[u] EXCEPT !.todo = Tail(op[u].todo)]
      BY <1>5 DEF Proceeds
    <3>2. op'[u] = [op[u] EXCEPT !.todo = <<[act |-> "apply"]>>]
      BY <1>3, <1>5, <3>1
    <3> QED BY <1>1, <3>2 DEF Record
  <2>2. stored' = staged /\ staged' = staged
    BY <1>2, <1>5 DEF Reaches
  <2>3. Left(op[u])'
    BY <1>5, <2>1, <2>2 DEF Left
  <2>4. (Record(op[u]) /\ Sound(op[u]))'
    BY <2>1, <2>3 DEF Record, Sound
  <2> QED BY <1>1, <1>2, <2>4, NextWrite, Writes
<1> QED BY <1>1, <1>4, <1>5, NextWrite

LEMMA UnconfirmedStep ==
  ASSUME PressInv, NEW u \in Users, WriteUnconfirmed(u)
  PROVE  PressInv'
<1> DEFINE w == Head(op[u].todo)
<1>1. Record(op[u]) /\ Left(op[u])
  BY DEF PressInv, WriteUnconfirmed, Sound
<1>2. Reaches(w)
  BY DEF WriteUnconfirmed
<1>3. op' = [Disturbed(u, w) EXCEPT ![u] = Finished(op[u], "failed")]
  BY DEF WriteUnconfirmed, Disturbed
<1>4. op'[u] = Finished(op[u], "failed")
  BY <1>3 DEF Disturbed
<1>5. (Record(op[u]) /\ Sound(op[u]))'
  BY <1>1, <1>4, Fails
<1> QED BY <1>1, <1>2, <1>3, <1>5, NextWrite, Writes

LEMMA LostStep ==
  ASSUME PressInv, NEW u \in Users, WriteLost(u)
  PROVE  PressInv'
<1>1. op' = [op EXCEPT ![u] = Finished(op[u], "failed")]
  BY DEF WriteLost, PressInv
<1>2. op' = [v \in Users |-> IF v = u THEN Finished(op[u], "failed") ELSE op[v]]
  BY <1>1 DEF PressInv
<1>3. UNCHANGED <<staged, active, stored>>
  BY DEF WriteLost, device
<1>4. (Record(op[u]) /\ Sound(op[u]))'
  BY <1>2, Fails DEF PressInv
<1>5. ASSUME NEW v \in Users, v # u
      PROVE  (Record(op[v]) /\ Sound(op[v]))'
  BY <1>2, <1>3, <1>5, Kept DEF PressInv
<1> QED BY <1>2, <1>4, <1>5 DEF PressInv

\* Whatever is written is a setting of the meter or of the gateway.
LEMMA SettingStep ==
  ASSUME PressInv, NEW u \in Users, NEW s \in Settings \cup Managed, NEW x,
         Enterable(s, x), WriteSetting(u, s, x)
  PROVE  PressInv'
<1> DEFINE plan == <<[set |-> s, to |-> Normalized(s, x)]>>
<1>1. Call(u, "setting", plan) /\ plan # <<>>
  BY DEF WriteSetting
<1>2. OneSetting(plan)
  BY DEF OneSetting, WriteSetting
<1>3. Left([todo |-> plan, goal |-> "setting", result |-> "none", quiet |-> TRUE])
  BY <1>2 DEF Left
<1> QED BY <1>1, <1>3, NewCall

LEMMA PressStep ==
  ASSUME PressInv, NEW u \in Users, NEW a \in Actions, PressButton(u, a)
  PROVE  PressInv'
<1> DEFINE plan == ActionWrites(a)
<1>1. Call(u, a, plan)
  BY DEF PressButton
<1>2. \/ a = "revert" /\ plan = <<[act |-> "revert"]>>
      \/ a = "apply" /\ plan = <<[act |-> "apply"]>>
      \/ a = "apply_and_store" /\ plan = <<[act |-> "store"], [act |-> "apply"]>>
  BY DEF Actions, ActionWrites
<1>3. Left([todo |-> plan, goal |-> a, result |-> "none", quiet |-> TRUE]) /\ plan # <<>>
  BY <1>2 DEF Left
<1> QED BY <1>1, <1>3, NewCall

\* Every other step leaves the calls and the gateway alone.
LEMMA Elsewhere ==
  ASSUME PressInv, UNCHANGED <<op, staged, active, stored>>
  PROVE  PressInv'
<1>1. ASSUME NEW v \in Users
      PROVE  (Record(op[v]) /\ Sound(op[v]))'
  BY <1>1, Kept DEF PressInv
<1> QED BY <1>1 DEF PressInv

LEMMA PressNext ==
  ASSUME PressInv, [RouteNext]_vars
  PROVE  PressInv'
<1>1. CASE Tick \/ \E s \in Sensors : Toggle(s)
  BY <1>1, Elsewhere DEF Tick, Toggle, device
<1>2. CASE StartPoll \/ \E ok \in BOOLEAN : ReadConfiguration(ok)
  BY <1>2, Elsewhere DEF StartPoll, ReadConfiguration, device
<1>3. CASE ReadBlock \/ SkipBlock \/ PollBreaks
  BY <1>3, Elsewhere DEF ReadBlock, SkipBlock, AfterBlock, PollBreaks, device
<1>4. ASSUME NEW u \in Users, NEW in \in MeterInputs \cup GatewayInputs,
             WriteSetting(u, in[1], in[2])
      PROVE  PressInv'
  BY <1>4, InputsAssumption, SettingStep
<1>5. ASSUME NEW u \in Users, \E a \in Actions : PressButton(u, a)
      PROVE  PressInv'
  BY <1>5, PressStep
<1>6. ASSUME NEW u \in Users, WriteHolds(u) \/ WriteUnconfirmed(u) \/ WriteLost(u)
      PROVE  PressInv'
  BY <1>6, HoldsStep, UnconfirmedStep, LostStep
<1>7. CASE UNCHANGED vars
  BY <1>7, Elsewhere DEF vars, device
<1> QED BY <1>1, <1>2, <1>3, <1>4, <1>5, <1>6, <1>7 DEF RouteNext

(* After a press that succeeded, and until another entity writes the gateway, the
   whole action is in force (commands.py, gateway_settings.py): for any settings,
   users, faults and number of calls, never applied without stored or the
   reverse. *)
THEOREM ActionsAreWhole == RouteSpec => []ActionTakesAll
<1>1. RouteInit => PressInv
  BY PressInit
<1>2. PressInv /\ [RouteNext]_vars => PressInv'
  BY PressNext
<1>3. PressInv => ActionTakesAll
  BY DEF PressInv, Sound, InForce, ActionTakesAll
<1> QED BY <1>1, <1>2, <1>3, PTL DEF RouteSpec

-----------------------------------------------------------------------------
(* The polls *)

\* A poll that has blocks to read
Reading ==
  /\ todo \in Seq(BlockSet(polled)) /\ todo # <<>>
  /\ \A i \in 1 .. Len(todo) : IsBlock(todo[i], polled)
  /\ \A s \in polled : ValueIn(meter, s) \in seen[s]
  /\ readings = <<>> /\ ~failed => CoversExactly(todo, polled)
  /\ ~failed => \A s \in polled : \/ s.key \in DOMAIN readings
                                  \/ \E i \in 1 .. Len(todo) : s \in Range(todo[i].sensors)

\* A poll that has read its last block, or none yet
Done ==
  /\ failed \/ \A s \in polled : s.key \in DOMAIN readings
  /\ readings # <<>> /\ data.complete => ~failed

PollInv ==
  /\ failed \in BOOLEAN
  /\ enabled \subseteq Sensors /\ polled \subseteq Profile /\ DOMAIN seen = polled
  /\ \A s \in polled : s.key \in DOMAIN readings => readings[s.key] \in seen[s]
  /\ polling = "blocks" => Reading
  /\ polling # "blocks" /\ todo = <<>> => Done
  /\ data # NoValue => data.readings # <<>>

LEMMA PollInit == RouteInit => PollInv
<1> SUFFICES ASSUME RouteInit
             PROVE  PollInv
  OBVIOUS
<1>1. /\ polling = "idle" /\ polled = {} /\ todo = <<>> /\ readings = <<>> /\ failed = FALSE
      /\ seen = <<>> /\ enabled = Sensors /\ data = NoValue
  BY DEF RouteInit
<1>2. Done
  BY <1>1 DEF Done
<1>3. DOMAIN seen = polled /\ polled \subseteq Profile /\ failed \in BOOLEAN
  <2>1. DOMAIN <<>> = {}
    OBVIOUS
  <2>2. DOMAIN seen = {}
    BY <1>1, <2>1
  <2>3. failed \in BOOLEAN
    BY <1>1
  <2> QED BY <1>1, <2>2, <2>3
<1>4. \A s \in polled : s.key \in DOMAIN readings => readings[s.key] \in seen[s]
  BY <1>1
<1> QED BY <1>1, <1>2, <1>3, <1>4 DEF PollInv

LEMMA SliceIs ==
  ASSUME NEW S, AreSensors(S), NEW b, IsBlock(b, S), NEW s \in Range(b.sensors), NEW memory
  PROVE  Slice(b, s, [i \in 1 .. b.count |-> memory[b.address + i - 1]])
           = [i \in 1 .. s.count |-> memory[s.address + i - 1]]
<1> DEFINE words == [i \in 1 .. b.count |-> memory[b.address + i - 1]]
           o == s.address - b.address
           T == {words[i] : i \in 1 .. b.count}
           t == SubSeq(words, o + 1, o + s.count)
<1>1. s \in S
  BY RangeOfSeq DEF IsBlock
<1>2. /\ s.address \in Nat /\ s.count \in Nat /\ s.count > 0 /\ b.address \in Nat /\ b.count \in Nat
      /\ b.address <= s.address /\ s.address + s.count <= b.address + b.count
  BY <1>1, LimitAssumption DEF IsBlock, AreSensors, End
<1>3. o \in Nat /\ \A i \in o + 1 .. o + s.count : i \in 1 .. b.count
  BY <1>2
<1>4. \A i \in 1 .. s.count : o + i \in 1 .. b.count /\ words[o + i] = memory[s.address + i - 1]
  BY <1>2, <1>3, SMTT(30)
<1>5. \A i \in o + 1 .. o + s.count : words[i] \in T
  BY <1>3
<1> HIDE DEF words, T, o
<1>6. /\ t \in Seq(T) /\ Len(t) = s.count
      /\ \A i \in 1 .. s.count : t[i] = words[o + i]
  <2>1. /\ t \in Seq(T)
        /\ Len(t) = IF o + 1 <= o + s.count THEN o + s.count - (o + 1) + 1 ELSE 0
        /\ \A i \in 1 .. o + s.count - (o + 1) + 1 : t[i] = words[o + 1 + i - 1]
    BY <1>2, <1>3, <1>5, SubSeqProperties
  <2>2. o + s.count - (o + 1) + 1 = s.count /\ o + 1 <= o + s.count
    BY <1>2, <1>3
  <2>3. \A i \in 1 .. s.count : o + 1 + i - 1 = o + i
    BY <1>2, <1>3
  <2> QED BY <2>1, <2>2, <2>3
<1> HIDE DEF t
<1>7. t = [i \in 1 .. s.count |-> memory[s.address + i - 1]]
  <2>1. DOMAIN t = 1 .. s.count /\ t = [i \in DOMAIN t |-> t[i]]
    BY <1>6, LenProperties
  <2> QED BY <1>4, <1>6, <2>1
<1>8. Slice(b, s, words) = t
  BY DEF Slice, t, o
<1> QED BY <1>7, <1>8 DEF words

LEMMA SensorsAre == AreSensors(Profile)
  BY ProfileAssumption DEF AreSensors

LEMMA SubsetSensors ==
  ASSUME NEW S, S \subseteq Profile
  PROVE  AreSensors(S)
  BY SensorsAre DEF AreSensors

\* What AfterBlock leaves of a poll that goes on, and of one that ends
LEMMA AfterBlockKeeps ==
  ASSUME PollInv, polling = "blocks", NEW rs, NEW bad,
         AfterBlock(rs, bad), UNCHANGED device,
         \A s \in polled : s.key \in DOMAIN rs => rs[s.key] \in seen[s],
         bad \in BOOLEAN, bad \/ rs # <<>>,
         ~bad => ~failed /\ \A s \in polled :
                   s.key \in DOMAIN readings \/ s \in Range(todo[1].sensors) => s.key \in DOMAIN rs
  PROVE  PollInv'
<1> DEFINE t == Tail(todo)
           n == Len(todo)
<1>1. /\ todo' = t /\ readings' = rs /\ failed' = bad
      /\ UNCHANGED <<enabled, polled, seen, meter>>
  BY DEF AfterBlock, device
<1>2. Reading
  BY DEF PollInv
<1>3. /\ n \in Nat /\ n > 0 /\ t \in Seq(BlockSet(polled)) /\ Len(t) = n - 1
      /\ \A i \in 1 .. Len(t) : t[i] = todo[i + 1]
  BY <1>2, EmptySeq, LenProperties, HeadTailProperties DEF Reading
<1> HIDE DEF t, n
<1>4. \A i \in 1 .. n : i = 1 \/ (i - 1 \in 1 .. n - 1 /\ (i - 1) + 1 = i)
  BY <1>3
<1>5. \A s \in polled' : s.key \in DOMAIN readings' => readings'[s.key] \in seen'[s]
  BY <1>1
<1>6. ASSUME ~bad, NEW s \in polled
      PROVE  s.key \in DOMAIN rs \/ \E i \in 1 .. n - 1 : s \in Range(t[i].sensors)
  <2>1. CASE s.key \in DOMAIN readings
    BY <1>6, <2>1
  <2>2. CASE s.key \notin DOMAIN readings
    <3>1. PICK i \in 1 .. n : s \in Range(todo[i].sensors)
      BY <1>2, <1>6, <2>2 DEF Reading, n
    <3> QED BY <1>3, <1>4, <1>6, <3>1
  <2> QED BY <2>1, <2>2
<1>7. CASE n > 1
  <2>1. polling' = "blocks" /\ data' = data
    BY <1>1, <1>7 DEF AfterBlock, n
  <2>2. t # <<>> /\ \A i \in 1 .. Len(t) : IsBlock(t[i], polled)
    <3>1. \A i \in 1 .. n - 1 : i + 1 \in 1 .. n
      BY <1>3
    <3>2. t # <<>>
      BY <1>3, <1>7, EmptySeq
    <3> QED BY <1>2, <1>3, <3>1, <3>2 DEF Reading, n
  <2>3. \A s \in polled' : ValueIn(meter', s) \in seen'[s]
    BY <1>1, <1>2 DEF Reading
  <2>4. readings' = <<>> /\ ~failed' => CoversExactly(todo', polled')
    BY <1>1
  <2>5. ~failed' => \A s \in polled' : \/ s.key \in DOMAIN readings'
                                       \/ \E i \in 1 .. Len(todo') : s \in Range(todo'[i].sensors)
    BY <1>1, <1>3, <1>6
  <2>6. Reading'
    BY <1>1, <1>3, <2>2, <2>3, <2>4, <2>5 DEF Reading, ValueIn
  <2> QED BY <1>1, <1>5, <2>1, <2>6 DEF PollInv
<1>8. CASE n = 1
  <2>1. /\ polling' = "idle"
        /\ IF rs = <<>> THEN data' = data
           ELSE data' = [readings |-> rs, complete |-> ~bad, settings |-> SettingStates(Settings, rs)]
    BY <1>1, <1>8 DEF AfterBlock, n
  <2>2. data' # NoValue => data'.readings # <<>>
    BY <2>1 DEF PollInv
  <2>3. readings' # <<>> /\ data'.complete => ~failed'
    <3> SUFFICES ASSUME rs # <<>>, bad
                 PROVE  ~data'.complete
      BY <1>1
    <3>1. data' = [readings |-> rs, complete |-> FALSE, settings |-> SettingStates(Settings, rs)]
      BY <2>1
    <3> QED BY <3>1
  <2>4. failed' \/ \A s \in polled' : s.key \in DOMAIN readings'
    BY <1>1, <1>3, <1>6, <1>8
  <2> QED BY <1>1, <1>5, <2>1, <2>2, <2>3, <2>4 DEF PollInv, Done
<1> QED BY <1>3, <1>7, <1>8

LEMMA ReadBlockKeeps ==
  ASSUME PollInv, ReadBlock
  PROVE  PollInv'
<1> DEFINE b == Head(todo)
           words == [i \in 1 .. b.count |-> meter[b.address + i - 1]]
           keys == {s.key : s \in Range(b.sensors)}
           Of(k) == CHOOSE s \in Range(b.sensors) : s.key = k
           rs == [k \in DOMAIN readings \cup keys |->
                    IF k \in keys THEN DecodeSensorValue(Of(k), Slice(b, Of(k), words))
                    ELSE readings[k]]
<1>1. AfterBlock(rs, failed) /\ polling = "blocks"
  BY DEF ReadBlock
<1>2. UNCHANGED device
  BY <1>1 DEF AfterBlock
<1>3. Reading /\ AreSensors(polled) /\ polled \subseteq Profile
  BY <1>1, SubsetSensors DEF PollInv, ReadBlock
<1>4. b = todo[1] /\ IsBlock(b, polled)
  BY <1>3, EmptySeq DEF Reading
<1>5. Range(b.sensors) \subseteq polled /\ b.sensors # <<>> /\ b.sensors \in Seq(polled)
  BY <1>4, RangeOfSeq DEF IsBlock
<1>6. \A s \in polled : s.key \in keys => s \in Range(b.sensors) /\ Of(s.key) = s
  BY <1>3, <1>5, ProfileAssumption
<1> HIDE DEF b
<1>7. ASSUME NEW s \in Range(b.sensors)
      PROVE  DecodeSensorValue(s, Slice(b, s, words)) = ValueIn(meter, s)
  BY <1>3, <1>4, <1>7, SliceIs, SMTT(30) DEF ValueIn
<1> HIDE DEF words
<1>8. DOMAIN rs = DOMAIN readings \cup keys
  OBVIOUS
<1>9. ASSUME NEW s \in polled, s.key \in DOMAIN rs
      PROVE  rs[s.key] \in seen[s]
  <2>1. CASE s.key \in keys
    <3>1. rs[s.key] = DecodeSensorValue(s, Slice(b, s, words)) /\ s \in Range(b.sensors)
      BY <1>6, <1>8, <2>1
    <3> QED BY <1>3, <1>7, <3>1 DEF Reading
  <2>2. CASE s.key \notin keys
    <3>1. rs[s.key] = readings[s.key] /\ s.key \in DOMAIN readings
      BY <1>8, <1>9, <2>2
    <3> QED BY <3>1 DEF PollInv
  <2> QED BY <2>1, <2>2
<1>10. rs # <<>>
  <2>1. b.sensors[1] \in Range(b.sensors)
    BY <1>5, EmptySeq, LenProperties DEF Range
  <2>2. b.sensors[1].key \in DOMAIN rs
    BY <1>8, <2>1
  <2> HIDE DEF rs
  <2>3. DOMAIN <<>> = {}
    OBVIOUS
  <2> QED BY <2>2, <2>3
<1>11. \A s \in Range(b.sensors) : s.key \in DOMAIN rs
  BY <1>8
<1>12. \A s \in polled : s.key \in DOMAIN readings => s.key \in DOMAIN rs
  BY <1>8
<1> HIDE DEF rs, keys, Of
<1>13. \A s \in polled : s.key \in DOMAIN readings \/ s \in Range(todo[1].sensors) => s.key \in DOMAIN rs
  BY <1>4, <1>11, <1>12
<1>14. failed \in BOOLEAN
  BY DEF PollInv
<1> QED BY <1>1, <1>2, <1>9, <1>10, <1>13, <1>14, AfterBlockKeeps

LEMMA SkipBlockKeeps ==
  ASSUME PollInv, SkipBlock
  PROVE  PollInv'
<1>1. /\ polling = "blocks" /\ AfterBlock(readings, TRUE) /\ UNCHANGED device
      /\ \A s \in polled : s.key \in DOMAIN readings => readings[s.key] \in seen[s]
  BY DEF SkipBlock, AfterBlock, PollInv
<1> QED BY <1>1, AfterBlockKeeps

LEMMA ConfigurationRead ==
  ASSUME PollInv, NEW ok, ReadConfiguration(ok)
  PROVE  PollInv'
<1> DEFINE S == PollingSensors
<1>1. S \subseteq Profile /\ S # {} /\ IsFiniteSet(S)
  <2>1. S \subseteq Profile /\ S # {}
    BY ProfileAssumption DEF PollInv, PollingSensors, Profile
  <2> QED BY <2>1, ProfileAssumption, FS_Subset
<1>2. /\ polled' = S /\ todo' = BuildRegisterBlocks(S) /\ readings' = <<>> /\ failed' = FALSE
      /\ seen' = [s \in S |-> {ValueIn(meter, s)}] /\ polling' = "blocks"
      /\ meter' = meter /\ data' = data /\ enabled' = enabled
  BY DEF ReadConfiguration, device
<1> HIDE DEF S
<1>3. AreSensors(S) /\ GroupedSensors(BuildRegisterBlocks(S), S)
  BY <1>1, SubsetSensors, BlocksAre
<1>4. CoversExactly(BuildRegisterBlocks(S), S)
  BY <1>3, GroupedCovers
<1>5. BuildRegisterBlocks(S) # <<>>
  <2>1. PICK s \in S : TRUE
    BY <1>1
  <2>2. \E i \in 1 .. Len(BuildRegisterBlocks(S)) : TRUE
    BY <1>3, <2>1 DEF GroupedSensors
  <2> HIDE DEF BuildRegisterBlocks
  <2>3. Len(<<>>) = 0
    OBVIOUS
  <2> QED BY <2>2, <2>3
<1>6. Reading'
  <2>1. \A s \in S : ValueIn(meter', s) \in seen'[s]
    BY <1>2
  <2> QED BY <1>2, <1>3, <1>4, <1>5, <2>1 DEF Reading, GroupedSensors, ValueIn
<1>7. \A s \in polled' : s.key \notin DOMAIN readings'
  BY <1>2
<1> QED BY <1>1, <1>2, <1>6, <1>7 DEF PollInv

\* A step of the meter, or a write, during a poll
LEMMA MeterChanges ==
  ASSUME PollInv, UNCHANGED <<enabled, polling, polled, todo, readings, failed, data>>,
         seen' = [s \in DOMAIN seen |-> seen[s] \cup {ValueIn(meter', s)}]
  PROVE  PollInv'
<1>1. \A s \in polled' : s.key \in DOMAIN readings' => readings'[s.key] \in seen'[s]
  BY DEF PollInv
<1>2. polling' = "blocks" => Reading'
  <2> SUFFICES ASSUME polling = "blocks"
               PROVE  Reading'
    OBVIOUS
  <2>1. Reading /\ DOMAIN seen = polled
    BY DEF PollInv
  <2>2. \A s \in polled' : ValueIn(meter', s) \in seen'[s]
    BY <2>1
  <2> QED BY <2>1, <2>2 DEF Reading, ValueIn
<1>3. polling' # "blocks" /\ todo' = <<>> => Done'
  BY DEF PollInv, Done
<1> QED BY <1>1, <1>2, <1>3 DEF PollInv

LEMMA PollElsewhere ==
  ASSUME PollInv, UNCHANGED <<meter, polling, polled, todo, readings, failed, data, seen>>,
         enabled' \subseteq Sensors
  PROVE  PollInv'
<1>1. polling = "blocks" => Reading'
  BY DEF PollInv, Reading, ValueIn
<1>2. polling # "blocks" /\ todo = <<>> => Done'
  BY DEF PollInv, Done
<1> QED BY <1>1, <1>2 DEF PollInv

LEMMA PollOff ==
  ASSUME PollInv, UNCHANGED <<enabled, polled, todo, readings, failed, data, seen>>,
         polling' # "blocks", polling = "blocks" => todo # <<>>
  PROVE  PollInv'
<1>1. todo' = <<>> => Done'
  BY DEF PollInv, Done
<1> QED BY <1>1 DEF PollInv

LEMMA PollNext ==
  ASSUME PollInv, [RouteNext]_vars
  PROVE  PollInv'
<1>1. CASE Tick
  BY <1>1, MeterChanges DEF Tick
<1>2. CASE \E s \in Sensors : Toggle(s)
  BY <1>2, PollElsewhere DEF Toggle, device, pollVars, PollInv
<1>3. CASE StartPoll
  BY <1>3, PollOff DEF StartPoll
<1>4. CASE \E ok \in BOOLEAN : ReadConfiguration(ok)
  BY <1>4, ConfigurationRead
<1>5. CASE ReadBlock \/ SkipBlock
  BY <1>5, ReadBlockKeeps, SkipBlockKeeps
<1>6. CASE PollBreaks
  BY <1>6, PollOff DEF PollBreaks, PollInv, Reading
<1>7. ASSUME NEW u \in Users, NEW in, WriteSetting(u, in[1], in[2])
      PROVE  PollInv'
  BY <1>7, PollElsewhere DEF WriteSetting, Call, device, pollVars, PollInv
<1>8. ASSUME NEW u \in Users, NEW a, PressButton(u, a)
      PROVE  PollInv'
  BY <1>8, PollElsewhere DEF PressButton, Call, device, pollVars, PollInv
<1>9. ASSUME NEW u \in Users, WriteHolds(u) \/ WriteUnconfirmed(u)
      PROVE  PollInv'
  BY <1>9, MeterChanges DEF WriteHolds, WriteUnconfirmed, Noted
<1>10. ASSUME NEW u \in Users, WriteLost(u)
      PROVE  PollInv'
  BY <1>10, PollElsewhere DEF WriteLost, device, pollVars, PollInv
<1>11. CASE UNCHANGED vars
  BY <1>11, PollElsewhere DEF vars, device, pollVars, PollInv
<1> QED BY <1>1, <1>2, <1>3, <1>4, <1>5, <1>6, <1>7, <1>8, <1>9, <1>10, <1>11 DEF RouteNext

(* The blocks a poll has left to read, with the readings it has, account for every
   sensor it reads, and no reading is older than the poll (reading.py). *)
THEOREM PollInvariant == RouteSpec => []PollInv
<1>1. PollInv /\ [RouteNext]_vars => PollInv'
  BY PollNext
<1> QED BY PollInit, <1>1, PTL DEF RouteSpec

(* A poll asks for every register of its sensors once, for no other register, and in
   no request for more than the limit (build_register_blocks), whatever the sensors
   and whichever of them are enabled. *)
THEOREM RequestsAlwaysCover == RouteSpec => []RequestsCoverExactly
<1>1. PollInv => RequestsCoverExactly
  BY DEF PollInv, Reading, RequestsCoverExactly
<1> QED BY PollInvariant, <1>1, PTL

(* Whatever block a sensor was read in, its reading is a value its registers had
   during the poll, and a poll reported complete has one for every sensor
   (decode_register_block, async_read_sensor_values). *)
THEOREM ReadingsAlwaysAre == RouteSpec => []ReadingsAreRegisters
<1>1. PollInv => ReadingsAreRegisters
  BY DEF PollInv, Done, ReadingsAreRegisters
<1> QED BY PollInvariant, <1>1, PTL

-----------------------------------------------------------------------------
(* What the devices hold *)

WordsOf(memory, s) == [i \in 1 .. WidthOf(s) |-> memory[s.address + i - 1]]

\* What the meter was last made to hold is what the sensor of the setting would now
\* read, and the same of the gateway; its start configuration has the same registers.
HeldInv ==
  /\ DOMAIN meter = MeterRegisters /\ DOMAIN staged = GatewayRegisters
  /\ DOMAIN stored = GatewayRegisters /\ DOMAIN held = Settings \cup Managed
  /\ \A s \in Settings :
        held[s] # NoValue => Decoded(s, ValueIn(meter, BackingSensor(s))) = held[s]
  /\ \A s \in Managed :
        held[s] # NoValue => GatewayDecoded(s, WordsOf(staged, s)) = held[s]
  /\ polling = "config" => conf = NotRead

\* The register behind a setting of the meter
LEMMA BackedBy ==
  ASSUME NEW s \in Settings
  PROVE  /\ s \in WritableSettings /\ s.address \in Nat /\ s.address \in MeterRegisters
         /\ \A memory : ValueIn(memory, BackingSensor(s))
                          = DecodeSensorValue(BackingSensor(s), <<memory[s.address]>>)
<1> DEFINE b == BackingSensor(s)
<1>1. b.address = s.address /\ b.count = 1
  BY DEF BackingSensor
<1>2. s \in WritableSettings /\ b \in Profile
  BY InputsAssumption
<1>3. s.address \in Nat
  BY <1>2, WritableIs
<1>4. RegistersOf(b) = {s.address}
  BY <1>1, <1>3 DEF RegistersOf, End
<1> HIDE DEF b
<1>5. s.address \in MeterRegisters
  BY <1>2, <1>4 DEF MeterRegisters
<1>6. ASSUME NEW memory
      PROVE  ValueIn(memory, b) = DecodeSensorValue(b, <<memory[s.address]>>)
  <2>1. [i \in 1 .. 1 |-> memory[s.address + i - 1]] = <<memory[s.address]>>
    BY <1>3
  <2> QED BY <1>1, <2>1 DEF ValueIn
<1> QED BY <1>2, <1>3, <1>5, <1>6 DEF b

\* The registers of a setting of the gateway
LEMMA ManagedAt ==
  ASSUME NEW s \in Managed
  PROVE  /\ s \in GatewaySettings /\ s.address \in Nat /\ WidthOf(s) \in Nat
         /\ \A i \in 1 .. WidthOf(s) :
               /\ s.address + i - 1 \in GatewayRegisters
               /\ s.address + i - 1 \in s.address .. s.address + WidthOf(s) - 1
<1>1. s \in GatewaySettings
  BY InputsAssumption
<1>2. s.address \in Addresses /\ WidthOf(s) = WidthAt(s.address)
  BY <1>1, GatewayIs
<1>3. s.address \in Nat /\ WidthOf(s) \in Nat
  BY <1>2 DEF Addresses, WidthAt
<1>4. \A i \in 1 .. WidthOf(s) : s.address + i - 1 \in s.address .. s.address + WidthOf(s) - 1
  BY <1>3
<1> QED BY <1>1, <1>3, <1>4 DEF GatewayRegisters

LEMMA ApartHere ==
  /\ Settings \cap Managed = {}
  /\ \A s, t \in Settings : s # t => s.address # t.address
  /\ \A s, t \in Managed : s # t =>
        (s.address .. s.address + WidthOf(s) - 1) \cap (t.address .. t.address + WidthOf(t) - 1) = {}
  BY SettingsApart, InputsAssumption

\* A setting of the meter written: its own value, and nothing of another's register
LEMMA MeterWritten ==
  ASSUME HeldInv, NEW s \in Settings, NEW v, Enterable(s, v), NEW n, n = Normalized(s, v),
         n # NoValue, meter' = Overwritten(meter, s, Encoded(s, n))
  PROVE  /\ DOMAIN meter' = DOMAIN meter
         /\ Decoded(s, ValueIn(meter', BackingSensor(s))) = n
         /\ \A t \in Settings \ {s} :
               ValueIn(meter', BackingSensor(t)) = ValueIn(meter, BackingSensor(t))
<1>1. PICK w : Encoded(s, n) = <<w>> /\ Decoded(s, DecodeSensorValue(BackingSensor(s), <<w>>)) = n
  BY BackedBy, MeterRoundTrip
<1>2. s.address \in Nat /\ s.address \in DOMAIN meter
  BY BackedBy DEF HeldInv
<1>3. meter' = [r \in DOMAIN meter |-> IF r = s.address THEN w ELSE meter[r]]
  <2>1. /\ Len(<<w>>) = 1
        /\ s.address .. s.address + 1 - 1 = {s.address}
    BY <1>2
  <2>2. \A r : r = s.address => <<w>>[r - s.address + 1] = w
    BY <1>2
  <2> QED BY <1>1, <2>1, <2>2 DEF Overwritten
<1>4. DOMAIN meter' = DOMAIN meter /\ meter'[s.address] = w
  BY <1>2, <1>3
<1>5. ASSUME NEW t \in Settings, t # s
      PROVE  ValueIn(meter', BackingSensor(t)) = ValueIn(meter, BackingSensor(t))
  <2>1. t.address # s.address /\ t.address \in DOMAIN meter
    BY <1>5, ApartHere, BackedBy DEF HeldInv
  <2>2. meter'[t.address] = meter[t.address]
    BY <1>3, <2>1
  <2> QED BY <2>2, BackedBy
<1>6. ValueIn(meter', BackingSensor(s)) = DecodeSensorValue(BackingSensor(s), <<w>>)
  BY <1>4, BackedBy
<1> QED BY <1>1, <1>4, <1>5, <1>6

LEMMA GatewayWritten ==
  ASSUME HeldInv, NEW s \in Managed, NEW v, Enterable(s, v), NEW n, n = Normalized(s, v),
         n # NoValue, staged' = Overwritten(staged, s, Encoded(s, n))
  PROVE  /\ DOMAIN staged' = DOMAIN staged
         /\ GatewayDecoded(s, WordsOf(staged', s)) = n
         /\ \A t \in Managed \ {s} : WordsOf(staged', t) = WordsOf(staged, t)
<1> DEFINE e == Encoded(s, n)
<1>1. Len(e) = WidthOf(s) /\ GatewayDecoded(s, [i \in 1 .. WidthOf(s) |-> e[i]]) = n
  BY ManagedAt, GatewayRoundTrip
<1> HIDE DEF e
<1>2. staged' = [r \in DOMAIN staged |->
                   IF r \in s.address .. s.address + WidthOf(s) - 1
                   THEN e[r - s.address + 1] ELSE staged[r]]
  BY <1>1 DEF Overwritten, e
<1>3. DOMAIN staged' = DOMAIN staged
  BY <1>2
<1>4. WordsOf(staged', s) = [i \in 1 .. WidthOf(s) |-> e[i]]
  <2>1. ASSUME NEW i \in 1 .. WidthOf(s)
        PROVE  staged'[s.address + i - 1] = e[i]
    <3>1. /\ s.address + i - 1 \in DOMAIN staged
          /\ s.address + i - 1 \in s.address .. s.address + WidthOf(s) - 1
      BY ManagedAt DEF HeldInv
    <3>2. (s.address + i - 1) - s.address + 1 = i
      BY ManagedAt
    <3> QED BY <1>2, <3>1, <3>2
  <2> QED BY <2>1 DEF WordsOf
<1>5. ASSUME NEW t \in Managed, t # s
      PROVE  WordsOf(staged', t) = WordsOf(staged, t)
  <2>1. ASSUME NEW i \in 1 .. WidthOf(t)
        PROVE  staged'[t.address + i - 1] = staged[t.address + i - 1]
    <3>1. /\ t.address + i - 1 \in DOMAIN staged
          /\ t.address + i - 1 \in t.address .. t.address + WidthOf(t) - 1
      BY ManagedAt DEF HeldInv
    <3>2. t.address + i - 1 \notin s.address .. s.address + WidthOf(s) - 1
      BY <1>5, <3>1, ApartHere
    <3> QED BY <1>2, <3>1, <3>2
  <2> QED BY <2>1 DEF WordsOf
<1> QED BY <1>1, <1>3, <1>4, <1>5

\* What is written next for a call, in full
LEMMA WriteIs ==
  ASSUME NEW o, Left(o)
  PROVE  LET w == Head(o.todo)
         IN  \/ \E a \in {"revert", "apply", "store"} : w = [act |-> a]
             \/ \E s \in Settings \cup Managed : \E v :
                  /\ Enterable(s, v) /\ Normalized(s, v) # NoValue
                  /\ w = [set |-> s, to |-> Normalized(s, v)]
<1>1. CASE o.goal = "setting" /\ OneSetting(o.todo)
  BY <1>1 DEF OneSetting
<1>2. CASE ~(o.goal = "setting" /\ OneSetting(o.todo))
  BY <1>2 DEF Left
<1> QED BY <1>1, <1>2

\* A write that reached a device leaves the ghosts true of it.
LEMMA WriteKeeps ==
  ASSUME HeldInv, NEW w, NEW sure \in BOOLEAN, Reaches(w), Noted(w, sure),
         UNCHANGED <<polling, conf>>,
         \/ \E a \in {"revert", "apply", "store"} : w = [act |-> a]
         \/ \E s \in Settings \cup Managed : \E v :
              /\ Enterable(s, v) /\ Normalized(s, v) # NoValue
              /\ w = [set |-> s, to |-> Normalized(s, v)]
  PROVE  HeldInv'
<1>1. ASSUME NEW a \in {"revert", "apply", "store"}, w = [act |-> a]
      PROVE  HeldInv'
  <2>1. "act" \in DOMAIN w /\ "set" \notin DOMAIN w /\ w.act = a
    BY <1>1
  <2>2. /\ meter' = meter
        /\ staged' = IF a = "revert" THEN stored ELSE staged
        /\ stored' = IF a = "store" THEN staged ELSE stored
    BY <2>1 DEF Reaches
  <2>3. held' = [s \in DOMAIN held |-> IF a = "revert" /\ s \in Managed THEN NoValue ELSE held[s]]
    BY <2>1 DEF Noted
  <2>4. /\ DOMAIN meter' = MeterRegisters /\ DOMAIN staged' = GatewayRegisters
        /\ DOMAIN stored' = GatewayRegisters /\ DOMAIN held' = Settings \cup Managed
    BY <2>2, <2>3 DEF HeldInv
  <2>5. ASSUME NEW s \in Settings, held'[s] # NoValue
        PROVE  Decoded(s, ValueIn(meter', BackingSensor(s))) = held'[s]
    <3>1. s \notin Managed /\ s \in DOMAIN held
      BY ApartHere DEF HeldInv
    <3>2. held'[s] = held[s]
      BY <2>3, <3>1
    <3> QED BY <2>2, <2>5, <3>2 DEF HeldInv
  <2>6. ASSUME NEW s \in Managed, held'[s] # NoValue
        PROVE  GatewayDecoded(s, WordsOf(staged', s)) = held'[s]
    <3>1. s \in DOMAIN held
      BY DEF HeldInv
    <3>2. a # "revert" /\ held'[s] = held[s]
      BY <2>3, <2>6, <3>1
    <3>3. staged' = staged
      BY <2>2, <3>2
    <3> QED BY <2>6, <3>2, <3>3 DEF HeldInv
  <2>7. polling' = "config" => conf' = NotRead
    BY DEF HeldInv
  <2> QED BY <2>4, <2>5, <2>6, <2>7 DEF HeldInv, WordsOf, ValueIn
<1>2. ASSUME NEW s \in Settings \cup Managed, NEW v, Enterable(s, v),
             NEW n, n = Normalized(s, v), n # NoValue, w = [set |-> s, to |-> n]
      PROVE  HeldInv'
  <2>1. "set" \in DOMAIN w /\ w.set = s /\ w.to = n
    BY <1>2
  <2>2. /\ stored' = stored
        /\ s \in Settings => meter' = Overwritten(meter, s, Encoded(s, n)) /\ staged' = staged
        /\ s \notin Settings => staged' = Overwritten(staged, s, Encoded(s, n)) /\ meter' = meter
    BY <2>1 DEF Reaches
  <2>3. held' = [t \in DOMAIN held |-> IF t # s THEN held[t] ELSE IF sure THEN n ELSE NoValue]
    BY <2>1 DEF Noted
  <2>4. DOMAIN held' = Settings \cup Managed /\ DOMAIN stored' = GatewayRegisters
    BY <2>2, <2>3 DEF HeldInv
  <2>5. \A t \in Settings \cup Managed :
           /\ t # s => held'[t] = held[t]
           /\ t = s => held'[t] = n \/ held'[t] = NoValue
    BY <2>3 DEF HeldInv
  <2>6. polling' = "config" => conf' = NotRead
    BY DEF HeldInv
  <2>7. CASE s \in Settings
    <3>1. /\ DOMAIN meter' = DOMAIN meter
          /\ Decoded(s, ValueIn(meter', BackingSensor(s))) = n
          /\ \A t \in Settings \ {s} :
                ValueIn(meter', BackingSensor(t)) = ValueIn(meter, BackingSensor(t))
      BY <1>2, <2>2, <2>7, MeterWritten
    <3>2. ASSUME NEW t \in Settings, held'[t] # NoValue
          PROVE  Decoded(t, ValueIn(meter', BackingSensor(t))) = held'[t]
      <4>1. CASE t = s
        BY <2>5, <3>1, <3>2, <4>1
      <4>2. CASE t # s
        BY <2>5, <3>1, <3>2, <4>2 DEF HeldInv
      <4> QED BY <4>1, <4>2
    <3>3. ASSUME NEW t \in Managed, held'[t] # NoValue
          PROVE  GatewayDecoded(t, WordsOf(staged', t)) = held'[t]
      <4>1. t # s /\ staged' = staged
        BY <2>2, <2>7, ApartHere
      <4> QED BY <2>5, <3>3, <4>1 DEF HeldInv
    <3>4. DOMAIN meter' = MeterRegisters /\ DOMAIN staged' = GatewayRegisters
      BY <2>2, <2>7, <3>1 DEF HeldInv
    <3> QED BY <2>4, <2>6, <3>2, <3>3, <3>4 DEF HeldInv, WordsOf, ValueIn
  <2>8. CASE s \in Managed
    <3>0. s \notin Settings
      BY <2>8, ApartHere
    <3>1. /\ DOMAIN staged' = DOMAIN staged
          /\ GatewayDecoded(s, WordsOf(staged', s)) = n
          /\ \A t \in Managed \ {s} : WordsOf(staged', t) = WordsOf(staged, t)
      BY <1>2, <2>2, <2>8, <3>0, GatewayWritten
    <3>2. ASSUME NEW t \in Managed, held'[t] # NoValue
          PROVE  GatewayDecoded(t, WordsOf(staged', t)) = held'[t]
      <4>1. CASE t = s
        BY <2>5, <3>1, <3>2, <4>1
      <4>2. CASE t # s
        BY <2>5, <3>1, <3>2, <4>2 DEF HeldInv
      <4> QED BY <4>1, <4>2
    <3>3. ASSUME NEW t \in Settings, held'[t] # NoValue
          PROVE  Decoded(t, ValueIn(meter', BackingSensor(t))) = held'[t]
      <4>1. t # s /\ meter' = meter
        BY <2>2, <3>0
      <4> QED BY <2>5, <3>3, <4>1 DEF HeldInv
    <3>4. DOMAIN meter' = MeterRegisters /\ DOMAIN staged' = GatewayRegisters
      BY <2>2, <3>0, <3>1 DEF HeldInv
    <3> QED BY <2>4, <2>6, <3>2, <3>3, <3>4 DEF HeldInv, WordsOf, ValueIn
  <2> QED BY <2>7, <2>8
<1> QED BY <1>1, <1>2

LEMMA HeldInit == RouteInit => HeldInv
<1> SUFFICES ASSUME RouteInit
             PROVE  HeldInv
  OBVIOUS
<1>1. DOMAIN meter = MeterRegisters
  BY DEF RouteInit, Measured
<1>2. /\ DOMAIN staged = GatewayRegisters /\ stored = staged /\ polling = "idle"
      /\ held = [s \in Settings \cup Managed |-> NoValue]
  BY DEF RouteInit
<1> QED BY <1>1, <1>2 DEF HeldInv

\* The meter measures into registers that no setting has.
LEMMA MeasuresKeep ==
  ASSUME HeldInv, NEW i, meter' = Measured(meter, i), UNCHANGED <<staged, stored, held, polling, conf>>
  PROVE  HeldInv'
<1>1. DOMAIN meter' = MeterRegisters
  BY DEF Measured
<1>2. ASSUME NEW s \in Settings
      PROVE  ValueIn(meter', BackingSensor(s)) = ValueIn(meter, BackingSensor(s))
  <2>1. {t \in DOMAIN Samples : s.address \in RegistersOf(t)} = {} /\ s.address \in MeterRegisters
    BY InputsAssumption, BackedBy
  <2>2. meter'[s.address] = meter[s.address]
    BY <2>1 DEF Measured
  <2> QED BY <2>2, BackedBy
<1>3. \A s \in Settings :
         held'[s] # NoValue => Decoded(s, ValueIn(meter', BackingSensor(s))) = held'[s]
  BY <1>2 DEF HeldInv
<1>4. \A s \in Managed :
         held'[s] # NoValue => GatewayDecoded(s, WordsOf(staged', s)) = held'[s]
  BY DEF HeldInv
<1> QED BY <1>1, <1>3, <1>4 DEF HeldInv, WordsOf, ValueIn

LEMMA HeldElsewhere ==
  ASSUME HeldInv, UNCHANGED <<meter, staged, stored, held>>,
         polling' = "config" => conf' = NotRead
  PROVE  HeldInv'
  BY DEF HeldInv, WordsOf, ValueIn

LEMMA HeldNext ==
  ASSUME PressInv, HeldInv, [RouteNext]_vars
  PROVE  HeldInv'
<1>1. CASE Tick
  BY <1>1, MeasuresKeep DEF Tick
<1>2. CASE \E s \in Sensors : Toggle(s)
  BY <1>2, HeldElsewhere DEF Toggle, device, pollVars, HeldInv
<1>3. CASE StartPoll
  BY <1>3, HeldElsewhere DEF StartPoll, device
<1>4. CASE \E ok \in BOOLEAN : ReadConfiguration(ok)
  BY <1>4, HeldElsewhere DEF ReadConfiguration, device
<1>5. CASE ReadBlock \/ SkipBlock
  <2>1. UNCHANGED <<device, held>> /\ polling' # "config"
    BY <1>5 DEF ReadBlock, SkipBlock, AfterBlock
  <2> QED BY <2>1, HeldElsewhere DEF device
<1>6. CASE PollBreaks
  BY <1>6, HeldElsewhere DEF PollBreaks, device
<1>7. ASSUME NEW u \in Users, NEW in, WriteSetting(u, in[1], in[2])
      PROVE  HeldInv'
  BY <1>7, HeldElsewhere DEF WriteSetting, Call, device, pollVars, HeldInv
<1>8. ASSUME NEW u \in Users, NEW a, PressButton(u, a)
      PROVE  HeldInv'
  BY <1>8, HeldElsewhere DEF PressButton, Call, device, pollVars, HeldInv
<1>9. ASSUME NEW u \in Users, WriteHolds(u)
      PROVE  HeldInv'
  <2> DEFINE w == Head(op[u].todo)
  <2>1. Left(op[u]) /\ Reaches(w) /\ Noted(w, TRUE) /\ UNCHANGED <<polling, conf>>
    BY <1>9 DEF WriteHolds, PressInv, Sound
  <2> HIDE DEF w
  <2>2. \/ \E a \in {"revert", "apply", "store"} : w = [act |-> a]
        \/ \E s \in Settings \cup Managed : \E v :
             /\ Enterable(s, v) /\ Normalized(s, v) # NoValue
             /\ w = [set |-> s, to |-> Normalized(s, v)]
    BY <2>1, WriteIs DEF w
  <2> QED BY <2>1, <2>2, WriteKeeps
<1>10. ASSUME NEW u \in Users, WriteUnconfirmed(u)
       PROVE  HeldInv'
  <2> DEFINE w == Head(op[u].todo)
  <2>1. Left(op[u]) /\ Reaches(w) /\ Noted(w, FALSE) /\ UNCHANGED <<polling, conf>>
    BY <1>10 DEF WriteUnconfirmed, PressInv, Sound
  <2> HIDE DEF w
  <2>2. \/ \E a \in {"revert", "apply", "store"} : w = [act |-> a]
        \/ \E s \in Settings \cup Managed : \E v :
             /\ Enterable(s, v) /\ Normalized(s, v) # NoValue
             /\ w = [set |-> s, to |-> Normalized(s, v)]
    BY <2>1, WriteIs DEF w
  <2> QED BY <2>1, <2>2, WriteKeeps
<1>11. ASSUME NEW u \in Users, WriteLost(u)
       PROVE  HeldInv'
  BY <1>11, HeldElsewhere DEF WriteLost, device, pollVars, HeldInv
<1>12. CASE UNCHANGED vars
  BY <1>12, HeldElsewhere DEF vars, device, pollVars, HeldInv
<1> QED BY <1>1, <1>2, <1>3, <1>4, <1>5, <1>6, <1>7, <1>8, <1>9, <1>10, <1>11, <1>12 DEF RouteNext

\* What a block read shows of a setting of the meter
LEMMA BlockShows ==
  ASSUME PollInv, HeldInv, ReadBlock, NEW s \in Settings, held[s] # NoValue,
         s.key \in DOMAIN readings' \ DOMAIN readings
  PROVE  Decoded(s, readings'[s.key]) = held[s]
<1> DEFINE b == Head(todo)
           words == [i \in 1 .. b.count |-> meter[b.address + i - 1]]
           keys == {t.key : t \in Range(b.sensors)}
           Of(k) == CHOOSE t \in Range(b.sensors) : t.key = k
           x == BackingSensor(s)
<1>1. readings' = [k \in DOMAIN readings \cup keys |->
                     IF k \in keys THEN DecodeSensorValue(Of(k), Slice(b, Of(k), words))
                     ELSE readings[k]]
  BY DEF ReadBlock, AfterBlock
<1>2. s.key \in keys /\ readings'[s.key] = DecodeSensorValue(Of(s.key), Slice(b, Of(s.key), words))
  BY <1>1
<1>3. Reading /\ AreSensors(polled) /\ polled \subseteq Profile
  BY SubsetSensors DEF PollInv, ReadBlock
<1>4. IsBlock(b, polled)
  BY <1>3, EmptySeq DEF Reading
<1> HIDE DEF b
<1>5. Range(b.sensors) \subseteq Profile
  BY <1>3, <1>4, RangeOfSeq DEF IsBlock
<1>6. x \in Profile /\ x.key = s.key
  BY InputsAssumption DEF BackingSensor
<1> HIDE DEF x
<1>7. x \in Range(b.sensors) /\ Of(s.key) = x
  BY <1>2, <1>5, <1>6, ProfileAssumption
<1>8. Slice(b, x, words) = [i \in 1 .. x.count |-> meter[x.address + i - 1]]
  BY <1>3, <1>4, <1>7, SliceIs, SMTT(30)
<1> HIDE DEF words, keys, Of
<1>9. readings'[s.key] = ValueIn(meter, x)
  BY <1>2, <1>7, <1>8 DEF ValueIn
<1> QED BY <1>9 DEF HeldInv, x

\* Only a block read adds readings, and only the read of the gateway a configuration.
LEMMA OthersShowNothing ==
  ASSUME HeldInv, [RouteNext]_vars, ~ReadBlock, ~\E ok \in BOOLEAN : ReadConfiguration(ok)
  PROVE  /\ DOMAIN readings' \ DOMAIN readings = {}
         /\ polling = "config" => conf' = NotRead
<1> DEFINE Q == readings' = readings /\ (conf' = conf \/ conf' = NotRead)
<1>1. ASSUME Tick \/ StartPoll \/ PollBreaks \/ UNCHANGED vars
      PROVE  Q
  BY <1>1 DEF Tick, StartPoll, PollBreaks, vars, pollVars
<1>2. ASSUME SkipBlock
      PROVE  Q
  BY <1>2 DEF SkipBlock, AfterBlock
<1>3. ASSUME NEW s \in Sensors, Toggle(s)
      PROVE  Q
  BY <1>3 DEF Toggle, pollVars
<1>4. ASSUME NEW u \in Users, NEW in, WriteSetting(u, in[1], in[2])
      PROVE  Q
  BY <1>4 DEF WriteSetting, Call, pollVars
<1>5. ASSUME NEW u \in Users, NEW a, PressButton(u, a)
      PROVE  Q
  BY <1>5 DEF PressButton, Call, pollVars
<1>6. ASSUME NEW u \in Users, WriteHolds(u) \/ WriteUnconfirmed(u)
      PROVE  Q
  BY <1>6 DEF WriteHolds, WriteUnconfirmed
<1>7. ASSUME NEW u \in Users, WriteLost(u)
      PROVE  Q
  BY <1>7 DEF WriteLost, pollVars
<1>8. Q
  BY <1>1, <1>2, <1>3, <1>4, <1>5, <1>6, <1>7 DEF RouteNext
<1> QED BY <1>8 DEF HeldInv

(* Whatever was written and read back last for a setting is what its registers now
   stand for, through every measurement, other write and press of a button. *)
THEOREM HeldInvariant == RouteSpec => []HeldInv
<1>1. PressInv /\ [RouteNext]_vars => PressInv'
  BY PressNext
<1>2. PressInv /\ HeldInv /\ [RouteNext]_vars => HeldInv'
  BY HeldNext
<1> QED BY PressInit, HeldInit, <1>1, <1>2, PTL DEF RouteSpec

(* A setting that was written with success reads back as the value entered, for every
   setting of the tables and every value the forms admit (settings.py,
   gateway_settings.py). *)
THEOREM SettingsReadBack == RouteSpec => SettingReadsBack
<1> DEFINE Shows == /\ \A s \in Settings :
                         /\ held[s] # NoValue
                         /\ s.key \in DOMAIN readings' \ DOMAIN readings
                         => Decoded(s, readings'[s.key]) = held[s]
                    /\ \A s \in Managed :
                         /\ held[s] # NoValue
                         /\ polling = "config" /\ conf' # NotRead
                         => conf'[s] = held[s]
<1>1. ASSUME PollInv, HeldInv, [RouteNext]_vars
      PROVE  Shows
  <2>1. CASE ReadBlock
    <3>1. conf' = conf /\ polling # "config"
      BY <2>1 DEF ReadBlock, AfterBlock
    <3> QED BY <1>1, <2>1, <3>1, BlockShows
  <2>2. CASE \E ok \in BOOLEAN : ReadConfiguration(ok)
    <3>1. DOMAIN readings' = {}
      <4>1. readings' = <<>>
        BY <2>2 DEF ReadConfiguration
      <4>2. DOMAIN <<>> = {}
        OBVIOUS
      <4> QED BY <4>1, <4>2
    <3>2. conf' # NotRead => conf' = GatewaySettingStates(Managed, staged)
      BY <2>2 DEF ReadConfiguration
    <3>3. \A s \in Managed : GatewaySettingStates(Managed, staged)[s] = GatewayDecoded(s, WordsOf(staged, s))
      BY DEF GatewaySettingStates, WordsOf
    <3> QED BY <1>1, <3>1, <3>2, <3>3 DEF HeldInv
  <2>3. CASE ~ReadBlock /\ ~\E ok \in BOOLEAN : ReadConfiguration(ok)
    BY <1>1, <2>3, OthersShowNothing
  <2> QED BY <2>1, <2>2, <2>3
<1>2. PollInv /\ HeldInv /\ [RouteNext]_vars => [Shows]_vars
  BY <1>1
<1>3. SettingReadsBack <=> [][Shows]_vars
  BY PTL DEF SettingReadsBack
<1> HIDE DEF Shows
<1> QED BY PollInvariant, HeldInvariant, <1>2, <1>3, PTL DEF RouteSpec

-----------------------------------------------------------------------------
(* The scans *)

\* What a scan does not change
FactsKept ==
  /\ host \in [Hosts -> HostKinds \cup {Silent}] /\ bus \in [Slaves -> Devices \cup {Silent}]
  /\ missed \in Nat

\* A search for gateways: what is left to ask, and what was found
GatewaysInd ==
  /\ stage \in {"start", "browse", "probe", "done"}
  /\ stage # "probe" => left = {} /\ probing = {}
  /\ stage \in {"start", "browse"} => asked = {}
  /\ \A h \in DOMAIN found :
        /\ host[h].is \in {"gateway", "grow"}
        /\ missed = 0 => host[h].is = "gateway" /\ found[h] = host[h].serial
  /\ missed = 0 => \A h \in asked :
        host[h].is = "gateway" => h \in left \/ h \in probing \/ h \in DOMAIN found

LEMMA HostsAre ==
  ASSUME FactsKept, NEW h \in Hosts
  PROVE  /\ host[h].is = "gateway" => ~IsGrowSerial(host[h].serial)
         /\ host[h].is = "grow" => IsGrowSerial(host[h].serial)
<1>1. host[h] \in HostKinds \/ host[h] = Silent
  BY DEF FactsKept
<1>2. CASE host[h] = Silent
  <2>1. host[h].is = "silent"
    BY <1>2 DEF Silent
  <2> QED BY <2>1
<1> QED BY <1>1, <1>2, HostsAssumption

LEMMA WithIs ==
  ASSUME NEW f, NEW x, NEW y
  PROVE  /\ DOMAIN With(f, x, y) = DOMAIN f \cup {x} /\ With(f, x, y)[x] = y
         /\ \A z \in DOMAIN f : z # x => With(f, x, y)[z] = f[z]
  BY DEF With

LEMMA LosesIs ==
  ASSUME missed \in Nat, NEW n \in Nat, Loses(n)
  PROVE  missed' \in Nat /\ (missed' = 0 => n = 0 /\ missed = 0)
  BY DEF Loses

\* A gateway found
LEMMA GatewayAdded ==
  ASSUME GatewaysInd, NEW h, UNCHANGED <<host, missed, asked, stage, left>>,
         found' = With(found, h, host[h].serial), host[h].is = "gateway",
         probing' \subseteq probing, \A g \in probing : g \in probing' \/ g = h
  PROVE  GatewaysInd'
<1>1. /\ DOMAIN found' = DOMAIN found \cup {h} /\ found'[h] = host[h].serial
      /\ \A g \in DOMAIN found : g # h => found'[g] = found[g]
  BY DEF With
<1>2. \A g \in DOMAIN found' :
        /\ host'[g].is \in {"gateway", "grow"}
        /\ missed' = 0 => host'[g].is = "gateway" /\ found'[g] = host'[g].serial
  BY <1>1 DEF GatewaysInd
<1>3. missed' = 0 => \A g \in asked' :
        host'[g].is = "gateway" => g \in left' \/ g \in probing' \/ g \in DOMAIN found'
  BY <1>1 DEF GatewaysInd
<1> QED BY <1>2, <1>3 DEF GatewaysInd

LEMMA BrowsingKeeps ==
  ASSUME FactsKept, GatewaysInd, NEW h \in Hosts, BrowseAnswer(h)
  PROVE  GatewaysInd'
<1>1. host[h].is = "gateway"
  BY HostsAre DEF BrowseAnswer
<1>2. UNCHANGED <<host, missed, asked, stage, left, probing>>
  BY DEF BrowseAnswer, facts
<1>3. found' = With(found, h, host[h].serial)
  BY DEF BrowseAnswer
<1> QED BY <1>1, <1>2, <1>3, GatewayAdded

LEMMA ProbeKeeps ==
  ASSUME FactsKept, GatewaysInd, NEW h \in Hosts, NEW block \in BOOLEAN, NEW type \in BOOLEAN,
         NEW firmware \in BOOLEAN, ProbeEnds(h, block, type, firmware)
  PROVE  GatewaysInd'
<1> DEFINE i == Info(h, block, type, firmware)
<1>1. UNCHANGED <<host, asked, stage, left>> /\ probing' = probing \ {h} /\ h \in probing
  BY DEF ProbeEnds, facts
<1>2. missed' \in Nat /\ (missed' = 0 => missed = 0 /\ (host[h].is # "silent" => block))
  <2>1. CASE host[h].is = "silent" \/ block
    BY <2>1 DEF ProbeEnds, FactsKept
  <2>2. CASE host[h].is # "silent" /\ ~block
    <3>1. 1 + Lost(type) + Lost(firmware) \in Nat /\ 1 + Lost(type) + Lost(firmware) # 0
      BY DEF Lost
    <3>2. Loses(1 + Lost(type) + Lost(firmware))
      BY <2>2 DEF ProbeEnds
    <3> QED BY <3>1, <3>2, LosesIs DEF FactsKept
  <2> QED BY <2>1, <2>2
<1>3. found' = IF host[h].is # "silent" /\ Confirmed(i) THEN With(found, h, i.serial) ELSE found
  BY DEF ProbeEnds
<1>4. /\ i.type = IF block \/ type THEN host[h].is ELSE "none"
      /\ i.serial = IF block THEN host[h].serial ELSE NoSerial
      /\ block => i.hardware = TRUE
  BY DEF Info
<1> HIDE DEF i
<1>5. Confirmed(i) => host[h].is \in {"gateway", "grow"}
  BY <1>4 DEF Confirmed
<1>6. missed' = 0 /\ host[h].is = "gateway" => Confirmed(i)
  BY <1>2, <1>4, HostsAre DEF Confirmed
<1>7. missed' = 0 /\ host[h].is # "silent" /\ Confirmed(i) =>
        host[h].is = "gateway" /\ i.serial = host[h].serial
  BY <1>2, <1>4, <1>5, HostsAre DEF Confirmed
<1> DEFINE hit == host[h].is # "silent" /\ Confirmed(i)
<1>8. /\ DOMAIN found \subseteq DOMAIN found'
      /\ \A g \in DOMAIN found' : g = h \/ g \in DOMAIN found
      /\ \A g \in DOMAIN found : g # h => found'[g] = found[g]
      /\ \/ hit /\ h \in DOMAIN found' /\ found'[h] = i.serial
         \/ ~hit /\ found' = found
  <2>1. CASE hit
    <3>1. found' = With(found, h, i.serial)
      BY <1>3, <2>1
    <3>2. found' = [z \in DOMAIN found \cup {h} |-> IF z = h THEN i.serial ELSE found[z]]
      BY <3>1 DEF With
    <3> QED BY <2>1, <3>2
  <2>2. CASE ~hit
    BY <1>3, <2>2
  <2> QED BY <2>1, <2>2
<1>9. ASSUME NEW g \in DOMAIN found'
      PROVE  /\ host'[g].is \in {"gateway", "grow"}
             /\ missed' = 0 => host'[g].is = "gateway" /\ found'[g] = host'[g].serial
  <2>1. CASE g # h
    BY <1>1, <1>2, <1>8, <2>1 DEF GatewaysInd
  <2>2. CASE g = h /\ h \in DOMAIN found /\ found' = found
    BY <1>1, <1>2, <2>2 DEF GatewaysInd
  <2>3. CASE g = h /\ host[h].is # "silent" /\ Confirmed(i) /\ found'[h] = i.serial
    BY <1>1, <1>5, <1>7, <2>3
  <2> QED BY <1>8, <2>1, <2>2, <2>3
<1>10. missed' = 0 => \A g \in asked' :
        host'[g].is = "gateway" => g \in left' \/ g \in probing' \/ g \in DOMAIN found'
  BY <1>1, <1>2, <1>6, <1>8 DEF GatewaysInd
<1>11. stage' = "probe"
  BY <1>1 DEF GatewaysInd
<1> QED BY <1>9, <1>10, <1>11 DEF GatewaysInd

LEMMA GatewaysNext ==
  ASSUME FactsKept, kind = "gateways", GatewaysInd, ScanNext
  PROVE  GatewaysInd'
<1>1. ASSUME NEW targets, BrowseOrProbe(targets)
      PROVE  GatewaysInd'
  BY <1>1 DEF GatewaysInd, BrowseOrProbe, facts
<1>2. CASE BrowseEnds
  BY <1>2 DEF GatewaysInd, BrowseEnds, facts
<1>3. CASE GatherEnds
  BY <1>3 DEF GatewaysInd, GatherEnds, facts
<1>4. ASSUME NEW h \in Hosts, BrowseAnswer(h)
      PROVE  GatewaysInd'
  BY <1>4, BrowsingKeeps
<1>5. ASSUME NEW h \in Hosts, ProbeStart(h)
      PROVE  GatewaysInd'
  BY <1>5 DEF GatewaysInd, ProbeStart, facts
<1>6. ASSUME NEW h \in Hosts, NEW block \in BOOLEAN, NEW type \in BOOLEAN, NEW firmware \in BOOLEAN,
             ProbeEnds(h, block, type, firmware)
      PROVE  GatewaysInd'
  BY <1>6, ProbeKeeps
<1>7. ASSUME NEW ok \in BOOLEAN, BusPing(ok) \/ ReadTail(ok) \/ IdentifyByAmps(ok)
      PROVE  FALSE
  BY <1>7 DEF GatewaysInd, BusPing, ReadTail, IdentifyByAmps
<1>8. ASSUME ReadCode \/ ReadProduct \/ IdentifyGrow \/ IdentifyByCode
      PROVE  FALSE
  BY <1>8 DEF GatewaysInd, ReadCode, ReadProduct, IdentifyGrow, IdentifyByCode
<1>9. ASSUME NEW ads, ProxyAnswers(ads)
      PROVE  FALSE
  BY <1>9 DEF ProxyAnswers
<1> QED BY <1>1, <1>2, <1>3, <1>4, <1>5, <1>6, <1>7, <1>8, <1>9 DEF ScanNext

\* The meters of a bus

\* No table names a device without a meter code, or a variant that is none.
LEMMA TablesName ==
  /\ NoCode \notin DOMAIN GrowVariants /\ NoCode \notin DOMAIN ByAmps
  /\ NoCode \notin DOMAIN Forced /\ NoCode \notin DOMAIN Fallback /\ NoCode \notin DOMAIN NoPrefix
  /\ \A c \in DOMAIN GrowVariants : GrowVariants[c] # NoCode
  /\ \A c \in DOMAIN ByAmps :
        /\ ByAmps[c].then = <<ByAmps[c].then[1], ByAmps[c].then[2]>> /\ ByAmps[c].then[1] # NoCode
        /\ ByAmps[c].else = <<ByAmps[c].else[1], ByAmps[c].else[2]>> /\ ByAmps[c].else[1] # NoCode
  /\ \A c \in DOMAIN Forced :
        Forced[c] = <<Forced[c][1], Forced[c][2]>> /\ Forced[c][1] # NoCode
  /\ \A c \in DOMAIN Fallback : Fallback[c][1] # NoCode
  /\ \A c \in DOMAIN NoPrefix : NoPrefix[c] # NoCode
<1>1. /\ NoCode \notin DOMAIN GrowVariants /\ NoCode \notin DOMAIN ByAmps
      /\ NoCode \notin DOMAIN Forced /\ NoCode \notin DOMAIN Fallback /\ NoCode \notin DOMAIN NoPrefix
  BY DEF NoCode, GrowVariants, ByAmps, Forced, Fallback, NoPrefix
<1>2. \A c \in DOMAIN GrowVariants : GrowVariants[c] # NoCode
  BY DEF NoCode, GrowVariants
<1>3. ASSUME NEW c \in DOMAIN ByAmps
      PROVE  /\ ByAmps[c].then = <<ByAmps[c].then[1], ByAmps[c].then[2]>> /\ ByAmps[c].then[1] # NoCode
             /\ ByAmps[c].else = <<ByAmps[c].else[1], ByAmps[c].else[2]>> /\ ByAmps[c].else[1] # NoCode
  <2>1. CASE c = "0101"
    <3>1. ByAmps[c].then = <<"pro_2", "0287">> /\ ByAmps[c].else = <<"pro_1", "0254">>
      BY <2>1 DEF ByAmps
    <3> HIDE DEF ByAmps
    <3> QED BY <3>1 DEF NoCode
  <2>2. CASE c = "3203"
    <3>1. ByAmps[c].then = <<"n_380_40a", "0514">> /\ ByAmps[c].else = <<"n_380ct", "0516">>
      BY <2>2 DEF ByAmps
    <3> HIDE DEF ByAmps
    <3> QED BY <3>1 DEF NoCode
  <2>3. c = "0101" \/ c = "3203"
    BY DEF ByAmps
  <2> QED BY <2>1, <2>2, <2>3
<1>4. ASSUME NEW c \in DOMAIN Forced
      PROVE  Forced[c] = <<Forced[c][1], Forced[c][2]>> /\ Forced[c][1] # NoCode
  <2>1. Forced[c] = <<"pro_380", "0257">> \/ Forced[c] = <<"pro_380ct", "0260">>
    BY DEF Forced
  <2> HIDE DEF Forced
  <2> QED BY <2>1 DEF NoCode
<1>5. ASSUME NEW c \in DOMAIN Fallback
      PROVE  Fallback[c][1] # NoCode
  <2>1. Fallback[c] = <<"pro_380_solare", "0257">> \/ Fallback[c] = <<"pro_1_solare", "0254">>
    BY DEF Fallback
  <2> HIDE DEF Fallback
  <2> QED BY <2>1 DEF NoCode
<1>6. \A c \in DOMAIN NoPrefix : NoPrefix[c] # NoCode
  BY DEF NoCode, NoPrefix
<1> QED BY <1>1, <1>2, <1>3, <1>4, <1>5, <1>6

\* What a scan may say of the device at a slave id: that it is a supported meter, and,
\* when it read the product code or lost no request, which one.
Rightly(d, entry, lost) ==
  /\ d # Silent /\ d.variant # NoCode /\ entry.serial[2] = d.serial[2]
  /\ entry.sure \/ lost = 0 => entry.serial = d.serial /\ entry.variant = d.variant

\* The identity registers read so far of the slave it is at
IdentIs ==
  /\ ident = [tail |-> ident.tail, code |-> ident.code, product |-> ident.product]
  /\ stage \in {"start", "tail"} => ident = NoIdent
  /\ stage \in {"code", "product", "identify"} =>
        /\ bus[at] # Silent /\ ident.tail = bus[at].serial[2]
  /\ stage = "code" => ident.code = NoCode
  /\ stage \in {"code", "product"} => ident.product = NoCode
  /\ stage \in {"product", "identify"} =>
        ident.code \in {NoCode, bus[at].code} /\ (missed = 0 => ident.code = bus[at].code)
  /\ stage = "identify" =>
        /\ ident.product \in {NoCode, bus[at].product}
        /\ missed = 0 => ident.product = bus[at].product

BusInd ==
  /\ stage \in {"start", "tail", "code", "product", "identify", "done", "failed"}
  /\ at \in Slaves /\ DOMAIN found \subseteq Slaves
  /\ \A s \in DOMAIN found : Rightly(bus[s], found[s], missed)
  /\ IdentIs
  /\ stage = "start" => found = <<>> /\ at = 1
  /\ stage \in {"tail", "code", "product", "identify"} /\ missed = 0 =>
        \A s \in Slaves : s < at => (s \in DOMAIN found <=> s \in Supported)
  /\ stage \in {"tail", "code", "product", "identify"} => \A s \in DOMAIN found : s < at
  /\ stage = "done" /\ missed = 0 => DOMAIN found = Supported

LEMMA SlavesAre ==
  /\ \A s \in Slaves : s \in Nat /\ 1 <= s /\ s <= Cardinality(Slaves)
  /\ 1 \in Slaves /\ \A n \in Nat : 1 <= n /\ n <= Cardinality(Slaves) => n \in Slaves
  BY DevicesAssumption

\* A slave that is through: its entry is right, or it is no supported meter, or a
\* request was lost.
LEMMA SlaveDone ==
  ASSUME FactsKept, BusInd, stage \in {"tail", "code", "product", "identify"},
         NEW entry, NextSlave(entry), missed' \in Nat, missed' = 0 => missed = 0,
         entry # NoMeter => Rightly(bus[at], entry, missed'),
         entry = NoMeter /\ missed' = 0 => at \notin Supported
  PROVE  BusInd'
<1>1. /\ UNCHANGED <<host, bus, kind>> /\ ident' = NoIdent /\ at \in Slaves
      /\ found' = IF entry = NoMeter THEN found ELSE With(found, at, entry)
      /\ IF at = Cardinality(Slaves) THEN stage' = "done" /\ at' = at
         ELSE stage' = "tail" /\ at' = at + 1
  BY DEF NextSlave, facts, BusInd
<1>2. ident' = [tail |-> ident'.tail, code |-> ident'.code, product |-> ident'.product]
  BY <1>1 DEF NoIdent
<1>3. at' \in Slaves /\ stage' \in {"tail", "done"}
  <2>1. at \in Nat /\ 1 <= at /\ at <= Cardinality(Slaves) /\ Cardinality(Slaves) \in Nat
    BY <1>1, DevicesAssumption
  <2>2. at # Cardinality(Slaves) => at + 1 \in Slaves
    BY <2>1, SlavesAre
  <2> QED BY <1>1, <2>2
<1>4. IdentIs'
  BY <1>1, <1>2, <1>3 DEF IdentIs
<1>5. /\ DOMAIN found' = IF entry = NoMeter THEN DOMAIN found ELSE DOMAIN found \cup {at}
      /\ \A s \in DOMAIN found' : \/ s \in DOMAIN found /\ found'[s] = found[s]
                                  \/ s = at /\ found'[s] = entry /\ entry # NoMeter
  <2>1. CASE entry = NoMeter
    BY <1>1, <2>1
  <2>2. CASE entry # NoMeter
    <3>1. found' = [z \in DOMAIN found \cup {at} |-> IF z = at THEN entry ELSE found[z]]
      BY <1>1, <2>2 DEF With
    <3> QED BY <2>2, <3>1
  <2> QED BY <2>1, <2>2
<1>6. ASSUME NEW s \in DOMAIN found'
      PROVE  Rightly(bus'[s], found'[s], missed')
  <2>1. CASE s = at /\ found'[s] = entry /\ entry # NoMeter
    BY <1>1, <2>1 DEF Rightly
  <2>2. CASE s \in DOMAIN found /\ found'[s] = found[s]
    <3>1. Rightly(bus[s], found[s], missed)
      BY <2>2 DEF BusInd
    <3> QED BY <1>1, <2>2, <3>1 DEF Rightly
  <2> QED BY <1>5, <2>1, <2>2
<1>7. Supported' = Supported
  BY <1>1 DEF Supported
<1>8. missed' = 0 => \A s \in Slaves : s <= at => (s \in DOMAIN found' <=> s \in Supported)
  <2> SUFFICES ASSUME missed' = 0, NEW s \in Slaves, s <= at
               PROVE  s \in DOMAIN found' <=> s \in Supported
    OBVIOUS
  <2>1. CASE s = at
    <3>1. at \notin DOMAIN found
      BY SlavesAre DEF BusInd
    <3>2. entry # NoMeter => at \in Supported
      BY <1>1 DEF Rightly, Supported
    <3> QED BY <1>5, <2>1, <3>1, <3>2
  <2>2. CASE s # at
    <3>1. s < at
      BY <1>1, <2>2, SlavesAre
    <3> QED BY <1>5, <2>2, <3>1 DEF BusInd
  <2> QED BY <2>1, <2>2
<1>9. \A s \in DOMAIN found' : s \in Slaves /\ s <= at
  BY <1>1, <1>5, SlavesAre DEF BusInd
<1>10. CASE at = Cardinality(Slaves)
  <2>1. stage' = "done"
    BY <1>1, <1>10
  <2>2. missed' = 0 => DOMAIN found' = Supported
    BY <1>8, <1>9, <1>10, SlavesAre DEF Supported
  <2> QED BY <1>3, <1>4, <1>6, <1>7, <1>9, <2>1, <2>2 DEF BusInd
<1>11. CASE at # Cardinality(Slaves)
  <2>1. stage' = "tail" /\ at' = at + 1
    BY <1>1, <1>11
  <2>2. \A s \in Slaves : s < at' => s <= at
    BY <1>1, <2>1, SlavesAre
  <2>3. \A s \in DOMAIN found' : s < at'
    BY <1>1, <1>9, <2>1, SlavesAre
  <2> QED BY <1>3, <1>4, <1>6, <1>7, <1>8, <1>9, <2>1, <2>2, <2>3 DEF BusInd
<1> QED BY <1>10, <1>11

LEMMA DeviceIs ==
  ASSUME FactsKept, NEW s \in Slaves, bus[s] # Silent
  PROVE  LET d == bus[s]
         IN  /\ <<d.variant, d.serial[1]>> = NamedBy(d)
             /\ d.serial = <<d.serial[1], d.serial[2]>>
             /\ d.code \in DOMAIN GrowVariants => d.variant # NoCode
<1>1. bus[s] \in Devices \ {Silent}
  BY DEF FactsKept
<1> QED BY <1>1, DevicesAssumption

LEMMA MeterIs ==
  ASSUME NEW variant, NEW prefix
  PROVE  /\ Meter(variant, prefix).variant = variant
         /\ Meter(variant, prefix).serial = <<prefix, ident.tail>>
         /\ Meter(variant, prefix).sure = (ident.product # NoCode)
         /\ Meter(variant, prefix) # NoMeter
<1> DEFINE m == Meter(variant, prefix)
<1>1. m = [variant |-> variant, serial |-> <<prefix, ident.tail>>, sure |-> ident.product # NoCode]
  BY DEF Meter
<1>2. "serial" \in DOMAIN m
  BY <1>1
<1>3. "serial" \notin DOMAIN NoMeter
  BY DEF NoMeter
<1> HIDE DEF m
<1>4. m # NoMeter
  BY <1>2, <1>3
<1> QED BY <1>1, <1>4 DEF m

LEMMA NamedIs ==
  ASSUME NEW d, NEW a, NEW b, <<d.variant, d.serial[1]>> = <<a, b>>
  PROVE  d.variant = a /\ d.serial[1] = b
  OBVIOUS

\* The identity read names the device at the slave id.
LEMMA Identified ==
  ASSUME FactsKept, BusInd, stage = "identify", NEW variant, NEW prefix, NEW lost \in Nat,
         lost = 0 => missed = 0,
         bus[at].variant # NoCode,
         ident.product # NoCode \/ lost = 0 =>
            bus[at].variant = variant /\ bus[at].serial[1] = prefix
  PROVE  Rightly(bus[at], Meter(variant, prefix), lost)
<1>1. bus[at] # Silent /\ ident.tail = bus[at].serial[2] /\ at \in Slaves
  BY DEF BusInd, IdentIs
<1>2. bus[at].serial = <<bus[at].serial[1], bus[at].serial[2]>>
  BY <1>1, DeviceIs
<1> DEFINE m == Meter(variant, prefix)
<1>3. m.variant = variant /\ m.serial = <<prefix, ident.tail>> /\ m.sure = (ident.product # NoCode)
  BY MeterIs
<1> HIDE DEF m
<1>4. m.serial[2] = bus[at].serial[2]
  BY <1>1, <1>3
<1>5. m.sure => ident.product # NoCode
  BY <1>3
<1>6. m.sure \/ lost = 0 => m.serial = bus[at].serial /\ m.variant = bus[at].variant
  BY <1>1, <1>2, <1>3, <1>5
<1>7. Rightly(bus[at], m, lost)
  BY <1>1, <1>4, <1>6 DEF Rightly
<1> QED BY <1>7 DEF m

LEMMA GrowKeeps ==
  ASSUME FactsKept, BusInd, IdentifyGrow
  PROVE  BusInd'
<1> DEFINE d == bus[at]
           r == ResolvedProduct(ident)
<1>1. /\ stage = "identify" /\ r \in DOMAIN GrowVariants /\ missed' = missed
      /\ NextSlave(Meter(GrowVariants[r], r))
  BY DEF IdentifyGrow, IsGrow
<1>2. /\ d # Silent /\ at \in Slaves /\ ident.code \in {NoCode, d.code}
      /\ ident.product \in {NoCode, d.product} /\ missed \in Nat
      /\ missed = 0 => ident.code = d.code /\ ident.product = d.product
  BY <1>1 DEF BusInd, IdentIs, FactsKept
<1>3. /\ <<d.variant, d.serial[1]>> = NamedBy(d)
      /\ d.code \in DOMAIN GrowVariants => d.variant # NoCode
  BY <1>2, DeviceIs
<1>4. r = IF ident.product # NoCode THEN ident.product ELSE ident.code
  BY DEF ResolvedProduct
<1> HIDE DEF d, r
<1>5. CASE ident.product # NoCode
  <2>1. r = d.product /\ d.product \in DOMAIN GrowVariants
    BY <1>1, <1>2, <1>4, <1>5
  <2>2. d.variant = GrowVariants[r] /\ d.serial[1] = r
    BY <1>3, <2>1, NamedIs DEF NamedBy
  <2> QED BY <1>1, <1>2, <2>2, Identified, TablesName, SlaveDone, MeterIs DEF d
<1>6. CASE ident.product = NoCode
  <2>1. r = d.code /\ d.code \in DOMAIN GrowVariants
    BY <1>1, <1>2, <1>4, <1>6, TablesName
  <2>2. d.variant # NoCode
    BY <1>3, <2>1
  <2>3. missed = 0 => d.variant = GrowVariants[r] /\ d.serial[1] = r
    <3> SUFFICES ASSUME missed = 0
                 PROVE  d.variant = GrowVariants[r] /\ d.serial[1] = r
      OBVIOUS
    <3>1. d.product = NoCode
      BY <1>2, <1>6
    <3>2. NamedBy(d) = <<GrowVariants[r], r>>
      BY <2>1, <3>1, TablesName DEF NamedBy
    <3> QED BY <1>3, <3>2, NamedIs
  <2> QED BY <1>1, <1>2, <1>6, <2>2, <2>3, Identified, SlaveDone, MeterIs DEF d
<1> QED BY <1>5, <1>6

\* A device that is read whole and is not identified as a GROW meter is none.
LEMMA NotGrow ==
  ASSUME FactsKept, BusInd, stage = "identify", ~IsGrow(ident), ident.product # NoCode \/ missed = 0
  PROVE  /\ bus[at].product \notin DOMAIN GrowVariants /\ ident.product = bus[at].product
         /\ ~(bus[at].product = NoCode /\ bus[at].code \in DOMAIN GrowVariants)
<1>1. /\ ident.product \in {NoCode, bus[at].product}
      /\ missed = 0 => ident.code = bus[at].code /\ ident.product = bus[at].product
  BY DEF BusInd, IdentIs
<1> QED BY <1>1, TablesName DEF IsGrow, ResolvedProduct

\* What every identification starts from
LEMMA Identifying ==
  ASSUME FactsKept, BusInd, stage = "identify"
  PROVE  LET d == bus[at]
         IN  /\ d # Silent /\ at \in Slaves /\ ident.code \in {NoCode, d.code} /\ missed \in Nat
             /\ <<d.variant, d.serial[1]>> = NamedBy(d)
             /\ missed = 0 => ident.code = d.code /\ ident.product = d.product
<1>1. /\ bus[at] # Silent /\ at \in Slaves /\ ident.code \in {NoCode, bus[at].code} /\ missed \in Nat
      /\ missed = 0 => ident.code = bus[at].code /\ ident.product = bus[at].product
  BY DEF BusInd, IdentIs, FactsKept
<1> QED BY <1>1, DeviceIs

LEMMA AmpsKeeps ==
  ASSUME FactsKept, BusInd, NEW ok \in BOOLEAN, IdentifyByAmps(ok)
  PROVE  BusInd'
<1> DEFINE d == bus[at]
           rule == ByAmps[ident.code]
           is == IF d.amps = rule.at THEN rule.then ELSE rule.else
<1>1. /\ stage = "identify" /\ ~IsGrow(ident) /\ ident.code \in DOMAIN ByAmps
      /\ IF ok THEN missed' = missed /\ NextSlave(Meter(is[1], is[2]))
         ELSE Loses(1) /\ NextSlave(NoMeter)
  BY DEF IdentifyByAmps
<1>2. d # Silent /\ at \in Slaves /\ ident.code = d.code /\ missed \in Nat
  BY <1>1, Identifying, TablesName
<1>3. <<d.variant, d.serial[1]>> = NamedBy(d)
  BY <1>1, Identifying
<1>4. is = <<is[1], is[2]>> /\ is[1] # NoCode
  BY <1>1, TablesName
<1>5. /\ d.product \notin DOMAIN GrowVariants
      /\ ~(d.product = NoCode /\ d.code \in DOMAIN GrowVariants)
      => d.variant = is[1] /\ d.serial[1] = is[2]
  <2> SUFFICES ASSUME d.product \notin DOMAIN GrowVariants,
                      ~(d.product = NoCode /\ d.code \in DOMAIN GrowVariants)
               PROVE  d.variant = is[1] /\ d.serial[1] = is[2]
    OBVIOUS
  <2>1. NamedBy(d) = is
    BY <1>1, <1>2 DEF NamedBy
  <2> HIDE DEF is
  <2> QED BY <1>3, <1>4, <2>1, NamedIs
<1>6. d.variant # NoCode
  <2>1. CASE d.product \in DOMAIN GrowVariants
    <3>1. d.variant = GrowVariants[d.product]
      BY <1>3, <2>1, NamedIs DEF NamedBy
    <3> QED BY <2>1, <3>1, TablesName
  <2>2. CASE d.product \notin DOMAIN GrowVariants /\ d.product = NoCode /\ d.code \in DOMAIN GrowVariants
    <3>1. d.variant = GrowVariants[d.code]
      BY <1>3, <2>2, NamedIs DEF NamedBy
    <3> QED BY <2>2, <3>1, TablesName
  <2> QED BY <1>4, <1>5, <2>1, <2>2
<1>7. ident.product # NoCode \/ missed = 0 => d.variant = is[1] /\ d.serial[1] = is[2]
  BY <1>1, <1>5, NotGrow
<1> HIDE DEF d, is
<1>8. CASE ok
  <2>1. missed' = missed /\ NextSlave(Meter(is[1], is[2]))
    BY <1>1, <1>8
  <2> QED BY <1>1, <1>2, <1>6, <1>7, <2>1, Identified, SlaveDone, MeterIs DEF d
<1>9. CASE ~ok
  <2>1. Loses(1) /\ NextSlave(NoMeter)
    BY <1>1, <1>9
  <2>2. missed' \in Nat /\ missed' # 0
    BY <1>2, <2>1, LosesIs
  <2> QED BY <1>1, <2>1, <2>2, SlaveDone
<1> QED BY <1>8, <1>9

LEMMA CodeKeeps ==
  ASSUME FactsKept, BusInd, IdentifyByCode
  PROVE  BusInd'
<1> DEFINE d == bus[at]
           c == ident.code
           p == ident.product
<1>1. /\ stage = "identify" /\ ~IsGrow(ident) /\ c \notin DOMAIN ByAmps /\ missed' = missed
  BY DEF IdentifyByCode
<1>2. d # Silent /\ at \in Slaves /\ c \in {NoCode, d.code} /\ missed \in Nat
  BY <1>1, Identifying
<1>3. <<d.variant, d.serial[1]>> = NamedBy(d)
  BY <1>1, Identifying
<1>4. p # NoCode \/ missed = 0 =>
        /\ d.product \notin DOMAIN GrowVariants /\ p = d.product
        /\ ~(d.product = NoCode /\ d.code \in DOMAIN GrowVariants)
  BY <1>1, NotGrow
<1>5. d.product \in DOMAIN GrowVariants => d.variant # NoCode
  <2> SUFFICES ASSUME d.product \in DOMAIN GrowVariants
               PROVE  d.variant # NoCode
    OBVIOUS
  <2>1. d.variant = GrowVariants[d.product]
    BY <1>3, NamedIs DEF NamedBy
  <2> QED BY <2>1, TablesName
<1>6. d.code \in DOMAIN GrowVariants => d.variant # NoCode
  BY <1>2, DeviceIs
<1>7. /\ missed' \in Nat /\ (missed' = 0 => missed = 0)
      /\ stage \in {"tail", "code", "product", "identify"}
  BY <1>1, <1>2
<1>8. CASE c \in DOMAIN Forced
  <2>1. NextSlave(Meter(Forced[c][1], Forced[c][2])) /\ c = d.code
    BY <1>2, <1>8, TablesName DEF IdentifyByCode
  <2>2. d.product \notin DOMAIN GrowVariants /\ d.code \notin DOMAIN GrowVariants
        => d.variant = Forced[c][1] /\ d.serial[1] = Forced[c][2]
    <3> SUFFICES ASSUME d.product \notin DOMAIN GrowVariants, d.code \notin DOMAIN GrowVariants
                 PROVE  d.variant = Forced[c][1] /\ d.serial[1] = Forced[c][2]
      OBVIOUS
    <3>1. NamedBy(d) = Forced[c]
      BY <1>1, <1>8, <2>1 DEF NamedBy
    <3>2. Forced[c] = <<Forced[c][1], Forced[c][2]>>
      BY <1>8, TablesName
    <3> QED BY <1>3, <3>1, <3>2, NamedIs
  <2>3. d.variant # NoCode
    BY <1>5, <1>6, <1>8, <2>2, TablesName
  <2>4. p # NoCode \/ missed = 0 => d.variant = Forced[c][1] /\ d.serial[1] = Forced[c][2]
    <3> SUFFICES ASSUME p # NoCode \/ missed = 0
                 PROVE  d.variant = Forced[c][1] /\ d.serial[1] = Forced[c][2]
      OBVIOUS
    <3>1. NamedBy(d) = Forced[c]
      BY <1>1, <1>4, <1>8, <2>1 DEF NamedBy
    <3>2. Forced[c] = <<Forced[c][1], Forced[c][2]>>
      BY <1>8, TablesName
    <3> QED BY <1>3, <3>1, <3>2, NamedIs
  <2> HIDE DEF d, c, p
  <2>5. Rightly(d, Meter(Forced[c][1], Forced[c][2]), missed')
    BY <1>1, <1>7, <2>3, <2>4, Identified DEF d, p
  <2> QED BY <1>7, <2>1, <2>5, SlaveDone, MeterIs DEF d
<1>9. CASE c \notin DOMAIN Forced /\ c \in DOMAIN Fallback
  <2> DEFINE q == IF p # NoCode THEN p ELSE Fallback[c][2]
  <2>1. NextSlave(Meter(Fallback[c][1], q)) /\ c = d.code
    BY <1>2, <1>9, TablesName DEF IdentifyByCode
  <2>2. d.product \notin DOMAIN GrowVariants /\ d.code \notin DOMAIN GrowVariants
        => d.variant = Fallback[c][1]
    <3> SUFFICES ASSUME d.product \notin DOMAIN GrowVariants, d.code \notin DOMAIN GrowVariants
                 PROVE  d.variant = Fallback[c][1]
      OBVIOUS
    <3>1. NamedBy(d) = <<Fallback[c][1], IF d.product = NoCode THEN Fallback[c][2] ELSE d.product>>
      BY <1>1, <1>9, <2>1 DEF NamedBy
    <3> QED BY <1>3, <3>1, NamedIs
  <2>3. d.variant # NoCode
    BY <1>5, <1>6, <1>9, <2>2, TablesName
  <2>4. p # NoCode \/ missed = 0 => d.variant = Fallback[c][1] /\ d.serial[1] = q
    <3> SUFFICES ASSUME p # NoCode \/ missed = 0
                 PROVE  d.variant = Fallback[c][1] /\ d.serial[1] = q
      OBVIOUS
    <3>1. NamedBy(d) = <<Fallback[c][1], IF d.product = NoCode THEN Fallback[c][2] ELSE d.product>>
      BY <1>1, <1>4, <1>9, <2>1 DEF NamedBy
    <3>2. q = IF d.product = NoCode THEN Fallback[c][2] ELSE d.product
      BY <1>4
    <3> QED BY <1>3, <3>1, <3>2, NamedIs
  <2> HIDE DEF d, c, p, q
  <2>5. Rightly(d, Meter(Fallback[c][1], q), missed')
    BY <1>1, <1>7, <2>3, <2>4, Identified DEF d, p
  <2> QED BY <1>7, <2>1, <2>5, SlaveDone, MeterIs DEF d
<1>10. CASE c \notin DOMAIN Forced /\ c \notin DOMAIN Fallback /\ c \in DOMAIN NoPrefix /\ p # NoCode
  <2>1. NextSlave(Meter(NoPrefix[c], p)) /\ c = d.code
    BY <1>2, <1>10, TablesName DEF IdentifyByCode
  <2>2. NamedBy(d) = <<NoPrefix[c], p>>
    BY <1>1, <1>4, <1>10, <2>1 DEF NamedBy
  <2>3. d.variant = NoPrefix[c] /\ d.serial[1] = p
    BY <1>3, <2>2, NamedIs
  <2>4. d.variant # NoCode
    BY <1>10, <2>3, TablesName
  <2> HIDE DEF d, c, p
  <2>5. Rightly(d, Meter(NoPrefix[c], p), missed')
    BY <1>1, <1>7, <2>3, <2>4, Identified DEF d, p
  <2> QED BY <1>7, <2>1, <2>5, SlaveDone, MeterIs DEF d
<1>11. CASE c \notin DOMAIN Forced /\ c \notin DOMAIN Fallback /\ ~(c \in DOMAIN NoPrefix /\ p # NoCode)
  <2>1. NextSlave(NoMeter)
    BY <1>11 DEF IdentifyByCode
  <2>2. missed = 0 => d.variant = NoCode
    <3> SUFFICES ASSUME missed = 0
                 PROVE  d.variant = NoCode
      OBVIOUS
    <3>1. c = d.code
      BY <1>1, Identifying
    <3>2. NamedBy(d) = <<NoCode, d.serial[1]>>
      BY <1>1, <1>4, <1>11, <3>1 DEF NamedBy
    <3> QED BY <1>3, <3>2, NamedIs
  <2>3. missed' = 0 => at \notin Supported
    BY <1>7, <2>2 DEF Supported
  <2> QED BY <1>7, <2>1, <2>3, SlaveDone
<1> QED BY <1>8, <1>9, <1>10, <1>11

\* A step that stays at the slave it is at, with nothing found
LEMMA SameSlave ==
  ASSUME BusInd, UNCHANGED <<bus, found, at>>, missed' \in Nat, missed' = 0 => missed = 0,
         stage \in {"start", "tail", "code", "product"},
         stage' \in {"tail", "code", "product", "identify", "failed"}, IdentIs'
  PROVE  BusInd'
<1>1. \A s \in DOMAIN found' : Rightly(bus'[s], found'[s], missed')
  BY DEF BusInd, Rightly
<1>2. \A s \in DOMAIN found' : s < at'
  <2>1. CASE stage = "start"
    <3>1. DOMAIN <<>> = {}
      OBVIOUS
    <3> QED BY <2>1, <3>1 DEF BusInd
  <2>2. CASE stage # "start"
    BY <2>2 DEF BusInd
  <2> QED BY <2>1, <2>2
<1>3. missed' = 0 => \A s \in Slaves : s < at' => (s \in DOMAIN found' <=> s \in Supported')
  <2>1. CASE stage = "start"
    BY <2>1, SlavesAre DEF BusInd
  <2>2. CASE stage # "start"
    BY <2>2 DEF BusInd, Supported
  <2> QED BY <2>1, <2>2
<1>4. at' \in Slaves /\ DOMAIN found' \subseteq Slaves
  BY DEF BusInd
<1>5. stage' # "start" /\ stage' # "done"
  OBVIOUS
<1> QED BY <1>1, <1>2, <1>3, <1>4, <1>5 DEF BusInd

LEMMA ReadsIs ==
  ASSUME FactsKept, NEW value, NEW into \in {"code", "product"}, Reads(value, into),
         ident = [tail |-> ident.tail, code |-> ident.code, product |-> ident.product],
         ident[into] = NoCode
  PROVE  /\ missed' \in Nat /\ (missed' = 0 => missed = 0)
         /\ ident' = [tail |-> ident'.tail, code |-> ident'.code, product |-> ident'.product]
         /\ ident'.tail = ident.tail /\ ident'[into] \in {NoCode, value}
         /\ missed' = 0 => ident'[into] = value
         /\ into = "code" => ident'.product = ident.product
         /\ into = "product" => ident'.code = ident.code
<1>1. CASE value # NoCode /\ missed' = missed /\ ident' = [ident EXCEPT ![into] = value]
  <2>1. CASE into = "code"
    <3>1. ident' = [tail |-> ident.tail, code |-> value, product |-> ident.product]
      BY <1>1, <2>1
    <3> QED BY <1>1, <2>1, <3>1 DEF FactsKept
  <2>2. CASE into = "product"
    <3>1. ident' = [tail |-> ident.tail, code |-> ident.code, product |-> value]
      BY <1>1, <2>2
    <3> QED BY <1>1, <2>2, <3>1 DEF FactsKept
  <2> QED BY <2>1, <2>2
<1>2. CASE value = NoCode /\ UNCHANGED <<missed, ident>>
  BY <1>2 DEF FactsKept
<1>3. CASE value # NoCode /\ Loses(1) /\ ident' = ident
  <2>1. missed' \in Nat /\ missed' # 0
    BY <1>3, LosesIs DEF FactsKept
  <2> QED BY <1>3, <2>1
<1> QED BY <1>1, <1>2, <1>3 DEF Reads

LEMMA TailKeeps ==
  ASSUME FactsKept, BusInd, NEW ok \in BOOLEAN, ReadTail(ok)
  PROVE  BusInd'
<1>1. stage = "tail" /\ ident = NoIdent /\ missed \in Nat /\ at \in Slaves
  BY DEF ReadTail, BusInd, IdentIs, FactsKept
<1>2. CASE ok
  <2>1. /\ bus[at] # Silent /\ missed' = missed /\ stage' = "code"
        /\ ident' = [ident EXCEPT !.tail = bus[at].serial[2]]
        /\ UNCHANGED <<bus, found, at>>
    BY <1>2 DEF ReadTail, facts
  <2>2. ident' = [tail |-> bus[at].serial[2], code |-> NoCode, product |-> NoCode]
    BY <1>1, <2>1 DEF NoIdent
  <2>3. /\ ident' = [tail |-> ident'.tail, code |-> ident'.code, product |-> ident'.product]
        /\ ident'.tail = bus[at].serial[2] /\ ident'.code = NoCode /\ ident'.product = NoCode
    BY <2>2
  <2>4. IdentIs'
    BY <2>1, <2>3 DEF IdentIs
  <2> QED BY <1>1, <2>1, <2>4, SameSlave
<1>3. CASE ~ok
  <2>1. NextSlave(NoMeter) /\ IF bus[at] = Silent THEN missed' = missed ELSE Loses(1)
    BY <1>3 DEF ReadTail
  <2>2. missed' \in Nat /\ (missed' = 0 => missed = 0 /\ bus[at] = Silent)
    BY <1>1, <2>1, LosesIs
  <2>3. missed' = 0 => at \notin Supported
    BY <2>2 DEF Supported
  <2> QED BY <1>1, <2>1, <2>2, <2>3, SlaveDone
<1> QED BY <1>2, <1>3

LEMMA ReadKeeps ==
  ASSUME FactsKept, BusInd, ReadCode \/ ReadProduct
  PROVE  BusInd'
<1>1. ident = [tail |-> ident.tail, code |-> ident.code, product |-> ident.product]
  BY DEF BusInd, IdentIs
<1>2. CASE ReadCode
  <2>1. /\ stage = "code" /\ stage' = "product" /\ Reads(bus[at].code, "code")
        /\ UNCHANGED <<bus, found, at>>
    BY <1>2 DEF ReadCode, facts
  <2>2. /\ bus[at] # Silent /\ ident.tail = bus[at].serial[2]
        /\ ident.code = NoCode /\ ident.product = NoCode
    BY <2>1 DEF BusInd, IdentIs
  <2>3. /\ missed' \in Nat /\ (missed' = 0 => missed = 0)
        /\ ident' = [tail |-> ident'.tail, code |-> ident'.code, product |-> ident'.product]
        /\ ident'.tail = ident.tail /\ ident'.code \in {NoCode, bus[at].code}
        /\ missed' = 0 => ident'.code = bus[at].code
        /\ ident'.product = ident.product
    BY <1>1, <2>1, <2>2, ReadsIs
  <2>4. IdentIs'
    BY <2>1, <2>2, <2>3 DEF IdentIs
  <2> QED BY <2>1, <2>3, <2>4, SameSlave
<1>3. CASE ReadProduct
  <2>1. /\ stage = "product" /\ stage' = "identify" /\ Reads(bus[at].product, "product")
        /\ UNCHANGED <<bus, found, at>>
    BY <1>3 DEF ReadProduct, facts
  <2>2. /\ bus[at] # Silent /\ ident.tail = bus[at].serial[2] /\ ident.product = NoCode
        /\ ident.code \in {NoCode, bus[at].code} /\ (missed = 0 => ident.code = bus[at].code)
    BY <2>1 DEF BusInd, IdentIs
  <2>3. /\ missed' \in Nat /\ (missed' = 0 => missed = 0)
        /\ ident' = [tail |-> ident'.tail, code |-> ident'.code, product |-> ident'.product]
        /\ ident'.tail = ident.tail /\ ident'.product \in {NoCode, bus[at].product}
        /\ missed' = 0 => ident'.product = bus[at].product
        /\ ident'.code = ident.code
    BY <1>1, <2>1, <2>2, ReadsIs
  <2>4. IdentIs'
    BY <2>1, <2>2, <2>3 DEF IdentIs
  <2> QED BY <2>1, <2>3, <2>4, SameSlave
<1> QED BY <1>2, <1>3

LEMMA BusNext ==
  ASSUME FactsKept, kind = "bus", probing = {}, BusInd, ScanNext
  PROVE  BusInd'
<1>1. ASSUME NEW ok \in BOOLEAN, BusPing(ok)
      PROVE  BusInd'
  <2>1. /\ stage = "start" /\ stage' \in {"tail", "failed"} /\ UNCHANGED <<bus, found, at, ident>>
        /\ IF ok THEN missed' = missed ELSE Loses(1)
    BY <1>1 DEF BusPing, facts
  <2>2. missed' \in Nat /\ (missed' = 0 => missed = 0)
    BY <2>1, LosesIs DEF FactsKept
  <2>3. IdentIs'
    BY <2>1 DEF BusInd, IdentIs, NoIdent
  <2> QED BY <2>1, <2>2, <2>3, SameSlave
<1>2. ASSUME NEW ok \in BOOLEAN, ReadTail(ok) \/ IdentifyByAmps(ok)
      PROVE  BusInd'
  BY <1>2, TailKeeps, AmpsKeeps
<1>3. CASE ReadCode \/ ReadProduct \/ IdentifyGrow \/ IdentifyByCode
  BY <1>3, ReadKeeps, GrowKeeps, CodeKeeps
<1>4. ASSUME NEW targets, BrowseOrProbe(targets)
      PROVE  FALSE
  BY <1>4 DEF BrowseOrProbe
<1>5. ASSUME BrowseEnds \/ GatherEnds
      PROVE  FALSE
  BY <1>5 DEF BusInd, BrowseEnds, GatherEnds
<1>6. ASSUME NEW h \in Hosts, BrowseAnswer(h) \/ ProbeStart(h)
      PROVE  FALSE
  BY <1>6 DEF BusInd, BrowseAnswer, ProbeStart
<1>7. ASSUME NEW ads, ProxyAnswers(ads)
      PROVE  FALSE
  BY <1>7 DEF ProxyAnswers
<1>8. ASSUME NEW h \in Hosts, NEW block, NEW type, NEW firmware, ProbeEnds(h, block, type, firmware)
      PROVE  FALSE
  BY <1>8 DEF ProbeEnds
<1> QED BY <1>1, <1>2, <1>3, <1>4, <1>5, <1>6, <1>7, <1>8 DEF ScanNext

\* The meters a proxy hears

\* What the advertisements up to number n say: each meter by its strongest one.
Strongest(known, ads, n) ==
  /\ \A s \in DOMAIN known :
        /\ known[s] \in {ads[i] : i \in 1 .. n} /\ known[s].serial = s
        /\ \A i \in 1 .. n : ads[i].serial = s => ads[i].rssi <= known[s].rssi
  /\ \A i \in 1 .. n : ads[i].serial[1] \in DOMAIN GrowVariants => ads[i].serial \in DOMAIN known
  /\ \A s \in DOMAIN known : s[1] \in DOMAIN GrowVariants

LEMMA BestKeeps ==
  ASSUME NEW ads, NEW n \in Nat, \A i \in 1 .. n + 1 : ads[i].rssi \in Int,
         NEW known, Strongest(known, ads, n)
  PROVE  Strongest(Best(known, ads[n + 1]), ads, n + 1)
<1> DEFINE ad == ads[n + 1]
           sn == ad.serial
           next == Best(known, ad)
           taken == /\ sn[1] \in DOMAIN GrowVariants
                    /\ sn \in DOMAIN known => ad.rssi > known[sn].rssi
<1>1. next = IF taken THEN With(known, sn, ad) ELSE known
  BY DEF Best
<1>2. \A i \in 1 .. n + 1 : i \in 1 .. n \/ i = n + 1
  OBVIOUS
<1>3. /\ n + 1 \in 1 .. n + 1 /\ \A i \in 1 .. n : i \in 1 .. n + 1
      /\ ad.rssi \in Int
  OBVIOUS
<1>4. \A s \in DOMAIN known :
        /\ known[s].rssi \in Int /\ known[s] \in {ads[i] : i \in 1 .. n + 1} /\ known[s].serial = s
        /\ \A i \in 1 .. n : ads[i].serial = s => ads[i].rssi <= known[s].rssi
  BY <1>3 DEF Strongest
<1> HIDE DEF next, ad
<1>5. CASE taken
  <2>1. next = [z \in DOMAIN known \cup {sn} |-> IF z = sn THEN ad ELSE known[z]]
    BY <1>1, <1>5 DEF With
  <2>2. /\ DOMAIN next = DOMAIN known \cup {sn} /\ next[sn] = ad
        /\ \A s \in DOMAIN known : s # sn => next[s] = known[s]
    BY <2>1
  <2>3. \A i \in 1 .. n : ads[i].serial = sn => ads[i].rssi <= ad.rssi
    <3> SUFFICES ASSUME NEW i \in 1 .. n, ads[i].serial = sn
                 PROVE  ads[i].rssi <= ad.rssi
      OBVIOUS
    <3>1. sn \in DOMAIN known
      BY <1>5 DEF Strongest
    <3>2. ads[i].rssi <= known[sn].rssi /\ ads[i].rssi \in Int /\ known[sn].rssi \in Int
      BY <1>3, <1>4, <3>1
    <3>3. ad.rssi > known[sn].rssi
      BY <1>5, <3>1
    <3> QED BY <1>3, <3>2, <3>3
  <2>4. ASSUME NEW s \in DOMAIN next
        PROVE  /\ next[s] \in {ads[i] : i \in 1 .. n + 1} /\ next[s].serial = s
               /\ \A i \in 1 .. n + 1 : ads[i].serial = s => ads[i].rssi <= next[s].rssi
    <3>1. CASE s = sn
      BY <1>2, <1>3, <2>2, <2>3, <3>1 DEF ad
    <3>2. CASE s # sn /\ s \in DOMAIN known
      BY <1>2, <1>4, <2>2, <3>2 DEF ad
    <3> QED BY <2>2, <3>1, <3>2
  <2>5. \A i \in 1 .. n + 1 : ads[i].serial[1] \in DOMAIN GrowVariants => ads[i].serial \in DOMAIN next
    BY <1>2, <2>2 DEF Strongest, ad
  <2>6. \A s \in DOMAIN next : s[1] \in DOMAIN GrowVariants
    BY <1>5, <2>2 DEF Strongest
  <2> QED BY <2>4, <2>5, <2>6 DEF Strongest, next, ad
<1>6. CASE ~taken
  <2>1. next = known
    BY <1>1, <1>6
  <2>2. \A s \in DOMAIN known : ad.serial = s => ad.rssi <= known[s].rssi
    BY <1>3, <1>4, <1>6 DEF Strongest
  <2>3. ad.serial[1] \in DOMAIN GrowVariants => ad.serial \in DOMAIN known
    BY <1>6
  <2>4. \A s \in DOMAIN known :
          \A i \in 1 .. n + 1 : ads[i].serial = s => ads[i].rssi <= known[s].rssi
    BY <1>2, <1>4, <2>2 DEF ad
  <2>5. \A i \in 1 .. n + 1 : ads[i].serial[1] \in DOMAIN GrowVariants => ads[i].serial \in DOMAIN known
    BY <1>2, <2>3 DEF Strongest, ad
  <2>6. Strongest(known, ads, n + 1)
    BY <1>4, <2>4, <2>5 DEF Strongest
  <2> QED BY <2>1, <2>6 DEF next, ad
<1> QED BY <1>5, <1>6

Bests(u, ads, N) ==
  u = [n \in 0 .. N |-> IF n = 0 THEN <<>> ELSE Best(u[n - 1], ads[n])]

\* The recursion of BestOf has a solution.
LEMMA BestsExist ==
  ASSUME NEW ads, NEW N \in Nat
  PROVE  \E u : Bests(u, ads, N)
<1> DEFINE K == {k \in Nat : \E u : Bests(u, ads, k)}
<1>1. 0 \in K
  <2> DEFINE u == [n \in 0 .. 0 |-> <<>>]
  <2>1. Bests(u, ads, 0)
    BY DEF Bests
  <2> HIDE DEF u
  <2> QED BY <2>1
<1>2. ASSUME NEW k \in Nat, k \in K
      PROVE  k + 1 \in K
  <2>1. PICK u : Bests(u, ads, k)
    BY <1>2
  <2> DEFINE w == [n \in 0 .. k + 1 |-> IF n = k + 1 THEN Best(u[k], ads[k + 1]) ELSE u[n]]
  <2>2. w[k + 1] = Best(u[k], ads[k + 1]) /\ \A n \in 0 .. k : w[n] = u[n]
    OBVIOUS
  <2>3. DOMAIN w = 0 .. k + 1 /\ w = [n \in DOMAIN w |-> w[n]]
    OBVIOUS
  <2> HIDE DEF w
  <2>4. \A n \in 0 .. k + 1 : w[n] = IF n = 0 THEN <<>> ELSE Best(w[n - 1], ads[n])
    <3> TAKE n \in 0 .. k + 1
    <3>1. CASE n = k + 1
      BY <2>2, <3>1
    <3>2. CASE n \in 0 .. k
      <4>1. n # 0 => n - 1 \in 0 .. k
        BY <3>2
      <4>2. u[n] = IF n = 0 THEN <<>> ELSE Best(u[n - 1], ads[n])
        BY <2>1, <3>2 DEF Bests
      <4> QED BY <2>2, <3>2, <4>1, <4>2
    <3> QED BY <3>1, <3>2
  <2>5. Bests(w, ads, k + 1)
    BY <2>3, <2>4 DEF Bests
  <2> QED BY <2>5
<1> HIDE DEF K
<1>3. N \in K
  BY <1>1, <1>2, SetInduction
<1> QED BY <1>3 DEF K

LEMMA BestOfIs ==
  ASSUME NEW ads \in Heard
  PROVE  Strongest(BestOf(ads), ads, Len(ads))
<1> DEFINE N == Len(ads)
           best == CHOOSE u : Bests(u, ads, N)
<1>1. ads \in Seq(Range(ads)) /\ \A ad \in Range(ads) : ad.rssi \in Int
  BY HeardAssumption
<1>2. N \in Nat /\ DOMAIN ads = 1 .. N
  BY <1>1
<1>3. \A i \in 1 .. N : ads[i].rssi \in Int
  BY <1>1, <1>2 DEF Range
<1>4. BestOf(ads) = best[N]
  BY DEF BestOf, Bests
<1>5. Bests(best, ads, N)
  BY <1>2, BestsExist
<1> HIDE DEF best, N
<1> DEFINE K == {k \in Nat : k <= N => Strongest(best[k], ads, k)}
<1>6. 0 \in K
  <2>1. best[0] = <<>>
    BY <1>2, <1>5 DEF Bests
  <2>2. DOMAIN <<>> = {} /\ 1 .. 0 = {}
    OBVIOUS
  <2> QED BY <2>1, <2>2 DEF Strongest
<1>7. ASSUME NEW k \in Nat, k \in K
      PROVE  k + 1 \in K
  <2> SUFFICES ASSUME k + 1 <= N
               PROVE  Strongest(best[k + 1], ads, k + 1)
    OBVIOUS
  <2>1. best[k + 1] = Best(best[k], ads[k + 1])
    BY <1>2, <1>5 DEF Bests
  <2>2. Strongest(best[k], ads, k)
    BY <1>2, <1>7
  <2>3. \A i \in 1 .. k + 1 : ads[i].rssi \in Int
    BY <1>2, <1>3
  <2> QED BY <2>1, <2>2, <2>3, BestKeeps
<1> HIDE DEF K
<1>8. N \in K
  BY <1>2, <1>6, <1>7, SetInduction
<1> QED BY <1>2, <1>4, <1>8 DEF K, N

ProxyInd ==
  /\ stage \in {"start", "proxy", "done"}
  /\ stage # "done" => found = <<>> /\ heard = <<>>
  /\ ProxyMetersFound

LEMMA ProxyNext ==
  ASSUME FactsKept, kind = "proxy", probing = {}, ProxyInd, ScanNext
  PROVE  ProxyInd'
<1>1. ASSUME NEW ads \in Heard, ProxyAnswers(ads)
      PROVE  ProxyInd'
  <2> DEFINE best == BestOf(ads)
  <2>1. CASE best # <<>>
    <3>1. found' = best /\ stage' = "done" /\ heard' = ads
      BY <1>1, <2>1 DEF ProxyAnswers
    <3>2. Strongest(best, ads, Len(ads))
      BY BestOfIs
    <3>3. DOMAIN ads = 1 .. Len(ads)
      BY HeardAssumption
    <3>4. Range(ads) = {ads[i] : i \in 1 .. Len(ads)}
      BY <3>3 DEF Range
    <3> HIDE DEF best
    <3>5. ProxyMetersFound'
      BY <3>1, <3>2, <3>4 DEF ProxyMetersFound, Strongest
    <3> QED BY <3>1, <3>5 DEF ProxyInd
  <2>2. CASE best = <<>>
    <3>1. UNCHANGED <<found, heard>> /\ stage' \in {"proxy", "done"} /\ stage # "done"
      BY <1>1, <2>2 DEF ProxyAnswers
    <3> QED BY <3>1 DEF ProxyInd, ProxyMetersFound
  <2> QED BY <2>1, <2>2
<1>2. ASSUME NEW targets, BrowseOrProbe(targets)
      PROVE  FALSE
  BY <1>2 DEF BrowseOrProbe
<1>3. ASSUME BrowseEnds \/ GatherEnds
      PROVE  FALSE
  BY <1>3 DEF ProxyInd, BrowseEnds, GatherEnds
<1>4. ASSUME NEW h \in Hosts, BrowseAnswer(h) \/ ProbeStart(h)
      PROVE  FALSE
  BY <1>4 DEF ProxyInd, BrowseAnswer, ProbeStart
<1>5. ASSUME NEW h \in Hosts, NEW block, NEW type, NEW firmware, ProbeEnds(h, block, type, firmware)
      PROVE  FALSE
  BY <1>5 DEF ProbeEnds
<1>6. ASSUME NEW ok \in BOOLEAN, BusPing(ok) \/ ReadTail(ok) \/ IdentifyByAmps(ok)
      PROVE  FALSE
  BY <1>6 DEF ProxyInd, BusPing, ReadTail, IdentifyByAmps
<1>7. ASSUME ReadCode \/ ReadProduct \/ IdentifyGrow \/ IdentifyByCode
      PROVE  FALSE
  BY <1>7 DEF ProxyInd, ReadCode, ReadProduct, IdentifyGrow, IdentifyByCode
<1> QED BY <1>1, <1>2, <1>3, <1>4, <1>5, <1>6, <1>7 DEF ScanNext

\* Every scan

ScanInd ==
  /\ FactsKept
  /\ kind = "gateways" => GatewaysInd
  /\ kind = "bus" => probing = {} /\ BusInd
  /\ kind = "proxy" => probing = {} /\ ProxyInd

LEMMA FactsNext ==
  ASSUME FactsKept, ScanNext
  PROVE  FactsKept' /\ kind' = kind
<1> DEFINE F == missed' \in Nat /\ UNCHANGED facts
<1>1. ASSUME NEW n \in Nat, Loses(n)
      PROVE  missed' \in Nat
  BY <1>1, LosesIs DEF FactsKept
<1>2. ASSUME NEW targets, BrowseOrProbe(targets)
      PROVE  F
  BY <1>2 DEF BrowseOrProbe, FactsKept
<1>3. ASSUME BrowseEnds \/ GatherEnds
      PROVE  F
  BY <1>3 DEF BrowseEnds, GatherEnds, FactsKept
<1>4. ASSUME NEW h \in Hosts, BrowseAnswer(h) \/ ProbeStart(h)
      PROVE  F
  BY <1>4 DEF BrowseAnswer, ProbeStart, FactsKept
<1>5. ASSUME NEW h \in Hosts, NEW block \in BOOLEAN, NEW type \in BOOLEAN, NEW firmware \in BOOLEAN,
             ProbeEnds(h, block, type, firmware)
      PROVE  F
  <2>1. UNCHANGED facts /\ (missed' = missed \/ Loses(1 + Lost(type) + Lost(firmware)))
    BY <1>5 DEF ProbeEnds
  <2>2. 1 + Lost(type) + Lost(firmware) \in Nat
    BY DEF Lost
  <2> QED BY <1>1, <2>1, <2>2 DEF FactsKept
<1>6. ASSUME NEW ok \in BOOLEAN, BusPing(ok)
      PROVE  F
  BY <1>1, <1>6 DEF BusPing, FactsKept
<1>7. ASSUME NEW ok \in BOOLEAN, ReadTail(ok)
      PROVE  F
  BY <1>1, <1>7 DEF ReadTail, NextSlave, FactsKept
<1>8. ASSUME NEW ok \in BOOLEAN, IdentifyByAmps(ok)
      PROVE  F
  <2>1. missed' = missed \/ Loses(1)
    BY <1>8 DEF IdentifyByAmps
  <2>2. UNCHANGED facts
    BY <1>8 DEF IdentifyByAmps, NextSlave
  <2> QED BY <1>1, <2>1, <2>2 DEF FactsKept
<1>9. ASSUME ReadCode \/ ReadProduct
      PROVE  F
  BY <1>1, <1>9 DEF ReadCode, ReadProduct, Reads, FactsKept
<1>10. ASSUME IdentifyGrow \/ IdentifyByCode
      PROVE  F
  BY <1>10 DEF IdentifyGrow, IdentifyByCode, NextSlave, FactsKept
<1>11. ASSUME NEW ads, ProxyAnswers(ads)
      PROVE  F
  BY <1>11 DEF ProxyAnswers, FactsKept
<1>12. F
  BY <1>2, <1>3, <1>4, <1>5, <1>6, <1>7, <1>8, <1>9, <1>10, <1>11 DEF ScanNext
<1> QED BY <1>12 DEF FactsKept, facts

\* No other scan than the one of the network probes hosts.
LEMMA NothingProbed ==
  ASSUME probing = {}, stage # "probe", ScanNext
  PROVE  probing' = {}
<1>1. ASSUME NEW h \in Hosts, ProbeStart(h)
      PROVE  FALSE
  BY <1>1 DEF ProbeStart
<1>2. ASSUME NEW h \in Hosts, NEW block, NEW type, NEW firmware, ProbeEnds(h, block, type, firmware)
      PROVE  FALSE
  BY <1>2 DEF ProbeEnds
<1>3. ASSUME NEW ok \in BOOLEAN, BusPing(ok) \/ ReadTail(ok) \/ IdentifyByAmps(ok)
      PROVE  probing' = probing
  BY <1>3 DEF BusPing, ReadTail, IdentifyByAmps, NextSlave
<1>4. ASSUME ReadCode \/ ReadProduct \/ IdentifyGrow \/ IdentifyByCode
      PROVE  probing' = probing
  BY <1>4 DEF ReadCode, ReadProduct, IdentifyGrow, IdentifyByCode, NextSlave
<1>5. ASSUME NEW ads, ProxyAnswers(ads)
      PROVE  probing' = probing
  BY <1>5 DEF ProxyAnswers
<1>6. ASSUME NEW targets, BrowseOrProbe(targets)
      PROVE  probing' = probing
  BY <1>6 DEF BrowseOrProbe
<1>7. ASSUME BrowseEnds \/ GatherEnds
      PROVE  probing' = probing
  BY <1>7 DEF BrowseEnds, GatherEnds
<1>8. ASSUME NEW h \in Hosts, BrowseAnswer(h)
      PROVE  probing' = probing
  BY <1>8 DEF BrowseAnswer
<1> QED BY <1>1, <1>2, <1>3, <1>4, <1>5, <1>6, <1>7, <1>8 DEF ScanNext

LEMMA ScanInitInd ==
  ASSUME ScanInit({"gateways", "bus", "proxy", "none"})
  PROVE  ScanInd
<1>1. /\ stage = "start" /\ found = <<>> /\ asked = {} /\ left = {} /\ probing = {}
      /\ at = 1 /\ ident = NoIdent /\ heard = <<>> /\ missed = 0
  BY DEF ScanInit
<1>2. FactsKept
  <2>1. host \in [Hosts -> HostKinds \cup {Silent}]
    BY DEF ScanInit
  <2>2. bus \in [Slaves -> Devices \cup {Silent}]
    BY DEF ScanInit
  <2> QED BY <1>1, <2>1, <2>2 DEF FactsKept
<1>3. DOMAIN found = {} /\ Range(heard) = {}
  <2>1. DOMAIN <<>> = {}
    OBVIOUS
  <2> QED BY <1>1, <2>1 DEF Range
<1>4. GatewaysInd
  BY <1>1, <1>3 DEF GatewaysInd
<1>5. IdentIs
  BY <1>1 DEF IdentIs, NoIdent
<1>6. BusInd
  BY <1>1, <1>3, <1>5, SlavesAre DEF BusInd
<1>7. ProxyInd
  BY <1>1, <1>3 DEF ProxyInd, ProxyMetersFound
<1> QED BY <1>1, <1>2, <1>4, <1>6, <1>7 DEF ScanInd

LEMMA ScanStep == ScanInd /\ [ScanNext]_<<facts, scan>> => ScanInd'
<1>1. ASSUME ScanInd, ScanNext
      PROVE  ScanInd'
  <2>1. FactsKept' /\ kind' = kind
    BY <1>1, FactsNext DEF ScanInd
  <2>2. kind = "gateways" => GatewaysInd'
    BY <1>1, GatewaysNext DEF ScanInd
  <2>3. kind = "bus" => probing' = {} /\ BusInd'
    <3> SUFFICES ASSUME kind = "bus"
                 PROVE  probing' = {} /\ BusInd'
      OBVIOUS
    <3>1. BusInd /\ probing = {} /\ stage # "probe"
      BY <1>1 DEF ScanInd, BusInd
    <3> QED BY <1>1, <3>1, BusNext, NothingProbed DEF ScanInd
  <2>4. kind = "proxy" => probing' = {} /\ ProxyInd'
    <3> SUFFICES ASSUME kind = "proxy"
                 PROVE  probing' = {} /\ ProxyInd'
      OBVIOUS
    <3>1. ProxyInd /\ probing = {} /\ stage # "probe"
      BY <1>1 DEF ScanInd, ProxyInd
    <3> QED BY <1>1, <3>1, ProxyNext, NothingProbed DEF ScanInd
  <2> QED BY <2>1, <2>2, <2>3, <2>4 DEF ScanInd
<1>2. ASSUME ScanInd, UNCHANGED <<facts, scan>>
      PROVE  ScanInd'
  <2>1. /\ UNCHANGED <<host, bus, kind>>
        /\ UNCHANGED <<stage, found, asked, left, probing, at, ident, heard, missed>>
    BY <1>2 DEF facts, scan
  <2>2. FactsKept' = FactsKept
    BY <2>1 DEF FactsKept
  <2>3. GatewaysInd' = GatewaysInd
    BY <2>1 DEF GatewaysInd
  <2>4. Supported' = Supported
    BY <2>1 DEF Supported
  <2>5. \A d, e : Rightly(d, e, missed') = Rightly(d, e, missed)
    BY <2>1
  <2>6. IdentIs' = IdentIs
    BY <2>1 DEF IdentIs
  <2>7. BusInd' = BusInd
    BY <2>1, <2>4, <2>6 DEF BusInd, Rightly
  <2>8. ProxyInd' = ProxyInd
    BY <2>1 DEF ProxyInd, ProxyMetersFound
  <2> QED BY <1>2, <2>1, <2>2, <2>3, <2>7, <2>8 DEF ScanInd
<1> QED BY <1>1, <1>2

LEMMA ScanFinds == ScanInd => FoundAsTheyAre
<1> SUFFICES ASSUME ScanInd
             PROVE  FoundAsTheyAre
  OBVIOUS
<1>1. kind = "gateways" => GatewaysFound
  BY DEF ScanInd, GatewaysInd, GatewaysFound
<1>2. kind = "bus" => MetersFound
  <2> SUFFICES ASSUME kind = "bus"
               PROVE  MetersFound
    OBVIOUS
  <2>1. BusInd
    BY DEF ScanInd
  <2>2. ASSUME NEW s \in DOMAIN found
        PROVE  /\ s \in Supported /\ found[s].serial[2] = bus[s].serial[2]
               /\ found[s].sure \/ missed = 0 =>
                     found[s].serial = bus[s].serial /\ found[s].variant = bus[s].variant
    BY <2>1, <2>2 DEF BusInd, Rightly, Supported
  <2>3. stage = "done" /\ missed = 0 => DOMAIN found = Supported
    BY <2>1 DEF BusInd
  <2> QED BY <2>2, <2>3 DEF MetersFound
<1>3. kind = "proxy" => ProxyMetersFound
  BY DEF ScanInd, ProxyInd
<1> QED BY <1>1, <1>2, <1>3 DEF FoundAsTheyAre

(* In whatever order hosts are probed and wherever the meters of a bus sit, a scan
   reports what is there, and all of it when no request was lost; a lost request hides
   a device or leaves it unsure, and never makes one up (discovery.py). *)
THEOREM FoundAlways == ScanSpec => []FoundAsTheyAre
<1>1. ScanInit({"gateways", "bus", "proxy", "none"}) => ScanInd
  BY ScanInitInd
<1> QED BY <1>1, ScanStep, ScanFinds, PTL DEF ScanSpec
=============================================================================
