------------------------ MODULE OptimisticEntityProofs ------------------------
(***************************************************************************)
(* For every set of values and every number of overlapping calls: what an  *)
(* entity shows agrees with the meter once the data does.                  *)
(***************************************************************************)
EXTENDS OptimisticEntity, SequenceTheorems, TLAPS

\* The last element of a sequence, and the sequence without element i.
Last(q) == q[Len(q)]
Without(q, i) == SubSeq(q, 1, i - 1) \o SubSeq(q, i + 1, Len(q))

\* A call that joins the queue is its last.
LEMMA AppendedIsLast ==
  ASSUME NEW S, NEW q \in Seq(S), NEW v \in S
  PROVE  Append(q, v) \in Seq(S) /\ Append(q, v) # <<>> /\ Last(Append(q, v)) = v
BY DEF Last

\* The first call to leave the queue is the last only if it is alone.
LEMMA TailKeepsLast ==
  ASSUME NEW S, NEW q \in Seq(S), q # <<>>
  PROVE  /\ Tail(q) \in Seq(S)
         /\ Head(q) \in S
         /\ Tail(q) = <<>> => Last(q) = Head(q)
         /\ Tail(q) # <<>> => Last(Tail(q)) = Last(q)
<1>1. /\ Len(q) \in Nat \ {0} /\ Head(q) \in S /\ Tail(q) \in Seq(S)
      /\ Len(Tail(q)) = Len(q) - 1
      /\ \A j \in 1 .. Len(Tail(q)) : Tail(q)[j] = q[j + 1]
  BY HeadTailProperties, LenProperties, EmptySeq
<1>2. ASSUME Tail(q) = <<>> PROVE Last(q) = Head(q)
  <2>1. Len(Tail(q)) = 0
    <3>1. Len(<<>>) = 0
      BY EmptySeq
    <3> QED BY <1>2, <3>1, Zenon
  <2>2. Len(q) = 1
    <3> DEFINE t == Len(Tail(q))
    <3>1. t = 0 /\ t = Len(q) - 1 /\ Len(q) \in Nat
      BY <1>1, <2>1
    <3> HIDE DEF t
    <3> QED BY <3>1
  <2> QED BY <2>2 DEF Last
<1>3. ASSUME Tail(q) # <<>> PROVE Last(Tail(q)) = Last(q)
  <2>1. Len(Tail(q)) \in 1 .. Len(Tail(q))
    BY <1>1, <1>3, EmptySeq
  <2> QED BY <1>1, <2>1 DEF Last
<1> QED BY <1>1, <1>2, <1>3

\* A call that leaves the queue before the last call leaves that one last.
LEMMA WithoutKeepsLast ==
  ASSUME NEW S, NEW q \in Seq(S), NEW i \in 1 .. Len(q)
  PROVE  /\ Without(q, i) \in Seq(S)
         /\ i # Len(q) => Without(q, i) # <<>> /\ Last(Without(q, i)) = Last(q)
<1> DEFINE l == SubSeq(q, 1, i - 1)
           r == SubSeq(q, i + 1, Len(q))
<1>0. Len(q) \in Nat /\ \A j \in 1 .. Len(q) : q[j] \in S
  BY LenProperties
<1>1. l \in Seq(S) /\ Len(l) = i - 1
  <2>1. \A j \in 1 .. i - 1 : q[j] \in S
    BY <1>0
  <2>2. /\ l \in Seq(S)
        /\ Len(l) = IF 1 <= i - 1 THEN (i - 1) - 1 + 1 ELSE 0
    BY <1>0, <2>1, SubSeqProperties
  <2> QED BY <1>0, <2>2
<1>2. r \in Seq(S) /\ Len(r) = Len(q) - i
      /\ \A j \in 1 .. Len(q) - (i + 1) + 1 : r[j] = q[(i + 1) + j - 1]
  <2>1. \A j \in i + 1 .. Len(q) : q[j] \in S
    BY <1>0
  <2>2. /\ r \in Seq(S)
        /\ Len(r) = IF i + 1 <= Len(q) THEN Len(q) - (i + 1) + 1 ELSE 0
        /\ \A j \in 1 .. Len(q) - (i + 1) + 1 : r[j] = q[(i + 1) + j - 1]
    BY <1>0, <2>1, SubSeqProperties
  <2> QED BY <1>0, <2>2
<1> HIDE DEF l, r
<1>3. ASSUME i # Len(q) PROVE r[Len(r)] = q[Len(q)]
  <2>1. Len(r) \in 1 .. Len(q) - (i + 1) + 1
    BY <1>0, <1>2, <1>3
  <2>2. (i + 1) + Len(r) - 1 = Len(q)
    BY <1>0, <1>2
  <2> QED BY <1>2, <2>1, <2>2
<1>4. /\ l \o r \in Seq(S) /\ Len(l \o r) = Len(l) + Len(r)
      /\ \A j \in 1 .. Len(l) + Len(r) : (l \o r)[j] =
           IF j <= Len(l) THEN l[j] ELSE r[j - Len(l)]
  BY <1>1, <1>2, ConcatProperties
<1>5. ASSUME i # Len(q)
      PROVE  l \o r # <<>> /\ (l \o r)[Len(l) + Len(r)] = r[Len(r)]
  <2>1. Len(r) \in Nat \ {0} /\ Len(l) \in Nat
    BY <1>0, <1>1, <1>2, <1>5
  <2>2. /\ Len(l) + Len(r) \in 1 .. Len(l) + Len(r)
        /\ ~(Len(l) + Len(r) <= Len(l))
        /\ (Len(l) + Len(r)) - Len(l) = Len(r)
    BY <2>1
  <2>3. l \o r # <<>>
    BY <1>4, <2>1
  <2> QED BY <1>4, <2>2, <2>3
<1>6. Without(q, i) = l \o r
  BY DEF Without, l, r
<1> QED
  <2>1. ASSUME i # Len(q) PROVE l \o r # <<>> /\ Last(l \o r) = Last(q)
    BY <1>3, <1>4, <1>5, <2>1 DEF Last
  <2> QED BY <1>4, <1>6, <2>1

-----------------------------------------------------------------------------

LEMMA InitIInv == Init => IInv
<1> SUFFICES ASSUME Init PROVE IInv
  OBVIOUS
<1>1. 0 \in 0 .. Changes
  BY ChangesBound
<1>2. queue \in Seq(Values) /\ poll \in {<<>>} \cup {<<v>> : v \in Known}
  BY DEF Init
<1> QED BY <1>1, <1>2 DEF Init, IInv, TypeOK, OptimisticIsLastWrite, Known

\* The getter never makes up an optimistic value.
LEMMA SettledKeeps ==
  ASSUME NEW o \in Known, NEW a, NEW avail
  PROVE  Settled(o, a, avail) \in {o, None} /\ Settled(o, a, avail) \in Known
BY DEF Settled, Known

LEMMA StepIInv == IInv /\ [Next]_vars => IInv'
<1> SUFFICES ASSUME IInv, [Next]_vars PROVE IInv'
  OBVIOUS
<1> USE DEF IInv
<1> queue \in Seq(Values)
  BY DEF TypeOK
<1>1. ASSUME NEW v \in Values, Start(v) PROVE IInv'
  <2>1. optimistic' \in {v, None} /\ optimistic' \in Known
    BY <1>1, SettledKeeps DEF Start, Known
  <2>2. queue' \in Seq(Values) /\ queue' # <<>> /\ Last(queue') = v
    BY <1>1, AppendedIsLast DEF Start
  <2>3. changes' \in 0 .. Changes
    BY <1>1, ChangesBound DEF Start, TypeOK
  <2> QED BY <1>1, <2>1, <2>2, <2>3 DEF Start, TypeOK, OptimisticIsLastWrite, Last
<1>2. ASSUME NEW v \in OtherValues, OtherWrites(v) PROVE IInv'
  <2>1. changes' \in 0 .. Changes /\ reg' \in Values
    BY <1>2, ChangesBound, OthersAssumption DEF OtherWrites, TypeOK
  <2> QED BY <1>2, <2>1 DEF OtherWrites, TypeOK, OptimisticIsLastWrite
<1>3. ASSUME NEW i \in 1 .. Len(queue), Cancelled(i) PROVE IInv'
  <2>1. queue # <<>> /\ Head(queue) \in Values
    OBVIOUS
  <2>2. reg' \in Values
    BY <1>3, <2>1 DEF Cancelled, MaybeWritten, TypeOK
  <2>3. queue' = Without(queue, i)
    BY <1>3 DEF Cancelled, Without
  <2>4. queue' \in Seq(Values)
    BY <2>3, WithoutKeepsLast
  <2>5. i # Len(queue) => queue' # <<>> /\ Last(queue') = Last(queue)
    BY <2>3, WithoutKeepsLast
  <2>6. disturbed' \in BOOLEAN /\ (~disturbed' => ~disturbed /\ i # Len(queue))
    BY <1>3 DEF Cancelled, TypeOK
  <2>7. TypeOK'
    BY <1>3, <2>2, <2>4, <2>6 DEF Cancelled, TypeOK
  <2>8. OptimisticIsLastWrite'
    BY <1>3, <2>1, <2>5, <2>6 DEF Cancelled, OptimisticIsLastWrite, Last
  <2> QED BY <2>7, <2>8
<1>4. CASE Written
  <2>1. queue # <<>>
    BY <1>4 DEF Written
  <2>2. TypeOK'
    BY <1>4, <2>1, TailKeepsLast DEF Written, TypeOK
  <2>3. OptimisticIsLastWrite'
    BY <1>4, <2>1, TailKeepsLast DEF Written, OptimisticIsLastWrite, Last
  <2> QED BY <2>2, <2>3
<1>5. CASE Fails
  <2>1. queue # <<>>
    BY <1>5 DEF Fails
  <2>2. Head(queue) \in Values /\ Tail(queue) \in Seq(Values)
    BY <2>1, TailKeepsLast
  <2> QED BY <1>5, <2>2 DEF Fails, MaybeWritten, TypeOK, OptimisticIsLastWrite, Known
<1>6. CASE PollReads
  <2>1. poll' \in {<<>>} \cup {<<v>> : v \in Known}
    BY <1>6 DEF PollReads, TypeOK, Known
  <2> QED BY <1>6, <2>1 DEF PollReads, TypeOK, OptimisticIsLastWrite
<1>7. CASE PollSkips
  <2>1. poll' \in {<<>>} \cup {<<v>> : v \in Known}
    BY <1>7 DEF PollSkips, Known
  <2> QED BY <1>7, <2>1 DEF PollSkips, TypeOK, OptimisticIsLastWrite
<1>8. CASE PollReturns
  <2>1. poll[1] \in Known
    BY <1>8 DEF PollReturns, TypeOK
  <2>2. optimistic' \in {optimistic, None} /\ optimistic' \in Known
    BY <1>8, SettledKeeps DEF PollReturns, TypeOK
  <2> QED BY <1>8, <2>1, <2>2 DEF PollReturns, TypeOK, OptimisticIsLastWrite
<1>9. CASE PollFails
  <2>1. optimistic' \in {optimistic, None} /\ optimistic' \in Known
    BY <1>9, SettledKeeps DEF PollFails, TypeOK
  <2> QED BY <1>9, <2>1 DEF PollFails, TypeOK, OptimisticIsLastWrite
<1>10. CASE UNCHANGED vars
  BY <1>10 DEF vars, TypeOK, OptimisticIsLastWrite
<1> QED BY <1>1, <1>2, <1>3, <1>4, <1>5, <1>6, <1>7, <1>8, <1>9, <1>10 DEF Next

\* The optimistic value of an undisturbed entity is that of the last call, or
\* what the meter holds, however many calls overlap and fail.
THEOREM OptimisticInvariance == Spec => []IInv
<1> QED BY InitIInv, StepIInv, PTL DEF Spec

\* Once the data agrees with the meter, so does what the user sees.
THEOREM ShownAgrees == Spec => []ShowsTheMeter
<1>1. IInv => ShowsTheMeter
  BY DEF IInv, TypeOK, OptimisticIsLastWrite, ShowsTheMeter, Shown
<1> QED BY <1>1, OptimisticInvariance, PTL
=============================================================================
