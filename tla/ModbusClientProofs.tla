------------------------- MODULE ModbusClientProofs -------------------------
(***************************************************************************)
(* Theorems about ModbusClient for every set of tasks, transports, values, *)
(* every assignment of methods to tasks and every bound.                   *)
(***************************************************************************)
EXTENDS EntryTeardown, SequenceTheorems, TLAPS

USE TasksAssumption, SessionsAssumption, OpsAssumption, BoundsAssumption,
    CloseAssumption

\* Taking a waiter out of the queue leaves a queue of tasks.
LEMMA RemoveAtType ==
  ASSUME NEW S, NEW q \in Seq(S), NEW i \in DOMAIN q
  PROVE  RemoveAt(q, i) \in Seq(S)
<1>1. i \in 1 .. Len(q) /\ Len(q) \in Nat
  BY LenProperties
<1>2. SubSeq(q, 1, i - 1) \in Seq(S)
  BY <1>1, SubSeqProperties
<1>3. SubSeq(q, i + 1, Len(q)) \in Seq(S)
  BY <1>1, SubSeqProperties
<1> QED
  BY <1>2, <1>3, ConcatProperties DEF RemoveAt

\* The budget of every method is a positive number of requests.
LEMMA BudgetType ==
  ASSUME NEW o \in OpKinds
  PROVE  Budget(o) \in 1 .. MaxBudget
BY DEF Budget, MaxBudget, OpKinds

LEMMA InitIInv == Init => IInv
BY DEF Init, IInv, TypeOK, LockInv, RequestOnCurrentClient, FailedInv,
       ClosingInv, BudgetInv, PCs, OpKinds, Results, MaxBudget

LEMMA StartIInv ==
  ASSUME IInv, NEW t \in Tasks, NEW o \in OpKinds, Start(t, o)
  PROVE  IInv'
<1> USE DEF IInv, TypeOK
<1>1. Budget(o) \in 1 .. MaxBudget
  BY BudgetType
<1>2. waiters' \in Seq(Tasks)
  BY AppendProperties DEF Start
<1>3. want' \in [Tasks -> Values]
  BY DEF Start
<1>4. TypeOK'
  BY <1>1, <1>2, <1>3 DEF Start, PCs, Results
<1>5. LockInv' /\ RequestOnCurrentClient' /\ ClosingInv'
  BY DEF Start, LockInv, RequestOnCurrentClient, ClosingInv
<1>6. FailedInv'
  BY DEF Start, FailedInv
<1>7. BudgetInv'
  BY <1>1 DEF Start, BudgetInv, MaxBudget
<1> QED
  BY <1>4, <1>5, <1>6, <1>7

\* The lock goes to the first waiter.
LEMMA AcquireIInv ==
  ASSUME IInv, NEW t \in Tasks, Acquire(t)
  PROVE  IInv'
<1> USE DEF IInv, TypeOK, Acquire
<1>1. TypeOK'
  BY HeadTailProperties DEF PCs, Results, OpKinds, MaxBudget
<1>2. LockInv' /\ ClosingInv'
  BY DEF LockInv, ClosingInv, PCs
<1>3. RequestOnCurrentClient'
  BY DEF LockInv, RequestOnCurrentClient, ClosingInv, PCs
<1>4. FailedInv'
  BY DEF LockInv, FailedInv, RequestOnCurrentClient, PCs
<1>5. BudgetInv'
  BY DEF BudgetInv, LockInv, PCs, RequestOnCurrentClient, MaxBudget
<1> QED
  BY <1>1, <1>2, <1>3, <1>4, <1>5

\* A connected client is used as it is.
LEMMA ReuseIInv ==
  ASSUME IInv, NEW t \in Tasks, Reuse(t)
  PROVE  IInv'
<1> USE DEF IInv, TypeOK, Reuse, Connected, Leave, callVars
<1>a. lock = t /\ pc[t] = "ensure"
  BY DEF LockInv
<1>1. CASE op[t] = "ping"
  <2>1. TypeOK'
    BY <1>a, <1>1 DEF PCs, Results, OpKinds
  <2>2. LockInv' /\ ClosingInv'
    BY <1>a, <1>1, ZenonT(30) DEF LockInv, ClosingInv, PCs
  <2>3. RequestOnCurrentClient'
    BY <1>a, <1>1 DEF LockInv, RequestOnCurrentClient, ClosingInv, PCs
  <2>4. FailedInv'
    BY <1>a, <1>1 DEF LockInv, FailedInv, RequestOnCurrentClient, PCs
  <2>5. BudgetInv'
    BY <1>a, <1>1 DEF BudgetInv, LockInv, PCs, RequestOnCurrentClient, MaxBudget
  <2> QED
    BY <2>1, <2>2, <2>3, <2>4, <2>5
<1>2. CASE op[t] # "ping"
  <2>1. TypeOK'
    BY <1>a, <1>2 DEF PCs, Results, OpKinds
  <2>2. LockInv' /\ ClosingInv'
    BY <1>a, <1>2 DEF LockInv, ClosingInv, PCs
  <2>3. RequestOnCurrentClient'
    BY <1>a, <1>2 DEF LockInv, RequestOnCurrentClient, ClosingInv, PCs
  <2>4. FailedInv'
    BY <1>a, <1>2 DEF LockInv, FailedInv, RequestOnCurrentClient, PCs
  <2>5. BudgetInv'
    BY <1>a, <1>2 DEF BudgetInv, LockInv, PCs, RequestOnCurrentClient, MaxBudget
  <2> QED
    BY <2>1, <2>2, <2>3, <2>4, <2>5
<1> QED
  BY <1>1, <1>2

\* A client that lost its link is connected again.
LEMMA ReconnectIInv ==
  ASSUME IInv, NEW t \in Tasks, Reconnect(t)
  PROVE  IInv'
<1> USE DEF IInv, TypeOK, Reconnect, callVars
<1>1. TypeOK'
  BY DEF PCs, Results, OpKinds, MaxBudget
<1>2. LockInv' /\ ClosingInv'
  BY DEF LockInv, ClosingInv, PCs
<1>3. RequestOnCurrentClient'
  BY DEF LockInv, RequestOnCurrentClient, ClosingInv, PCs
<1>4. FailedInv'
  BY DEF LockInv, FailedInv, RequestOnCurrentClient, PCs
<1>5. BudgetInv'
  BY DEF BudgetInv, LockInv, PCs, RequestOnCurrentClient, MaxBudget
<1> QED
  BY <1>1, <1>2, <1>3, <1>4, <1>5

\* A client is built when there is none.
LEMMA BuildIInv ==
  ASSUME IInv, NEW t \in Tasks, Build(t)
  PROVE  IInv'
<1> USE DEF IInv, TypeOK, Build, Fresh, callVars
<1>1. TypeOK'
  BY DEF PCs, Results, OpKinds, MaxBudget
<1>2. LockInv' /\ ClosingInv'
  BY DEF LockInv, ClosingInv, PCs
<1>3. RequestOnCurrentClient'
  BY DEF LockInv, RequestOnCurrentClient, ClosingInv, PCs
<1>4. FailedInv'
  BY DEF LockInv, FailedInv, RequestOnCurrentClient, PCs
<1>5. BudgetInv'
  BY DEF BudgetInv, LockInv, PCs, RequestOnCurrentClient, MaxBudget
<1> QED
  BY <1>1, <1>2, <1>3, <1>4, <1>5

\* connect() succeeded.
LEMMA ConnectOkIInv ==
  ASSUME IInv, NEW t \in Tasks, ConnectOk(t)
  PROVE  IInv'
<1> USE DEF IInv, TypeOK, ConnectOk, Connected, Leave, callVars
<1>a. lock = t /\ pc[t] = "connecting" /\ sess[t] \in Sessions
  BY DEF LockInv, RequestOnCurrentClient
<1>1. CASE op[t] = "ping"
  <2>1. TypeOK'
    BY <1>a, <1>1 DEF PCs, Results, OpKinds
  <2>2. LockInv' /\ ClosingInv'
    BY <1>a, <1>1 DEF LockInv, ClosingInv, PCs
  <2>3. RequestOnCurrentClient'
    BY <1>a, <1>1 DEF LockInv, RequestOnCurrentClient, ClosingInv, PCs
  <2>4. FailedInv'
    BY <1>a, <1>1 DEF LockInv, FailedInv, RequestOnCurrentClient, PCs
  <2>5. BudgetInv'
    BY <1>a, <1>1 DEF BudgetInv, LockInv, PCs, RequestOnCurrentClient, MaxBudget
  <2> QED
    BY <2>1, <2>2, <2>3, <2>4, <2>5
<1>2. CASE op[t] # "ping"
  <2>1. TypeOK'
    BY <1>a, <1>2 DEF PCs, Results, OpKinds
  <2>2. LockInv' /\ ClosingInv'
    BY <1>a, <1>2 DEF LockInv, ClosingInv, PCs
  <2>3. RequestOnCurrentClient'
    BY <1>a, <1>2 DEF LockInv, RequestOnCurrentClient, ClosingInv, PCs
  <2>4. FailedInv'
    BY <1>a, <1>2 DEF LockInv, FailedInv, RequestOnCurrentClient, PCs
  <2>5. BudgetInv'
    BY <1>a, <1>2 DEF BudgetInv, LockInv, PCs, RequestOnCurrentClient, MaxBudget
  <2> QED
    BY <2>1, <2>2, <2>3, <2>4, <2>5
<1> QED
  BY <1>1, <1>2

\* connect() failed.
LEMMA ConnectFailsIInv ==
  ASSUME IInv, NEW t \in Tasks, ConnectFails(t)
  PROVE  IInv'
<1> USE DEF IInv, TypeOK, ConnectFails, FailTo, callVars
<1>1. TypeOK'
  BY DEF PCs, Results, OpKinds, MaxBudget
<1>2. LockInv' /\ ClosingInv'
  BY DEF LockInv, ClosingInv, PCs
<1>3. RequestOnCurrentClient'
  BY DEF LockInv, RequestOnCurrentClient, ClosingInv, PCs
<1>4. FailedInv'
  BY DEF LockInv, FailedInv, RequestOnCurrentClient, PCs
<1>5. BudgetInv'
  BY DEF BudgetInv, LockInv, PCs, RequestOnCurrentClient, MaxBudget
<1> QED
  BY <1>1, <1>2, <1>3, <1>4, <1>5

\* The client is forgotten; its close may suspend.
LEMMA ResetClientIInv ==
  ASSUME IInv, NEW t \in Tasks, ResetClient(t)
  PROVE  IInv'
<1> USE DEF IInv, TypeOK, ResetClient, Resume, callVars
<1>a. lock = t /\ pc[t] = "drop"
  BY DEF LockInv
<1>1. CASE resume[t] = "idle"
  <2>1. TypeOK'
    BY <1>a, <1>1 DEF PCs, Results, OpKinds
  <2>2. LockInv' /\ ClosingInv'
    BY <1>a, <1>1, ZenonT(30) DEF LockInv, ClosingInv, PCs
  <2>3. RequestOnCurrentClient'
    BY <1>a, <1>1, ZenonT(30) DEF LockInv, RequestOnCurrentClient, ClosingInv, PCs
  <2>4. FailedInv'
    BY <1>a, <1>1 DEF LockInv, FailedInv, RequestOnCurrentClient, PCs
  <2>5. BudgetInv'
    BY <1>a, <1>1 DEF BudgetInv, LockInv, PCs, RequestOnCurrentClient, MaxBudget
  <2> QED
    BY <2>1, <2>2, <2>3, <2>4, <2>5
<1>2. CASE resume[t] # "idle"
  <2>1. TypeOK'
    BY <1>a, <1>2 DEF PCs, Results, OpKinds
  <2>2. LockInv' /\ ClosingInv'
    BY <1>a, <1>2 DEF LockInv, ClosingInv, PCs
  <2>3. RequestOnCurrentClient'
    BY <1>a, <1>2 DEF LockInv, RequestOnCurrentClient, ClosingInv, PCs
  <2>4. FailedInv'
    BY <1>a, <1>2 DEF LockInv, FailedInv, RequestOnCurrentClient, PCs
  <2>5. BudgetInv'
    BY <1>a, <1>2 DEF BudgetInv, LockInv, PCs, RequestOnCurrentClient, MaxBudget
  <2> QED
    BY <2>1, <2>2, <2>3, <2>4, <2>5
<1> QED
  BY <1>1, <1>2

\* A suspended close completes.
LEMMA ClosedIInv ==
  ASSUME IInv, NEW t \in Tasks, Closed(t)
  PROVE  IInv'
<1> USE DEF IInv, TypeOK, Closed, Resume, callVars
<1>1. TypeOK'
  BY DEF PCs, Results, OpKinds, MaxBudget
<1>2. LockInv' /\ ClosingInv'
  BY DEF LockInv, ClosingInv, PCs
<1>3. RequestOnCurrentClient'
  BY DEF LockInv, RequestOnCurrentClient, ClosingInv, PCs
<1>4. FailedInv'
  BY DEF LockInv, FailedInv, RequestOnCurrentClient, PCs
<1>5. BudgetInv'
  BY DEF BudgetInv, LockInv, PCs, RequestOnCurrentClient, MaxBudget
<1> QED
  BY <1>1, <1>2, <1>3, <1>4, <1>5

\* A read is answered.
LEMMA ReadOkIInv ==
  ASSUME IInv, NEW t \in Tasks, ReadOk(t)
  PROVE  IInv'
<1> USE DEF IInv, TypeOK, ReadOk, NextRequest, Leave, callVars
<1>1. CASE Leave(t, "ok") /\ UNCHANGED left
  <2>1. TypeOK'
    BY <1>1 DEF PCs, Results, OpKinds, MaxBudget
  <2>2. LockInv' /\ ClosingInv'
    BY <1>1 DEF LockInv, ClosingInv, PCs
  <2>3. RequestOnCurrentClient'
    BY <1>1 DEF LockInv, RequestOnCurrentClient, ClosingInv, PCs
  <2>4. FailedInv'
    BY <1>1 DEF LockInv, FailedInv, RequestOnCurrentClient, PCs
  <2>5. BudgetInv'
    BY <1>1 DEF BudgetInv, LockInv, PCs, RequestOnCurrentClient, MaxBudget
  <2> QED
    BY <2>1, <2>2, <2>3, <2>4, <2>5
<1>2. CASE NextRequest(t)
  <2>1. TypeOK'
    BY <1>2 DEF PCs, Results, OpKinds, MaxBudget
  <2>2. LockInv' /\ ClosingInv'
    BY <1>2 DEF LockInv, ClosingInv, PCs
  <2>3. RequestOnCurrentClient'
    BY <1>2 DEF LockInv, RequestOnCurrentClient, ClosingInv, PCs
  <2>4. FailedInv'
    BY <1>2 DEF LockInv, FailedInv, RequestOnCurrentClient, PCs
  <2>5. BudgetInv'
    BY <1>2 DEF BudgetInv, LockInv, PCs, RequestOnCurrentClient, MaxBudget
  <2> QED
    BY <2>1, <2>2, <2>3, <2>4, <2>5
<1> QED
  BY <1>1, <1>2

\* A read is refused.
LEMMA ReadRefusedIInv ==
  ASSUME IInv, NEW t \in Tasks, ReadRefused(t)
  PROVE  IInv'
<1> USE DEF IInv, TypeOK, ReadRefused, NextRequest, Leave, callVars
<1>a. left[t] - 1 \in 0 .. MaxBudget
  BY DEF BudgetInv, MaxBudget
<1>1. CASE NextRequest(t)
  <2>1. TypeOK'
    BY <1>a, <1>1 DEF PCs, Results, OpKinds
  <2>2. LockInv' /\ ClosingInv'
    BY <1>a, <1>1 DEF LockInv, ClosingInv, PCs
  <2>3. RequestOnCurrentClient'
    BY <1>a, <1>1 DEF LockInv, RequestOnCurrentClient, ClosingInv, PCs
  <2>4. FailedInv'
    BY <1>a, <1>1 DEF LockInv, FailedInv, RequestOnCurrentClient, PCs
  <2>5. BudgetInv'
    BY <1>a, <1>1 DEF BudgetInv, LockInv, PCs, RequestOnCurrentClient, MaxBudget
  <2> QED
    BY <2>1, <2>2, <2>3, <2>4, <2>5
<1>2. CASE Leave(t, "ok") /\ UNCHANGED left
  <2>1. TypeOK'
    BY <1>a, <1>2 DEF PCs, Results, OpKinds
  <2>2. LockInv' /\ ClosingInv'
    BY <1>a, <1>2 DEF LockInv, ClosingInv, PCs
  <2>3. RequestOnCurrentClient'
    BY <1>a, <1>2 DEF LockInv, RequestOnCurrentClient, ClosingInv, PCs
  <2>4. FailedInv'
    BY <1>a, <1>2 DEF LockInv, FailedInv, RequestOnCurrentClient, PCs
  <2>5. BudgetInv'
    BY <1>a, <1>2 DEF BudgetInv, LockInv, PCs, RequestOnCurrentClient, MaxBudget
  <2> QED
    BY <2>1, <2>2, <2>3, <2>4, <2>5
<1>3. CASE Leave(t, "read_error") /\ UNCHANGED left
  <2>1. TypeOK'
    BY <1>a, <1>3 DEF PCs, Results, OpKinds
  <2>2. LockInv' /\ ClosingInv'
    BY <1>a, <1>3 DEF LockInv, ClosingInv, PCs
  <2>3. RequestOnCurrentClient'
    BY <1>a, <1>3 DEF LockInv, RequestOnCurrentClient, ClosingInv, PCs
  <2>4. FailedInv'
    BY <1>a, <1>3 DEF LockInv, FailedInv, RequestOnCurrentClient, PCs
  <2>5. BudgetInv'
    BY <1>a, <1>3 DEF BudgetInv, LockInv, PCs, RequestOnCurrentClient, MaxBudget
  <2> QED
    BY <2>1, <2>2, <2>3, <2>4, <2>5
<1> QED
  BY <1>1, <1>2, <1>3

\* A read raises.
LEMMA ReadRaisesIInv ==
  ASSUME IInv, NEW t \in Tasks, ReadRaises(t)
  PROVE  IInv'
<1> USE DEF IInv, TypeOK, FailTo, callVars
<1>b. /\ pc[t] = "request"
      /\ failed' = failed \cup {sess[t]}
      /\ UNCHANGED <<op, want, waiters, reg, client, up, sess>>
  BY DEF ReadRaises
<1>c. sess[t] \in Sessions /\ left[t] - 1 \in 0 .. MaxBudget
  BY <1>b DEF RequestOnCurrentClient, BudgetInv, MaxBudget
<1>d. lock = t
  BY <1>b DEF LockInv
<1>a. /\ lock = t /\ sess[t] \in Sessions
      /\ left[t] - 1 \in 0 .. MaxBudget
      /\ pc[t] = "request"
      /\ failed' = failed \cup {sess[t]}
      /\ UNCHANGED <<op, want, waiters, reg, client, up, sess>>
  BY <1>b, <1>c, <1>d
<1>1. CASE FailTo(t, "ensure", "none") /\ left[t] > 1
            /\ left' = [left EXCEPT ![t] = @ - 1]
  <2>1. TypeOK'
    BY <1>a, <1>1 DEF PCs, Results, OpKinds
  <2>2. LockInv' /\ ClosingInv'
    BY <1>a, <1>1 DEF LockInv, ClosingInv, PCs
  <2>3. RequestOnCurrentClient'
    BY <1>a, <1>1 DEF LockInv, RequestOnCurrentClient, ClosingInv, PCs
  <2>4. FailedInv'
    BY <1>a, <1>1 DEF LockInv, FailedInv, RequestOnCurrentClient, PCs
  <2>5. BudgetInv'
    BY <1>a, <1>1 DEF BudgetInv, LockInv, PCs, RequestOnCurrentClient, MaxBudget
  <2> QED
    BY <2>1, <2>2, <2>3, <2>4, <2>5
<1>2. CASE FailTo(t, "idle", "ok") /\ UNCHANGED left
  <2>1. TypeOK'
    BY <1>a, <1>2 DEF PCs, Results, OpKinds
  <2>2. LockInv' /\ ClosingInv'
    BY <1>a, <1>2 DEF LockInv, ClosingInv, PCs
  <2>3. RequestOnCurrentClient'
    BY <1>a, <1>2 DEF LockInv, RequestOnCurrentClient, ClosingInv, PCs
  <2>4. FailedInv'
    BY <1>a, <1>2 DEF LockInv, FailedInv, RequestOnCurrentClient, PCs
  <2>5. BudgetInv'
    BY <1>a, <1>2 DEF BudgetInv, LockInv, PCs, RequestOnCurrentClient, MaxBudget
  <2> QED
    BY <2>1, <2>2, <2>3, <2>4, <2>5
<1>3. CASE FailTo(t, "idle", "read_error") /\ UNCHANGED left
  <2>1. TypeOK'
    BY <1>a, <1>3 DEF PCs, Results, OpKinds
  <2>2. LockInv' /\ ClosingInv'
    BY <1>a, <1>3 DEF LockInv, ClosingInv, PCs
  <2>3. RequestOnCurrentClient'
    BY <1>a, <1>3 DEF LockInv, RequestOnCurrentClient, ClosingInv, PCs
  <2>4. FailedInv'
    BY <1>a, <1>3 DEF LockInv, FailedInv, RequestOnCurrentClient, PCs
  <2>5. BudgetInv'
    BY <1>a, <1>3 DEF BudgetInv, LockInv, PCs, RequestOnCurrentClient, MaxBudget
  <2> QED
    BY <2>1, <2>2, <2>3, <2>4, <2>5
<1> QED
  BY <1>1, <1>2, <1>3 DEF ReadRaises

\* A write is acknowledged.
LEMMA IssueWriteOkIInv ==
  ASSUME IInv, NEW t \in Tasks, IssueWriteOk(t)
  PROVE  IInv'
<1> USE DEF IInv, TypeOK, IssueWriteOk, Writing
<1>1. TypeOK'
  BY DEF PCs, Results, OpKinds, MaxBudget
<1>2. LockInv' /\ ClosingInv'
  BY DEF LockInv, ClosingInv, PCs
<1>3. RequestOnCurrentClient'
  BY DEF LockInv, RequestOnCurrentClient, ClosingInv, PCs
<1>4. FailedInv'
  BY DEF LockInv, FailedInv, RequestOnCurrentClient, PCs
<1>5. BudgetInv'
  BY DEF BudgetInv, LockInv, PCs, RequestOnCurrentClient, MaxBudget
<1> QED
  BY <1>1, <1>2, <1>3, <1>4, <1>5

\* A task that drops its client after a failed request keeps the lock.
LEMMA DropKeepsLock ==
  ASSUME IInv, NEW t \in Tasks, pc[t] \in {"request", "verify"},
         pc' = [pc EXCEPT ![t] = "drop"], UNCHANGED <<lock, client>>
  PROVE  LockInv' /\ ClosingInv'
  BY DEF IInv, TypeOK, LockInv, ClosingInv, PCs

\* A write fails and is retried or given up.
LEMMA IssueWriteFailsIInv ==
  ASSUME IInv, NEW t \in Tasks, IssueWriteFails(t)
  PROVE  IInv'
<1> USE DEF IInv, TypeOK, IssueWriteFails, RetryWrite, FailTo, Writing
<1>a. /\ sess[t] \in Sessions
      /\ left[t] - 1 \in 0 .. MaxBudget
      /\ reg' \in Values
  BY DEF RequestOnCurrentClient, BudgetInv, MaxBudget
<1>b. LockInv' /\ ClosingInv'
  <2>1. pc[t] = "request" /\ pc' = [pc EXCEPT ![t] = "drop"] /\ UNCHANGED <<lock, client>>
    OBVIOUS
  <2> QED BY <2>1, DropKeepsLock
<1>1. CASE left[t] > 1
  <2>1. TypeOK'
    BY <1>a, <1>1 DEF PCs, Results, OpKinds
  <2>2. LockInv' /\ ClosingInv'
    BY <1>b
  <2>3. RequestOnCurrentClient'
    BY <1>a, <1>1 DEF LockInv, RequestOnCurrentClient, ClosingInv, PCs
  <2>4. FailedInv'
    BY <1>a, <1>1 DEF LockInv, FailedInv, RequestOnCurrentClient, PCs
  <2>5. BudgetInv'
    BY <1>a, <1>1 DEF BudgetInv, LockInv, PCs, RequestOnCurrentClient, MaxBudget
  <2> QED
    BY <2>1, <2>2, <2>3, <2>4, <2>5
<1>2. CASE ~(left[t] > 1)
  <2>1. TypeOK'
    BY <1>a, <1>2 DEF PCs, Results, OpKinds
  <2>2. LockInv' /\ ClosingInv'
    BY <1>b
  <2>3. RequestOnCurrentClient'
    BY <1>a, <1>2 DEF LockInv, RequestOnCurrentClient, ClosingInv, PCs
  <2>4. FailedInv'
    BY <1>a, <1>2 DEF LockInv, FailedInv, RequestOnCurrentClient, PCs
  <2>5. BudgetInv'
    BY <1>a, <1>2 DEF BudgetInv, LockInv, PCs, RequestOnCurrentClient, MaxBudget
  <2> QED
    BY <2>1, <2>2, <2>3, <2>4, <2>5
<1> QED
  BY <1>1, <1>2

\* The read-back confirms the write.
LEMMA VerifyWriteOkIInv ==
  ASSUME IInv, NEW t \in Tasks, VerifyWriteOk(t)
  PROVE  IInv'
<1> USE DEF IInv, TypeOK, VerifyWriteOk, Leave, Writing, callVars
<1>1. TypeOK'
  BY DEF PCs, Results, OpKinds, MaxBudget
<1>2. LockInv' /\ ClosingInv'
  BY DEF LockInv, ClosingInv, PCs
<1>3. RequestOnCurrentClient'
  BY DEF LockInv, RequestOnCurrentClient, ClosingInv, PCs
<1>4. FailedInv'
  BY DEF LockInv, FailedInv, RequestOnCurrentClient, PCs
<1>5. BudgetInv'
  BY DEF BudgetInv, LockInv, PCs, RequestOnCurrentClient, MaxBudget
<1> QED
  BY <1>1, <1>2, <1>3, <1>4, <1>5

\* The read-back does not confirm the write.
LEMMA VerifyWriteFailsIInv ==
  ASSUME IInv, NEW t \in Tasks, VerifyWriteFails(t)
  PROVE  IInv'
<1> USE DEF IInv, TypeOK, VerifyWriteFails, RetryWrite, FailTo, Writing
<1>a. sess[t] \in Sessions /\ left[t] - 1 \in 0 .. MaxBudget
  BY DEF RequestOnCurrentClient, BudgetInv, MaxBudget
<1>b. LockInv' /\ ClosingInv'
  <2>1. pc[t] = "verify" /\ pc' = [pc EXCEPT ![t] = "drop"] /\ UNCHANGED <<lock, client>>
    OBVIOUS
  <2> QED BY <2>1, DropKeepsLock
<1>1. CASE left[t] > 1
  <2>1. TypeOK'
    BY <1>a, <1>1 DEF PCs, Results, OpKinds
  <2>2. LockInv' /\ ClosingInv'
    BY <1>b
  <2>3. RequestOnCurrentClient'
    BY <1>a, <1>1 DEF LockInv, RequestOnCurrentClient, ClosingInv, PCs
  <2>4. FailedInv'
    BY <1>a, <1>1 DEF LockInv, FailedInv, RequestOnCurrentClient, PCs
  <2>5. BudgetInv'
    BY <1>a, <1>1 DEF BudgetInv, LockInv, PCs, RequestOnCurrentClient, MaxBudget
  <2> QED
    BY <2>1, <2>2, <2>3, <2>4, <2>5
<1>2. CASE ~(left[t] > 1)
  <2>1. TypeOK'
    BY <1>a, <1>2 DEF PCs, Results, OpKinds
  <2>2. LockInv' /\ ClosingInv'
    BY <1>b
  <2>3. RequestOnCurrentClient'
    BY <1>a, <1>2 DEF LockInv, RequestOnCurrentClient, ClosingInv, PCs
  <2>4. FailedInv'
    BY <1>a, <1>2 DEF LockInv, FailedInv, RequestOnCurrentClient, PCs
  <2>5. BudgetInv'
    BY <1>a, <1>2 DEF BudgetInv, LockInv, PCs, RequestOnCurrentClient, MaxBudget
  <2> QED
    BY <2>1, <2>2, <2>3, <2>4, <2>5
<1> QED
  BY <1>1, <1>2

\* The pause before the next attempt ends.
LEMMA SleepEndsIInv ==
  ASSUME IInv, NEW t \in Tasks, SleepEnds(t)
  PROVE  IInv'
<1> USE DEF IInv, TypeOK, SleepEnds, callVars
<1>1. TypeOK'
  BY DEF PCs, Results, OpKinds, MaxBudget
<1>2. LockInv' /\ ClosingInv'
  BY DEF LockInv, ClosingInv, PCs
<1>3. RequestOnCurrentClient'
  BY DEF LockInv, RequestOnCurrentClient, ClosingInv, PCs
<1>4. FailedInv'
  BY DEF LockInv, FailedInv, RequestOnCurrentClient, PCs
<1>5. BudgetInv'
  BY DEF BudgetInv, LockInv, PCs, RequestOnCurrentClient, MaxBudget
<1> QED
  BY <1>1, <1>2, <1>3, <1>4, <1>5

\* The BLE device asks for pairing.
LEMMA NotPairedIInv ==
  ASSUME IInv, NEW t \in Tasks, NotPaired(t)
  PROVE  IInv'
<1> USE DEF IInv, TypeOK, NotPaired, FailTo, callVars
<1>1. TypeOK'
  BY DEF PCs, Results, OpKinds, MaxBudget, RequestOnCurrentClient, BudgetInv
<1>2. LockInv' /\ ClosingInv'
  BY DEF LockInv, ClosingInv, PCs
<1>3. RequestOnCurrentClient'
  BY DEF LockInv, RequestOnCurrentClient, ClosingInv, PCs
<1>4. FailedInv'
  BY DEF LockInv, FailedInv, RequestOnCurrentClient, PCs
<1>5. BudgetInv'
  BY DEF BudgetInv, LockInv, PCs, RequestOnCurrentClient, MaxBudget
<1> QED
  BY <1>1, <1>2, <1>3, <1>4, <1>5

\* A task holding the lock is cancelled.
LEMMA CancelIInv ==
  ASSUME IInv, NEW t \in Tasks, Cancel(t)
  PROVE  IInv'
<1> USE DEF IInv, TypeOK, Cancel, Leave, Suspended, Writing
<1>1. TypeOK'
  BY DEF PCs, Results, OpKinds, MaxBudget
<1>2. LockInv' /\ ClosingInv'
  BY DEF LockInv, ClosingInv, PCs
<1>3. RequestOnCurrentClient'
  BY DEF LockInv, RequestOnCurrentClient, ClosingInv, PCs
<1>4. FailedInv'
  BY DEF LockInv, FailedInv, RequestOnCurrentClient, PCs
<1>5. BudgetInv'
  BY DEF BudgetInv, LockInv, PCs, RequestOnCurrentClient, MaxBudget
<1> QED
  BY <1>1, <1>2, <1>3, <1>4, <1>5

\* A waiting task is cancelled.
LEMMA CancelWaitingIInv ==
  ASSUME IInv, NEW t \in Tasks, CancelWaiting(t)
  PROVE  IInv'
<1> USE DEF IInv, TypeOK, CancelWaiting
<1>1. TypeOK'
  BY RemoveAtType DEF PCs, Results, OpKinds, MaxBudget
<1>2. LockInv' /\ ClosingInv'
  BY DEF LockInv, ClosingInv, PCs
<1>3. RequestOnCurrentClient'
  BY DEF LockInv, RequestOnCurrentClient, ClosingInv, PCs
<1>4. FailedInv'
  BY DEF LockInv, FailedInv, RequestOnCurrentClient, PCs
<1>5. BudgetInv'
  BY DEF BudgetInv, LockInv, PCs, RequestOnCurrentClient, MaxBudget
<1> QED
  BY <1>1, <1>2, <1>3, <1>4, <1>5


-----------------------------------------------------------------------------

\* The transport can be lost at any time.
LEMMA LinkLostIInv ==
  ASSUME IInv, NEW s \in Sessions, LinkLost(s)
  PROVE  IInv'
<1> USE DEF IInv, TypeOK, LinkLost, callVars
<1>1. TypeOK'
  OBVIOUS
<1>2. LockInv' /\ RequestOnCurrentClient' /\ FailedInv' /\ ClosingInv' /\ BudgetInv'
  BY DEF LockInv, RequestOnCurrentClient, FailedInv, ClosingInv, BudgetInv
<1> QED
  BY <1>1, <1>2

LEMMA StutterIInv == IInv /\ UNCHANGED vars => IInv'
BY DEF vars, IInv, TypeOK, LockInv, RequestOnCurrentClient, FailedInv,
       ClosingInv, BudgetInv

\* Every step of the client preserves the inductive invariant.
LEMMA NextIInv == IInv /\ [Next]_vars => IInv'
<1> SUFFICES ASSUME IInv, [Next]_vars PROVE IInv'
  OBVIOUS
<1>1. ASSUME NEW t \in Tasks, Step(t) PROVE IInv'
  BY <1>1, AcquireIInv, ReuseIInv, ReconnectIInv, BuildIInv, ConnectOkIInv,
     ConnectFailsIInv, ResetClientIInv, ClosedIInv, ReadOkIInv,
     ReadRefusedIInv, ReadRaisesIInv, IssueWriteOkIInv, IssueWriteFailsIInv,
     VerifyWriteOkIInv, VerifyWriteFailsIInv, SleepEndsIInv, NotPairedIInv
     DEF Step
<1>2. ASSUME NEW t \in Tasks, Cancel(t) \/ CancelWaiting(t) PROVE IInv'
  BY <1>2, CancelIInv, CancelWaitingIInv
<1>3. ASSUME NEW t \in Tasks, NEW o \in OpKinds, Start(t, o) PROVE IInv'
  BY <1>3, StartIInv
<1>4. ASSUME NEW s \in Sessions, LinkLost(s) PROVE IInv'
  BY <1>4, LinkLostIInv
<1> QED
  BY <1>1, <1>2, <1>3, <1>4, StutterIInv DEF Next

\* The inductive invariant holds in every reachable state.
THEOREM Invariance == Spec => []IInv
BY InitIInv, NextIInv, PTL DEF Spec

\* Every variable of the client keeps its type.
THEOREM TypeCorrect == Spec => []TypeOK
<1>1. IInv => TypeOK
  BY DEF IInv
<1> QED
  BY <1>1, Invariance, PTL

\* Nobody replaces the client under a task that has a connect or a request
\* outstanding on it (async_close against a poll or a write).
THEOREM RequestsStayOnTheirClient == Spec => []RequestOnCurrentClient
<1>1. IInv => RequestOnCurrentClient
  BY DEF IInv
<1> QED
  BY <1>1, Invariance, PTL

\* No request is ever sent on a transport that failed an earlier one.
THEOREM FailedTransportsAreDropped == Spec => []FailedTransportNeverReused
<1>1. IInv => FailedTransportNeverReused
  <2> SUFFICES ASSUME IInv, NEW t \in Tasks, pc[t] \in {"request", "verify"}
               PROVE  sess[t] \notin failed
    BY DEF FailedTransportNeverReused
  <2>1. sess[t] = client
    BY DEF IInv, RequestOnCurrentClient
  <2>2. lock = t
    BY DEF IInv, LockInv
  <2>3. \A u \in Tasks : pc[u] = "drop" => u = t
    BY <2>2 DEF IInv, LockInv
  <2> QED
    BY <2>1, <2>3 DEF IInv, FailedInv
<1> QED
  BY <1>1, Invariance, PTL

-----------------------------------------------------------------------------
(* The one-transport contract, when a close that was begun is completed.   *)

\* A step of t that neither resets nor closes: t holds the lock, and at most
\* opens the current client or replaces a missing one.
Uses(t) ==
  /\ lock = t /\ pc[t] # "closing" /\ pc'[t] # "closing"
  /\ \A u \in Tasks \ {t} : pc'[u] = pc[u]
  /\ lock' \in {t, NoTask}
  /\ \/ up' = up /\ client' = client
     \/ up' = up /\ client = NoSession
     \/ up' = up \cup {client} /\ client' = client /\ client \in Sessions

LEMMA StepUses ==
  ASSUME IInv, NEW t \in Tasks, Step(t), ~Acquire(t), ~ResetClient(t), ~Closed(t)
  PROVE  Uses(t)
<1> USE DEF IInv, TypeOK, Uses, callVars
<1>0. /\ pc[t] \in {"ensure", "connecting", "request", "verify", "sleep"}
      /\ lock = t
  <2>1. pc[t] \in {"ensure", "connecting", "request", "verify", "sleep"}
    BY DEF Step, Reuse, Reconnect, Build, ConnectOk, ConnectFails, ReadOk,
       ReadRefused, ReadRaises, IssueWriteOk, IssueWriteFails, VerifyWriteOk,
       VerifyWriteFails, SleepEnds, NotPaired, Writing
  <2> QED
    BY <2>1 DEF LockInv
<1>1. CASE Reuse(t)
  BY <1>0, <1>1 DEF Reuse, Connected, Leave
<1>2. CASE Reconnect(t) \/ Build(t)
  BY <1>0, <1>2 DEF Reconnect, Build
<1>3. CASE ConnectOk(t)
  BY <1>0, <1>3 DEF ConnectOk, Connected, Leave, RequestOnCurrentClient
<1>4. CASE ConnectFails(t) \/ NotPaired(t)
  BY <1>0, <1>4 DEF ConnectFails, NotPaired, FailTo
<1>5. CASE ReadOk(t)
  BY <1>0, <1>5 DEF ReadOk, Leave, NextRequest
<1>6. CASE ReadRefused(t)
  BY <1>0, <1>6 DEF ReadRefused, Leave, NextRequest
<1>7. CASE ReadRaises(t)
  BY <1>0, <1>7 DEF ReadRaises, FailTo
<1>8. CASE IssueWriteOk(t) \/ VerifyWriteOk(t) \/ SleepEnds(t)
  BY <1>0, <1>8 DEF IssueWriteOk, VerifyWriteOk, SleepEnds, Leave, Writing
<1>9. CASE IssueWriteFails(t) \/ VerifyWriteFails(t)
  BY <1>0, <1>9 DEF IssueWriteFails, VerifyWriteFails, RetryWrite, FailTo, Writing
<1> QED
  BY <1>1, <1>2, <1>3, <1>4, <1>5, <1>6, <1>7, <1>8, <1>9 DEF Step

\* What is open when nobody, or only t, is closing.
LEMMA OpenSet ==
  ASSUME IInv, NoStrayTransport
  PROVE  /\ \A t \in Tasks : lock = t /\ pc[t] = "closing" => up \subseteq {sess[t]}
         /\ (\A t \in Tasks : pc[t] # "closing") => up \subseteq {client}
         /\ \A s, r \in up : s = r
<1> USE DEF IInv, TypeOK, NoStrayTransport
<1>1. \A t, u \in Tasks : pc[t] = "closing" /\ pc[u] = "closing" => t = u
  BY DEF LockInv
<1>2. ASSUME NEW t \in Tasks, pc[t] = "closing"
      PROVE  up \subseteq {sess[t]}
  <2>1. client \notin up
    BY <1>2, SessionsAssumption DEF ClosingInv
  <2>2. ASSUME NEW s \in up PROVE s = sess[t]
    <3>1. PICK u \in Tasks : pc[u] = "closing" /\ sess[u] = s
      BY <2>1, <2>2
    <3> QED
      BY <1>1, <1>2, <3>1
  <2> QED
    BY <2>2
<1>3. (\A t \in Tasks : pc[t] # "closing") => up \subseteq {client}
  OBVIOUS
<1>4. \A s, r \in up : s = r
  <2>1. CASE \A t \in Tasks : pc[t] # "closing"
    BY <2>1, <1>3
  <2>2. CASE \E t \in Tasks : pc[t] = "closing"
    BY <2>2, <1>2
  <2> QED
    BY <2>1, <2>2
<1> QED
  BY <1>2, <1>3, <1>4

\* Steps that leave the lock, the transport and every close under way alone.
Passive(t) ==
  /\ up' = up /\ client' = client /\ sess' = sess
  /\ \A u \in Tasks : pc[u] = "closing" => pc'[u] = "closing"

LEMMA OtherSteps ==
  ASSUME IInv, NEW t \in Tasks
  PROVE  /\ \A o \in OpKinds : Start(t, o) => Passive(t) /\ lock' = lock
         /\ CancelWaiting(t) => Passive(t) /\ lock' = lock
         /\ Acquire(t) => Passive(t) /\ lock = NoTask /\ lock' = t
<1> USE DEF IInv, TypeOK, Passive
<1>1. ASSUME NEW o \in OpKinds, Start(t, o) PROVE Passive(t) /\ lock' = lock
  BY <1>1 DEF Start
<1>2. ASSUME CancelWaiting(t) PROVE Passive(t) /\ lock' = lock
  BY <1>2 DEF CancelWaiting
<1>3. ASSUME Acquire(t) PROVE Passive(t) /\ lock = NoTask /\ lock' = t
  BY <1>3 DEF Acquire
<1> QED
  BY <1>1, <1>2, <1>3

\* Whatever the client has forgotten is being closed, and nothing else stays
\* open.
LEMMA StrayStep ==
  ASSUME CloseCompletes, IInv, NoStrayTransport, [Next]_vars
  PROVE  NoStrayTransport'
<1> USE DEF NoStrayTransport
<1>1. ASSUME NEW t \in Tasks, Passive(t) PROVE NoStrayTransport'
  BY <1>1 DEF Passive
<1>2. ASSUME NEW t \in Tasks, Uses(t) PROVE NoStrayTransport'
  <2>1. up \subseteq {client}
    BY <1>2, OpenSet DEF Uses, IInv, LockInv
  <2>2. client = NoSession => up = {}
    BY <2>1 DEF IInv, TypeOK
  <2> QED
    BY <1>2, <2>1, <2>2 DEF Uses
<1>3. ASSUME NEW t \in Tasks, ResetClient(t) PROVE NoStrayTransport'
  <2>1. up \subseteq {client}
    BY <1>3, OpenSet DEF ResetClient, IInv, LockInv
  <2>2. client = NoSession => up = {}
    BY <2>1 DEF IInv, TypeOK
  <2>3. CASE AwaitedClose /\ client # NoSession
    BY <1>3, <2>1, <2>3 DEF ResetClient, IInv, TypeOK
  <2>4. CASE ~(AwaitedClose /\ client # NoSession)
    BY <1>3, <2>1, <2>4 DEF ResetClient
  <2> QED
    BY <2>3, <2>4
<1>4. ASSUME NEW t \in Tasks, Closed(t) PROVE NoStrayTransport'
  BY <1>4, OpenSet DEF Closed, IInv, LockInv
<1>5. ASSUME NEW t \in Tasks, Cancel(t) PROVE NoStrayTransport'
  <2>1. pc[t] # "closing" /\ up' = up /\ client' = client /\ sess' = sess
    BY <1>5 DEF Cancel, CloseCompletes, IInv, ClosingInv
  <2>2. \A u \in Tasks : pc[u] = "closing" => pc'[u] = "closing"
    BY <1>5, <2>1 DEF Cancel, Leave, IInv, TypeOK
  <2> QED
    BY <2>1, <2>2
<1>6. ASSUME NEW s \in Sessions, LinkLost(s) PROVE NoStrayTransport'
  BY <1>6 DEF LinkLost
<1>7. CASE UNCHANGED vars
  BY <1>7 DEF vars
<1> QED
  BY <1>1, <1>2, <1>3, <1>4, <1>5, <1>6, <1>7, StepUses, OtherSteps DEF Next

\* Every transport that is open belongs to the client or is being closed.
THEOREM NothingStaysOpen == CloseCompletes /\ Spec => []NoStrayTransport
<1>1. Init => NoStrayTransport
  BY DEF Init, NoStrayTransport
<1>2. CloseCompletes /\ IInv /\ NoStrayTransport /\ [Next]_vars => NoStrayTransport'
  BY StrayStep
<1>3. CASE CloseCompletes
  BY <1>1, <1>2, <1>3, Invariance, PTL DEF Spec
<1>4. CASE ~CloseCompletes
  BY <1>4
<1> QED
  BY <1>3, <1>4

\* Every step of the client is a step of the one-transport contract.
LEMMA ContractStep ==
  ASSUME CloseCompletes, IInv, NoStrayTransport, [Next]_vars
  PROVE  [Owner!Next]_(Owner!vars)
<1> USE DEF Owner!Next, Owner!vars, Owner!Take, Owner!Work, Owner!Lose
<1>1. ASSUME NEW t \in Tasks, Uses(t) PROVE Owner!Work(t)
  <2>1. up \subseteq {client}
    BY <1>1, OpenSet DEF Uses, IInv, LockInv
  <2>2. CASE up' = up
    BY <1>1, <2>2 DEF Uses
  <2>3. CASE up' = up \cup {client} /\ client \in Sessions
    <3>1. up = {} \/ up' = up
      BY <2>1, <2>3
    <3> QED
      BY <1>1, <2>3, <3>1 DEF Uses
  <2> QED
    BY <1>1, <2>2, <2>3 DEF Uses
<1>2. ASSUME NEW t \in Tasks, ResetClient(t) PROVE Owner!Work(t)
  <2>1. lock = t /\ up \subseteq {client}
    BY <1>2, OpenSet DEF ResetClient, IInv, LockInv
  <2>2. lock' \in {t, NoTask} /\ (up' = up \/ up' = up \ {client})
    BY <1>2, <2>1 DEF ResetClient, Resume
  <2> QED
    BY <2>1, <2>2
<1>3. ASSUME NEW t \in Tasks, Closed(t) PROVE Owner!Work(t)
  <2>1. lock = t /\ up \subseteq {sess[t]}
    BY <1>3, OpenSet DEF Closed, IInv, LockInv
  <2>2. lock' \in {t, NoTask} /\ up' = up \ {sess[t]}
    BY <1>3, <2>1 DEF Closed, Resume
  <2> QED
    BY <2>1, <2>2
<1>4. ASSUME NEW t \in Tasks, Cancel(t) PROVE Owner!Work(t)
  <2>1. lock = t
    BY <1>4 DEF Cancel, Suspended, IInv, LockInv
  <2>2. pc[t] # "closing" /\ up' = up /\ lock' = NoTask
    BY <1>4 DEF Cancel, Leave, CloseCompletes, IInv, ClosingInv
  <2> QED
    BY <2>1, <2>2
<1>5. ASSUME NEW s \in Sessions, LinkLost(s) PROVE Owner!Lose
  <2>1. up = {s}
    BY <1>5, OpenSet DEF LinkLost
  <2> QED
    BY <1>5, <2>1 DEF LinkLost
<1>6. ASSUME NEW t \in Tasks, Passive(t), lock' = lock
      PROVE  UNCHANGED <<lock, up>>
  BY <1>6 DEF Passive
<1>7. ASSUME NEW t \in Tasks, Passive(t), lock = NoTask, lock' = t
      PROVE  Owner!Take(t)
  BY <1>7 DEF Passive
<1>8. CASE UNCHANGED vars
  BY <1>8 DEF vars
<1> QED
  BY <1>1, <1>2, <1>3, <1>4, <1>5, <1>6, <1>7, <1>8, StepUses, OtherSteps DEF Next

\* The client implements its contract: transports are opened and closed by the
\* holder of the lock only, one at a time.
THEOREM ImplementsContract == CloseCompletes /\ Spec => OneTransportContract
<1>1. Init => Owner!Init
  BY DEF Init, Owner!Init
<1>2. CloseCompletes /\ IInv /\ NoStrayTransport /\ [Next]_vars
        => [Owner!Next]_(Owner!vars)
  BY ContractStep
<1>3. CASE CloseCompletes
  BY <1>1, <1>2, <1>3, Invariance, NothingStaysOpen, PTL
     DEF Spec, OneTransportContract, Owner!Spec
<1>4. CASE ~CloseCompletes
  BY <1>4
<1> QED
  BY <1>3, <1>4

-----------------------------------------------------------------------------
(* What a returned method means *)

\* The only step that makes a write return is VerifyWriteOk.
LEMMA WriteOkStep ==
  ASSUME IInv, [Next]_vars, NEW t \in Tasks,
         op[t] = "write", result[t] # "ok", result'[t] = "ok"
  PROVE  reg' = want[t]
<1> USE DEF IInv, TypeOK
<1>1. result' # result
  OBVIOUS
<1>2. ASSUME NEW u \in Tasks, Step(u) PROVE reg' = want[t]
  <2>1. CASE VerifyWriteOk(u)
    <3>1. u = t
      BY <2>1 DEF VerifyWriteOk, Leave
    <3> QED
      BY <2>1, <3>1 DEF VerifyWriteOk, callVars
  <2>2. CASE Acquire(u) \/ Reuse(u) \/ Reconnect(u) \/ Build(u) \/ ConnectOk(u)
    BY <1>1, <2>2 DEF Acquire, Reuse, Reconnect, Build, ConnectOk, Connected,
                      Leave
  <2>3. CASE ConnectFails(u) \/ NotPaired(u) \/ VerifyWriteFails(u)
               \/ IssueWriteFails(u)
    BY <2>3 DEF ConnectFails, NotPaired, VerifyWriteFails, IssueWriteFails,
                RetryWrite, FailTo
  <2>4. CASE ResetClient(u) \/ Closed(u) \/ SleepEnds(u) \/ IssueWriteOk(u)
    BY <1>1, <2>4 DEF ResetClient, Closed, SleepEnds, IssueWriteOk
  <2>5. CASE ReadOk(u) \/ ReadRefused(u) \/ ReadRaises(u)
    BY <1>1, <2>5 DEF ReadOk, ReadRefused, ReadRaises, ReadOps, Leave,
                      NextRequest, FailTo
  <2> QED
    BY <1>2, <2>1, <2>2, <2>3, <2>4, <2>5 DEF Step
<1>3. ASSUME NEW u \in Tasks, Cancel(u) \/ CancelWaiting(u) PROVE FALSE
  BY <1>3 DEF Cancel, CancelWaiting, Leave
<1>4. ASSUME NEW u \in Tasks, NEW o \in OpKinds, Start(u, o) PROVE FALSE
  BY <1>4 DEF Start
<1>5. ASSUME NEW s \in Sessions, LinkLost(s) PROVE FALSE
  BY <1>1, <1>5 DEF LinkLost
<1> QED
  BY <1>1, <1>2, <1>3, <1>4, <1>5 DEF Next, vars

\* A write that returned found its values in the device by reading them back,
\* whichever of its attempts failed before and however long it waited.
THEOREM WritesAreVerified == Spec => WriteOkMeansHeld
<1>1. ASSUME IInv, [Next]_vars
      PROVE  [\A t \in Tasks : op[t] = "write" /\ result[t] # "ok"
                /\ result'[t] = "ok" => reg' = want[t]]_vars
  BY <1>1, WriteOkStep
<1> QED
  BY <1>1, Invariance, PTL DEF Spec, WriteOkMeansHeld

\* The step with which async_close returns leaves nothing open.
LEMMA CloseStep ==
  ASSUME IInv, NoStrayTransport, [Next]_vars, NEW t \in Tasks,
         op[t] = "close", pc[t] # "idle", pc'[t] = "idle", result'[t] = "ok"
  PROVE  up' = {} /\ client' = NoSession
<1> USE DEF IInv, TypeOK
<1>1. pc' # pc
  OBVIOUS
<1>2. ASSUME NEW u \in Tasks, u # t, Step(u) \/ Cancel(u) \/ CancelWaiting(u)
                 \/ \E o \in OpKinds : Start(u, o)
      PROVE  FALSE
  <2>1. pc'[t] = pc[t]
    BY <1>2 DEF Step, Acquire, Reuse, Reconnect, Build, ConnectOk, Connected,
      ConnectFails, ResetClient, Closed, Resume, ReadOk, ReadRefused,
      ReadRaises, NextRequest, IssueWriteOk, IssueWriteFails, RetryWrite,
      VerifyWriteOk, VerifyWriteFails, SleepEnds, NotPaired, FailTo, Leave,
      Cancel, CancelWaiting, Start
  <2> QED
    BY <2>1
<1>3. ASSUME Cancel(t) \/ CancelWaiting(t) \/ (\E o \in OpKinds : Start(t, o))
      PROVE  FALSE
  BY <1>3 DEF Cancel, CancelWaiting, Leave, Start
<1>4. ASSUME NEW s \in Sessions, LinkLost(s) PROVE FALSE
  BY <1>1, <1>4 DEF LinkLost
<1>5. CASE Step(t)
  <2>1. CASE ResetClient(t)
    <3>1. \A u \in Tasks : pc[u] # "closing"
      BY <2>1 DEF ResetClient, LockInv
    <3>2. up \subseteq {client}
      BY <3>1 DEF NoStrayTransport
    <3>3. ~(AwaitedClose /\ client # NoSession)
      BY <2>1 DEF ResetClient
    <3> QED
      BY <2>1, <3>2, <3>3 DEF ResetClient
  <2>2. CASE Closed(t)
    <3>1. \A u \in Tasks : pc[u] = "closing" => u = t
      BY <2>2 DEF Closed, LockInv
    <3>2. client = NoSession
      BY <2>2 DEF Closed, ClosingInv
    <3>3. up \subseteq {sess[t]}
      BY <3>1, <3>2, SessionsAssumption DEF NoStrayTransport
    <3> QED
      BY <2>2, <3>2, <3>3 DEF Closed
  <2>3. CASE Acquire(t) \/ Reuse(t) \/ Reconnect(t) \/ Build(t) \/ ConnectOk(t)
    BY <2>3 DEF Acquire, Reuse, Reconnect, Build, ConnectOk, Connected, Leave
  <2>4. CASE ConnectFails(t) \/ NotPaired(t) \/ SleepEnds(t)
    BY <2>4 DEF ConnectFails, NotPaired, FailTo, SleepEnds
  <2>5. CASE VerifyWriteOk(t) \/ VerifyWriteFails(t) \/ IssueWriteOk(t)
               \/ IssueWriteFails(t)
    BY <2>5 DEF VerifyWriteOk, VerifyWriteFails, IssueWriteOk, IssueWriteFails,
                Writing
  <2>6. CASE ReadOk(t) \/ ReadRefused(t) \/ ReadRaises(t)
    BY <2>6 DEF ReadOk, ReadRefused, ReadRaises, ReadOps
  <2> QED
    BY <1>5, <2>1, <2>2, <2>3, <2>4, <2>5, <2>6 DEF Step
<1>6. vars' # vars
  BY <1>1 DEF vars
<1>7. PICK u \in Tasks : Step(u) \/ Cancel(u) \/ CancelWaiting(u)
                          \/ \E o \in OpKinds : Start(u, o)
  BY <1>4, <1>6 DEF Next
<1>8. u = t
  BY <1>2, <1>7
<1> QED
  BY <1>3, <1>5, <1>7, <1>8

\* When a begun close is completed, nothing is open and nothing is remembered
\* the moment async_close returns, whatever the other tasks are about.
THEOREM CloseCloses == CloseCompletes /\ Spec => CloseLeavesNothingOpen
<1>1. IInv /\ NoStrayTransport /\ [Next]_vars =>
        [\A t \in Tasks :
           op[t] = "close" /\ pc[t] # "idle" /\ pc'[t] = "idle"
             /\ result'[t] = "ok" => up' = {} /\ client' = NoSession]_vars
  BY CloseStep
<1>2. CASE CloseCompletes
  BY <1>1, <1>2, Invariance, NothingStaysOpen, PTL DEF Spec, CloseLeavesNothingOpen
<1>3. CASE ~CloseCompletes
  BY <1>3
<1> QED
  BY <1>2, <1>3

-----------------------------------------------------------------------------
(* The end of an entry (EntryTeardown) *)

USE UnloaderAssumption

\* Whatever callers and the unload do to the client is a step of the client.
LEMMA TeardownUsesClient ==
  ASSUME [TeardownNext]_teardownVars
  PROVE  [Next]_vars
<1>1. ASSUME NEW t \in Tasks, Begin(t) \/ Call(t) \/ End(t) \/ Work(t)
      PROVE  [Next]_vars
  BY <1>1 DEF Begin, Call, End, Work, Next
<1>2. CASE UnloadPlatforms \/ Unloaded
  BY <1>2 DEF UnloadPlatforms, Unloaded
<1>3. CASE Shutdown
  BY <1>3 DEF Shutdown, Next, OpKinds
<1>4. ASSUME NEW s \in Sessions, Lose(s) PROVE [Next]_vars
  BY <1>4 DEF Lose, Next
<1>5. CASE UNCHANGED teardownVars
  BY <1>5 DEF teardownVars
<1> QED
  BY <1>1, <1>2, <1>3, <1>4, <1>5 DEF TeardownNext

\* Work of one task leaves every other where it is, and what it has returned.
LEMMA WorkIsOwn ==
  ASSUME IInv, NEW t \in Tasks, Step(t) \/ Cancel(t) \/ CancelWaiting(t)
  PROVE  /\ pc[t] # "idle" /\ op' = op
         /\ \A u \in Tasks \ {t} : pc'[u] = pc[u] /\ result'[u] = result[u]
<1> USE DEF IInv, TypeOK
<1>1. CASE Acquire(t) \/ Reuse(t) \/ Reconnect(t) \/ Build(t) \/ ConnectOk(t)
  BY <1>1 DEF Acquire, Reuse, Reconnect, Build, ConnectOk, Connected, Leave, callVars
<1>2. CASE ConnectFails(t) \/ NotPaired(t) \/ SleepEnds(t)
  BY <1>2 DEF ConnectFails, NotPaired, FailTo, SleepEnds, callVars
<1>3. CASE ResetClient(t) \/ Closed(t)
  BY <1>3 DEF ResetClient, Closed, Resume, callVars
<1>4. CASE ReadOk(t) \/ ReadRefused(t) \/ ReadRaises(t)
  BY <1>4 DEF ReadOk, ReadRefused, ReadRaises, NextRequest, FailTo, Leave, callVars
<1>5. CASE IssueWriteOk(t) \/ IssueWriteFails(t) \/ VerifyWriteOk(t)
             \/ VerifyWriteFails(t)
  BY <1>5 DEF IssueWriteOk, IssueWriteFails, VerifyWriteOk, VerifyWriteFails,
              RetryWrite, Writing, FailTo, Leave, callVars
<1>6. CASE Cancel(t) \/ CancelWaiting(t)
  BY <1>6 DEF Cancel, CancelWaiting, Suspended, Leave
<1> QED
  BY <1>1, <1>2, <1>3, <1>4, <1>5, <1>6 DEF Step

LEMMA TeardownStart == TeardownInit => TeardownInv
  BY DEF TeardownInit, Init, TeardownInv, Callers

\* A caller begins, makes a call or ends.
LEMMA CallerKeepsTeardown ==
  ASSUME IInv, TeardownInv, NEW t \in Tasks, Begin(t) \/ Call(t) \/ End(t)
  PROVE  TeardownInv'
<1> USE DEF IInv, TypeOK, TeardownInv, Callers
<1>1. CASE Begin(t)
  BY <1>1 DEF Begin, vars
<1>2. CASE End(t)
  BY <1>2 DEF End, vars
<1>3. CASE Call(t) /\ t # Unloader
  BY <1>3 DEF Call, Start, teardown
<1>4. CASE Call(t) /\ t = Unloader
  BY <1>4 DEF Call, Start, teardown
<1> QED
  BY <1>1, <1>2, <1>3, <1>4

\* The unload goes on: the callers under way are late from now on, or the
\* client is to be closed, or it was.
LEMMA UnloadKeepsTeardown ==
  ASSUME IInv, TeardownInv, UnloadPlatforms \/ Shutdown \/ Unloaded
  PROVE  TeardownInv'
<1> USE DEF IInv, TypeOK, TeardownInv, Callers
<1>1. CASE UnloadPlatforms
  BY <1>1 DEF UnloadPlatforms, vars
<1>2. CASE Shutdown
  BY <1>2 DEF Shutdown, Start
<1>3. CASE Unloaded
  BY <1>3 DEF Unloaded, vars
<1> QED
  BY <1>1, <1>2, <1>3

\* When nobody is late, the unloader alone works, and returns from async_close
\* with nothing open (CloseStep).
LEMMA WorkKeepsTeardown ==
  ASSUME IInv, NoStrayTransport, TeardownInv, NEW t \in Tasks, Work(t)
  PROVE  TeardownInv'
<1>1. /\ pc[t] # "idle" /\ op' = op
      /\ \A u \in Tasks \ {t} : pc'[u] = pc[u] /\ result'[u] = result[u]
  BY WorkIsOwn DEF Work
<1>2. entry' = entry /\ busy' = busy /\ late' = late
  BY DEF Work, teardown
<1>3. CASE t \in Callers
  <2>1. t # Unloader /\ t \in busy
    BY <1>1, <1>3 DEF TeardownInv, Callers
  <2>2. entry # "loaded" => late # {}
    BY <2>1 DEF TeardownInv
  <2>3. pc'[Unloader] = pc[Unloader] /\ result'[Unloader] = result[Unloader]
    BY <1>1, <2>1
  <2>4. \A u \in Callers : pc'[u] # "idle" => u \in busy
    BY <1>1, <2>1 DEF TeardownInv, Callers
  <2> QED
    BY <1>1, <1>2, <2>2, <2>3, <2>4 DEF TeardownInv
<1>4. CASE t = Unloader
  <2>1. op[t] = "close" /\ entry = "closing"
    BY <1>1, <1>4 DEF TeardownInv
  <2>2. \A u \in Callers : pc'[u] # "idle" => u \in busy
    BY <1>1, <1>4 DEF TeardownInv, Callers
  <2>3. ASSUME pc'[t] = "idle", result'[t] = "ok"
        PROVE  up' = {} /\ client' = NoSession
    <3>1. [Next]_vars
      BY DEF Work, Next
    <3> QED
      BY <1>1, <2>1, <2>3, <3>1, CloseStep
  <2> QED
    BY <1>1, <1>2, <1>4, <2>1, <2>2, <2>3 DEF TeardownInv
<1> QED
  BY <1>3, <1>4 DEF Callers

LEMMA TeardownStep ==
  ASSUME IInv, NoStrayTransport, TeardownInv, [TeardownNext]_teardownVars
  PROVE  TeardownInv'
<1>1. ASSUME NEW t \in Tasks, Begin(t) \/ Call(t) \/ End(t)
      PROVE  TeardownInv'
  BY <1>1, CallerKeepsTeardown
<1>2. CASE UnloadPlatforms \/ Shutdown \/ Unloaded
  BY <1>2, UnloadKeepsTeardown
<1>3. ASSUME NEW t \in Tasks, Work(t) PROVE TeardownInv'
  BY <1>3, WorkKeepsTeardown
<1>4. ASSUME NEW s \in Sessions, Lose(s) PROVE TeardownInv'
  BY <1>4 DEF Lose, LinkLost, TeardownInv, teardown, callVars
<1>5. CASE UNCHANGED teardownVars
  BY <1>5 DEF teardownVars, teardown, vars, TeardownInv
<1> QED
  BY <1>1, <1>2, <1>3, <1>4, <1>5 DEF TeardownNext

\* Everything proved of the client holds of the client of an entry, whatever
\* its callers and its unload do.
THEOREM EntryUsesClient == TeardownSpec => Spec
<1>1. TeardownInit => Init
  BY DEF TeardownInit
<1>2. [TeardownNext]_teardownVars => [Next]_vars
  BY TeardownUsesClient
<1> QED
  BY <1>1, <1>2, PTL DEF TeardownSpec, Spec

\* async_unload_entry closes for good, when a begun close is completed, if
\* no caller was under way when the close was called.
THEOREM QuietUnloadCloses ==
  CloseCompletes /\ TeardownSpec => []QuietUnloadStaysClosed
<1>1. TeardownInv => QuietUnloadStaysClosed
  <2>1. entry = "unloaded" /\ TeardownInv =>
          pc[Unloader] = "idle" /\ result[Unloader] = "ok"
    BY DEF TeardownInv
  <2> QED
    BY <2>1 DEF TeardownInv, QuietUnloadStaysClosed
<1>2. IInv /\ NoStrayTransport /\ TeardownInv /\ [TeardownNext]_teardownVars
        => TeardownInv'
  BY TeardownStep
<1>3. CASE CloseCompletes
  BY <1>1, <1>2, <1>3, TeardownStart, EntryUsesClient, Invariance,
     NothingStaysOpen, PTL DEF TeardownSpec
<1>4. CASE ~CloseCompletes
  BY <1>4
<1> QED
  BY <1>3, <1>4
=============================================================================
