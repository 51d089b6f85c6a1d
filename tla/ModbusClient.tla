---------------------------- MODULE ModbusClient ----------------------------
(***************************************************************************)
(* The shared Modbus client, IneproModbusClient of                         *)
(* src/inepro_metering/modbus.py: one object per config entry that owns at *)
(* most one transport, opens it on demand, drops it when a request fails,  *)
(* and serialises its callers with one asyncio.Lock.                       *)
(*                                                                         *)
(* A task is an asyncio task that calls one public method of the client at *)
(* a time.  A step is what the task does between two suspension points, or *)
(* finer.  The transport library (pymodbus, bleak), the wire and the       *)
(* device are the environment: every request may be answered, refused,     *)
(* fail with an exception, or be cancelled.                                *)
(***************************************************************************)
EXTENDS Naturals, Sequences, SequencesExt

CONSTANTS
  Tasks,         \* asyncio tasks that call the client
  Sessions,      \* identities of transport objects, reused once forgotten
  Values,        \* values of the written holding registers
  OpsOf,         \* OpsOf[t]: the public methods task t calls
  WriteAttempts, \* WRITE_VERIFICATION_MAX_ATTEMPTS
  MaxPages,      \* bound: pages of a device-identification answer
  AwaitedClose,  \* TRUE: closing this transport suspends (BLE, a serial URL)
  CancelsAt,     \* the values of pc at which a task may be cancelled
  NoTask, NoSession

OpKinds == {"ping", "read", "gateway_info", "gateway_config", "identify",
            "write", "close"}

ASSUME TasksAssumption == NoTask \notin Tasks
ASSUME SessionsAssumption == NoSession \notin Sessions
ASSUME OpsAssumption == OpsOf \in [Tasks -> SUBSET OpKinds]
ASSUME BoundsAssumption == WriteAttempts \in Nat \ {0} /\ MaxPages \in Nat \ {0}
ASSUME CloseAssumption == AwaitedClose \in BOOLEAN

VARIABLES
  lock,     \* holder of IneproModbusClient._lock
  waiters,  \* the FIFO of tasks waiting for the lock
  client,   \* IneproModbusClient._client
  up,       \* transports that are open (their `connected` is true)
  failed,   \* transports on which a request raised or a write was not confirmed
  pc,       \* where each task is suspended
  op,       \* the method each task is in
  sess,     \* the task's local `client`
  left,     \* requests, pages or write attempts the method may still make
  want,     \* the values a write expects to read back
  resume,   \* where the task goes once the client is reset
  result,   \* what the method returned or raised
  reg       \* the device's holding register block

vars == <<lock, waiters, client, up, failed, pc, op, sess, left, want,
          resume, result, reg>>
callVars == <<op, want, waiters, reg>>

PCs == {"idle", "waiting", "ensure", "connecting", "request", "verify",
        "drop", "closing", "sleep"}
Results == {"none", "ok", "read_error", "write_error", "connection_error",
            "not_paired", "cancelled"}

\* Requests a method makes when nothing goes wrong early: the gateway
\* metadata are one block, then four smaller ones; the gateway configuration
\* is two blocks; a write is tried at most WriteAttempts times.
Budget(o) == CASE o = "gateway_info"   -> 5
               [] o = "gateway_config" -> 2
               [] o = "identify"       -> MaxPages
               [] o = "write"          -> WriteAttempts
               [] OTHER                -> 1

MaxBudget == 5 + WriteAttempts + MaxPages

TypeOK ==
  /\ lock \in Tasks \cup {NoTask}
  /\ waiters \in Seq(Tasks)
  /\ client \in Sessions \cup {NoSession}
  /\ up \subseteq Sessions
  /\ failed \subseteq Sessions
  /\ pc \in [Tasks -> PCs]
  /\ op \in [Tasks -> OpKinds]
  /\ sess \in [Tasks -> Sessions \cup {NoSession}]
  /\ left \in [Tasks -> 0 .. MaxBudget]
  /\ want \in [Tasks -> Values]
  /\ resume \in [Tasks -> {"idle", "ensure", "sleep"}]
  /\ result \in [Tasks -> Results]
  /\ reg \in Values

Init ==
  /\ lock = NoTask
  /\ waiters = <<>>
  /\ client = NoSession
  /\ up = {}
  /\ failed = {}
  /\ pc = [t \in Tasks |-> "idle"]
  /\ op = [t \in Tasks |-> "ping"]
  /\ sess = [t \in Tasks |-> NoSession]
  /\ left = [t \in Tasks |-> 0]
  /\ reg \in Values
  /\ want = [t \in Tasks |-> reg]
  /\ resume = [t \in Tasks |-> "idle"]
  /\ result = [t \in Tasks |-> "none"]

-----------------------------------------------------------------------------
(* Calls and the lock *)

\* A public method is called and reaches `async with self._lock`.
Start(t, o) ==
  /\ pc[t] = "idle"
  /\ o \in OpsOf[t]
  /\ pc' = [pc EXCEPT ![t] = "waiting"]
  /\ op' = [op EXCEPT ![t] = o]
  /\ left' = [left EXCEPT ![t] = Budget(o)]
  /\ \E v \in IF o = "write" THEN Values ELSE {want[t]} :
       want' = [want EXCEPT ![t] = v]
  /\ result' = [result EXCEPT ![t] = "none"]
  /\ resume' = [resume EXCEPT ![t] = "idle"]
  /\ waiters' = Append(waiters, t)
  /\ UNCHANGED <<lock, client, up, failed, sess, reg>>

\* Wrong on purpose: async_close does not take the lock.
AcquireUnlessClosing(t) ==
  /\ pc[t] = "waiting"
  /\ op[t] = "close" \/ (lock = NoTask /\ Head(waiters) = t)
  /\ lock' = IF op[t] = "close" THEN lock ELSE t
  /\ waiters' = RemoveFirst(waiters, t)
  /\ pc' = [pc EXCEPT ![t] = IF op[t] = "close" THEN "drop" ELSE "ensure"]
  /\ result' = [result EXCEPT ![t] = IF op[t] = "close" THEN "ok" ELSE @]
  /\ UNCHANGED <<client, up, failed, op, sess, left, want, resume, reg>>

\* The lock is handed to the first waiter; async_close resets at once, every
\* other method first makes sure the transport is connected.
Acquire(t) ==
  /\ pc[t] = "waiting"
  /\ lock = NoTask
  /\ waiters # <<>> /\ Head(waiters) = t
  /\ lock' = t
  /\ waiters' = Tail(waiters)
  /\ pc' = [pc EXCEPT ![t] = IF op[t] = "close" THEN "drop" ELSE "ensure"]
  /\ result' = [result EXCEPT ![t] = IF op[t] = "close" THEN "ok" ELSE @]
  /\ UNCHANGED <<client, up, failed, op, sess, left, want, resume, reg>>

\* The method returns or raises: the lock is released on the way out.
Leave(t, r) ==
  /\ pc' = [pc EXCEPT ![t] = "idle"]
  /\ lock' = NoTask
  /\ result' = [result EXCEPT ![t] = r]

-----------------------------------------------------------------------------
(* _async_ensure_connected *)

Connected(t) ==
  IF op[t] = "ping" THEN Leave(t, "ok")
  ELSE /\ pc' = [pc EXCEPT ![t] = "request"]
       /\ UNCHANGED <<lock, result>>

\* The client exists and is connected: use it.
Reuse(t) ==
  /\ pc[t] = "ensure"
  /\ client \in up
  /\ sess' = [sess EXCEPT ![t] = client]
  /\ Connected(t)
  /\ UNCHANGED <<callVars, client, up, failed, left, resume>>

\* The client exists but lost its link: connect the same object again.
Reconnect(t) ==
  /\ pc[t] = "ensure"
  /\ client # NoSession /\ client \notin up
  /\ sess' = [sess EXCEPT ![t] = client]
  /\ pc' = [pc EXCEPT ![t] = "connecting"]
  /\ UNCHANGED <<callVars, lock, client, up, failed, left, resume, result>>

\* Objects nothing refers to any more stand for the next one that is built.
Fresh == Sessions \ (up \cup {client})

\* No client yet: build one and connect it.
Build(t) ==
  /\ pc[t] = "ensure"
  /\ client = NoSession
  /\ \E s \in Fresh :
       /\ client' = s
       /\ sess' = [sess EXCEPT ![t] = s]
       /\ failed' = failed \ {s}
  /\ pc' = [pc EXCEPT ![t] = "connecting"]
  /\ UNCHANGED <<callVars, lock, up, left, resume, result>>

ConnectOk(t) ==
  /\ pc[t] = "connecting"
  /\ up' = up \cup {sess[t]}
  /\ Connected(t)
  /\ UNCHANGED <<callVars, client, failed, sess, left, resume>>

\* Every failure that drops the client goes through _async_reset_client and
\* then on to `where` with the outcome r.
FailTo(t, where, r) ==
  /\ pc' = [pc EXCEPT ![t] = "drop"]
  /\ resume' = [resume EXCEPT ![t] = where]
  /\ result' = [result EXCEPT ![t] = r]
  /\ UNCHANGED lock

\* connect() raised or returned a false value.  The error ends the whole
\* method, whatever requests or attempts it had left.
ConnectFails(t) ==
  /\ pc[t] = "connecting"
  /\ FailTo(t, "idle", "connection_error")
  /\ UNCHANGED <<callVars, client, up, failed, sess, left>>


-----------------------------------------------------------------------------
(* _async_reset_client: forget the client first, then close it *)

Resume(t) ==
  /\ pc' = [pc EXCEPT ![t] = resume[t]]
  /\ lock' = IF resume[t] = "idle" THEN NoTask ELSE lock

\* Wrong on purpose: the client is forgotten and never closed.
ForgetClient(t) ==
  /\ pc[t] = "drop"
  /\ client' = NoSession
  /\ Resume(t)
  /\ UNCHANGED <<callVars, up, failed, sess, left, resume, result>>

ResetClient(t) ==
  /\ pc[t] = "drop"
  /\ client' = NoSession
  /\ sess' = [sess EXCEPT ![t] = client]
  /\ IF AwaitedClose /\ client # NoSession
     THEN /\ pc' = [pc EXCEPT ![t] = "closing"]
          /\ UNCHANGED <<lock, up>>
     ELSE /\ up' = up \ {client}
          /\ Resume(t)
  /\ UNCHANGED <<callVars, failed, left, resume, result>>

\* close() completed, and with it the transport is closed.
Closed(t) ==
  /\ pc[t] = "closing"
  /\ up' = up \ {sess[t]}
  /\ Resume(t)
  /\ UNCHANGED <<callVars, client, failed, sess, left, resume, result>>

-----------------------------------------------------------------------------
(* Reads *)

ReadOps == OpKinds \ {"ping", "write", "close"}

\* A further block of the same method goes through _async_ensure_connected
\* again; a further identification page uses the client it already has.
NextRequest(t) ==
  /\ left[t] > 1
  /\ left' = [left EXCEPT ![t] = @ - 1]
  /\ pc' = [pc EXCEPT ![t] = IF op[t] = "identify" THEN "request" ELSE "ensure"]
  /\ UNCHANGED <<lock, result>>

\* Is the answer just received the last one the method needs?  The gateway
\* metadata stop at the first block when it is readable.
MayStop(t) == op[t] = "identify" \/ left[t] = 1
              \/ (op[t] = "gateway_info" /\ left[t] = Budget("gateway_info"))
MayGoOn(t) == op[t] = "identify"
              \/ (op[t] = "gateway_info" /\ left[t] < Budget("gateway_info"))
              \/ op[t] = "gateway_config"

ReadOk(t) ==
  /\ pc[t] = "request" /\ op[t] \in ReadOps
  /\ \/ MayStop(t) /\ Leave(t, "ok") /\ UNCHANGED left
     \/ MayGoOn(t) /\ NextRequest(t)
  /\ UNCHANGED <<callVars, client, up, failed, sess, resume>>

\* A Modbus exception answer, a short or malformed answer or a pagination
\* loop: IneproReadError, the client is kept.  The gateway metadata are
\* best effort and go on with the next block.
ReadRefused(t) ==
  /\ pc[t] = "request" /\ op[t] \in ReadOps
  /\ IF op[t] = "gateway_info"
     THEN \/ NextRequest(t)
          \/ left[t] = 1 /\ Leave(t, "ok") /\ UNCHANGED left
     ELSE Leave(t, "read_error") /\ UNCHANGED left
  /\ UNCHANGED <<callVars, client, up, failed, sess, resume>>

\* Wrong on purpose: a request that raised keeps its client.
ReadRaisesKeepsClient(t) ==
  /\ pc[t] = "request" /\ op[t] \in ReadOps
  /\ failed' = failed \cup {sess[t]}
  /\ Leave(t, "read_error")
  /\ UNCHANGED <<callVars, client, up, sess, left, resume>>

\* The request raised: the client is reset before the error is reported.
ReadRaises(t) ==
  /\ pc[t] = "request" /\ op[t] \in ReadOps
  /\ failed' = failed \cup {sess[t]}
  /\ \/ /\ op[t] = "gateway_info" /\ left[t] > 1
        /\ FailTo(t, "ensure", "none")
        /\ left' = [left EXCEPT ![t] = @ - 1]
     \/ /\ op[t] = "gateway_info" /\ left[t] = 1
        /\ FailTo(t, "idle", "ok") /\ UNCHANGED left
     \/ /\ op[t] # "gateway_info"
        /\ FailTo(t, "idle", "read_error") /\ UNCHANGED left
  /\ UNCHANGED <<callVars, client, up, sess>>

-----------------------------------------------------------------------------
(* _async_write_and_verify_locked *)

Writing(t, where) == pc[t] = where /\ op[t] = "write"

\* The device acknowledged the write, whether or not it took the values.
IssueWriteOk(t) ==
  /\ Writing(t, "request")
  /\ reg' \in {reg, want[t]}
  /\ pc' = [pc EXCEPT ![t] = "verify"]
  /\ UNCHANGED <<op, want, waiters, lock, client, up, failed, sess, left,
                 resume, result>>

\* Wrong on purpose: the failed attempt is not counted.
RetryWriteForEver(t) ==
  /\ failed' = failed \cup {sess[t]}
  /\ FailTo(t, "sleep", "none")
  /\ UNCHANGED <<op, want, waiters, client, up, sess, left>>

\* IneproWriteError: reset the client, then retry after a pause or give up.
RetryWrite(t) ==
  /\ failed' = failed \cup {sess[t]}
  /\ left' = [left EXCEPT ![t] = @ - 1]
  /\ IF left[t] > 1 THEN FailTo(t, "sleep", "none")
     ELSE FailTo(t, "idle", "write_error")
  /\ UNCHANGED <<op, want, waiters, client, up, sess>>

\* The write was refused, or its answer was lost after it had taken effect.
IssueWriteFails(t) ==
  /\ Writing(t, "request")
  /\ reg' \in {reg, want[t]}
  /\ RetryWrite(t)

\* Wrong on purpose: any answer to the read-back counts as a confirmation.
VerifyWriteAnyAnswer(t) ==
  /\ Writing(t, "verify")
  /\ Leave(t, "ok")
  /\ UNCHANGED <<callVars, client, up, failed, sess, left, resume>>

VerifyWriteOk(t) ==
  /\ Writing(t, "verify")
  /\ reg = want[t]
  /\ Leave(t, "ok")
  /\ UNCHANGED <<callVars, client, up, failed, sess, left, resume>>

\* The read-back differs, is refused, or raises.
VerifyWriteFails(t) ==
  /\ Writing(t, "verify")
  /\ RetryWrite(t)
  /\ UNCHANGED reg

\* asyncio.sleep between two attempts, with the lock held.
SleepEnds(t) ==
  /\ pc[t] = "sleep"
  /\ pc' = [pc EXCEPT ![t] = "ensure"]
  /\ UNCHANGED <<callVars, lock, client, up, failed, sess, left, resume, result>>

\* IneproBluetoothNotPairedError ends every method, a write included,
\* without another attempt.
NotPaired(t) ==
  /\ pc[t] \in {"connecting", "request", "verify"}
  /\ FailTo(t, "idle", "not_paired")
  /\ failed' = failed \cup {sess[t]}
  /\ UNCHANGED <<callVars, client, up, sess, left>>

-----------------------------------------------------------------------------
(* The environment *)

\* asyncio cancels a suspended task.  CancelledError is no Exception: no
\* handler runs, only the lock is released.  A write that was on the wire
\* may take effect; a close that was under way may not have happened.
Suspended == {"connecting", "request", "verify", "closing", "sleep"}

Cancel(t) ==
  /\ pc[t] \in Suspended \cap CancelsAt
  /\ Leave(t, "cancelled")
  /\ reg' \in IF Writing(t, "request") THEN {reg, want[t]} ELSE {reg}
  /\ up' \in IF pc[t] = "closing" THEN {up, up \ {sess[t]}} ELSE {up}
  /\ UNCHANGED <<op, want, waiters, client, failed, sess, left, resume>>

\* A task cancelled in Lock.acquire gives up its place in the queue.
CancelWaiting(t) ==
  /\ pc[t] = "waiting" /\ "waiting" \in CancelsAt
  /\ \E i \in DOMAIN waiters :
       waiters[i] = t /\ waiters' = RemoveAt(waiters, i)
  /\ pc' = [pc EXCEPT ![t] = "idle"]
  /\ result' = [result EXCEPT ![t] = "cancelled"]
  /\ UNCHANGED <<op, want, reg, lock, client, up, failed, sess, left, resume>>

\* The peer or the link closes an open transport.
LinkLost(s) ==
  /\ s \in up
  /\ up' = up \ {s}
  /\ UNCHANGED <<callVars, lock, client, failed, pc, sess, left, resume, result>>

-----------------------------------------------------------------------------

Step(t) ==
  \/ Acquire(t)   \/ Reuse(t)        \/ Reconnect(t) \/ Build(t)
  \/ ConnectOk(t) \/ ConnectFails(t) \/ ResetClient(t) \/ Closed(t)
  \/ ReadOk(t)    \/ ReadRefused(t)  \/ ReadRaises(t)
  \/ IssueWriteOk(t)  \/ IssueWriteFails(t)
  \/ VerifyWriteOk(t) \/ VerifyWriteFails(t)
  \/ SleepEnds(t) \/ NotPaired(t)

Next ==
  \/ \E t \in Tasks : \/ Step(t) \/ Cancel(t) \/ CancelWaiting(t)
                      \/ \E o \in OpKinds : Start(t, o)
  \/ \E s \in Sessions : LinkLost(s)

Spec == Init /\ [][Next]_vars

-----------------------------------------------------------------------------
(* What the client promises, TransportOwner: only the holder of the lock   *)
(* opens or closes a transport, and never two are open.                    *)

Owner == INSTANCE TransportOwner WITH owner <- lock, open <- up

-----------------------------------------------------------------------------
(* Properties *)

\* Nobody, async_close included, replaces or drops the client while another
\* task has a connect or a request outstanding on it.
RequestOnCurrentClient ==
  \A t \in Tasks :
    pc[t] \in {"connecting", "request", "verify"} =>
      sess[t] = client /\ client # NoSession

\* A transport on which a request raised, or a write was not confirmed, is
\* dropped before anything else is sent: a late answer meant for the failed
\* request can never be taken for the answer to a later one.
FailedTransportNeverReused ==
  \A t \in Tasks : pc[t] \in {"request", "verify"} => sess[t] \notin failed

\* A serial port, a BLE link or a gateway slot is exclusive: whatever is open
\* is the current client or is being closed by the task that dropped it.
NoStrayTransport ==
  \A s \in up : s = client \/ \E t \in Tasks : pc[t] = "closing" /\ sess[t] = s

\* A close that was begun is completed: true of every close that does not
\* suspend, and of one that does (BLE, or a serial port behind a URL, closed in
\* a thread) while no task is cancelled in it.
CloseCompletes == AwaitedClose => "closing" \notin CancelsAt

\* A write reports success only if the device then holds the values, even
\* when the device acknowledges writes it ignores.
WriteOkMeansHeld ==
  [][\A t \in Tasks :
       op[t] = "write" /\ result[t] # "ok" /\ result'[t] = "ok" => reg' = want[t]]_vars

\* The detailed client implements the one-transport contract: every step is a
\* step of TransportOwner or changes neither the owner nor what is open.
OneTransportContract == Owner!Spec

\* When async_close returns, no transport is left open.
CloseLeavesNothingOpen ==
  [][\A t \in Tasks :
       op[t] = "close" /\ pc[t] # "idle" /\ pc'[t] = "idle" /\ result'[t] = "ok"
         => up' = {} /\ client' = NoSession]_vars

\* The inductive invariant behind these properties: exactly the holder of the
\* lock is inside the locked part of a method, a client that failed survives
\* only until its task drops it, and closing is the only time a task keeps a
\* transport the client has forgotten.
LockInv == \A t \in Tasks : (pc[t] \notin {"idle", "waiting"}) <=> (lock = t)
FailedInv == client \in failed => \E t \in Tasks : pc[t] = "drop"
ClosingInv ==
  \A t \in Tasks : pc[t] = "closing" => client = NoSession /\ AwaitedClose
BudgetInv ==
  \A t \in Tasks :
    \/ pc[t] \in {"waiting", "ensure", "connecting", "request", "verify", "sleep"}
    \/ pc[t] \in {"drop", "closing"} /\ resume[t] # "idle"
    => left[t] >= 1
IInv == TypeOK /\ LockInv /\ RequestOnCurrentClient /\ FailedInv /\ ClosingInv
        /\ BudgetInv

\* Every method that was called returns or raises: no error path keeps the
\* lock, and the retries end.
EveryCallReturns == \A t \in Tasks : (pc[t] # "idle") ~> (pc[t] = "idle")

=============================================================================
