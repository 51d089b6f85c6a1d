--------------------------- MODULE WifiCredentials ---------------------------
(***************************************************************************)
(* Provisioning a meter's Wi-Fi: the register-write plan of                *)
(* build_wifi_credential_writes and its execution by                       *)
(* async_apply_register_writes (src/inepro_metering/commands.py), called   *)
(* by the set_wifi_credentials service and, with a plan of one register,   *)
(* by the Wi-Fi switch.                                                    *)
(*                                                                         *)
(* Each write of a plan takes the client's lock for itself, so a step is   *)
(* one write with its verification (ModbusClient), and the writes of two   *)
(* calls may alternate.  The value of a register is represented by the     *)
(* number of the call that wrote it.                                       *)
(***************************************************************************)
EXTENDS Naturals, Sequences

CONSTANTS
  Callers,  \* tasks that call the service or the switch
  MaxCalls  \* bound: calls

ASSUME WifiBounds == MaxCalls \in Nat

Registers == {"enable", "ssid", "password", "apply"}
Credentials == {"ssid", "password"}
Calls == 0 .. MaxCalls

\* Wrong on purpose: the apply command goes before the password.
EarlyApplyWrites(apply) ==
  <<"enable", "ssid">> \o (IF apply THEN <<"apply">> ELSE <<>>) \o <<"password">>

\* build_wifi_credential_writes
CredentialWrites(apply) ==
  <<"enable", "ssid", "password">> \o IF apply THEN <<"apply">> ELSE <<>>

\* The plan of the Wi-Fi support setting.
SwitchWrites == <<"enable">>

Plans == {CredentialWrites(TRUE), CredentialWrites(FALSE), SwitchWrites}

VARIABLES
  calls,    \* calls made so far
  call,     \* the last call of each caller
  plan,     \* the writes of that call
  at,       \* the write it makes next, 0 when the call is over
  outcome,  \* how the caller's last call ended
  regs,     \* the meter's registers: the call that wrote each
  active    \* the credentials the meter uses: what they were when applied

vars == <<calls, call, plan, at, outcome, regs, active>>

TypeOK ==
  /\ calls \in Calls
  /\ call \in [Callers -> Calls]
  /\ plan \in [Callers -> Plans]
  /\ at \in [Callers -> Nat]
  /\ \A c \in Callers : at[c] <= Len(plan[c])
  /\ outcome \in [Callers -> {"none", "ok", "failed"}]
  /\ regs \in [Registers -> Calls]
  /\ active \in [Credentials -> Calls]

Init ==
  /\ calls = 0
  /\ call = [c \in Callers |-> 0]
  /\ plan = [c \in Callers |-> SwitchWrites]
  /\ at = [c \in Callers |-> 0]
  /\ outcome = [c \in Callers |-> "none"]
  /\ regs = [r \in Registers |-> 0]
  /\ active = [r \in Credentials |-> 0]

Call(c) ==
  /\ at[c] = 0
  /\ calls < MaxCalls
  /\ calls' = calls + 1
  /\ call' = [call EXCEPT ![c] = calls + 1]
  /\ \E p \in Plans : plan' = [plan EXCEPT ![c] = p]
  /\ at' = [at EXCEPT ![c] = 1]
  /\ outcome' = [outcome EXCEPT ![c] = "none"]
  /\ UNCHANGED <<regs, active>>

\* What a write does in the meter: the apply register puts the credentials
\* into use as they are.
Device(c, r) ==
  /\ regs' = [regs EXCEPT ![r] = call[c]]
  /\ active' = IF r = "apply" THEN [k \in Credentials |-> regs[k]] ELSE active

\* Wrong on purpose: the call runs past the end of its plan.
ProceedPastEnd(c) ==
  LET last == at[c] > Len(plan[c]) IN
  /\ at' = [at EXCEPT ![c] = IF last THEN 0 ELSE @ + 1]
  /\ outcome' = [outcome EXCEPT ![c] = IF last THEN "ok" ELSE @]
  /\ UNCHANGED <<calls, call, plan>>

\* The call goes on to the next write of its plan, or returns.
Proceed(c) ==
  LET last == at[c] = Len(plan[c]) IN
  /\ at' = [at EXCEPT ![c] = IF last THEN 0 ELSE @ + 1]
  /\ outcome' = [outcome EXCEPT ![c] = IF last THEN "ok" ELSE @]
  /\ UNCHANGED <<calls, call, plan>>

\* The next write of the plan is made and verified.
Write(c) == at[c] # 0 /\ Device(c, plan[c][at[c]]) /\ Proceed(c)

\* Wrong on purpose: the plan goes on after a write that failed.
WriteFailsOnwards(c) ==
  /\ at[c] # 0
  /\ \/ Device(c, plan[c][at[c]])
     \/ UNCHANGED <<regs, active>>
  /\ Proceed(c)

\* The write raises, or the task is cancelled: the rest of the plan is not
\* written.  The write may have reached the meter all the same.
WriteFails(c) ==
  /\ at[c] # 0
  /\ \/ Device(c, plan[c][at[c]])
     \/ UNCHANGED <<regs, active>>
  /\ at' = [at EXCEPT ![c] = 0]
  /\ outcome' = [outcome EXCEPT ![c] = "failed"]
  /\ UNCHANGED <<calls, call, plan>>

Next == \E c \in Callers : Call(c) \/ Write(c) \/ WriteFails(c)

Spec == Init /\ [][Next]_vars

-----------------------------------------------------------------------------
(* Properties *)

\* "This enables Wi-Fi support, writes the SSID and password registers, then
\* optionally applies the settings with the Wi-Fi apply command"
\* (translations/en.json): the meter never uses the name of one call with the
\* password of another, whatever failed before.
CredentialsBelongTogether == active["ssid"] = active["password"]

\* A call that returned is in force: the meter holds what it wrote and, when
\* it asked for that, uses it, until the next call begins.
ReturnedMeansInForce ==
  \A c \in Callers : outcome[c] = "ok" /\ call[c] = calls =>
    /\ \A i \in DOMAIN plan[c] : regs[plan[c][i]] = call[c]
    /\ plan[c] = CredentialWrites(TRUE) => active["ssid"] = call[c]

\* No two calls overlap.
OneCaller == \A c, d \in Callers : c = d

\* A call in progress has its earlier writes in the meter.
Progress ==
  \A c \in Callers : at[c] # 0 =>
    /\ outcome[c] = "none"
    /\ \A i \in 1 .. at[c] - 1 : regs[plan[c][i]] = call[c]

\* The inductive invariant of a single caller.
IInv == TypeOK /\ CredentialsBelongTogether /\ ReturnedMeansInForce /\ Progress
=============================================================================
