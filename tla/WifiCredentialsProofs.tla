----------------------- MODULE WifiCredentialsProofs -----------------------
(***************************************************************************)
(* Theorems about WifiCredentials for calls that do not overlap, however   *)
(* many there are and whichever of their writes fail.  That the meter's    *)
(* credentials belong together is not inductive by itself: it needs that a *)
(* call which reaches the apply command has its earlier writes in the      *)
(* meter (Progress), because a write that fails ends the plan.             *)
(***************************************************************************)
EXTENDS WifiCredentials, TLAPS

LEMMA SwitchPlan ==
  ASSUME NEW p, p = SwitchWrites
  PROVE  Len(p) = 1 /\ DOMAIN p = 1 .. 1 /\ p[1] = "enable"
  BY DEF SwitchWrites

LEMMA PlainPlan ==
  ASSUME NEW p, p = CredentialWrites(FALSE)
  PROVE  /\ Len(p) = 3 /\ DOMAIN p = 1 .. 3
         /\ p[1] = "enable" /\ p[2] = "ssid" /\ p[3] = "password"
  BY DEF CredentialWrites

LEMMA ApplyPlan ==
  ASSUME NEW p, p = CredentialWrites(TRUE)
  PROVE  /\ Len(p) = 4 /\ DOMAIN p = 1 .. 4 /\ p[1] = "enable"
         /\ p[2] = "ssid" /\ p[3] = "password" /\ p[4] = "apply"
  BY DEF CredentialWrites

\* The apply command is the last write of the one plan that has it, after both
\* credentials.
Shape(p) ==
  /\ Len(p) \in Nat \ {0} /\ DOMAIN p = 1 .. Len(p)
  /\ \A i \in 1 .. Len(p) :
       /\ p[i] \in Registers
       /\ p[i] = "apply" => i = Len(p) /\ p = CredentialWrites(TRUE)
  /\ p = CredentialWrites(TRUE) =>
       Len(p) = 4 /\ p[2] = "ssid" /\ p[3] = "password" /\ p[4] = "apply"

LEMMA PlanShape == ASSUME NEW p \in Plans PROVE Shape(p)
<1>1. CASE p = SwitchWrites
  <2>1. Len(p) = 1 /\ DOMAIN p = 1 .. 1 /\ p[1] = "enable"
    BY <1>1, SwitchPlan
  <2>2. p # CredentialWrites(TRUE)
    BY <2>1, ApplyPlan
  <2>3. \A i \in 1 .. 1 : i = 1
    OBVIOUS
  <2>4. Len(p) \in Nat \ {0} /\ DOMAIN p = 1 .. Len(p)
    BY <2>1
  <2>5. \A i \in 1 .. Len(p) : p[i] \in Registers /\ p[i] # "apply"
    BY <2>1, <2>3 DEF Registers
  <2> QED
    BY <2>2, <2>4, <2>5, Zenon DEF Shape
<1>2. CASE p = CredentialWrites(FALSE)
  <2>1. /\ Len(p) = 3 /\ DOMAIN p = 1 .. 3
        /\ p[1] = "enable" /\ p[2] = "ssid" /\ p[3] = "password"
    BY <1>2, PlainPlan
  <2>2. p # CredentialWrites(TRUE)
    BY <2>1, ApplyPlan
  <2>3. \A i \in 1 .. 3 : i = 1 \/ i = 2 \/ i = 3
    OBVIOUS
  <2>4. Len(p) \in Nat \ {0} /\ DOMAIN p = 1 .. Len(p)
    BY <2>1
  <2>5. \A i \in 1 .. Len(p) : p[i] \in Registers /\ p[i] # "apply"
    BY <2>1, <2>3 DEF Registers
  <2> QED
    BY <2>2, <2>4, <2>5, Zenon DEF Shape
<1>3. CASE p = CredentialWrites(TRUE)
  <2>1. /\ Len(p) = 4 /\ DOMAIN p = 1 .. 4 /\ p[1] = "enable"
        /\ p[2] = "ssid" /\ p[3] = "password" /\ p[4] = "apply"
    BY <1>3, ApplyPlan
  <2>3. \A i \in 1 .. 4 : i = 1 \/ i = 2 \/ i = 3 \/ i = 4
    OBVIOUS
  <2>4. Len(p) \in Nat \ {0} /\ DOMAIN p = 1 .. Len(p)
    BY <2>1
  <2>5. \A i \in 1 .. Len(p) : p[i] \in Registers /\ (p[i] = "apply" => i = Len(p))
    BY <2>1, <2>3 DEF Registers
  <2> QED
    BY <1>3, <2>1, <2>4, <2>5, Zenon DEF Shape
<1> QED
  BY <1>1, <1>2, <1>3 DEF Plans

LEMMA InitInv == Init => IInv
<1> SUFFICES ASSUME Init PROVE IInv
  OBVIOUS
<1>1. SwitchWrites \in Plans /\ Len(SwitchWrites) \in Nat
  BY SwitchPlan DEF Plans
<1>2. TypeOK
  BY <1>1, WifiBounds DEF Init, TypeOK, Calls, Registers, Credentials
<1>3. CredentialsBelongTogether
  BY DEF Init, CredentialsBelongTogether, Credentials
<1>4. ReturnedMeansInForce /\ Progress
  BY DEF Init, ReturnedMeansInForce, Progress
<1> QED
  BY <1>2, <1>3, <1>4 DEF IInv

\* A call begins with nothing written and no outcome.
LEMMA CallInv == ASSUME OneCaller, IInv, NEW c \in Callers, Call(c) PROVE IInv'
<1> USE DEF IInv, TypeOK, Call
<1>1. PICK p \in Plans : plan' = [plan EXCEPT ![c] = p]
  OBVIOUS
<1>2. \A d \in Callers : d = c
  BY DEF OneCaller
<1>3. plan'[c] = p /\ at'[c] = 1 /\ outcome'[c] = "none"
  BY <1>1
<1>a. Len(p) \in Nat \ {0}
  BY PlanShape DEF Shape
<1>4. /\ calls' \in Calls /\ call' \in [Callers -> Calls]
      /\ plan' \in [Callers -> Plans] /\ at' \in [Callers -> Nat]
      /\ outcome' \in [Callers -> {"none", "ok", "failed"}]
      /\ regs' \in [Registers -> Calls] /\ active' \in [Credentials -> Calls]
  BY <1>1, WifiBounds DEF Calls
<1>5. \A d \in Callers : at'[d] <= Len(plan'[d])
  <2>1. 1 <= Len(p)
    BY <1>a
  <2> QED
    BY <1>2, <1>3, <2>1
<1>6. CredentialsBelongTogether'
  BY DEF CredentialsBelongTogether
<1>7. ReturnedMeansInForce'
  BY <1>2, <1>3 DEF ReturnedMeansInForce
<1>8. Progress'
  <2>1. 1 .. (at'[c] - 1) = {}
    BY <1>3
  <2> QED
    BY <1>2, <1>3, <2>1 DEF Progress
<1> QED
  BY <1>4, <1>5, <1>6, <1>7, <1>8

\* What one write does to the registers and to what the meter uses.
LEMMA DeviceLemma ==
  ASSUME IInv, NEW c \in Callers, at[c] # 0, Device(c, plan[c][at[c]])
  PROVE  /\ at[c] \in 1 .. Len(plan[c]) /\ Shape(plan[c])
         /\ regs' \in [Registers -> Calls]
         /\ active' \in [Credentials -> Calls]
         /\ \A i \in 1 .. at[c] : regs'[plan[c][i]] = call[c]
         /\ CredentialsBelongTogether'
         /\ plan[c][at[c]] = "apply" => active'["ssid"] = call[c]
<1> DEFINE p == plan[c]
           r == p[at[c]]
<1> USE DEF IInv, TypeOK
<1>1. p \in Plans /\ Shape(p) /\ at[c] \in 1 .. Len(p)
  <2>1. p \in Plans /\ Shape(p)
    BY PlanShape
  <2>2. Len(p) \in Nat
    BY <2>1 DEF Shape
  <2>3. at[c] \in Nat /\ at[c] <= Len(p)
    OBVIOUS
  <2> HIDE DEF p
  <2> QED
    BY <2>1, <2>2, <2>3
<1>2. r \in Registers /\ call[c] \in Calls
  BY <1>1 DEF Shape
<1>3. regs' = [regs EXCEPT ![r] = call[c]]
  BY DEF Device
<1>4. /\ regs' \in [Registers -> Calls] /\ active' \in [Credentials -> Calls]
  BY <1>2, <1>3 DEF Device, Credentials, Registers
<1>5. \A i \in 1 .. at[c] : regs'[p[i]] = call[c]
  <2> SUFFICES ASSUME NEW i \in 1 .. at[c] PROVE regs'[p[i]] = call[c]
    OBVIOUS
  <2>1. p[i] \in Registers
    <3> DEFINE n == Len(p)
    <3>1. n \in Nat /\ at[c] \in 1 .. n /\ at[c] \in Nat
      BY <1>1 DEF Shape
    <3> HIDE DEF n
    <3>2. i \in 1 .. n
      BY <3>1
    <3> QED
      BY <1>1, <3>2, Zenon DEF Shape, n
  <2>2. CASE p[i] = r
    BY <1>2, <1>3, <2>2
  <2>3. CASE p[i] # r
    <3>1. i \in 1 .. at[c] - 1
      BY <1>1, <2>3
    <3> QED
      BY <1>3, <2>1, <2>3, <3>1 DEF Progress
  <2> QED
    BY <2>2, <2>3
<1>6. CASE r = "apply"
  <2>1. at[c] = 4 /\ p[2] = "ssid" /\ p[3] = "password"
    BY <1>1, <1>6 DEF Shape
  <2>a. 2 \in 1 .. at[c] - 1 /\ 3 \in 1 .. at[c] - 1
    BY <2>1
  <2>2. regs["ssid"] = call[c] /\ regs["password"] = call[c]
    BY <2>1, <2>a, ZenonT(30) DEF Progress
  <2>3. active' = [k \in Credentials |-> regs[k]]
    BY <1>6 DEF Device
  <2> QED
    BY <1>1, <1>4, <1>5, <2>2, <2>3 DEF Credentials, CredentialsBelongTogether
<1>7. CASE r # "apply"
  <2>1. active' = active
    BY <1>7 DEF Device
  <2> QED
    BY <1>1, <1>4, <1>5, <1>7, <2>1 DEF CredentialsBelongTogether
<1> QED
  BY <1>6, <1>7

LEMMA WriteInv == ASSUME OneCaller, IInv, NEW c \in Callers, Write(c) PROVE IInv'
<1> USE DEF IInv, TypeOK
<1>1. \A d \in Callers : d = c
  BY DEF OneCaller
<1>2. /\ at[c] # 0 /\ Device(c, plan[c][at[c]]) /\ Proceed(c)
      /\ calls' = calls /\ call' = call /\ plan' = plan
  BY DEF Write, Proceed
<1>3. /\ at[c] \in 1 .. Len(plan[c]) /\ Shape(plan[c])
      /\ regs' \in [Registers -> Calls] /\ active' \in [Credentials -> Calls]
      /\ \A i \in 1 .. at[c] : regs'[plan[c][i]] = call[c]
      /\ CredentialsBelongTogether'
      /\ plan[c][at[c]] = "apply" => active'["ssid"] = call[c]
  BY <1>2, DeviceLemma
<1>4. CASE at[c] = Len(plan[c])
  <2>1. at'[c] = 0 /\ outcome'[c] = "ok"
    BY <1>2, <1>4 DEF Proceed
  <2>2. at' \in [Callers -> Nat] /\ outcome' \in [Callers -> {"none", "ok", "failed"}]
    BY <1>2 DEF Proceed
  <2>a. Len(plan[c]) >= 0
    <3> DEFINE n == Len(plan[c])
    <3>1. n \in Nat
      BY <1>3 DEF Shape
    <3> HIDE DEF n
    <3>2. n >= 0
      BY <3>1
    <3> QED
      BY <3>2 DEF n
  <2>3. TypeOK'
    BY <1>1, <1>2, <1>3, <2>1, <2>2, <2>a
  <2>4. Progress'
    BY <1>1, <2>1 DEF Progress
  <2>5. ReturnedMeansInForce'
    BY <1>1, <1>2, <1>3, <1>4 DEF ReturnedMeansInForce, Shape
  <2> QED
    BY <1>3, <2>3, <2>4, <2>5
<1>5. CASE at[c] # Len(plan[c])
  <2>1. at'[c] = at[c] + 1 /\ outcome'[c] = "none"
    BY <1>2, <1>5 DEF Proceed, Progress
  <2>2. at' \in [Callers -> Nat] /\ outcome' \in [Callers -> {"none", "ok", "failed"}]
    BY <1>2 DEF Proceed
  <2>3. at'[c] <= Len(plan[c])
    <3> DEFINE n == Len(plan[c])
    <3>1. n \in Nat
      BY <1>3 DEF Shape
    <3>2. at[c] \in 1 .. n /\ at[c] # n
      BY <1>3, <1>5
    <3> HIDE DEF n
    <3>3. at'[c] <= n
      BY <2>1, <3>1, <3>2
    <3> QED
      BY <3>3 DEF n
  <2>4. TypeOK'
    BY <1>1, <1>2, <1>3, <2>2, <2>3
  <2>5. Progress'
    BY <1>1, <1>2, <1>3, <2>1 DEF Progress
  <2>6. ReturnedMeansInForce'
    BY <1>1, <2>1 DEF ReturnedMeansInForce
  <2> QED
    BY <1>3, <2>4, <2>5, <2>6
<1> QED
  BY <1>4, <1>5

\* A write that fails ends the call, whether or not it reached the meter.
LEMMA FailInv == ASSUME OneCaller, IInv, NEW c \in Callers, WriteFails(c) PROVE IInv'
<1> USE DEF IInv, TypeOK
<1>1. \A d \in Callers : d = c
  BY DEF OneCaller
<1>2. /\ at[c] # 0 /\ at' = [at EXCEPT ![c] = 0]
      /\ outcome' = [outcome EXCEPT ![c] = "failed"]
      /\ calls' = calls /\ call' = call /\ plan' = plan
  BY DEF WriteFails
<1>3. at'[c] = 0 /\ outcome'[c] = "failed"
  BY <1>2
<1>4. /\ regs' \in [Registers -> Calls] /\ active' \in [Credentials -> Calls]
      /\ CredentialsBelongTogether'
  <2>1. CASE Device(c, plan[c][at[c]])
    BY <1>2, <2>1, DeviceLemma
  <2>2. CASE UNCHANGED <<regs, active>>
    BY <2>2 DEF CredentialsBelongTogether
  <2> QED
    BY <2>1, <2>2 DEF WriteFails
<1>5. Len(plan[c]) \in Nat
  BY PlanShape DEF Shape
<1>6. TypeOK'
  BY <1>1, <1>2, <1>3, <1>4, <1>5
<1>7. Progress' /\ ReturnedMeansInForce'
  BY <1>1, <1>3 DEF Progress, ReturnedMeansInForce
<1> QED
  BY <1>4, <1>6, <1>7

LEMMA StepInv == OneCaller /\ IInv /\ [Next]_vars => IInv'
<1> SUFFICES ASSUME OneCaller, IInv, [Next]_vars PROVE IInv'
  OBVIOUS
<1>1. ASSUME NEW c \in Callers, Call(c) \/ Write(c) \/ WriteFails(c) PROVE IInv'
  BY <1>1, CallInv, WriteInv, FailInv
<1>2. CASE UNCHANGED vars
  BY <1>2 DEF vars, IInv, TypeOK, CredentialsBelongTogether,
              ReturnedMeansInForce, Progress
<1> QED
  BY <1>1, <1>2 DEF Next

\* The inductive invariant of calls that do not overlap.
THEOREM WifiInvariance == OneCaller /\ Spec => []IInv
<1>1. CASE OneCaller
  BY <1>1, InitInv, StepInv, PTL DEF Spec
<1>2. CASE ~OneCaller
  BY <1>2
<1> QED
  BY <1>1, <1>2

\* Whatever writes fail, with or without effect, calls that do not overlap
\* never make the meter use the name of one with the password of another: the
\* apply command is the last write of the plan and a failure ends the plan.
THEOREM NoMixedCredentials == OneCaller /\ Spec => []CredentialsBelongTogether
<1>1. IInv => CredentialsBelongTogether
  BY DEF IInv
<1> QED
  BY <1>1, WifiInvariance, PTL

\* A set_wifi_credentials call that returned is in force until the next one.
THEOREM ReturnedIsInForce == OneCaller /\ Spec => []ReturnedMeansInForce
<1>1. IInv => ReturnedMeansInForce
  BY DEF IInv
<1> QED
  BY <1>1, WifiInvariance, PTL
=============================================================================
