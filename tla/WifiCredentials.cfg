SPECIFICATION Spec
CONSTANTS
  Callers = {c1}
  MaxCalls = 6
INVARIANTS IInv CredentialsBelongTogether ReturnedMeansInForce
CHECK_DEADLOCK FALSE
