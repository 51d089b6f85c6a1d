SPECIFICATION Spec
CONSTANTS
  Links = {l1, l2}
  Keys = {read, write}
  MaxRequests = 2
  NoLink = NoLink
INVARIANTS BleInv BluezInv ProxyInv
PROPERTIES AnswerIsOwnInFreshSession RequestEnds PairingEnds
CHECK_DEADLOCK FALSE
