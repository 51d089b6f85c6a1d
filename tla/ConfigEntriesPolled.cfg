SPECIFICATION Spec
CONSTANTS
  A = A
  B = B
  NoSerial = NoSerial
  Ids = {1, 2}
  Flows = {F1, F2}
  F1 = F1
  F2 = F2
  MaxForms = 2
  Endpoints <- EndpointsDef
  Canonical <- CanonicalDef
  Reaches <- ReachesDef
  Inputs <- InputsDef
  Adverts <- AdvertsDef
  StoredBefore <- StoredDef
INVARIANT PolledOnBusRoute
CHECK_DEADLOCK FALSE
