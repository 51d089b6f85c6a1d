SPECIFICATION Spec
CONSTANTS
  NMeters = 2
  NBlocks = 2
  Gateway = TRUE
  MaxPolls = 3
  NoData = NoData
INVARIANTS IInv EachMeterOnItsOwn
PROPERTIES SilentMetersNeverFailTheBus ReadingsAreKept
CHECK_DEADLOCK FALSE
