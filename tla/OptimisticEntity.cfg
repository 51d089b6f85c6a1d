SPECIFICATION FairSpec
CONSTANTS
  Values = {a, b, c}
  OtherValues = {b}
  Cancellations = TRUE
  None = None
  Unavailable = Unavailable
  Changes = 4
INVARIANTS IInv ShowsTheMeter
PROPERTY EventuallyShown
