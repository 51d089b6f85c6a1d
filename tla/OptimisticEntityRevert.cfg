SPECIFICATION Spec
CONSTANTS
  Values = {a, b}
  OtherValues = {}
  Cancellations = FALSE
  None = None
  Unavailable = Unavailable
  Changes = 3
PROPERTY StalePollsDoNotRevert
