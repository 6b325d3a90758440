SPECIFICATION DetonationSpec
CONSTANTS
  Destinations = {d1, d2} MaxEvents = 2 MaxListed = 1 ManyTimings = 1 MaxSteps = 4
  MaxDeviations = 2 MaxUnpurged = 1
INVARIANTS AllowIsFailClosed HostileIsReported BrowserAllowIsEarned RunEndsInReceipt
