\* Two messages, cut anywhere.
SPECIFICATION Spec
CONSTANTS
  Data = {"l", "m", "1", "2"}
  Contents <- Requests
  Streams <- WellFormed
  SizeBuff = 14
  LongestMsg = 5
INVARIANT ServedWasSent
