\* One connection, a buffer of fourteen bytes.
SPECIFICATION Spec
CONSTANTS
  Data = {"l", "m", "1", "2"}
  Contents <- Requests
  Streams <- ThreeItems
  SizeBuff = 14
  LongestMsg = 5
INVARIANTS
  BufferIsTerminated MessageIsOfOneReading OneReceiveIsExact
  ServedInOrder LastWordIsServed OnlyFloodersAreClosed
