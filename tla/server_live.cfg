\* Progress.
SPECIFICATION FairSpec
CONSTANTS
  Nicks = {n1, n2}
  NoNick = ""
  IPs = {a}
  LongPing = 1
  MaxClients = 4
  MaxInstances = 3
  MaxGames = 1
  MaxSock = 2
  MaxPending = 1
  PingSlack = 0
  MaySend <- CarefulRequest
PROPERTIES
  PassEnds SilentClientIsDropped MissingPlayerEndsGame ServerStops
