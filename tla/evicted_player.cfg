SPECIFICATION Spec
CONSTANTS
  Nicks = {n1, n2}
  NoNick = ""
  IPs = {a}
  LongPing = 1
  MaxClients = 2
  MaxInstances = 3
  MaxGames = 1
  MaxSock = 3
  MaxPending = 1
  PingSlack = 0
  MaySend <- CarefulRequest
INVARIANT OpponentsExist
