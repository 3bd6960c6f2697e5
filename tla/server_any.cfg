\* Peers that send anything, a server that fills up.
SPECIFICATION Spec
CONSTANTS
  Nicks = {n1, n2}
  NoNick = ""
  IPs = {a}
  LongPing = 1
  MaxClients = 2
  MaxInstances = 3
  MaxGames = 1
  MaxSock = 3
  MaxPending = 0
  PingSlack = 0
  MaySend <- AnyRequest
SYMMETRY Symmetry
INVARIANTS
  TypeOK UniqueNicks OwnSockets WithinCapacity RefusedIsNew
  DisconnectedIsClosed OpponentsDiffer NobodyLeftReady
