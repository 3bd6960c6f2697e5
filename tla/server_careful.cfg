\* Careful peers, a server that never fills up.
SPECIFICATION ToldSpec
CONSTANTS
  Nicks = {n1, n2}
  NoNick = ""
  IPs = {a, b}
  LongPing = 1
  MaxClients = 4
  MaxInstances = 3
  MaxGames = 1
  MaxSock = 3
  MaxPending = 1
  PingSlack = 0
  MaySend <- CarefulRequest
SYMMETRY Symmetry
INVARIANTS
  RoomAgreement PlayersHaveRoom ClosedIsDisconnected
  ErasedIsDisconnected NoSocketLeak NeverUndefined ToldAgrees
PROPERTY MoverStandsBy
