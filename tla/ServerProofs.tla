----------------------------- MODULE ServerProofs -----------------------------
(***************************************************************************)
(* Proofs about module Server that hold whatever the peers send, for every *)
(* value of the constants.  The invariants are proved together: Safe says  *)
(* what is kept about the vector of clients and the open descriptors, and  *)
(* has one lemma for every way the code changes the vector.                *)
(***************************************************************************)
EXTENDS Server, VectorLemmas

-----------------------------------------------------------------------------
(* Changes of one instance that neither rename it, nor touch its socket,   *)
(* nor disconnect it.                                                      *)

Kept(c, d) ==
    /\ d \in ClientRecord
    /\ d.nick = c.nick /\ d.sock = c.sock
    /\ d.state = "Disconnected" => c.state = "Disconnected"

\* setState, for any state but Disconnected, is such a change.
LEMMA SetStateKept ==
    ASSUME NEW c \in ClientRecord, NEW s \in State, s # "Disconnected"
    PROVE  Kept(c, SetState(c, s)) /\ SetState(c, s).state = s
<1>1. CASE c.state \in Away
  <2>1. SetState(c, s) = [c EXCEPT !.last = c.last, !.state = s]
    BY <1>1 DEF SetState
  <2> QED
    BY <2>1 DEF ClientRecord, Kept
<1>2. CASE c.state \notin Away
  <2>1. c.state \in Present
    BY <1>2 DEF ClientRecord, Present
  <2>2. SetState(c, s) = [c EXCEPT !.last = c.state, !.state = s]
    BY <1>2 DEF SetState
  <2> QED
    BY <2>1, <2>2 DEF ClientRecord, Kept
<1> QED
  BY <1>1, <1>2

\* setStateLast is such a change.
LEMMA SetStateLastKept ==
    ASSUME NEW c \in ClientRecord, NEW s \in Present
    PROVE  Kept(c, SetStateLast(c, s)) /\ SetStateLast(c, s).state = c.state
BY DEF SetStateLast, ClientRecord, Kept

\* What destroyRoom does to a player is such a change.
LEMMA BackToLobbyKept ==
    ASSUME NEW c \in ClientRecord
    PROVE  Kept(c, BackToLobby(c))
<1>1. "Waiting" \in State /\ "Waiting" \in Present /\ LobbyRoom \in Nat
  BY DEF State, Present, Away, LobbyRoom
<1> DEFINE d == IF c.state \in Away THEN SetStateLast(c, "Waiting") ELSE SetState(c, "Waiting")
<1>2. Kept(c, d)
  BY <1>1, SetStateKept, SetStateLastKept
<1>3. BackToLobby(c) = [d EXCEPT !.room = LobbyRoom]
  BY DEF BackToLobby
<1> HIDE DEF d
<1> QED
  BY <1>1, <1>2, <1>3 DEF Kept, ClientRecord

\* What an accepted move does to the next player is such a change.
LEMMA NowOnTurnKept ==
    ASSUME NEW c \in ClientRecord
    PROVE  Kept(c, NowOnTurn(c))
<1>1. "PlayingOnTurn" \in State /\ "PlayingOnTurn" \in Present
  BY DEF State, Present, Away
<1> QED
  BY <1>1, SetStateKept, SetStateLastKept DEF NowOnTurn

\* What a ping round does to an instance is such a change.
LEMMA PingOneKept ==
    ASSUME NEW c \in ClientRecord
    PROVE  Kept(c, PingOne(c)) /\ (PingOne(c).state = "Ready" => c.state = "Ready")
<1>1. CASE IsUseless(c)
  <2>1. PingOne(c) = [c EXCEPT !.disc = TRUE, !.erase = TRUE]
    BY <1>1 DEF PingOne, MarkUseless
  <2> QED
    BY <1>1, <2>1 DEF Kept, ClientRecord
<1>2. CASE ~IsUseless(c) /\ c.state = "Pinged"
  <2>1. PingOne(c) = SetState(c, "Lost")
    BY <1>2 DEF PingOne
  <2> QED
    BY <2>1, SetStateKept DEF State
<1>3. CASE ~IsUseless(c) /\ c.state = "Lost"
  <2>1. PingOne(c) = [c EXCEPT !.disc = TRUE]
    BY <1>3 DEF PingOne, MarkNotResponding
  <2> QED
    BY <1>3, <2>1 DEF Kept, ClientRecord
<1>4. CASE ~IsUseless(c) /\ c.state = "Disconnected"
  <2>1. PingOne(c) = [c EXCEPT !.pings = c.pings - 1, !.erase = c.erase \/ c.pings = 1]
    BY <1>4 DEF PingOne, CountDown
  <2>2. c.pings - 1 \in Int /\ (c.erase \/ c.pings = 1) \in BOOLEAN
    BY DEF ClientRecord
  <2> QED
    BY <1>4, <2>1, <2>2 DEF Kept, ClientRecord
<1>5. CASE ~IsUseless(c) /\ c.state \notin {"Pinged", "Lost", "Disconnected"}
  <2>1. PingOne(c) = SetState(c, "Pinged")
    BY <1>5 DEF PingOne
  <2> QED
    BY <2>1, SetStateKept DEF State
<1> QED
  BY <1>1, <1>2, <1>3, <1>4, <1>5

\* Closing a connection keeps the name and leaves no open socket.
LEMMA ClosedProperties ==
    ASSUME NEW c \in ClientRecord
    PROVE  /\ Closed(c) \in ClientRecord
           /\ Closed(c).nick = c.nick
           /\ ~IsOpen(Closed(c))
           /\ ~IsOpen(c) => Closed(c) = c
<1>1. CASE IsOpen(c)
  <2>1. "Disconnected" \in State /\ BadSocket \in Int /\ ~(BadSocket > 0)
    BY DEF State, BadSocket
  <2>2. PICK l \in Present : SetState(c, "Disconnected") = [c EXCEPT !.last = l, !.state = "Disconnected"]
    <3>1. c.last \in Present /\ c.state \in State
      BY DEF ClientRecord
    <3>2. CASE c.state \in Away
      BY <3>1, <3>2 DEF SetState
    <3>3. CASE c.state \notin Away
      BY <3>1, <3>3 DEF SetState, Present
    <3> QED
      BY <3>2, <3>3
  <2>3. Closed(c) = [[c EXCEPT !.last = l, !.state = "Disconnected"] EXCEPT !.sock = BadSocket]
    BY <1>1, <2>2 DEF Closed
  <2> QED
    BY <1>1, <2>1, <2>3 DEF ClientRecord, IsOpen
<1>2. CASE ~IsOpen(c)
  BY <1>2 DEF Closed
<1> QED
  BY <1>1, <1>2

-----------------------------------------------------------------------------
(* Changes of the vector.                                                  *)

KeptAll(cs, ds) ==
    /\ ds \in Seq(ClientRecord)
    /\ Len(ds) = Len(cs)
    /\ \A i \in 1..Len(cs) : Kept(cs[i], ds[i])

\* What is kept about the vector and the open descriptors.
Safe(cs, ss) ==
    /\ cs \in Seq(ClientRecord)
    /\ \A i, j \in DOMAIN cs : cs[i].nick = cs[j].nick /\ cs[i].nick # NoNick => i = j
    /\ \A i \in DOMAIN cs : IsOpen(cs[i]) => cs[i].sock \in ss
    /\ \A i, j \in DOMAIN cs : IsOpen(cs[i]) /\ cs[i].sock = cs[j].sock => i = j
    /\ \A i \in DOMAIN cs : cs[i].state = "Disconnected" => ~IsOpen(cs[i])

\* A vector is kept by keeping what it has.
LEMMA KeptAllRefl ==
    ASSUME NEW cs \in Seq(ClientRecord)
    PROVE  KeptAll(cs, cs)
<1>1. \A i \in 1..Len(cs) : cs[i] \in ClientRecord
  BY ElementOfSeq
<1> QED
  BY <1>1 DEF KeptAll, Kept

\* Changes of one instance after another add up.
LEMMA KeptAllTrans ==
    ASSUME NEW cs, NEW ds, NEW es, KeptAll(cs, ds), KeptAll(ds, es)
    PROVE  KeptAll(cs, es)
BY DEF KeptAll, Kept

\* Assigning one instance: an index outside of the vector changes nothing.
LEMMA AssignKept ==
    ASSUME NEW cs \in Seq(ClientRecord), NEW i, NEW e,
           i \in DOMAIN cs => Kept(cs[i], e)
    PROVE  KeptAll(cs, [cs EXCEPT ![i] = e])
<1>1. DOMAIN cs = 1..Len(cs) /\ \A j \in 1..Len(cs) : cs[j] \in ClientRecord
  BY ElementOfSeq
<1>2. CASE i \in DOMAIN cs
  <2>1. e \in ClientRecord
    BY <1>2 DEF Kept
  <2>2. /\ [cs EXCEPT ![i] = e] \in Seq(ClientRecord)
        /\ Len([cs EXCEPT ![i] = e]) = Len(cs)
        /\ \A j \in DOMAIN cs : [cs EXCEPT ![i] = e][j] = IF j = i THEN e ELSE cs[j]
    BY <2>1, AssignProperties
  <2> QED
    BY <1>1, <1>2, <2>2 DEF KeptAll, Kept
<1>3. CASE i \notin DOMAIN cs
  <2>1. [cs EXCEPT ![i] = e] = cs
    BY <1>1, <1>3
  <2> QED
    BY <2>1, KeptAllRefl
<1> QED
  BY <1>2, <1>3

\* destroyRoom keeps the vector, whoever the two players are.
LEMMA BothToLobbyKept ==
    ASSUME NEW cs \in Seq(ClientRecord), NEW i, NEW j
    PROVE  KeptAll(cs, BothToLobby(cs, i, j))
<1> DEFINE first == [cs EXCEPT ![i] = BackToLobby(cs[i])]
<1>1. KeptAll(cs, first)
  <2>1. i \in DOMAIN cs => Kept(cs[i], BackToLobby(cs[i]))
    BY ElementOfSeq, BackToLobbyKept
  <2> QED
    BY <2>1, AssignKept
<1>2. first \in Seq(ClientRecord)
  BY <1>1 DEF KeptAll
<1>3. BothToLobby(cs, i, j) = [first EXCEPT ![j] = BackToLobby(first[j])]
  BY DEF BothToLobby
<1> HIDE DEF first
<1>4. KeptAll(first, [first EXCEPT ![j] = BackToLobby(first[j])])
  <2>1. j \in DOMAIN first => Kept(first[j], BackToLobby(first[j]))
    BY <1>2, ElementOfSeq, BackToLobbyKept
  <2> QED
    BY <1>2, <2>1, AssignKept
<1> QED
  BY <1>1, <1>3, <1>4, KeptAllTrans

\* Kept instances stay safe.
LEMMA SafeKept ==
    ASSUME NEW cs, NEW ds, NEW ss, Safe(cs, ss), KeptAll(cs, ds)
    PROVE  Safe(ds, ss)
<1>1. DOMAIN cs = 1..Len(cs) /\ DOMAIN ds = 1..Len(cs)
  BY DEF Safe, KeptAll
<1>2. \A i \in DOMAIN ds :
         /\ ds[i].nick = cs[i].nick /\ ds[i].sock = cs[i].sock
         /\ ds[i].state = "Disconnected" => cs[i].state = "Disconnected"
         /\ IsOpen(ds[i]) <=> IsOpen(cs[i])
  BY <1>1 DEF KeptAll, Kept, IsOpen
<1>3. \A i, j \in DOMAIN ds : ds[i].nick = ds[j].nick /\ ds[i].nick # NoNick => i = j
  BY <1>1, <1>2 DEF Safe
<1>4. \A i \in DOMAIN ds : IsOpen(ds[i]) => ds[i].sock \in ss
  BY <1>1, <1>2 DEF Safe
<1>5. \A i, j \in DOMAIN ds : IsOpen(ds[i]) /\ ds[i].sock = ds[j].sock => i = j
  BY <1>1, <1>2 DEF Safe
<1>6. \A i \in DOMAIN ds : ds[i].state = "Disconnected" => ~IsOpen(ds[i])
  BY <1>1, <1>2 DEF Safe
<1> QED
  BY <1>3, <1>4, <1>5, <1>6 DEF Safe, KeptAll

\* Erasing an instance leaves the others safe.
LEMMA SafeRemove ==
    ASSUME NEW cs, NEW ss, Safe(cs, ss), NEW i \in 1..Len(cs)
    PROVE  Safe(RemoveAt(cs, i), ss) /\ Len(RemoveAt(cs, i)) = Len(cs) - 1
<1> DEFINE ds == RemoveAt(cs, i)
           Old(j) == IF j < i THEN j ELSE j + 1
<1>1. cs \in Seq(ClientRecord) /\ DOMAIN cs = 1..Len(cs) /\ Len(cs) \in Nat
  BY DEF Safe
<1>2. /\ ds \in Seq(ClientRecord) /\ Len(ds) = Len(cs) - 1
      /\ \A j \in 1..(Len(cs) - 1) : ds[j] = IF j < i THEN cs[j] ELSE cs[j + 1]
  BY <1>1, RemoveAtProperties
<1>3. DOMAIN ds = 1..(Len(cs) - 1)
  BY <1>2
<1> HIDE DEF ds
<1>4. \A j \in DOMAIN ds : Old(j) \in DOMAIN cs /\ ds[j] = cs[Old(j)]
  BY <1>1, <1>2, <1>3
<1>5. \A j, k \in DOMAIN ds : Old(j) = Old(k) => j = k
  BY <1>1, <1>3
<1> HIDE DEF Old
<1>6. \A j, k \in DOMAIN ds : ds[j].nick = ds[k].nick /\ ds[j].nick # NoNick => j = k
  BY <1>4, <1>5 DEF Safe
<1>7. \A j \in DOMAIN ds : IsOpen(ds[j]) => ds[j].sock \in ss
  BY <1>4 DEF Safe
<1>8. \A j, k \in DOMAIN ds : IsOpen(ds[j]) /\ ds[j].sock = ds[k].sock => j = k
  BY <1>4, <1>5 DEF Safe
<1>9. \A j \in DOMAIN ds : ds[j].state = "Disconnected" => ~IsOpen(ds[j])
  BY <1>4 DEF Safe
<1>10. Safe(ds, ss)
  BY <1>2, <1>6, <1>7, <1>8, <1>9 DEF Safe
<1> QED
  BY <1>2, <1>10 DEF ds

\* Closing the connection of an instance, with or without resetting its flag,
\* and its descriptor.
LEMMA SafeClose ==
    ASSUME NEW cs, NEW ss, Safe(cs, ss), NEW i \in 1..Len(cs), NEW e,
           e \in {Closed(cs[i]), [Closed(cs[i]) EXCEPT !.disc = FALSE]}
    PROVE  /\ Safe([cs EXCEPT ![i] = e], ss \ {cs[i].sock})
           /\ Len([cs EXCEPT ![i] = e]) = Len(cs)
<1> DEFINE ds == [cs EXCEPT ![i] = e]
<1>1. /\ cs \in Seq(ClientRecord) /\ DOMAIN cs = 1..Len(cs)
      /\ cs[i] \in ClientRecord
  BY ElementOfSeq DEF Safe
<1>2. e \in ClientRecord /\ e.nick = cs[i].nick /\ ~IsOpen(e)
  <2>1. /\ Closed(cs[i]) \in ClientRecord /\ Closed(cs[i]).nick = cs[i].nick
        /\ ~IsOpen(Closed(cs[i]))
    BY <1>1, ClosedProperties
  <2>2. CASE e = Closed(cs[i])
    BY <2>1, <2>2
  <2>3. CASE e = [Closed(cs[i]) EXCEPT !.disc = FALSE]
    BY <2>1, <2>3 DEF ClientRecord, IsOpen
  <2> QED
    BY <2>2, <2>3
<1>3. /\ ds \in Seq(ClientRecord) /\ Len(ds) = Len(cs) /\ DOMAIN ds = DOMAIN cs
      /\ \A j \in DOMAIN cs : ds[j] = IF j = i THEN e ELSE cs[j]
  BY <1>1, <1>2, AssignProperties
<1> HIDE DEF ds
<1>4. \A j, k \in DOMAIN ds : ds[j].nick = ds[k].nick /\ ds[j].nick # NoNick => j = k
  <2>1. \A j \in DOMAIN ds : ds[j].nick = cs[j].nick
    BY <1>2, <1>3
  <2> QED
    BY <1>3, <2>1 DEF Safe
<1>5. \A j \in DOMAIN ds : IsOpen(ds[j]) => j # i /\ ds[j] = cs[j]
  BY <1>2, <1>3
<1>6. \A j \in DOMAIN ds : IsOpen(ds[j]) => ds[j].sock \in ss \ {cs[i].sock}
  BY <1>1, <1>3, <1>5 DEF Safe
<1>7. \A j, k \in DOMAIN ds : IsOpen(ds[j]) /\ ds[j].sock = ds[k].sock => j = k
  <2>1. \A j, k \in DOMAIN ds : IsOpen(ds[j]) /\ ds[j].sock = ds[k].sock => IsOpen(ds[k])
    BY DEF IsOpen
  <2> QED
    BY <1>3, <1>5, <2>1 DEF Safe
<1>8. \A j \in DOMAIN ds : ds[j].state = "Disconnected" => ~IsOpen(ds[j])
  BY <1>3, <1>5 DEF Safe
<1>9. Safe(ds, ss \ {cs[i].sock})
  BY <1>3, <1>4, <1>6, <1>7, <1>8 DEF Safe
<1> QED
  BY <1>3, <1>9 DEF ds

\* Accepting a connection on a descriptor that is free.
LEMMA SafeAppend ==
    ASSUME NEW cs, NEW ss, Safe(cs, ss), NEW ip \in IPs,
           NEW sock \in Int, sock > 0, sock \notin ss
    PROVE  LET ds == Append(cs, NewClient(ip, sock))
           IN  /\ Safe(ds, ss \cup {sock})
               /\ Len(ds) = Len(cs) + 1
               /\ ds[Len(ds)] = NewClient(ip, sock)
<1> DEFINE c == NewClient(ip, sock)
           ds == Append(cs, c)
<1>1. cs \in Seq(ClientRecord) /\ DOMAIN cs = 1..Len(cs) /\ Len(cs) \in Nat
  BY DEF Safe
<1>2. /\ c \in ClientRecord /\ c.nick = NoNick /\ c.sock = sock /\ c.state = "New"
      /\ IsOpen(c)
  BY LongPingAssumption
     DEF NewClient, ClientRecord, IsOpen, State, Present, Away, LobbyRoom
<1> HIDE DEF c
<1>3. /\ ds \in Seq(ClientRecord) /\ Len(ds) = Len(cs) + 1
      /\ \A j \in 1..Len(cs) : ds[j] = cs[j]
      /\ ds[Len(cs) + 1] = c
  BY <1>1, <1>2, AppendElements
<1> HIDE DEF ds
<1>4. /\ DOMAIN ds = 1..(Len(cs) + 1)
      /\ \A j \in DOMAIN ds : j \in DOMAIN cs \/ j = Len(cs) + 1
  BY <1>1, <1>3
<1>5. \A j \in DOMAIN cs : ds[j] = cs[j] /\ (IsOpen(cs[j]) => cs[j].sock # sock)
  BY <1>1, <1>3 DEF Safe
<1>6. \A j, k \in DOMAIN ds : ds[j].nick = ds[k].nick /\ ds[j].nick # NoNick => j = k
  BY <1>2, <1>3, <1>4, <1>5 DEF Safe
<1>7. \A j \in DOMAIN ds : IsOpen(ds[j]) => ds[j].sock \in ss \cup {sock}
  BY <1>2, <1>3, <1>4, <1>5 DEF Safe
<1>8. \A j, k \in DOMAIN ds : IsOpen(ds[j]) /\ ds[j].sock = ds[k].sock => j = k
  <2>1. \A j, k \in DOMAIN ds : IsOpen(ds[j]) /\ ds[j].sock = ds[k].sock => IsOpen(ds[k])
    BY DEF IsOpen
  <2> QED
    BY <2>1, <1>2, <1>3, <1>4, <1>5 DEF Safe
<1>9. \A j \in DOMAIN ds : ds[j].state = "Disconnected" => ~IsOpen(ds[j])
  BY <1>2, <1>3, <1>4, <1>5 DEF Safe
<1>10. Safe(ds, ss \cup {sock})
  BY <1>3, <1>6, <1>7, <1>8, <1>9 DEF Safe
<1>11. ds[Len(ds)] = c
  BY <1>3
<1> QED
  BY <1>3, <1>10, <1>11 DEF ds, c

-----------------------------------------------------------------------------
(* Erasing.                                                                *)

\* eraseClient leaves the others safe, and at most ends a game.
LEMMA EraseClientSafe ==
    ASSUME NEW cs, NEW ss, Safe(cs, ss), NEW i \in 1..Len(cs), EraseClient(cs, i)
    PROVE  /\ Safe(clients', ss) /\ Len(clients') = Len(cs) - 1
           /\ games' \subseteq games /\ roomsTotal' = roomsTotal
<1>1. cs \in Seq(ClientRecord)
  BY DEF Safe
<1>2. CASE LeavesGameWhenErased(cs[i])
  <2> DEFINE both(o) == BothToLobby(cs, i, o)
  <2>1. PICK o : clients' = RemoveAt(both(o), i)
    BY <1>2 DEF EraseClient
  <2>2. KeptAll(cs, both(o))
    BY <1>1, BothToLobbyKept
  <2> HIDE DEF both
  <2>3. Safe(both(o), ss) /\ Len(both(o)) = Len(cs)
    BY <2>2, SafeKept DEF KeptAll
  <2>4. Safe(clients', ss) /\ Len(clients') = Len(cs) - 1
    BY <2>1, <2>3, SafeRemove
  <2> QED
    BY <1>2, <2>4 DEF EraseClient, RemoveRoom
<1>3. CASE ~LeavesGameWhenErased(cs[i])
  BY <1>3, SafeRemove DEF EraseClient
<1> QED
  BY <1>2, <1>3

\* eraseLongestDisconnectedClient erases an instance, when there is one to erase.
LEMMA EvictSafe ==
    ASSUME NEW ss, Safe(clients, ss), IsDisconnectedClient, EraseLongestDisconnectedClient
    PROVE  Safe(clients', ss) /\ Len(clients') = Len(clients) - 1
<1> DEFINE D == DisconnectedClients
           f == [i \in D |-> clients[i].pings]
<1>1. clients \in Seq(ClientRecord) /\ Len(clients) \in Nat /\ DOMAIN clients = 1..Len(clients)
  BY DEF Safe
<1>2. D \in SUBSET (1..Len(clients)) /\ D # {}
  BY <1>1 DEF DisconnectedClients, IsDisconnectedClient
<1>3. \A i \in D : f[i] \in Int /\ f[i] = clients[i].pings
  <2> TAKE i \in D
  <2>1. clients[i] \in ClientRecord
    BY <1>1, <1>2, ElementOfSeq
  <2>2. clients[i].pings \in Int
    BY <2>1 DEF ClientRecord
  <2>3. f[i] = clients[i].pings
    OBVIOUS
  <2> QED
    BY <2>2, <2>3
<1> HIDE DEF D, f
<1>4. \E i \in D : \A j \in D : f[i] < f[j] \/ (f[i] = f[j] /\ i <= j)
  BY <1>1, <1>2, <1>3, FirstLeast
<1>5. \E i \in D : \A j \in D :
         \/ clients[i].pings < clients[j].pings
         \/ clients[i].pings = clients[j].pings /\ i <= j
  BY <1>3, <1>4
<1>6. LongestDisconnected \in D
  BY <1>5 DEF LongestDisconnected, D
<1>7. LongestDisconnected \in 1..Len(clients)
  BY <1>2, <1>6
<1> QED
  BY <1>7, SafeRemove DEF EraseLongestDisconnectedClient

-----------------------------------------------------------------------------
(* The connect request.                                                    *)

\* The first client with a name is one with that name.
LEMMA NamesakeProperties ==
    ASSUME NEW i, NEW n, clients \in Seq(ClientRecord), Namesakes(i, n) # {}
    PROVE  Namesake(i, n) \in 1..Len(clients) /\ clients[Namesake(i, n)].nick = n
<1>1. Namesakes(i, n) \subseteq {j \in 1..Len(clients) : clients[j].nick = n}
  BY DEF Namesakes, NamedAt, Named
<1>2. Namesakes(i, n) \subseteq Nat
  BY <1>1
<1>3. Min(Namesakes(i, n)) \in Namesakes(i, n)
  BY <1>2, MinProperties
<1> QED
  BY <1>1, <1>3 DEF Namesake

\* A new name is nobody else's.
LEMMA TakeNickSafe ==
    ASSUME NEW ss, Safe(clients, ss), NEW i \in 1..Len(clients), NEW n \in Nicks, TakeNick(i, n)
    PROVE  Safe(clients', ss) /\ Len(clients') = Len(clients)
<1> DEFINE c == clients[i]
           named == [c EXCEPT !.nick = n]
           e == SetStateLast(SetState(named, "Waiting"), "Waiting")
<1>1. clients \in Seq(ClientRecord) /\ DOMAIN clients = 1..Len(clients) /\ c \in ClientRecord
  BY ElementOfSeq DEF Safe
<1>2. named \in ClientRecord /\ named.nick = n /\ named.sock = c.sock
  BY <1>1 DEF ClientRecord
<1>3. "Waiting" \in State /\ "Waiting" \in Present
  BY DEF State, Present, Away
<1>4. clients' = [clients EXCEPT ![i] = e]
  BY <1>1 DEF TakeNick
<1>5. Named(clients, n) = {}
  BY DEF TakeNick
<1> HIDE DEF named
<1>6. Kept(named, SetState(named, "Waiting")) /\ SetState(named, "Waiting").state = "Waiting"
  BY <1>2, <1>3, SetStateKept
<1>7. e \in ClientRecord /\ e.nick = n /\ e.sock = c.sock /\ e.state = "Waiting"
  <2>1. SetState(named, "Waiting") \in ClientRecord
    BY <1>6 DEF Kept
  <2>2. Kept(SetState(named, "Waiting"), e) /\ e.state = "Waiting"
    BY <2>1, <1>3, <1>6, SetStateLastKept
  <2> QED
    BY <2>2, <1>2, <1>6 DEF Kept
<1> HIDE DEF e
<1>8. /\ clients' \in Seq(ClientRecord) /\ Len(clients') = Len(clients)
      /\ DOMAIN clients' = DOMAIN clients
      /\ \A j \in DOMAIN clients : clients'[j] = IF j = i THEN e ELSE clients[j]
  BY <1>1, <1>4, <1>7, AssignProperties
<1>9. \A j \in DOMAIN clients : clients[j].nick # n
  BY <1>5 DEF Named
<1>10. \A j, k \in DOMAIN clients' :
          clients'[j].nick = clients'[k].nick /\ clients'[j].nick # NoNick => j = k
  BY <1>7, <1>8, <1>9 DEF Safe
<1>11. \A j \in DOMAIN clients' :
          /\ clients'[j].sock = clients[j].sock
          /\ IsOpen(clients'[j]) <=> IsOpen(clients[j])
          /\ clients'[j].state = "Disconnected" => clients[j].state = "Disconnected"
  BY <1>7, <1>8 DEF IsOpen
<1>12. /\ \A j \in DOMAIN clients' : IsOpen(clients'[j]) => clients'[j].sock \in ss
       /\ \A j \in DOMAIN clients' : clients'[j].state = "Disconnected" => ~IsOpen(clients'[j])
  BY <1>8, <1>11 DEF Safe
<1>13. \A j, k \in DOMAIN clients' :
          IsOpen(clients'[j]) /\ clients'[j].sock = clients'[k].sock => j = k
  BY <1>8, <1>11 DEF Safe
<1> QED
  BY <1>8, <1>10, <1>12, <1>13 DEF Safe

\* A name that is taken over has been given up by its old instance.
LEMMA TakeOverSafe ==
    ASSUME NEW ss, Safe(clients, ss), NEW i \in 1..Len(clients), NEW n \in Nicks, TakeOver(i, n)
    PROVE  Safe(clients', ss) /\ Len(clients') = Len(clients)
<1> DEFINE o     == Namesake(i, n)
           c     == clients[i]
           old   == clients[o]
           named == [c EXCEPT !.nick = n]
           e     == [SetState(named, old.last) EXCEPT !.room = old.room, !.pings = LongPing]
           taken == [clients EXCEPT ![i] = e]
           f     == [taken[o] EXCEPT !.nick = NoNick, !.erase = TRUE]
<1>1. /\ clients \in Seq(ClientRecord) /\ DOMAIN clients = 1..Len(clients)
      /\ \A j \in 1..Len(clients) : clients[j] \in ClientRecord
  BY ElementOfSeq DEF Safe
<1>2. o \in 1..Len(clients) /\ old.nick = n
  BY <1>1, NamesakeProperties DEF TakeOver
<1>3. clients' = [taken EXCEPT ![o] = f]
  BY <1>1 DEF TakeOver
<1>4. named \in ClientRecord /\ named.nick = n /\ named.sock = c.sock
  BY <1>1 DEF ClientRecord
<1>5. old.last \in State /\ old.last # "Disconnected" /\ old.room \in Nat
  BY <1>1, <1>2 DEF ClientRecord, Present, Away
<1> HIDE DEF o, named
<1>6. /\ SetState(named, old.last) \in ClientRecord /\ SetState(named, old.last).nick = n
      /\ SetState(named, old.last).sock = c.sock /\ SetState(named, old.last).state = old.last
  BY <1>4, <1>5, SetStateKept DEF Kept
<1>7. e \in ClientRecord /\ e.nick = n /\ e.sock = c.sock /\ e.state # "Disconnected"
  <2> DEFINE d == SetState(named, old.last)
  <2>1. LongPing \in Int
    BY LongPingAssumption
  <2>2. /\ d \in ClientRecord /\ d.nick = n /\ d.sock = c.sock /\ d.state = old.last
        /\ e = [d EXCEPT !.room = old.room, !.pings = LongPing]
    BY <1>6
  <2> HIDE DEF d, e
  <2>3. e \in ClientRecord /\ e.nick = d.nick /\ e.sock = d.sock /\ e.state = d.state
    BY <2>1, <2>2, <1>5 DEF ClientRecord
  <2> QED
    BY <2>2, <2>3, <1>5
<1> HIDE DEF e
<1>8. /\ taken \in Seq(ClientRecord) /\ Len(taken) = Len(clients)
      /\ DOMAIN taken = DOMAIN clients
      /\ \A j \in DOMAIN clients : taken[j] = IF j = i THEN e ELSE clients[j]
  BY <1>1, <1>7, AssignProperties
<1> HIDE DEF taken
<1>9. taken[o] \in ClientRecord
  BY <1>2, <1>8, ElementOfSeq
<1>10. /\ f \in ClientRecord /\ f.nick = NoNick /\ f.sock = taken[o].sock
       /\ f.state = taken[o].state
  BY <1>9 DEF ClientRecord
<1> HIDE DEF f
<1>11. /\ clients' \in Seq(ClientRecord) /\ Len(clients') = Len(clients)
       /\ DOMAIN clients' = DOMAIN clients
       /\ \A j \in DOMAIN clients : clients'[j] = IF j = o THEN f ELSE taken[j]
  BY <1>3, <1>8, <1>10, AssignProperties
<1>12. \A j \in DOMAIN clients : clients[j].nick = n => j = o
  BY <1>1, <1>2, NoNickAssumption DEF Safe
<1>13. \A j \in DOMAIN clients :
          clients'[j].nick = IF j = o THEN NoNick ELSE IF j = i THEN n ELSE clients[j].nick
  BY <1>7, <1>8, <1>10, <1>11
<1>14. \A j, k \in DOMAIN clients' :
          clients'[j].nick = clients'[k].nick /\ clients'[j].nick # NoNick => j = k
  BY <1>11, <1>12, <1>13 DEF Safe
<1>15. \A j \in DOMAIN clients' :
          /\ clients'[j].sock = clients[j].sock
          /\ IsOpen(clients'[j]) <=> IsOpen(clients[j])
          /\ clients'[j].state = "Disconnected" => clients[j].state = "Disconnected"
  BY <1>7, <1>8, <1>10, <1>11 DEF IsOpen
<1>16. /\ \A j \in DOMAIN clients' : IsOpen(clients'[j]) => clients'[j].sock \in ss
       /\ \A j \in DOMAIN clients' : clients'[j].state = "Disconnected" => ~IsOpen(clients'[j])
  BY <1>11, <1>15 DEF Safe
<1>17. \A j, k \in DOMAIN clients' :
          IsOpen(clients'[j]) /\ clients'[j].sock = clients'[k].sock => j = k
  BY <1>11, <1>15 DEF Safe
<1> QED
  BY <1>11, <1>14, <1>16, <1>17 DEF Safe

-----------------------------------------------------------------------------
(* The rooms.                                                              *)

\* getRoomById is unambiguous, and an id is not given twice.
RoomIds ==
    /\ \A r \in games : r.id \in 1..roomsTotal
    /\ \A r, s \in games : r.id = s.id => r = s

Rooms == games \subseteq Room /\ roomsTotal \in Nat /\ RoomIds /\ OpponentsDiffer

\* Ending games keeps what is said about the others.
LEMMA FewerRooms ==
    ASSUME Rooms, games' \subseteq games, roomsTotal' = roomsTotal
    PROVE  Rooms'
BY DEF Rooms, RoomIds, OpponentsDiffer

\* The room a search finds is the one with the id.
LEMMA GetRoomProperties ==
    ASSUME NEW id, HasRoom(games, id)
    PROVE  GetRoom(games, id) \in games /\ GetRoom(games, id).id = id
BY DEF HasRoom, GetRoom

\* A move keeps the id of its room.
LEMMA MoveInRoomKept ==
    ASSUME Rooms, NEW id, HasRoom(games, id), roomsTotal' = roomsTotal,
           games' \subseteq MoveInRoom(games, id)
    PROVE  Rooms'
<1> DEFINE r == GetRoom(games, id)
           t == [r EXCEPT !.onTurn = r.onStand, !.onStand = r.onTurn]
<1>1. r \in games /\ r \in Room
  BY GetRoomProperties DEF Rooms
<1>2. t \in Room /\ t.id = r.id /\ t.onTurn = r.onStand /\ t.onStand = r.onTurn
  BY <1>1 DEF Room
<1>3. games' \subseteq (games \ {r}) \cup {t}
  BY DEF MoveInRoom
<1> HIDE DEF r, t
<1>4. games' \subseteq Room
  BY <1>2, <1>3 DEF Rooms
<1>5. \A x \in games' : x.id \in 1..roomsTotal'
  BY <1>1, <1>2, <1>3 DEF Rooms, RoomIds, OpponentsDiffer
<1>6. \A x, y \in games' : x.id = y.id => x = y
  BY <1>1, <1>2, <1>3 DEF Rooms, RoomIds, OpponentsDiffer
<1>7. OpponentsDiffer'
  BY <1>1, <1>2, <1>3 DEF Rooms, OpponentsDiffer
<1> QED
  BY <1>4, <1>5, <1>6, <1>7 DEF Rooms, RoomIds

-----------------------------------------------------------------------------
(* The pairing of Ready clients.                                           *)

\* Ready clients are numbered from 1 in the order of the vector.
LEMMA RankFacts ==
    ASSUME clients \in Seq(ClientRecord)
    PROVE  /\ Cardinality(ReadyClients) \in Nat
           /\ NewGames \in Nat
           /\ 2 * NewGames = Cardinality(ReadyClients) \/ 2 * NewGames + 1 = Cardinality(ReadyClients)
           /\ \A i \in ReadyClients : Rank(i) \in 1..Cardinality(ReadyClients)
           /\ \A i, j \in ReadyClients : Rank(i) = Rank(j) => i = j
<1>1. ReadyClients \in SUBSET (1..Len(clients)) /\ Len(clients) \in Nat
  BY DEF ReadyClients
<1>2. /\ Cardinality(ReadyClients) \in Nat
      /\ \A i \in ReadyClients : Rank(i) \in 1..Cardinality(ReadyClients)
      /\ \A i, j \in ReadyClients : i < j => Rank(i) < Rank(j)
  BY <1>1, RankProperties DEF Rank
<1>3. \A i, j \in ReadyClients : Rank(i) = Rank(j) => i = j
  <2> SUFFICES ASSUME NEW i \in ReadyClients, NEW j \in ReadyClients, Rank(i) = Rank(j)
               PROVE  i = j
    OBVIOUS
  <2>1. i \in Int /\ j \in Int /\ Rank(i) \in Int
    BY <1>1, <1>2
  <2>2. ~(i < j) /\ ~(j < i)
    BY <1>2, <2>1
  <2> QED
    BY <2>1, <2>2
<1>4. /\ NewGames \in Nat
      /\ 2 * NewGames = Cardinality(ReadyClients) \/ 2 * NewGames + 1 = Cardinality(ReadyClients)
  BY <1>2 DEF NewGames
<1> QED
  BY <1>2, <1>3, <1>4

\* The room of a paired client has one of the new numbers.
LEMMA GameOfProperties ==
    ASSUME clients \in Seq(ClientRecord), roomsTotal \in Nat, NEW i \in Paired
    PROVE  /\ i \in ReadyClients /\ Rank(i) \in Nat
           /\ GameOf(i) \in (roomsTotal + 1)..(roomsTotal + NewGames)
           /\ Rank(i) % 2 = 1 => 2 * (GameOf(i) - roomsTotal) = Rank(i) + 1
<1>1. /\ i \in ReadyClients /\ Rank(i) <= 2 * NewGames
      /\ Rank(i) \in Nat /\ 1 <= Rank(i) /\ NewGames \in Nat
  BY RankFacts DEF Paired
<1> QED
  BY <1>1 DEF GameOf

\* Pairing: rooms stay distinct, players keep name and socket, and at most one
\* client is left ready.
LEMMA PairingKept ==
    ASSUME clients \in Seq(ClientRecord), Rooms, MoveReadyClientsToPlay, UniqueNicks
    PROVE  KeptAll(clients, clients') /\ Rooms' /\ Cardinality(ReadyClients') <= 1
<1> DEFINE Turn(i) == IF Rank(i) % 2 = 1 THEN "PlayingOnTurn" ELSE "PlayingOnStand"
<1>1. /\ DOMAIN clients = 1..Len(clients) /\ Len(clients) \in Nat
      /\ \A i \in 1..Len(clients) : clients[i] \in ClientRecord
  BY ElementOfSeq
<1>2. roomsTotal \in Nat
  BY DEF Rooms
<1>3. \A i \in Paired : Kept(clients[i], StartGame(i)) /\ StartGame(i).state # "Ready"
  <2> TAKE i \in Paired
  <2>1. clients[i] \in ClientRecord /\ GameOf(i) \in Nat
    BY <1>1, <1>2, GameOfProperties, RankFacts DEF ReadyClients
  <2>2. Turn(i) \in State /\ Turn(i) # "Disconnected" /\ Turn(i) # "Ready"
    BY DEF State
  <2>3. StartGame(i) = [SetState(clients[i], Turn(i)) EXCEPT !.room = GameOf(i)]
    BY DEF StartGame
  <2> HIDE DEF Turn
  <2>4. Kept(clients[i], SetState(clients[i], Turn(i))) /\ SetState(clients[i], Turn(i)).state = Turn(i)
    BY <2>1, <2>2, SetStateKept
  <2> QED
    BY <2>1, <2>2, <2>3, <2>4 DEF Kept, ClientRecord
<1>4. \A i \in 1..Len(clients) : Kept(clients[i], clients[i])
  BY <1>1 DEF Kept
<1>5. clients' = [i \in 1..Len(clients) |-> IF i \in Paired THEN StartGame(i) ELSE clients[i]]
  BY <1>1 DEF MoveReadyClientsToPlay
<1>6. \A i \in 1..Len(clients) : clients'[i] \in ClientRecord /\ Kept(clients[i], clients'[i])
  BY <1>3, <1>4, <1>5 DEF Kept
<1>7. clients' \in [1..Len(clients) -> ClientRecord]
  BY <1>5, <1>6
<1>8. clients' \in Seq(ClientRecord) /\ Len(clients') = Len(clients) /\ DOMAIN clients' = 1..Len(clients)
  BY <1>1, <1>7, VectorOfFunction
<1>9. KeptAll(clients, clients')
  BY <1>6, <1>8 DEF KeptAll
<1>10. Cardinality(ReadyClients') <= 1
  <2>1. \A i \in ReadyClients' : i \in ReadyClients /\ i \notin Paired
    BY <1>1, <1>3, <1>5, <1>8 DEF ReadyClients
  <2>2. \A i \in ReadyClients' : Rank(i) = Cardinality(ReadyClients)
    <3> TAKE i \in ReadyClients'
    <3>1. i \in ReadyClients /\ ~(Rank(i) <= 2 * NewGames)
      BY <2>1 DEF Paired
    <3> QED
      BY <3>1, RankFacts
  <2>3. \A i, j \in ReadyClients' : i = j
    BY <2>1, <2>2, RankFacts
  <2>4. ReadyClients' \in SUBSET (1..Len(clients))
    BY <1>1, <2>1 DEF ReadyClients
  <2> QED
    BY <1>1, <2>3, <2>4, AtMostOne
<1>11. Rooms'
  <2> DEFINE Pairs == {q \in Paired \X Paired : Rank(q[1]) % 2 = 1 /\ Rank(q[2]) = Rank(q[1]) + 1}
             New(q) == NewRoom(GameOf(q[1]), clients[q[1]].nick, clients[q[2]].nick)
  <2>1. games' = games \cup {New(q) : q \in Pairs} /\ roomsTotal' = roomsTotal + NewGames
    BY DEF MoveReadyClientsToPlay
  <2>2. NewGames \in Nat /\ \A i, j \in ReadyClients : Rank(i) = Rank(j) => i = j
    BY RankFacts
  <2>3. \A q \in Pairs :
           /\ q \in Paired \X Paired /\ q[1] \in ReadyClients /\ q[2] \in ReadyClients
           /\ GameOf(q[1]) \in (roomsTotal + 1)..(roomsTotal + NewGames)
           /\ 2 * (GameOf(q[1]) - roomsTotal) = Rank(q[1]) + 1
           /\ Rank(q[1]) \in Nat /\ Rank(q[2]) = Rank(q[1]) + 1
    BY <1>2, GameOfProperties
  <2>4. \A q \in Pairs : New(q) \in Room /\ New(q).id \in (roomsTotal + 1)..(roomsTotal + NewGames)
    <3> TAKE q \in Pairs
    <3>1. clients[q[1]] \in ClientRecord /\ clients[q[2]] \in ClientRecord
      BY <1>1, <2>3 DEF ReadyClients
    <3>2. GameOf(q[1]) \in Nat
      BY <1>2, <2>2, <2>3
    <3> QED
      BY <2>3, <3>1, <3>2 DEF Room, ClientRecord, NewRoom
  <2>5. \A p, q \in Pairs : New(p).id = New(q).id => New(p) = New(q)
    <3> SUFFICES ASSUME NEW p \in Pairs, NEW q \in Pairs, GameOf(p[1]) = GameOf(q[1])
                 PROVE  p[1] = q[1] /\ p[2] = q[2]
      BY DEF NewRoom
    <3>1. Rank(p[1]) = Rank(q[1])
      BY <1>2, <2>3
    <3>2. Rank(p[2]) = Rank(q[2])
      BY <2>3, <3>1
    <3> QED
      BY <2>2, <2>3, <3>1, <3>2
  <2>9. \A q \in Pairs : New(q).onTurn = New(q).onStand => New(q).onTurn = NoNick
    <3> SUFFICES ASSUME NEW q \in Pairs PROVE clients[q[1]].nick = clients[q[2]].nick
                                               => clients[q[1]].nick = NoNick
      BY DEF NewRoom
    <3>1. /\ q[1] \in DOMAIN clients /\ q[2] \in DOMAIN clients
          /\ Rank(q[2]) # Rank(q[1])
      BY <2>3 DEF ReadyClients
    <3> QED
      BY <3>1 DEF UniqueNicks
  <2> HIDE DEF Pairs, New
  <2>6. games' \subseteq Room /\ roomsTotal' \in Nat
    BY <1>2, <2>1, <2>2, <2>4 DEF Rooms
  <2>7. \A x \in games' : x.id \in 1..roomsTotal'
    BY <1>2, <2>1, <2>2, <2>4 DEF Rooms, RoomIds, OpponentsDiffer
  <2>8. \A x, y \in games' : x.id = y.id => x = y
    <3> SUFFICES ASSUME NEW x \in games', NEW y \in games', x.id = y.id
                 PROVE  x = y
      OBVIOUS
    <3>1. \A z \in games' : \/ z \in games /\ z.id \in 1..roomsTotal
                            \/ \E q \in Pairs : z = New(q)
      BY <2>1 DEF Rooms, RoomIds, OpponentsDiffer
    <3>2. \A q \in Pairs : New(q).id \notin 1..roomsTotal
      BY <1>2, <2>2, <2>4
    <3> QED
      BY <2>5, <3>1, <3>2 DEF Rooms, RoomIds, OpponentsDiffer
  <2>10. OpponentsDiffer'
    BY <2>1, <2>9 DEF Rooms, OpponentsDiffer
  <2> QED
    BY <2>6, <2>7, <2>8, <2>10 DEF Rooms, RoomIds
<1> QED
  BY <1>9, <1>10, <1>11

-----------------------------------------------------------------------------
(* The inductive invariant.                                                *)

Threads ==
    /\ sockets \subseteq Descriptors
    /\ pc \in Control
    /\ pos \in Nat \ {0}
    /\ accepted \in Descriptors \cup {0}
    /\ pending \in [Descriptors -> 0..MaxPending]

Places == WithinCapacity /\ RefusedIsNew /\ NobodyLeftReady

IInv == Safe(clients, sockets) /\ Rooms /\ Threads /\ Places

\* The invariant holds in the initial state.
LEMMA InitIInv == Init => IInv
<1> SUFFICES ASSUME Init PROVE IInv
  OBVIOUS
<1>1. clients = <<>> /\ clients \in Seq(ClientRecord) /\ DOMAIN clients = {} /\ Len(clients) = 0
  BY DEF Init, ManagerInit
<1>2. Safe(clients, sockets)
  BY <1>1 DEF Safe
<1>3. Rooms
  BY DEF Rooms, RoomIds, OpponentsDiffer, Init, ManagerInit
<1>4. Threads
  BY BoundsAssumption DEF Threads, Init, Control, Descriptors
<1>5. Places
  <2>1. ReadyClients = {}
    BY <1>1 DEF ReadyClients
  <2>2. Cardinality(ReadyClients) = 0
    BY <2>1, FS_EmptySet
  <2> QED
    BY <1>1, <2>2, MaxClientsAssumption
       DEF Places, WithinCapacity, RefusedIsNew, NobodyLeftReady, Init
<1> QED
  BY <1>2, <1>3, <1>4, <1>5 DEF IInv

\* Within a pass and at shutdown, nothing more is asked of the number of
\* clients than that it does not grow.
LEMMA PassStep ==
    ASSUME IInv, Safe(clients', sockets'), Rooms', Threads',
           pc \notin {"capacity", "undefined"}, pc' \notin {"select", "capacity"},
           Len(clients') <= Len(clients)
    PROVE  IInv'
<1>1. /\ Len(clients) \in Nat /\ Len(clients') \in Nat
      /\ Len(clients) <= MaxClients /\ MaxClients \in Nat
  BY MaxClientsAssumption DEF IInv, Safe, Places, WithinCapacity
<1>2. Places'
  BY <1>1 DEF Places, WithinCapacity, RefusedIsNew, NobodyLeftReady
<1> QED
  BY <1>2 DEF IInv

\* Where the behaviour becomes undefined, nothing has changed.
LEMMA UndefinedStep == IInv /\ Undefined => IInv'
<1> SUFFICES ASSUME IInv, Undefined PROVE IInv'
  OBVIOUS
<1>1. Safe(clients', sockets') /\ Rooms'
  BY DEF IInv, Undefined, managerVars, Safe, Rooms, RoomIds, OpponentsDiffer
<1>2. Threads'
  BY DEF IInv, Threads, Undefined, Control
<1>3. Len(clients) \in Nat /\ Len(clients) <= MaxClients + 1
  BY MaxClientsAssumption DEF IInv, Safe, Places, WithinCapacity
<1>4. Places'
  BY <1>3 DEF Places, WithinCapacity, RefusedIsNew, NobodyLeftReady, Undefined, managerVars
<1> QED
  BY <1>1, <1>2, <1>4 DEF IInv

\* Closing a descriptor keeps the types of the main loop's variables.
LEMMA ReleaseSocketThreads ==
    ASSUME Threads, NEW c, ReleaseSocket(c)
    PROVE  /\ sockets' \subseteq Descriptors
           /\ pending' \in [Descriptors -> 0..MaxPending]
<1>1. MaxPending \in Nat
  BY BoundsAssumption
<1> QED
  BY <1>1 DEF Threads, ReleaseSocket

-----------------------------------------------------------------------------
(* Steps of the ping thread, of select and of the check of the capacity.   *)

LEMMA PingThreadStep == IInv /\ PingThread => IInv'
<1> SUFFICES ASSUME IInv, PingThread PROVE IInv'
  OBVIOUS
<1>1. CASE UndefinedPing
  BY <1>1, UndefinedStep DEF UndefinedPing
<1>2. CASE PingClients
  <2>1. clients \in Seq(ClientRecord) /\ Len(clients) \in Nat /\ DOMAIN clients = 1..Len(clients)
    BY DEF IInv, Safe
  <2>2. clients' = [i \in 1..Len(clients) |-> PingOne(clients[i])]
    BY <1>2, <2>1 DEF PingClients
  <2>3. \A i \in 1..Len(clients) :
           /\ clients[i] \in ClientRecord
           /\ Kept(clients[i], clients'[i])
           /\ clients'[i] \in ClientRecord
           /\ clients'[i].state = "Ready" => clients[i].state = "Ready"
    BY <2>1, <2>2, ElementOfSeq, PingOneKept DEF Kept
  <2>4. clients' \in [1..Len(clients) -> ClientRecord]
    BY <2>2, <2>3
  <2>5. clients' \in Seq(ClientRecord) /\ Len(clients') = Len(clients) /\ DOMAIN clients' = 1..Len(clients)
    BY <2>1, <2>4, VectorOfFunction
  <2>6. Safe(clients', sockets')
    <3>1. KeptAll(clients, clients')
      BY <2>3, <2>5 DEF KeptAll
    <3>2. sockets' = sockets
      BY <1>2 DEF PingClients
    <3> QED
      BY <3>1, <3>2, SafeKept DEF IInv
  <2>7. Rooms'
    BY <1>2, FewerRooms DEF PingClients, IInv
  <2>8. Threads'
    <3>1. pending' \in [Descriptors -> 0..MaxPending]
      BY <1>2, BoundsAssumption DEF PingClients, IInv, Threads
    <3> QED
      BY <1>2, <3>1 DEF PingClients, IInv, Threads
  <2>9. Places'
    <3>1. ReadyClients' \subseteq ReadyClients
      BY <2>1, <2>3, <2>5 DEF ReadyClients
    <3>2. Cardinality(ReadyClients) <= 1 /\ pc = "select" /\ pc' = "select"
      BY <1>2 DEF IInv, Places, NobodyLeftReady, PingClients
    <3>3. IsFiniteSet(ReadyClients)
      <4>1. ReadyClients \in SUBSET (1..Len(clients))
        BY <2>1 DEF ReadyClients
      <4> QED
        BY <2>1, <4>1, RankProperties
    <3>4. /\ Cardinality(ReadyClients') <= Cardinality(ReadyClients)
          /\ Cardinality(ReadyClients') \in Nat /\ Cardinality(ReadyClients) \in Nat
      BY <3>1, <3>3, FS_Subset, FS_CardinalityType
    <3> QED
      BY <2>5, <3>2, <3>4 DEF IInv, Places, NobodyLeftReady, WithinCapacity, RefusedIsNew
  <2> QED
    BY <2>6, <2>7, <2>8, <2>9 DEF IInv
<1> QED
  BY <1>1, <1>2 DEF PingThread

LEMMA SelectStep == IInv /\ Select => IInv'
<1> SUFFICES ASSUME IInv, Select PROVE IInv'
  OBVIOUS
<1>0. Len(clients) \in Nat /\ MaxClients \in Nat
  BY MaxClientsAssumption DEF IInv, Safe
<1>1. CASE NoConnection
  <2>1. Safe(clients', sockets') /\ Rooms'
    BY <1>1 DEF NoConnection, managerVars, IInv, Safe, Rooms, RoomIds, OpponentsDiffer
  <2>2. Threads'
    BY <1>1 DEF NoConnection, IInv, Threads, Control
  <2>3. Len(clients') = Len(clients) /\ Len(clients) <= MaxClients
    BY <1>1 DEF NoConnection, managerVars, IInv, Places, WithinCapacity
  <2>4. WithinCapacity' /\ RefusedIsNew'
    BY <1>0, <1>1, <2>3 DEF NoConnection, WithinCapacity, RefusedIsNew, Full
  <2>5. NobodyLeftReady'
    BY <1>1 DEF NoConnection, managerVars, IInv, Places, NobodyLeftReady, ReadyClients
  <2> QED
    BY <2>1, <2>2, <2>4, <2>5 DEF IInv, Places
<1>2. ASSUME NEW ip \in IPs, AcceptConnection(ip)
      PROVE  IInv'
  <2> DEFINE free == Descriptors \ sockets
             sock == Min(free)
  <2>1. free # {} /\ free \subseteq Nat /\ free \subseteq Descriptors
    BY <1>2 DEF AcceptConnection, Descriptors
  <2>2. sock \in free
    BY <2>1, MinProperties
  <2>3. /\ pc = "select" /\ pc' = "capacity" /\ accepted' = sock
        /\ sockets' = sockets \cup {sock} /\ pos' = pos /\ pending' = pending
        /\ clients' = Append(clients, NewClient(ip, sock))
        /\ games' = games /\ roomsTotal' = roomsTotal
    BY <1>2 DEF AcceptConnection, CreateClient
  <2>4. sock \in Descriptors /\ sock \notin sockets /\ sock \in Int /\ sock > 0
    BY <2>1, <2>2 DEF Descriptors
  <2> HIDE DEF sock
  <2>5. /\ Safe(clients', sockets') /\ Len(clients') = Len(clients) + 1
        /\ clients'[Len(clients')] = NewClient(ip, sock)
    BY <2>3, <2>4, SafeAppend DEF IInv
  <2>6. Rooms'
    BY <2>3, FewerRooms DEF IInv
  <2>7. Threads'
    BY <2>3, <2>4 DEF IInv, Threads, Control
  <2>8. WithinCapacity'
    BY <1>0, <2>3, <2>5 DEF IInv, Places, WithinCapacity
  <2>9. RefusedIsNew'
    BY <2>3, <2>5 DEF RefusedIsNew
  <2>10. NobodyLeftReady'
    <3>1. clients \in Seq(ClientRecord) /\ DOMAIN clients = 1..Len(clients)
      BY DEF IInv, Safe
    <3>2. /\ clients' \in Seq(ClientRecord) /\ DOMAIN clients' = 1..(Len(clients) + 1)
          /\ \A i \in 1..Len(clients) : clients'[i] = clients[i]
          /\ clients'[Len(clients) + 1].state # "Ready"
      <4>1. clients' \in Seq(ClientRecord)
        BY <2>5 DEF Safe
      <4>2. DOMAIN clients' = 1..(Len(clients) + 1)
        BY <2>5, <4>1
      <4>3. \A i \in 1..Len(clients) : clients'[i] = clients[i]
        BY <2>3, <3>1
      <4>4. clients'[Len(clients) + 1].state # "Ready"
        BY <2>5 DEF NewClient
      <4> QED
        BY <4>1, <4>2, <4>3, <4>4
    <3>3. ReadyClients' = ReadyClients
      <4>1. \A i : i \in ReadyClients' <=> i \in ReadyClients
        BY <1>0, <3>1, <3>2 DEF ReadyClients
      <4> QED
        BY <4>1 DEF ReadyClients
    <3> QED
      BY <2>3, <3>3 DEF IInv, Places, NobodyLeftReady
  <2> QED
    BY <2>5, <2>6, <2>7, <2>8, <2>9, <2>10 DEF IInv, Places
<1>3. CASE Interrupt
  <2>1. Safe(clients', sockets') /\ Rooms'
    BY <1>3 DEF Interrupt, managerVars, IInv, Safe, Rooms, RoomIds, OpponentsDiffer
  <2>2. Threads'
    BY <1>3 DEF Interrupt, IInv, Threads, Control
  <2> QED
    BY <1>0, <1>3, <2>1, <2>2, PassStep DEF Interrupt, managerVars
<1> QED
  BY <1>1, <1>2, <1>3 DEF Select

LEMMA CapacityStep == IInv /\ Capacity => IInv'
<1> SUFFICES ASSUME IInv, Capacity PROVE IInv'
  OBVIOUS
<1>0. /\ clients \in Seq(ClientRecord) /\ Len(clients) \in Nat /\ MaxClients \in Nat \ {0}
      /\ pc = "capacity" => Len(clients) <= MaxClients + 1
  BY MaxClientsAssumption DEF IInv, Safe, Places, WithinCapacity
<1>1. ASSUME Safe(clients', sockets'), Rooms', Threads', pc' = "loop",
             Len(clients') \in Nat, Len(clients') <= MaxClients
      PROVE  IInv'
  BY <1>1 DEF IInv, Places, WithinCapacity, RefusedIsNew, NobodyLeftReady
<1>2. CASE HasCapacity
  <2>1. Safe(clients', sockets') /\ Rooms'
    BY <1>2 DEF HasCapacity, managerVars, IInv, Safe, Rooms, RoomIds, OpponentsDiffer
  <2>2. Threads' /\ pc' = "loop"
    BY <1>2 DEF HasCapacity, StartLoop, IInv, Threads, Control
  <2>3. Len(clients') = Len(clients) /\ Len(clients) <= MaxClients
    BY <1>0, <1>2 DEF HasCapacity, Full, managerVars
  <2> QED
    BY <1>0, <1>1, <2>1, <2>2, <2>3
<1>3. CASE EvictLongestDisconnected
  <2>1. Safe(clients', sockets') /\ Len(clients') = Len(clients) - 1
    BY <1>3, EvictSafe DEF EvictLongestDisconnected, IInv
  <2>2. Rooms'
    BY <1>3, FewerRooms DEF EvictLongestDisconnected, EraseLongestDisconnectedClient, IInv
  <2>3. Threads' /\ pc' = "loop"
    BY <1>3 DEF EvictLongestDisconnected, StartLoop, IInv, Threads, Control
  <2>4. Len(clients) = MaxClients + 1
    BY <1>3 DEF EvictLongestDisconnected, Full
  <2> QED
    BY <1>0, <1>1, <2>1, <2>2, <2>3, <2>4
<1>4. CASE RefuseConnection
  <2> DEFINE last == Len(clients)
             cs   == [clients EXCEPT ![last] = Closed(clients[last])]
  <2>1. CASE Undefined
    BY <2>1, UndefinedStep
  <2>2. CASE ~Undefined
    <3>1. /\ EraseClient(cs, last) /\ ReleaseSocket(clients[last])
          /\ accepted' = 0 /\ pc' = "loop" /\ pos' = 1 /\ Full
      BY <1>4, <2>2 DEF RefuseConnection, StartLoop
    <3>2. last = MaxClients + 1 /\ last \in 1..Len(clients)
      BY <1>0, <3>1 DEF Full
    <3>3. /\ Safe(cs, sockets \ {clients[last].sock}) /\ Len(cs) = Len(clients)
      BY <3>2, SafeClose DEF IInv
    <3> HIDE DEF cs
    <3>4. /\ Safe(clients', sockets \ {clients[last].sock}) /\ Len(clients') = Len(cs) - 1
          /\ games' \subseteq games /\ roomsTotal' = roomsTotal
      BY <3>1, <3>2, <3>3, EraseClientSafe
    <3>5. Safe(clients', sockets')
      BY <3>1, <3>4 DEF ReleaseSocket
    <3>6. Rooms'
      BY <3>4, FewerRooms DEF IInv
    <3>7. Threads'
      BY <3>1, ReleaseSocketThreads DEF IInv, Threads, Control
    <3> QED
      BY <1>0, <1>1, <3>1, <3>2, <3>3, <3>4, <3>5, <3>6, <3>7
  <2> QED
    BY <2>1, <2>2
<1> QED
  BY <1>2, <1>3, <1>4 DEF Capacity

-----------------------------------------------------------------------------
(* Serving a request.                                                      *)

\* No handler but the connect request renames anybody, none touches a socket
\* and none disconnects.
LEMMA RequestSafe ==
    ASSUME NEW ss, Safe(clients, ss), Rooms, NEW i \in 1..Len(clients), NEW r \in Request,
           DefinedRequest(i, r), RouteRequest(i, r)
    PROVE  /\ Safe(clients', ss) /\ Len(clients') = Len(clients) /\ Rooms'
<1> DEFINE c == clients[i]
<1>1. clients \in Seq(ClientRecord) /\ c \in ClientRecord
  BY ElementOfSeq DEF Safe
<1>2. ASSUME KeptAll(clients, clients'), games' \subseteq games, roomsTotal' = roomsTotal
      PROVE  /\ Safe(clients', ss) /\ Len(clients') = Len(clients) /\ Rooms'
  BY <1>2, SafeKept, FewerRooms DEF KeptAll
<1>3. c.last \in State /\ c.last # "Disconnected"
  BY <1>1 DEF ClientRecord, Present, Away
<1>4. CASE r.key = "c" /\ RequestConnect(i, r.nick)
  <2>1. r.nick \in Nicks
    BY <1>4 DEF Request, Connect, Move, Plain
  <2>2. games' \subseteq games /\ roomsTotal' = roomsTotal
    BY <1>4 DEF RequestConnect, TakeNick, NickUsed, ShortReconnect, TakeOver, managerVars
  <2>3. CASE TakeNick(i, r.nick)
    BY <2>1, <2>2, <2>3, TakeNickSafe, FewerRooms
  <2>4. CASE NickUsed(i, r.nick)
    <3>1. clients' = clients
      BY <2>4 DEF NickUsed, managerVars
    <3> QED
      BY <1>1, <1>2, <2>2, <3>1, KeptAllRefl
  <2>5. CASE ShortReconnect(i, r.nick)
    <3>1. clients' = [clients EXCEPT ![i] = SetState(c, c.last)]
      BY <2>5 DEF ShortReconnect
    <3> QED
      BY <1>1, <1>2, <1>3, <2>2, <3>1, SetStateKept, AssignKept
  <2>6. CASE TakeOver(i, r.nick)
    BY <2>1, <2>2, <2>6, TakeOverSafe, FewerRooms
  <2> QED
    BY <1>4, <2>3, <2>4, <2>5, <2>6 DEF RequestConnect
<1>5. CASE r.key = "rd" /\ RequestReady(i)
  <2>1. /\ clients' = [clients EXCEPT ![i] = SetState(c, "Ready")]
        /\ games' \subseteq games /\ roomsTotal' = roomsTotal
    BY <1>5 DEF RequestReady
  <2>2. "Ready" \in State
    BY DEF State
  <2> QED
    BY <1>1, <1>2, <2>1, <2>2, SetStateKept, AssignKept
<1>6. CASE r.key = "m" /\ RequestMove(i, r.outcome)
  <2> DEFINE id      == c.room
             swap    == MoveInRoom(games, id)
             room    == GetRoom(swap, id)
             t       == FindClientByNick(clients, room.onTurn)
             s       == FindClientByNick(clients, room.onStand)
             first   == [clients EXCEPT ![t] = NowOnTurn(clients[t])]
             moved   == [first EXCEPT ![s] = SetState(first[s], "PlayingOnStand")]
  <2>1. HasRoom(games, id)
    BY <1>6 DEF DefinedRequest, DefinedMove
  <2>2. /\ roomsTotal' = roomsTotal
        /\ \/ clients' = BothToLobby(moved, t, s) /\ games' = RemoveRoom(swap, id)
           \/ clients' = moved /\ games' = swap
    BY <1>6 DEF RequestMove
  <2> HIDE DEF t, s, room
  <2>3. KeptAll(clients, first)
    <3>1. t \in DOMAIN clients => Kept(clients[t], NowOnTurn(clients[t]))
      BY <1>1, ElementOfSeq, NowOnTurnKept
    <3> QED
      BY <1>1, <3>1, AssignKept
  <2>4. first \in Seq(ClientRecord)
    BY <2>3 DEF KeptAll
  <2> HIDE DEF first
  <2>5. KeptAll(first, moved)
    <3>1. s \in DOMAIN first => Kept(first[s], SetState(first[s], "PlayingOnStand"))
      BY <2>4, ElementOfSeq, SetStateKept DEF State
    <3> QED
      BY <2>4, <3>1, AssignKept
  <2>6. KeptAll(clients, moved)
    BY <2>3, <2>5, KeptAllTrans
  <2>7. moved \in Seq(ClientRecord)
    BY <2>5 DEF KeptAll
  <2> HIDE DEF moved
  <2>8. KeptAll(clients, BothToLobby(moved, t, s))
    BY <2>6, <2>7, BothToLobbyKept, KeptAllTrans
  <2>9. KeptAll(clients, clients')
    BY <2>2, <2>6, <2>8
  <2>10. games' \subseteq swap
    BY <2>2 DEF RemoveRoom
  <2>11. Rooms'
    BY <2>1, <2>2, <2>10, MoveInRoomKept
  <2> QED
    BY <2>9, <2>11, SafeKept DEF KeptAll
<1>7. CASE r.key = "l" /\ RequestLeave(i)
  <2>1. PICK o : clients' = BothToLobby(clients, i, o)
    BY <1>7 DEF RequestLeave
  <2>2. games' \subseteq games /\ roomsTotal' = roomsTotal
    BY <1>7 DEF RequestLeave, RemoveRoom
  <2> QED
    BY <1>1, <1>2, <2>1, <2>2, BothToLobbyKept
<1>8. CASE r.key = ">" /\ RequestPing(i)
  <2>1. /\ clients' = [clients EXCEPT ![i] =
               IF c.state \in {"Pinged", "Lost"} THEN SetState(c, c.last) ELSE c]
        /\ games' \subseteq games /\ roomsTotal' = roomsTotal
    BY <1>8 DEF RequestPing
  <2>2. Kept(c, c) /\ Kept(c, SetState(c, c.last))
    BY <1>1, <1>3, SetStateKept DEF Kept
  <2> QED
    BY <1>1, <1>2, <2>1, <2>2, AssignKept
<1>9. CASE r.key = "<" /\ RequestPong(i)
  <2>1. /\ clients' = [clients EXCEPT ![i] = SetState(c, c.last)]
        /\ games' \subseteq games /\ roomsTotal' = roomsTotal
    BY <1>9 DEF RequestPong
  <2> QED
    BY <1>1, <1>2, <1>3, <2>1, SetStateKept, AssignKept
<1>10. CASE r.key = "ch" /\ RequestChat(i)
  <2>1. clients' = clients /\ games' \subseteq games /\ roomsTotal' = roomsTotal
    BY <1>10 DEF RequestChat, managerVars
  <2> QED
    BY <1>1, <1>2, <2>1, KeptAllRefl
<1> QED
  BY <1>4, <1>5, <1>6, <1>7, <1>8, <1>9, <1>10 DEF RouteRequest

-----------------------------------------------------------------------------
(* Steps of the loop over the clients, of its end, and of the shutdown.    *)

\* Closing the connection of the instance at pos.
LEMMA CloseStep ==
    ASSUME IInv, pc \in {"loop", "serve"}, pos <= Len(clients), NEW e,
           e \in {Closed(clients[pos]), [Closed(clients[pos]) EXCEPT !.disc = FALSE]},
           Close(clients[pos], e), pc' \in {"loop", "serve"}, pos' = pos, accepted' = accepted
    PROVE  IInv'
<1>1. pos \in 1..Len(clients) /\ Len(clients) \in Nat
  BY DEF IInv, Threads, Safe
<1>2. /\ clients' = [clients EXCEPT ![pos] = e]
      /\ sockets' = sockets \ {clients[pos].sock}
      /\ games' \subseteq games /\ roomsTotal' = roomsTotal
  BY DEF Close, ReleaseSocket
<1>3. Safe(clients', sockets') /\ Len(clients') = Len(clients)
  <2>1. Safe(clients, sockets)
    BY DEF IInv
  <2>2. /\ Safe([clients EXCEPT ![pos] = e], sockets \ {clients[pos].sock})
        /\ Len([clients EXCEPT ![pos] = e]) = Len(clients)
    BY <1>1, <2>1, SafeClose
  <2> QED
    BY <1>2, <2>2
<1>4. Rooms'
  BY <1>2, FewerRooms DEF IInv
<1>5. Threads'
  BY ReleaseSocketThreads DEF Close, IInv, Threads, Control
<1> QED
  BY <1>1, <1>3, <1>4, <1>5, PassStep

LEMMA ServeStep == IInv /\ Serve => IInv'
<1> SUFFICES ASSUME IInv, Serve PROVE IInv'
  OBVIOUS
<1>1. pc \in {"loop", "serve"} /\ pos <= Len(clients)
  BY DEF Serve, ServeRequest, UndefinedRequest, KickClient, Violates, Sends, AtClient
<1>2. pos \in 1..Len(clients) /\ Len(clients) \in Nat
  BY <1>1 DEF IInv, Threads, Safe
<1>3. ASSUME NEW r \in Request, ServeRequest(r) PROVE IInv'
  <2>1. Safe(clients', sockets) /\ Len(clients') = Len(clients) /\ Rooms'
    BY <1>2, <1>3, RequestSafe DEF ServeRequest, IInv
  <2>2. sockets' = sockets /\ pc' = "serve"
    BY <1>3 DEF ServeRequest
  <2>3. Threads'
    <3>1. pending' \in [Descriptors -> 0..MaxPending]
      <4> DEFINE d == clients[pos].sock
                 e == IF r.key = "<" /\ pending[d] > 0 THEN pending[d] - 1 ELSE pending[d]
      <4>1. pending' = [pending EXCEPT ![d] = e] /\ pending \in [Descriptors -> 0..MaxPending]
        BY <1>3 DEF ServeRequest, IInv, Threads
      <4>2. d \in Descriptors => e \in 0..MaxPending
        BY <4>1, BoundsAssumption
      <4> HIDE DEF d, e
      <4> QED
        BY <4>1, <4>2
    <3> QED
      BY <1>3, <2>2, <3>1 DEF ServeRequest, IInv, Threads, Control
  <2> QED
    BY <1>1, <1>2, <2>1, <2>2, <2>3, PassStep
<1>4. ASSUME NEW r \in Request, UndefinedRequest(r) PROVE IInv'
  BY <1>4, UndefinedStep DEF UndefinedRequest
<1>5. CASE KickClient
  <2>1. CASE Undefined
    BY <2>1, UndefinedStep
  <2>2. CASE ~Undefined
    <3>1. /\ Close(clients[pos], Closed(clients[pos]))
          /\ pc' = "loop" /\ pos' = pos /\ accepted' = accepted
      BY <1>5, <2>2 DEF KickClient
    <3> QED
      BY <1>1, <3>1, CloseStep
  <2> QED
    BY <2>1, <2>2
<1> QED
  BY <1>3, <1>4, <1>5 DEF Serve

LEMMA UpdateClientStep == IInv /\ UpdateClient => IInv'
<1> SUFFICES ASSUME IInv, UpdateClient PROVE IInv'
  OBVIOUS
<1>0. Len(clients) \in Nat /\ pos \in Nat \ {0}
  BY DEF IInv, Safe, Threads
<1>1. CASE Undefined
  BY <1>1, UndefinedStep
<1>2. CASE CloseFlagged /\ ~Undefined
  <2>1. /\ pc = "loop" /\ pos <= Len(clients) /\ pc' = pc /\ pos' = pos /\ accepted' = accepted
        /\ Close(clients[pos], [Closed(clients[pos]) EXCEPT !.disc = FALSE])
    BY <1>2 DEF CloseFlagged, AtClient
  <2> QED
    BY <2>1, CloseStep
<1>3. CASE EraseFlagged /\ ~Undefined
  <2>1. pc = "loop" /\ pos \in 1..Len(clients) /\ EraseClient(clients, pos) /\ UNCHANGED threadVars
    BY <1>0, <1>3 DEF EraseFlagged, AtClient
  <2>2. /\ Safe(clients', sockets) /\ Len(clients') = Len(clients) - 1
        /\ games' \subseteq games /\ roomsTotal' = roomsTotal
    BY <2>1, EraseClientSafe DEF IInv
  <2>3. Rooms'
    BY <2>2, FewerRooms DEF IInv
  <2>4. Threads' /\ sockets' = sockets /\ pc' = "loop"
    BY <2>1 DEF threadVars, IInv, Threads
  <2> QED
    BY <1>0, <2>1, <2>2, <2>3, <2>4, PassStep
<1>4. CASE SkipClient \/ EndOfBatch
  <2>1. /\ pc \in {"loop", "serve"} /\ pc' = "loop" /\ pos' = pos + 1
        /\ UNCHANGED <<managerVars, sockets, accepted, pending>>
    BY <1>4 DEF SkipClient, EndOfBatch, AtClient, NextClient
  <2>2. Safe(clients', sockets') /\ Rooms' /\ Len(clients') = Len(clients)
    BY <2>1 DEF managerVars, IInv, Safe, Rooms, RoomIds, OpponentsDiffer
  <2>3. Threads'
    BY <2>1 DEF IInv, Threads, Control
  <2> QED
    BY <1>0, <2>1, <2>2, <2>3, PassStep
<1>5. CASE DropClient /\ ~Undefined
  <2>1. /\ pc = "loop" /\ pos <= Len(clients) /\ pc' = pc /\ pos' = pos /\ accepted' = accepted
        /\ Close(clients[pos], Closed(clients[pos]))
    BY <1>5 DEF DropClient, AtClient
  <2> QED
    BY <2>1, CloseStep
<1>6. CASE Serve
  BY <1>6, ServeStep
<1> QED
  BY <1>1, <1>2, <1>3, <1>4, <1>5, <1>6 DEF UpdateClient

LEMMA EndOfPassStep == IInv /\ EndOfPass => IInv'
<1> SUFFICES ASSUME IInv, EndOfPass PROVE IInv'
  OBVIOUS
<1>1. /\ clients \in Seq(ClientRecord) /\ Len(clients) <= MaxClients
      /\ Rooms /\ MoveReadyClientsToPlay /\ UniqueNicks
      /\ pc' = "select" /\ pos' = 1 /\ accepted' = 0 /\ sockets' = sockets /\ pending' = pending
  BY DEF IInv, Safe, Places, WithinCapacity, EndOfPass, UniqueNicks
<1>2. KeptAll(clients, clients') /\ Rooms' /\ Cardinality(ReadyClients') <= 1
  BY <1>1, PairingKept
<1>3. Safe(clients', sockets') /\ Len(clients') = Len(clients)
  BY <1>1, <1>2, SafeKept DEF IInv, KeptAll
<1>4. Threads'
  BY <1>1 DEF IInv, Threads, Control
<1>5. Places'
  BY <1>1, <1>2, <1>3 DEF Places, WithinCapacity, RefusedIsNew, NobodyLeftReady
<1> QED
  BY <1>2, <1>3, <1>4, <1>5 DEF IInv

LEMMA ShutdownStep == IInv /\ Shutdown => IInv'
<1> SUFFICES ASSUME IInv, Shutdown PROVE IInv'
  OBVIOUS
<1>0. Len(clients) \in Nat /\ clients \in Seq(ClientRecord)
  BY DEF IInv, Safe
<1>1. CASE Undefined
  BY <1>1, UndefinedStep
<1>2. CASE ShutdownClient /\ ~Undefined
  <2> DEFINE cs == [clients EXCEPT ![1] = Closed(clients[1])]
  <2>1. /\ pc = "shutdown" /\ clients # <<>>
        /\ EraseClient(cs, 1) /\ ReleaseSocket(clients[1])
        /\ pc' = pc /\ pos' = pos /\ accepted' = accepted
    BY <1>2 DEF ShutdownClient
  <2>2. 1 \in 1..Len(clients)
    BY <1>0, <2>1
  <2>3. Safe(cs, sockets \ {clients[1].sock}) /\ Len(cs) = Len(clients)
    BY <2>2, SafeClose DEF IInv
  <2> HIDE DEF cs
  <2>4. /\ Safe(clients', sockets \ {clients[1].sock}) /\ Len(clients') = Len(cs) - 1
        /\ games' \subseteq games /\ roomsTotal' = roomsTotal
    BY <2>1, <2>2, <2>3, EraseClientSafe
  <2>5. Safe(clients', sockets')
    BY <2>1, <2>4 DEF ReleaseSocket
  <2>6. Rooms'
    BY <2>4, FewerRooms DEF IInv
  <2>7. Threads'
    BY <2>1, ReleaseSocketThreads DEF IInv, Threads
  <2> QED
    BY <1>0, <2>1, <2>3, <2>4, <2>5, <2>6, <2>7, PassStep
<1>3. CASE CloseServerSocket
  <2>1. /\ pc = "shutdown" /\ pc' = "stopped"
        /\ UNCHANGED <<managerVars, sockets, pos, accepted, pending>>
    BY <1>3 DEF CloseServerSocket
  <2>2. Safe(clients', sockets') /\ Rooms' /\ Len(clients') = Len(clients)
    BY <2>1 DEF managerVars, IInv, Safe, Rooms, RoomIds, OpponentsDiffer
  <2>3. Threads'
    BY <2>1 DEF IInv, Threads, Control
  <2> QED
    BY <1>0, <2>1, <2>2, <2>3, PassStep
<1> QED
  BY <1>1, <1>2, <1>3 DEF Shutdown

LEMMA UnchangedStep == IInv /\ UNCHANGED vars => IInv'
BY DEF vars, managerVars, threadVars, IInv, Safe, Rooms, RoomIds, OpponentsDiffer, Threads,
       Places, WithinCapacity, RefusedIsNew, Full, NobodyLeftReady, ReadyClients

-----------------------------------------------------------------------------
(* The theorems.                                                           *)

\* Every step of the server keeps the invariant.
LEMMA NextIInv == IInv /\ [Next]_vars => IInv'
<1> SUFFICES ASSUME IInv, [Next]_vars PROVE IInv'
  OBVIOUS
<1>1. CASE PingThread
  BY <1>1, PingThreadStep
<1>2. CASE Select
  BY <1>2, SelectStep
<1>3. CASE Capacity
  BY <1>3, CapacityStep
<1>4. CASE UpdateClient
  BY <1>4, UpdateClientStep
<1>5. CASE EndOfPass
  BY <1>5, EndOfPassStep
<1>6. CASE Shutdown
  BY <1>6, ShutdownStep
<1>7. CASE Halted \/ UNCHANGED vars
  BY <1>7, UnchangedStep DEF Halted
<1> QED
  BY <1>1, <1>2, <1>3, <1>4, <1>5, <1>6, <1>7 DEF Next

\* The invariant holds in every reachable state.
THEOREM Invariant == Spec => []IInv
<1>1. Init => IInv
  BY InitIInv
<1>2. IInv /\ [Next]_vars => IInv'
  BY NextIInv
<1> QED
  BY <1>1, <1>2, PTL DEF Spec

\* The variables keep their types; in particular stateLast is never Pinged,
\* Lost or Disconnected, so that restoring it (requestPong, requestPing) never
\* restores an absence.
THEOREM TypeCorrect == Spec => []TypeOK
<1>1. IInv => TypeOK
  BY DEF IInv, Safe, Rooms, Threads, TypeOK
<1> QED
  BY <1>1, Invariant, PTL

\* requestConnect gives a name to one instance only, also when it is taken over.
THEOREM NicksAreUnique == Spec => []UniqueNicks
<1>1. IInv => UniqueNicks
  BY DEF IInv, Safe, UniqueNicks
<1> QED
  BY <1>1, Invariant, PTL

\* No two instances share a descriptor, and none has a descriptor that
\* closeConnection has closed.
THEOREM SocketsAreOwn == Spec => []OwnSockets
<1>1. IInv => OwnSockets
  BY DEF IInv, Safe, OwnSockets
<1> QED
  BY <1>1, Invariant, PTL

\* updateClients never keeps more than maxClients instances after its check.
THEOREM CapacityIsKept == Spec => []WithinCapacity
<1>1. IInv => WithinCapacity
  BY DEF IInv, Places
<1> QED
  BY <1>1, Invariant, PTL

\* refuseConnection only ever erases the instance accepted in the same pass.
THEOREM OnlyNewIsRefused == Spec => []RefusedIsNew
<1>1. IInv => RefusedIsNew
  BY DEF IInv, Places
<1> QED
  BY <1>1, Invariant, PTL

\* An instance in state Disconnected has no open socket.
THEOREM NoSocketWhenDisconnected == Spec => []DisconnectedIsClosed
<1>1. IInv => DisconnectedIsClosed
  BY DEF IInv, Safe, DisconnectedIsClosed
<1> QED
  BY <1>1, Invariant, PTL

\* Whatever the peers send, no named client is ever its own opponent.
THEOREM NobodyPlaysItself == Spec => []OpponentsDiffer
<1>1. IInv => OpponentsDiffer
  BY DEF IInv, Rooms
<1> QED
  BY <1>1, Invariant, PTL

\* moveReadyClientsToPlay pairs everybody that can be paired.
THEOREM ReadyArePaired == Spec => []NobodyLeftReady
<1>1. IInv => NobodyLeftReady
  BY DEF IInv, Places
<1> QED
  BY <1>1, Invariant, PTL
===============================================================================
