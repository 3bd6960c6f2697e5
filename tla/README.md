# Verification of the Hnefatafl server

TLA+ models, model checks and proofs for the game server in this repository, a
C++17 program that lets clients meet in a lobby and play Hnefatafl in pairs over
TCP. The paths below are relative to the repository (`src/network/Server.cpp` is
the class `Server`).

- [1 The system](#1-the-system): components, state, operations, hard behaviours
- [2 Modules](#2-modules): which module models which part, and how
- [3 Runs](#3-runs): what TLC checks, with which bounds
- [4 Fairness](#4-fairness)
- [5 Proofs](#5-proofs)
- [6 What the models show about the code](#6-what-the-models-show-about-the-code)
- [7 Not modelled, and the plan](#7-not-modelled-and-the-plan)

## 1 The system

### Components

| component | state it keeps | operations | what makes it correct |
|---|---|---|---|
| `Client` (`network/Client`) | nick, address, descriptor, room, state and last state, two flags, a countdown | constructor, setters | the last state is never one of "away" (Pinged, Lost, Disconnected), so restoring it ends an absence |
| `Lobby` (`game/Lobby`) | vector of rooms, number of the last room | create, destroy, search, move in a room | ids are unique; both players of a room know they are in it |
| `RoomHnefatafl` (`game/RoomHnefatafl`) | 11 x 11 playfield, whose turn, game state | `processMove`: validate, move, capture, decide, swap | the game is Hnefatafl: special fields survive, captures and ends are what the rules say |
| `ClientManager` (`network/ClientManager`) | vector of clients, the lobby, statistics | one handler per request (connect, ready, move, leave, ping, pong, chat), create, erase, evict, pair | names are unique, clients and rooms agree, no search result is dereferenced when it is `end()` |
| `Server`, main loop (`network/Server`) | listening socket, set of client descriptors, receive buffer | `run`/`select`, accept, refuse, read, serve, close, shutdown | descriptors are owned by one instance and closed once; capacity; every pass ends |
| `Server`, pinging thread | none of its own | `pingClients`: every 10 s mark silent clients, count absences down, send pings | silent clients are dropped, absent ones erased |
| receive buffer (`Server::readClient`) | class buffer, step buffer | read what has arrived, drop newlines, stop floods | nothing of an earlier reading is left; what one receive brings is served as sent; nobody is closed without a reason |
| wire protocol (`protocol.hpp`, `packet_handler.hpp`) | none | check a message against a regular expression, split it into requests | a message is served whole or not at all |
| start and stop (`server_handler.cpp`, `signal.hpp`, `Server::run`) | `isRunning`, condition variable | install SIGINT, run, join | the threads take turns; SIGINT stops the server; it ends with its thread joined |
| command line (`argument_parser.cpp`, `main.cpp`) | defaults | parse options | values are in their ranges |
| `Logger` | output and level | format, print | - |

### How they interact

The main loop waits in `select` *without* the mutex and makes a pass over the
clients *with* it. In a pass it accepts at most one connection, checks the
capacity (the last place is for a client that is told the server is full), and
visits every instance: close it if the pinging thread flagged it, erase it if it
is no longer wanted, otherwise read and serve what it sent. Requests go to
`ClientManager::routeRequest`, which decides by the client's state whether the
request is allowed; a request that is not, or that fails, closes the connection.
The pass ends with `moveReadyClientsToPlay`. The pinging thread does a whole
round with the same mutex and never closes anything itself: it sets flags, which
the next pass carries out.

A client and a room know each other by *value* only: the room keeps two nicks,
the client keeps a room id. Each side looks the other up when needed, and most
callers do not check that something was found.

An instance outlives its connection. A closed player stays in the vector as
Disconnected; a new connection from the same address may take its name, room
and activity over while it is kept (`LONG_PING`, two ping rounds).

### What is hard here

- A ping replaces a client's state by Pinged and remembers the old one; anything
  that arrives before, between and after pong, ping and the opponent's requests
  meets a different pair (state, last state).
- Names, room ids and descriptors are reused or passed on; each is looked up
  later by somebody who remembers it.
- Instances are erased at four places (flag, refusal, eviction, shutdown), and
  the games they are in must end at each.
- One vector is changed while it is walked over.
- The loop over clients repeats for the same instance after closing it.
- The playfield stores stones and special fields in the same cells.
- What a client is told of its place is computed from a state that was kept while
  it was away, and the other player is only told when it can be.
- `isRunning` is written by both threads and by a signal handler that runs in
  either; a notification reaches the pinging thread only while it waits.
- Bytes arrive while `readClient` loops, and its two buffers are one after the
  other filled, copied and cleared.

`PROJECT.json` lists these hazards with their lines and the properties that
are about them.

## 2 Modules

```
 Client <- Lobby <- ClientManager <- Server <- MCServer      (runs)
                                       |  ^---- Messages <- MCMessages   (run)
                                       ^------- ServerProofs -> VectorLemmas
 ServerProofs, MCServer <- CarefulRequests <- CarefulProofs
 CarefulProofs, Messages <- MessagesProofs
 Board <- RoomHnefatafl <- MCRoom <- MCRoomBounded           (runs)
   |           ^----- RoomProofs
   ^------ Tafl  (abstract: RoomHnefatafl implements it)

 Arguments <- Program <- MCProgram                           (runs)
                 |  ^--- ProgramProofs
                 +-----> Turns  (abstract: Program implements it)
 ReadBuffer <- MCReadBuffer                                  (runs)
      ^------- ReadBufferProofs -> VectorLemmas
```

**Client** has no variables: the record of an instance and the setters as
operators on it. `SetState` is `Client::setState`, with its rule that the last
state follows the state except while away.

**Lobby**: rooms as records of an id and the nicks of the player on turn and the
player on stand. `games` is a set, since the code only searches the vector by id
and ids come from a counter (part of the invariant in ServerProofs). `BackToLobby` is what
`destroyRoom` does to each player.

**ClientManager**: variables `clients` (a sequence, as its order decides whom
searches find, who is paired and who is evicted), `games` and `roomsTotal`. One
operator per handler; `Routed` is the table of `routeRequest`. A move is
represented by its outcome (invalid, moved, gameover), which the room decides in
the module RoomHnefatafl.

*Undefined behaviour.* `Lobby::getRoomById` and `findClientByNick` answer `end()`
when nothing is found, and several callers dereference the answer. For each of
these there is a `Defined...` predicate: every iterator the code dereferences
points to an element. Where it is false the model goes to the control state
`"undefined"` and stops: nothing is claimed of the program after that, and
`NeverUndefined` says it does not get there.

**Server** adds `sockets` (open client descriptors), `pc` and `pos` (control and
iterator of the main thread), `accepted` (the descriptor accepted in this pass,
which `select` cannot have reported) and `pending` (pings the peer has not
answered: part of the environment). A pass is many steps, one for each thing that
happens to one instance, so whatever a peer has sent is chosen when it is served.
The main thread holds the mutex in every control state but `"select"`, so a
ping round, which takes the mutex for its whole length, is one step enabled in
`"select"`. The steps of `CloseFlagged` and `DropClient` leave `pos` alone, as the
code's `continue` does.

What peers send is the constant operator `MaySend(cs, i, p, r)`. The server is
*proved* about for every value of it; `MCServer` has the values the runs use:

| value | peers |
|---|---|
| `AnyRequest` | send anything at any time |
| `PromptRequest` | answer pings before anything else, once; ask for a name only when they have none |
| `CarefulRequest` | prompt, and do not connect a second time while they are Ready |
| `LateRequest` | answer each ping once, but when they like |
| `HastyRequest` | careful, but move and leave when they like |

**Messages** adds what the server *tells*: nothing in the server reads a message
back, so messages are kept as what they amount to, the place (lobby, on turn,
standing by) where the last message that said so has put the peer of each
descriptor. Every step is a step of Server with the messages its handlers send;
`sendToClient` skips a client without a descriptor and `sendToOpponentOf` one who
is disconnected, and the answer to a connect is composed from the restored state,
as in the code.

**Program** is the life of the process, from `main` to the last join, in steps that
each access one thing the threads share: `isRunning`, the mutex, the condition
variable, the end of the other thread. The work of a pass or a round is in Server;
here it is a stretch of control that needs the mutex. SIGINT may be handled in
either thread between any two steps; only in the main thread does it interrupt
`select`. Its handler logs first, and where the interrupted thread may be in the
logger itself the handler may never return: the thread is then in `hung`.
**Arguments** is `parse_arguments`, which Program runs first. A word is a record of
what the parser's tests find out about it: its flag, what `std::stoi` makes of it,
whether the regular expression takes it for an address. A *padded* address
(`010.0.0.1`) passes that expression and is refused by `inet_pton`.

**Turns** is what mutex, condition variable and join are for: passes, rounds and
the closing of everything are done one at a time, closing last of the passes, and no
round when the program is over (one is possible between closing and the end). These
turns are the steps of Server.

**ReadBuffer** is one connection: the bytes the peer sends, how many have arrived
and been taken, the class buffer, `received_total` and the requests served. Bytes
arrive at any time, also between the steps of `readClient`, so a message may be cut
anywhere. A request is a sequence of bytes, a key alone or a key with its data; the
constant `Contents` has the sequences the regular expression admits between two
brackets, `SizeBuff` and `LongestMsg` are constants too. So two requests can be mixed into
a third one, as they can in the code.
`CString` is the stretch before the first Nul, which is what `insertToBuffer` reads
of the step buffer and what the parser reads of the class buffer; `Copied` is the loop
of `insertToBuffer`, a recursive function with one step per byte.

**Board** is the geometry of squares. **RoomHnefatafl** is the class of that name:
`ProcessMove` is `processMove` with all it calls (`isValidMove`, `move`,
`checkCaptures`, `swapPlayers`). The two players of a room are taken to have
different nicks, so that "on turn" is a side; for players with names this is
`OpponentsDiffer`. It does not hold of clients without a name, and two of them can be in
one room: a client that is pinged before it has a name is Pinged, which passes the state
check of ready, and two such clients are paired. What such a room does is not covered by
the room modules. Careful peers do not get there: `Tidy` of section 5 says that an
instance without name is New.

**Tafl** states the rules without a playfield: the squares of attackers, defenders and
king. `PlaysByTheRules` says RoomHnefatafl implements it; the mapping reads the three sets
from the playfield.

## 3 Runs

All runs use TLC breadth first over complete state graphs of the bounded model.

| run | peers | checks | distinct states |
|---|---|---|---|
| `server_any` | any | `TypeOK UniqueNicks OwnSockets WithinCapacity RefusedIsNew DisconnectedIsClosed OpponentsDiffer NobodyLeftReady` | 1.5 M |
| `server_careful` | careful | `RoomAgreement PlayersHaveRoom ClosedIsDisconnected ErasedIsDisconnected NoSocketLeak NeverUndefined ToldAgrees MoverStandsBy` | 1.7 M |
| `server_live` | careful | `PassEnds SilentClientIsDropped MissingPlayerEndsGame ServerStops` | 79 k |
| `room_small` | | `TypeOK OneKing GameoverIsWon ShutInBesideThrone MoveTakesEnemies`, whole games on 5 x 5 | 161 k |
| `room_full` | | `PlaysByTheRules`, two moves on the real 11 x 11 playfield | 7 k |
| `program` | | `OptionsAsGiven StartsInRanges NoThreadIsLeft EndsForAReason TakesTurns ServerEnds` | 940 k |
| `read_buffer` | any bytes | `BufferIsTerminated MessageIsOfOneReading OneReceiveIsExact ServedInOrder LastWordIsServed OnlyFloodersAreClosed` | 961 k |

`server_any` is what the server owes to every peer. Unique names, own
descriptors, the capacity, the refusal of newcomers and opponents that are not one client
survive any sequence of requests, takeovers and disconnections.

`server_careful` is what the server owes to peers that answer a ping before they send
anything else, and connect for a name once. That is a restriction: the client program is
not in this repository, and on TCP a request that crosses a ping on its way is ordinary.
`CarefulRequest` excludes it, and `late_pong` and `crossed_leave` show what happens then.
For careful peers:
`RoomAgreement` (the two players of a room know their room and which of them is
on turn, also when they are away), `PlayersHaveRoom` (nobody plays in a room that
is gone), and that no connected player is erased, no descriptor leaked and
no `end()` dereferenced. `ToldAgrees` adds what the peers know: whoever has a
connection and a name is where it was last told to be, over every handler,
disconnection, return and erasing. Section 6 shows that the disciplines are needed.

`program` follows the process: the parameters are the last ones given and in
their ranges; `TakesTurns` is the refinement of Turns; the program never ends before
its pinging thread (`NoThreadIsLeft`: destroying the thread unjoined would abort
the process); SIGINT is not taken for a crash of `select` (`EndsForAReason`); and a
server that was told to stop while it runs ends, without any notification being
needed (`ServerEnds`).

`room_full` compares only the first two moves with the rules: captures happen in it, a
move of the king to the throne or to an escape and the end of a game do not. These are in
the whole games of `room_small`, against the properties of that run; against the rules
they rest on the theorem `RoomPlaysByTheRules`.

`read_buffer`: the buffer is a terminated string however much arrives at once; what is
parsed is made of bytes of this reading, each used once (`MessageIsOfOneReading`), so
nothing of an earlier message or another connection is served again; what one receive
brings is parsed exactly. As long as each reading is *one* receive, wherever the stream is
cut, what is served is what was sent, in order (`ServedInOrder`), and a peer that sends and closes
is served before it is logged out (`LastWordIsServed`); both except for Nuls, which end a C
string. Only floods are closed as floods. With a second receive in one reading requests are
lost and made up: `split_message`.

Five runs expect a violation; see section 6.

**Bounds.** `Nicks` two, `IPs` one, and two in `server_careful`, where a name may be
asked for from another address; `MaxInstances` three: two players and
the instance that takes one of them over, the most that interact in any handler.
`MaxClients` is 2 where
refusal and eviction are to happen and 4 (never reached) where they are not.
`LongPing = 1` shortens the countdown of two rounds (`LONG_PING`) to one; the countdown
itself is a decrement and a test for zero, and `CountDown` keeps the code's form.
`MaxGames` bounds the counter of rooms: a behaviour stops when another room would
be created (`BoundReached`). Two names make one room at a time, and `MaxGames = 1`
covers it from its creation through every way to its end; that nothing of a
finished game is left is `PlayersHaveRoom`, and that ids are not given again is
proved. `MaxSock` is the number of
descriptors, `MaxPending` saturates the count of unanswered pings at one: a peer
only distinguishes none from some. `PingSlack = 0`: between the round in which
an instance expires and the next pass no further round happens, so `pings` stays
at zero or above; a second round would only decrement a number nobody reads
again. In `server_any` the count of pending pings is not used and is 0.
The peers' names and addresses are symmetric; the liveness run uses no symmetry.

`room_small` has a 5 x 5 playfield with two attackers, one defender and the king:
enough for captures of both colours, for the king shut in at the border and beside
the throne, for both ends of the game, and small enough for every game to be
played to its end. `MaxCoordinate = 99` is what two digits can say: a move
outside the playfield is rejected. `room_full` compares the room with the rules on
the playfield of the constructor; that it plays by them in games of any length is
proved.

`program` has up to four words, that is two options, of every flag, numbers at and
beside each border of the ranges, and both kinds of addresses: what one option
does to another needs two. The rest of Program is finite as it is. `read_buffer`
has a buffer of fourteen bytes and streams of up to three items, each a request without or
with data, an unfinished one, a newline or a Nul: up to fifteen bytes, which is more than the
buffer, than one receive (13) and than the threshold (8), arriving in pieces of every size.
`split_message` has all pairs of well formed requests, so nothing but the cut is to blame.

`CHECK_DEADLOCK` is on everywhere. The states where the models rest are
explicit: `Halted` (stopped, undefined or the bound reached; in Program ended or hung),
`RoomDestroyed` (the manager destroys a room whose game is over), `Closed` in ReadBuffer.

Each property of a passing run has a mutant, a plausible mistake in one mapped
definition that makes TLC find the property violated: the `Mut...` definitions
beside the definitions they change.

## 4 Fairness

`FairSpec` of Server assumes:

- weak fairness of "select returns" (`NoConnection` or an accept): `select` has a
  timeout of 9 seconds (`TIMEOUT_SEC`), so it returns whatever peers do;
- weak fairness of the steps of a pass, of its end and of shutdown: sequential
  code with the mutex held. `EndOfBatch` has its own weak fairness: a batch is a
  message of bounded length, so its requests run out;
- strong fairness of `PingThread`: the thread asks for the mutex every 10
  seconds; `"select"` recurs but does not stay enabled, as the main thread takes
  the mutex again on every return of `select`. The main thread waits in `select`,
  up to 9 seconds, without it, which is when the pinging thread gets it.

`FairSpec` of Program assumes weak fairness of each thread: both are scheduled, `select`
has its timeout and `wait_for` its period. Nothing is assumed of the mutex beyond
that: a thread may wait for it while the other takes it again and again, and yet
`ServerEnds` holds, because each thread comes to test `isRunning`. There is no
fairness of SIGINT.

Nothing is assumed of peers: they need not answer, connect or send. There is no
fairness of `Interrupt`.

`MissingPlayerEndsGame` is the promise behind the countdown: if a player of a
room has no connection, either somebody with its name connects again or the room
ends. `SilentClientIsDropped`: a client that is Pinged or Lost does not stay so.

## 5 Proofs

### The server

`ServerProofs` proves, with TLAPS, that the properties of `server_any` hold for
every value of the constants (any number of names, addresses, clients and
descriptors, any `LongPing`) and every `MaySend`, that is whatever peers send:

| theorem | property |
|---|---|
| `TypeCorrect` | `TypeOK` |
| `NicksAreUnique` | `UniqueNicks` |
| `SocketsAreOwn` | `OwnSockets` |
| `CapacityIsKept` | `WithinCapacity` |
| `OnlyNewIsRefused` | `RefusedIsNew` |
| `NoSocketWhenDisconnected` | `DisconnectedIsClosed` |
| `NobodyPlaysItself` | `OpponentsDiffer` |
| `ReadyArePaired` | `NobodyLeftReady` |

all from `Invariant`: `Spec => []IInv`.

**Assumptions.** `NoNickAssumption` (the empty name is not one a peer may ask for:
the protocol demands three characters), `LongPingAssumption`,
`MaxClientsAssumption` (the command line demands at least 2) and
`BoundsAssumption` (the bounds of the model are naturals).

**The inductive invariant** is `Safe(clients, sockets) /\ Rooms /\ Threads /\ Places`.
None of the properties is inductive alone:

- `OwnSockets` needs `DisconnectedIsClosed`, and both need the types: closing gives
  the instance the socket -42, which is not open, and the descriptor may be
  handed out again because no other instance has it;
- `UniqueNicks` needs the types (an instance is named with a nick, never with
  `NoNick`), and in a takeover that the old instance loses the name the new one
  gets;
- `RefusedIsNew` needs `WithinCapacity` in the control state `"select"`: the capacity
  is compared with *equality*, so it must be impossible to be above it; and it
  needs that a ping round does not come between accept and the check, which is
  the mutex;
- `NobodyLeftReady` is established by pairing and must be kept by ping rounds, which
  no step makes Ready.

`Safe` says what is kept about the vector and the descriptors. Handlers change the
vector in few ways: replace an element by one with the same name and socket that
is not newly disconnected (`Kept`, `KeptAll`), remove an element, append a new
one, close one, name one, take one over. There is one lemma for each way (
`SafeKept`, `SafeRemove`, `SafeAppend`, `SafeClose`, `TakeNickSafe`,
`TakeOverSafe`); the lemma of each group of actions puts them together. The
pairing needs facts on the rank of a Ready client, `RankProperties`, which with
the facts on sequences and on least elements are in `VectorLemmas`.

### Careful peers

The properties of `server_careful` are false for arbitrary peers, as the runs of
section 6 show. `CarefulRequests` and `CarefulProofs` prove them under the
hypothesis `Careful`, and again for every number of names, addresses, clients, rooms
and descriptors, and every length of the countdown:

| theorem | property |
|---|---|
| `RoomsAgree` | `RoomAgreement` |
| `PlayersAreInRooms` | `PlayersHaveRoom` |
| `ClosedAreCountedDown` | `ClosedIsDisconnected` |
| `OnlyDisconnectedAreErased` | `ErasedIsDisconnected` |
| `SocketsAreOwned` | `NoSocketLeak` |
| `NothingUndefined` | `NeverUndefined` |
| `MoversStandBy` | `MoverStandsBy` |

**The hypothesis** has three parts. Each is stated about constants, each is needed,
and `server_careful.cfg` satisfies all of them:

- `CarefulPeers`: whatever a peer may send is a `CarefulRequest`. Without the
  part about pings, an old pong restores an old state (`late_pong`) and a leave is
  served in the lobby (`crossed_leave`); without the one about Ready, a second
  connection takes the name of a connected client;
- `OnePong`: `MaxPending = 1`, the count of unanswered pings is "none or some", so
  one pong answers all of them;
- `NeverFull`: `MaxInstances <= MaxClients`, so that nobody is refused or evicted;
  an eviction erases a player without ending its game (`evicted_player`).

**The inductive invariant** `CInv` is `IInv` and, beside it:

- `Agree(clients, games)`: every room has two players in the vector, one of them on
  turn and one on stand, *by what they were doing* (`Activity`, the state or,
  while away, the last state); and a named client plays exactly when it
  is in a room, which exists and has its nick. The two directions need each other:
  `swapPlayers` looks up the opponent by nick, `destroyRoom` both players, and what
  they find is the right one because names are unique (`IInv`);
- `Answered`: a connected client has an unanswered ping exactly when it is Pinged or
  Lost. This is what makes a peer's discipline useful: a careful peer that sends
  anything but a pong is therefore in the state the handlers have put it in, so the
  state check of the handler is about its activity, and a pong that is served
  restores that activity;
- `Tidy`: an instance without name is new, one without connection Disconnected, and
  whoever is to be erased is Disconnected or flagged to be closed first;
- `Owned`: every open descriptor is that of an instance; and `Serving`: the instance
  whose batch is served is still connected and not flagged.

There is one lemma for what each setter does to the fields of an instance, one for each
way a room and its players change (created, swapped, left, over, one of them closed, taken
over or erased), and one per handler. `Defined...` of a handler follows from `Agree`:
the room of whoever passes the state check exists, and so does its opponent.
`MoversStandBy` needs the invariant too, because the mover is found again by nick.

### What the peers are told

`MessagesProofs` proves `ToldIsServer`, `ToldSpec => Spec`: sending messages adds nothing to
what the server does, so all theorems about Server hold of Messages; and under `Careful`
`ClientsAreTold`, the property `ToldAgrees`. The invariant is `CInv` and "every connected
client with a name has heard its place". The steps that could break it are those that
change the place of a client that is *not* served: an opponent's move, leave, end or
erasing, and the pairing. There the code sends to the opponent unless it is Disconnected, and
`Tidy` makes that "unless it has no connection". Who comes back is told from the
restored state, which by `Agree` is where its room has it.

### The room

`RoomProofs` proves, for every odd size of the playfield from 5 and every layout
that `LayoutAssumption` allows (the king alone on the throne with a defender or an
empty square beside it, escapes exactly in the corners; TLC evaluates it for the
layout of the constructor):

| theorem | property |
|---|---|
| `TypeCorrect` | `TypeOK` |
| `KingIsKept` | `OneKing` |
| `OverWhenWon` | `GameoverIsWon` |
| `ShutInOnlyBesideThrone` | `ShutInBesideThrone` |
| `RoomPlaysByTheRules` | `PlaysByTheRules` |
| `MoversTakeEnemies` | `MoveTakesEnemies` |

The invariant is `TypeOK /\ OneKing /\ GameoverIsWon`. `TypeOK` alone is not
inductive: `move` puts back only the throne, so a king that could leave a corner
would destroy an escape. It cannot, because the game is over when it gets
there, which is `GameoverIsWon`. That in turn needs the one king: the code looks
for a king beside the last attacker, and the property is about where it is.

The proof follows the code: `MovedProperties` is what `move` does to the
playfield, `CapturesProperties` what `checkCaptures` does,
`ShutInWhenCaptured` what `isCapturedKing` decides. For the refinement,
`CapturedAreTaken` shows that the code's look at two fields behind each other
takes the stones the rules take, where special fields are not stored but places
nobody stands on; `WarriorMoves` and `KingWalks` turn a step of the playfield into
the sets of the rules, and `StepImplements` matches the three kinds of moves.
`ShutInOnlyBesideThrone` needs `LastStep`: the square from which a stone
enters its destination is left empty, unless it is the throne. So does
`MoversTakeEnemies`: of the four neighbours of a destination the one the stone came over
holds no enemy, which is why three is the most a move takes.

### The program

`ProgramProofs` proves, for every set of words and command lines of every length:

| theorem | property |
|---|---|
| `TypeCorrect` | `TypeOK` |
| `StartedInRanges` | `StartsInRanges` |
| `OptionsAreTheLastGiven` | `OptionsAsGiven` |
| `ThreadIsJoined` | `NoThreadIsLeft` |
| `EndsForItsReason` | `EndsForAReason` |
| `ThreadsTakeTurns` | `TakesTurns` |

The invariant says of the parser what the loop has done so far (every parameter
before `next` is the last one given and in its range; `StartsInRanges` is not
inductive without it), and of the threads who holds the mutex where, that there is a
pinging thread exactly between its creation and the join, and what `isRunning`, `crash`
and `asked` tell of each other. `ThreadsTakeTurns` maps every step of Program to a
step of Turns or a stutter; it needs the invariant on the mutex, since Turns knows no
locks.

### The receive buffer

`ReadBufferProofs` proves, for every size of buffer, every set of requests and everything
a peer may send, however it is cut:

| theorem | property |
|---|---|
| `BufferIsAString` | `BufferIsTerminated` |
| `NothingIsLeftOver` | `MessageIsOfOneReading` |
| `FirstReceiveIsExact` | `OneReceiveIsExact` |
| `FloodersOnly` | `OnlyFloodersAreClosed` |
| `ServedAsSent` | `ServedInOrder` |
| `LogoutAfterLastWord` | `LastWordIsServed` |

**Assumptions.** `SizesAssumption` (the longest message leaves a place in the buffer:
`LONGEST_MSG` is 106 and `SIZE_BUFF` 1024), `StreamsAssumption` (streams are sequences of
bytes), `DataAssumption` (a request has no bracket, Nul or newline in it) and
`ContentsAssumption` (the requests are sequences of such bytes; nothing else is assumed
of the regular expression).

**The inductive invariant** is
`TypeOK /\ Reading /\ BufferIsTerminated /\ Sent /\ Exact /\ Order`:

- `Reading`: `received_total` never exceeds what was taken in this reading, and a peer that
  has closed sends nothing more;
- `Sent`: within a reading, a byte is in the buffer at most as often as among those taken
  *in this reading*. `MessageIsOfOneReading` alone is not inductive: it rests on
  `clearBuffer` at the start of a reading. The remains of a longer receive, which do stay
  in the buffer behind a shorter one, are counted too, and they came in the same reading;
- `Exact`: before the first receive of a reading the buffer is clear, after it the buffer
  is the text and Nuls behind it. Nothing is said of the second: see `split_message`;
- `Order`: while no reading has received twice (`mixed`, a history variable that nothing but
  the properties reads), the requests served are those among the bytes taken before this
  reading. `ServedInOrder` and `LastWordIsServed` follow from it: a message that begins with a
  bracket leaves nothing open that the next could close, so parsing what was sent in two
  stretches and parsing it at once give the same requests (`ParsedConcat`, `CopiedConcat`).

The lemmas on `Sent` are about counting: `TimesInjection` (what is copied from different
places occurs no more often), `InsertCount` for `insertToBuffer`.
`CopiedIsPart` says what the loop of `insertToBuffer` leaves for a text of every length.
It is an induction over the text, which the prover cannot do with the library's theorems;
`UptoInduction` in `VectorLemmas` does it with a *set*: the numbers for which a formula
holds, of which there would be a least one missing. Sequences are filtered by a recursive
function for that reason; of `SelectSeq` the prover knows nothing.

### Only model-checked

Liveness: `PassEnds`, `SilentClientIsDropped`, `MissingPlayerEndsGame` and `ServerStops`
(`server_live`) and `ServerEnds` (`program`). They rest on fairness and ENABLED, which
the prover has no rules for. Every other property of a passing run is a theorem. What is
proved of the server with careful peers says nothing of other peers: what holds for all of
them is `ServerProofs`.

## 6 What the models show about the code

Each of these runs expects TLC to find the behaviour; the comment or help text
that says otherwise is quoted in `PROJECT.json`.

- `late_pong`: `requestPong` restores the last state whatever the state is. If the
  client was already restored by its own request, or its room's turn has changed
  since, a pong that arrives later sets an older state. Client and room then
  disagree on who is on turn.
- `crossed_leave`: a Pinged client passes the state check of `leave` in any
  activity. In the lobby there is no room to look up and `end()` is dereferenced.
- `evicted_player`: the eviction at capacity erases a disconnected player without
  ending the game, and the opponent stays in a room with nobody.
- `lost_interrupt`: the handler of SIGINT is installed before the server is
  initialized, and `run` sets `isRunning` to 1 at its start. A SIGINT between the two
  is forgotten.
- `split_message`: `insertToBuffer` writes to the start of the class buffer for every
  receive. The second part of what a reading receives replaces the start of the first, and
  if it is shorter the end of the first remains behind it. A chunk `{m:01020304}` followed by
  a chunk `{m:05` leaves `{m:05020304}`, which has the valid format and is served, although
  nobody sent it. It needs bytes that arrive between `recv` and the next `FIONREAD` of the
  same reading.

The models behave as the code does in further places that have no run of their own:
`handleReconnection` treats a Ready client as an expired one, so a second connection
from its address takes the name of a connected client (`CarefulRequest` excludes it);
its branch for a short inaccessibility assumes that the client and its namesake are one
instance, and a new connection is told it is back and stays nameless
(`ShortReconnect`); the limit of rooms, `-r`, is stored and printed and not consulted, so
ClientManager creates rooms without one; at the flooding threshold itself bytes are
received and neither kept nor complained of (`Receive`).

## 7 Not modelled, and the plan

Not modelled, and why:

- the regular expressions of names, coordinates and chat: ReadBuffer has the set of what
  they admit as a constant, the other modules have values;
- the counters of the statistics (`cli_connected`, `bytesSend`, `bytesRecv` and the
  others): only printed, nothing depends on them. `bytesRecv` adds the running total of
  a reading for every receive;
- the loop of `send`: partial sends and three attempts, a `send` that blocks while the
  mutex is held, SIGPIPE. A message is sent or lost with its connection;
- `Logger`, except that it cannot be entered again by the signal handler: formatting and
  output, nothing reads it back;
- a ping round or a pass inside Program: Server has them, and Turns is what connects the
  two.

What is left to do:

1. `send` as the code has it, with the result that a round may block;
2. second games of the same players in the runs of Server, which are beyond the time
   a run may take with two addresses (for the invariants the proofs cover them: they
   hold for every `MaxGames`);
3. that the passes and rounds of Server take the turns of Turns, as a refinement;
4. a theorem for peers that are only prompt: what remains of `RoomAgreement` when a
   second connection may come while the client is Ready.
