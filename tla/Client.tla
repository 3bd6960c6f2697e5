------------------------------- MODULE Client -------------------------------
(***************************************************************************)
(* One connected (or remembered) peer of the server: the record kept for   *)
(* each element of ClientManager::clients, and the mutators of the class   *)
(* Client.  The module has no variables: ClientManager keeps a sequence of *)
(* these records and applies the operators below to them.                  *)
(*                                                                         *)
(* The names of the fields:                                                *)
(*   nick, ip, sock, room   nick, ipAddress, socketNum, roomId             *)
(*   state, last            state, stateLast                               *)
(*   disc, erase            flagToDisconnect, flagToErase                  *)
(*   pings                  cntrPings                                      *)
(***************************************************************************)
EXTENDS Integers

CONSTANTS
    Nicks,      \* the names a peer may ask for (\w{3,20} in the protocol)
    NoNick,     \* the empty std::string of an instance without a name
    IPs,        \* the addresses peers connect from
    LongPing    \* LONG_PING: ping rounds a disconnected instance is kept

ASSUME NoNickAssumption == NoNick \notin Nicks
ASSUME LongPingAssumption == LongPing \in Nat \ {0}

State == {"New", "Waiting", "Ready", "PlayingOnTurn", "PlayingOnStand",
          "Pinged", "Lost", "Disconnected"}

\* The states the server puts an instance in because of its connection;
\* stateLast remembers what the instance was doing before.
Away == {"Pinged", "Lost", "Disconnected"}

Present == State \ Away

Playing == {"PlayingOnTurn", "PlayingOnStand"}

\* The value Server::closeConnection stores instead of a closed descriptor.
BadSocket == -42

\* Room id of an instance that is in no game.
LobbyRoom == 0

ClientRecord ==
    [nick : Nicks \cup {NoNick}, ip : IPs, sock : Int, room : Nat,
     state : State, last : Present, disc : BOOLEAN, erase : BOOLEAN,
     pings : Int]

NewClient(ip, sock) ==
    [nick |-> NoNick, ip |-> ip, sock |-> sock, room |-> LobbyRoom,
     state |-> "New", last |-> "New", disc |-> FALSE, erase |-> FALSE,
     pings |-> LongPing]

\* Mutant of SetState: stateLast follows state even while away.
MutSetState(c, s) == [c EXCEPT !.last = c.state, !.state = s]

\* setState: stateLast follows state, except while the instance is away.
SetState(c, s) ==
    [c EXCEPT !.last = IF c.state \in Away THEN @ ELSE c.state,
              !.state = s]

SetStateLast(c, s) == [c EXCEPT !.last = s]

\* What the instance is doing, or was doing before it went away.
Activity(c) == IF c.state \in Away THEN c.last ELSE c.state

IsOpen(c) == c.sock > 0
=============================================================================
