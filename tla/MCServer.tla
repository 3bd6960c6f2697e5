------------------------------ MODULE MCServer ------------------------------
(* Values of MaySend for the runs of module Server.                        *)
EXTENDS Server

\* Peers that send anything at any time.
AnyRequest(cs, i, p, r) == TRUE

\* Peers that answer a ping before they send anything else, with one pong for
\* all the pings they have not answered, and that ask for a name once.
PromptRequest(cs, i, p, r) ==
    /\ p > 0 <=> r.key = "<"
    /\ r.key = "c" => cs[i].nick = NoNick

\* Prompt peers that do not connect again while they are Ready.
CarefulRequest(cs, i, p, r) ==
    /\ PromptRequest(cs, i, p, r)
    /\ r.key = "c" =>
          \A j \in DOMAIN cs : cs[j].nick = r.nick => cs[j].state # "Ready"

\* Peers that answer every ping once, but when they like, and otherwise ask
\* for what fits their side of the game.
LateRequest(cs, i, p, r) ==
    LET act == Activity(cs[i])
    IN  /\ r.key = "<" => p > 0
        /\ r.key = "c" =>
              /\ cs[i].nick = NoNick
              /\ \A j \in DOMAIN cs : cs[j].nick = r.nick => cs[j].state # "Ready"
        /\ r.key = "rd" => act = "Waiting"
        /\ r.key = "m" => act = "PlayingOnTurn"
        /\ r.key \in {"l", "ch"} => act \in Playing
        /\ r.key # "ok"

\* Careful peers, except that a player moves or leaves when it likes.
HastyRequest(cs, i, p, r) ==
    \/ CarefulRequest(cs, i, p, r)
    \/ r.key \in {"m", "l"} /\ cs[i].nick # NoNick

\* Names are only compared with each other, and so are addresses.
Symmetry == Permutations(Nicks) \cup Permutations(IPs)

=============================================================================
