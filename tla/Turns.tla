-------------------------------- MODULE Turns --------------------------------
(***************************************************************************)
(* What the threads of the server promise each other, without locks: the   *)
(* vector of clients is worked on by one of them at a time.  The main      *)
(* thread makes passes and, last, closes everything; the pinging thread    *)
(* makes rounds, also when everything is closed, but none when the program *)
(* is over.  Module Server is written with these turns as its steps;       *)
(* module Program shows that mutex, condition variable and join give them. *)
(***************************************************************************)

VARIABLES
    stage,  \* of the program
    turn    \* the set of what is being done to the vector of clients

Init == stage = "starting" /\ turn = {}

Serve == stage = "starting" /\ stage' = "serving" /\ UNCHANGED turn

Begin(what, stages) ==
    /\ stage \in stages /\ turn = {}
    /\ turn' = {what}
    /\ UNCHANGED stage

End(what) == turn = {what} /\ turn' = {} /\ UNCHANGED stage

EndClosing ==
    /\ stage = "serving" /\ turn = {"closing"}
    /\ stage' = "closed" /\ turn' = {}

\* The program ends before it serves, or when everything is closed.
Finish ==
    /\ stage \in {"starting", "closed"} /\ turn = {}
    /\ stage' = "over"
    /\ UNCHANGED turn

Next ==
    \/ Serve \/ Finish
    \/ Begin("pass", {"serving"}) \/ End("pass")
    \/ Begin("round", {"serving", "closed"}) \/ End("round")
    \/ Begin("closing", {"serving"}) \/ EndClosing

Spec == Init /\ [][Next]_<<stage, turn>>
==============================================================================
