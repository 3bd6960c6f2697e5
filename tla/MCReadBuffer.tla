----------------------------- MODULE MCReadBuffer -----------------------------
(* What the peer of the runs of module ReadBuffer may send: complete and     *)
(* unfinished requests, with and without data, newlines and Nuls.            *)
EXTENDS ReadBuffer

Leave == <<"l">>
Moves == {<<"m", a, b>> : a, b \in {"1", "2"}}
Requests == {Leave} \cup Moves

InBrackets(request) == <<"{">> \o request \o <<"}">>

\* An unfinished request, and bytes that mean something else to the server.
Items ==
    {InBrackets(Leave), InBrackets(<<"m", "1", "2">>), <<"{", "m", "2">>, <<NewLine>>, <<Nul>>}

\* Well formed messages of up to two requests.
WellFormed ==
    {FlattenSeq(items) : items \in UNION {[1..n -> {InBrackets(r) : r \in Requests}] : n \in 1..2}}

ThreeItems ==
    {FlattenSeq(items) : items \in UNION {[1..n -> Items] : n \in 0..3}}
===============================================================================
