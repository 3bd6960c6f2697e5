------------------------------- MODULE Program -------------------------------
(***************************************************************************)
(* The life of the process: main, server_setup, Server::init, Server::run  *)
(* with its pinging thread, and the handler of SIGINT.  What a pass over   *)
(* the clients or a ping round does is in module Server; here they are     *)
(* stretches of control that need the mutex.                               *)
(*                                                                         *)
(* One step is one access to what the threads share: isRunning, the mutex, *)
(* the condition variable, the end of the other thread.  The handler may   *)
(* run in either thread between any two steps.  It logs before it clears   *)
(* isRunning; when the thread it interrupts is inside the logger itself,   *)
(* the second call may never return (it waits for a lock its own thread    *)
(* holds): the thread is then "hung".                                      *)
(***************************************************************************)
EXTENDS Arguments

VARIABLES
    mainAt,     \* where the main thread is
    pingAt,     \* where the pinging thread is
    mutex,      \* Server::mtx: "free" or the thread that holds it
    isRunning,
    activity,   \* run: what select answered: "ok", "error" or "eintr"
    crash,      \* run: select failed
    asked,      \* was SIGINT handled: "never", "early" (before run set
                \* isRunning) or "running"
    hung        \* threads that do not return from the handler

threadVars == <<mainAt, pingAt, mutex, isRunning, activity, crash, asked, hung>>
vars == <<argVars, threadVars>>

Threads == {"main", "ping"}

\* Before std::signal; before isRunning is set; before there are two threads.
NoHandler == {"parse", "setup"}
Early     == {"init", "start"}
Starting  == NoHandler \cup Early \cup {"spawn"}
Ended     == {"ended", "failed", "killed"}

\* Where the threads work on the vector of clients.
MainHolds == {"pass", "shutdown", "notify"}
PingHolds == {"round", "leave"}

MainAt == Starting \cup Ended \cup MainHolds
              \cup {"loop", "test", "select", "check", "lock", "lockDown", "join"}
PingAt == {"none", "test", "lock", "waiting", "reacquire", "done"} \cup PingHolds

Init ==
    /\ ArgInit
    /\ mainAt = "parse" /\ pingAt = "none" /\ mutex = "free"
    /\ isRunning = FALSE /\ activity = "ok" /\ crash = FALSE
    /\ asked = "never" /\ hung = {}

Goto(from, to) == mainAt = from /\ mainAt' = to

-----------------------------------------------------------------------------
(* main and server_setup.                                                  *)

Parse ==
    /\ mainAt = "parse" /\ ParseArguments
    /\ UNCHANGED threadVars

\* Help and bad arguments end the program; its exit value is that of success.
AfterParsing ==
    /\ Parsed
    /\ Goto("parse", IF rv = 0 THEN "setup" ELSE "ended")
    /\ UNCHANGED <<argVars, pingAt, mutex, isRunning, activity, crash, asked, hung>>

Setup ==
    /\ Goto("setup", "init")
    /\ UNCHANGED <<argVars, pingAt, mutex, isRunning, activity, crash, asked, hung>>

\* inet_pton does not know a padded address.  Everything else the kernel may
\* refuse (socket, bind, listen).
InitServer ==
    /\ \/ Goto("init", "start") /\ defs["a"] # "padded"
       \/ Goto("init", "failed")
    /\ UNCHANGED <<argVars, pingAt, mutex, isRunning, activity, crash, asked, hung>>

-----------------------------------------------------------------------------
(* Server::run.                                                            *)

StartRunning ==
    /\ Goto("start", "spawn")
    /\ isRunning' = TRUE
    /\ UNCHANGED <<argVars, pingAt, mutex, activity, crash, asked, hung>>

\* The constructor of std::thread throws when there is no thread to be had.
CreatePingThread ==
    /\ \/ Goto("spawn", "loop") /\ pingAt' = "test"
       \/ Goto("spawn", "failed") /\ UNCHANGED pingAt
    /\ UNCHANGED <<argVars, mutex, isRunning, activity, crash, asked, hung>>

\* The condition of the loop, and the one before select.
TestRunning ==
    /\ \/ Goto("loop", IF isRunning THEN "test" ELSE "lockDown")
       \/ Goto("test", IF isRunning THEN "select" ELSE "check")
    /\ UNCHANGED <<argVars, pingAt, mutex, isRunning, activity, crash, asked, hung>>

\* Activity, the timeout of nine seconds, or an error.
SelectReturns ==
    /\ Goto("select", "check")
    /\ activity' \in {"ok", "error"}
    /\ UNCHANGED <<argVars, pingAt, mutex, isRunning, crash, asked, hung>>

\* Mutant of CheckActivity: the error is looked at first.
MutCheckActivity ==
    /\ \/ activity # "ok" /\ Goto("check", "lockDown") /\ crash' = TRUE /\ isRunning' = FALSE
       \/ activity = "ok" /\ ~isRunning /\ Goto("check", "lockDown") /\ UNCHANGED <<crash, isRunning>>
       \/ activity = "ok" /\ isRunning /\ Goto("check", "lock") /\ UNCHANGED <<crash, isRunning>>
    /\ UNCHANGED <<argVars, pingAt, mutex, activity, asked, hung>>

CheckActivity ==
    /\ \/ ~isRunning /\ Goto("check", "lockDown") /\ UNCHANGED <<crash, isRunning>>
       \/ isRunning /\ activity # "ok" /\ Goto("check", "lockDown")
                    /\ crash' = TRUE /\ isRunning' = FALSE
       \/ isRunning /\ activity = "ok" /\ Goto("check", "lock") /\ UNCHANGED <<crash, isRunning>>
    /\ UNCHANGED <<argVars, pingAt, mutex, activity, asked, hung>>

\* Mutant of LockMain: the main thread does not wait for the mutex to shut down.
MutLockMain ==
    /\ \/ mutex = "free" /\ Goto("lock", "pass") /\ mutex' = "main"
       \/ Goto("lockDown", "shutdown") /\ UNCHANGED mutex
    /\ UNCHANGED <<argVars, pingAt, isRunning, activity, crash, asked, hung>>

LockMain ==
    /\ mutex = "free" /\ mutex' = "main"
    /\ Goto("lock", "pass") \/ Goto("lockDown", "shutdown")
    /\ UNCHANGED <<argVars, pingAt, isRunning, activity, crash, asked, hung>>

EndPass ==
    /\ Goto("pass", "loop")
    /\ mutex' = "free"
    /\ UNCHANGED <<argVars, pingAt, isRunning, activity, crash, asked, hung>>

CloseSockets ==
    /\ Goto("shutdown", "notify")
    /\ UNCHANGED <<argVars, pingAt, mutex, isRunning, activity, crash, asked, hung>>

\* notify_one wakes the thread if it is waiting now, and only then.
Notify ==
    /\ Goto("notify", "join")
    /\ pingAt' = IF pingAt = "waiting" THEN "reacquire" ELSE pingAt
    /\ mutex' = "free"
    /\ UNCHANGED <<argVars, isRunning, activity, crash, asked, hung>>

\* Mutant of Join: after an error of select nobody waits for the thread.
MutJoin ==
    /\ \/ pingAt = "done" /\ Goto("join", IF crash THEN "failed" ELSE "ended")
       \/ crash /\ Goto("join", "failed")
    /\ UNCHANGED <<argVars, pingAt, mutex, isRunning, activity, crash, asked, hung>>

\* After the join the error of select is thrown; otherwise main returns.
Join ==
    /\ pingAt = "done"
    /\ Goto("join", IF crash THEN "failed" ELSE "ended")
    /\ UNCHANGED <<argVars, pingAt, mutex, isRunning, activity, crash, asked, hung>>

-----------------------------------------------------------------------------
(* The pinging thread.                                                     *)

PingGoto(from, to) == pingAt = from /\ pingAt' = to

PingTest ==
    /\ PingGoto("test", IF isRunning THEN "lock" ELSE "done")
    /\ UNCHANGED <<argVars, mainAt, mutex, isRunning, activity, crash, asked, hung>>

\* The mutex is taken for a round, and again at the end of the wait.
LockPing ==
    /\ mutex = "free" /\ mutex' = "ping"
    /\ PingGoto("lock", "round") \/ PingGoto("reacquire", "leave")
    /\ UNCHANGED <<argVars, mainAt, isRunning, activity, crash, asked, hung>>

\* The round is over; to begin to wait and to give up the mutex is one step.
Wait ==
    /\ PingGoto("round", "waiting")
    /\ mutex' = "free"
    /\ UNCHANGED <<argVars, mainAt, isRunning, activity, crash, asked, hung>>

\* Mutant of WaitEnds: the wait has no time limit.
MutWaitEnds == FALSE /\ UNCHANGED vars

\* The period of ten seconds is over, or the wait ends without a reason.
WaitEnds ==
    /\ PingGoto("waiting", "reacquire")
    /\ UNCHANGED <<argVars, mainAt, mutex, isRunning, activity, crash, asked, hung>>

LeaveScope ==
    /\ PingGoto("leave", "test")
    /\ mutex' = "free"
    /\ UNCHANGED <<argVars, mainAt, isRunning, activity, crash, asked, hung>>

-----------------------------------------------------------------------------
(* SIGINT.                                                                 *)

Alive(t) == IF t = "main" THEN mainAt \notin Ended ELSE pingAt \notin {"none", "done"}

\* Where a thread may be inside the logger.
Logging(t) ==
    IF t = "main" THEN mainAt \in {"init", "start", "pass", "shutdown", "notify"}
                  ELSE pingAt = "round"

InterruptKills ==
    /\ mainAt \in NoHandler /\ mainAt' = "killed"
    /\ UNCHANGED <<argVars, pingAt, mutex, isRunning, activity, crash, asked, hung>>

\* select of the main thread is only interrupted when the handler runs there.
SignalHandler(t) ==
    /\ mainAt \notin NoHandler \cup Ended /\ Alive(t) /\ t \notin hung
    /\ isRunning' = FALSE
    /\ asked' = IF mainAt \in Early /\ asked = "never" THEN "early"
                ELSE IF mainAt \in Early THEN asked ELSE "running"
    /\ IF t = "main" /\ mainAt = "select"
       THEN mainAt' = "check" /\ activity' = "eintr"
       ELSE UNCHANGED <<mainAt, activity>>
    /\ UNCHANGED <<argVars, pingAt, mutex, crash, hung>>

SignalHandlerHangs(t) ==
    /\ mainAt \notin NoHandler \cup Ended /\ Alive(t) /\ t \notin hung /\ Logging(t)
    /\ hung' = hung \cup {t}
    /\ UNCHANGED <<argVars, mainAt, pingAt, mutex, isRunning, activity, crash, asked>>

-----------------------------------------------------------------------------
Main ==
    /\ "main" \notin hung
    /\ \/ Parse \/ AfterParsing \/ Setup \/ InitServer
       \/ StartRunning \/ CreatePingThread \/ TestRunning \/ SelectReturns
       \/ CheckActivity \/ LockMain \/ EndPass \/ CloseSockets \/ Notify \/ Join

Ping ==
    /\ "ping" \notin hung
    /\ PingTest \/ LockPing \/ Wait \/ WaitEnds \/ LeaveScope

Interrupt ==
    InterruptKills \/ \E t \in Threads : SignalHandler(t) \/ SignalHandlerHangs(t)

Halted == (mainAt \in Ended \/ hung # {}) /\ UNCHANGED vars

Next == Main \/ Ping \/ Interrupt \/ Halted

Spec == Init /\ [][Next]_vars

\* Both threads are scheduled; select and the wait have time limits.
FairSpec == Spec /\ WF_vars(Main) /\ WF_vars(Ping)

-----------------------------------------------------------------------------
TypeOK ==
    /\ ArgTypeOK
    /\ mainAt \in MainAt /\ pingAt \in PingAt
    /\ mutex \in {"free"} \cup Threads
    /\ isRunning \in BOOLEAN /\ crash \in BOOLEAN
    /\ activity \in {"ok", "error", "eintr"}
    /\ asked \in {"never", "early", "running"}
    /\ hung \subseteq Threads

\* The program ends when its pinging thread has ended: a std::thread that is
\* destroyed before it is joined would abort the process (run, server_run).
NoThreadIsLeft == mainAt \in Ended => pingAt \in {"none", "done"}

\* A server that ran ends with success only because it was told to, and with
\* failure only because select failed: SIGINT, which also makes select fail,
\* is not taken for a crash (run).
EndsForAReason ==
    pingAt = "done" =>
        /\ mainAt = "ended" => asked = "running"
        /\ mainAt = "failed" => activity = "error"

\* The threads take turns on the vector of clients, everything is closed after
\* the last pass, and no round is made when the program is over: the mutex,
\* the condition variable and the join implement the turns of module Turns.
Stage ==
    CASE mainAt \in Starting -> "starting"
      [] mainAt \in Ended    -> "over"
      [] mainAt = "join"     -> "closed"
      [] OTHER               -> "serving"

Turn ==
    {what \in {"pass", "closing", "round"} :
        \/ what = "pass" /\ mainAt = "pass"
        \/ what = "closing" /\ mainAt \in {"shutdown", "notify"}
        \/ what = "round" /\ pingAt = "round"}

T == INSTANCE Turns WITH stage <- Stage, turn <- Turn

TakesTurns == T!Spec

\* A server that is told to stop while it runs, or whose select fails, ends;
\* unless the handler hangs.  No notification is needed for that: a thread
\* that misses it is woken by the end of its period (run, pingClients).
ServerEnds == asked = "running" \/ crash ~> mainAt \in Ended \/ hung # {}

\* SIGINT stops the server once its handler is installed (server_setup, run).
InterruptStopsServer == asked # "never" ~> mainAt \in Ended \/ hung # {}
==============================================================================
