---------------------------- MODULE ProgramProofs ----------------------------
(***************************************************************************)
(* Proofs about module Program, for any words on the command line: what    *)
(* the parser accepts, and how the two threads take turns and end.         *)
(***************************************************************************)
EXTENDS Program, TLAPS

-----------------------------------------------------------------------------
(* The command line.                                                       *)

\* The value the last option of flag f before position n has given.
LastBefore(f, n) ==
    LET G == {k \in Given(f) : k < n}
    IN  IF G = {} THEN defs[f] = Defaults[f]
        ELSE \E k \in G : /\ \A j \in G : j <= k
                          /\ f = "a" => defs[f] = argv[k + 1].addr
                          /\ f # "a" => defs[f] = argv[k + 1].num

ParserInv ==
    /\ argv \in Seq(Words) /\ next \in Nat /\ next % 2 = 1
    /\ rv \in {-1, 0, 1}
    /\ DOMAIN defs = Flag
    /\ \A f \in DOMAIN Ranges : defs[f] \in Ranges[f]
    /\ \A f \in Flag : LastBefore(f, next)

LEMMA Numbers ==
    /\ DOMAIN Ranges = {"p", "c", "r"}
    /\ \A f \in DOMAIN Ranges : Defaults[f] \in Ranges[f]
    /\ DOMAIN Defaults = Flag
<1>1. DOMAIN Ranges = {"p", "c", "r"}
  BY DEF Ranges
<1>2. DOMAIN Defaults = Flag
  BY DEF Defaults
<1>3. ASSUME NEW f \in DOMAIN Ranges PROVE Defaults[f] \in Ranges[f]
  <2>1. f = "p" \/ f = "c" \/ f = "r"
    BY <1>1, <1>3
  <2>2. CASE f = "p"
    <3>1. Ranges[f] = MinPort..MaxPort /\ Defaults[f] = 4567
      BY <2>2 DEF Ranges, Defaults, Flag
    <3> QED BY <3>1 DEF MinPort, MaxPort
  <2>3. CASE f = "c"
    <3>1. Ranges[f] = 2..20 /\ Defaults[f] = 10
      BY <2>3 DEF Ranges, Defaults, Flag
    <3> QED BY <3>1
  <2>4. CASE f = "r"
    <3>1. Ranges[f] = 1..10 /\ Defaults[f] = 5
      BY <2>4 DEF Ranges, Defaults, Flag
    <3> QED BY <3>1
  <2> QED BY <2>1, <2>2, <2>3, <2>4
<1> QED BY <1>1, <1>2, <1>3

LEMMA InitParser == ASSUME Init PROVE ParserInv
<1>1. argv \in Seq(Words)
  <2>1. PICK n \in 0..MaxArgs : argv \in [1..n -> Words]
    BY DEF Init, ArgInit
  <2> QED BY <2>1, WordsAssumption
<1>2. /\ next = 1 /\ rv = 0 /\ defs = Defaults
  BY DEF Init, ArgInit
<1>3. ASSUME NEW f \in Flag PROVE LastBefore(f, next)
  <2>1. {k \in Given(f) : k < next} = {}
    BY <1>2 DEF Given
  <2> QED BY <1>2, <2>1 DEF LastBefore
<1>4. \A f \in DOMAIN Ranges : defs[f] \in Ranges[f]
  BY <1>2, Numbers
<1> QED BY <1>1, <1>2, <1>3, <1>4, Numbers DEF ParserInv

\* An option that is taken becomes the last one of its flag, and is not one of
\* the other flags.
LEMMA TakeOptionKeeps == ASSUME ParserInv, TakeOption PROVE ParserInv'
<1> DEFINE g == argv[next].flag
           w == argv[next + 1]
<1>1. /\ argv' = argv /\ rv' = rv /\ next' = next + 2
      /\ next \in Nat /\ next % 2 = 1 /\ next >= 1
      /\ next < Len(argv) /\ Len(argv) \in Nat
      /\ Accepts(g, w)
      /\ defs' = [defs EXCEPT ![g] = Value(g, w)]
  BY DEF TakeOption, GoodOption, ParserInv
<1>2. g \in Flag
  BY <1>1, Numbers DEF Accepts, Flag
<1>3. DOMAIN defs' = Flag /\ defs'[g] = Value(g, w)
  BY <1>1, <1>2 DEF ParserInv
<1>4. \A f \in Flag \ {g} : defs'[f] = defs[f]
  BY <1>1, <1>2 DEF ParserInv
<1>5. \A f \in DOMAIN Ranges : defs'[f] \in Ranges[f]
  <2> SUFFICES ASSUME NEW f \in DOMAIN Ranges PROVE defs'[f] \in Ranges[f]
    OBVIOUS
  <2>1. CASE f = g
    <3>1. f # "a" BY Numbers
    <3> QED BY <1>1, <1>3, <2>1, <3>1 DEF Accepts, Value
  <2>2. CASE f # g
    BY <1>4, <2>2, Numbers DEF Flag, ParserInv
  <2> QED BY <2>1, <2>2
<1>6. ASSUME NEW f \in Flag PROVE LastBefore(f, next)'
  <2> DEFINE G == {k \in Given(f) : k < next}
             H == {k \in Given(f) : k < next + 2}
  <2>1. Given(f)' = Given(f) /\ Given(f) \subseteq Nat
    BY <1>1 DEF Given
  <2>2. {k \in Given(f) : k < next}' = H
    BY <1>1, <2>1
  <2>3. \A k \in H : k < next \/ k = next
    BY <1>1 DEF Given
  <2>4. CASE f = g
    <3>1. next \in H
      BY <1>1, <2>4 DEF Given
    <3>2. \A j \in H : j <= next
      BY <1>1, <2>1, <2>3
    <3>3. /\ f = "a" => defs'[f] = argv[next + 1].addr
          /\ f # "a" => defs'[f] = argv[next + 1].num
      BY <1>3, <2>4 DEF Value
    <3> QED BY <1>1, <2>2, <3>1, <3>2, <3>3 DEF LastBefore
  <2>5. CASE f # g
    <3>1. H = G
      BY <1>1, <2>1, <2>3, <2>5 DEF Given
    <3>2. defs'[f] = defs[f]
      BY <1>4, <2>5
    <3>3. LastBefore(f, next)
      BY DEF ParserInv
    <3> QED BY <1>1, <2>2, <3>1, <3>2, <3>3 DEF LastBefore
  <2> QED BY <2>4, <2>5
<1>7. next' \in Nat /\ next' % 2 = 1
  BY <1>1
<1> QED BY <1>1, <1>3, <1>5, <1>6, <1>7 DEF ParserInv

LEMMA ParserStep == ASSUME ParserInv, [Next]_vars PROVE ParserInv'
<1>1. ASSUME UNCHANGED argVars PROVE ParserInv'
  BY <1>1 DEF argVars, ParserInv, LastBefore, Given
<1>2. CASE Parse
  <2>1. CASE PrintHelp
    BY <2>1 DEF PrintHelp, ParserInv, LastBefore, Given
  <2>2. CASE TakeOption
    BY <2>2, TakeOptionKeeps
  <2>3. CASE BadOption
    BY <2>3 DEF BadOption, ParserInv, LastBefore, Given
  <2> QED BY <1>2, <2>1, <2>2, <2>3 DEF Parse, ParseArguments
<1>3. Parse \/ UNCHANGED argVars
  BY DEF Next, vars, Main, Ping, Interrupt, Halted, AfterParsing, Setup, InitServer,
         StartRunning, CreatePingThread, TestRunning, SelectReturns, CheckActivity,
         LockMain, EndPass, CloseSockets, Notify, Join, PingTest, LockPing, Wait,
         WaitEnds, LeaveScope, InterruptKills, SignalHandler, SignalHandlerHangs
<1> QED BY <1>1, <1>2, <1>3

LEMMA ParserInvariant == Spec => []ParserInv
<1> QED BY InitParser, ParserStep, PTL DEF Spec

\* The server is started with numbers in the ranges of parse_arguments.
THEOREM StartedInRanges == Spec => []StartsInRanges
<1>1. ParserInv => StartsInRanges
  <2>1. /\ DOMAIN Ranges = {"p", "c", "r"}
        /\ Ranges["p"] = MinPort..MaxPort /\ Ranges["c"] = 2..20 /\ Ranges["r"] = 1..10
    BY DEF Ranges
  <2>2. SUFFICES ASSUME ParserInv PROVE StartsInRanges
    OBVIOUS
  <2>3. \A f \in DOMAIN Ranges : defs[f] \in Ranges[f]
    BY <2>2, Zenon DEF ParserInv
  <2>4. "p" \in DOMAIN Ranges /\ "c" \in DOMAIN Ranges /\ "r" \in DOMAIN Ranges
    BY <2>1
  <2>5. defs["p"] \in Ranges["p"] /\ defs["c"] \in Ranges["c"] /\ defs["r"] \in Ranges["r"]
    BY <2>3, <2>4, Zenon
  <2> QED BY <2>1, <2>5, Zenon DEF StartsInRanges
<1> QED BY <1>1, ParserInvariant, PTL

\* Every parameter has the value that was given last, or its default.
THEOREM OptionsAreTheLastGiven == Spec => []OptionsAsGiven
<1>1. ParserInv => OptionsAsGiven
  <2> SUFFICES ASSUME ParserInv, Parsed, rv = 0, NEW f \in Flag
               PROVE  IF Given(f) = {} THEN defs[f] = Defaults[f]
                      ELSE \E k \in Given(f) : /\ \A j \in Given(f) : j <= k
                                               /\ f = "a" => defs[f] = argv[k + 1].addr
                                               /\ f # "a" => defs[f] = argv[k + 1].num
    BY DEF OptionsAsGiven
  <2>1. next > Len(argv) /\ Len(argv) \in Nat /\ next \in Nat
    BY DEF Parsed, ParserInv
  <2>2. {k \in Given(f) : k < next} = Given(f)
    BY <2>1 DEF Given
  <2>3. LastBefore(f, next)
    BY DEF ParserInv
  <2> QED BY <2>2, <2>3 DEF LastBefore
<1> QED BY <1>1, ParserInvariant, PTL

-----------------------------------------------------------------------------
(* The threads.                                                            *)

\* The mutex is held exactly where the vector of clients is worked on, and
\* the pinging thread lives between its creation and the join.
ThreadInv ==
    /\ mainAt \in MainAt /\ pingAt \in PingAt
    /\ mutex = "main" <=> mainAt \in MainHolds
    /\ mutex = "ping" <=> pingAt \in PingHolds
    /\ mutex \in {"free", "main", "ping"}
    /\ mainAt \in Starting => pingAt = "none"
    /\ mainAt \in Ended => pingAt \in {"none", "done"}
    /\ pingAt = "none" => mainAt \in Starting \cup Ended

\* Why the loop was left, and what select said.
ReasonInv ==
    /\ isRunning \in BOOLEAN /\ crash \in BOOLEAN
    /\ activity \in {"ok", "error", "eintr"}
    /\ mainAt \in Starting => activity = "ok" /\ ~crash
    /\ activity = "eintr" => ~isRunning
    /\ mainAt \notin Starting \cup Ended /\ ~isRunning => asked = "running" \/ crash
    /\ mainAt \in {"lockDown", "shutdown", "notify", "join"} => ~isRunning
    /\ mainAt = "spawn" /\ ~isRunning => asked = "running"
    /\ crash => /\ activity = "error" /\ ~isRunning
                /\ mainAt \in {"lockDown", "shutdown", "notify", "join", "failed"}
    /\ pingAt = "done" /\ mainAt = "ended" => asked = "running"
    /\ pingAt = "done" /\ mainAt = "failed" => crash
    /\ asked \in {"never", "early", "running"} /\ hung \subseteq Threads

IInv == ThreadInv /\ ReasonInv

USE DEF Goto, PingGoto

LEMMA InitThreads == Init => IInv
BY DEF Init, IInv, ThreadInv, ReasonInv, MainAt, PingAt, Starting, NoHandler, Early,
       Ended, MainHolds, PingHolds

LEMMA MainKeeps == ASSUME IInv, Main PROVE IInv'
<1> USE DEF IInv, ThreadInv, ReasonInv, MainAt, PingAt, Starting, NoHandler, Early,
            Ended, MainHolds, PingHolds
<1>1. CASE Parse
  BY <1>1 DEF Parse, threadVars
<1>2. CASE AfterParsing
  BY <1>2 DEF AfterParsing
<1>3. CASE Setup
  BY <1>3 DEF Setup
<1>4. CASE InitServer
  BY <1>4 DEF InitServer
<1>5. CASE StartRunning
  BY <1>5 DEF StartRunning
<1>6. CASE CreatePingThread
  BY <1>6 DEF CreatePingThread
<1>7. CASE TestRunning
  BY <1>7 DEF TestRunning
<1>8. CASE SelectReturns
  BY <1>8 DEF SelectReturns
<1>9. CASE CheckActivity
  <2>1. CASE ~isRunning /\ Goto("check", "lockDown") /\ UNCHANGED <<crash, isRunning>>
    BY <1>9, <2>1 DEF CheckActivity
  <2>2. CASE /\ isRunning /\ activity # "ok" /\ Goto("check", "lockDown")
             /\ crash' = TRUE /\ isRunning' = FALSE
    <3>1. activity = "error"
      BY <2>2
    <3> QED BY <1>9, <2>2, <3>1 DEF CheckActivity
  <2>3. CASE /\ isRunning /\ activity = "ok" /\ Goto("check", "lock")
             /\ UNCHANGED <<crash, isRunning>>
    BY <1>9, <2>3 DEF CheckActivity
  <2> QED BY <1>9, <2>1, <2>2, <2>3 DEF CheckActivity
<1>10. CASE LockMain
  BY <1>10 DEF LockMain
<1>11. CASE EndPass
  BY <1>11 DEF EndPass
<1>12. CASE CloseSockets
  BY <1>12 DEF CloseSockets
<1>13. CASE Notify
  BY <1>13 DEF Notify
<1>14. CASE Join
  BY <1>14 DEF Join
<1> QED
  BY <1>1, <1>2, <1>3, <1>4, <1>5, <1>6, <1>7, <1>8, <1>9, <1>10, <1>11, <1>12, <1>13, <1>14
  DEF Main

LEMMA PingKeeps == ASSUME IInv, Ping PROVE IInv'
<1> USE DEF IInv, ThreadInv, ReasonInv, MainAt, PingAt, Starting, NoHandler, Early,
            Ended, MainHolds, PingHolds
<1>1. CASE PingTest
  BY <1>1 DEF PingTest
<1>2. CASE LockPing
  BY <1>2 DEF LockPing
<1>3. CASE Wait
  BY <1>3 DEF Wait
<1>4. CASE WaitEnds
  BY <1>4 DEF WaitEnds
<1>5. CASE LeaveScope
  BY <1>5 DEF LeaveScope
<1> QED BY <1>1, <1>2, <1>3, <1>4, <1>5 DEF Ping

LEMMA InterruptKeeps == ASSUME IInv, Interrupt PROVE IInv'
<1> USE DEF IInv, ThreadInv, ReasonInv, MainAt, PingAt, Starting, NoHandler, Early,
            Ended, MainHolds, PingHolds
<1>1. CASE InterruptKills
  BY <1>1 DEF InterruptKills
<1>2. ASSUME NEW t \in Threads, SignalHandler(t) PROVE IInv'
  BY <1>2 DEF SignalHandler, Alive
<1>3. ASSUME NEW t \in Threads, SignalHandlerHangs(t) PROVE IInv'
  BY <1>3 DEF SignalHandlerHangs
<1> QED BY <1>1, <1>2, <1>3 DEF Interrupt

LEMMA StepKeeps == ASSUME IInv, [Next]_vars PROVE IInv'
<1>1. CASE UNCHANGED vars
  BY <1>1 DEF vars, threadVars, IInv, ThreadInv, ReasonInv
<1> QED BY <1>1, MainKeeps, PingKeeps, InterruptKeeps DEF Next, Halted

LEMMA ThreadInvariant == Spec => []IInv
<1> QED BY InitThreads, StepKeeps, PTL DEF Spec

\* The variables keep their types.
THEOREM TypeCorrect == Spec => []TypeOK
<1>1. ParserInv /\ IInv => TypeOK
  BY DEF ParserInv, IInv, ThreadInv, ReasonInv, TypeOK, ArgTypeOK, Threads
<1> QED BY <1>1, ParserInvariant, ThreadInvariant, PTL

\* The pinging thread has been joined when the program ends.
THEOREM ThreadIsJoined == Spec => []NoThreadIsLeft
<1>1. IInv => NoThreadIsLeft
  BY DEF IInv, ThreadInv, NoThreadIsLeft
<1> QED BY <1>1, ThreadInvariant, PTL

\* The server ends with success when it was told to, with failure when select
\* failed.
THEOREM EndsForItsReason == Spec => []EndsForAReason
<1>1. IInv => EndsForAReason
  BY DEF IInv, ReasonInv, EndsForAReason
<1> QED BY <1>1, ThreadInvariant, PTL

-----------------------------------------------------------------------------
(* The threads take turns: Program implements Turns.                       *)

LEMMA InitTurns == Init => T!Init
<1> SUFFICES ASSUME Init PROVE T!Init
  OBVIOUS
<1>1. mainAt = "parse" /\ pingAt = "none"
  BY DEF Init
<1>2. Stage = "starting"
  BY <1>1 DEF Stage, Starting, NoHandler, Early, Ended
<1>3. Turn = {}
  BY <1>1 DEF Turn
<1> QED BY <1>2, <1>3 DEF T!Init

\* With the invariant, what is being done is nothing or one thing.
LEMMA TurnIs ==
    ASSUME ThreadInv
    PROVE  Turn = CASE mainAt = "pass" -> {"pass"}
                    [] mainAt \in {"shutdown", "notify"} -> {"closing"}
                    [] pingAt = "round" -> {"round"}
                    [] OTHER -> {}
<1>1. ~(mainAt \in MainHolds /\ pingAt = "round")
  BY DEF ThreadInv, MainHolds, PingHolds
<1>2. CASE mainAt = "pass"
  BY <1>1, <1>2 DEF Turn, MainHolds
<1>3. CASE mainAt \in {"shutdown", "notify"}
  BY <1>1, <1>3 DEF Turn, MainHolds
<1>4. CASE mainAt \notin MainHolds /\ pingAt = "round"
  BY <1>4 DEF Turn, MainHolds
<1>5. CASE mainAt \notin MainHolds /\ pingAt # "round"
  BY <1>5 DEF Turn, MainHolds
<1> QED BY <1>2, <1>3, <1>4, <1>5 DEF MainHolds

\* A step that keeps both program counters outside of the turns is a stutter.
LEMMA MainTurns ==
    ASSUME IInv, IInv', Main
    PROVE  T!Next \/ UNCHANGED <<Stage, Turn>>
<1> USE DEF Starting, NoHandler, Early, Ended, MainHolds, PingHolds
<1>1. Turn = CASE mainAt = "pass" -> {"pass"}
               [] mainAt \in {"shutdown", "notify"} -> {"closing"}
               [] pingAt = "round" -> {"round"}
               [] OTHER -> {}
  BY TurnIs DEF IInv
<1>2. Turn' = CASE mainAt' = "pass" -> {"pass"}
                [] mainAt' \in {"shutdown", "notify"} -> {"closing"}
                [] pingAt' = "round" -> {"round"}
                [] OTHER -> {}
  <2>1. ThreadInv'
    BY DEF IInv
  <2>2. \/ mainAt' = "pass" \/ mainAt' \in {"shutdown", "notify"}
        \/ mainAt' \notin MainHolds
    OBVIOUS
  <2> QED BY <2>1, <2>2 DEF Turn, ThreadInv
<1> USE <1>1, <1>2 DEF Stage
<1>3. CASE Parse \/ AfterParsing \/ Setup \/ InitServer
  BY <1>3 DEF Parse, threadVars, AfterParsing, Setup, InitServer, IInv, ThreadInv, T!Next, T!Finish
<1>4. CASE StartRunning \/ CreatePingThread
  BY <1>4 DEF StartRunning, CreatePingThread, IInv, ThreadInv, T!Next, T!Finish, T!Serve
<1>5. CASE TestRunning \/ SelectReturns \/ CheckActivity
  BY <1>5 DEF TestRunning, SelectReturns, CheckActivity
<1>6. CASE LockMain
  BY <1>6 DEF LockMain, IInv, ThreadInv, T!Next, T!Begin
<1>7. CASE EndPass
  BY <1>7 DEF EndPass, IInv, ThreadInv, T!Next, T!End
<1>8. CASE CloseSockets
  BY <1>8 DEF CloseSockets
<1>9. CASE Notify
  BY <1>9 DEF Notify, IInv, ThreadInv, T!Next, T!EndClosing
<1>10. CASE Join
  BY <1>10 DEF Join, T!Next, T!Finish
<1> QED BY <1>3, <1>4, <1>5, <1>6, <1>7, <1>8, <1>9, <1>10 DEF Main

LEMMA OtherTurns ==
    ASSUME IInv, IInv', Ping \/ Interrupt \/ UNCHANGED vars
    PROVE  T!Next \/ UNCHANGED <<Stage, Turn>>
<1> USE DEF Starting, NoHandler, Early, Ended, MainHolds, PingHolds
<1>1. CASE Ping
  <2> USE DEF Stage, Turn
  <2>1. CASE PingTest \/ WaitEnds \/ LeaveScope
    BY <2>1 DEF PingTest, WaitEnds, LeaveScope
  <2>2. CASE LockPing
    BY <2>2 DEF LockPing, IInv, ThreadInv, MainAt, T!Next, T!Begin
  <2>3. CASE Wait
    BY <2>3 DEF Wait, IInv, ThreadInv, T!Next, T!End
  <2> QED BY <1>1, <2>1, <2>2, <2>3 DEF Ping
<1>2. CASE Interrupt
  <2>1. CASE InterruptKills
    BY <2>1 DEF InterruptKills, IInv, ThreadInv, Stage, Turn, T!Next, T!Finish
  <2>2. ASSUME NEW t \in Threads, SignalHandler(t) PROVE UNCHANGED <<Stage, Turn>>
    BY <2>2 DEF SignalHandler, Stage, Turn
  <2>3. ASSUME NEW t \in Threads, SignalHandlerHangs(t) PROVE UNCHANGED <<Stage, Turn>>
    BY <2>3 DEF SignalHandlerHangs, Stage, Turn
  <2> QED BY <1>2, <2>1, <2>2, <2>3 DEF Interrupt
<1>3. CASE UNCHANGED vars
  BY <1>3 DEF vars, threadVars, Stage, Turn
<1> QED BY <1>1, <1>2, <1>3

\* Passes, rounds and the closing exclude each other, and come in the order of
\* module Turns.
THEOREM ThreadsTakeTurns == Spec => TakesTurns
<1>1. ASSUME IInv, IInv', [Next]_vars PROVE [T!Next]_<<Stage, Turn>>
  BY <1>1, MainTurns, OtherTurns DEF Next, Halted
<1>2. QED
  BY <1>1, InitTurns, ThreadInvariant, PTL DEF Spec, TakesTurns, T!Spec
==============================================================================
