------------------------------ MODULE Arguments ------------------------------
(***************************************************************************)
(* The command line of the server: parse_arguments, which walks over the   *)
(* words of argv in pairs of a flag and its value.                         *)
(*                                                                         *)
(* A word is represented by what the parser can find out about it, each    *)
(* part of the record answering one of its tests:                          *)
(*   flag   the letter after the '-' of a word of two characters that      *)
(*          begins with '-' ("other" for a letter that means nothing), or  *)
(*          "none";                                                        *)
(*   num    what std::stoi makes of it.  Text after the digits is ignored, *)
(*          so an address has a number too.  -1 when stoi throws;          *)
(*   addr   "plain" or "padded" when the regular expression of addresses   *)
(*          accepts it, where in a padded one some part begins with a      *)
(*          superfluous 0, as in 010.0.0.1; "none" otherwise.              *)
(***************************************************************************)
EXTENDS Integers, Sequences

CONSTANTS
    Words,      \* the words that may be given
    MaxArgs     \* bound of the model: how many words are given

Flag == {"a", "p", "c", "r"}

Word == [flag : Flag \cup {"h", "other", "none"}, num : Int,
         addr : {"plain", "padded", "none"}]

ASSUME WordsAssumption == Words \subseteq Word /\ MaxArgs \in Nat

VARIABLES
    argv,   \* the words after the name of the program
    next,   \* the counter of the loop
    rv,     \* 0 so far good, 1 help is asked for, -1 bad argument
    defs    \* the parameters of the server, by their flags

argVars == <<argv, next, rv, defs>>

\* The parameters of the server when none are given.
Defaults == [f \in Flag |-> CASE f = "a" -> "plain"
                              [] f = "p" -> 4567
                              [] f = "c" -> 10
                              [] f = "r" -> 5]

MinPort == 1024
MaxPort == 49151

\* Mutant of Ranges: the number of clients is one too many.
MutRanges == [p |-> MinPort..MaxPort, c |-> 2..21, r |-> 1..10]

\* The ranges of the parameters that are numbers.
Ranges == [p |-> MinPort..MaxPort, c |-> 2..20, r |-> 1..10]

ArgInit ==
    /\ argv \in UNION {[1..n -> Words] : n \in 0..MaxArgs}
    /\ next = 1 /\ rv = 0 /\ defs = Defaults

-----------------------------------------------------------------------------
\* handle_flag_string and handle_flag_int: may w be the value of flag f?
Accepts(f, w) ==
    \/ f = "a" /\ w.addr # "none"
    \/ f \in DOMAIN Ranges /\ w.num \in Ranges[f]

Value(f, w) == IF f = "a" THEN w.addr ELSE w.num

\* A flag, a word after it, and the word is a value of the flag.
GoodOption == next < Len(argv) /\ Accepts(argv[next].flag, argv[next + 1])

AsksForHelp == argv # <<>> /\ argv[1].flag = "h"

PrintHelp ==
    /\ rv = 0 /\ next = 1 /\ AsksForHelp
    /\ rv' = 1
    /\ UNCHANGED <<argv, next, defs>>

\* Mutant of TakeOption: the case of the clients runs on into the next one.
MutTakeOption ==
    /\ rv = 0 /\ next <= Len(argv) /\ ~AsksForHelp /\ GoodOption
    /\ defs' = [f \in Flag |->
           IF \/ f = argv[next].flag
              \/ f = "r" /\ argv[next].flag = "c" /\ Accepts(f, argv[next + 1])
           THEN Value(f, argv[next + 1]) ELSE defs[f]]
    /\ next' = next + 2
    /\ UNCHANGED <<argv, rv>>

\* One iteration of the loop: the option is taken ...
TakeOption ==
    /\ rv = 0 /\ next <= Len(argv) /\ ~AsksForHelp /\ GoodOption
    /\ defs' = [defs EXCEPT ![argv[next].flag] = Value(argv[next].flag, argv[next + 1])]
    /\ next' = next + 2
    /\ UNCHANGED <<argv, rv>>

\* ... or it is none, has no value or a bad one, and the rest is not read.
BadOption ==
    /\ rv = 0 /\ next <= Len(argv) /\ ~AsksForHelp /\ ~GoodOption
    /\ rv' = -1
    /\ UNCHANGED <<argv, next, defs>>

ParseArguments == PrintHelp \/ TakeOption \/ BadOption

\* parse_arguments has returned.
Parsed == rv # 0 \/ next > Len(argv)

-----------------------------------------------------------------------------
ArgTypeOK ==
    /\ argv \in Seq(Words) /\ next \in Nat /\ rv \in {-1, 0, 1}
    /\ DOMAIN defs = Flag

\* The options of flag f that were given.
Given(f) == {k \in 1..Len(argv) : k % 2 = 1 /\ argv[k].flag = f}

\* Every parameter the server may be started with has its default value, or
\* the value that was given last (handle_flag_string, handle_flag_int).
OptionsAsGiven ==
    Parsed /\ rv = 0 =>
        \A f \in Flag :
            IF Given(f) = {} THEN defs[f] = Defaults[f]
            ELSE \E k \in Given(f) : /\ \A j \in Given(f) : j <= k
                                     /\ f = "a" => defs[f] = argv[k + 1].addr
                                     /\ f # "a" => defs[f] = argv[k + 1].num

\* The server is started with numbers in the ranges the help states: the
\* capacity is positive, as module Server assumes (parse_arguments).
StartsInRanges ==
    Parsed /\ rv = 0 =>
        /\ defs["p"] \in MinPort..MaxPort
        /\ defs["c"] \in 2..20
        /\ defs["r"] \in 1..10
==============================================================================
