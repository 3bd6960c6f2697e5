------------------------------ MODULE ReadBuffer ------------------------------
(***************************************************************************)
(* How the bytes of one connection become requests: the readable socket in *)
(* updateClients, readClient with its two buffers, the check of the format *)
(* and the parser.  Bytes arrive from the network at any time, also while  *)
(* readClient loops.                                                       *)
(*                                                                         *)
(* A request is what the format admits between two brackets: a key alone,  *)
(* as in {l}, or a key with its data, as in {m:07050710}.                  *)
(***************************************************************************)
EXTENDS Integers, Sequences, SequencesExt

CONSTANTS
    Data,       \* the bytes a request is made of
    Contents,   \* the requests: what the format admits between brackets
    Streams,    \* what the peer may send: sequences of bytes
    SizeBuff,   \* SIZE_BUFF: size of the class buffer and the step buffer
    LongestMsg  \* LONGEST_MSG

Nul == "nul"
NewLine == "newline"
Special == {"{", "}", Nul, NewLine}
Byte == Data \cup Special

ASSUME SizesAssumption ==
    SizeBuff \in Nat /\ LongestMsg \in Nat /\ LongestMsg + 1 < SizeBuff
ASSUME StreamsAssumption == Streams \subseteq Seq(Byte)
ASSUME DataAssumption == Data \cap Special = {}
ASSUME ContentsAssumption == Contents \subseteq Seq(Data)

VARIABLES
    stream,     \* all the peer sends
    arrived,    \* how much of it is in the socket or was
    fin,        \* has the peer closed its side?
    taken,      \* how much of it was received
    at,         \* where the server is
    buffer,     \* the class buffer
    total,      \* received_total
    start,      \* taken, when this reading began
    receives,   \* receives in this reading
    served,     \* requests handed to ClientManager
    closed,     \* why the connection was closed, "no" if it was not
    mixed       \* history: has a reading received more than once?

vars == <<stream, arrived, fin, taken, at, buffer, total, start, receives, served, closed, mixed>>

\* Mutant of SizeRecv: no place is left for the terminating Nul.
MutSizeRecv == SizeBuff

SizeRecv == SizeBuff - 1

Threshold == SizeRecv - LongestMsg

Clear == [i \in 1..SizeBuff |-> Nul]

Init ==
    /\ stream \in Streams /\ arrived = 0 /\ fin = FALSE
    /\ taken = 0 /\ at = "select" /\ buffer = Clear /\ total = 0
    /\ start = 0 /\ receives = 0
    /\ served = <<>> /\ closed = "no" /\ mixed = FALSE

-----------------------------------------------------------------------------
(* The peer and the network.                                               *)

Arrive ==
    /\ ~fin /\ closed = "no"
    /\ arrived' \in arrived + 1 .. Len(stream)
    /\ UNCHANGED <<stream, fin, taken, at, buffer, total, start, receives, served, closed, mixed>>

PeerCloses ==
    /\ ~fin /\ closed = "no" /\ fin' = TRUE
    /\ UNCHANGED <<stream, arrived, taken, at, buffer, total, start, receives, served, closed, mixed>>

-----------------------------------------------------------------------------
(* The server.                                                             *)

\* What FIONREAD answers.
InSocket == arrived - taken

\* Bytes as a C string, which ends before the first Nul.
CString(bytes) ==
    LET ends == {i \in DOMAIN bytes : bytes[i] = Nul}
    IN  SubSeq(bytes, 1, IF ends = {} THEN Len(bytes) ELSE Min(ends) - 1)

\* What insertToBuffer copies of a string, one byte after another.
Copied(str) ==
    LET copied[i \in 0..Len(str)] ==
            IF i = 0 THEN <<>>
            ELSE IF str[i] = NewLine THEN copied[i - 1]
            ELSE Append(copied[i - 1], str[i])
    IN  copied[Len(str)]

\* The text of the bytes one receive has brought.
Text(bytes) == Copied(CString(bytes))

\* Mutant of InsertToBuffer: the last byte is not copied.
MutInsertToBuffer(text) ==
    [i \in 1..SizeBuff |-> IF i < Len(text) THEN text[i] ELSE buffer[i]]

\* It is copied to the start of the buffer; what is behind it stays.
InsertToBuffer(text) ==
    [i \in 1..SizeBuff |-> IF i \in DOMAIN text THEN text[i] ELSE buffer[i]]

\* Mutant of Logout: the peer has closed, so nothing more is read.
MutLogout ==
    /\ at = "select" /\ closed = "no" /\ fin
    /\ closed' = "logout"
    /\ UNCHANGED <<stream, arrived, fin, taken, at, buffer, total, start, receives, served, mixed>>

\* The socket is readable and there is nothing to read.
Logout ==
    /\ at = "select" /\ closed = "no" /\ fin /\ InSocket = 0
    /\ closed' = "logout"
    /\ UNCHANGED <<stream, arrived, fin, taken, at, buffer, total, start, receives, served, mixed>>

\* Mutant of BeginReading: only the first byte is cleared.
MutClearsFirstByte ==
    /\ at = "select" /\ closed = "no" /\ InSocket > 0
    /\ at' = "enquire" /\ buffer' = [buffer EXCEPT ![1] = Nul] /\ total' = 0
    /\ start' = taken /\ receives' = 0
    /\ UNCHANGED <<stream, arrived, fin, taken, served, closed, mixed>>

\* Mutant of BeginReading: the class buffer is not cleared.
MutBeginReading ==
    /\ at = "select" /\ closed = "no" /\ InSocket > 0
    /\ at' = "enquire" /\ total' = 0
    /\ start' = taken /\ receives' = 0
    /\ UNCHANGED <<stream, arrived, fin, taken, buffer, served, closed, mixed>>

BeginReading ==
    /\ at = "select" /\ closed = "no" /\ InSocket > 0
    /\ at' = "enquire" /\ buffer' = Clear /\ total' = 0
    /\ start' = taken /\ receives' = 0
    /\ UNCHANGED <<stream, arrived, fin, taken, served, closed, mixed>>

\* The loop goes on while FIONREAD finds something.
Enquire ==
    /\ at = "enquire"
    /\ at' = IF InSocket > 0 THEN "receive" ELSE "serve"
    /\ UNCHANGED <<stream, arrived, fin, taken, buffer, total, start, receives, served, closed, mixed>>

\* Mutant of Flooding: the threshold itself is too much.
MutFlooding(n) == n >= Threshold

Flooding(n) == n > Threshold

\* recv takes what is there now, which may be more than FIONREAD found.  At
\* the threshold the bytes are taken, and neither counted nor kept.
Receive ==
    LET n    == IF InSocket < SizeRecv THEN InSocket ELSE SizeRecv
        step == SubSeq(stream, taken + 1, taken + n)
    IN  /\ at = "receive"
        /\ taken' = taken + n /\ receives' = receives + 1
        /\ IF total < Threshold
           THEN total' = total + n /\ buffer' = InsertToBuffer(Text(step))
           ELSE UNCHANGED <<total, buffer>>
        /\ IF Flooding(total')
           THEN closed' = "flooding" /\ at' = "select"
           ELSE closed' = closed /\ at' = "enquire"
        /\ mixed' = (mixed \/ receives > 0)
        /\ UNCHANGED <<stream, arrived, fin, start, served>>

ReceiveFails ==
    /\ at = "receive"
    /\ closed' = "failed" /\ at' = "select"
    /\ UNCHANGED <<stream, arrived, fin, taken, buffer, total, start, receives, served, mixed>>

\* The class buffer, read as a C string.
Message == CString(buffer)

\* One request in brackets after another, and at least one.
IsValidFormat(msg) ==
    /\ msg # <<>> /\ msg[1] = "{"
    /\ \A i \in DOMAIN msg : msg[i] = "{" =>
           \E j \in i + 1 .. Len(msg) : msg[j] = "}" /\ SubSeq(msg, i + 1, j - 1) \in Contents
    /\ \A i \in DOMAIN msg : msg[i] = "}" /\ i < Len(msg) => msg[i + 1] = "{"

\* The requests found so far, and what was read since the last bracket.
ParseByte(p, b) ==
    CASE b = "{" -> [p EXCEPT !.open = <<>>]
      [] b = "}" -> [done |-> Append(p.done, p.open), open |-> <<>>]
      [] OTHER   -> [p EXCEPT !.open = Append(p.open, b)]

\* What is in the brackets, one after another.
ParseMsg(msg) ==
    LET parsed[i \in 0..Len(msg)] ==
            IF i = 0 THEN [done |-> <<>>, open |-> <<>>] ELSE ParseByte(parsed[i - 1], msg[i])
    IN  parsed[Len(msg)].done

ServeClient ==
    /\ at = "serve" /\ at' = "select"
    /\ IF IsValidFormat(Message)
       THEN served' = served \o ParseMsg(Message) /\ closed' = closed
       ELSE closed' = "kicked" /\ served' = served
    /\ UNCHANGED <<stream, arrived, fin, taken, buffer, total, start, receives, mixed>>

Closed == closed # "no" /\ UNCHANGED vars

Read == BeginReading \/ Enquire \/ Receive \/ ReceiveFails \/ ServeClient \/ Logout

Next == Arrive \/ PeerCloses \/ Read \/ Closed

Spec == Init /\ [][Next]_vars

-----------------------------------------------------------------------------
TypeOK ==
    /\ stream \in Streams
    /\ arrived \in 0..Len(stream) /\ taken \in 0..arrived /\ start \in 0..taken
    /\ fin \in BOOLEAN
    /\ at \in {"select", "enquire", "receive", "serve"}
    /\ buffer \in [1..SizeBuff -> Byte]
    /\ total \in Nat /\ receives \in Nat
    /\ served \in Seq(Seq(Byte)) /\ mixed \in BOOLEAN
    /\ closed \in {"no", "logout", "flooding", "failed", "kicked"}

\* The buffer always ends with a Nul, however much arrives at once: it can be
\* read as a string (SIZE_RECV, readClient).
BufferIsTerminated == buffer[SizeBuff] = Nul

Count(s, x) == Cardinality({i \in DOMAIN s : s[i] = x})

\* What is checked and parsed is made of the bytes of this reading, and of each
\* of them once: nothing of an earlier reading, or of another connection, is in
\* the buffer any more (clearBuffer).  Their order may be another one, see
\* ServedWasSent.
MessageIsOfOneReading ==
    at = "serve" =>
        \A x \in Byte \ {Nul} :
            Count(Message, x) <= Count(SubSeq(stream, start + 1, taken), x)

\* What one receive brings is what is checked and parsed (insertToBuffer).
OneReceiveIsExact ==
    at = "serve" /\ receives = 1 =>
        Message = Text(SubSeq(stream, start + 1, taken))

\* The requests among the first n bytes that are sent.
Asked(n) == ParseMsg(Copied(SubSeq(stream, 1, n)))

HasNoNul(n) == \A i \in 1..n : stream[i] # Nul

\* While every reading was done with one receive, however many messages that
\* brought and wherever the stream was cut: the requests served are those sent,
\* in their order, none lost, repeated or made up (readClient, serveClient);
\* a Nul would end the string and hide what came behind it.
ServedInOrder ==
    at = "select" /\ closed = "no" /\ ~mixed /\ HasNoNul(taken) => served = Asked(taken)

\* A peer that says its last word and closes is heard: when the connection is
\* closed as a logout, everything that has arrived was served (updateClients).
LastWordIsServed ==
    closed = "logout" /\ ~mixed /\ HasNoNul(arrived) => served = Asked(arrived)

\* A connection is only closed for flooding when more than the threshold came
\* in one reading (readClient).
OnlyFloodersAreClosed == closed = "flooding" => taken - start > Threshold

\* However a message is cut on its way, a request that is served is one that
\* the peer sends (readClient).
ServedWasSent ==
    \A k \in DOMAIN served :
        \E j \in DOMAIN Asked(Len(stream)) : served[k] = Asked(Len(stream))[j]
===============================================================================
