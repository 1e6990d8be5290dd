------------------------------- MODULE Frames -------------------------------
(* The framing of the isolation boundary (packages/isolation/src/frames.ts,  *)
(* channel.ts): a message is cut into numbered frames of one size, one line  *)
(* each; the transport delivers the bytes in chunks of any length, and the   *)
(* receiver puts lines and messages together again. A line is as many units  *)
(* as FrameSize says; the newline comes with the last.                       *)
EXTENDS Integers, Sequences, FiniteSets, SequencesExt

CONSTANTS
    FrameSize,          \* units of a line
    MaxChunks,          \* bound: frames of a message
    MaxMessages,        \* bound: messages sent
    MaxFaults           \* bound: lines of a peer that breaks the protocol

ASSUME FramesAssumption ==
    {FrameSize, MaxChunks} \subseteq Nat \ {0} /\ {MaxMessages, MaxFaults} \subseteq Nat

VARIABLES
    sent,               \* number of frames of each message sent
    faults,             \* lines sent outside the protocol
    wire,               \* units on their way
    buffer,             \* units of an incomplete line
    partial,            \* the incomplete message
    lines,              \* frames the receiver has been given
    got,                \* messages delivered: [id, n, upTo], upTo of lines
    connection          \* "open" or "failed"

frmVars == <<sent, faults, wire, buffer, partial, lines, got, connection>>

Nothing == [id |-> 0, n |-> 0, next |-> 0]

\* The units of a line; an oversized line has its newline too late.
LineOf(frame, size) == [u \in 1..size |-> [frame |-> frame, size |-> size, ends |-> u = size]]

EncodeFrames(id, n) ==
    FoldLeft(LAMBDA units, q : units \o LineOf([id |-> id, n |-> n, q |-> q], FrameSize),
             <<>>, [q \in 1..n |-> q - 1])

\* The frames of a message are written in one burst.
WriteMessage(n) ==
    /\ Len(sent) < MaxMessages
    /\ sent' = Append(sent, n)
    /\ wire' = wire \o EncodeFrames(Len(sent) + 1, n)
    /\ UNCHANGED <<faults, buffer, partial, lines, got, connection>>

\* A peer that is broken writes any frame, or a line that is too long.
WriteFault(frame, size) ==
    /\ faults < MaxFaults
    /\ faults' = faults + 1
    /\ wire' = wire \o LineOf(frame, size)
    /\ UNCHANGED <<sent, buffer, partial, lines, got, connection>>

\* Mutant: only the number of the chunk is compared.
FollowsByNumber(frame, part) == frame.n = part.n /\ frame.q = part.next

\* The next frame of the message that is being put together.
Follows(frame, part) == frame.id = part.id /\ frame.n = part.n /\ frame.q = part.next

\* One line of the stream. A frame that does not fit ends the connection and
\* the partial message; lines that come later are read all the same.
AcceptLine(state, frame) ==
    LET part == IF state.partial = Nothing /\ frame.q = 0
                THEN [id |-> frame.id, n |-> frame.n, next |-> 0] ELSE state.partial
        line == [state EXCEPT !.lines = Append(@, frame)]
    IN  IF ~Follows(frame, part)
        THEN [line EXCEPT !.partial = Nothing, !.connection = "failed"]
        ELSE IF part.next + 1 < part.n
        THEN [line EXCEPT !.partial = [part EXCEPT !.next = @ + 1]]
        ELSE [line EXCEPT !.partial = Nothing,
                          !.got = Append(@, [id |-> part.id, n |-> part.n,
                                             upTo |-> Len(line.lines)])]

\* What is left of a chunk after its last line waits; more than a line of it is
\* dropped and ends the connection.
Rest(state) ==
    IF Len(state.buffer) >= FrameSize
    THEN [state EXCEPT !.buffer = <<>>, !.connection = "failed"] ELSE state

\* A line that is too long, or whose beginning was dropped, ends the connection
\* and is no frame to the message that is being put together.
TakeUnit(state, unit) ==
    IF ~unit.ends THEN [state EXCEPT !.buffer = Append(@, unit)]
    ELSE IF Len(state.buffer) + 1 # unit.size \/ unit.size > FrameSize
    THEN [state EXCEPT !.buffer = <<>>, !.connection = "failed"]
    ELSE AcceptLine([state EXCEPT !.buffer = <<>>], unit.frame)

\* A chunk of any length arrives.
Push(length) ==
    /\ length \in 1..Len(wire)
    /\ LET before == [buffer |-> buffer, partial |-> partial, lines |-> lines, got |-> got,
                      connection |-> connection]
           after == Rest(FoldLeft(TakeUnit, before, SubSeq(wire, 1, length)))
       IN  /\ buffer' = after.buffer /\ partial' = after.partial /\ lines' = after.lines
           /\ got' = after.got /\ connection' = after.connection
    /\ wire' = SubSeq(wire, length + 1, Len(wire))
    /\ UNCHANGED <<sent, faults>>

FramesInit ==
    /\ sent = <<>> /\ faults = 0
    /\ wire = <<>> /\ buffer = <<>> /\ lines = <<>> /\ got = <<>>
    /\ partial = Nothing /\ connection = "open"

AnyFrame == [id : 1..MaxMessages, n : 1..MaxChunks, q : 0..MaxChunks - 1]

FramesNext ==
    \/ \E n \in 1..MaxChunks : WriteMessage(n)
    \/ \E frame \in AnyFrame, size \in {FrameSize, 2 * FrameSize} : WriteFault(frame, size)
    \/ \E length \in 1..Len(wire) : Push(length)

FramesSpec == FramesInit /\ [][FramesNext]_frmVars

---------------------------------------------------------------------------
(* Properties *)

\* However the transport cuts the bytes, what a correct peer sends arrives
\* complete and in order, and the connection stays open (frames.ts LineReader).
ArrivesAsSent ==
    faults = 0 =>
        /\ connection = "open"
        /\ Len(got) <= Len(sent)
        /\ \A i \in DOMAIN got : got[i].id = i /\ got[i].n = sent[i]
        /\ wire = <<>> => Len(got) = Len(sent)

\* Whatever a peer sends, a message that is delivered came as frames 0 to n - 1
\* of that message, directly after each other (frames.ts FrameAssembler).
NeverMixed ==
    \A i \in DOMAIN got :
        \A q \in 0..got[i].n - 1 :
            lines[got[i].upTo - got[i].n + 1 + q] = [id |-> got[i].id, n |-> got[i].n, q |-> q]

(* What the framing of a message promises.                                   *)
FramesSafe == ArrivesAsSent /\ NeverMixed
=============================================================================
