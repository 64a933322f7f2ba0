-------------------------------- MODULE Pipe --------------------------------
(***************************************************************************)
(* One direction of the TCP pipe between the service and a helper          *)
(* (pipeSend and pipeRecv of agent/remote_session_windows.go; chat.go has  *)
(* the same code).  A message is a five-byte header, which holds the       *)
(* length of what follows, and a payload; each is written by a Write of    *)
(* its own, and several goroutines write to one pipe without a lock.       *)
(*                                                                         *)
(* The n-th message of writer w is <<w, n>>.  The stream carries headers   *)
(* and payloads; once the receiver takes one for the other, or joins parts *)
(* of two messages, all it reads from then on is arbitrary.                *)
(***************************************************************************)
EXTENDS Integers, Sequences

CONSTANTS
    Writer,    \* goroutines that call pipeSend
    MaxSent,   \* bound: messages of each writer
    HasBody,   \* HasBody[w]: whether the messages of w have a payload
    Deadline   \* whether the receiver retries after a read deadline

ASSUME PipeConstants ==
    /\ MaxSent \in Nat
    /\ HasBody \in [Writer -> BOOLEAN]
    /\ Deadline \in BOOLEAN

VARIABLES
    pending,   \* pending[w]: w has written a header and not its payload
    count,     \* messages w has begun
    stream,    \* what has been written and not read
    expect,    \* the message whose payload pipeRecv waits for, or <<>>
    received,  \* messages pipeRecv has returned
    garbled    \* the receiver has lost the framing

framingVars == <<pending, count, stream, expect, received, garbled>>

Message == Writer \X (1 .. MaxSent)
Part == [msg : Message, part : {"header", "payload"}]
Header(w, n) == [msg |-> <<w, n>>, part |-> "header"]
Payload(w, n) == [msg |-> <<w, n>>, part |-> "payload"]

PipeInit ==
    /\ pending = [w \in Writer |-> FALSE]
    /\ count = [w \in Writer |-> 0]
    /\ stream = <<>>
    /\ expect = <<>>
    /\ received = <<>>
    /\ garbled = FALSE
-----------------------------------------------------------------------------
(* pipeSend: two Writes.                                                    *)
WriteHeader(w) ==
    /\ ~pending[w] /\ count[w] < MaxSent
    /\ count' = [count EXCEPT ![w] = @ + 1]
    /\ pending' = [pending EXCEPT ![w] = HasBody[w]]
    /\ stream' = Append(stream, Header(w, count[w] + 1))
    /\ UNCHANGED <<expect, received, garbled>>

WritePayload(w) ==
    /\ pending[w]
    /\ pending' = [pending EXCEPT ![w] = FALSE]
    /\ stream' = Append(stream, Payload(w, count[w]))
    /\ UNCHANGED <<count, expect, received, garbled>>

pipeSend(w) == WriteHeader(w) \/ WritePayload(w)

(* pipeRecv: two reads.                                                     *)
Take == stream # <<>> /\ ~garbled /\ stream' = Tail(stream)

\* Fault: the payload of an empty message is waited for.
ReadHeader_AlwaysBody ==
    /\ Take /\ expect = <<>>
    /\ Head(stream).part = "header"
    /\ expect' = Head(stream).msg
    /\ UNCHANGED <<pending, count, received, garbled>>

\* Without a payload the message is complete.
ReadHeader ==
    /\ Take /\ expect = <<>>
    /\ LET m == Head(stream).msg IN
       /\ Head(stream).part = "header"
       /\ expect' = IF HasBody[m[1]] THEN m ELSE <<>>
       /\ received' = IF HasBody[m[1]] THEN received ELSE Append(received, m)
    /\ UNCHANGED <<pending, count, garbled>>

ReadPayload ==
    /\ Take /\ expect # <<>>
    /\ Head(stream) = [msg |-> expect, part |-> "payload"]
    /\ received' = Append(received, expect)
    /\ expect' = <<>>
    /\ UNCHANGED <<pending, count, garbled>>

\* Fault: the receiver skips what it did not expect.
Misread_Skip ==
    /\ Take
    /\ IF expect = <<>> THEN Head(stream).part # "header"
       ELSE Head(stream) # [msg |-> expect, part |-> "payload"]
    /\ expect' = <<>>
    /\ UNCHANGED <<pending, count, received, garbled>>

\* Anything else is the wrong bytes.
Misread ==
    /\ Take
    /\ IF expect = <<>> THEN Head(stream).part # "header"
       ELSE Head(stream) # [msg |-> expect, part |-> "payload"]
    /\ garbled' = TRUE
    /\ UNCHANGED <<pending, count, expect, received>>

\* The deadline passes while the payload is awaited: the caller continues with
\* a new pipeRecv.
ReadTimeout ==
    /\ Deadline /\ expect # <<>> /\ stream = <<>>
    /\ expect' = <<>>
    /\ UNCHANGED <<pending, count, stream, received, garbled>>

pipeRecv == ReadHeader \/ ReadPayload \/ Misread \/ ReadTimeout

PipeNext == pipeRecv \/ \E w \in Writer : pipeSend(w)

PipeSpec == PipeInit /\ [][PipeNext]_framingVars
-----------------------------------------------------------------------------
PipeTypeOK ==
    /\ pending \in [Writer -> BOOLEAN]
    /\ count \in [Writer -> 0 .. MaxSent]
    /\ stream \in Seq(Part)
    /\ expect \in Message \cup {<<>>}
    /\ expect # <<>> => HasBody[expect[1]]
    /\ received \in Seq(Message)
    /\ garbled \in BOOLEAN

\* "Framing: [4-byte uint32 LE payload length][1-byte type][payload]": the
\* receiver never takes a payload for a header, nor joins parts of two messages.
Framed == ~garbled

\* Of each writer the first messages are received, in order and with none left
\* out, up to where the framing is lost; what comes after that is arbitrary, and
\* the receiver notices it only when it takes more than 8 MB for a length.
ReceivedInOrder ==
    \A i \in DOMAIN received :
        received[i][2] > 1 =>
            \E j \in 1 .. (i - 1) : received[j] = <<received[i][1], received[i][2] - 1>>
=============================================================================
