-------------------------------- MODULE CmdWS --------------------------------
(***************************************************************************)
(* The command channel of the agent (agent/cmd_ws.go): a main loop that    *)
(* connects, serves one connection and waits before the next attempt, and  *)
(* for each connection a goroutine that reads frames into a bounded        *)
(* channel.  Nobody waits for this goroutine: it may outlive its session.  *)
(*                                                                         *)
(* Connections are numbered.  A write that waits for the network is a step *)
(* that is taken late; what TCP decides of a silent peer is a choice.      *)
(* What a command does once it is started is in StreamSession and Chat.    *)
(***************************************************************************)
EXTENDS Integers, Sequences, SequencesExt

CONSTANTS
    Commands,     \* the commands the server has to send, in this order
    MaxConns,     \* bound: connections of the agent
    FrameCap,     \* capacity of frameCh
    WireCap,      \* bound: frames under way in a connection
    Base,         \* cmdWSReconnectBase
    Longest,      \* cmdWSReconnectMax
    None          \* no frame

ASSUME CmdConstants ==
    /\ MaxConns \in Nat \ {0} /\ FrameCap \in Nat \ {0} /\ WireCap \in Nat \ {0}
    /\ Base \in Nat \ {0} /\ Longest \in Nat /\ Base <= Longest
    /\ IsInjective(Commands)
    /\ ToSet(Commands) \cap {"ping", "close", "error"} = {}
    /\ None \notin ToSet(Commands) \cup {"ping", "close", "error"}

VARIABLES
    pc,           \* where the main loop stands
    outcome,      \* what cmdWSSession is about to return: "clean", "error" or "none"
    backoff,
    conn,         \* the latest connection, 0 before the first
    cmdWSActive,  \* the connection that other goroutines write to, or 0
    sock,         \* our side: "none", "open" or "closed"
    peer,         \* the server: "up", "closing", "silent" or "gone"
    deadline,     \* a read deadline is set
    wire,         \* frames the server has sent
    reader,       \* the goroutine: "none", "reading", "sending" or "done"
    holding,      \* the frame it sends to frameCh
    frameCh,
    sentOn,       \* the commands sent on each connection, in order
    started       \* the commands each session has started, in order

mainVars == <<pc, outcome, backoff, conn, cmdWSActive>>
netVars == <<sock, peer, deadline, wire, sentOn>>
readerVars == <<reader, holding, frameCh>>
vars == <<mainVars, netVars, readerVars, started>>

Conn == 1 .. MaxConns
Command == ToSet(Commands)
Frame == Command \cup {"ping", "close", "error"}

Init ==
    /\ pc = "dial" /\ outcome = "none" /\ backoff = Base
    /\ conn = 0 /\ cmdWSActive = 0
    /\ sock = [c \in Conn |-> "none"]
    /\ peer = [c \in Conn |-> "up"]
    /\ deadline = [c \in Conn |-> FALSE]
    /\ wire = [c \in Conn |-> <<>>]
    /\ reader = [c \in Conn |-> "none"]
    /\ holding = [c \in Conn |-> None]
    /\ frameCh = [c \in Conn |-> <<>>]
    /\ sentOn = [c \in Conn |-> <<>>]
    /\ started = [c \in Conn |-> <<>>]

\* WriteFrame: an error once the peer has gone, or when TCP says so.
CanWrite(c) == sock[c] = "open" /\ peer[c] # "gone"
WriteFails(c) == sock[c] = "closed" \/ peer[c] \in {"silent", "gone"}

At(from, to) == pc = from /\ pc' = to
-----------------------------------------------------------------------------
(* runCmdWS: what is waited is the backoff after it has been advanced.      *)
\* Fault: the limit is left out.
Advanced_NoLimit(b) == (b * 3) \div 2

Advanced(b) == LET next == (b * 3) \div 2 IN IF next > Longest THEN Longest ELSE next

Backoff(result) == backoff' = IF result = "clean" THEN Base ELSE Advanced(backoff)

Sleep ==
    /\ At("sleep", "dial")
    /\ UNCHANGED <<outcome, backoff, conn, cmdWSActive, netVars, readerVars, started>>

(* cmdWSSession.                                                            *)
Connect ==
    /\ At("dial", "heartbeat") /\ conn < MaxConns
    /\ conn' = conn + 1
    /\ cmdWSActive' = conn + 1
    /\ sock' = [sock EXCEPT ![conn + 1] = "open"]
    /\ UNCHANGED <<outcome, backoff, peer, deadline, wire, sentOn, readerVars, started>>

ConnectFails ==
    /\ At("dial", "sleep")
    /\ Backoff("error")
    /\ UNCHANGED <<outcome, conn, cmdWSActive, netVars, readerVars, started>>

\* Return from the body of the session; its deferred calls are next.
Leave(from, result) ==
    /\ At(from, "clear") /\ outcome' = result
    /\ UNCHANGED <<backoff, conn, cmdWSActive, netVars, readerVars, started>>

HeartbeatFails == (Leave("heartbeat", "error") \/ Leave("beat", "error")) /\ WriteFails(conn)

\* Fault: the read deadline is set by the first frame only.
FirstHeartbeat_NoDeadline ==
    /\ At("heartbeat", "loop") /\ CanWrite(conn)
    /\ reader' = [reader EXCEPT ![conn] = "reading"]
    /\ UNCHANGED <<outcome, backoff, conn, cmdWSActive, netVars, holding, frameCh, started>>

FirstHeartbeat ==
    /\ At("heartbeat", "loop") /\ CanWrite(conn)
    /\ deadline' = [deadline EXCEPT ![conn] = TRUE]
    /\ reader' = [reader EXCEPT ![conn] = "reading"]
    /\ UNCHANGED <<outcome, backoff, conn, cmdWSActive,
                   sock, peer, wire, sentOn, holding, frameCh, started>>

Tick ==
    /\ At("loop", "beat")
    /\ UNCHANGED <<outcome, backoff, conn, cmdWSActive, netVars, readerVars, started>>

Heartbeat ==
    /\ At("beat", "loop") /\ CanWrite(conn)
    /\ UNCHANGED <<outcome, backoff, conn, cmdWSActive, netVars, readerVars, started>>

\* The head of frameCh is taken; any frame sets a new deadline.
Taken ==
    /\ pc = "loop" /\ frameCh[conn] # <<>>
    /\ frameCh' = [frameCh EXCEPT ![conn] = Tail(@)]
    /\ UNCHANGED <<backoff, conn, cmdWSActive, netVars, reader, holding>>

TakeError ==
    /\ Taken /\ Head(frameCh[conn]) = "error"
    /\ pc' = "clear" /\ outcome' = "error" /\ UNCHANGED started

TakeClose ==
    /\ Taken /\ Head(frameCh[conn]) = "close"
    /\ pc' = "clear" /\ outcome' = "clean" /\ UNCHANGED started

TakePing ==
    /\ Taken /\ Head(frameCh[conn]) = "ping"
    /\ pc' = "pong" /\ UNCHANGED <<outcome, started>>

\* handleCommand is started as a goroutine of its own.
TakeCommand ==
    /\ Taken /\ Head(frameCh[conn]) \in Command
    /\ started' = [started EXCEPT ![conn] = Append(@, Head(frameCh[conn]))]
    /\ UNCHANGED <<pc, outcome>>

\* The result of the write is ignored.
Pong ==
    /\ At("pong", "loop")
    /\ UNCHANGED <<outcome, backoff, conn, cmdWSActive, netVars, readerVars, started>>

(* The deferred calls, in reverse order.                                    *)
Clear ==
    /\ At("clear", "close")
    /\ cmdWSActive' = 0
    /\ UNCHANGED <<outcome, backoff, conn, netVars, readerVars, started>>

Close ==
    /\ At("close", "sleep") /\ Backoff(outcome) /\ outcome' = "none"
    /\ sock' = [sock EXCEPT ![conn] = "closed"]
    /\ UNCHANGED <<conn, cmdWSActive,
                   peer, deadline, wire, sentOn, readerVars, started>>

TakeFrame == TakeError \/ TakeClose \/ TakePing \/ TakeCommand

Serve == FirstHeartbeat \/ HeartbeatFails \/ Heartbeat \/ TakeFrame \/ Pong \/ Clear \/ Close

cmdWSSession == Connect \/ ConnectFails \/ Tick \/ Serve
-----------------------------------------------------------------------------
(* The goroutine that reads connection c.  Frames that are in its buffer   *)
(* are read also after the connection has been closed.                     *)
Read(c) ==
    /\ reader[c] = "reading" /\ wire[c] # <<>>
    /\ reader' = [reader EXCEPT ![c] = "sending"]
    /\ holding' = [holding EXCEPT ![c] = Head(wire[c])]
    /\ wire' = [wire EXCEPT ![c] = Tail(@)]
    /\ UNCHANGED <<mainVars, sock, peer, deadline, sentOn, frameCh, started>>

\* The deadline moves only when the session takes a frame from frameCh: a
\* session that is busy lets it pass although frames have come.
DeadlinePasses(c) == deadline[c] /\ (wire[c] = <<>> \/ pc # "loop")

ReadFails(c) ==
    /\ reader[c] = "reading"
    /\ sock[c] = "closed" \/ peer[c] = "gone" \/ DeadlinePasses(c)
    /\ reader' = [reader EXCEPT ![c] = "sending"]
    /\ holding' = [holding EXCEPT ![c] = "error"]
    /\ UNCHANGED <<mainVars, netVars, frameCh, started>>

\* Fault: a frame that finds the channel full is dropped.
Push_DropWhenFull(c) ==
    /\ reader[c] = "sending"
    /\ frameCh' = [frameCh EXCEPT ![c] = IF Len(@) < FrameCap THEN Append(@, holding[c]) ELSE @]
    /\ reader' = [reader EXCEPT ![c] = IF holding[c] = "error" THEN "done" ELSE "reading"]
    /\ holding' = [holding EXCEPT ![c] = None]
    /\ UNCHANGED <<mainVars, netVars, started>>

\* Fault: the goroutine goes on reading after an error.
Push_NoReturn(c) ==
    /\ reader[c] = "sending" /\ Len(frameCh[c]) < FrameCap
    /\ frameCh' = [frameCh EXCEPT ![c] = Append(@, holding[c])]
    /\ reader' = [reader EXCEPT ![c] = "reading"]
    /\ holding' = [holding EXCEPT ![c] = None]
    /\ UNCHANGED <<mainVars, netVars, started>>

\* The send waits for room, also when nobody will make any.
Push(c) ==
    /\ reader[c] = "sending" /\ Len(frameCh[c]) < FrameCap
    /\ frameCh' = [frameCh EXCEPT ![c] = Append(@, holding[c])]
    /\ reader' = [reader EXCEPT ![c] = IF holding[c] = "error" THEN "done" ELSE "reading"]
    /\ holding' = [holding EXCEPT ![c] = None]
    /\ UNCHANGED <<mainVars, netVars, started>>

ReaderStep(c) == Read(c) \/ ReadFails(c) \/ Push(c)
-----------------------------------------------------------------------------
(* The server and the network.                                              *)
Sent(k) == \E c \in Conn : k \in ToSet(sentOn[c])

\* The first command that has not been sent on any connection.
IsNext(k) ==
    \E i \in DOMAIN Commands : /\ k = Commands[i] /\ ~Sent(k)
                               /\ \A j \in 1 .. (i - 1) : Sent(Commands[j])

ServerSends(c) ==
    /\ sock[c] = "open" /\ peer[c] = "up" /\ Len(wire[c]) < WireCap
    /\ \/ /\ \E k \in Command :
                /\ IsNext(k)
                /\ wire' = [wire EXCEPT ![c] = Append(@, k)]
                /\ sentOn' = [sentOn EXCEPT ![c] = Append(@, k)]
          /\ UNCHANGED peer
       \/ /\ wire' = [wire EXCEPT ![c] = Append(@, "ping")]
          /\ UNCHANGED <<peer, sentOn>>
       \/ /\ wire' = [wire EXCEPT ![c] = Append(@, "close")]
          /\ peer' = [peer EXCEPT ![c] = "closing"]
          /\ UNCHANGED sentOn
    /\ UNCHANGED <<mainVars, sock, deadline, readerVars, started>>

PeerChanges(c) ==
    /\ sock[c] = "open"
    /\ \/ peer[c] = "up" /\ peer' = [peer EXCEPT ![c] = "silent"]
       \/ peer[c] = "silent" /\ peer' = [peer EXCEPT ![c] = "up"]
       \/ peer[c] # "gone" /\ peer' = [peer EXCEPT ![c] = "gone"]
    /\ UNCHANGED <<mainVars, sock, deadline, wire, sentOn, readerVars, started>>

Next ==
    \/ cmdWSSession \/ Sleep
    \/ \E c \in Conn : ReaderStep(c) \/ ServerSends(c) \/ PeerChanges(c)

Spec == Init /\ [][Next]_vars

\* Goroutines run, select does not pass over frameCh for ever in favour of the
\* ticker, and a sleep or an attempt to connect comes to an end.
FairSpec ==
    /\ Spec
    /\ WF_vars(Serve) /\ SF_vars(TakeFrame)
    /\ WF_vars(Sleep) /\ WF_vars(Connect \/ ConnectFails)
    /\ \A c \in Conn : WF_vars(ReaderStep(c))
-----------------------------------------------------------------------------
\* Types; the backoff stays between its limits, and frameCh within its capacity.
TypeOK ==
    /\ pc \in {"dial", "heartbeat", "loop", "beat", "pong", "clear", "close", "sleep"}
    /\ outcome \in {"none", "clean", "error"}
    /\ backoff \in Base .. Longest
    /\ conn \in 0 .. MaxConns /\ cmdWSActive \in 0 .. MaxConns
    /\ sock \in [Conn -> {"none", "open", "closed"}]
    /\ peer \in [Conn -> {"up", "closing", "silent", "gone"}]
    /\ deadline \in [Conn -> BOOLEAN]
    /\ reader \in [Conn -> {"none", "reading", "sending", "done"}]
    /\ holding \in [Conn -> Frame \cup {None}]
    /\ wire \in [Conn -> Seq(Frame)] /\ frameCh \in [Conn -> Seq(Frame)]
    /\ sentOn \in [Conn -> Seq(Command)] /\ started \in [Conn -> Seq(Command)]
    /\ \A c \in Conn : Len(wire[c]) <= WireCap /\ Len(frameCh[c]) <= FrameCap

\* Commands are started in the order the server sent them, on the connection
\* it sent them on, none twice and none left out before another: what is lost
\* are the last ones of a connection that ends (cmd_ws.go:178).
StartedInOrder == \A c \in Conn : IsPrefix(started[c], sentOn[c])

\* A server that goes, or says nothing more, is noticed, and another attempt to
\* connect follows: every way out of cmdWSSession leads back to the dial.
LostNoticed ==
    \A c \in Conn :
        sock[c] = "open" /\ peer[c] # "up" ~> peer[c] = "up" \/ (sock[c] = "closed" /\ pc = "dial")

\* The reader of a connection that has been closed ends, unless it stands before
\* a channel the session left full of frames: there it stays for ever.
ReaderLeaves ==
    \A c \in Conn :
        sock[c] = "closed" ~> \/ reader[c] \in {"none", "done"}
                              \/ /\ reader[c] = "sending" /\ Len(frameCh[c]) = FrameCap
                                 /\ "error" \notin ToSet(frameCh[c])
=============================================================================
