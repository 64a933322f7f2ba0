---------------------------- MODULE StreamSession ----------------------------
(***************************************************************************)
(* What the direct and the cross-session streams of the agent share        *)
(* (agent/stream.go): the map activeStreams, StreamSession.stop with its   *)
(* sync.Once, the keepalive and reader goroutines, close commands, and the *)
(* WebSocket to the relay.                                                 *)
(*                                                                         *)
(* A session is identified with the open command that creates it, and its  *)
(* "run" process begins as that command's goroutine.  A write to the       *)
(* WebSocket takes one step that waits while the connection is stalled:    *)
(* net.Conn.Write has no deadline here.                                    *)
(*                                                                         *)
(* What run and runCrossSession do is left open: here the goroutine starts *)
(* its loop, and leaves it at any time.  DirectStream and CrossStream fill *)
(* it in and are shown to implement this module.                           *)
(***************************************************************************)
EXTENDS Integers, Sequences

CONSTANTS
    Session,   \* sessions, one per open_remote_tunnel command
    Closer,    \* close_remote_tunnel commands
    TokenOf,   \* the token each command carries
    None       \* no entry

ASSUME SessionConstants ==
    /\ Session \cap Closer = {}
    /\ (Session \X {"run", "keepalive", "reader"}) \cap Closer = {}
    /\ DOMAIN TokenOf = Session \cup Closer
    /\ None \notin Session

VARIABLES
    activeStreams,  \* token -> *StreamSession
    pc,             \* where each goroutine stands
    found,          \* the session a close command has loaded
    stopCh,         \* closed or not
    once,           \* StreamSession.once: "no", "running" or "done"
    sock,           \* the WebSocket: "none", "open" or "closed" on our side
    peer            \* its far end: "reading", "stalled" or "gone"

sessionVars == <<activeStreams, pc, found, stopCh, once, sock, peer>>

Token == {TokenOf[x] : x \in Session \cup Closer}
Run(s) == <<s, "run">>
Keepalive(s) == <<s, "keepalive">>
Reader(s) == <<s, "reader">>
Goroutine == Session \X {"run", "keepalive", "reader"}

SessionInit ==
    /\ activeStreams = [t \in Token |-> None]
    /\ pc = [p \in Goroutine \cup Closer |->
                IF p \in Closer THEN "received" ELSE IF p[2] = "run" THEN "dial" ELSE "none"]
    /\ found = [c \in Closer |-> None]
    /\ stopCh = [s \in Session |-> FALSE]
    /\ once = [s \in Session |-> "no"]
    /\ sock = [s \in Session |-> "none"]
    /\ peer = [s \in Session |-> "reading"]

Goto(p, l) == pc' = [pc EXCEPT ![p] = l]

\* WriteFrame returns: with success, or with an error.
CanWrite(s) == sock[s] = "open" /\ peer[s] = "reading"
WriteFails(s) == sock[s] = "closed" \/ peer[s] = "gone"
Written(s) == CanWrite(s) \/ WriteFails(s)
-----------------------------------------------------------------------------
(* startStream.                                                             *)
Dial(s) ==
    /\ pc[Run(s)] = "dial"
    /\ sock' = [sock EXCEPT ![s] = "open"]
    /\ Goto(Run(s), "dialled")
    /\ UNCHANGED <<activeStreams, found, stopCh, once, peer>>

DialFails(s) ==
    /\ pc[Run(s)] = "dial"
    /\ Goto(Run(s), "ended")
    /\ UNCHANGED <<activeStreams, found, stopCh, once, sock, peer>>

Store(s) ==
    /\ pc[Run(s)] = "dialled"
    /\ activeStreams' = [activeStreams EXCEPT ![TokenOf[s]] = s]
    /\ Goto(Run(s), "start")
    /\ UNCHANGED <<found, stopCh, once, sock, peer>>

\* Fault: two callers can be in the body at once.
CloseStopCh_NoOnce(p, s) ==
    /\ pc[p] = "stop" /\ ~(once[s] = "done")
    /\ once' = [once EXCEPT ![s] = "running"]
    /\ stopCh' = [stopCh EXCEPT ![s] = TRUE]
    /\ Goto(p, "closing")
    /\ UNCHANGED <<activeStreams, found, sock, peer>>

(* StreamSession.stop, called by goroutine p of session s.  A caller that   *)
(* comes while another runs the body waits for it, as sync.Once does.       *)
CloseStopCh(p, s) ==
    /\ pc[p] = "stop" /\ once[s] = "no"
    /\ once' = [once EXCEPT ![s] = "running"]
    /\ stopCh' = [stopCh EXCEPT ![s] = TRUE]
    /\ Goto(p, "closing")
    /\ UNCHANGED <<activeStreams, found, sock, peer>>

\* Fault: the close frame is written, the connection is left open.
CloseSocket_FrameOnly(p, s) ==
    /\ pc[p] = "closing" /\ Written(s)
    /\ Goto(p, "deleting")
    /\ UNCHANGED <<activeStreams, found, stopCh, once, sock, peer>>

\* ws.Close: a close frame first, then the connection.
CloseSocket(p, s) ==
    /\ pc[p] = "closing" /\ Written(s)
    /\ sock' = [sock EXCEPT ![s] = "closed"]
    /\ Goto(p, "deleting")
    /\ UNCHANGED <<activeStreams, found, stopCh, once, peer>>

\* Fault: the map keeps the entry.
Forget_KeepEntry(p, s) ==
    /\ pc[p] = "deleting"
    /\ once' = [once EXCEPT ![s] = "done"]
    /\ Goto(p, "ended")
    /\ UNCHANGED <<activeStreams, found, stopCh, sock, peer>>

\* The entry goes by token, whichever session it leads to by now.
Forget(p, s) ==
    /\ pc[p] = "deleting"
    /\ activeStreams' = [activeStreams EXCEPT ![TokenOf[s]] = None]
    /\ once' = [once EXCEPT ![s] = "done"]
    /\ Goto(p, "ended")
    /\ UNCHANGED <<found, stopCh, sock, peer>>

JoinStop(p, s) ==
    /\ pc[p] = "stop" /\ once[s] = "done"
    /\ Goto(p, "ended")
    /\ UNCHANGED <<activeStreams, found, stopCh, once, sock, peer>>

stop(p, s) == CloseStopCh(p, s) \/ CloseSocket(p, s) \/ Forget(p, s) \/ JoinStop(p, s)

(* stopStream.                                                              *)
\* Fault: stop is called although the map has no session for the token.
LoadStream_Unchecked(c) ==
    /\ pc[c] = "received"
    /\ found' = [found EXCEPT ![c] = activeStreams[TokenOf[c]]]
    /\ Goto(c, "stop")
    /\ UNCHANGED <<activeStreams, stopCh, once, sock, peer>>

LoadStream(c) ==
    /\ pc[c] = "received"
    /\ found' = [found EXCEPT ![c] = activeStreams[TokenOf[c]]]
    /\ Goto(c, IF activeStreams[TokenOf[c]] = None THEN "ended" ELSE "stop")
    /\ UNCHANGED <<activeStreams, stopCh, once, sock, peer>>

stopStream(c) == LoadStream(c) \/ (found[c] # None /\ stop(c, found[c]))
-----------------------------------------------------------------------------
(* The keepalive goroutine.  A ping that is written changes nothing; one    *)
(* that waits is freed like any write, and is not told from an idle wait;   *)
(* nor is a pong of the reader told from its wait for the next message.     *)
KeepaliveEnds(s) ==
    /\ pc[Keepalive(s)] = "idle" /\ stopCh[s]
    /\ Goto(Keepalive(s), "ended")
    /\ UNCHANGED <<activeStreams, found, stopCh, once, sock, peer>>

PingFails(s) ==
    /\ pc[Keepalive(s)] = "idle" /\ WriteFails(s)
    /\ Goto(Keepalive(s), "stop")
    /\ UNCHANGED <<activeStreams, found, stopCh, once, sock, peer>>

keepalive(s) == KeepaliveEnds(s) \/ PingFails(s) \/ stop(Keepalive(s), s)

(* The reader goroutine ends on an error or on a close frame.               *)
ReadFails(s) ==
    /\ pc[Reader(s)] = "reading" /\ WriteFails(s)
    /\ Goto(Reader(s), "stop")
    /\ UNCHANGED <<activeStreams, found, stopCh, once, sock, peer>>

reader(s) == ReadFails(s) \/ stop(Reader(s), s)

(* The network and the viewer behind it.                                    *)
CloseFrame(s) ==
    /\ pc[Reader(s)] = "reading" /\ sock[s] = "open" /\ peer[s] # "gone"
    /\ Goto(Reader(s), "stop")
    /\ UNCHANGED <<activeStreams, found, stopCh, once, sock, peer>>

Stall(s) ==
    /\ sock[s] = "open" /\ peer[s] = "reading"
    /\ peer' = [peer EXCEPT ![s] = "stalled"]
    /\ UNCHANGED <<activeStreams, pc, found, stopCh, once, sock>>

Resume(s) ==
    /\ peer[s] = "stalled"
    /\ peer' = [peer EXCEPT ![s] = "reading"]
    /\ UNCHANGED <<activeStreams, pc, found, stopCh, once, sock>>

\* The far end closes, or TCP gives the connection up.
Lose(s) ==
    /\ sock[s] = "open" /\ peer[s] # "gone"
    /\ peer' = [peer EXCEPT ![s] = "gone"]
    /\ UNCHANGED <<activeStreams, pc, found, stopCh, once, sock>>

\* TCP's verdict on a stalled connection.
Settle(s) == Resume(s) \/ (peer[s] = "stalled" /\ Lose(s))

SharedNext ==
    \/ \E c \in Closer : stopStream(c)
    \/ \E s \in Session :
          \/ Store(s) \/ stop(Run(s), s) \/ keepalive(s) \/ reader(s)
          \/ CloseFrame(s) \/ Stall(s) \/ Resume(s) \/ Lose(s)

\* Goroutines run, and TCP settles what has stalled; peers owe nothing else.
\* A write that stalls again and again makes progress each time (SF).
CommandRuns(c) == SF_sessionVars(stopStream(c))

SessionRuns(s) ==
    /\ WF_sessionVars(Store(s)) /\ WF_sessionVars(Settle(s))
    /\ SF_sessionVars(stop(Run(s), s))
    /\ SF_sessionVars(keepalive(s)) /\ SF_sessionVars(reader(s))

SharedFairness ==
    (\A c \in Closer : CommandRuns(c)) /\ (\A s \in Session : SessionRuns(s))

\* The run goroutine moves; the WebSocket and the other goroutines do not.
Step(s, from, to) ==
    /\ pc[Run(s)] = from
    /\ Goto(Run(s), to)
    /\ UNCHANGED <<activeStreams, found, stopCh, once, sock, peer>>

\* run and runCrossSession start the two other goroutines before their loop.
StartLoop(s) ==
    /\ pc[Run(s)] = "start"
    /\ pc' = [pc EXCEPT ![Run(s)] = "loop", ![Keepalive(s)] = "idle", ![Reader(s)] = "reading"]
    /\ UNCHANGED <<activeStreams, found, stopCh, once, sock, peer>>

RunStep(s) ==
    \/ Dial(s) \/ DialFails(s) \/ StartLoop(s)
    \/ Step(s, "start", "return") \/ Step(s, "loop", "return") \/ Step(s, "return", "stop")

SessionNext == SharedNext \/ \E s \in Session : RunStep(s)

SessionSpec == SessionInit /\ [][SessionNext]_sessionVars
-----------------------------------------------------------------------------
SessionTypeOK ==
    /\ activeStreams \in [Token -> Session \cup {None}]
    /\ \A c \in Closer : pc[c] \in {"received", "stop", "closing", "deleting", "ended"}
    /\ \A s \in Session :
          /\ pc[Run(s)] \in {"dial", "dialled", "start", "loop", "return",
                             "stop", "closing", "deleting", "ended"}
          /\ pc[Keepalive(s)] \in {"none", "idle", "stop", "closing", "deleting", "ended"}
          /\ pc[Reader(s)] \in {"none", "reading", "stop", "closing", "deleting", "ended"}
    /\ found \in [Closer -> Session \cup {None}]
    /\ \A c \in Closer : pc[c] \in {"stop", "closing", "deleting"} => found[c] # None
    /\ stopCh \in [Session -> BOOLEAN]
    /\ once \in [Session -> {"no", "running", "done"}]
    /\ sock \in [Session -> {"none", "open", "closed"}]
    /\ peer \in [Session -> {"reading", "stalled", "gone"}]

\* Between Store and stop.
Running(s) ==
    pc[Run(s)] \notin {"dial", "dialled", "ended"} /\ once[s] = "no"

\* The map never leads a close command to a session whose stop is over and
\* never forgets a running one, unless a second open with the same token has
\* replaced its entry; a close command that found a session holds on to it.
EntriesServed ==
    /\ \A t \in Token :
          activeStreams[t] # None => once[activeStreams[t]] # "done"
    /\ \A s \in Session :
          Running(s) => \/ activeStreams[TokenOf[s]] = s
                        \/ \E r \in Session \ {s} :
                              /\ TokenOf[r] = TokenOf[s]
                              /\ pc[Run(r)] \notin {"dial", "dialled"}

Stopping(p, s) ==
    /\ pc[p] \in {"closing", "deleting"}
    /\ IF p \in Closer THEN found[p] = s ELSE p[1] = s

\* Only one goroutine runs the body of stop, and a session that has been
\* stopped has neither an open WebSocket nor a goroutine still to call Close.
StopOnce ==
    \A s \in Session :
        /\ \A p, q \in Goroutine \cup Closer :
              Stopping(p, s) /\ Stopping(q, s) => p = q
        /\ once[s] = "running" <=> \E p \in Goroutine \cup Closer : Stopping(p, s)
        /\ once[s] = "done" => sock[s] = "closed"

\* A session that is told to stop, by whichever goroutine, winds down: its
\* three goroutines end and the WebSocket is closed.
StoppedEnds ==
    \A s \in Session :
        stopCh[s] ~> /\ \A g \in {"run", "keepalive", "reader"} :
                            pc[<<s, g>>] \in {"none", "ended"}
                     /\ sock[s] = "closed"
=============================================================================
