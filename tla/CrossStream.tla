----------------------------- MODULE CrossStream -----------------------------
(***************************************************************************)
(* A stream captured by a helper process in the user's session             *)
(* (agent/remote_session_windows.go): the service spawns the helper,       *)
(* accepts its TCP connection and relays between this pipe and the         *)
(* WebSocket of module StreamSession.  How messages are framed on the pipe *)
(* is the subject of module Pipe; here each is sent and received whole.    *)
(***************************************************************************)
EXTENDS StreamSession

CONSTANTS
    MaxMessages,  \* bound: messages of the viewer in one session
    PipeCap       \* bound: messages the kernel buffers in each direction

ASSUME CrossConstants == MaxMessages \in Nat /\ PipeCap \in Nat \ {0}

VARIABLES
    helper,       \* the main goroutine of the helper process
    helperReader, \* its reader goroutine
    helperStop,   \* its stopCh is closed
    inputClosed,  \* its inputCh is closed
    pipe,         \* the service's end: "none", "queued", "open" or "closed"
    toHelper,
    toService,
    sent          \* messages sent by the viewer

helperVars == <<helper, helperReader, helperStop, inputClosed>>
pipeVars == <<pipe, toHelper, toService>>
crossVars == <<helperVars, pipeVars, sent>>
vars == <<sessionVars, crossVars>>

Init ==
    /\ SessionInit
    /\ helper = [s \in Session |-> "none"]
    /\ helperReader = [s \in Session |-> "none"]
    /\ helperStop = [s \in Session |-> FALSE]
    /\ inputClosed = [s \in Session |-> FALSE]
    /\ pipe = [s \in Session |-> "none"]
    /\ toHelper = [s \in Session |-> <<>>]
    /\ toService = [s \in Session |-> <<>>]
    /\ sent = [s \in Session |-> 0]

\* pipeSend succeeds when there is room; a peer that has gone makes it fail.
Sent(q, s, m) == Len(q[s]) < PipeCap /\ q' = [q EXCEPT ![s] = Append(@, m)]
HelperGone(s) == helper[s] = "exited"

\* The listener is open from the spawn until the deferred ln.Close.
Listening(s) == pc[Run(s)] \notin {"stop", "closing", "deleting", "ended"}
ServiceGone(s) == pipe[s] = "closed" \/ (pipe[s] = "queued" /\ ~Listening(s))
-----------------------------------------------------------------------------
(* startCrossSessionStream: the helper is spawned before the WebSocket is   *)
(* dialled.                                                                 *)
Spawn(s) ==
    /\ pc[Run(s)] = "dial" /\ helper[s] = "none"
    /\ helper' = [helper EXCEPT ![s] = "dialing"]
    /\ UNCHANGED <<sessionVars, helperReader, helperStop, inputClosed, pipeVars, sent>>

SpawnFails(s) ==
    /\ helper[s] = "none" /\ Step(s, "dial", "ended")
    /\ UNCHANGED crossVars

startCrossSessionStream(s) ==
    \/ Spawn(s) \/ SpawnFails(s)
    \/ helper[s] # "none" /\ (Dial(s) \/ DialFails(s)) /\ UNCHANGED crossVars

(* runCrossSession.                                                         *)
Accept(s) ==
    /\ pipe[s] = "queued" /\ Step(s, "start", "awaitInit")
    /\ pipe' = [pipe EXCEPT ![s] = "open"]
    /\ UNCHANGED <<helperVars, toHelper, toService, sent>>

AcceptTimeout(s) == Step(s, "start", "return") /\ UNCHANGED crossVars

RecvInit(s) ==
    /\ toService[s] # <<>>
    /\ toService' = [toService EXCEPT ![s] = Tail(@)]
    /\ Step(s, "awaitInit", IF Head(toService[s]) = "init" THEN "sendInit" ELSE "return")
    /\ UNCHANGED <<helperVars, pipe, toHelper, sent>>

RecvFails(s) ==
    /\ HelperGone(s)
    /\ Step(s, "awaitInit", "return") \/ Step(s, "recv", "return")
    /\ UNCHANGED crossVars

SendInit(s) ==
    /\ pc[Run(s)] = "sendInit"
    /\ IF CanWrite(s)
       THEN /\ pc' = [pc EXCEPT ![Run(s)] = "loop", ![Keepalive(s)] = "idle",
                                ![Reader(s)] = "reading"]
            /\ UNCHANGED <<activeStreams, found, stopCh, once, sock, peer>>
       ELSE WriteFails(s) /\ Step(s, "sendInit", "return")
    /\ UNCHANGED crossVars

\* stopCh is looked at before each receive, which waits three seconds at most.
SeeStop(s) == stopCh[s] /\ Step(s, "loop", "sendStop") /\ UNCHANGED crossVars

\* Fault: stopCh is not looked at.
BeginRecv_Blind(s) == Step(s, "loop", "recv") /\ UNCHANGED crossVars

BeginRecv(s) == ~stopCh[s] /\ Step(s, "loop", "recv") /\ UNCHANGED crossVars

RecvTimeout(s) == toService[s] = <<>> /\ Step(s, "recv", "loop") /\ UNCHANGED crossVars

\* An init message is of a type the loop ignores.
Recv(s) ==
    /\ toService[s] # <<>>
    /\ toService' = [toService EXCEPT ![s] = Tail(@)]
    /\ Step(s, "recv", IF Head(toService[s]) = "init" THEN "loop" ELSE "forward")
    /\ UNCHANGED <<helperVars, pipe, toHelper, sent>>

\* A frame or a control message; after a frame the bitrate may be adapted.
\* An audio chunk that cannot be written is dropped.
Forward(s) ==
    /\ Written(s)
    /\ \/ Step(s, "forward", IF CanWrite(s) THEN "loop" ELSE "return")
       \/ Step(s, "forward", "loop")
       \/ CanWrite(s) /\ Step(s, "forward", "adapt")
    /\ UNCHANGED crossVars

\* set_bitrate to the helper, then a message to the viewer; errors are ignored.
Adapt(s) ==
    /\ Step(s, "adapt", "notify")
    /\ \/ Sent(toHelper, s, "input")
       \/ HelperGone(s) /\ UNCHANGED toHelper
    /\ UNCHANGED <<helperVars, pipe, toService, sent>>

Notify(s) == Written(s) /\ Step(s, "notify", "loop") /\ UNCHANGED crossVars

SendStop(s) ==
    /\ Step(s, "sendStop", "return")
    /\ \/ Sent(toHelper, s, "stop")
       \/ HelperGone(s) /\ UNCHANGED toHelper
    /\ UNCHANGED <<helperVars, pipe, toService, sent>>

\* Fault: stop is not deferred.
Return_NoStop(s) ==
    /\ Step(s, "return", "ended")
    /\ pipe' = [pipe EXCEPT ![s] = IF @ = "open" THEN "closed" ELSE @]
    /\ UNCHANGED <<helperVars, toHelper, toService, sent>>

\* Deferred: conn.Close and ln.Close, and then stop.
Return(s) ==
    /\ Step(s, "return", "stop")
    /\ pipe' = [pipe EXCEPT ![s] = IF @ = "open" THEN "closed" ELSE @]
    /\ UNCHANGED <<helperVars, toHelper, toService, sent>>

runCrossSession(s) ==
    \/ Accept(s) \/ AcceptTimeout(s) \/ RecvInit(s) \/ RecvFails(s) \/ SendInit(s)
    \/ SeeStop(s) \/ BeginRecv(s) \/ RecvTimeout(s) \/ Recv(s)
    \/ Forward(s) \/ Adapt(s) \/ Notify(s) \/ SendStop(s) \/ Return(s)

(* The reader of the WebSocket: it takes what the viewer sends off the      *)
(* socket, and sees the socket again when pipeSend has returned.            *)
ReaderTurns(s, from, to) ==
    /\ pc[Reader(s)] = from
    /\ Goto(Reader(s), to)
    /\ UNCHANGED <<activeStreams, found, stopCh, once, sock, peer>>

ViewerSends(s) ==
    /\ sock[s] = "open" /\ peer[s] # "gone" /\ sent[s] < MaxMessages
    /\ ReaderTurns(s, "reading", "forwarding")
    /\ sent' = [sent EXCEPT ![s] = @ + 1]
    /\ UNCHANGED <<helperVars, pipeVars>>

\* pipeSend waits for room; its error is ignored.
ForwardInput(s) ==
    /\ ReaderTurns(s, "forwarding", "reading")
    /\ \/ pipe[s] = "open" /\ Sent(toHelper, s, "input")
       \/ (HelperGone(s) \/ pipe[s] # "open") /\ UNCHANGED toHelper
    /\ UNCHANGED <<helperVars, pipe, toService, sent>>
-----------------------------------------------------------------------------
(* runHelperMode, in the helper process.                                    *)
Become(s, from, to) == helper[s] = from /\ helper' = [helper EXCEPT ![s] = to]

HelperDials(s) ==
    /\ Listening(s) /\ Become(s, "dialing", "connected")
    /\ pipe' = [pipe EXCEPT ![s] = "queued"]
    /\ UNCHANGED <<sessionVars, helperReader, helperStop, inputClosed, toHelper, toService, sent>>

HelperDialFails(s) ==
    /\ ~Listening(s) /\ Become(s, "dialing", "exited")
    /\ UNCHANGED <<sessionVars, helperReader, helperStop, inputClosed, pipeVars, sent>>

\* Fault: the loop starts before the init message is sent.
HelperStarts_NoInit(s) ==
    /\ Become(s, "connected", "streaming")
    /\ helperReader' = [helperReader EXCEPT ![s] = "reading"]
    /\ UNCHANGED <<sessionVars, helperStop, inputClosed, pipeVars, sent>>

\* captureInit, the encoder and the watermark come before the first message.
HelperStarts(s) ==
    /\ Become(s, "connected", "streaming")
    /\ Sent(toService, s, "init")
    /\ helperReader' = [helperReader EXCEPT ![s] = "reading"]
    /\ UNCHANGED <<sessionVars, helperStop, inputClosed, pipe, toHelper, sent>>

\* captureInit or the first write fails, which is fatal.
HelperFails(s) ==
    /\ Become(s, "connected", "exited")
    /\ UNCHANGED <<sessionVars, helperReader, helperStop, inputClosed, pipeVars, sent>>

\* A frame, an audio chunk, a control message, or another init message when
\* the monitor is switched; with the pipe full the loop waits and looks at
\* neither of its channels.
HelperCaptures(s) ==
    /\ Become(s, "streaming", "sending")
    /\ UNCHANGED <<sessionVars, helperReader, helperStop, inputClosed, pipeVars, sent>>

HelperSends(s) ==
    /\ Become(s, "sending", "streaming")
    /\ \E m \in {"frame", "init"} : Sent(toService, s, m)
    /\ UNCHANGED <<sessionVars, helperReader, helperStop, inputClosed, pipe, toHelper, sent>>

\* Fault: a write that fails does not end the loop.
HelperEnds_KeepSending(s) ==
    /\ helperStop[s] \/ inputClosed[s]
    /\ Become(s, "streaming", "exited")
    /\ UNCHANGED <<sessionVars, helperReader, helperStop, inputClosed, pipeVars, sent>>

\* The loop ends: at its select, or by a write that fails.
HelperEnds(s) ==
    /\ \/ (helperStop[s] \/ inputClosed[s]) /\ Become(s, "streaming", "exited")
       \/ ServiceGone(s) /\ Become(s, "sending", "exited")
    /\ UNCHANGED <<sessionVars, helperReader, helperStop, inputClosed, pipeVars, sent>>

\* The resolution has changed, or the user's session ends.
HelperQuits(s) ==
    /\ \E h \in {"dialing", "connected", "streaming", "sending"} : Become(s, h, "exited")
    /\ UNCHANGED <<sessionVars, helperReader, helperStop, inputClosed, pipeVars, sent>>

HelperReads(s) ==
    /\ helperReader[s] = "reading" /\ ~HelperGone(s) /\ toHelper[s] # <<>>
    /\ LET stopping == Head(toHelper[s]) = "stop" IN
       /\ helperStop' = [helperStop EXCEPT ![s] = stopping]
       /\ inputClosed' = [inputClosed EXCEPT ![s] = stopping]
       /\ helperReader' = [helperReader EXCEPT ![s] = IF stopping THEN "ended" ELSE @]
    /\ toHelper' = [toHelper EXCEPT ![s] = Tail(@)]
    /\ UNCHANGED <<sessionVars, helper, pipe, toService, sent>>

HelperReadFails(s) ==
    /\ helperReader[s] = "reading" /\ ~HelperGone(s) /\ ServiceGone(s)
    /\ inputClosed' = [inputClosed EXCEPT ![s] = TRUE]
    /\ helperReader' = [helperReader EXCEPT ![s] = "ended"]
    /\ UNCHANGED <<sessionVars, helper, helperStop, pipeVars, sent>>

runHelperMode(s) ==
    \/ HelperDials(s) \/ HelperDialFails(s) \/ HelperStarts(s) \/ HelperFails(s)
    \/ HelperCaptures(s) \/ HelperSends(s) \/ HelperEnds(s)

helperReads(s) == HelperReads(s) \/ HelperReadFails(s)
-----------------------------------------------------------------------------
Next ==
    \/ SharedNext /\ UNCHANGED crossVars
    \/ \E s \in Session :
          \/ startCrossSessionStream(s) \/ runCrossSession(s)
          \/ ViewerSends(s) \/ ForwardInput(s)
          \/ runHelperMode(s) \/ helperReads(s) \/ HelperQuits(s)

Spec == Init /\ [][Next]_vars

Writes(s) == SendInit(s) \/ Forward(s) \/ Notify(s) \/ Adapt(s) \/ SendStop(s)

\* A write that stalls again and again makes progress each time: the write lock
\* of a connection is handed on.  The loop of the helper sees a closed channel
\* among its frames.
LoopRuns(s) ==
    /\ WF_vars(runCrossSession(s)) /\ WF_vars(runHelperMode(s)) /\ WF_vars(helperReads(s))
    /\ SF_vars(Writes(s)) /\ SF_vars(ForwardInput(s)) /\ SF_vars(HelperEnds(s))

FairSpec == Spec /\ SharedFairness /\ \A s \in Session : LoopRuns(s)
-----------------------------------------------------------------------------
\* Accepting and forwarding the init message precede the loop, and the rest of
\* the relay belongs to it; the reader reads on after each message.
AbstractPlace(l) ==
    IF l \in {"awaitInit", "sendInit"} THEN "start"
    ELSE IF l \in {"recv", "forward", "adapt", "notify", "sendStop"} THEN "loop"
    ELSE IF l = "forwarding" THEN "reading" ELSE l

AbstractPc == [p \in DOMAIN pc |-> AbstractPlace(pc[p])]

Abstract == INSTANCE StreamSession WITH pc <- AbstractPc

\* runCrossSession keeps to the life cycle that stop, the map and the two other
\* goroutines rely on, as the direct run does.
ImplementsSession == Abstract!SessionSpec

TypeOK ==
    /\ Abstract!SessionTypeOK
    /\ helper \in [Session -> {"none", "dialing", "connected", "streaming", "sending", "exited"}]
    /\ helperReader \in [Session -> {"none", "reading", "ended"}]
    /\ helperStop \in [Session -> BOOLEAN]
    /\ inputClosed \in [Session -> BOOLEAN]
    /\ pipe \in [Session -> {"none", "queued", "open", "closed"}]
    /\ toHelper \in [Session -> Seq({"input", "stop"})]
    /\ toService \in [Session -> Seq({"init", "frame"})]
    /\ sent \in [Session -> 0 .. MaxMessages]

\* The helper's init message comes first on the pipe: while the service has
\* not taken it, nothing else can be mistaken for it or make it give up.
InitFirst ==
    \A s \in Session :
        pc[Run(s)] \in {"start", "awaitInit"} /\ toService[s] # <<>>
            => Head(toService[s]) = "init"

\* No helper is left behind: once its session is told to stop, or has ended in
\* any other way, the process exits, also when it never connected.
HelperReaped ==
    \A s \in Session :
        (stopCh[s] \/ pc[Run(s)] = "ended") ~> helper[s] \in {"none", "exited"}
=============================================================================
