----------------------------- MODULE CrossProofs -----------------------------
(***************************************************************************)
(* The cross-session stream implements StreamSession, for any sessions,    *)
(* close commands, assignment of tokens, and bounds: each step of          *)
(* CrossStream is, seen through AbstractPc, a step of SessionNext or none. *)
(* The argument is that of DirectProofs, for another map of places; what   *)
(* must end ends although service and helper wait for each other.  And     *)
(* the pipe beneath keeps the messages of a writer in order.               *)
(***************************************************************************)
EXTENDS CrossStream, StreamProofs, Pipe, SequenceTheorems
-----------------------------------------------------------------------------
LEMMA Own ==
    ASSUME NEW s \in Session
    PROVE  Run(s) \in Goroutine /\ Keepalive(s) \in Goroutine /\ Reader(s) \in Goroutine
BY DEF Run, Keepalive, Reader, Goroutine

LEMMA At ==
    ASSUME Placed, NEW p \in Goroutine \cup Closer
    PROVE  AbstractPc[p] = AbstractPlace(pc[p])
BY DEF Placed, AbstractPc

\* A goroutine that moves, moves in the abstraction, unless its place maps to
\* where it was.
LEMMA Moves ==
    ASSUME Placed, NEW p \in Goroutine \cup Closer, NEW l, Goto(p, l)
    PROVE  /\ Placed'
           /\ AbstractPc' = [AbstractPc EXCEPT ![p] = AbstractPlace(l)]
           /\ AbstractPlace(l) = AbstractPlace(pc[p]) => AbstractPc' = AbstractPc
<1>1. pc' = [pc EXCEPT ![p] = l] /\ DOMAIN pc' = DOMAIN pc
    BY DEF Goto
<1>2. \A q \in DOMAIN pc : pc'[q] = IF q = p THEN l ELSE pc[q]
    BY <1>1
<1>3. AbstractPc = [q \in DOMAIN pc |-> AbstractPlace(pc[q])]
    BY DEF AbstractPc
<1>4. AbstractPc' = [q \in DOMAIN pc' |-> AbstractPlace(pc'[q])]
    BY DEF AbstractPc
<1> HIDE DEF AbstractPlace
<1>5. AbstractPc' = [AbstractPc EXCEPT ![p] = AbstractPlace(l)]
    BY <1>1, <1>2, <1>3, <1>4
<1>6. AbstractPlace(l) = AbstractPlace(pc[p]) => AbstractPc' = AbstractPc
    BY <1>1, <1>2, <1>3, <1>4
<1>7. QED
    BY <1>1, <1>5, <1>6 DEF Placed

LEMMA Stays == UNCHANGED pc => AbstractPc' = AbstractPc /\ (Placed => Placed')
BY DEF AbstractPc, Placed

\* The steps that both modules have.
LEMMA StopMaps ==
    ASSUME Placed, NEW p \in Goroutine \cup Closer, NEW s, stop(p, s)
    PROVE  Abstract!stop(p, s) /\ Placed'
<1>1. CASE CloseStopCh(p, s)
    BY <1>1, At, Moves DEF CloseStopCh, AbstractPlace, Abstract!stop, Abstract!CloseStopCh, Abstract!Goto
<1>2. CASE CloseSocket(p, s)
    BY <1>2, At, Moves DEF CloseSocket, AbstractPlace, Abstract!stop, Abstract!CloseSocket, Abstract!Goto,
       Written, CanWrite, WriteFails, Abstract!Written, Abstract!CanWrite, Abstract!WriteFails
<1>3. CASE Forget(p, s)
    BY <1>3, At, Moves DEF Forget, AbstractPlace, Abstract!stop, Abstract!Forget, Abstract!Goto
<1>4. CASE JoinStop(p, s)
    BY <1>4, At, Moves DEF JoinStop, AbstractPlace, Abstract!stop, Abstract!JoinStop, Abstract!Goto
<1>5. QED
    BY <1>1, <1>2, <1>3, <1>4 DEF stop

LEMMA SharedMaps ==
    ASSUME Placed, SharedNext
    PROVE  Abstract!SharedNext /\ Placed'
<1>1. ASSUME NEW c \in Closer, stopStream(c) PROVE Abstract!stopStream(c) /\ Placed'
    <2>1. CASE LoadStream(c)
        BY <2>1, At, Moves DEF LoadStream, AbstractPlace, Abstract!stopStream,
           Abstract!LoadStream, Abstract!Goto
    <2>2. CASE found[c] # None /\ stop(c, found[c])
        BY <2>2, StopMaps DEF Abstract!stopStream
    <2>3. QED
        BY <1>1, <2>1, <2>2 DEF stopStream
<1>2. ASSUME NEW s \in Session, Store(s)
      PROVE  Abstract!Store(s) /\ Placed'
    BY <1>2, At, Moves, Own DEF Store, AbstractPlace, Abstract!Store, Abstract!Goto,
       Run, Abstract!Run
<1>3. ASSUME NEW s \in Session, stop(Run(s), s) \/ keepalive(s) \/ reader(s) \/ CloseFrame(s)
      PROVE  /\ Abstract!stop(Run(s), s) \/ Abstract!keepalive(s) \/ Abstract!reader(s)
                \/ Abstract!CloseFrame(s)
             /\ Placed'
    <2>1. CASE stop(Run(s), s) \/ stop(Keepalive(s), s) \/ stop(Reader(s), s)
        BY <2>1, StopMaps, Own DEF Abstract!keepalive, Abstract!reader,
           Keepalive, Reader, Abstract!Keepalive, Abstract!Reader
    <2>2. CASE KeepaliveEnds(s) \/ PingFails(s)
        BY <2>2, At, Moves, Own DEF KeepaliveEnds, PingFails, AbstractPlace, Abstract!keepalive,
           Abstract!KeepaliveEnds, Abstract!PingFails, Abstract!Goto, Keepalive,
           Abstract!Keepalive, WriteFails, Abstract!WriteFails
    <2>3. CASE ReadFails(s) \/ CloseFrame(s)
        BY <2>3, At, Moves, Own DEF ReadFails, CloseFrame, AbstractPlace, Abstract!reader,
           Abstract!ReadFails, Abstract!CloseFrame, Abstract!Goto, Reader, Abstract!Reader,
           WriteFails, Abstract!WriteFails
    <2>4. QED
        BY <1>3, <2>1, <2>2, <2>3 DEF keepalive, reader
<1>4. ASSUME NEW s \in Session, Stall(s) \/ Resume(s) \/ Lose(s)
      PROVE  (Abstract!Stall(s) \/ Abstract!Resume(s) \/ Abstract!Lose(s)) /\ Placed'
    BY <1>4, Stays DEF Stall, Resume, Lose, Abstract!Stall, Abstract!Resume, Abstract!Lose
<1>5. QED
    BY <1>1, <1>2, <1>3, <1>4 DEF SharedNext, Abstract!SharedNext, Run, Abstract!Run

\* A step of the run goroutine alone.
LEMMA StepMaps ==
    ASSUME Placed, NEW s \in Session, NEW from, NEW to, Step(s, from, to)
    PROVE  /\ Abstract!Step(s, AbstractPlace(from), AbstractPlace(to))
           /\ AbstractPlace(from) = AbstractPlace(to) => UNCHANGED Abstract!sessionVars
           /\ Placed'
BY At, Moves, Own DEF Step, Abstract!Step, Abstract!Goto, Abstract!sessionVars, Run, Abstract!Run
-----------------------------------------------------------------------------
(* The steps of the cross-session stream.                                   *)
\* Those of the reader, between two of its reads.
viewerInput(s) == ViewerSends(s) \/ ForwardInput(s)

\* The reader is where it reads, for the abstraction.
LEMMA ReaderMaps ==
    ASSUME Placed, NEW s \in Session, viewerInput(s)
    PROVE  UNCHANGED Abstract!sessionVars /\ Placed'
<1>1. ASSUME NEW from \in {"reading", "forwarding"}, NEW to \in {"reading", "forwarding"},
             ReaderTurns(s, from, to)
      PROVE  UNCHANGED Abstract!sessionVars /\ Placed'
    <2>1. AbstractPlace(to) = AbstractPlace(pc[Reader(s)])
        BY <1>1 DEF ReaderTurns, AbstractPlace
    <2>. QED BY <1>1, <2>1, Moves, Own DEF ReaderTurns, Abstract!sessionVars
<1>. QED BY <1>1 DEF viewerInput, ViewerSends, ForwardInput

LEMMA RunMaps ==
    ASSUME Placed, NEW s \in Session, startCrossSessionStream(s) \/ runCrossSession(s)
    PROVE  (Abstract!RunStep(s) \/ UNCHANGED Abstract!sessionVars) /\ Placed'
<1>1. CASE Dial(s) \/ DialFails(s) \/ SpawnFails(s)
    BY <1>1, At, Moves, Own DEF Dial, DialFails, SpawnFails, Step, AbstractPlace,
       Abstract!RunStep, Abstract!Dial, Abstract!DialFails, Abstract!Goto, Run, Abstract!Run
<1>2. CASE Spawn(s)
    BY <1>2, Stays DEF Spawn, sessionVars, Abstract!sessionVars
\* The init message is through: the two other goroutines start.
<1>3. ASSUME SendInit(s),
             pc' = [pc EXCEPT ![Run(s)] = "loop", ![Keepalive(s)] = "idle",
                              ![Reader(s)] = "reading"],
             UNCHANGED <<activeStreams, found, stopCh, once, sock, peer>>
      PROVE  Abstract!RunStep(s) /\ Placed'
    <2>1. AbstractPc' = [AbstractPc EXCEPT ![Run(s)] = "loop", ![Keepalive(s)] = "idle",
                                           ![Reader(s)] = "reading"]
        BY <1>3 DEF AbstractPc, AbstractPlace
    <2>2. AbstractPc[Run(s)] = "start"
        BY <1>3, At, Own DEF SendInit, AbstractPlace
    <2>3. Abstract!StartLoop(s) /\ Placed'
        BY <1>3, <2>1, <2>2 DEF Abstract!StartLoop, Placed,
           Run, Keepalive, Reader, Abstract!Run, Abstract!Keepalive, Abstract!Reader
    <2>4. QED
        BY <2>3 DEF Abstract!RunStep
\* What a step from one place to another is in the abstraction.
<1>4. ASSUME NEW from, NEW to, Step(s, from, to),
             \/ AbstractPlace(from) = AbstractPlace(to)
             \/ AbstractPlace(from) \in {"start", "loop"} /\ AbstractPlace(to) = "return"
             \/ AbstractPlace(from) = "return" /\ AbstractPlace(to) = "stop"
      PROVE  (Abstract!RunStep(s) \/ UNCHANGED Abstract!sessionVars) /\ Placed'
    <2>1. /\ Abstract!Step(s, AbstractPlace(from), AbstractPlace(to)) /\ Placed'
          /\ AbstractPlace(from) = AbstractPlace(to) => UNCHANGED Abstract!sessionVars
        BY <1>4, StepMaps
    <2>2. QED
        BY <1>4, <2>1 DEF Abstract!RunStep
<1> DEFINE Starting == {"start", "awaitInit", "sendInit"}
           Looping == {"loop", "recv", "forward", "adapt", "notify", "sendStop"}
<1>5. CASE \E from \in Starting, to \in Starting \cup {"return"} : Step(s, from, to)
    BY <1>4, <1>5 DEF AbstractPlace
<1>6. CASE \E from \in Looping, to \in Looping \cup {"return"} : Step(s, from, to)
    BY <1>4, <1>6 DEF AbstractPlace
<1>7. CASE Step(s, "return", "stop")
    BY <1>4, <1>7 DEF AbstractPlace
<1>8. Accept(s) \/ AcceptTimeout(s) \/ RecvInit(s) =>
          \E from \in Starting, to \in Starting \cup {"return"} : Step(s, from, to)
    BY DEF Accept, AcceptTimeout, RecvInit
<1>9. RecvFails(s) => \/ Step(s, "awaitInit", "return")
                      \/ Step(s, "recv", "return")
    BY DEF RecvFails
<1>10. SendInit(s) =>
          \/ Step(s, "sendInit", "return")
          \/ /\ pc' = [pc EXCEPT ![Run(s)] = "loop", ![Keepalive(s)] = "idle",
                                  ![Reader(s)] = "reading"]
             /\ UNCHANGED <<activeStreams, found, stopCh, once, sock, peer>>
    BY DEF SendInit
<1>11. SeeStop(s) \/ BeginRecv(s) \/ RecvTimeout(s) \/ Recv(s) =>
          \E from \in Looping, to \in Looping \cup {"return"} : Step(s, from, to)
    BY DEF SeeStop, BeginRecv, RecvTimeout, Recv
<1>12. Forward(s) \/ Adapt(s) \/ Notify(s) \/ SendStop(s) =>
          \E from \in Looping, to \in Looping \cup {"return"} : Step(s, from, to)
    BY DEF Forward, Adapt, Notify, SendStop
<1>13. Return(s) => Step(s, "return", "stop")
    BY DEF Return
<1>14. CASE startCrossSessionStream(s)
    BY <1>1, <1>2, <1>14 DEF startCrossSessionStream
<1>15. CASE RecvFails(s) \/ SendInit(s)
    BY <1>3, <1>5, <1>6, <1>9, <1>10, <1>15
<1> HIDE DEF Starting, Looping
<1>16. CASE runCrossSession(s) /\ ~RecvFails(s) /\ ~SendInit(s)
    BY <1>5, <1>6, <1>7, <1>8, <1>11, <1>12, <1>13, <1>16 DEF runCrossSession
<1>17. QED
    BY <1>14, <1>15, <1>16

\* Every step maps to a step, or to none.
LEMMA NextMaps == Placed /\ [Next]_vars => [Abstract!SessionNext]_Abstract!sessionVars /\ Placed'
<1> SUFFICES ASSUME Placed, [Next]_vars
             PROVE  [Abstract!SessionNext]_Abstract!sessionVars /\ Placed'
    OBVIOUS
<1>1. CASE SharedNext
    BY <1>1, SharedMaps DEF Abstract!SessionNext
<1>2. ASSUME NEW s \in Session, startCrossSessionStream(s) \/ runCrossSession(s)
      PROVE  [Abstract!SessionNext]_Abstract!sessionVars /\ Placed'
    BY <1>2, RunMaps DEF Abstract!SessionNext
<1>3. ASSUME UNCHANGED sessionVars
      PROVE  [Abstract!SessionNext]_Abstract!sessionVars /\ Placed'
    BY <1>3, Stays DEF sessionVars, Abstract!sessionVars
<1>4. ASSUME NEW s \in Session, helperReads(s) \/ HelperQuits(s)
      PROVE  UNCHANGED sessionVars
    BY <1>4 DEF helperReads, HelperReads, HelperReadFails, HelperQuits
<1>5. ASSUME NEW s \in Session, runHelperMode(s)
      PROVE  UNCHANGED sessionVars
    BY <1>5 DEF runHelperMode, HelperDials, HelperDialFails, HelperStarts, HelperFails,
       HelperCaptures, HelperSends, HelperEnds
<1>6. UNCHANGED vars => UNCHANGED sessionVars
    BY DEF vars
<1>7. QED
    BY <1>1, <1>2, <1>3, <1>4, <1>5, <1>6, ReaderMaps DEF Next, viewerInput

LEMMA InitMaps == SessionConstants /\ Init => Abstract!SessionInit /\ Placed
<1> SUFFICES ASSUME SessionConstants, Init PROVE Abstract!SessionInit /\ Placed
    OBVIOUS
<1>1. pc = [p \in Goroutine \cup Closer |->
              IF p \in Closer THEN "received" ELSE IF p[2] = "run" THEN "dial" ELSE "none"]
    BY DEF Init, SessionInit
<1>2. AbstractPc = pc
    BY <1>1 DEF AbstractPc, AbstractPlace
<1>3. Placed
    BY <1>1 DEF Placed
<1>4. QED
    BY <1>1, <1>2, <1>3 DEF Init, SessionInit, Abstract!SessionInit, Goroutine,
       Abstract!Goroutine, Token, Abstract!Token

\* runCrossSession keeps to the life cycle of StreamSession: whatever the helper
\* does, the session is stored once, its two other goroutines start with the
\* loop, and it comes to stop from every place it can give up at.
THEOREM CrossImplementsSession == Spec => ImplementsSession
<1>1. Init => Abstract!SessionInit /\ Placed
    BY InitMaps, SessionConstants
<1>2. Placed /\ [Next]_vars => [Abstract!SessionNext]_Abstract!sessionVars /\ Placed'
    BY NextMaps
<1>3. QED
    BY <1>1, <1>2, PTL DEF Spec, ImplementsSession, Abstract!SessionSpec
-----------------------------------------------------------------------------
(* The init message.                                                        *)
\* The service has not taken the first message.
Waiting == {"dial", "dialled", "start", "awaitInit"}

Fresh == {"none", "dialing", "connected"}

\* A helper that has not begun to stream has written nothing; while the service
\* waits, one that streams has its first message still on the pipe.
FirstInv ==
    /\ Placed
    /\ helper \in [Session -> Fresh \cup {"streaming", "sending", "exited"}]
    /\ toService \in [Session -> Seq({"init", "frame"})]
    /\ \A s \in Session : helper[s] \in Fresh => toService[s] = <<>>
    /\ \A s \in Session : pc[Run(s)] \in Waiting =>
          /\ toService[s] # <<>> => Head(toService[s]) = "init"
          /\ helper[s] \in {"streaming", "sending"} => toService[s] # <<>>

\* The service never comes back to waiting.
StillWaiting == \A s \in Session : pc'[Run(s)] \in Waiting => pc[Run(s)] \in Waiting

LEMMA MoveOn ==
    ASSUME Placed, NEW p, NEW l, Goto(p, l), l \in Waiting => pc[p] \in Waiting
    PROVE  StillWaiting
BY Own DEF Placed, Goto, StillWaiting

LEMMA StopMovesOn ==
    ASSUME Placed, NEW p, NEW s, stop(p, s)
    PROVE  StillWaiting
<1>1. PICK l \in {"closing", "deleting", "ended"} : Goto(p, l)
    BY DEF stop, CloseStopCh, CloseSocket, Forget, JoinStop
<1>2. QED
    BY <1>1, MoveOn DEF Waiting

LEMMA SharedMovesOn ==
    ASSUME Placed, SharedNext
    PROVE  StillWaiting
<1>1. ASSUME NEW c \in Closer, stopStream(c) PROVE StillWaiting
    <2>1. CASE LoadStream(c)
        <3>1. PICK l \in {"ended", "stop"} : Goto(c, l)
            BY <2>1 DEF LoadStream
        <3>2. QED
            BY <3>1, MoveOn DEF Waiting
    <2>2. QED
        BY <1>1, <2>1, StopMovesOn DEF stopStream
<1>2. ASSUME NEW s \in Session, Store(s) PROVE StillWaiting
    BY <1>2, MoveOn DEF Store, Waiting
<1>3. ASSUME NEW s \in Session, stop(Run(s), s) \/ keepalive(s) \/ reader(s) \/ CloseFrame(s)
      PROVE  StillWaiting
    <2>1. CASE KeepaliveEnds(s) \/ PingFails(s) \/ ReadFails(s) \/ CloseFrame(s)
        <3>1. PICK p \in {Keepalive(s), Reader(s)}, l \in {"ended", "stop"} : Goto(p, l)
            BY <2>1 DEF KeepaliveEnds, PingFails, ReadFails, CloseFrame
        <3>2. QED
            BY <3>1, MoveOn DEF Waiting
    <2>2. QED
        BY <1>3, <2>1, StopMovesOn DEF keepalive, reader
<1>4. ASSUME NEW s \in Session, Stall(s) \/ Resume(s) \/ Lose(s) PROVE StillWaiting
    BY <1>4 DEF Stall, Resume, Lose, StillWaiting
<1>5. QED
    BY <1>1, <1>2, <1>3, <1>4 DEF SharedNext

LEMMA RunMovesOn ==
    ASSUME Placed, NEW s \in Session, startCrossSessionStream(s) \/ runCrossSession(s)
    PROVE  StillWaiting
<1>1. ASSUME NEW from, NEW to, Step(s, from, to), to \in Waiting => from \in Waiting
      PROVE  StillWaiting
    BY <1>1, MoveOn DEF Step
<1>2. CASE startCrossSessionStream(s)
    <2>1. Dial(s) \/ DialFails(s) => StillWaiting
        BY MoveOn DEF Dial, DialFails, Waiting
    <2>2. Spawn(s) => StillWaiting
        BY DEF Spawn, sessionVars, StillWaiting
    <2>3. SpawnFails(s) => StillWaiting
        BY <1>1 DEF SpawnFails, Waiting
    <2>4. QED
        BY <1>2, <2>1, <2>2, <2>3 DEF startCrossSessionStream
<1>3. CASE Accept(s) \/ AcceptTimeout(s) \/ RecvInit(s) \/ RecvFails(s)
    <2>1. CASE Step(s, "start", "awaitInit")
        BY <1>1, <2>1 DEF Waiting
    <2>2. CASE \E from \in {"start", "awaitInit", "recv"}, to \in {"sendInit", "return"} :
                  Step(s, from, to)
        BY <1>1, <2>2 DEF Waiting
    <2>3. QED
        BY <1>3, <2>1, <2>2 DEF Accept, AcceptTimeout, RecvInit, RecvFails
<1>4. CASE SendInit(s)
    <2>1. CASE Step(s, "sendInit", "return")
        BY <1>1, <2>1 DEF Waiting
    <2>2. CASE pc' = [pc EXCEPT ![Run(s)] = "loop", ![Keepalive(s)] = "idle",
                                ![Reader(s)] = "reading"]
        BY <2>2, Own DEF Placed, StillWaiting, Waiting
    <2>3. QED
        BY <1>4, <2>1, <2>2 DEF SendInit
<1>5. CASE SeeStop(s) \/ BeginRecv(s) \/ RecvTimeout(s) \/ Recv(s) \/ Return(s)
    <2>1. PICK from \in {"loop", "recv", "return"},
               to \in {"sendStop", "recv", "loop", "forward", "stop"} : Step(s, from, to)
        BY <1>5 DEF SeeStop, BeginRecv, RecvTimeout, Recv, Return
    <2>2. QED
        BY <1>1, <2>1 DEF Waiting
<1>6. CASE Forward(s) \/ Adapt(s) \/ Notify(s) \/ SendStop(s)
    <2>1. PICK from \in {"forward", "adapt", "notify", "sendStop"},
               to \in {"loop", "return", "adapt", "notify"} : Step(s, from, to)
        BY <1>6 DEF Forward, Adapt, Notify, SendStop
    <2>2. QED
        BY <1>1, <2>1 DEF Waiting
<1>7. QED
    BY <1>2, <1>3, <1>4, <1>5, <1>6 DEF runCrossSession

LEMMA PlacedNext == Placed /\ [Next]_vars => Placed'
BY NextMaps

\* A step that leaves the helper and its messages alone.
LEMMA ElsewhereFirst ==
    ASSUME FirstInv, Placed', StillWaiting, UNCHANGED <<helper, toService>>
    PROVE  FirstInv'
BY DEF FirstInv, StillWaiting

\* The service takes a message: it does not wait any more.
LEMMA TakenFirst ==
    ASSUME FirstInv, Placed', StillWaiting, NEW s \in Session, UNCHANGED helper,
           toService[s] # <<>>, toService' = [toService EXCEPT ![s] = Tail(@)],
           pc'[Run(s)] \notin Waiting
    PROVE  FirstInv'
<1>1. Tail(toService[s]) \in Seq({"init", "frame"})
    BY DEF FirstInv
<1>2. toService' \in [Session -> Seq({"init", "frame"})]
    BY <1>1 DEF FirstInv
<1>3. \A r \in Session : r # s => toService'[r] = toService[r]
    BY DEF FirstInv
<1>4. helper[s] \notin Fresh
    BY DEF FirstInv
<1>5. QED
    BY <1>2, <1>3, <1>4 DEF FirstInv, StillWaiting

\* The helper writes a message; the first of them is init.
LEMMA WrittenFirst ==
    ASSUME FirstInv, Placed', UNCHANGED pc, NEW s \in Session, NEW m \in {"init", "frame"},
           helper[s] = "connected" => m = "init",
           helper[s] \in {"connected", "sending"},
           helper' = [helper EXCEPT ![s] = "streaming"],
           toService' = [toService EXCEPT ![s] = Append(@, m)]
    PROVE  FirstInv'
<1>1. /\ Append(toService[s], m) \in Seq({"init", "frame"}) /\ Append(toService[s], m) # <<>>
      /\ toService[s] # <<>> => Head(Append(toService[s], m)) = Head(toService[s])
      /\ toService[s] = <<>> => Head(Append(toService[s], m)) = m
    BY DEF FirstInv
<1>2. /\ toService' \in [Session -> Seq({"init", "frame"})]
      /\ helper' \in [Session -> Fresh \cup {"streaming", "sending", "exited"}]
    BY <1>1 DEF FirstInv
<1>3. /\ toService'[s] = Append(toService[s], m) /\ helper'[s] = "streaming"
      /\ \A r \in Session : r # s => toService'[r] = toService[r] /\ helper'[r] = helper[r]
    BY DEF FirstInv
<1>4. pc[Run(s)] \in Waiting => Head(toService'[s]) = "init"
    BY <1>1, <1>3 DEF FirstInv, Fresh
<1>5. QED
    BY <1>1, <1>2, <1>3, <1>4 DEF FirstInv, Fresh

\* The helper moves without writing.
LEMMA MovedFirst ==
    ASSUME FirstInv, Placed', UNCHANGED <<pc, toService>>, NEW s \in Session,
           NEW to \in {"dialing", "connected", "sending", "exited"},
           helper' = [helper EXCEPT ![s] = to],
           to = "sending" => helper[s] = "streaming",
           to \in Fresh => helper[s] \in Fresh
    PROVE  FirstInv'
<1>1. helper' \in [Session -> Fresh \cup {"streaming", "sending", "exited"}]
    BY DEF FirstInv, Fresh
<1>2. helper'[s] = to /\ \A r \in Session : r # s => helper'[r] = helper[r]
    BY DEF FirstInv
<1>3. QED
    BY <1>1, <1>2 DEF FirstInv, Fresh

LEMMA NextFirst == FirstInv /\ [Next]_vars => FirstInv'
<1> SUFFICES ASSUME FirstInv, [Next]_vars PROVE FirstInv'
    OBVIOUS
<1>1. Placed /\ Placed'
    BY PlacedNext DEF FirstInv
<1>2. CASE SharedNext /\ UNCHANGED crossVars
    BY <1>1, <1>2, SharedMovesOn, ElsewhereFirst DEF crossVars, helperVars, pipeVars
<1>3. ASSUME NEW s \in Session, startCrossSessionStream(s) PROVE FirstInv'
    <2>1. StillWaiting
        BY <1>1, <1>3, RunMovesOn
    <2>2. CASE Spawn(s)
        BY <1>1, <2>2, MovedFirst DEF Spawn, sessionVars, pipeVars, Fresh
    <2>3. CASE ~Spawn(s)
        BY <1>1, <1>3, <2>1, <2>3, ElsewhereFirst
           DEF startCrossSessionStream, SpawnFails, crossVars, helperVars, pipeVars
    <2>4. QED
        BY <2>2, <2>3
<1>4. ASSUME NEW s \in Session, runCrossSession(s) PROVE FirstInv'
    <2>1. StillWaiting
        BY <1>1, <1>4, RunMovesOn
    <2>2. CASE RecvInit(s) \/ Recv(s)
        <3>1. PICK from \in {"awaitInit", "recv"}, to \in {"sendInit", "return", "loop", "forward"} :
                 Step(s, from, to)
            BY <2>2 DEF RecvInit, Recv
        <3>2. pc'[Run(s)] \notin Waiting
            BY <1>1, <3>1, Own DEF Step, Goto, Placed, Waiting
        <3>3. /\ toService[s] # <<>> /\ toService' = [toService EXCEPT ![s] = Tail(@)]
              /\ UNCHANGED helper
            BY <2>2 DEF RecvInit, Recv, helperVars
        <3>4. QED
            BY <1>1, <2>1, <3>2, <3>3, TakenFirst
    <2>3. CASE Accept(s) \/ AcceptTimeout(s) \/ RecvFails(s) \/ SendInit(s) \/ Return(s)
        BY <1>1, <2>1, <2>3, ElsewhereFirst
           DEF Accept, AcceptTimeout, RecvFails, SendInit, Return, crossVars, helperVars, pipeVars
    <2>4. CASE SeeStop(s) \/ BeginRecv(s) \/ RecvTimeout(s) \/ Forward(s)
        BY <1>1, <2>1, <2>4, ElsewhereFirst
           DEF SeeStop, BeginRecv, RecvTimeout, Forward, crossVars, helperVars, pipeVars
    <2>5. CASE Adapt(s) \/ Notify(s) \/ SendStop(s)
        BY <1>1, <2>1, <2>5, ElsewhereFirst
           DEF Adapt, Notify, SendStop, crossVars, helperVars, pipeVars
    <2>6. QED
        BY <1>4, <2>2, <2>3, <2>4, <2>5 DEF runCrossSession
<1>5. ASSUME NEW s \in Session, HelperStarts(s) \/ HelperSends(s) PROVE FirstInv'
    <2>1. PICK m \in {"init", "frame"} :
             /\ Sent(toService, s, m)
             /\ helper[s] = "connected" => m = "init"
        BY <1>5 DEF HelperStarts, HelperSends, Become
    <2>2. UNCHANGED pc /\ helper[s] \in {"connected", "sending"}
          /\ helper' = [helper EXCEPT ![s] = "streaming"]
        BY <1>5 DEF HelperStarts, HelperSends, Become, sessionVars
    <2>3. QED
        BY <1>1, <2>1, <2>2, WrittenFirst DEF Sent
<1>6. ASSUME NEW s \in Session,
             \/ HelperDials(s) \/ HelperDialFails(s) \/ HelperFails(s)
             \/ HelperCaptures(s) \/ HelperEnds(s) \/ HelperQuits(s)
      PROVE  FirstInv'
    <2>1. PICK to \in {"connected", "sending", "exited"} :
             /\ helper' = [helper EXCEPT ![s] = to]
             /\ to = "sending" => helper[s] = "streaming"
             /\ to = "connected" => helper[s] = "dialing"
        BY <1>6 DEF HelperDials, HelperDialFails, HelperFails, HelperCaptures, HelperEnds,
           HelperQuits, Become
    <2>2. UNCHANGED <<pc, toService>>
        BY <1>6 DEF HelperDials, HelperDialFails, HelperFails, HelperCaptures, HelperEnds,
           HelperQuits, sessionVars, pipeVars
    <2>3. QED
        BY <1>1, <2>1, <2>2, MovedFirst DEF Fresh
<1>7. ASSUME NEW s \in Session, helperReads(s) PROVE FirstInv'
    <2>1. UNCHANGED <<pc, helper, toService>>
        BY <1>7 DEF helperReads, HelperReads, HelperReadFails, sessionVars, helperVars, pipeVars
    <2>2. QED
        BY <1>1, <2>1, ElsewhereFirst DEF StillWaiting
<1>10. ASSUME NEW s \in Session, viewerInput(s) PROVE FirstInv'
    <2>1. StillWaiting
        BY <1>1, <1>10, MoveOn DEF viewerInput, ViewerSends, ForwardInput, ReaderTurns, Waiting
    <2>2. UNCHANGED <<helper, toService>>
        BY <1>10 DEF viewerInput, ViewerSends, ForwardInput, helperVars, pipeVars
    <2>. QED BY <1>1, <2>1, <2>2, ElsewhereFirst
<1>8. CASE UNCHANGED vars
    BY <1>1, <1>8, ElsewhereFirst DEF vars, sessionVars, crossVars, helperVars, pipeVars,
       StillWaiting
<1>9. QED
    BY <1>2, <1>3, <1>4, <1>5, <1>6, <1>7, <1>8, <1>10 DEF Next, runHelperMode, viewerInput

LEMMA FirstInit == Init => FirstInv
BY InitMaps, SessionConstants DEF Init, FirstInv, Fresh

\* What the service takes for the init message is one: the helper writes it
\* first, and until it has been taken it stays at the head of the pipe.
THEOREM InitFirstAlways == Spec => []InitFirst
<1>1. Init => FirstInv
    BY FirstInit
<1>2. FirstInv /\ [Next]_vars => FirstInv'
    BY NextFirst
<1>3. FirstInv => InitFirst
    BY DEF FirstInv, Waiting, InitFirst
<1>4. QED
    BY <1>1, <1>2, <1>3, PTL DEF Spec
-----------------------------------------------------------------------------
(* What is proved of StreamSession holds here, of the places seen through   *)
(* AbstractPlace; those that stop and the map depend on map to themselves.  *)
Life == INSTANCE StreamProofs WITH pc <- AbstractPc

LEMMA SameLife ==
    /\ SessionConstants <=> Life!SessionConstants
    /\ Abstract!SessionInit <=> Life!SessionInit
    /\ UNCHANGED Abstract!sessionVars <=> UNCHANGED Life!sessionVars
    /\ Abstract!SessionTypeOK <=> Life!SessionTypeOK
BY DEF SessionConstants, Abstract!SessionInit, Abstract!sessionVars, Abstract!SessionTypeOK,
   Abstract!Token, Abstract!Goroutine, Abstract!Run, Abstract!Keepalive, Abstract!Reader,
   Life!SessionConstants, Life!SessionInit, Life!sessionVars, Life!SessionTypeOK,
   Life!Token, Life!Goroutine, Life!Run, Life!Keepalive, Life!Reader

LEMMA SameSteps == Abstract!SessionNext <=> Life!SessionNext
BY DEF Abstract!SessionNext, Abstract!SharedNext, Abstract!RunStep, Abstract!stopStream,
   Abstract!LoadStream, Abstract!stop, Abstract!CloseStopCh, Abstract!CloseSocket,
   Abstract!Forget, Abstract!JoinStop, Abstract!Store, Abstract!keepalive,
   Abstract!KeepaliveEnds, Abstract!PingFails, Abstract!reader, Abstract!ReadFails,
   Abstract!CloseFrame, Abstract!Stall, Abstract!Resume, Abstract!Lose, Abstract!Dial,
   Abstract!DialFails, Abstract!StartLoop, Abstract!Step, Abstract!Goto, Abstract!CanWrite,
   Abstract!WriteFails, Abstract!Written, Abstract!Run, Abstract!Keepalive, Abstract!Reader,
   Life!SessionNext, Life!SharedNext, Life!RunStep, Life!stopStream,
   Life!LoadStream, Life!stop, Life!CloseStopCh, Life!CloseSocket,
   Life!Forget, Life!JoinStop, Life!Store, Life!keepalive,
   Life!KeepaliveEnds, Life!PingFails, Life!reader, Life!ReadFails,
   Life!CloseFrame, Life!Stall, Life!Resume, Life!Lose, Life!Dial,
   Life!DialFails, Life!StartLoop, Life!Step, Life!Goto, Life!CanWrite,
   Life!WriteFails, Life!Written, Life!Run, Life!Keepalive, Life!Reader

\* The inductive invariant of StreamSession is one of the cross-session stream.
THEOREM CrossInvariant == Spec => [](Placed /\ Life!IInv)
<1>1. Init => Placed /\ Life!IInv
    BY InitMaps, SameLife, Life!InitInv, SessionConstants
<1>2. Placed /\ Life!IInv /\ [Next]_vars => Placed' /\ Life!IInv'
    BY NextMaps, SameLife, SameSteps, Life!StepInv, SessionConstants
<1>3. QED
    BY <1>1, <1>2, PTL DEF Spec

LEMMA SamePlaces ==
    ASSUME Placed, NEW p \in Goroutine \cup Closer
    PROVE  /\ AbstractPc[p] \in {"dial", "dialled", "ended"} => AbstractPc[p] = pc[p]
           /\ pc[p] \in {"dial", "dialled", "ended"} => AbstractPc[p] = pc[p]
           /\ AbstractPc[p] \in {"closing", "deleting"} => AbstractPc[p] = pc[p]
           /\ pc[p] \in {"closing", "deleting"} => AbstractPc[p] = pc[p]
BY At DEF AbstractPlace

\* Whatever the helpers do, and whenever they exit, activeStreams leads to no
\* stopped stream, and loses a running one only to another open.
THEOREM CrossEntriesServed == Spec => []EntriesServed
<1>1. Placed /\ Life!IInv => EntriesServed
    <2> SUFFICES ASSUME Placed, Life!IInv PROVE EntriesServed
        OBVIOUS
    <2>1. /\ \A t \in Token : activeStreams[t] # None => once[activeStreams[t]] # "done"
          /\ \A s \in Session : Life!Running(s) =>
                \/ activeStreams[TokenOf[s]] = s
                \/ \E r \in Session \ {s} :
                      TokenOf[r] = TokenOf[s] /\ AbstractPc[Run(r)] \notin {"dial", "dialled"}
        BY DEF Life!IInv, Life!Entries, Life!Found, Life!Token, Token, Life!Run, Run
    <2>2. \A s \in Session : Running(s) => Life!Running(s)
        BY SamePlaces, Own DEF Running, Life!Running, Run, Life!Run
    <2>3. \A r \in Session : AbstractPc[Run(r)] \notin {"dial", "dialled"} =>
                             pc[Run(r)] \notin {"dial", "dialled"}
        BY SamePlaces, Own
    <2>4. QED
        BY <2>1, <2>2, <2>3 DEF EntriesServed
<1>2. QED
    BY <1>1, CrossInvariant, PTL

LEMMA LifeStopOnce == Placed /\ Life!IInv => StopOnce
<1> SUFFICES ASSUME Placed, Life!IInv PROVE StopOnce
    OBVIOUS
<1>1. \A p \in Goroutine \cup Closer, s \in Session : Stopping(p, s) <=> Life!Stopping(p, s)
    BY SamePlaces DEF Stopping, Life!Stopping
<1>2. QED
    BY <1>1 DEF Life!IInv, Life!Exclusive, Life!Closed, Life!Goroutine, Goroutine, StopOnce

\* The relay loop, the keepalive goroutine, the reader and any number of close
\* commands call stop, and its body runs once.
THEOREM CrossStopOnce == Spec => []StopOnce
BY LifeStopOnce, CrossInvariant, PTL

-----------------------------------------------------------------------------
(* The types of the helper and of its pipe.                                 *)
HelperPlace == {"none", "dialing", "connected", "streaming", "sending", "exited"}

HelperTypes ==
    /\ helper \in [Session -> HelperPlace]
    /\ helperReader \in [Session -> {"none", "reading", "ended"}]
    /\ helperStop \in [Session -> BOOLEAN]
    /\ inputClosed \in [Session -> BOOLEAN]

PipeTypes ==
    /\ pipe \in [Session -> {"none", "queued", "open", "closed"}]
    /\ toHelper \in [Session -> Seq({"input", "stop"})]
    /\ toService \in [Session -> Seq({"init", "frame"})]
    /\ \A s \in Session : Len(toHelper[s]) <= PipeCap /\ Len(toService[s]) <= PipeCap

\* What a full pipe does not take waits: both directions keep to the capacity.
LEMMA SentType ==
    ASSUME CrossConstants, NEW M, NEW q \in [Session -> Seq(M)], NEW q1, NEW s \in Session, NEW m \in M,
           \A r \in Session : Len(q[r]) <= PipeCap,
           Len(q[s]) < PipeCap, q1 = [q EXCEPT ![s] = Append(@, m)]
    PROVE  q1 \in [Session -> Seq(M)] /\ \A r \in Session : Len(q1[r]) <= PipeCap
<1>1. /\ Append(q[s], m) \in Seq(M) /\ Len(Append(q[s], m)) = Len(q[s]) + 1
      /\ Len(q[s]) \in Nat
    OBVIOUS
<1>2. q1 = [q EXCEPT ![s] = Append(q[s], m)]
    OBVIOUS
<1>3. q1 \in [Session -> Seq(M)]
    BY <1>1, <1>2
<1>4. Len(q1[s]) <= PipeCap
    BY <1>1, <1>2 DEF CrossConstants
<1>5. \A r \in Session \ {s} : q1[r] = q[r]
    BY <1>2
<1>6. QED
    BY <1>3, <1>4, <1>5

LEMMA TakenType ==
    ASSUME CrossConstants, NEW M, NEW q \in [Session -> Seq(M)], NEW q1, NEW s \in Session,
           \A r \in Session : Len(q[r]) <= PipeCap,
           q[s] # <<>>, q1 = [q EXCEPT ![s] = Tail(@)]
    PROVE  q1 \in [Session -> Seq(M)] /\ \A r \in Session : Len(q1[r]) <= PipeCap
<1>1. /\ Tail(q[s]) \in Seq(M) /\ Len(Tail(q[s])) \in Nat /\ Len(q[s]) \in Nat
      /\ Len(Tail(q[s])) <= Len(q[s])
    OBVIOUS
<1>2. q1 = [q EXCEPT ![s] = Tail(q[s])]
    OBVIOUS
<1>3. q1 \in [Session -> Seq(M)]
    BY <1>1, <1>2
<1>4. Len(q1[s]) <= PipeCap
    <2>1. Len(q1[s]) = Len(Tail(q[s])) /\ Len(q[s]) <= PipeCap
        BY <1>2
    <2>2. QED
        BY <1>1, <2>1 DEF CrossConstants
<1>5. \A r \in Session \ {s} : q1[r] = q[r]
    BY <1>2
<1>6. QED
    BY <1>3, <1>4, <1>5

\* What a step does to the pipe.
PipeMoves(s) ==
    /\ \E l \in {"none", "queued", "open", "closed"} : pipe' = [pipe EXCEPT ![s] = l]
    /\ UNCHANGED <<toHelper, toService>>
ToHelper(s) ==
    /\ \/ \E m \in {"input", "stop"} : Sent(toHelper, s, m)
       \/ toHelper[s] # <<>> /\ toHelper' = [toHelper EXCEPT ![s] = Tail(@)]
    /\ UNCHANGED <<pipe, toService>>
ToService(s) ==
    /\ \/ \E m \in {"init", "frame"} : Sent(toService, s, m)
       \/ toService[s] # <<>> /\ toService' = [toService EXCEPT ![s] = Tail(@)]
    /\ UNCHANGED <<pipe, toHelper>>

LEMMA ServicePipeKinds ==
    ASSUME PipeTypes, NEW s \in Session,
           startCrossSessionStream(s) \/ runCrossSession(s) \/ viewerInput(s)
    PROVE  UNCHANGED pipeVars \/ PipeMoves(s) \/ ToHelper(s) \/ ToService(s)
<1>1. CASE startCrossSessionStream(s)
    BY <1>1 DEF startCrossSessionStream, Spawn, SpawnFails, crossVars
<1>2. CASE Accept(s)
    BY <1>2 DEF Accept, PipeMoves
<1>3. CASE Return(s)
    <2>1. pipe[s] \in {"none", "queued", "open", "closed"}
        BY DEF PipeTypes
    <2>2. QED
        BY <1>3, <2>1 DEF Return, PipeMoves
<1>4. CASE RecvInit(s) \/ Recv(s)
    BY <1>4 DEF RecvInit, Recv, ToService
<1>5. CASE Adapt(s) \/ SendStop(s) \/ viewerInput(s)
    BY <1>5 DEF Adapt, SendStop, viewerInput, ViewerSends, ForwardInput, ToHelper, pipeVars
<1>6. CASE AcceptTimeout(s) \/ RecvFails(s) \/ SendInit(s) \/ SeeStop(s) \/ BeginRecv(s)
    BY <1>6 DEF AcceptTimeout, RecvFails, SendInit, SeeStop, BeginRecv, crossVars
<1>7. CASE RecvTimeout(s) \/ Forward(s) \/ Notify(s)
    BY <1>7 DEF RecvTimeout, Forward, Notify, crossVars
<1>8. QED
    BY <1>1, <1>2, <1>3, <1>4, <1>5, <1>6, <1>7 DEF runCrossSession

LEMMA HelperPipeKinds ==
    ASSUME NEW s \in Session, runHelperMode(s) \/ helperReads(s) \/ HelperQuits(s)
    PROVE  UNCHANGED pipeVars \/ PipeMoves(s) \/ ToHelper(s) \/ ToService(s)
<1>1. CASE HelperDials(s)
    BY <1>1 DEF HelperDials, PipeMoves
<1>2. CASE HelperStarts(s) \/ HelperSends(s)
    BY <1>2 DEF HelperStarts, HelperSends, ToService
<1>3. CASE HelperReads(s)
    BY <1>3 DEF HelperReads, ToHelper
<1>4. CASE HelperDialFails(s) \/ HelperFails(s) \/ HelperCaptures(s) \/ HelperEnds(s)
           \/ HelperQuits(s) \/ HelperReadFails(s)
    BY <1>4 DEF HelperDialFails, HelperFails, HelperCaptures, HelperEnds, HelperQuits,
       HelperReadFails
<1>5. QED
    BY <1>1, <1>2, <1>3, <1>4 DEF runHelperMode, helperReads

LEMMA PipeTypesNext ==
    ASSUME CrossConstants, PipeTypes, [Next]_vars
    PROVE  PipeTypes'
<1>1. CASE UNCHANGED pipeVars
    BY <1>1 DEF pipeVars, PipeTypes
<1>2. ASSUME NEW s \in Session, PipeMoves(s) PROVE PipeTypes'
    <2>1. pipe' \in [Session -> {"none", "queued", "open", "closed"}]
        BY <1>2 DEF PipeMoves, PipeTypes
    <2>2. QED
        BY <1>2, <2>1 DEF PipeMoves, PipeTypes
<1>3. ASSUME NEW s \in Session, ToHelper(s) PROVE PipeTypes'
    <2>1. /\ toHelper' \in [Session -> Seq({"input", "stop"})]
          /\ \A r \in Session : Len(toHelper'[r]) <= PipeCap
        <3>1. toHelper \in [Session -> Seq({"input", "stop"})] /\ \A r \in Session : Len(toHelper[r]) <= PipeCap
            BY DEF PipeTypes
        <3>2. CASE \E m \in {"input", "stop"} : Sent(toHelper, s, m)
            BY <3>1, <3>2, SentType DEF Sent
        <3>3. CASE toHelper[s] # <<>> /\ toHelper' = [toHelper EXCEPT ![s] = Tail(@)]
            BY <3>1, <3>3, TakenType
        <3>4. QED
            BY <1>3, <3>2, <3>3 DEF ToHelper
    <2>2. QED
        BY <1>3, <2>1 DEF ToHelper, PipeTypes
<1>4. ASSUME NEW s \in Session, ToService(s) PROVE PipeTypes'
    <2>1. /\ toService' \in [Session -> Seq({"init", "frame"})]
          /\ \A r \in Session : Len(toService'[r]) <= PipeCap
        <3>1. toService \in [Session -> Seq({"init", "frame"})] /\ \A r \in Session : Len(toService[r]) <= PipeCap
            BY DEF PipeTypes
        <3>2. CASE \E m \in {"init", "frame"} : Sent(toService, s, m)
            BY <3>1, <3>2, SentType DEF Sent
        <3>3. CASE toService[s] # <<>> /\ toService' = [toService EXCEPT ![s] = Tail(@)]
            BY <3>1, <3>3, TakenType
        <3>4. QED
            BY <1>4, <3>2, <3>3 DEF ToService
    <2>2. QED
        BY <1>4, <2>1 DEF ToService, PipeTypes
<1>5. QED
    BY <1>1, <1>2, <1>3, <1>4, ServicePipeKinds, HelperPipeKinds
    DEF Next, vars, crossVars, viewerInput

\* The process and its reader move; what a message sets or clears is Boolean.
HelperMoves(s) ==
    /\ \E h \in HelperPlace : helper' = [helper EXCEPT ![s] = h]
    /\ helperReader' \in {helperReader, [helperReader EXCEPT ![s] = "reading"]}
    /\ UNCHANGED <<helperStop, inputClosed>>

LEMMA HelperKinds ==
    ASSUME [Next]_vars
    PROVE  \/ UNCHANGED helperVars
           \/ \E s \in Session : HelperMoves(s) \/ helperReads(s)
<1>1. ASSUME NEW s \in Session, runHelperMode(s) \/ HelperQuits(s) PROVE HelperMoves(s)
    BY <1>1 DEF runHelperMode, HelperQuits, HelperDials, HelperDialFails, HelperStarts,
       HelperFails, HelperCaptures, HelperSends, HelperEnds, Become, HelperMoves, HelperPlace
<1>2. ASSUME NEW s \in Session, startCrossSessionStream(s)
      PROVE  UNCHANGED helperVars \/ HelperMoves(s)
    BY <1>2 DEF startCrossSessionStream, Spawn, SpawnFails, crossVars, HelperMoves, HelperPlace
<1>3. ASSUME NEW s \in Session, runCrossSession(s) \/ viewerInput(s) PROVE UNCHANGED helperVars
    BY <1>3 DEF runCrossSession, viewerInput, ViewerSends, ForwardInput, Accept, AcceptTimeout,
       RecvInit, RecvFails, SendInit, SeeStop, BeginRecv, RecvTimeout, Recv, Forward, Adapt, Notify, SendStop,
       Return, crossVars
<1>4. QED
    BY <1>1, <1>2, <1>3 DEF Next, vars, crossVars, viewerInput

LEMMA HelperTypesNext ==
    ASSUME HelperTypes, [Next]_vars
    PROVE  HelperTypes'
<1>1. CASE UNCHANGED helperVars
    BY <1>1 DEF helperVars, HelperTypes
<1>2. ASSUME NEW s \in Session, HelperMoves(s) PROVE HelperTypes'
    <2>1. helper' \in [Session -> HelperPlace]
        BY <1>2 DEF HelperMoves, HelperTypes
    <2>2. helperReader' \in [Session -> {"none", "reading", "ended"}]
        BY <1>2 DEF HelperMoves, HelperTypes
    <2>3. QED
        BY <1>2, <2>1, <2>2 DEF HelperMoves, HelperTypes
<1>3. ASSUME NEW s \in Session, helperReads(s) PROVE HelperTypes'
    <2>1. helper' = helper
        BY <1>3 DEF helperReads, HelperReads, HelperReadFails
    <2>2. helperReader' \in [Session -> {"none", "reading", "ended"}]
        BY <1>3 DEF helperReads, HelperReads, HelperReadFails, HelperTypes
    <2>3. PICK b \in BOOLEAN : helperStop' \in {helperStop, [helperStop EXCEPT ![s] = b]}
        BY <1>3 DEF helperReads, HelperReads, HelperReadFails
    <2>4. PICK c \in BOOLEAN : inputClosed' = [inputClosed EXCEPT ![s] = c]
        BY <1>3 DEF helperReads, HelperReads, HelperReadFails
    <2>5. helperStop' \in [Session -> BOOLEAN] /\ inputClosed' \in [Session -> BOOLEAN]
        BY <2>3, <2>4 DEF HelperTypes
    <2>6. QED
        BY <2>1, <2>2, <2>5 DEF HelperTypes
<1>4. QED
    BY <1>1, <1>2, <1>3, HelperKinds

LEMMA TypesInit == Init => HelperTypes /\ PipeTypes
<1> SUFFICES ASSUME Init PROVE HelperTypes /\ PipeTypes
    OBVIOUS
<1>1. HelperTypes
    BY DEF Init, HelperTypes, HelperPlace
<1>2. <<>> \in Seq({"input", "stop"}) /\ <<>> \in Seq({"init", "frame"}) /\ Len(<<>>) = 0
    OBVIOUS
<1>3. PipeTypes
    BY <1>2, CrossConstants DEF Init, PipeTypes, CrossConstants
<1>4. QED
    BY <1>1, <1>3

\* Types hold, every place of runCrossSession maps to one of StreamSession, and
\* a close command that is about to call stop has found a session.
THEOREM CrossTypeCorrect == Spec => []TypeOK
<1> DEFINE Counted == sent \in [Session -> 0 .. MaxMessages]
<1>1. Init => HelperTypes /\ PipeTypes /\ Counted
    <2>1. Init => Counted
        BY CrossConstants DEF Init, CrossConstants
    <2>2. QED
        BY <2>1, TypesInit
<1>2. HelperTypes /\ [Next]_vars => HelperTypes'
    BY HelperTypesNext
<1>3. PipeTypes /\ [Next]_vars => PipeTypes'
    BY PipeTypesNext, CrossConstants
<1>4. Counted /\ [Next]_vars => Counted'
    <2> SUFFICES ASSUME Counted, [Next]_vars PROVE Counted'
        OBVIOUS
    <2>1. ASSUME NEW s \in Session, ViewerSends(s) PROVE Counted'
        BY <2>1, CrossConstants DEF ViewerSends, CrossConstants
    <2>2. ASSUME NEW s \in Session,
                 startCrossSessionStream(s) \/ runCrossSession(s) \/ ForwardInput(s)
          PROVE  UNCHANGED sent
        BY <2>2 DEF ForwardInput, startCrossSessionStream, Spawn, SpawnFails, runCrossSession, Accept,
           AcceptTimeout, RecvInit, RecvFails, SendInit, SeeStop, BeginRecv, RecvTimeout, Recv,
           Forward, Adapt, Notify, SendStop, Return, crossVars
    <2>3. ASSUME NEW s \in Session, runHelperMode(s) \/ helperReads(s) \/ HelperQuits(s)
          PROVE  UNCHANGED sent
        BY <2>3 DEF runHelperMode, helperReads, HelperQuits, HelperDials, HelperDialFails,
           HelperStarts, HelperFails, HelperCaptures, HelperSends, HelperEnds, HelperReads,
           HelperReadFails
    <2>4. QED
        BY <2>1, <2>2, <2>3 DEF Next, vars, crossVars
<1>5. HelperTypes /\ PipeTypes /\ Counted /\ Life!IInv => TypeOK
    BY SameLife DEF Life!IInv, Life!Domains, HelperTypes, HelperPlace, PipeTypes, TypeOK
<1>6. QED
    BY <1>1, <1>2, <1>3, <1>4, <1>5, CrossInvariant, PTL DEF Spec
-----------------------------------------------------------------------------
(* A stopped stream ends.  StreamProofs shows how stop comes to its end     *)
(* next to a goroutine that keeps to OwnMove and comes to its deferred      *)
(* stop.  runCrossSession comes to it unless it waits for the helper for    *)
(* ever: for its init message, or for room on a pipe that nobody reads.     *)
Relaying == {"sendInit", "loop", "recv", "forward", "adapt", "notify", "sendStop"}

\* The helper of a session that is relayed has begun to stream; and while the
\* service has neither told it to stop nor hung up, it goes on reading.
Heard(s) ==
    /\ helper[s] \in {"none", "dialing"} => pipe[s] = "none"
    /\ helper[s] \in {"connected", "streaming", "sending"} => pipe[s] # "none"
    /\ helper[s] \in {"streaming", "sending"} => helperReader[s] # "none"
    /\ pipe[s] = "open" => pc[Run(s)] \in Relaying \cup {"awaitInit", "return"}
    /\ pc[Run(s)] \in Relaying \cup {"awaitInit"} => pipe[s] = "open"
    /\ pc[Run(s)] \in Relaying => helper[s] \in {"streaming", "sending", "exited"}
    /\ pc[Run(s)] \in Relaying \cup Waiting =>
          /\ toHelper[s] \in Seq({"input"})
          /\ helperReader[s] # "ended" /\ pipe[s] # "closed"

HeardTypes == FirstInv /\ HelperTypes /\ PipeTypes

\* What Heard depends on.
HeardVars(s) == <<pc[Run(s)], helper[s], helperReader[s], pipe[s], toHelper[s]>>

LEMMA HeardSame == \A s \in Session : Heard(s) /\ UNCHANGED HeardVars(s) => Heard(s)'
BY DEF Heard, HeardVars

\* A step of this session: the service moves on, and does nothing else.
LEMMA HeardMoves ==
    ASSUME Placed, NEW s \in Session, Heard(s), UNCHANGED crossVars,
           \/ pc'[Run(s)] = "return"
           \/ /\ pc'[Run(s)] \notin Relaying \cup Waiting
              /\ pc[Run(s)] \notin Relaying \cup {"awaitInit", "return"}
           \/ pc[Run(s)] \in Waiting \ {"awaitInit"} /\ pc'[Run(s)] \in Waiting \ {"awaitInit"}
           \/ pc[Run(s)] \in Relaying /\ pc'[Run(s)] \in Relaying
    PROVE  Heard(s)'
BY DEF Heard, crossVars, helperVars, pipeVars, Relaying, Waiting

LEMMA HeardShared ==
    ASSUME Placed, NEW s \in Session, Heard(s), SharedNext, UNCHANGED crossVars
    PROVE  Heard(s)'
<1>1. Store(s) => pc[Run(s)] = "dialled" /\ pc'[Run(s)] = "start"
    BY Own DEF Store, Goto, Placed
<1>2. stop(Run(s), s) => /\ pc[Run(s)] \in {"stop", "closing", "deleting"}
                         /\ pc'[Run(s)] \in {"closing", "deleting", "ended"}
    BY Own DEF stop, CloseStopCh, CloseSocket, Forget, JoinStop, Goto, Placed
<1>3. CASE pc'[Run(s)] = pc[Run(s)]
    BY <1>3, HeardSame DEF HeardVars, crossVars, helperVars, pipeVars
<1>4. CASE Store(s) \/ stop(Run(s), s)
    BY <1>1, <1>2, <1>4, HeardMoves DEF Waiting, Relaying
<1>. QED BY <1>3, <1>4, SharedRun, SessionConstants

\* What another session does.
LEMMA HeardElsewhere ==
    ASSUME Placed, HeardTypes, NEW s \in Session, NEW r \in Session \ {s},
           \/ startCrossSessionStream(r) \/ runCrossSession(r) \/ viewerInput(r)
           \/ runHelperMode(r) \/ helperReads(r) \/ HelperQuits(r)
    PROVE  UNCHANGED HeardVars(s)
<1>1. UNCHANGED pc[Run(s)]
    <2>1. Run(r) # Run(s) /\ Keepalive(r) # Run(s) /\ Reader(r) # Run(s)
        BY DEF Run, Keepalive, Reader
    <2>2. \/ UNCHANGED pc
          \/ \E l : Goto(Run(r), l) \/ Goto(Reader(r), l)
          \/ pc' = [pc EXCEPT ![Run(r)] = "loop", ![Keepalive(r)] = "idle", ![Reader(r)] = "reading"]
        <3>1. CASE startCrossSessionStream(r)
            BY <3>1 DEF startCrossSessionStream, Spawn, SpawnFails, Dial, DialFails, Step, sessionVars
        <3>2. CASE runCrossSession(r)
            BY <3>2 DEF runCrossSession, Accept, AcceptTimeout, RecvInit, RecvFails, SendInit,
               SeeStop, BeginRecv, RecvTimeout, Recv, Forward, Adapt, Notify, SendStop, Return, Step
        <3>3. CASE runHelperMode(r) \/ helperReads(r) \/ HelperQuits(r)
            BY <3>3 DEF runHelperMode, HelperDials, HelperDialFails, HelperStarts, HelperFails,
               HelperCaptures, HelperSends, HelperEnds, helperReads, HelperReads, HelperReadFails,
               HelperQuits, sessionVars
        <3>4. CASE viewerInput(r)
            BY <3>4 DEF viewerInput, ViewerSends, ForwardInput, ReaderTurns
        <3>. QED BY <3>1, <3>2, <3>3, <3>4
    <2>. QED BY <2>1, <2>2, Own DEF Goto, Placed
<1>2. UNCHANGED <<pipe[s], toHelper[s]>>
    BY ServicePipeKinds, HelperPipeKinds DEF PipeMoves, ToHelper, ToService, Sent, pipeVars,
       HeardTypes, PipeTypes
<1>3. UNCHANGED <<helper[s], helperReader[s]>>
    <2>1. CASE helperReads(r)
        BY <2>1 DEF helperReads, HelperReads, HelperReadFails, HeardTypes, HelperTypes
    <2>2. CASE runHelperMode(r) \/ HelperQuits(r)
        BY <2>2 DEF runHelperMode, HelperQuits, HelperDials, HelperDialFails, HelperStarts,
           HelperFails, HelperCaptures, HelperSends, HelperEnds, Become, HeardTypes, HelperTypes
    <2>3. CASE startCrossSessionStream(r)
        BY <2>3 DEF startCrossSessionStream, Spawn, SpawnFails, crossVars, helperVars, HeardTypes,
           HelperTypes
    <2>4. CASE runCrossSession(r) \/ viewerInput(r)
        BY <2>4 DEF runCrossSession, viewerInput, ViewerSends, ForwardInput, Accept,
           AcceptTimeout, RecvInit, RecvFails, SendInit, SeeStop, BeginRecv, RecvTimeout, Recv, Forward, Adapt, Notify, SendStop,
           Return, crossVars, helperVars
    <2>. QED BY <2>1, <2>2, <2>3, <2>4
<1>. QED BY <1>1, <1>2, <1>3 DEF HeardVars

LEMMA HeardService ==
    ASSUME Placed, HeardTypes, NEW s \in Session, Heard(s),
           startCrossSessionStream(s) \/ runCrossSession(s) \/ viewerInput(s)
    PROVE  Heard(s)'
<1>1. Run(s) \in DOMAIN pc /\ Keepalive(s) # Run(s) /\ Reader(s) # Run(s)
    BY Own DEF Placed, Run, Keepalive, Reader
<1>2. \A from, to : Step(s, from, to) => pc[Run(s)] = from /\ pc'[Run(s)] = to
    BY <1>1 DEF Step, Goto
<1>3. CASE Spawn(s)
    <2>1. helper'[s] = "dialing" /\ pipe[s] = "none" /\ helper[s] = "none"
        BY <1>3 DEF Spawn, Heard, HeardTypes, HelperTypes
    <2>2. UNCHANGED <<pc, helperReader, pipe, toHelper>>
        BY <1>3 DEF Spawn, sessionVars, pipeVars
    <2>. QED BY <2>1, <2>2 DEF Heard
<1>4. CASE startCrossSessionStream(s) /\ ~Spawn(s)
    <2>1. UNCHANGED crossVars
        BY <1>4 DEF startCrossSessionStream, SpawnFails
    <2>2. pc[Run(s)] = "dial" /\ pc'[Run(s)] \in {"dialled", "ended"}
        BY <1>1, <1>2, <1>4 DEF startCrossSessionStream, SpawnFails, Dial, DialFails, Goto
    <2>. QED BY <2>1, <2>2, HeardMoves DEF Waiting, Relaying
<1>5. CASE Accept(s)
    <2>1. pc[Run(s)] = "start" /\ pc'[Run(s)] = "awaitInit" /\ pipe[s] = "queued"
        BY <1>2, <1>5 DEF Accept
    <2>2. pipe'[s] = "open" /\ UNCHANGED <<helper, helperReader, toHelper>>
        BY <1>5 DEF Accept, HeardTypes, PipeTypes, helperVars
    <2>3. helper[s] \notin {"none", "dialing"}
        BY <2>1 DEF Heard
    <2>. QED BY <2>1, <2>2, <2>3 DEF Heard, Waiting, Relaying
<1>6. CASE AcceptTimeout(s) \/ RecvFails(s)
    <2>1. pc'[Run(s)] = "return" /\ UNCHANGED crossVars
        BY <1>2, <1>6 DEF AcceptTimeout, RecvFails
    <2>. QED BY <2>1, HeardMoves DEF Waiting, Relaying
<1>7. CASE RecvInit(s)
    <2>1. pc[Run(s)] = "awaitInit" /\ pc'[Run(s)] \in {"sendInit", "return"}
        BY <1>2, <1>7 DEF RecvInit
    <2>2. UNCHANGED <<helper, helperReader, pipe, toHelper>> /\ toService[s] # <<>>
        BY <1>7 DEF RecvInit, helperVars
    <2>3. helper[s] \in {"streaming", "sending", "exited"}
        BY <2>2 DEF HeardTypes, FirstInv, Fresh
    <2>. QED BY <2>1, <2>2, <2>3 DEF Heard, Waiting, Relaying
<1>8. CASE Recv(s)
    <2>1. pc[Run(s)] = "recv" /\ pc'[Run(s)] \in {"loop", "forward"}
        BY <1>2, <1>8 DEF Recv
    <2>2. UNCHANGED <<helper, helperReader, pipe, toHelper>>
        BY <1>8 DEF Recv, helperVars
    <2>. QED BY <2>1, <2>2 DEF Heard, Waiting, Relaying
<1>9. CASE SendInit(s)
    <2>1. pc[Run(s)] = "sendInit" /\ pc'[Run(s)] \in {"loop", "return"} /\ UNCHANGED crossVars
        BY <1>1, <1>2, <1>9 DEF SendInit, Placed
    <2>. QED BY <2>1, HeardMoves DEF Waiting, Relaying
<1>10. CASE SeeStop(s) \/ BeginRecv(s) \/ RecvTimeout(s) \/ Forward(s) \/ Notify(s)
    <2>1. /\ pc[Run(s)] \in Relaying /\ pc'[Run(s)] \in Relaying \cup {"return"}
          /\ UNCHANGED crossVars
        BY <1>2, <1>10 DEF SeeStop, BeginRecv, RecvTimeout, Forward, Notify, Relaying
    <2>. QED BY <2>1, HeardMoves DEF Waiting, Relaying
<1>11. CASE Adapt(s)
    <2>1. pc[Run(s)] = "adapt" /\ pc'[Run(s)] = "notify" /\ UNCHANGED <<helper, helperReader, pipe>>
        BY <1>2, <1>11 DEF Adapt, helperVars
    <2>2. toHelper[s] \in Seq({"input"})
        BY <2>1 DEF Heard, Relaying
    <2>3. toHelper'[s] = Append(toHelper[s], "input") \/ toHelper'[s] = toHelper[s]
        BY <1>11 DEF Adapt, Sent, HeardTypes, PipeTypes
    <2>4. toHelper'[s] \in Seq({"input"})
        BY <2>2, <2>3
    <2>. QED BY <2>1, <2>4 DEF Heard, Waiting, Relaying
<1>12. CASE SendStop(s) \/ Return(s)
    <2>1. pc'[Run(s)] \in {"return", "stop"} /\ UNCHANGED <<helper, helperReader>>
        BY <1>2, <1>12 DEF SendStop, Return, helperVars
    <2>2. \/ pc'[Run(s)] = "return" /\ pipe'[s] = pipe[s]
          \/ pipe[s] # "open" /\ pipe'[s] = pipe[s]
          \/ pipe[s] = "open" /\ pipe'[s] = "closed"
        BY <1>2, <1>12 DEF SendStop, Return, HeardTypes, PipeTypes
    <2>. QED BY <2>1, <2>2 DEF Heard, Waiting, Relaying
<1>13. CASE viewerInput(s)
    <2>1. UNCHANGED <<pc[Run(s)], helper, helperReader, pipe>>
        BY <1>1, <1>13 DEF viewerInput, ViewerSends, ForwardInput, ReaderTurns, Goto, helperVars,
           pipeVars
    <2>2. toHelper'[s] = Append(toHelper[s], "input") \/ toHelper'[s] = toHelper[s]
        BY <1>13 DEF viewerInput, ViewerSends, ForwardInput, Sent, HeardTypes, PipeTypes, pipeVars
    <2>3. toHelper[s] \in Seq({"input"}) => toHelper'[s] \in Seq({"input"})
        BY <2>2
    <2>. QED BY <2>1, <2>3 DEF Heard
<1>. QED
    BY <1>3, <1>4, <1>5, <1>6, <1>7, <1>8, <1>9, <1>10, <1>11, <1>12, <1>13 DEF runCrossSession

LEMMA HeardHelper ==
    ASSUME Placed, HeardTypes, NEW s \in Session, Heard(s),
           runHelperMode(s) \/ helperReads(s) \/ HelperQuits(s)
    PROVE  Heard(s)'
<1>1. UNCHANGED pc
    BY DEF runHelperMode, HelperDials, HelperDialFails, HelperStarts, HelperFails, HelperCaptures,
       HelperSends, HelperEnds, helperReads, HelperReads, HelperReadFails, HelperQuits, sessionVars
<1>2. CASE HelperDials(s)
    <2>1. helper[s] = "dialing" /\ helper'[s] = "connected" /\ pipe'[s] = "queued"
        BY <1>2 DEF HelperDials, Become, HeardTypes, HelperTypes, PipeTypes
    <2>2. UNCHANGED <<helperReader, toHelper>> /\ pipe[s] = "none"
        BY <1>2, <2>1 DEF HelperDials, Heard
    <2>. QED BY <1>1, <2>1, <2>2 DEF Heard
<1>3. CASE HelperStarts(s)
    <2>1. helper'[s] = "streaming" /\ helperReader'[s] = "reading" /\ helper[s] = "connected"
        BY <1>3 DEF HelperStarts, Become, HeardTypes, HelperTypes
    <2>2. UNCHANGED <<pipe, toHelper>>
        BY <1>3 DEF HelperStarts
    <2>. QED BY <1>1, <2>1, <2>2 DEF Heard
<1>4. CASE \/ HelperDialFails(s) \/ HelperFails(s) \/ HelperCaptures(s) \/ HelperSends(s)
           \/ HelperEnds(s) \/ HelperQuits(s)
    <2>1. \/ helper'[s] = "exited"
          \/ helper[s] \in {"streaming", "sending"} /\ helper'[s] \in {"streaming", "sending"}
        BY <1>4 DEF HelperDialFails, HelperFails, HelperCaptures, HelperSends, HelperEnds,
           HelperQuits, Become, HeardTypes, HelperTypes
    <2>2. UNCHANGED <<helperReader, pipe, toHelper>>
        BY <1>4 DEF HelperDialFails, HelperFails, HelperCaptures, HelperSends, HelperEnds,
           HelperQuits, pipeVars
    <2>. QED BY <1>1, <2>1, <2>2 DEF Heard
<1>5. CASE HelperReads(s)
    <2>1. /\ UNCHANGED <<helper, pipe>> /\ toHelper[s] # <<>> /\ toHelper'[s] = Tail(toHelper[s])
          /\ helperReader'[s] \in {"ended", helperReader[s]} /\ helperReader[s] = "reading"
          /\ Head(toHelper[s]) # "stop" => helperReader'[s] = helperReader[s]
        BY <1>5 DEF HelperReads, HeardTypes, HelperTypes, PipeTypes
    <2>2. toHelper[s] \in Seq({"input"}) =>
             Head(toHelper[s]) # "stop" /\ toHelper'[s] \in Seq({"input"})
        <3>1. \A q \in Seq({"input"}) : q # <<>> => Head(q) = "input" /\ Tail(q) \in Seq({"input"})
            OBVIOUS
        <3>. QED BY <2>1, <3>1
    <2>. QED BY <1>1, <2>1, <2>2 DEF Heard
<1>6. CASE HelperReadFails(s)
    <2>1. pc[Run(s)] \notin Relaying \cup Waiting
        BY <1>6 DEF HelperReadFails, ServiceGone, Listening, Heard, Relaying, Waiting
    <2>2. UNCHANGED <<helper, pipe>> /\ helperReader'[s] = "ended"
        BY <1>6 DEF HelperReadFails, pipeVars, HeardTypes, HelperTypes
    <2>. QED BY <1>1, <2>1, <2>2 DEF Heard, Relaying
<1>. QED BY <1>2, <1>3, <1>4, <1>5, <1>6 DEF runHelperMode, helperReads

\* While the service relays, the helper is there to hear it, or has exited.
HeardInv == HeardTypes /\ \A s \in Session : Heard(s)

THEOREM HelperHeard == Spec => []HeardInv
<1>1. Init => HeardInv
    <2> SUFFICES ASSUME Init PROVE HeardInv
        OBVIOUS
    <2>1. HeardTypes
        BY InitMaps, FirstInit, TypesInit, SessionConstants, CrossConstants DEF HeardTypes
    <2>2. ASSUME NEW s \in Session PROVE Heard(s)
        <3>1. pc[Run(s)] = "dial"
            BY Apart, SessionConstants DEF Init, SessionInit, Run
        <3>2. <<>> \in Seq({"input"})
            OBVIOUS
        <3>. QED BY <3>1, <3>2 DEF Init, Heard, Relaying, Waiting
    <2>. QED BY <2>1, <2>2 DEF HeardInv
<1>2. HeardInv /\ [Next]_vars => HeardInv'
    <2> SUFFICES ASSUME HeardInv, [Next]_vars PROVE HeardInv'
        OBVIOUS
    <2>1. HeardTypes /\ HeardTypes' /\ Placed
        BY NextFirst, HelperTypesNext, PipeTypesNext, CrossConstants
        DEF HeardInv, HeardTypes, FirstInv
    <2>2. ASSUME NEW s \in Session PROVE Heard(s)'
        <3>1. Heard(s)
            BY DEF HeardInv
        <3>2. CASE SharedNext /\ UNCHANGED crossVars
            BY <2>1, <3>1, <3>2, HeardShared
        <3>3. ASSUME NEW r \in Session,
                     \/ startCrossSessionStream(r) \/ runCrossSession(r) \/ viewerInput(r)
                     \/ runHelperMode(r) \/ helperReads(r) \/ HelperQuits(r)
              PROVE  Heard(s)'
            <4>1. CASE r = s
                BY <2>1, <3>1, <3>3, <4>1, HeardService, HeardHelper
            <4>2. CASE r # s
                <5>1. UNCHANGED HeardVars(s)
                    BY <2>1, <3>3, <4>2, HeardElsewhere
                <5>. QED BY <3>1, <5>1, HeardSame
            <4>. QED BY <4>1, <4>2
        <3>4. CASE UNCHANGED vars
            BY <3>1, <3>4, HeardSame
            DEF HeardVars, vars, sessionVars, crossVars, helperVars, pipeVars
        <3>. QED BY <3>2, <3>3, <3>4 DEF Next, viewerInput
    <2>. QED BY <2>1, <2>2 DEF HeardInv
<1>. QED BY <1>1, <1>2, PTL DEF Spec

THEOREM CrossOpened == Spec => []Life!Opened
<1>1. Init => Life!Opened
    BY InitMaps, SameLife, Life!OpenedInit, SessionConstants
<1>2. Placed /\ Life!IInv /\ Life!Opened /\ [Next]_vars => Life!Opened'
    BY NextMaps, SameLife, SameSteps, Life!OpenedStep, SessionConstants
<1>. QED BY <1>1, <1>2, CrossInvariant, PTL DEF Spec

LEMMA StopInvHolds == Placed /\ Life!IInv /\ Life!Opened => StopInv
<1> SUFFICES ASSUME Placed, Life!IInv, Life!Opened PROVE StopInv
    OBVIOUS
<1>1. Life!SessionTypeOK
    BY DEF Life!IInv, Life!Domains
<1>2. /\ found \in [Closer -> Session \cup {None}]
      /\ once \in [Session -> {"no", "running", "done"}]
      /\ sock \in [Session -> {"none", "open", "closed"}]
      /\ peer \in [Session -> {"reading", "stalled", "gone"}]
    BY <1>1 DEF Life!SessionTypeOK
<1>3. ASSUME NEW s \in Session
      PROVE  /\ pc[Keepalive(s)] \in {"none", "idle", "stop", "closing", "deleting", "ended"}
             /\ pc[Reader(s)] \in {"none", "reading", "forwarding", "stop", "closing",
                                    "deleting", "ended"}
    BY <1>1, At, Own DEF Life!SessionTypeOK, Life!Keepalive, Keepalive, Life!Reader, Reader,
       AbstractPlace
<1>4. ASSUME NEW s \in Session
      PROVE  /\ stopCh[s] <=> once[s] # "no"
             /\ once[s] # "no" => sock[s] # "none" /\ pc[Run(s)] \notin {"dial", "dialled"}
    <2>1. /\ stopCh[s] <=> once[s] # "no"
          /\ sock[s] = "none" => once[s] = "no"
        BY DEF Life!Opened
    <2>2. AbstractPc[Run(s)] \in {"dial", "dialled"} => once[s] = "no"
        BY DEF Life!IInv, Life!Early, Life!Run, Run
    <2>. QED BY <2>1, <2>2, SamePlaces, Own
<1>. QED BY <1>2, <1>3, <1>4, LifeStopOnce DEF StopInv, StopOnce

LEMMA OpenNextHolds == Placed /\ Life!IInv /\ [Next]_vars => [OpenNext]_sessionVars
<1> SUFFICES ASSUME Placed, Life!IInv, [Next]_vars PROVE [OpenNext]_sessionVars
    OBVIOUS
<1>1. ASSUME NEW s \in Session, startCrossSessionStream(s) \/ runCrossSession(s), ~Spawn(s)
      PROVE  OwnMove(s)
    <2>1. Run(s) \in DOMAIN pc /\ Keepalive(s) # Run(s) /\ Reader(s) # Run(s)
        BY Own DEF Placed, Run, Keepalive, Reader
    <2>2. CASE Dial(s) \/ DialFails(s)
        BY <2>1, <2>2 DEF Dial, DialFails, Goto, OwnMove, Placed
    <2>3. ASSUME NEW from, NEW to, Step(s, from, to),
                 from \notin {"stop", "closing", "deleting", "ended"}
          PROVE  OwnMove(s)
        BY <2>1, <2>3 DEF Step, Goto, OwnMove, Placed
    <2>4. CASE SendInit(s) /\ CanWrite(s)
        <3>1. pc[Keepalive(s)] = "none" /\ pc[Reader(s)] = "none"
            <4>1. AbstractPc[Run(s)] = "start"
                BY <2>4, At, Own DEF SendInit, AbstractPlace
            <4>2. AbstractPc[Keepalive(s)] = "none" /\ AbstractPc[Reader(s)] = "none"
                BY <4>1 DEF Life!IInv, Life!Early, Life!Run, Run, Life!Keepalive, Keepalive,
                   Life!Reader, Reader
            <4>. QED BY <4>2, At, Own DEF AbstractPlace
        <3>. QED BY <2>1, <2>4, <3>1 DEF SendInit, OwnMove, Placed
    <2>5. CASE SpawnFails(s) \/ (SendInit(s) /\ ~CanWrite(s))
        BY <2>3, <2>5 DEF SpawnFails, SendInit
    <2>6. CASE Accept(s) \/ AcceptTimeout(s) \/ RecvInit(s) \/ RecvFails(s) \/ SeeStop(s)
        BY <2>3, <2>6 DEF Accept, AcceptTimeout, RecvInit, RecvFails, SeeStop
    <2>7. CASE BeginRecv(s) \/ RecvTimeout(s) \/ Recv(s) \/ Forward(s)
        BY <2>3, <2>7 DEF BeginRecv, RecvTimeout, Recv, Forward
    <2>8. CASE Adapt(s) \/ Notify(s) \/ SendStop(s) \/ Return(s)
        BY <2>3, <2>8 DEF Adapt, Notify, SendStop, Return
    <2>. QED
        BY <1>1, <2>2, <2>4, <2>5, <2>6, <2>7, <2>8 DEF startCrossSessionStream, runCrossSession
<1>2. ASSUME NEW s \in Session,
             \/ Spawn(s) \/ runHelperMode(s) \/ helperReads(s) \/ HelperQuits(s)
      PROVE  UNCHANGED sessionVars
    BY <1>2 DEF Spawn, runHelperMode, HelperDials, HelperDialFails, HelperStarts,
       HelperFails, HelperCaptures, HelperSends, HelperEnds, helperReads, HelperReads,
       HelperReadFails, HelperQuits
<1>3. UNCHANGED vars => UNCHANGED sessionVars
    BY DEF vars
<1>4. ASSUME NEW s \in Session, viewerInput(s) PROVE ReaderMove(s)
    BY <1>4 DEF viewerInput, ViewerSends, ForwardInput, ReaderTurns, ReaderMove
<1>. QED BY <1>1, <1>2, <1>3, <1>4 DEF Next, OpenNext, viewerInput

CrossInv == Placed /\ Life!IInv /\ Life!Opened /\ StopInv /\ HeardInv

LEMMA CrossInvHolds == Spec => []CrossInv
BY CrossInvariant, CrossOpened, StopInvHolds, HelperHeard, PTL DEF CrossInv

\* Where the service and the helper are ready, they can take a step.
RunEnabled(s) == ENABLED <<runCrossSession(s)>>_vars
WritesEnabled(s) == ENABLED <<Writes(s)>>_vars
ForwardEnabled(s) == ENABLED <<ForwardInput(s)>>_vars
HelperEnabled(s) == ENABLED <<runHelperMode(s)>>_vars
ReadsEnabled(s) == ENABLED <<helperReads(s)>>_vars

\* The helper's answer to the service: its init message, or that it has gone;
\* and room on the pipe to it, or that it has gone.
Answered(s) == toService[s] # <<>> \/ HelperGone(s)
Room(s) == Len(toHelper[s]) < PipeCap \/ HelperGone(s)
CanForward(s) == Room(s) \/ pipe[s] # "open"

CrossCanStep ==
    \A s \in Session :
        /\ pc[Run(s)] \in {"start", "loop", "recv", "return"} => RunEnabled(s)
        /\ pc[Run(s)] \in {"sendInit", "forward", "notify"} /\ Written(s) => RunEnabled(s)
        /\ pc[Run(s)] = "awaitInit" /\ Answered(s) => RunEnabled(s)
        /\ pc[Run(s)] \in {"adapt", "sendStop"} /\ Room(s) => WritesEnabled(s)
        /\ pc[Reader(s)] = "forwarding" /\ CanForward(s) => ForwardEnabled(s)
        /\ helper[s] = "connected" => HelperEnabled(s)
        /\ helperReader[s] = "reading" /\ ~HelperGone(s) /\ toHelper[s] # <<>> => ReadsEnabled(s)

LEMMA RelayPlace ==
    ASSUME Placed, Life!IInv, NEW s \in Session
    PROVE  pc[Run(s)] \in Waiting \cup Relaying \cup {"return", "stop", "closing", "deleting", "ended"}
BY At, Own DEF Life!IInv, Life!Domains, Life!SessionTypeOK, Life!Run, Run, AbstractPlace,
   Waiting, Relaying

\* On its way to the end the service is moved by runCrossSession only, and what
\* the helper has answered is not taken back.  Room on the pipe is: the reader
\* may use it.
LEMMA RelayMoves ==
    ASSUME CrossInv, NEW s \in Session, [Next]_vars, once[s] = "done",
           pc[Run(s)] \in {"start", "awaitInit", "return"} \cup Relaying
    PROVE  \/ runCrossSession(s)
           \/ pc'[Run(s)] = pc[Run(s)] /\ (Answered(s) => Answered(s)')
<1>. DEFINE Kept == pc'[Run(s)] = pc[Run(s)] /\ (Answered(s) => Answered(s)')
<1>1. /\ HeardTypes /\ HelperTypes /\ PipeTypes /\ Placed
      /\ sock[s] = "closed" /\ Heard(s)
    BY DEF CrossInv, HeardInv, HeardTypes, StopInv
<1>2. CASE SharedNext /\ UNCHANGED crossVars
    <2>1. pc'[Run(s)] = pc[Run(s)]
        BY <1>2, SharedRun, SessionConstants DEF CrossInv, Relaying, Store, stop, CloseStopCh,
           CloseSocket, Forget, JoinStop
    <2>. QED BY <1>2, <2>1 DEF Answered, HelperGone, crossVars, helperVars, pipeVars
<1>3. ASSUME NEW r \in Session \ {s},
             \/ startCrossSessionStream(r) \/ runCrossSession(r) \/ viewerInput(r)
             \/ runHelperMode(r) \/ helperReads(r) \/ HelperQuits(r)
      PROVE  Kept
    <2>1. UNCHANGED HeardVars(s)
        BY <1>1, <1>3, HeardElsewhere
    <2>2. UNCHANGED toService[s]
        BY <1>1, <1>3, ServicePipeKinds, HelperPipeKinds
        DEF PipeMoves, ToHelper, ToService, Sent, pipeVars, PipeTypes
    <2>. QED BY <2>1, <2>2 DEF HeardVars, Answered, HelperGone
<1>4. ~startCrossSessionStream(s)
    BY <1>1 DEF startCrossSessionStream, Spawn, SpawnFails, Dial, DialFails, Step, Relaying
<1>5. CASE runHelperMode(s) \/ HelperQuits(s)
    <2>1. UNCHANGED pc
        BY <1>5 DEF runHelperMode, HelperDials, HelperDialFails, HelperStarts, HelperFails,
           HelperCaptures, HelperSends, HelperEnds, HelperQuits, sessionVars
    <2>2. ~HelperGone(s)
        BY <1>5 DEF runHelperMode, HelperDials, HelperDialFails, HelperStarts, HelperFails,
           HelperCaptures, HelperSends, HelperEnds, HelperQuits, Become, HelperGone
    <2>3. UNCHANGED toService[s] \/ \E m \in {"init", "frame"} : toService'[s] = Append(toService[s], m)
        BY <1>1, <1>5 DEF runHelperMode, HelperDials, HelperDialFails, HelperStarts, HelperFails,
           HelperCaptures, HelperSends, HelperEnds, HelperQuits, Sent, PipeTypes, pipeVars
    <2>4. toService[s] # <<>> => toService'[s] # <<>>
        <3>1. \A q \in Seq({"init", "frame"}), m \in {"init", "frame"} : Append(q, m) # <<>>
            OBVIOUS
        <3>2. toService[s] \in Seq({"init", "frame"})
            BY <1>1 DEF PipeTypes
        <3>. QED BY <2>3, <3>1, <3>2
    <2>. QED BY <2>1, <2>2, <2>4 DEF Answered
<1>6. CASE helperReads(s)
    <2>1. UNCHANGED <<pc, helper, toService>>
        BY <1>6 DEF helperReads, HelperReads, HelperReadFails, sessionVars, pipeVars
    <2>. QED BY <2>1 DEF Answered, HelperGone
<1>8. CASE viewerInput(s)
    <2>1. Run(s) \in DOMAIN pc /\ Reader(s) # Run(s)
        BY Own DEF CrossInv, Placed, Run, Reader
    <2>2. pc'[Run(s)] = pc[Run(s)] /\ UNCHANGED <<helper, toService>>
        BY <1>8, <2>1 DEF viewerInput, ViewerSends, ForwardInput, ReaderTurns, Goto, helperVars,
           pipeVars
    <2>. QED BY <2>2 DEF Answered, HelperGone
<1>7. CASE UNCHANGED vars
    BY <1>7 DEF vars, sessionVars, crossVars, helperVars, pipeVars, Answered, HelperGone
<1>. QED BY <1>2, <1>3, <1>4, <1>5, <1>6, <1>7, <1>8 DEF Next, viewerInput

\* Once the session is stopped, the service goes one way.
LEMMA RelayStep ==
    ASSUME CrossInv, NEW s \in Session, once[s] = "done", runCrossSession(s)
    PROVE  /\ pc[Run(s)] = "start" => pc'[Run(s)] \in {"awaitInit", "return"}
           /\ pc[Run(s)] = "awaitInit" => pc'[Run(s)] \in {"sendInit", "return"}
           /\ pc[Run(s)] \in {"sendInit", "sendStop"} => pc'[Run(s)] = "return"
           /\ pc[Run(s)] = "loop" => pc'[Run(s)] = "sendStop"
           /\ pc[Run(s)] = "recv" => pc'[Run(s)] \in {"loop", "forward", "return"}
           /\ pc[Run(s)] = "forward" => pc'[Run(s)] \in {"loop", "return"}
           /\ pc[Run(s)] = "adapt" => pc'[Run(s)] = "notify"
           /\ pc[Run(s)] = "notify" => pc'[Run(s)] = "loop"
           /\ pc[Run(s)] = "return" => pc'[Run(s)] = "stop"
<1>1. Run(s) \in DOMAIN pc /\ ~CanWrite(s) /\ stopCh[s]
    BY Own, OverBody, SessionConstants DEF CrossInv, StopInv, Placed
<1>2. \A from, to : Step(s, from, to) => pc[Run(s)] = from /\ pc'[Run(s)] = to
    BY <1>1 DEF Step, Goto
<1>3. CASE Accept(s) \/ AcceptTimeout(s) \/ RecvInit(s) \/ RecvFails(s) \/ SendInit(s)
    BY <1>1, <1>2, <1>3 DEF Accept, AcceptTimeout, RecvInit, RecvFails, SendInit
<1>4. CASE SeeStop(s) \/ BeginRecv(s) \/ RecvTimeout(s) \/ Recv(s)
    BY <1>1, <1>2, <1>4 DEF SeeStop, BeginRecv, RecvTimeout, Recv
<1>5. CASE Forward(s) \/ Adapt(s) \/ Notify(s) \/ SendStop(s) \/ Return(s)
    BY <1>1, <1>2, <1>5 DEF Forward, Adapt, Notify, SendStop, Return
<1>. QED BY <1>3, <1>4, <1>5 DEF runCrossSession

\* While the service waits for a helper that has not answered, its next step
\* answers; while it waits for room, the next message the helper reads makes it.
LEMMA HelperAnswers ==
    ASSUME CrossInv, NEW s \in Session, pc[Run(s)] = "awaitInit", ~Answered(s)
    PROVE  /\ helper[s] = "connected"
           /\ runHelperMode(s) => Answered(s)'
<1>1. /\ helper[s] \in Fresh \cup {"streaming", "sending", "exited"}
      /\ helper[s] \in {"streaming", "sending"} => toService[s] # <<>>
      /\ helper[s] \notin {"none", "dialing"}
    BY DEF CrossInv, HeardInv, HeardTypes, FirstInv, Heard, Waiting
<1>2. helper[s] = "connected"
    BY <1>1 DEF Answered, HelperGone, Fresh
<1>3. HelperStarts(s) => toService'[s] # <<>>
    <2>1. \A q \in Seq({"init", "frame"}) : Append(q, "init") # <<>>
        OBVIOUS
    <2>2. toService \in [Session -> Seq({"init", "frame"})]
        BY DEF CrossInv, HeardInv, HeardTypes, PipeTypes
    <2>. QED BY <2>1, <2>2 DEF HelperStarts, Sent
<1>4. HelperFails(s) => helper'[s] = "exited"
    BY DEF HelperFails, Become, CrossInv, HeardInv, HeardTypes, HelperTypes
<1>5. runHelperMode(s) => HelperStarts(s) \/ HelperFails(s)
    BY <1>2 DEF runHelperMode, HelperDials, HelperDialFails, HelperCaptures, HelperSends,
       HelperEnds, Become
<1>. QED BY <1>2, <1>3, <1>4, <1>5 DEF Answered, HelperGone

LEMMA HelperMakesRoom ==
    ASSUME CrossInv, NEW s \in Session, pc[Run(s)] \in Relaying, ~Room(s)
    PROVE  /\ helperReader[s] = "reading" /\ ~HelperGone(s) /\ toHelper[s] # <<>>
           /\ helperReads(s) => Room(s)'
<1>1. /\ HelperTypes /\ PipeTypes /\ Heard(s)
      /\ PipeCap \in Nat \ {0} /\ Len(toHelper[s]) \in Nat /\ Len(toHelper[s]) <= PipeCap
    BY CrossConstants DEF CrossInv, HeardInv, HeardTypes, CrossConstants, PipeTypes
<1>2. ~HelperGone(s) /\ Len(toHelper[s]) = PipeCap
    BY <1>1 DEF Room
<1>3. toHelper[s] # <<>>
    BY <1>1, <1>2
<1>4. helperReader[s] = "reading" /\ pipe[s] = "open"
    BY <1>1, <1>2 DEF Heard, HelperGone, HelperTypes
<1>5. ASSUME HelperReads(s) PROVE Room(s)'
    <2>1. toHelper'[s] = Tail(toHelper[s]) /\ toHelper[s] \in Seq({"input", "stop"})
        BY <1>1, <1>5 DEF HelperReads, PipeTypes
    <2>2. Len(toHelper'[s]) = Len(toHelper[s]) - 1
        BY <1>3, <2>1
    <2>. QED BY <1>1, <1>2, <2>2 DEF Room
<1>6. ~HelperReadFails(s)
    BY <1>4 DEF HelperReadFails, ServiceGone
<1>. QED BY <1>2, <1>3, <1>4, <1>5, <1>6 DEF helperReads

\* Every place of the service leads to its deferred stop.
LEMMA RelayEnds ==
    ASSUME NEW s \in Session
    PROVE  [][Next]_vars /\ []CrossInv /\ []CrossCanStep /\ LoopRuns(s) => ComesToStop(s)
<1>. DEFINE Is(place) == Over(s, Run(s), place)
<1>1. CrossInv /\ [Next]_vars /\ once[s] = "done" => once'[s] = "done"
    BY OpenNextHolds, OnceMoves, SessionConstants DEF CrossInv
<1>2. ASSUME CrossInv, [Next]_vars, once[s] = "done", runCrossSession(s)
      PROVE  /\ Is("start") => Is("awaitInit")' \/ Is("return")'
             /\ Is("awaitInit") => Is("sendInit")' \/ Is("return")'
             /\ Is("sendInit") \/ Is("sendStop") => Is("return")'
             /\ Is("loop") => Is("sendStop")'
             /\ Is("recv") => Is("loop")' \/ Is("forward")' \/ Is("return")'
             /\ Is("forward") => Is("loop")' \/ Is("return")'
             /\ Is("adapt") => Is("notify")'
             /\ Is("notify") => Is("loop")'
             /\ Is("return") => Is("stop")'
    BY <1>1, <1>2, RelayStep DEF Over
<1>3. ASSUME CrossInv, [Next]_vars, NEW place, Is(place),
             place \in {"start", "awaitInit", "return"} \cup Relaying
      PROVE  \/ runCrossSession(s) /\ once[s] = "done"
             \/ Is(place)' /\ (Answered(s) => Answered(s)')
    BY <1>1, <1>3, RelayMoves DEF Over
\* What the service's next step leads to, and where it stays until then.
<1>4. CrossInv /\ [Next]_vars =>
         /\ Is("start") => Is("start")' \/ Is("awaitInit")' \/ Is("return")'
         /\ Is("awaitInit") => \/ Is("awaitInit")' /\ (Answered(s) => Answered(s)')
                               \/ Is("sendInit")' \/ Is("return")'
         /\ Is("sendInit") => Is("sendInit")' \/ Is("return")'
         /\ Is("loop") => Is("loop")' \/ Is("sendStop")'
         /\ Is("recv") => Is("recv")' \/ Is("loop")' \/ Is("forward")' \/ Is("return")'
         /\ Is("forward") => Is("forward")' \/ Is("loop")' \/ Is("return")'
         /\ Is("adapt") => Is("adapt")' \/ Is("notify")'
         /\ Is("notify") => Is("notify")' \/ Is("loop")'
         /\ Is("sendStop") => Is("sendStop")' \/ Is("return")'
         /\ Is("return") => Is("return")' \/ Is("stop")'
    <2> SUFFICES ASSUME CrossInv, [Next]_vars PROVE <1>4!2
        OBVIOUS
    <2>1. Is("start") => Is("start")' \/ Is("awaitInit")' \/ Is("return")'
        BY <1>2, <1>3 DEF Over
    <2>2. Is("awaitInit") => \/ Is("awaitInit")' /\ (Answered(s) => Answered(s)')
                             \/ Is("sendInit")' \/ Is("return")'
        BY <1>2, <1>3 DEF Over
    <2>3. Is("sendInit") => Is("sendInit")' \/ Is("return")'
        BY <1>2, <1>3 DEF Over, Relaying
    <2>4. Is("loop") => Is("loop")' \/ Is("sendStop")'
        BY <1>2, <1>3 DEF Over, Relaying
    <2>5. Is("recv") => Is("recv")' \/ Is("loop")' \/ Is("forward")' \/ Is("return")'
        BY <1>2, <1>3 DEF Over, Relaying
    <2>6. Is("forward") => Is("forward")' \/ Is("loop")' \/ Is("return")'
        BY <1>2, <1>3 DEF Over, Relaying
    <2>7. Is("adapt") => Is("adapt")' \/ Is("notify")'
        BY <1>2, <1>3 DEF Over, Relaying
    <2>8. Is("notify") => Is("notify")' \/ Is("loop")'
        BY <1>2, <1>3 DEF Over, Relaying
    <2>9. Is("sendStop") => Is("sendStop")' \/ Is("return")'
        BY <1>2, <1>3 DEF Over, Relaying
    <2>10. Is("return") => Is("return")' \/ Is("stop")'
        BY <1>2, <1>3 DEF Over
    <2>. QED BY <2>1, <2>2, <2>3, <2>4, <2>5, <2>6, <2>7, <2>8, <2>9, <2>10
<1>5. CrossInv /\ [Next]_vars /\ <<runCrossSession(s)>>_vars =>
         /\ Is("start") => Is("awaitInit")' \/ Is("return")'
         /\ Is("awaitInit") => Is("sendInit")' \/ Is("return")'
         /\ Is("sendInit") \/ Is("sendStop") => Is("return")'
         /\ Is("loop") => Is("sendStop")'
         /\ Is("recv") => Is("loop")' \/ Is("forward")' \/ Is("return")'
         /\ Is("forward") => Is("loop")' \/ Is("return")'
         /\ Is("adapt") => Is("notify")'
         /\ Is("notify") => Is("loop")'
         /\ Is("return") => Is("stop")'
    BY <1>2 DEF Over
<1>6. CrossInv /\ CrossCanStep =>
         /\ Is("start") \/ Is("loop") \/ Is("recv") \/ Is("return") => RunEnabled(s)
         /\ Is("sendInit") \/ Is("forward") \/ Is("notify") => RunEnabled(s)
         /\ Is("awaitInit") /\ Answered(s) => RunEnabled(s)
         /\ (Is("adapt") \/ Is("sendStop")) /\ Room(s) => WritesEnabled(s)
    <2>1. CrossInv /\ once[s] = "done" => Written(s)
        BY OverBody, SessionConstants DEF Written, CrossInv
    <2>. QED BY <2>1 DEF CrossCanStep, Over
<1>7. CrossInv /\ CrossCanStep /\ Is("awaitInit") /\ ~Answered(s) => HelperEnabled(s)
    BY HelperAnswers DEF CrossCanStep, Over
<1>8. CrossInv /\ <<runHelperMode(s)>>_vars /\ Is("awaitInit") /\ ~Answered(s) => Answered(s)'
    BY HelperAnswers DEF Over
<1>9. CrossInv /\ CrossCanStep /\ (Is("adapt") \/ Is("sendStop")) /\ ~Room(s) => ReadsEnabled(s)
    BY HelperMakesRoom DEF CrossCanStep, Over, Relaying
<1>10. CrossInv /\ <<helperReads(s)>>_vars /\ (Is("adapt") \/ Is("sendStop")) /\ ~Room(s) =>
          Room(s)'
    BY HelperMakesRoom DEF Over, Relaying
<1>11. CrossInv /\ once[s] = "done" /\ pc[Run(s)] \notin {"stop", "ended"} =>
          \/ Is("start") \/ Is("awaitInit") \/ Is("sendInit") \/ Is("loop") \/ Is("recv")
          \/ Is("forward") \/ Is("adapt") \/ Is("notify") \/ Is("sendStop") \/ Is("return")
    <2>1. CrossInv /\ once[s] = "done" =>
             pc[Run(s)] \notin {"dial", "dialled", "closing", "deleting"}
        BY OverBody, SessionConstants DEF StopInv, CrossInv
    <2>. QED BY <2>1, RelayPlace DEF Over, CrossInv, Waiting, Relaying
<1>. HIDE DEF Is
<1>20. CrossInv /\ [Next]_vars /\ <<Writes(s)>>_vars =>
          /\ Is("adapt") => Is("notify")'
          /\ Is("sendStop") => Is("return")'
    <2> SUFFICES ASSUME CrossInv, [Next]_vars, Writes(s)
                 PROVE  /\ Is("adapt") => Is("notify")'
                        /\ Is("sendStop") => Is("return")'
        OBVIOUS
    <2>1. runCrossSession(s)
        BY DEF Writes, runCrossSession
    <2>2. Is("adapt") \/ Is("sendStop") => once[s] = "done"
        BY DEF Over, Is
    <2>. QED BY <1>2, <2>1, <2>2
<1>12. Is("stop") => Over(s, Run(s), "stop")
    BY DEF Is
\* What the service waits for comes, and then it leaves.
<1>. DEFINE Ready == [][Next]_vars /\ []CrossInv /\ []CrossCanStep /\ LoopRuns(s)
<1>13. Ready => (Is("awaitInit") ~> (Is("sendInit") \/ Is("return")))
    BY <1>4, <1>5, <1>6, <1>7, <1>8, PTL DEF LoopRuns, RunEnabled, HelperEnabled
<1>14. Ready => (Is("adapt") ~> Is("notify"))
    BY <1>4, <1>6, <1>9, <1>10, <1>20, PTL DEF LoopRuns, WritesEnabled, ReadsEnabled
<1>15. Ready => (Is("sendStop") ~> Is("return"))
    BY <1>4, <1>6, <1>9, <1>10, <1>20, PTL DEF LoopRuns, WritesEnabled, ReadsEnabled
<1>16. Ready => /\ Is("sendInit") ~> Is("return")
                /\ Is("forward") ~> (Is("loop") \/ Is("return"))
                /\ Is("notify") ~> Is("loop")
                /\ Is("loop") ~> Is("sendStop")
    BY <1>4, <1>5, <1>6, PTL DEF LoopRuns, RunEnabled
<1>17. Ready => /\ Is("start") ~> (Is("awaitInit") \/ Is("return"))
                /\ Is("recv") ~> (Is("loop") \/ Is("forward") \/ Is("return"))
                /\ Is("return") ~> Is("stop")
    BY <1>4, <1>5, <1>6, PTL DEF LoopRuns, RunEnabled
<1>18. Ready => []CrossInv
    OBVIOUS
<1>. HIDE DEF Ready
<1>19. Ready => ComesToStop(s)
    BY <1>11, <1>12, <1>13, <1>14, <1>15, <1>16, <1>17, <1>18, PTL DEF ComesToStop
<1>. QED BY <1>19 DEF Ready

\* A reader that waits for room is let through: the helper reads while the
\* service relays, and the service closes the pipe when it leaves.
LEMMA ReaderGoesOn ==
    ASSUME NEW s \in Session
    PROVE  [][Next]_vars /\ []CrossInv /\ []CrossCanStep /\ LoopRuns(s) => ReaderReturns(s)
<1>. DEFINE F == Over(s, Reader(s), "forwarding")
            Back == Over(s, Reader(s), "reading")
            Full(place) == F /\ ~CanForward(s) /\ pc[Run(s)] \in place
<1>1. CrossInv /\ [Next]_vars /\ F => F' \/ Back'
    BY OpenNextHolds, OnceMoves, OverQuiet, SessionConstants DEF CrossInv, Over
<1>2. CrossInv /\ [Next]_vars /\ <<ForwardInput(s)>>_vars /\ F => Back'
    <2>1. CrossInv /\ ForwardInput(s) => pc'[Reader(s)] = "reading"
        BY Own DEF ForwardInput, ReaderTurns, Goto, CrossInv, Placed
    <2>. QED BY <1>1, <2>1 DEF Over
<1>3. CrossCanStep /\ F /\ CanForward(s) => ForwardEnabled(s)
    BY DEF CrossCanStep, Over
<1>4. CrossInv /\ F /\ ~CanForward(s) => Full(Relaying) \/ Full({"return"})
    <2>1. CrossInv /\ F /\ ~CanForward(s) =>
             pc[Run(s)] \in Relaying \cup {"awaitInit", "return"}
        BY DEF CrossInv, HeardInv, Heard, CanForward
    <2>2. CrossInv /\ F => pc[Run(s)] # "awaitInit"
        <3> SUFFICES ASSUME CrossInv, F, pc[Run(s)] = "awaitInit" PROVE FALSE
            OBVIOUS
        <3>1. AbstractPc[Run(s)] = "start" /\ AbstractPc[Reader(s)] = "reading"
            BY At, Own DEF CrossInv, AbstractPlace, Over
        <3>. QED
            BY <3>1 DEF CrossInv, Life!IInv, Life!Early, Life!Run, Run, Life!Reader, Reader
    <2>. QED BY <2>1, <2>2
<1>5. CrossInv /\ [Next]_vars /\ Full({"return"}) => Full({"return"})' \/ CanForward(s)' \/ ~F'
    <2> SUFFICES ASSUME CrossInv, [Next]_vars, Full({"return"}), ~CanForward(s)', F'
                 PROVE  Full({"return"})'
        OBVIOUS
    <2>1. once[s] = "done" /\ pc[Run(s)] = "return"
        BY DEF Over
    <2>2. runCrossSession(s) => Return(s)
        BY <2>1 DEF runCrossSession, Step, Accept, AcceptTimeout, RecvInit, RecvFails, SendInit,
           SeeStop, BeginRecv, RecvTimeout, Recv, Forward, Adapt, Notify, SendStop
    <2>3. Return(s) => pipe'[s] # "open"
        BY DEF Return, CrossInv, HeardInv, HeardTypes, PipeTypes
    <2>4. pc'[Run(s)] = "return"
        BY <2>1, <2>2, <2>3, RelayMoves DEF CanForward
    <2>. QED BY <2>4
<1>6. CrossInv /\ CrossCanStep =>
         /\ Full(Relaying) => ReadsEnabled(s)
         /\ Full({"return"}) => RunEnabled(s)
    BY HelperMakesRoom DEF CrossCanStep, CanForward
<1>7. CrossInv /\ <<helperReads(s)>>_vars /\ Full(Relaying) => CanForward(s)'
    BY HelperMakesRoom DEF CanForward
<1>8. CrossInv /\ <<runCrossSession(s)>>_vars /\ Full({"return"}) => ~Full({"return"})'
    BY RelayStep DEF Over
<1>. HIDE DEF F, Back, Full
<1>. DEFINE Ready == [][Next]_vars /\ []CrossInv /\ []CrossCanStep /\ LoopRuns(s)
<1>10. Ready => (F ~> (CanForward(s) \/ ~F))
    BY <1>4, <1>5, <1>6, <1>7, <1>8, PTL DEF LoopRuns, ReadsEnabled, RunEnabled
<1>11. Ready => (F ~> Back)
    BY <1>1, <1>2, <1>3, <1>10, PTL DEF LoopRuns, ForwardEnabled
<1>. QED BY <1>11 DEF Ready, F, Back, ReaderReturns

\* Told to stop by whichever goroutine, a cross-session stream winds down, also
\* when it waits for its helper, or for room on the pipe to it: its three
\* goroutines end and its WebSocket is closed.
THEOREM CrossStoppedEnds ==
    FairSpec /\ []SharedCanStep /\ []CrossCanStep => StoppedEnds
<1>1. ASSUME NEW s \in Session
      PROVE  FairSpec /\ []SharedCanStep /\ []CrossCanStep => (stopCh[s] ~> WoundDown(s))
    <2>1. FairSpec => Spec /\ SharedFairness /\ LoopRuns(s)
        BY DEF FairSpec
    <2>2. Spec => [][Next]_vars /\ []CrossInv
        BY CrossInvHolds, PTL DEF Spec
    <2>3. CrossInv => StopInv
        BY DEF CrossInv
    <2>4. CrossInv /\ [Next]_vars => [OpenNext]_sessionVars
        BY OpenNextHolds DEF CrossInv
    <2>5. Spec /\ []SharedCanStep => Open
        BY <2>2, <2>3, <2>4, PTL DEF Open
    <2>. QED BY <2>1, <2>2, <2>5, RelayEnds, ReaderGoesOn, StopEnds, PTL
<1>2. FairSpec /\ []SharedCanStep /\ []CrossCanStep =>
         \A s \in Session : stopCh[s] ~> WoundDown(s)
    BY <1>1
<1>. QED BY <1>2 DEF StoppedEnds, WoundDown

(* Once the service has left, its helper finds the listener gone, or the    *)
(* pipe closed when it next writes: it need not read what the pipe holds.   *)
HelperEndsEnabled(s) == ENABLED <<HelperEnds(s)>>_vars

HelperCanStep ==
    \A s \in Session :
        /\ helper[s] \in {"connected", "streaming"} => HelperEnabled(s)
        /\ helper[s] = "dialing" /\ ~Listening(s) => HelperEnabled(s)
        /\ helper[s] = "sending" /\ ServiceGone(s) => HelperEndsEnabled(s)

\* The run goroutine has ended, with the helper at place h.
Left(s, h) == pc[Run(s)] = "ended" /\ helper[s] = h

LEMMA LeftMoves ==
    ASSUME CrossInv, NEW s \in Session, [Next]_vars, pc[Run(s)] = "ended"
    PROVE  /\ pc'[Run(s)] = "ended" /\ ~Listening(s)
           /\ helper'[s] = helper[s] \/ runHelperMode(s) \/ helper'[s] = "exited"
<1>1. HeardTypes /\ HelperTypes /\ Placed
    BY DEF CrossInv, HeardInv, HeardTypes
<1>2. CASE SharedNext /\ UNCHANGED crossVars
    <2>1. ~Store(s) /\ ~stop(Run(s), s)
        BY DEF Store, stop, CloseStopCh, CloseSocket, Forget, JoinStop
    <2>. QED
        BY <1>1, <1>2, <2>1, SharedRun, SessionConstants DEF crossVars, helperVars, Listening
<1>3. ASSUME NEW r \in Session \ {s},
             \/ startCrossSessionStream(r) \/ runCrossSession(r) \/ viewerInput(r)
             \/ runHelperMode(r) \/ helperReads(r) \/ HelperQuits(r)
      PROVE  pc'[Run(s)] = pc[Run(s)] /\ helper'[s] = helper[s]
    BY <1>1, <1>3, HeardElsewhere DEF HeardVars
<1>4. ~startCrossSessionStream(s) /\ ~runCrossSession(s)
    BY DEF startCrossSessionStream, Spawn, SpawnFails, Dial, DialFails, Step, runCrossSession,
       Accept, AcceptTimeout, RecvInit, RecvFails, SendInit, SeeStop, BeginRecv, RecvTimeout, Recv,
       Forward, Adapt, Notify, SendStop, Return
<1>5. CASE helperReads(s)
    BY <1>5 DEF helperReads, HelperReads, HelperReadFails, sessionVars, helperVars, Listening
<1>9. CASE viewerInput(s)
    <2>1. Run(s) \in DOMAIN pc /\ Reader(s) # Run(s)
        BY <1>1, Own DEF Placed, Run, Reader
    <2>. QED
        BY <1>9, <2>1 DEF viewerInput, ViewerSends, ForwardInput, ReaderTurns, Goto, helperVars,
           Listening
<1>6. CASE runHelperMode(s)
    BY <1>6 DEF runHelperMode, HelperDials, HelperDialFails, HelperStarts, HelperFails,
       HelperCaptures, HelperSends, HelperEnds, sessionVars, Listening
<1>7. CASE HelperQuits(s)
    BY <1>1, <1>7 DEF HelperQuits, Become, sessionVars, HelperTypes, Listening
<1>8. CASE UNCHANGED vars
    BY <1>8 DEF vars, sessionVars, crossVars, helperVars, Listening
<1>. QED BY <1>2, <1>3, <1>4, <1>5, <1>6, <1>7, <1>8, <1>9 DEF Next, Listening, viewerInput

LEMMA LeftHelper ==
    ASSUME CrossInv, NEW s \in Session, pc[Run(s)] = "ended"
    PROVE  /\ helper[s] \in HelperPlace
           /\ helper[s] \in {"connected", "streaming", "sending"} => ServiceGone(s)
           /\ runHelperMode(s) =>
                 /\ helper[s] = "dialing" => helper'[s] = "exited"
                 /\ helper[s] = "connected" => helper'[s] \in {"streaming", "exited"}
                 /\ helper[s] = "streaming" => helper'[s] \in {"sending", "exited"}
                 /\ helper[s] = "sending" => helper'[s] \in {"streaming", "exited"}
                 /\ helper[s] \notin {"none", "exited"}
           /\ HelperEnds(s) => helper'[s] = "exited"
<1>1. HelperTypes /\ PipeTypes /\ Heard(s) /\ ~Listening(s)
    BY DEF CrossInv, HeardInv, HeardTypes, Listening
<1>2. helper[s] \in {"connected", "streaming", "sending"} => ServiceGone(s)
    BY <1>1 DEF Heard, PipeTypes, ServiceGone, Relaying
<1>3. \A from, to : Become(s, from, to) => helper[s] = from /\ helper'[s] = to
    BY <1>1 DEF Become, HelperTypes
<1>4. runHelperMode(s) =>
         \/ Become(s, "dialing", "exited")
         \/ Become(s, "connected", "streaming") \/ Become(s, "connected", "exited")
         \/ Become(s, "streaming", "sending") \/ Become(s, "streaming", "exited")
         \/ Become(s, "sending", "streaming") \/ Become(s, "sending", "exited")
    BY <1>1 DEF runHelperMode, HelperDials, HelperDialFails, HelperStarts, HelperFails,
       HelperCaptures, HelperSends, HelperEnds
<1>5. HelperEnds(s) => helper'[s] = "exited"
    BY <1>3 DEF HelperEnds
<1>. QED BY <1>1, <1>2, <1>3, <1>4, <1>5 DEF HelperTypes

LEMMA HelperLeaves ==
    ASSUME NEW s \in Session
    PROVE  [][Next]_vars /\ []CrossInv /\ []HelperCanStep /\ LoopRuns(s) =>
              (pc[Run(s)] = "ended" ~> helper[s] \in {"none", "exited"})
<1>. DEFINE Done == helper[s] \in {"none", "exited"}
            Is(h) == Left(s, h)
<1>1. CrossInv /\ [Next]_vars =>
         /\ Is("dialing") => Is("dialing")' \/ Done'
         /\ Is("connected") => Is("connected")' \/ Is("streaming")' \/ Done'
         /\ Is("streaming") => Is("streaming")' \/ Is("sending")' \/ Done'
         /\ Is("sending") => Is("streaming")' \/ Is("sending")' \/ Done'
    BY LeftMoves, LeftHelper DEF Left
<1>2. CrossInv /\ [Next]_vars /\ <<runHelperMode(s)>>_vars =>
         /\ Is("dialing") => Done'
         /\ Is("connected") => Is("streaming")' \/ Done'
         /\ Is("streaming") => Is("sending")' \/ Done'
    BY LeftMoves, LeftHelper DEF Left
<1>3. CrossInv /\ [Next]_vars /\ <<HelperEnds(s)>>_vars /\ (Is("streaming") \/ Is("sending")) =>
         Done'
    BY LeftMoves, LeftHelper DEF Left
<1>4. CrossInv /\ HelperCanStep =>
         /\ Is("dialing") \/ Is("connected") \/ Is("streaming") => HelperEnabled(s)
         /\ Is("sending") => HelperEndsEnabled(s)
    BY LeftHelper DEF Left, HelperCanStep, Listening
<1>5. CrossInv /\ pc[Run(s)] = "ended" =>
         Done \/ Is("dialing") \/ Is("connected") \/ Is("streaming") \/ Is("sending")
    BY LeftHelper DEF Left, HelperPlace
<1>6. Done <=> helper[s] \in {"none", "exited"}
    OBVIOUS
<1>. HIDE DEF Done, Is
<1>. QED
    BY <1>1, <1>2, <1>3, <1>4, <1>5, <1>6, PTL DEF LoopRuns, HelperEnabled, HelperEndsEnabled

\* No helper is left behind: whoever stops the session, and also when it ends
\* before it is stored, the process exits, though it never connected, or the
\* pipe to the service is full.
THEOREM HelperReapedAlways ==
    FairSpec /\ []SharedCanStep /\ []CrossCanStep /\ []HelperCanStep => HelperReaped
<1>1. ASSUME NEW s \in Session
      PROVE  FairSpec /\ []SharedCanStep /\ []CrossCanStep /\ []HelperCanStep =>
                ((stopCh[s] \/ pc[Run(s)] = "ended") ~> helper[s] \in {"none", "exited"})
    <2>1. FairSpec => Spec /\ LoopRuns(s)
        BY DEF FairSpec
    <2>2. Spec => [][Next]_vars /\ []CrossInv
        BY CrossInvHolds, PTL DEF Spec
    <2>3. FairSpec /\ []SharedCanStep /\ []CrossCanStep => (stopCh[s] ~> WoundDown(s))
        BY CrossStoppedEnds DEF StoppedEnds, WoundDown
    <2>4. CrossInv /\ WoundDown(s) => pc[Run(s)] = "ended"
        BY RelayPlace DEF WoundDown, Run, CrossInv, Waiting, Relaying
    <2>. QED BY <2>1, <2>2, <2>3, <2>4, HelperLeaves, PTL
<1>2. FairSpec /\ []SharedCanStep /\ []CrossCanStep /\ []HelperCanStep =>
         \A s \in Session : (stopCh[s] \/ pc[Run(s)] = "ended") ~> helper[s] \in {"none", "exited"}
    BY <1>1
<1>. QED BY <1>2 DEF HelperReaped
-----------------------------------------------------------------------------
(* The pipe beneath (module Pipe), for any writers, whichever of them send  *)
(* messages without a payload, and any number of messages: with deadlines   *)
(* or without, the messages of a writer are in order for as long as the     *)
(* receiver keeps the framing.                                              *)
Received(w, n) == \E j \in DOMAIN received : received[j] = <<w, n>>

\* The part that completes a message.
LastPart(w, n) == IF HasBody[w] THEN Payload(w, n) ELSE Header(w, n)

\* The n-th message of w has been received, or will be before the i-th part of
\* the stream is read.
CompleteBefore(w, n, i) ==
    Received(w, n) \/ \E j \in DOMAIN stream : j < i /\ stream[j] = LastPart(w, n)

\* A message begins after the one its writer sent before it has ended.
FromSent ==
    /\ \A w \in Writer, n \in 1 .. MaxSent, i \in DOMAIN stream :
          stream[i] = Header(w, n) /\ n > 1 => CompleteBefore(w, n - 1, i)
    /\ \A w \in Writer :
          ~pending[w] /\ count[w] > 0 => CompleteBefore(w, count[w], Len(stream) + 1)
    /\ \A w \in Writer, n \in 1 .. MaxSent :
          expect = <<w, n>> /\ n > 1 => Received(w, n - 1)

\* A payload is owed for a message that was begun.
Begun == \A w \in Writer : pending[w] => count[w] > 0 /\ HasBody[w]

PipeInv == PipeTypeOK /\ Begun /\ ReceivedInOrder /\ (~garbled => FromSent)
-----------------------------------------------------------------------------
LEMMA PipeInvInit == PipeInit => PipeInv
<1>. SUFFICES ASSUME PipeInit PROVE PipeInv
    OBVIOUS
<1>1. PipeTypeOK
    <2>1. count \in [Writer -> 0 .. MaxSent] /\ pending \in [Writer -> BOOLEAN]
        BY PipeConstants DEF PipeInit
    <2>2. stream \in Seq(Part) /\ received \in Seq(Message)
        BY EmptySeq DEF PipeInit
    <2>3. expect = <<>> /\ garbled \in BOOLEAN
        BY Zenon DEF PipeInit
    <2>. QED BY <2>1, <2>2, <2>3 DEF PipeTypeOK
<1>2. Begun /\ ReceivedInOrder /\ FromSent
    BY DEF PipeInit, Begun, ReceivedInOrder, FromSent
<1>. QED BY <1>1, <1>2 DEF PipeInv

\* The parts of different messages, and of one, differ.
LEMMA Parts ==
    ASSUME NEW v \in Writer, NEW w \in Writer, NEW m \in 1 .. MaxSent, NEW n \in 1 .. MaxSent
    PROVE  /\ Header(v, m) \in Part /\ Payload(v, m) \in Part /\ <<v, m>> \in Message
           /\ Header(v, m) # Payload(w, n)
           /\ Header(v, m) = Header(w, n) => v = w /\ m = n
           /\ Payload(v, m) = Payload(w, n) => v = w /\ m = n
           /\ <<v, m>> # <<>>
BY DEF Header, Payload, Part, Message

\* A part that may be read.
LEMMA PartForms ==
    ASSUME NEW p \in Part
    PROVE  \E w \in Writer, n \in 1 .. MaxSent :
               /\ p.msg = <<w, n>>
               /\ p = Header(w, n) \/ p = Payload(w, n)
               /\ p.part = "header" <=> p = Header(w, n)
BY DEF Header, Payload, Part, Message

\* The stream after its first part has been read.
LEMMA TakeFacts ==
    ASSUME PipeTypeOK, Take
    PROVE  /\ stream \in Seq(Part) /\ stream' \in Seq(Part) /\ Head(stream) \in Part
           /\ Head(stream) = stream[1] /\ 1 \in DOMAIN stream
           /\ Len(stream) \in Nat /\ Len(stream) = Len(stream') + 1
           /\ \A i \in DOMAIN stream' : /\ i \in Nat /\ i >= 1
                                        /\ i + 1 \in DOMAIN stream /\ stream'[i] = stream[i + 1]
           /\ \A i \in DOMAIN stream \ {1} : i - 1 \in DOMAIN stream' /\ stream'[i - 1] = stream[i]
<1>1. stream \in Seq(Part) /\ stream # <<>> /\ stream' = Tail(stream)
    BY DEF Take, PipeTypeOK
<1>2. /\ Tail(stream) \in Seq(Part) /\ Head(stream) \in Part /\ Head(stream) = stream[1]
      /\ Len(stream) \in Nat /\ Len(stream) >= 1 /\ Len(Tail(stream)) = Len(stream) - 1
      /\ DOMAIN stream = 1 .. Len(stream) /\ DOMAIN Tail(stream) = 1 .. Len(stream) - 1
      /\ \A i \in 1 .. Len(stream) - 1 : Tail(stream)[i] = stream[i + 1]
    BY <1>1, HeadTailProperties, LenProperties
<1>. QED BY <1>1, <1>2
-----------------------------------------------------------------------------
LEMMA PipeTypeStep ==
    ASSUME PipeTypeOK, Begun, PipeNext
    PROVE  PipeTypeOK' /\ Begun'
<1>1. ASSUME NEW w \in Writer, WriteHeader(w) PROVE PipeTypeOK' /\ Begun'
    <2>1. count[w] + 1 \in 1 .. MaxSent
        BY <1>1, PipeConstants DEF WriteHeader, PipeTypeOK
    <2>2. Append(stream, Header(w, count[w] + 1)) \in Seq(Part)
        BY <2>1, Parts, AppendProperties DEF PipeTypeOK
    <2>3. /\ count' \in [Writer -> 0 .. MaxSent] /\ pending' \in [Writer -> BOOLEAN]
          /\ stream' \in Seq(Part)
        <3>1. HasBody[w] \in BOOLEAN
            BY PipeConstants
        <3>2. pending' \in [Writer -> BOOLEAN]
            BY <1>1, <3>1, Zenon DEF WriteHeader, PipeTypeOK
        <3>3. count' \in [Writer -> 0 .. MaxSent]
            BY <1>1, <2>1 DEF WriteHeader, PipeTypeOK
        <3>. QED BY <1>1, <2>2, <3>2, <3>3 DEF WriteHeader
    <2>4. Begun'
        BY <1>1, <2>1 DEF WriteHeader, PipeTypeOK, Begun
    <2>. QED BY <1>1, <2>3, <2>4 DEF WriteHeader, PipeTypeOK
<1>2. ASSUME NEW w \in Writer, WritePayload(w) PROVE PipeTypeOK' /\ Begun'
    <2>1. count[w] \in 1 .. MaxSent
        BY <1>2, PipeConstants DEF WritePayload, PipeTypeOK, Begun
    <2>2. Append(stream, Payload(w, count[w])) \in Seq(Part)
        BY <2>1, Parts, AppendProperties DEF PipeTypeOK
    <2>. QED BY <1>2, <2>2 DEF WritePayload, PipeTypeOK, Begun
<1>3. CASE ReadHeader
    <2>1. PICK w \in Writer, n \in 1 .. MaxSent : Head(stream).msg = <<w, n>>
        BY <1>3, TakeFacts, PartForms DEF ReadHeader
    <2>2. <<w, n>> \in Message /\ <<w, n>>[1] = w /\ stream' \in Seq(Part)
        BY <1>3, Parts, TakeFacts DEF ReadHeader
    <2>3. \/ HasBody[w] /\ expect' = <<w, n>> /\ received' = received
          \/ ~HasBody[w] /\ expect' = <<>> /\ received' = Append(received, <<w, n>>)
        BY <1>3, <2>1, <2>2 DEF ReadHeader
    <2>4. received' \in Seq(Message)
        <3>1. received \in Seq(Message)
            BY DEF PipeTypeOK
        <3>2. PICK m \in Message : m = <<w, n>>
            BY <2>2
        <3>3. Append(received, m) \in Seq(Message)
            BY <3>1, <3>2, AppendProperties
        <3>. QED BY <2>3, <3>1, <3>2, <3>3
    <2>. QED BY <1>3, <2>2, <2>3, <2>4 DEF ReadHeader, PipeTypeOK, Begun
<1>4. CASE ReadPayload
    <2>1. stream' \in Seq(Part) /\ Append(received, expect) \in Seq(Message)
        BY <1>4, TakeFacts, AppendProperties DEF ReadPayload, PipeTypeOK
    <2>. QED BY <1>4, <2>1 DEF ReadPayload, PipeTypeOK, Begun
<1>5. CASE Misread
    <2>1. stream' \in Seq(Part)
        BY <1>5, TakeFacts DEF Misread
    <2>. QED BY <1>5, <2>1 DEF Misread, PipeTypeOK, Begun
<1>6. CASE ReadTimeout
    BY <1>6 DEF ReadTimeout, PipeTypeOK, Begun
<1>. QED BY <1>1, <1>2, <1>3, <1>4, <1>5, <1>6 DEF PipeNext, pipeRecv, pipeSend
-----------------------------------------------------------------------------
(* What is received and what is still to come.                              *)

\* Nothing is read, and a part is written.
LEMMA WriteStep ==
    ASSUME PipeInv, ~garbled, NEW w \in Writer, pipeSend(w)
    PROVE  FromSent'
<1>. DEFINE n == IF WriteHeader(w) THEN count[w] + 1 ELSE count[w]
            p == IF WriteHeader(w) THEN Header(w, n) ELSE Payload(w, n)
<1>1. n \in 1 .. MaxSent /\ PipeTypeOK /\ FromSent /\ PipeTypeOK'
    <2>1. PipeTypeOK /\ FromSent /\ Begun /\ PipeTypeOK'
        BY PipeTypeStep DEF PipeInv, PipeNext
    <2>2. count[w] \in 0 .. MaxSent /\ MaxSent \in Nat
        BY <2>1, PipeConstants DEF PipeTypeOK
    <2>3. WriteHeader(w) => count[w] < MaxSent
        BY DEF WriteHeader
    <2>4. ~WriteHeader(w) => count[w] > 0
        BY <2>1 DEF pipeSend, WritePayload, Begun
    <2>. QED BY <2>1, <2>2, <2>3, <2>4
<1>2. stream' = Append(stream, p) /\ received' = received /\ expect' = expect
    BY DEF pipeSend, WriteHeader, WritePayload
<1>3. /\ Len(stream) \in Nat /\ Len(stream') = Len(stream) + 1 /\ stream'[Len(stream) + 1] = p
      /\ \A i \in DOMAIN stream : i \in DOMAIN stream' /\ stream'[i] = stream[i]
      /\ \A i \in DOMAIN stream' : i \in DOMAIN stream \/ i = Len(stream) + 1
      /\ \A i \in DOMAIN stream : i \in Nat /\ i < Len(stream) + 1
      /\ Len(stream) + 1 \in DOMAIN stream'
    <2>1. stream \in Seq(Part) /\ p \in Part
        <3>. HIDE DEF n
        <3>1. stream \in Seq(Part)
            BY <1>1 DEF PipeTypeOK
        <3>2. Header(w, n) \in Part /\ Payload(w, n) \in Part
            BY <1>1, Parts
        <3>. QED BY <3>1, <3>2
    <2>2. /\ Len(stream) \in Nat /\ DOMAIN stream = 1 .. Len(stream)
          /\ Len(stream') = Len(stream) + 1 /\ stream'[Len(stream) + 1] = p
          /\ \A i \in 1 .. Len(stream) : stream'[i] = stream[i]
          /\ DOMAIN stream' = 1 .. Len(stream) + 1
        BY <1>2, <2>1, AppendProperties, LenProperties
    <2>. QED BY <2>2
<1>. HIDE DEF n, p
<1>4. ASSUME NEW v \in Writer, NEW m \in 1 .. MaxSent, NEW i \in Nat, CompleteBefore(v, m, i)
      PROVE  \A k \in Nat : k >= i => CompleteBefore(v, m, k)'
    BY <1>2, <1>3, <1>4 DEF CompleteBefore, Received
<1>5. ~pending[w] => p = Header(w, n) /\ n = count[w] + 1
    BY DEF n, p, pipeSend, WriteHeader, WritePayload
<1>6. ASSUME NEW v \in Writer, NEW m \in 1 .. MaxSent, NEW i \in DOMAIN stream',
             stream'[i] = Header(v, m), m > 1
      PROVE  CompleteBefore(v, m - 1, i)'
    <2>1. CASE i \in DOMAIN stream
        <3>1. stream[i] = Header(v, m) /\ m - 1 \in 1 .. MaxSent /\ i \in Nat
            BY <1>3, <1>6, <2>1, PipeConstants
        <3>2. CompleteBefore(v, m - 1, i)
            BY <1>1, <1>6, <2>1, <3>1 DEF FromSent
        <3>. QED BY <1>4, <3>1, <3>2
    <2>2. CASE i = Len(stream) + 1
        <3>1. p = Header(v, m)
            BY <1>3, <1>6, <2>2
        <3>2. WriteHeader(w)
            BY <1>1, <3>1, Parts DEF n, p, pipeSend
        <3>3. v = w /\ m = n /\ n = count[w] + 1 /\ ~pending[w]
            <4>1. p = Header(w, n) /\ n = count[w] + 1 /\ ~pending[w]
                BY <3>2 DEF n, p, WriteHeader
            <4>2. v = w /\ m = n
                BY <3>1, <4>1 DEF Header
            <4>. QED BY <4>1, <4>2
        <3>4. m - 1 = count[w] /\ m - 1 \in 1 .. MaxSent
            BY <1>1, <1>6, <3>3, PipeConstants DEF PipeTypeOK
        <3>5. CompleteBefore(w, m - 1, i)
            BY <1>1, <1>6, <2>2, <3>3, <3>4 DEF FromSent
        <3>6. i \in Nat /\ i >= i
            BY <1>3, <2>2
        <3>. QED BY <1>4, <3>3, <3>4, <3>5, <3>6
    <2>. QED BY <1>3, <2>1, <2>2
<1>7. ASSUME NEW v \in Writer, ~pending'[v], count'[v] > 0
      PROVE  CompleteBefore(v, count[v], Len(stream) + 1)'
    <2>1. CASE v # w
        <3>1. ~pending[v] /\ count'[v] = count[v] /\ count[v] \in 1 .. MaxSent
            BY <1>1, <1>7, <2>1, PipeConstants DEF pipeSend, WriteHeader, WritePayload, PipeTypeOK
        <3>2. CompleteBefore(v, count[v], Len(stream) + 1)
            BY <1>1, <1>7, <3>1 DEF FromSent
        <3>. QED BY <1>2, <1>3, <3>1, <3>2 DEF CompleteBefore, Received
    <2>2. CASE v = w
        <3>1. count'[w] = n /\ p = LastPart(w, n)
            BY <1>1, <1>7, <2>2 DEF n, p, LastPart, pipeSend, WriteHeader, WritePayload, PipeTypeOK,
                                    PipeInv, Begun
        <3>. QED BY <1>3, <2>2, <3>1 DEF CompleteBefore, LastPart
    <2>. QED BY <2>1, <2>2
<1>8. \A v \in Writer, m \in 1 .. MaxSent : expect' = <<v, m>> /\ m > 1 => Received(v, m - 1)'
    BY <1>1, <1>2 DEF FromSent, Received
<1>. QED BY <1>6, <1>7, <1>8 DEF FromSent
\* The first part of the stream is read, and with it perhaps a message.
LEMMA BeforeTaken ==
    ASSUME PipeTypeOK, Take,
           \A v \in Writer, m \in 1 .. MaxSent : Received(v, m) => Received(v, m)',
           NEW v \in Writer, NEW m \in 1 .. MaxSent, NEW i \in Nat, CompleteBefore(v, m, i),
           Head(stream) = LastPart(v, m) => Received(v, m)'
    PROVE  Received(v, m)' \/ \E j \in DOMAIN stream' : j < i - 1 /\ stream'[j] = LastPart(v, m)
<1>1. CASE Received(v, m)
    BY <1>1
<1>2. ASSUME NEW j \in DOMAIN stream, j < i, stream[j] = LastPart(v, m) PROVE
        Received(v, m)' \/ \E k \in DOMAIN stream' : k < i - 1 /\ stream'[k] = LastPart(v, m)
    <2>1. CASE j = 1
        BY <1>2, <2>1, TakeFacts
    <2>2. CASE j # 1
        <3>1. j - 1 \in DOMAIN stream' /\ stream'[j - 1] = stream[j] /\ j \in Nat
            BY <1>2, <2>2, TakeFacts
        <3>2. j - 1 < i - 1
            BY <1>2, <3>1
        <3>. QED BY <1>2, <3>1, <3>2
    <2>. QED BY <2>1, <2>2
<1>. QED BY <1>1, <1>2 DEF CompleteBefore

LEMMA TakeFromSent ==
    ASSUME PipeTypeOK, FromSent, Take, UNCHANGED <<count, pending>>,
           \A v \in Writer, m \in 1 .. MaxSent : Received(v, m) => Received(v, m)',
           \A v \in Writer, m \in 1 .. MaxSent : Head(stream) = LastPart(v, m) => Received(v, m)',
           \A v \in Writer, m \in 1 .. MaxSent :
               expect' = <<v, m>> /\ m > 1 => Received(v, m - 1)'
    PROVE  FromSent'
<1>1. ASSUME NEW v \in Writer, NEW m \in 1 .. MaxSent, NEW i \in DOMAIN stream',
             stream'[i] = Header(v, m), m > 1
      PROVE  CompleteBefore(v, m - 1, i)'
    <2>1. i + 1 \in DOMAIN stream /\ stream[i + 1] = Header(v, m) /\ i \in Nat
        BY <1>1, TakeFacts
    <2>2. m - 1 \in 1 .. MaxSent /\ i + 1 \in Nat /\ (i + 1) - 1 = i
        BY <1>1, <2>1, PipeConstants
    <2>3. CompleteBefore(v, m - 1, i + 1)
        BY <1>1, <2>1 DEF FromSent
    <2>4. Received(v, m - 1)' \/ \E j \in DOMAIN stream' : j < (i + 1) - 1 /\ stream'[j] = LastPart(v, m - 1)
        BY <2>2, <2>3, BeforeTaken
    <2>. QED BY <2>2, <2>4 DEF CompleteBefore
<1>2. ASSUME NEW v \in Writer, ~pending'[v], count'[v] > 0
      PROVE  CompleteBefore(v, count[v], Len(stream) + 1)'
    <2>1. PICK m \in 1 .. MaxSent : m = count[v] /\ count'[v] = m
        BY <1>2, PipeConstants DEF PipeTypeOK
    <2>2. CompleteBefore(v, m, Len(stream) + 1)
        BY <1>2, <2>1 DEF FromSent
    <2>3. /\ Len(stream) + 1 \in Nat /\ Len(stream') \in Nat
          /\ (Len(stream) + 1) - 1 = Len(stream') + 1
        BY TakeFacts
    <2>4. Received(v, m)' \/ \E j \in DOMAIN stream' : j < (Len(stream) + 1) - 1 /\ stream'[j] = LastPart(v, m)
        BY <2>2, <2>3, BeforeTaken
    <2>. QED BY <2>1, <2>3, <2>4 DEF CompleteBefore, Received
<1>. QED BY <1>1, <1>2 DEF FromSent

\* A message is received after the one its writer sent before it.
LEMMA ReceiveNext ==
    ASSUME PipeTypeOK, ReceivedInOrder, NEW w \in Writer, NEW n \in 1 .. MaxSent,
           n > 1 => Received(w, n - 1), received' = Append(received, <<w, n>>)
    PROVE  /\ ReceivedInOrder' /\ Received(w, n)'
           /\ \A v \in Writer, m \in Nat : Received(v, m) => Received(v, m)'
<1>1. <<w, n>> \in Message
    BY DEF Message
<1>2. received \in Seq(Message)
    BY DEF PipeTypeOK
<1>3. /\ Len(received) \in Nat /\ DOMAIN received = 1 .. Len(received)
      /\ DOMAIN received' = 1 .. Len(received) + 1 /\ received'[Len(received) + 1] = <<w, n>>
      /\ \A i \in 1 .. Len(received) : received'[i] = received[i]
    BY <1>1, <1>2, AppendProperties, LenProperties
<1>4. ASSUME NEW i \in DOMAIN received', received'[i][2] > 1
      PROVE  \E j \in 1 .. (i - 1) : received'[j] = <<received'[i][1], received'[i][2] - 1>>
    <2>1. CASE i \in DOMAIN received
        <3>1. i \in 1 .. Len(received) /\ received'[i] = received[i]
            BY <1>3, <2>1
        <3>2. PICK j \in 1 .. (i - 1) : received[j] = <<received[i][1], received[i][2] - 1>>
            BY <1>4, <2>1, <3>1 DEF ReceivedInOrder
        <3>3. j \in 1 .. Len(received)
            BY <1>3, <3>1, <3>2
        <3>4. received'[j] = <<received'[i][1], received'[i][2] - 1>>
            BY <1>3, <3>1, <3>2, <3>3
        <3>. QED BY <3>4
    <2>2. CASE i = Len(received) + 1
        <3>1. received'[i] = <<w, n>>
            BY <1>3, <2>2
        <3>2. received'[i][1] = w /\ received'[i][2] = n
            BY <3>1
        <3>3. Received(w, n - 1)
            BY <1>4, <3>2
        <3>4. PICK j \in DOMAIN received : received[j] = <<w, n - 1>>
            BY <3>3 DEF Received
        <3>5. j \in 1 .. Len(received)
            BY <1>3
        <3>6. j \in 1 .. (i - 1)
            BY <1>3, <2>2, <3>5
        <3>7. received'[j] = <<w, n - 1>>
            BY <1>3, <3>4, <3>5
        <3>8. received'[j] = <<received'[i][1], received'[i][2] - 1>>
            BY <3>2, <3>7
        <3>. QED BY <3>6, <3>8
    <2>3. i \in 1 .. Len(received) \/ i = Len(received) + 1
        BY <1>3
    <2>4. i \in DOMAIN received \/ i = Len(received) + 1
        BY <1>3, <2>3
    <2>. QED BY <2>1, <2>2, <2>4
<1>5. ReceivedInOrder'
    BY <1>4 DEF ReceivedInOrder
<1>6. Received(w, n)'
    BY <1>3 DEF Received
<1>7. \A v \in Writer, m \in Nat : Received(v, m) => Received(v, m)'
    BY <1>3 DEF Received
<1>. QED BY <1>5, <1>6, <1>7

LEMMA ReadStep ==
    ASSUME PipeInv, ~garbled, pipeRecv
    PROVE  ReceivedInOrder' /\ (~garbled' => FromSent')
<1>1. PipeTypeOK /\ ReceivedInOrder /\ FromSent /\ Begun
    BY DEF PipeInv
<1>2. CASE ReadHeader
    <2>1. Take /\ Head(stream) \in Part /\ Head(stream).part = "header"
        BY <1>1, <1>2, TakeFacts DEF ReadHeader
    <2>2. PICK w \in Writer, n \in 1 .. MaxSent :
             Head(stream).msg = <<w, n>> /\ Head(stream) = Header(w, n)
        BY <2>1, PartForms
    <2>3. n > 1 => Received(w, n - 1)
        <3>1. stream[1] = Header(w, n) /\ 1 \in DOMAIN stream /\ DOMAIN stream \subseteq Nat
            BY <1>1, <2>1, <2>2, TakeFacts
        <3>2. n > 1 => CompleteBefore(w, n - 1, 1)
            BY <1>1, <3>1 DEF FromSent
        <3>. QED BY <1>1, <3>1, <3>2 DEF CompleteBefore, PipeTypeOK
    <2>4. UNCHANGED <<count, pending, garbled>>
        BY <1>2 DEF ReadHeader
    <2>5. ASSUME NEW v \in Writer, NEW m \in 1 .. MaxSent, Head(stream) = LastPart(v, m)
          PROVE  v = w /\ m = n /\ ~HasBody[w]
        BY <2>2, <2>5, Parts DEF LastPart
    <2>6. CASE HasBody[w]
        <3>1. expect' = <<w, n>> /\ received' = received
            BY <1>2, <2>2, <2>6 DEF ReadHeader
        <3>2. \A v \in Writer, m \in 1 .. MaxSent :
                 expect' = <<v, m>> /\ m > 1 => Received(v, m - 1)'
            BY <2>3, <3>1 DEF Received
        <3>3. \A v \in Writer, m \in 1 .. MaxSent : Received(v, m) => Received(v, m)'
            BY <3>1 DEF Received
        <3>4. \A v \in Writer, m \in 1 .. MaxSent : Head(stream) # LastPart(v, m)
            BY <2>5, <2>6
        <3>5. FromSent'
            BY <1>1, <2>1, <2>4, <3>2, <3>3, <3>4, TakeFromSent
        <3>. QED BY <1>1, <3>1, <3>5 DEF ReceivedInOrder
    <2>7. CASE ~HasBody[w]
        <3>1. expect' = <<>> /\ received' = Append(received, <<w, n>>)
            BY <1>2, <2>2, <2>7 DEF ReadHeader
        <3>2. /\ ReceivedInOrder' /\ Received(w, n)'
              /\ \A v \in Writer, m \in Nat : Received(v, m) => Received(v, m)'
            BY <1>1, <2>3, <3>1, ReceiveNext
        <3>3. \A v \in Writer, m \in 1 .. MaxSent : expect' # <<v, m>>
            BY <3>1
        <3>4. \A v \in Writer, m \in 1 .. MaxSent : Head(stream) = LastPart(v, m) => Received(v, m)'
            BY <2>5, <3>2
        <3>5. FromSent'
            BY <1>1, <2>1, <2>4, <3>2, <3>3, <3>4, TakeFromSent
        <3>. QED BY <3>2, <3>5
    <2>. QED BY <2>6, <2>7
<1>3. CASE ReadPayload
    <2>1. PICK w \in Writer, n \in 1 .. MaxSent : expect = <<w, n>>
        BY <1>1, <1>3 DEF ReadPayload, PipeTypeOK, Message
    <2>2. /\ Take /\ Head(stream) = Payload(w, n) /\ received' = Append(received, <<w, n>>)
          /\ expect' = <<>> /\ UNCHANGED <<count, pending, garbled>>
        BY <1>3, <2>1 DEF ReadPayload, Payload
    <2>3. n > 1 => Received(w, n - 1)
        BY <1>1, <2>1 DEF FromSent
    <2>4. /\ ReceivedInOrder' /\ Received(w, n)'
          /\ \A v \in Writer, m \in Nat : Received(v, m) => Received(v, m)'
        BY <1>1, <2>2, <2>3, ReceiveNext
    <2>5. ASSUME NEW v \in Writer, NEW m \in 1 .. MaxSent, Head(stream) = LastPart(v, m)
          PROVE  Received(v, m)'
        <3>1. Payload(w, n) = Payload(v, m) \/ Payload(w, n) = Header(v, m)
            BY <2>2, <2>5 DEF LastPart
        <3>2. v = w /\ m = n
            BY <3>1 DEF Payload, Header
        <3>. QED BY <2>4, <3>2
    <2>6. \A v \in Writer, m \in 1 .. MaxSent : expect' # <<v, m>>
        BY <2>2
    <2>7. FromSent'
        BY <1>1, <2>2, <2>4, <2>5, <2>6, TakeFromSent
    <2>. QED BY <2>4, <2>7
<1>4. CASE Misread
    BY <1>1, <1>4 DEF Misread, ReceivedInOrder
<1>5. CASE ReadTimeout
    <2>1. \A v \in Writer, m \in 1 .. MaxSent : expect' # <<v, m>>
        BY <1>5 DEF ReadTimeout
    <2>. QED BY <1>1, <1>5, <2>1 DEF ReadTimeout, ReceivedInOrder, FromSent, CompleteBefore, Received
<1>. QED BY <1>2, <1>3, <1>4, <1>5 DEF pipeRecv
-----------------------------------------------------------------------------
\* The inductive invariant of the pipe.
THEOREM PipeInvariant == PipeSpec => []PipeInv
<1>1. PipeInv /\ [PipeNext]_framingVars => PipeInv'
    <2>. SUFFICES ASSUME PipeInv, [PipeNext]_framingVars PROVE PipeInv'
        OBVIOUS
    <2>1. CASE PipeNext
        <3>1. PipeTypeOK' /\ Begun'
            BY <2>1, PipeTypeStep DEF PipeInv
        <3>2. ASSUME NEW w \in Writer, pipeSend(w) PROVE ReceivedInOrder' /\ (~garbled' => FromSent')
            <4>1. received' = received /\ garbled' = garbled
                BY <3>2 DEF pipeSend, WriteHeader, WritePayload
            <4>. QED BY <3>2, <4>1, WriteStep DEF PipeInv, ReceivedInOrder
        <3>3. ASSUME pipeRecv PROVE ReceivedInOrder' /\ (~garbled' => FromSent')
            <4>1. CASE ~garbled
                BY <3>3, <4>1, ReadStep
            <4>2. CASE garbled
                <5>1. received' = received /\ garbled' = garbled
                    BY <3>3, <4>2 DEF pipeRecv, ReadHeader, ReadPayload, Misread, ReadTimeout, Take
                <5>. QED BY <4>2, <5>1 DEF PipeInv, ReceivedInOrder
            <4>. QED BY <4>1, <4>2
        <3>. QED BY <2>1, <3>1, <3>2, <3>3 DEF PipeNext, PipeInv
    <2>2. CASE UNCHANGED framingVars
        <3>1. PipeTypeOK' /\ Begun'
            BY <2>2 DEF framingVars, PipeInv, PipeTypeOK, Begun
        <3>2. ReceivedInOrder'
            BY <2>2 DEF framingVars, PipeInv, ReceivedInOrder
        <3>3. \A w, n, i : CompleteBefore(w, n, i)' = CompleteBefore(w, n, i)
            BY <2>2 DEF framingVars, CompleteBefore, Received
        <3>4. \A w, n : Received(w, n)' = Received(w, n)
            BY <2>2 DEF framingVars, Received
        <3>5. FromSent => FromSent'
            BY <2>2, <3>3, <3>4 DEF framingVars, FromSent
        <3>. QED BY <2>2, <3>1, <3>2, <3>5 DEF framingVars, PipeInv
    <2>. QED BY <2>1, <2>2
<1>. QED BY PipeInvInit, <1>1, PTL DEF PipeSpec

\* Types of the pipe, for any writers and any number of messages; a payload is
\* awaited only of a message that has one (remote_session_windows.go:161).
THEOREM PipeTypeCorrect == PipeSpec => []PipeTypeOK
<1>1. PipeInv => PipeTypeOK
    BY DEF PipeInv
<1>. QED BY PipeInvariant, <1>1, PTL

\* Whatever the writers interleave and however often the deadline passes, the
\* messages of a writer are received in order and without a gap
\* (remote_session_windows.go, pipeSend and pipeRecv).
THEOREM ReceivedInOrderAlways == PipeSpec => []ReceivedInOrder
<1>1. PipeInv => ReceivedInOrder
    BY DEF PipeInv
<1>. QED BY PipeInvariant, <1>1, PTL
=============================================================================
