---------------------------- MODULE DirectProofs ----------------------------
(***************************************************************************)
(* The direct stream implements StreamSession, for any sessions, close     *)
(* commands, assignment of tokens, and bounds: each step of DirectStream   *)
(* is, seen through AbstractPc, a step of SessionNext or none.  What is    *)
(* proved of StreamSession is carried over, down to StoppedEnds.           *)
(***************************************************************************)
EXTENDS DirectStream, StreamProofs
-----------------------------------------------------------------------------
LEMMA Own ==
    ASSUME NEW s \in Session
    PROVE  Run(s) \in Goroutine /\ Keepalive(s) \in Goroutine /\ Reader(s) \in Goroutine
BY DEF Run, Keepalive, Reader, Goroutine

LEMMA At ==
    ASSUME Placed, NEW p \in Goroutine \cup Closer
    PROVE  AbstractPc[p] = AbstractPlace(pc[p])
BY DEF Placed, AbstractPc

\* A goroutine that moves, moves in the abstraction, unless its place maps to
\* where it was.
LEMMA Moves ==
    ASSUME Placed, NEW p \in Goroutine \cup Closer, NEW l, Goto(p, l)
    PROVE  /\ Placed'
           /\ AbstractPc' = [AbstractPc EXCEPT ![p] = AbstractPlace(l)]
           /\ AbstractPlace(l) = AbstractPlace(pc[p]) => AbstractPc' = AbstractPc
<1>1. pc' = [pc EXCEPT ![p] = l] /\ DOMAIN pc' = DOMAIN pc
    BY DEF Goto
<1>2. \A q \in DOMAIN pc : pc'[q] = IF q = p THEN l ELSE pc[q]
    BY <1>1
<1>3. AbstractPc = [q \in DOMAIN pc |-> AbstractPlace(pc[q])]
    BY DEF AbstractPc
<1>4. AbstractPc' = [q \in DOMAIN pc' |-> AbstractPlace(pc'[q])]
    BY DEF AbstractPc
<1> HIDE DEF AbstractPlace
<1>5. AbstractPc' = [AbstractPc EXCEPT ![p] = AbstractPlace(l)]
    BY <1>1, <1>2, <1>3, <1>4
<1>6. AbstractPlace(l) = AbstractPlace(pc[p]) => AbstractPc' = AbstractPc
    BY <1>1, <1>2, <1>3, <1>4
<1>7. QED
    BY <1>1, <1>5, <1>6 DEF Placed

LEMMA Stays == UNCHANGED pc => AbstractPc' = AbstractPc /\ (Placed => Placed')
BY DEF AbstractPc, Placed

\* The steps that both modules have.
LEMMA StopMaps ==
    ASSUME Placed, NEW p \in Goroutine \cup Closer, NEW s, stop(p, s)
    PROVE  Abstract!stop(p, s) /\ Placed'
<1>1. CASE CloseStopCh(p, s)
    BY <1>1, At, Moves DEF CloseStopCh, AbstractPlace, Abstract!stop, Abstract!CloseStopCh, Abstract!Goto
<1>2. CASE CloseSocket(p, s)
    BY <1>2, At, Moves DEF CloseSocket, AbstractPlace, Abstract!stop, Abstract!CloseSocket, Abstract!Goto,
       Written, CanWrite, WriteFails, Abstract!Written, Abstract!CanWrite, Abstract!WriteFails
<1>3. CASE Forget(p, s)
    BY <1>3, At, Moves DEF Forget, AbstractPlace, Abstract!stop, Abstract!Forget, Abstract!Goto
<1>4. CASE JoinStop(p, s)
    BY <1>4, At, Moves DEF JoinStop, AbstractPlace, Abstract!stop, Abstract!JoinStop, Abstract!Goto
<1>5. QED
    BY <1>1, <1>2, <1>3, <1>4 DEF stop

LEMMA SharedMaps ==
    ASSUME Placed, SharedNext
    PROVE  Abstract!SharedNext /\ Placed'
<1>1. ASSUME NEW c \in Closer, stopStream(c) PROVE Abstract!stopStream(c) /\ Placed'
    <2>1. CASE LoadStream(c)
        BY <2>1, At, Moves DEF LoadStream, AbstractPlace, Abstract!stopStream,
           Abstract!LoadStream, Abstract!Goto
    <2>2. CASE found[c] # None /\ stop(c, found[c])
        BY <2>2, StopMaps DEF Abstract!stopStream
    <2>3. QED
        BY <1>1, <2>1, <2>2 DEF stopStream
<1>2. ASSUME NEW s \in Session, Store(s)
      PROVE  Abstract!Store(s) /\ Placed'
    BY <1>2, At, Moves, Own DEF Store, AbstractPlace, Abstract!Store, Abstract!Goto,
       Run, Abstract!Run
<1>3. ASSUME NEW s \in Session, stop(Run(s), s) \/ keepalive(s) \/ reader(s) \/ CloseFrame(s)
      PROVE  /\ Abstract!stop(Run(s), s) \/ Abstract!keepalive(s) \/ Abstract!reader(s)
                \/ Abstract!CloseFrame(s)
             /\ Placed'
    <2>1. CASE stop(Run(s), s) \/ stop(Keepalive(s), s) \/ stop(Reader(s), s)
        BY <2>1, StopMaps, Own DEF Abstract!keepalive, Abstract!reader,
           Keepalive, Reader, Abstract!Keepalive, Abstract!Reader
    <2>2. CASE KeepaliveEnds(s) \/ PingFails(s)
        BY <2>2, At, Moves, Own DEF KeepaliveEnds, PingFails, AbstractPlace, Abstract!keepalive,
           Abstract!KeepaliveEnds, Abstract!PingFails, Abstract!Goto, Keepalive,
           Abstract!Keepalive, WriteFails, Abstract!WriteFails
    <2>3. CASE ReadFails(s) \/ CloseFrame(s)
        BY <2>3, At, Moves, Own DEF ReadFails, CloseFrame, AbstractPlace, Abstract!reader,
           Abstract!ReadFails, Abstract!CloseFrame, Abstract!Goto, Reader, Abstract!Reader,
           WriteFails, Abstract!WriteFails
    <2>4. QED
        BY <1>3, <2>1, <2>2, <2>3 DEF keepalive, reader
<1>4. ASSUME NEW s \in Session, Stall(s) \/ Resume(s) \/ Lose(s)
      PROVE  (Abstract!Stall(s) \/ Abstract!Resume(s) \/ Abstract!Lose(s)) /\ Placed'
    BY <1>4, Stays DEF Stall, Resume, Lose, Abstract!Stall, Abstract!Resume, Abstract!Lose
<1>5. QED
    BY <1>1, <1>2, <1>3, <1>4 DEF SharedNext, Abstract!SharedNext, Run, Abstract!Run

\* A step of the run goroutine alone.
LEMMA StepMaps ==
    ASSUME Placed, NEW s \in Session, NEW from, NEW to, Step(s, from, to)
    PROVE  /\ Abstract!Step(s, AbstractPlace(from), AbstractPlace(to))
           /\ AbstractPlace(from) = AbstractPlace(to) => UNCHANGED Abstract!sessionVars
           /\ Placed'
BY At, Moves, Own DEF Step, Abstract!Step, Abstract!Goto, Abstract!sessionVars, Run, Abstract!Run
-----------------------------------------------------------------------------
(* The steps of the direct stream.                                          *)
LEMMA RunMaps ==
    ASSUME Placed, NEW s \in Session, startStream(s) \/ run(s)
    PROVE  (Abstract!RunStep(s) \/ UNCHANGED Abstract!sessionVars) /\ Placed'
<1>1. CASE Dial(s) \/ DialFails(s)
    BY <1>1, At, Moves, Own DEF Dial, DialFails, AbstractPlace, Abstract!RunStep, Abstract!Dial,
       Abstract!DialFails, Abstract!Goto, Run, Abstract!Run
<1>2. CASE StartLoop(s)
    <2>1. pc' = [pc EXCEPT ![Run(s)] = "loop", ![Keepalive(s)] = "idle", ![Reader(s)] = "reading"]
        BY <1>2 DEF StartLoop
    <2>2. AbstractPc' = [AbstractPc EXCEPT ![Run(s)] = "loop", ![Keepalive(s)] = "idle",
                                           ![Reader(s)] = "reading"]
        BY <2>1 DEF AbstractPc, AbstractPlace
    <2>3. Abstract!StartLoop(s) /\ Placed'
        BY <1>2, <2>2, At, Own DEF StartLoop, AbstractPlace, Abstract!StartLoop, Placed,
           Run, Keepalive, Reader, Abstract!Run, Abstract!Keepalive, Abstract!Reader
    <2>4. QED
        BY <2>3 DEF Abstract!RunStep
\* What a step from one place to another is in the abstraction.
<1>3. ASSUME NEW from, NEW to, Step(s, from, to),
             \/ AbstractPlace(from) = AbstractPlace(to)
             \/ AbstractPlace(from) \in {"start", "loop"} /\ AbstractPlace(to) = "return"
             \/ AbstractPlace(from) = "return" /\ AbstractPlace(to) = "stop"
      PROVE  (Abstract!RunStep(s) \/ UNCHANGED Abstract!sessionVars) /\ Placed'
    <2>1. /\ Abstract!Step(s, AbstractPlace(from), AbstractPlace(to)) /\ Placed'
          /\ AbstractPlace(from) = AbstractPlace(to) => UNCHANGED Abstract!sessionVars
        BY <1>3, StepMaps
    <2>2. QED
        BY <1>3, <2>1 DEF Abstract!RunStep
<1>4. CASE CaptureFails(s) \/ (SendInit(s) /\ ~StartLoop(s))
    <2>1. Step(s, "start", "lastMessage") \/ Step(s, "start", "return")
        BY <1>4 DEF CaptureFails, SendInit
    <2>2. QED
        BY <1>3, <2>1 DEF AbstractPlace
<1>5. CASE SeeStop(s) \/ Warn(s) \/ IdleTimeout(s) \/ Input(s) \/ Block(s) \/ Frame(s)
    <2>1. PICK to \in {"return", "message", "lastMessage", "loop", "frame"} : Step(s, "loop", to)
        BY <1>5 DEF SeeStop, Warn, IdleTimeout, Input, Block, Frame
    <2>2. QED
        BY <1>3, <2>1 DEF AbstractPlace
<1>6. CASE SendFrame(s) \/ SendMessage(s)
    <2>1. PICK from \in {"frame", "message"}, to \in {"loop", "return"} : Step(s, from, to)
        BY <1>6 DEF SendFrame, SendMessage
    <2>2. QED
        BY <1>3, <2>1 DEF AbstractPlace
<1>7. CASE SendLast(s) \/ inputUnblock(s)
    <2>1. Step(s, "lastMessage", "return") \/ Step(s, "return", "stop")
        BY <1>7 DEF SendLast, inputUnblock
    <2>2. QED
        BY <1>3, <2>1 DEF AbstractPlace
<1>8. QED
    BY <1>1, <1>2, <1>4, <1>5, <1>6, <1>7 DEF startStream, run

\* Every step maps to a step, or to none.
LEMMA NextMaps == Placed /\ [Next]_vars => [Abstract!SessionNext]_Abstract!sessionVars /\ Placed'
<1> SUFFICES ASSUME Placed, [Next]_vars
             PROVE  [Abstract!SessionNext]_Abstract!sessionVars /\ Placed'
    OBVIOUS
<1>1. CASE SharedNext
    BY <1>1, SharedMaps DEF Abstract!SessionNext
<1>2. ASSUME NEW s \in Session, startStream(s) \/ run(s)
      PROVE  [Abstract!SessionNext]_Abstract!sessionVars /\ Placed'
    BY <1>2, RunMaps DEF Abstract!SessionNext
<1>3. ASSUME UNCHANGED sessionVars
      PROVE  [Abstract!SessionNext]_Abstract!sessionVars /\ Placed'
    BY <1>3, Stays DEF sessionVars, Abstract!sessionVars
<1>4. ASSUME NEW s \in Session, ViewerSends(s) \/ Expire(s)
      PROVE  UNCHANGED sessionVars
    BY <1>4 DEF ViewerSends, Expire
<1>5. UNCHANGED vars => UNCHANGED sessionVars
    BY DEF vars
<1>6. QED
    BY <1>1, <1>2, <1>3, <1>4, <1>5 DEF Next

LEMMA InitMaps == SessionConstants /\ Init => Abstract!SessionInit /\ Placed
<1> SUFFICES ASSUME SessionConstants, Init PROVE Abstract!SessionInit /\ Placed
    OBVIOUS
<1>1. pc = [p \in Goroutine \cup Closer |->
              IF p \in Closer THEN "received" ELSE IF p[2] = "run" THEN "dial" ELSE "none"]
    BY DEF Init, SessionInit
<1>2. AbstractPc = pc
    BY <1>1 DEF AbstractPc, AbstractPlace
<1>3. Placed
    BY <1>1 DEF Placed
<1>4. QED
    BY <1>1, <1>2, <1>3 DEF Init, SessionInit, Abstract!SessionInit, Goroutine,
       Abstract!Goroutine, Token, Abstract!Token

\* run keeps to the life cycle of StreamSession: whatever the viewer sends and
\* the timers do, it dials once, is stored once, and comes to stop from every
\* place it can leave its loop at.
THEOREM DirectImplementsSession == Spec => ImplementsSession
<1>1. Init => Abstract!SessionInit /\ Placed
    BY InitMaps, SessionConstants
<1>2. Placed /\ [Next]_vars => [Abstract!SessionNext]_Abstract!sessionVars /\ Placed'
    BY NextMaps
<1>3. QED
    BY <1>1, <1>2, PTL DEF Spec, ImplementsSession, Abstract!SessionSpec
-----------------------------------------------------------------------------
(* What is proved of StreamSession holds here, of the places seen through   *)
(* AbstractPlace; those that stop and the map depend on map to themselves.  *)
Life == INSTANCE StreamProofs WITH pc <- AbstractPc

LEMMA SameLife ==
    /\ SessionConstants <=> Life!SessionConstants
    /\ Abstract!SessionInit <=> Life!SessionInit
    /\ UNCHANGED Abstract!sessionVars <=> UNCHANGED Life!sessionVars
    /\ Abstract!SessionTypeOK <=> Life!SessionTypeOK
BY DEF SessionConstants, Abstract!SessionInit, Abstract!sessionVars, Abstract!SessionTypeOK,
   Abstract!Token, Abstract!Goroutine, Abstract!Run, Abstract!Keepalive, Abstract!Reader,
   Life!SessionConstants, Life!SessionInit, Life!sessionVars, Life!SessionTypeOK,
   Life!Token, Life!Goroutine, Life!Run, Life!Keepalive, Life!Reader

LEMMA SameSteps == Abstract!SessionNext <=> Life!SessionNext
BY DEF Abstract!SessionNext, Abstract!SharedNext, Abstract!RunStep, Abstract!stopStream,
   Abstract!LoadStream, Abstract!stop, Abstract!CloseStopCh, Abstract!CloseSocket,
   Abstract!Forget, Abstract!JoinStop, Abstract!Store, Abstract!keepalive,
   Abstract!KeepaliveEnds, Abstract!PingFails, Abstract!reader, Abstract!ReadFails,
   Abstract!CloseFrame, Abstract!Stall, Abstract!Resume, Abstract!Lose, Abstract!Dial,
   Abstract!DialFails, Abstract!StartLoop, Abstract!Step, Abstract!Goto, Abstract!CanWrite,
   Abstract!WriteFails, Abstract!Written, Abstract!Run, Abstract!Keepalive, Abstract!Reader,
   Life!SessionNext, Life!SharedNext, Life!RunStep, Life!stopStream,
   Life!LoadStream, Life!stop, Life!CloseStopCh, Life!CloseSocket,
   Life!Forget, Life!JoinStop, Life!Store, Life!keepalive,
   Life!KeepaliveEnds, Life!PingFails, Life!reader, Life!ReadFails,
   Life!CloseFrame, Life!Stall, Life!Resume, Life!Lose, Life!Dial,
   Life!DialFails, Life!StartLoop, Life!Step, Life!Goto, Life!CanWrite,
   Life!WriteFails, Life!Written, Life!Run, Life!Keepalive, Life!Reader

\* The inductive invariant of StreamSession is one of the direct stream.
THEOREM DirectInvariant == Spec => [](Placed /\ Life!IInv)
<1>1. Init => Placed /\ Life!IInv
    BY InitMaps, SameLife, Life!InitInv, SessionConstants
<1>2. Placed /\ Life!IInv /\ [Next]_vars => Placed' /\ Life!IInv'
    BY NextMaps, SameLife, SameSteps, Life!StepInv, SessionConstants
<1>3. QED
    BY <1>1, <1>2, PTL DEF Spec

LEMMA SamePlaces ==
    ASSUME Placed, NEW p \in Goroutine \cup Closer
    PROVE  /\ AbstractPc[p] \in {"dial", "dialled", "ended"} => AbstractPc[p] = pc[p]
           /\ pc[p] \in {"dial", "dialled", "ended"} => AbstractPc[p] = pc[p]
           /\ AbstractPc[p] \in {"closing", "deleting"} => AbstractPc[p] = pc[p]
           /\ pc[p] \in {"closing", "deleting"} => AbstractPc[p] = pc[p]
BY At DEF AbstractPlace

\* Whatever the viewers send and the timers do, activeStreams leads to no
\* stopped stream, and loses a running one only to another open.
THEOREM DirectEntriesServed == Spec => []EntriesServed
<1>1. Placed /\ Life!IInv => EntriesServed
    <2> SUFFICES ASSUME Placed, Life!IInv PROVE EntriesServed
        OBVIOUS
    <2>1. /\ \A t \in Token : activeStreams[t] # None => once[activeStreams[t]] # "done"
          /\ \A s \in Session : Life!Running(s) =>
                \/ activeStreams[TokenOf[s]] = s
                \/ \E r \in Session \ {s} :
                      TokenOf[r] = TokenOf[s] /\ AbstractPc[Run(r)] \notin {"dial", "dialled"}
        BY DEF Life!IInv, Life!Entries, Life!Found, Life!Token, Token, Life!Run, Run
    <2>2. \A s \in Session : Running(s) => Life!Running(s)
        BY SamePlaces, Own DEF Running, Life!Running, Run, Life!Run
    <2>3. \A r \in Session : AbstractPc[Run(r)] \notin {"dial", "dialled"} =>
                             pc[Run(r)] \notin {"dial", "dialled"}
        BY SamePlaces, Own
    <2>4. QED
        BY <2>1, <2>2, <2>3 DEF EntriesServed
<1>2. QED
    BY <1>1, DirectInvariant, PTL

LEMMA LifeStopOnce == Placed /\ Life!IInv => StopOnce
<1> SUFFICES ASSUME Placed, Life!IInv PROVE StopOnce
    OBVIOUS
<1>1. \A p \in Goroutine \cup Closer, s \in Session : Stopping(p, s) <=> Life!Stopping(p, s)
    BY SamePlaces DEF Stopping, Life!Stopping
<1>2. QED
    BY <1>1 DEF Life!IInv, Life!Exclusive, Life!Closed, Life!Goroutine, Goroutine, StopOnce

\* The loop, the keepalive goroutine, the reader and any number of close
\* commands call stop, and its body runs once.
THEOREM DirectStopOnce == Spec => []StopOnce
BY LifeStopOnce, DirectInvariant, PTL

-----------------------------------------------------------------------------
(* The types of the loop's own state.                                       *)
LoopTypes ==
    /\ idle \in [Session -> 0 .. 2]
    /\ warned \in [Session -> BOOLEAN]
    /\ inputCh \in [Session -> 0 .. Queue]
    /\ blockCh \in [Session -> Seq(BOOLEAN)]
    /\ \A s \in Session : Len(blockCh[s]) <= Queue
    /\ sent \in [Session -> 0 .. MaxMessages]
    /\ inputIsBlocked \in BOOLEAN
    /\ blockedBy \in Session \cup {None}

LEMMA TimerTypes ==
    ASSUME LoopTypes, NEW s \in Session,
           Warn(s) \/ Expire(s) \/ resetIdleTimer(s) \/ UNCHANGED timerVars
    PROVE  idle' \in [Session -> 0 .. 2] /\ warned' \in [Session -> BOOLEAN]
<1>1. \/ idle[s] < 2 /\ idle' = [idle EXCEPT ![s] = @ + 1]
      \/ idle' = [idle EXCEPT ![s] = 0]
      \/ idle' = idle
    BY DEF Warn, Expire, resetIdleTimer, timerVars
<1>2. idle' \in [Session -> 0 .. 2]
    <2>1. idle \in [Session -> 0 .. 2]
        BY DEF LoopTypes
    <2>2. QED
        BY <1>1, <2>1
<1>3. CASE warned' = [warned EXCEPT ![s] = TRUE] \/ warned' = [warned EXCEPT ![s] = FALSE]
    BY <1>2, <1>3 DEF LoopTypes
<1>4. CASE UNCHANGED warned
    BY <1>2, <1>4 DEF LoopTypes
<1>5. QED
    BY <1>3, <1>4 DEF Warn, Expire, resetIdleTimer, timerVars

\* A channel that is full drops what comes, one that is not takes it.
LEMMA QueuedTypes ==
    ASSUME DirectConstants, LoopTypes, NEW s \in Session, Queued(s)
    PROVE  /\ inputCh' \in [Session -> 0 .. Queue]
           /\ blockCh' \in [Session -> Seq(BOOLEAN)]
           /\ \A r \in Session : Len(blockCh'[r]) <= Queue
<1>1. CASE inputCh' = [inputCh EXCEPT ![s] = IF @ < Queue THEN @ + 1 ELSE @] /\ UNCHANGED blockCh
    <2>1. inputCh \in [Session -> 0 .. Queue] /\ Queue \in Nat
        BY DEF LoopTypes, DirectConstants
    <2>2. inputCh' \in [Session -> 0 .. Queue]
        BY <1>1, <2>1
    <2>. QED BY <1>1, <2>2 DEF LoopTypes
<1>2. ASSUME NEW b \in BOOLEAN,
             blockCh' = [blockCh EXCEPT ![s] = IF Len(@) < Queue THEN Append(@, b) ELSE @],
             UNCHANGED inputCh
      PROVE  /\ inputCh' \in [Session -> 0 .. Queue]
             /\ blockCh' \in [Session -> Seq(BOOLEAN)]
             /\ \A r \in Session : Len(blockCh'[r]) <= Queue
    <2>1. blockCh[s] \in Seq(BOOLEAN) /\ Append(blockCh[s], b) \in Seq(BOOLEAN)
          /\ Len(Append(blockCh[s], b)) = Len(blockCh[s]) + 1
          /\ Len(blockCh[s]) \in Nat
        BY <1>2 DEF LoopTypes
    <2>2. blockCh' = [blockCh EXCEPT ![s] = IF Len(blockCh[s]) < Queue THEN Append(blockCh[s], b)
                                            ELSE blockCh[s]]
        BY <1>2
    <2>3. blockCh' \in [Session -> Seq(BOOLEAN)]
        BY <2>1, <2>2 DEF LoopTypes
    <2>4. Len(blockCh'[s]) <= Queue /\ \A r \in Session \ {s} : blockCh'[r] = blockCh[r]
        BY <2>1, <2>2 DEF LoopTypes, DirectConstants
    <2>5. QED
        BY <1>2, <2>3, <2>4 DEF LoopTypes
<1>3. QED
    BY <1>1, <1>2 DEF Queued

LEMMA BlockTypes ==
    ASSUME LoopTypes, NEW s \in Session, Block(s)
    PROVE  LoopTypes'
<1>1. /\ Head(blockCh[s]) \in BOOLEAN /\ Tail(blockCh[s]) \in Seq(BOOLEAN)
      /\ Len(Tail(blockCh[s])) <= Len(blockCh[s])
    BY DEF Block, LoopTypes
<1>2. inputIsBlocked' \in BOOLEAN
    BY <1>1, Zenon DEF Block, inputBlock
<1>3. blockedBy' \in Session \cup {None}
    BY DEF Block, inputBlock, LoopTypes
<1>4. blockCh' \in [Session -> Seq(BOOLEAN)] /\ \A r \in Session : Len(blockCh'[r]) <= Queue
    <2>1. blockCh' = [blockCh EXCEPT ![s] = Tail(blockCh[s])]
        BY DEF Block
    <2>2. blockCh' \in [Session -> Seq(BOOLEAN)]
        BY <1>1, <2>1 DEF LoopTypes
    <2>3. blockCh'[s] = Tail(blockCh[s]) /\ \A r \in Session \ {s} : blockCh'[r] = blockCh[r]
        BY <2>1 DEF LoopTypes
    <2>4. Len(blockCh[s]) \in Nat /\ Len(Tail(blockCh[s])) \in Nat /\ Queue \in Nat
        BY <1>1, DirectConstants DEF DirectConstants, LoopTypes
    <2>5. \A r \in Session : Len(blockCh[r]) <= Queue
        BY DEF LoopTypes
    <2>6. Len(blockCh'[s]) <= Queue
        <3>1. Len(blockCh'[s]) = Len(Tail(blockCh[s]))
            BY <2>3
        <3>2. Len(blockCh[s]) <= Queue
            BY <2>5
        <3>3. QED
            BY <1>1, <2>4, <3>1, <3>2
    <2>7. QED
        BY <2>2, <2>3, <2>5, <2>6
<1>5. idle' \in [Session -> 0 .. 2] /\ warned' \in [Session -> BOOLEAN]
    BY TimerTypes DEF Block
<1>6. QED
    BY <1>2, <1>3, <1>4, <1>5 DEF Block, LoopTypes

LEMMA LoopTypesNext ==
    ASSUME DirectConstants, LoopTypes, [Next]_vars
    PROVE  LoopTypes'
<1>1. CASE UNCHANGED directVars
    BY <1>1 DEF directVars, timerVars, queueVars, blockVars, LoopTypes
<1>2. ASSUME NEW s \in Session, Warn(s) \/ Expire(s) PROVE LoopTypes'
    <2>1. UNCHANGED <<queueVars, blockVars>>
        BY <1>2 DEF Warn, Expire
    <2>2. QED
        BY <1>2, <2>1, TimerTypes DEF queueVars, blockVars, LoopTypes
<1>3. ASSUME NEW s \in Session, Input(s) PROVE LoopTypes'
    <2>1. idle' \in [Session -> 0 .. 2] /\ warned' \in [Session -> BOOLEAN]
        BY <1>3, TimerTypes DEF Input
    <2>2. inputCh' \in [Session -> 0 .. Queue]
        BY <1>3 DEF Input, LoopTypes, DirectConstants
    <2>3. QED
        BY <1>3, <2>1, <2>2 DEF Input, blockVars, LoopTypes
<1>4. ASSUME NEW s \in Session, Block(s) PROVE LoopTypes'
    BY <1>4, BlockTypes
<1>5. ASSUME NEW s \in Session, inputUnblock(s) PROVE LoopTypes'
    <2>1. inputIsBlocked' \in BOOLEAN /\ blockedBy' \in Session \cup {None}
        BY <1>5 DEF inputUnblock, LoopTypes
    <2>2. QED
        BY <1>5, <2>1 DEF inputUnblock, timerVars, queueVars, LoopTypes
<1>6. ASSUME NEW s \in Session, ViewerSends(s) PROVE LoopTypes'
    <2>1. sent' \in [Session -> 0 .. MaxMessages]
        BY <1>6 DEF ViewerSends, LoopTypes, DirectConstants
    <2>2. QED
        BY <1>6, <2>1, QueuedTypes DEF ViewerSends, timerVars, blockVars, LoopTypes
<1>7. QED
    BY <1>1, <1>2, <1>3, <1>4, <1>5, <1>6
       DEF Next, vars, startStream, run, CaptureFails, SendInit, SeeStop, IdleTimeout, Frame,
           SendFrame, SendMessage, SendLast

\* Types hold, no queue of a stream is longer than its channel, and every place
\* of a direct stream maps to one of StreamSession, for any number of sessions.
THEOREM DirectTypeCorrect == Spec => []TypeOK
<1>1. Init => LoopTypes
    <2> SUFFICES ASSUME Init PROVE LoopTypes
        OBVIOUS
    <2>1. <<>> \in Seq(BOOLEAN) /\ Len(<<>>) = 0
        OBVIOUS
    <2>2. blockCh \in [Session -> Seq(BOOLEAN)] /\ \A s \in Session : Len(blockCh[s]) <= Queue
        BY <2>1, DirectConstants DEF Init, DirectConstants
    <2>3. /\ inputCh \in [Session -> 0 .. Queue] /\ sent \in [Session -> 0 .. MaxMessages]
          /\ idle \in [Session -> 0 .. 2]
        BY DirectConstants DEF Init, DirectConstants
    <2>4. warned \in [Session -> BOOLEAN] /\ inputIsBlocked \in BOOLEAN
        BY Zenon DEF Init
    <2>5. QED
        BY <2>2, <2>3, <2>4 DEF Init, LoopTypes
<1>2. LoopTypes /\ [Next]_vars => LoopTypes'
    BY LoopTypesNext, DirectConstants
<1>3. LoopTypes /\ Life!IInv => TypeOK
    BY SameLife DEF Life!IInv, Life!Domains, LoopTypes, TypeOK
<1>4. QED
    BY <1>1, <1>2, <1>3, DirectInvariant, PTL DEF Spec
-----------------------------------------------------------------------------
(* A stopped stream ends.  StreamProofs shows how stop comes to its end     *)
(* next to a goroutine that keeps to OwnMove and comes to its deferred      *)
(* stop; run does both.                                                     *)
THEOREM DirectOpened == Spec => []Life!Opened
<1>1. Init => Life!Opened
    BY InitMaps, SameLife, Life!OpenedInit, SessionConstants
<1>2. Placed /\ Life!IInv /\ Life!Opened /\ [Next]_vars => Life!Opened'
    BY NextMaps, SameLife, SameSteps, Life!OpenedStep, SessionConstants
<1>. QED BY <1>1, <1>2, DirectInvariant, PTL DEF Spec

LEMMA StopInvHolds == Placed /\ Life!IInv /\ Life!Opened => StopInv
<1> SUFFICES ASSUME Placed, Life!IInv, Life!Opened PROVE StopInv
    OBVIOUS
<1>1. Life!SessionTypeOK
    BY DEF Life!IInv, Life!Domains
<1>2. /\ found \in [Closer -> Session \cup {None}]
      /\ once \in [Session -> {"no", "running", "done"}]
      /\ sock \in [Session -> {"none", "open", "closed"}]
      /\ peer \in [Session -> {"reading", "stalled", "gone"}]
    BY <1>1 DEF Life!SessionTypeOK
<1>3. ASSUME NEW s \in Session
      PROVE  /\ pc[Keepalive(s)] \in {"none", "idle", "stop", "closing", "deleting", "ended"}
             /\ pc[Reader(s)] \in {"none", "reading", "stop", "closing", "deleting", "ended"}
    BY <1>1, At, Own DEF Life!SessionTypeOK, Life!Keepalive, Keepalive, Life!Reader, Reader,
       AbstractPlace
<1>4. ASSUME NEW s \in Session
      PROVE  /\ stopCh[s] <=> once[s] # "no"
             /\ once[s] # "no" => sock[s] # "none" /\ pc[Run(s)] \notin {"dial", "dialled"}
    <2>1. /\ stopCh[s] <=> once[s] # "no"
          /\ sock[s] = "none" => once[s] = "no"
        BY DEF Life!Opened
    <2>2. AbstractPc[Run(s)] \in {"dial", "dialled"} => once[s] = "no"
        BY DEF Life!IInv, Life!Early, Life!Run, Run
    <2>. QED BY <2>1, <2>2, SamePlaces, Own
<1>. QED BY <1>2, <1>3, <1>4, LifeStopOnce DEF StopInv, StopOnce

\* The reader of a direct stream hands nothing on: it queues or drops.
LEMMA ReaderStays == Placed /\ Life!IInv => \A s \in Session : pc[Reader(s)] # "forwarding"
<1> SUFFICES ASSUME Placed, Life!IInv, NEW s \in Session PROVE pc[Reader(s)] # "forwarding"
    OBVIOUS
<1>1. Life!SessionTypeOK
    BY DEF Life!IInv, Life!Domains
<1>. QED BY <1>1, At, Own DEF Life!SessionTypeOK, Life!Reader, Reader, AbstractPlace

LEMMA OpenNextHolds == Placed /\ Life!IInv /\ [Next]_vars => [OpenNext]_sessionVars
<1> SUFFICES ASSUME Placed, Life!IInv, [Next]_vars PROVE [OpenNext]_sessionVars
    OBVIOUS
<1>1. ASSUME NEW s \in Session, startStream(s) \/ run(s) PROVE OwnMove(s)
    <2>1. Run(s) \in DOMAIN pc /\ Keepalive(s) # Run(s) /\ Reader(s) # Run(s)
        BY Own DEF Placed, Run, Keepalive, Reader
    <2>2. CASE Dial(s) \/ DialFails(s)
        BY <2>1, <2>2 DEF Dial, DialFails, Goto, OwnMove, Placed
    <2>3. ASSUME CanWrite(s), StartLoop(s) PROVE OwnMove(s)
        <3>1. pc[Keepalive(s)] = "none" /\ pc[Reader(s)] = "none"
            <4>1. AbstractPc[Run(s)] = "start"
                BY <2>3, At, Own DEF StartLoop, AbstractPlace
            <4>2. AbstractPc[Keepalive(s)] = "none" /\ AbstractPc[Reader(s)] = "none"
                BY <4>1 DEF Life!IInv, Life!Early, Life!Run, Run, Life!Keepalive, Keepalive,
                   Life!Reader, Reader
            <4>. QED BY <4>2, At, Own DEF AbstractPlace
        <3>. QED BY <2>1, <2>3, <3>1 DEF StartLoop, OwnMove, Placed
    <2>4. ASSUME NEW from, NEW to, Step(s, from, to),
                 from \notin {"stop", "closing", "deleting", "ended"}
          PROVE  OwnMove(s)
        BY <2>1, <2>4 DEF Step, Goto, OwnMove, Placed
    <2>5. CASE CaptureFails(s) \/ (SendInit(s) /\ ~StartLoop(s))
        BY <2>4, <2>5 DEF CaptureFails, SendInit
    <2>6. CASE SeeStop(s) \/ Warn(s) \/ IdleTimeout(s) \/ Input(s) \/ Block(s) \/ Frame(s)
        BY <2>4, <2>6 DEF SeeStop, Warn, IdleTimeout, Input, Block, Frame
    <2>7. CASE SendFrame(s) \/ SendMessage(s) \/ SendLast(s) \/ inputUnblock(s)
        BY <2>4, <2>7 DEF SendFrame, SendMessage, SendLast, inputUnblock
    <2>8. SendInit(s) /\ StartLoop(s) => CanWrite(s)
        BY <2>1 DEF SendInit, StartLoop, Step, Goto, Placed
    <2>. QED BY <1>1, <2>2, <2>3, <2>5, <2>6, <2>7, <2>8 DEF startStream, run
<1>2. ASSUME NEW s \in Session, ViewerSends(s) \/ Expire(s) PROVE UNCHANGED sessionVars
    BY <1>2 DEF ViewerSends, Expire
<1>3. UNCHANGED vars => UNCHANGED sessionVars
    BY DEF vars
<1>. QED BY <1>1, <1>2, <1>3 DEF Next, OpenNext

\* Where the loop is ready, it can take a step.
RunEnabled(s) == ENABLED <<run(s)>>_vars
SeeStopEnabled(s) == ENABLED <<SeeStop(s)>>_vars

LoopCanStep ==
    \A s \in Session :
        /\ pc[Run(s)] \in {"start", "return"} => RunEnabled(s)
        /\ pc[Run(s)] \in {"frame", "message", "lastMessage"} /\ Written(s) => RunEnabled(s)
        /\ pc[Run(s)] = "loop" /\ stopCh[s] => SeeStopEnabled(s)

LEMMA LoopPlace ==
    ASSUME Placed, Life!IInv, NEW s \in Session
    PROVE  pc[Run(s)] \in {"dial", "dialled", "start", "loop", "frame", "message", "lastMessage",
                           "return", "stop", "closing", "deleting", "ended"}
BY At, Own DEF Life!IInv, Life!Domains, Life!SessionTypeOK, Life!Run, Run, AbstractPlace

\* On the way to its end the loop is moved by run only.
LEMMA LoopMoves ==
    ASSUME Placed, NEW s \in Session, [Next]_vars,
           pc[Run(s)] \in {"start", "loop", "frame", "message", "lastMessage", "return"}
    PROVE  run(s) \/ pc'[Run(s)] = pc[Run(s)]
<1>1. ASSUME NEW r \in Session, r # s, startStream(r) \/ run(r)
      PROVE  pc'[Run(s)] = pc[Run(s)]
    <2>1. \A q \in {Run(r), Keepalive(r), Reader(r)} : q # Run(s)
        BY <1>1 DEF Run, Keepalive, Reader
    <2>2. (\E l : Goto(Run(r), l)) \/ StartLoop(r)
        BY <1>1 DEF startStream, Dial, DialFails, run, CaptureFails, SendInit, SeeStop, Warn,
           IdleTimeout, Input, Block, Frame, SendFrame, SendMessage, SendLast, inputUnblock, Step
    <2>. QED BY <2>1, <2>2, Own DEF Goto, StartLoop, Placed
<1>2. ~startStream(s)
    BY DEF startStream, Dial, DialFails
<1>3. SharedNext => pc'[Run(s)] = pc[Run(s)]
    BY SharedRun, SessionConstants DEF Store, stop, CloseStopCh, CloseSocket, Forget, JoinStop
<1>4. (\E r \in Session : ViewerSends(r) \/ Expire(r)) \/ UNCHANGED vars => UNCHANGED pc
    BY DEF ViewerSends, Expire, vars, sessionVars
<1>. QED BY <1>1, <1>2, <1>3, <1>4 DEF Next

\* Once the connection is closed, writing ends the loop or changes nothing.
LEMMA LoopStep ==
    ASSUME StopInv, NEW s \in Session, once[s] = "done", run(s)
    PROVE  /\ pc[Run(s)] = "start" => pc'[Run(s)] \in {"lastMessage", "return"}
           /\ pc[Run(s)] = "loop" =>
                 pc'[Run(s)] \in {"loop", "frame", "message", "lastMessage", "return"}
           /\ pc[Run(s)] \in {"frame", "lastMessage"} => pc'[Run(s)] = "return"
           /\ pc[Run(s)] = "message" => pc'[Run(s)] = "loop"
           /\ pc[Run(s)] = "return" => pc'[Run(s)] = "stop"
<1>1. Run(s) \in DOMAIN pc /\ ~CanWrite(s)
    BY Own, OverBody, SessionConstants DEF StopInv, Placed
<1>2. \A from, to : Step(s, from, to) => pc[Run(s)] = from /\ pc'[Run(s)] = to
    BY <1>1 DEF Step, Goto
<1>3. CASE CaptureFails(s) \/ SendInit(s)
    BY <1>1, <1>2, <1>3 DEF CaptureFails, SendInit
<1>4. CASE SeeStop(s) \/ Warn(s) \/ IdleTimeout(s) \/ Input(s) \/ Block(s) \/ Frame(s)
    BY <1>2, <1>4 DEF SeeStop, Warn, IdleTimeout, Input, Block, Frame
<1>5. CASE SendFrame(s) \/ SendMessage(s)
    BY <1>1, <1>2, <1>5 DEF SendFrame, SendMessage
<1>6. CASE SendLast(s) \/ inputUnblock(s)
    BY <1>2, <1>6 DEF SendLast, inputUnblock
<1>. QED BY <1>3, <1>4, <1>5, <1>6 DEF run

DirectInv == Placed /\ Life!IInv /\ Life!Opened

\* Every place of the loop leads to its deferred stop: between the select and a
\* message, where it could go back and forth, the closed stopCh gets its turn.
LEMMA LoopEnds ==
    ASSUME NEW s \in Session
    PROVE  [][Next]_vars /\ []DirectInv /\ []LoopCanStep /\ LoopRuns(s) => ComesToStop(s)
<1>. DEFINE Is(place) == Over(s, Run(s), place)
            Inv == DirectInv /\ StopInv
<1>1. DirectInv => Inv
    BY StopInvHolds DEF DirectInv
<1>2. Inv /\ [Next]_vars /\ once[s] = "done" => once'[s] = "done"
    BY OpenNextHolds, OnceMoves, SessionConstants DEF DirectInv
<1>3. ASSUME Inv, [Next]_vars, NEW place, Is(place),
             place \in {"start", "loop", "frame", "message", "lastMessage", "return"}
      PROVE  Is(place)' \/ (run(s) /\ once'[s] = "done")
    BY <1>2, <1>3, LoopMoves DEF Over, DirectInv
<1>4. ASSUME Inv, [Next]_vars, run(s), once[s] = "done"
      PROVE  /\ Is("start") => Is("lastMessage")' \/ Is("return")'
             /\ Is("loop") => \/ Is("loop")' \/ Is("frame")' \/ Is("message")'
                              \/ Is("lastMessage")' \/ Is("return")'
             /\ Is("frame") \/ Is("lastMessage") => Is("return")'
             /\ Is("message") => Is("loop")'
             /\ Is("return") => Is("stop")'
    BY <1>2, <1>4, LoopStep DEF Over
<1>5. Inv /\ [Next]_vars =>
         /\ Is("start") => Is("start")' \/ Is("lastMessage")' \/ Is("return")'
         /\ Is("loop") => \/ Is("loop")' \/ Is("frame")' \/ Is("message")'
                          \/ Is("lastMessage")' \/ Is("return")'
         /\ Is("frame") => Is("frame")' \/ Is("return")'
         /\ Is("lastMessage") => Is("lastMessage")' \/ Is("return")'
         /\ Is("message") => Is("message")' \/ Is("loop")'
         /\ Is("return") => Is("return")' \/ Is("stop")'
    BY <1>3, <1>4 DEF Over
<1>6. Inv /\ [Next]_vars /\ <<run(s)>>_vars =>
         /\ Is("start") => Is("lastMessage")' \/ Is("return")'
         /\ Is("frame") \/ Is("lastMessage") => Is("return")'
         /\ Is("message") => Is("loop")'
         /\ Is("return") => Is("stop")'
    BY <1>4 DEF Over
<1>7. Inv /\ [Next]_vars /\ <<SeeStop(s)>>_vars /\ (Is("loop") \/ Is("message")) =>
         Is("return")'
    <2>1. Inv /\ SeeStop(s) => pc'[Run(s)] = "return"
        BY Own DEF SeeStop, Step, Goto, StopInv, Placed
    <2>. QED BY <1>2, <2>1 DEF Over
<1>8. Inv /\ LoopCanStep =>
         /\ Is("start") \/ Is("frame") \/ Is("message") \/ Is("lastMessage") \/ Is("return")
               => RunEnabled(s)
         /\ Is("loop") => SeeStopEnabled(s)
    <2>1. Inv /\ once[s] = "done" => Written(s) /\ stopCh[s]
        BY OverBody, SessionConstants DEF Written
    <2>. QED BY <2>1 DEF LoopCanStep, Over
<1>9. Inv /\ once[s] = "done" /\ pc[Run(s)] \notin {"stop", "ended"} =>
         \/ Is("start") \/ Is("loop") \/ Is("frame") \/ Is("message")
         \/ Is("lastMessage") \/ Is("return")
    <2>1. Inv /\ once[s] = "done" =>
             pc[Run(s)] \notin {"dial", "dialled", "closing", "deleting"}
        BY OverBody, SessionConstants DEF StopInv
    <2>. QED BY <2>1, LoopPlace DEF Over, DirectInv
<1>. HIDE DEF Is, Inv
<1>10. Is("stop") => Over(s, Run(s), "stop")
    BY DEF Is
<1>. QED
    BY <1>1, <1>5, <1>6, <1>7, <1>8, <1>9, <1>10, PTL
    DEF LoopRuns, RunEnabled, SeeStopEnabled, ComesToStop

\* Told to stop by whichever goroutine, a direct stream winds down, through a
\* connection that stalls and whatever the loop was about to write: its three
\* goroutines end and its WebSocket is closed.  Both hypotheses are of the
\* state alone: a goroutine that is ready can take its step.
THEOREM DirectStoppedEnds ==
    FairSpec /\ []SharedCanStep /\ []LoopCanStep => StoppedEnds
<1>1. ASSUME NEW s \in Session
      PROVE  FairSpec /\ []SharedCanStep /\ []LoopCanStep => (stopCh[s] ~> WoundDown(s))
    <2>1. FairSpec => Spec /\ SharedFairness /\ LoopRuns(s)
        BY DEF FairSpec
    <2>2. Spec => [][Next]_vars /\ []DirectInv
        BY DirectInvariant, DirectOpened, PTL DEF Spec, DirectInv
    <2>3. DirectInv => StopInv
        BY StopInvHolds DEF DirectInv
    <2>4. DirectInv /\ [Next]_vars => [OpenNext]_sessionVars
        BY OpenNextHolds DEF DirectInv
    <2>5. Spec /\ []SharedCanStep => Open
        BY <2>2, <2>3, <2>4, PTL DEF Open
    <2>6. DirectInv => ~Over(s, Reader(s), "forwarding")
        BY ReaderStays DEF DirectInv, Over
    <2>7. Spec => ReaderReturns(s)
        BY <2>2, <2>6, PTL DEF ReaderReturns
    <2>. QED BY <2>1, <2>2, <2>5, <2>7, LoopEnds, StopEnds, PTL
<1>2. FairSpec /\ []SharedCanStep /\ []LoopCanStep =>
         \A s \in Session : stopCh[s] ~> WoundDown(s)
    BY <1>1
<1>. QED BY <1>2 DEF StoppedEnds, WoundDown
=============================================================================
