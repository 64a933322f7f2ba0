----------------------------- MODULE ChatProofs -----------------------------
(***************************************************************************)
(* Proofs about Chat, for any commands of the operator and any number of   *)
(* windows.  Two arguments: the map holds a session only as long as some   *)
(* goroutine has still to run, or to finish, its stop; and a message is in *)
(* no window and on no pipe until the goroutine that carries it has done   *)
(* its last step.                                                          *)
(***************************************************************************)
EXTENDS Chat, TLAPS, SequenceTheorems, FiniteSetTheorems

Message == Cmd \cup {"init", "notice", "stop"}
CommandPlace == {"received", "loaded", "respawn", "sleeping", "pending",
                 "stop", "closing", "deleting", "done"}
\* Where a command holds a session.
Holding == {"loaded", "sleeping", "pending", "stop", "closing", "deleting"}
ServicePlace == {"none", "accepting", "accepted", "relaying", "reading", "reporting",
                 "returning", "stop", "closing", "deleting", "ended"}

\* What has not been started is not known to anybody.
Fresh ==
    \A s \in Session :
        helper[s] = "none" => /\ svc[s] = "none" /\ once[s] = "no"
                              /\ \A g \in Cmd : cs[g] # s

OnPipe(m, s, i) == i \in DOMAIN toHelper[s] /\ toHelper[s][i] = m
InWindow(m, s, i) == i \in DOMAIN shown[s] /\ shown[s][i] = m

\* A message that is under way or shown has been sent for good.
SentLast ==
    \A m \in Cmd, s \in Session, i \in Nat :
        OnPipe(m, s, i) \/ InWindow(m, s, i) => cpc[m] = "done"

\* It is in one place.
OnePlace ==
    \A m \in Cmd, s, t \in Session, i, j \in Nat :
        /\ OnPipe(m, s, i) /\ OnPipe(m, t, j) => s = t /\ i = j
        /\ InWindow(m, s, i) /\ InWindow(m, t, j) => s = t /\ i = j
        /\ ~(OnPipe(m, s, i) /\ InWindow(m, t, j))

IInv == TypeOK /\ Fresh /\ ActiveServed /\ SentLast /\ OnePlace
-----------------------------------------------------------------------------
LEMMA InitInv == Init => IInv
<1>. SUFFICES ASSUME Init PROVE IInv
    OBVIOUS
<1>1. TypeOK
    BY ChatConstants DEF Init, TypeOK
<1>2. Fresh /\ ActiveServed
    BY ChatConstants DEF Init, Fresh, ActiveServed
<1>3. \A m \in Cmd, s \in Session, i \in Nat : ~OnPipe(m, s, i) /\ ~InWindow(m, s, i)
    BY DEF Init, OnPipe, InWindow
<1>. QED BY <1>1, <1>2, <1>3 DEF IInv, SentLast, OnePlace
-----------------------------------------------------------------------------
(* Steps that are parts of several actions.                                 *)
LEMMA StopType ==
    ASSUME TypeOK, NEW s \in Session, NEW at, NEW to, stop(s, at, to)
    PROVE  /\ active' \in Session \cup {None}
           /\ once' \in [Session -> {"no", "running", "done"}]
           /\ conn' \in [Session -> {"nil", "queued", "open", "closed"}]
<1>1. CASE CloseStopCh(s)
    BY <1>1 DEF CloseStopCh, TypeOK
<1>2. CASE CloseConn(s)
    <2>1. conn' = [conn EXCEPT ![s] = IF conn[s] = "open" THEN "closed" ELSE conn[s]]
        BY <1>2 DEF CloseConn
    <2>. QED BY <1>2, <2>1 DEF CloseConn, TypeOK
<1>3. CASE Forget(s) \/ JoinStop(s)
    BY <1>3 DEF Forget, JoinStop, TypeOK
<1>. QED BY <1>1, <1>2, <1>3 DEF stop

LEMMA PipeSendType ==
    ASSUME TypeOK, NEW s \in Session, NEW m \in Message, PipeSend(s, m)
    PROVE  toHelper' \in [Session -> Seq(Message)]
<1>1. toHelper \in [Session -> Seq(Message)] /\ Append(toHelper[s], m) \in Seq(Message)
    BY AppendProperties DEF TypeOK, Message
<1>. QED BY <1>1 DEF PipeSend

LEMMA StartType ==
    ASSUME TypeOK, NEW s \in Session, startChat(s)
    PROVE  /\ active' \in Session /\ active' = s
           /\ helper' \in [Session -> {"none", "dialing", "connected", "up", "closing", "exited"}]
           /\ svc' \in [Session -> ServicePlace]
    BY DEF startChat, TypeOK, ServicePlace

\* What a command goroutine may do to the types of its own variables.
LEMMA GotoType ==
    ASSUME TypeOK, NEW g \in Cmd, NEW p \in CommandPlace, Goto(g, p), kind' = kind,
           \/ cs' = cs /\ (p \in Holding => cs[g] # None)
           \/ \E s \in Session : cs' = [cs EXCEPT ![g] = s]
           \/ cs' = [cs EXCEPT ![g] = None] /\ p \notin Holding
    PROVE  /\ cpc' \in [Cmd -> CommandPlace]
           /\ cs' \in [Cmd -> Session \cup {None}]
           /\ \A h \in Cmd : cpc'[h] \in Holding => cs'[h] # None
           /\ \A h \in Cmd : kind'[h] \in KindOf[h]
<1>1. /\ cpc \in [Cmd -> CommandPlace] /\ cs \in [Cmd -> Session \cup {None}]
      /\ \A h \in Cmd : cpc[h] \in Holding => cs[h] # None
      /\ \A h \in Cmd : kind[h] \in KindOf[h]
    BY DEF TypeOK, CommandPlace, Holding
<1>2. cpc' = [cpc EXCEPT ![g] = p]
    BY DEF Goto
<1>3. cpc' \in [Cmd -> CommandPlace] /\ \A h \in Cmd : h # g => cpc'[h] = cpc[h]
    BY <1>1, <1>2
<1>4. cs' \in [Cmd -> Session \cup {None}] /\ \A h \in Cmd : h # g => cs'[h] = cs[h]
    BY <1>1
<1>5. cpc'[g] = p /\ (p \in Holding => cs'[g] # None)
    BY <1>1, <1>2, ChatConstants
<1>. QED BY <1>1, <1>3, <1>4, <1>5

LEMMA TypeStep ==
    ASSUME TypeOK, Next
    PROVE  TypeOK'
<1>. USE DEF cmdVars, pipeVars, windowVars
<1>1. ASSUME NEW g \in Cmd, OpenChat(g) \/ Respawn(g) PROVE TypeOK'
    <2>1. PICK s \in Session : startChat(s) /\ cs' = [cs EXCEPT ![g] = s]
        BY <1>1 DEF OpenChat, Respawn
    <2>2. kind' = kind /\ (Goto(g, "done") \/ Goto(g, "sleeping"))
        BY <1>1 DEF OpenChat, Respawn
    <2>3. /\ cpc' \in [Cmd -> CommandPlace]
          /\ cs' \in [Cmd -> Session \cup {None}]
          /\ \A h \in Cmd : cpc'[h] \in Holding => cs'[h] # None
          /\ \A h \in Cmd : kind'[h] \in KindOf[h]
        BY <2>1, <2>2, GotoType DEF CommandPlace
    <2>4. UNCHANGED <<conn, once, pipeVars, windowVars>>
        BY <2>1 DEF startChat
    <2>. QED BY <2>1, <2>3, <2>4, StartType DEF TypeOK, CommandPlace, Holding, ServicePlace
<1>2. ASSUME NEW g \in Cmd,
             SpawnFails(g) \/ Load(g) \/ MessageFails(g) \/ LoadPending(g)
      PROVE  TypeOK'
    <2>1. UNCHANGED <<active, kind, svc, conn, once, helper, pipeVars, windowVars>>
        BY <1>2 DEF SpawnFails, Load, MessageFails, LoadPending
    <2>2. CASE SpawnFails(g)
        BY <2>1, <2>2, GotoType DEF SpawnFails, TypeOK, CommandPlace, Holding
    <2>3. CASE Load(g)
        <3>1. PICK p \in CommandPlace : Goto(g, p) /\ (p \in Holding => active # None)
            BY <2>3 DEF Load, CommandPlace, Holding
        <3>2. cs' = [cs EXCEPT ![g] = active] /\ active \in Session \cup {None}
            BY <2>3 DEF Load, TypeOK
        <3>. QED BY <2>1, <3>1, <3>2, GotoType DEF TypeOK, CommandPlace, Holding
    <2>4. CASE MessageFails(g)
        <3>1. cs[g] # None /\ Goto(g, "stop") /\ cs' = cs
            BY <2>4 DEF MessageFails, TypeOK
        <3>. QED BY <2>1, <3>1, GotoType DEF TypeOK, CommandPlace, Holding
    <2>5. CASE LoadPending(g)
        <3>1. \/ Goto(g, "done") /\ cs' = cs
              \/ /\ Goto(g, "pending") /\ active \in Session
                 /\ cs' = [cs EXCEPT ![g] = active]
            BY <2>5 DEF LoadPending, TypeOK
        <3>. QED BY <2>1, <3>1, GotoType DEF TypeOK, CommandPlace, Holding
    <2>. QED BY <1>2, <2>2, <2>3, <2>4, <2>5
<1>3. ASSUME NEW g \in Cmd, NEW m \in Message, NEW p \in {"done", "stop"},
             cpc[g] \in {"loaded", "pending"}, Sends(g, m, p) \/ NoPipe(g, p)
      PROVE  TypeOK'
    <2>1. cs[g] \in Session /\ Goto(g, p) /\ cs' = cs /\ kind' = kind
        BY <1>3 DEF Sends, NoPipe, TypeOK
    <2>2. toHelper' \in [Session -> Seq(Message)]
        BY <1>3, <2>1, PipeSendType DEF Sends, NoPipe, TypeOK, Message
    <2>3. UNCHANGED <<active, svc, conn, once, helper, toService, windowVars>>
        BY <1>3 DEF Sends, NoPipe
    <2>. QED BY <2>1, <2>2, <2>3, GotoType DEF TypeOK, Message, CommandPlace, Holding
<1>4. ASSUME NEW g \in Cmd, SendMessage(g) \/ SendPending(g) \/ Notice(g) \/ SignalStop(g)
      PROVE  TypeOK'
    BY <1>3, <1>4 DEF SendMessage, SendPending, Notice, SignalStop, Message
<1>5. ASSUME NEW g \in Cmd, StopSession(g) PROVE TypeOK'
    <2>1. PICK to \in {"closing", "deleting", "over"} :
             /\ stop(cs[g], cpc[g], to)
             /\ Goto(g, IF to # "over" THEN to
                        ELSE IF kind[g] = "message" THEN "respawn" ELSE "done")
        BY <1>5 DEF StopSession
    <2>2. cs[g] \in Session
        BY <2>1 DEF stop, TypeOK
    <2>3. \E p \in CommandPlace : Goto(g, p)
        BY <2>1 DEF CommandPlace
    <2>4. UNCHANGED <<cs, kind, svc, helper, pipeVars, windowVars>> /\ cs[g] # None
        BY <1>5, <2>2, ChatConstants DEF StopSession
    <2>. QED BY <2>1, <2>2, <2>3, <2>4, GotoType, StopType DEF TypeOK, CommandPlace, Holding
<1>6. ASSUME NEW s \in Session,
             \/ Accept(s) \/ AcceptTimeout(s) \/ RelayStop(s) \/ BeginRead(s) \/ ReadTimeout(s)
             \/ RelayError(s) \/ ReportClosed(s) \/ CloseListener(s)
      PROVE  TypeOK'
    <2>1. \E p \in ServicePlace : svc' = [svc EXCEPT ![s] = p]
        BY <1>6 DEF Serve, Accept, AcceptTimeout, RelayStop, BeginRead, ReadTimeout,
                    RelayError, ReportClosed, CloseListener, ServicePlace
    <2>2. \/ conn' = conn
          \/ conn' = [conn EXCEPT ![s] = "open"]
        BY <1>6 DEF Idle, Accept, AcceptTimeout, RelayStop, BeginRead, ReadTimeout,
                    RelayError, ReportClosed, CloseListener
    <2>3. UNCHANGED <<active, cmdVars, once, helper, pipeVars, windowVars>>
        BY <1>6 DEF Idle, Accept, AcceptTimeout, RelayStop, BeginRead, ReadTimeout,
                    RelayError, ReportClosed, CloseListener
    <2>. QED BY <2>1, <2>2, <2>3 DEF TypeOK, ServicePlace
<1>7. ASSUME NEW s \in Session, SendInit(s) PROVE TypeOK'
    <2>1. toHelper' \in [Session -> Seq(Message)]
        BY <1>7, PipeSendType DEF SendInit, TypeOK, Message
    <2>. QED BY <1>7, <2>1 DEF TypeOK, Message, SendInit, Serve
<1>8. ASSUME NEW s \in Session, RelayMessage(s) PROVE TypeOK'
    <2>1. Tail(toService[s]) \in Seq({"message", "closed"})
        BY <1>8, HeadTailProperties DEF RelayMessage, TypeOK
    <2>. QED BY <1>8, <2>1 DEF TypeOK, RelayMessage, Serve
<1>9. ASSUME NEW s \in Session, DeferredStop(s) PROVE TypeOK'
    <2>1. PICK to \in {"closing", "deleting", "over"} :
             /\ stop(s, svc[s], to)
             /\ svc' = [svc EXCEPT ![s] = IF to = "over" THEN "ended" ELSE to]
        BY <1>9 DEF DeferredStop
    <2>2. svc' \in [Session -> ServicePlace]
        BY <2>1 DEF TypeOK, ServicePlace
    <2>. QED BY <1>9, <2>1, <2>2, StopType DEF DeferredStop, TypeOK, ServicePlace
<1>10. ASSUME NEW s \in Session, \/ Dial(s) \/ DialFails(s) \/ ReadFails(s) \/ Terminate(s)
                                \/ HelperDies(s)
      PROVE  TypeOK'
    <2>1. \E h \in {"connected", "closing", "exited"} : Become(s, h)
        BY <1>10 DEF Dial, DialFails, ReadFails, Terminate, HelperDies
    <2>2. conn' = conn \/ conn' = [conn EXCEPT ![s] = "queued"]
        BY <1>10 DEF Dial, DialFails, ReadFails, Terminate, HelperDies
    <2>3. UNCHANGED <<active, cmdVars, svc, once, pipeVars, windowVars>>
        BY <1>10 DEF Dial, DialFails, ReadFails, Terminate, HelperDies
    <2>. QED BY <2>1, <2>2, <2>3 DEF TypeOK, Become
<1>11. ASSUME NEW s \in Session, AwaitInit(s) \/ ReadPipe(s) PROVE TypeOK'
    <2>1. toHelper[s] # <<>> => /\ Tail(toHelper[s]) \in Seq(Message)
                                /\ Head(toHelper[s]) \in Message
        BY HeadTailProperties DEF TypeOK, Message
    <2>2. \A m \in Cmd : Append(shown[s], m) \in Seq(Cmd)
        BY AppendProperties DEF TypeOK
    <2>3. toHelper' \in [Session -> Seq(Message)]
        <3>1. \/ toHelper' = toHelper
              \/ toHelper[s] # <<>> /\ toHelper' = [toHelper EXCEPT ![s] = Tail(@)]
            BY <1>11 DEF AwaitInit, ReadPipe
        <3>2. toHelper \in [Session -> Seq(Message)]
            BY DEF TypeOK, Message
        <3>. QED BY <2>1, <3>1, <3>2
    <2>4. shown' \in [Session -> Seq(Cmd)]
        <3>1. shown' = shown \/ \E m \in Cmd : shown' = [shown EXCEPT ![s] = Append(shown[s], m)]
            BY <1>11 DEF AwaitInit, ReadPipe
        <3>2. shown \in [Session -> Seq(Cmd)]
            BY DEF TypeOK
        <3>. QED BY <2>2, <3>1, <3>2
    <2>5. helper' \in [Session -> {"none", "dialing", "connected", "up", "closing", "exited"}]
        <3>1. PICK h \in {"up", "exited"} : helper' = [helper EXCEPT ![s] = h]
            BY <1>11 DEF AwaitInit, ReadPipe, Become
        <3>2. helper \in [Session -> {"none", "dialing", "connected", "up", "closing", "exited"}]
            BY DEF TypeOK
        <3>. QED BY <3>1, <3>2
    <2>6. UNCHANGED <<active, cmdVars, svc, conn, once, toService, typed>>
        BY <1>11 DEF AwaitInit, ReadPipe
    <2>. QED BY <2>3, <2>4, <2>5, <2>6 DEF TypeOK, Message
<1>12. ASSUME NEW s \in Session, UserTypes(s) \/ UserCloses(s) PROVE TypeOK'
    <2>1. \A k \in {"message", "closed"} : Append(toService[s], k) \in Seq({"message", "closed"})
        BY AppendProperties DEF TypeOK
    <2>2. toService' \in [Session -> Seq({"message", "closed"})]
        <3>1. \/ toService' = toService
              \/ \E k \in {"message", "closed"} :
                    toService' = [toService EXCEPT ![s] = Append(@, k)]
            BY <1>12 DEF UserTypes, UserCloses, goChatSend
        <3>2. toService \in [Session -> Seq({"message", "closed"})]
            BY DEF TypeOK
        <3>. QED BY <2>1, <3>1, <3>2
    <2>3. typed' \in 0 .. MaxUser
        BY <1>12, ChatConstants DEF TypeOK, UserTypes, UserCloses
    <2>. QED BY <1>12, <2>2, <2>3 DEF TypeOK, UserTypes, UserCloses, Become
<1>. QED BY <1>1, <1>2, <1>4, <1>5, <1>6, <1>7, <1>8, <1>9, <1>10, <1>11, <1>12
         DEF Next, handleCommand, Service, Helper, User
-----------------------------------------------------------------------------
(* The map and the sessions.                                                *)

\* What one step of stop does to the entry, when its caller moves with it.
LEMMA StopServed ==
    ASSUME TypeOK, ActiveServed, NEW s \in Session, NEW at, NEW to, stop(s, at, to),
           \A r \in Session : r # s => svc'[r] = svc[r] /\ (Stopping(r) => Stopping(r)'),
           to # "over" => /\ Stopping(s)'
                          /\ svc'[s] = svc[s] \/ svc'[s] \in {"closing", "deleting"}
    PROVE  ActiveServed'
<1>1. CASE active' = None
    BY <1>1 DEF ActiveServed
<1>2. CASE active # s /\ active' = active /\ active # None
    <2>1. once'[active] = once[active] /\ active \in Session
        BY <1>2 DEF stop, CloseStopCh, CloseConn, Forget, JoinStop, TypeOK
    <2>. QED BY <1>2, <2>1 DEF ActiveServed
<1>3. CASE active = s /\ active' = s
    <2>1. ~JoinStop(s) /\ ~Forget(s)
        BY <1>3, ChatConstants DEF JoinStop, Forget, ActiveServed
    <2>2. to # "over" /\ (once'[s] = once[s] \/ once'[s] = "running")
        BY <2>1 DEF stop, CloseStopCh, CloseConn, TypeOK
    <2>. QED BY <1>3, <2>2 DEF ActiveServed
<1>. QED BY <1>1, <1>2, <1>3 DEF stop, CloseStopCh, CloseConn, Forget, JoinStop

\* Steps that leave the map and once alone, and no place in stop.
LEMMA StillServed ==
    ASSUME TypeOK, ActiveServed, active' = active, once' = once,
           \A s \in Session : \/ svc'[s] = svc[s]
                             \/ /\ svc[s] \notin {"closing", "deleting"}
                                /\ svc'[s] \notin {"none", "ended"},
           \A g \in Cmd : cpc[g] \in {"closing", "deleting"}
                              => cpc'[g] = cpc[g] /\ cs'[g] = cs[g]
    PROVE  ActiveServed'
<1>1. \A s \in Session : Stopping(s) => Stopping(s)'
    BY DEF Stopping
<1>. QED BY <1>1 DEF ActiveServed, TypeOK

LEMMA ServedStep ==
    ASSUME TypeOK, Fresh, ActiveServed, Next
    PROVE  ActiveServed'
<1>. USE DEF cmdVars, pipeVars, windowVars
<1>1. ASSUME NEW s \in Session, startChat(s) PROVE ActiveServed'
    BY <1>1 DEF ActiveServed, startChat, Fresh, TypeOK
<1>2. ASSUME NEW g \in Cmd, handleCommand(g) PROVE ActiveServed'
    <2>1. CASE OpenChat(g) \/ Respawn(g)
        BY <1>1, <2>1 DEF OpenChat, Respawn
    <2>2. CASE StopSession(g)
        <3>1. PICK to \in {"closing", "deleting", "over"} :
                 /\ stop(cs[g], cpc[g], to)
                 /\ Goto(g, IF to # "over" THEN to
                            ELSE IF kind[g] = "message" THEN "respawn" ELSE "done")
            BY <2>2 DEF StopSession
        <3>2. cs[g] \in Session /\ cs' = cs /\ svc' = svc
            BY <2>2, <3>1 DEF StopSession, stop, TypeOK
        <3>3. \A h \in Cmd : h # g => cpc'[h] = cpc[h]
            BY <3>1 DEF Goto, TypeOK
        <3>4. \A r \in Session : r # cs[g] => (Stopping(r) => Stopping(r)')
            BY <3>2, <3>3 DEF Stopping
        <3>5. to # "over" => Stopping(cs[g])'
            BY <3>1, <3>2 DEF Stopping, Goto, TypeOK
        <3>. QED BY <3>1, <3>2, <3>4, <3>5, StopServed
    <2>3. CASE \/ SpawnFails(g) \/ Load(g) \/ SendMessage(g) \/ MessageFails(g) \/ LoadPending(g)
               \/ SendPending(g) \/ Notice(g) \/ SignalStop(g)
        <3>1. active' = active /\ once' = once /\ svc' = svc
            BY <2>3 DEF SpawnFails, Load, SendMessage, MessageFails, LoadPending, SendPending,
                        Notice, SignalStop, Sends, NoPipe
        <3>2. cpc[g] \notin {"closing", "deleting"}
            BY <2>3 DEF SpawnFails, Load, SendMessage, MessageFails, LoadPending, SendPending,
                        Notice, SignalStop
        <3>3. \A h \in Cmd : h # g => cpc'[h] = cpc[h] /\ cs'[h] = cs[h]
            BY <2>3 DEF SpawnFails, Load, SendMessage, MessageFails, LoadPending, SendPending,
                        Notice, SignalStop, Sends, NoPipe, Goto, TypeOK
        <3>. QED BY <3>1, <3>2, <3>3, StillServed
    <2>. QED BY <1>2, <2>1, <2>2, <2>3 DEF handleCommand
<1>3. ASSUME NEW s \in Session, Service(s) PROVE ActiveServed'
    <2>1. CASE DeferredStop(s)
        <3>1. PICK to \in {"closing", "deleting", "over"} :
                 /\ stop(s, svc[s], to)
                 /\ svc' = [svc EXCEPT ![s] = IF to = "over" THEN "ended" ELSE to]
            BY <2>1 DEF DeferredStop
        <3>2. cs' = cs /\ cpc' = cpc
            BY <2>1 DEF DeferredStop
        <3>3. /\ \A r \in Session : r # s => svc'[r] = svc[r]
              /\ to # "over" => svc'[s] \in {"closing", "deleting"}
            BY <3>1 DEF TypeOK
        <3>4. \A r \in Session : r # s => (Stopping(r) => Stopping(r)')
            BY <3>2, <3>3 DEF Stopping
        <3>5. to # "over" => Stopping(s)'
            BY <3>3 DEF Stopping
        <3>. QED BY <3>1, <3>3, <3>4, <3>5, StopServed
    <2>2. CASE \/ Accept(s) \/ AcceptTimeout(s) \/ SendInit(s) \/ RelayStop(s) \/ BeginRead(s)
               \/ ReadTimeout(s) \/ RelayMessage(s) \/ RelayError(s) \/ ReportClosed(s)
               \/ CloseListener(s)
        <3>1. /\ active' = active /\ once' = once /\ cpc' = cpc /\ cs' = cs
              /\ \A r \in Session : r # s => svc'[r] = svc[r]
              /\ svc[s] \notin {"closing", "deleting"} /\ svc'[s] \notin {"none", "ended"}
            BY <2>2 DEF Accept, AcceptTimeout, SendInit, RelayStop, BeginRead, ReadTimeout,
                        RelayMessage, RelayError, ReportClosed, CloseListener, Serve, Idle, TypeOK
        <3>. QED BY <3>1, StillServed
    <2>. QED BY <1>3, <2>1, <2>2 DEF Service
<1>4. ASSUME NEW s \in Session, Helper(s) \/ User(s) PROVE ActiveServed'
    <2>1. active' = active /\ once' = once /\ cpc' = cpc /\ cs' = cs /\ svc' = svc
        BY <1>4 DEF Helper, User, Dial, DialFails, AwaitInit, ReadPipe, ReadFails, Terminate,
                    UserTypes, UserCloses, HelperDies
    <2>. QED BY <2>1, StillServed
<1>. QED BY <1>2, <1>3, <1>4 DEF Next

LEMMA FreshStep ==
    ASSUME TypeOK, Fresh, ActiveServed, Next
    PROVE  Fresh'
<1>. USE DEF cmdVars, pipeVars, windowVars
<1>1. active # None => helper[active] # "none"
    BY ChatConstants DEF Fresh, ActiveServed, Stopping, TypeOK
<1>2. ASSUME NEW s \in Session, NEW at, NEW to, helper[s] # "none", stop(s, at, to),
             helper' = helper, cs' = cs, \A r \in Session : r # s => svc'[r] = svc[r]
      PROVE  Fresh'
    <2>1. \A r \in Session : r # s => once'[r] = once[r]
        BY <1>2 DEF stop, CloseStopCh, CloseConn, Forget, JoinStop, TypeOK
    <2>2. ASSUME NEW r \in Session, helper'[r] = "none"
          PROVE  svc'[r] = "none" /\ once'[r] = "no" /\ \A g \in Cmd : cs'[g] # r
        BY <1>2, <2>1, <2>2 DEF Fresh
    <2>. QED BY <2>2 DEF Fresh
<1>3. ASSUME NEW g \in Cmd, handleCommand(g) PROVE Fresh'
    <2>1. CASE OpenChat(g) \/ Respawn(g)
        <3>1. PICK s \in Session : startChat(s) /\ cs' = [cs EXCEPT ![g] = s]
            BY <2>1 DEF OpenChat, Respawn
        <3>. QED BY <3>1 DEF startChat, Fresh, TypeOK
    <2>2. CASE StopSession(g)
        <3>1. PICK to : stop(cs[g], cpc[g], to)
            BY <2>2 DEF StopSession
        <3>2. cs[g] \in Session /\ helper[cs[g]] # "none"
            BY <3>1 DEF stop, TypeOK, Fresh
        <3>. QED BY <1>2, <2>2, <3>1, <3>2 DEF StopSession
    <2>3. CASE Load(g) \/ LoadPending(g)
        BY <1>1, <2>3, ChatConstants DEF Load, LoadPending, Fresh, TypeOK
    <2>4. CASE \/ SpawnFails(g) \/ SendMessage(g) \/ MessageFails(g) \/ SendPending(g)
               \/ Notice(g) \/ SignalStop(g)
        BY <2>4 DEF SpawnFails, SendMessage, MessageFails, SendPending, Notice, SignalStop,
                    Sends, NoPipe, Fresh
    <2>. QED BY <1>3, <2>1, <2>2, <2>3, <2>4 DEF handleCommand
<1>4. ASSUME NEW s \in Session, Service(s) PROVE Fresh'
    <2>1. CASE DeferredStop(s)
        <3>1. PICK to \in {"closing", "deleting", "over"} :
                 /\ stop(s, svc[s], to)
                 /\ svc' = [svc EXCEPT ![s] = IF to = "over" THEN "ended" ELSE to]
            BY <2>1 DEF DeferredStop
        <3>2. /\ helper[s] # "none" /\ helper' = helper /\ cs' = cs
              /\ \A r \in Session : r # s => svc'[r] = svc[r]
            BY <2>1, <3>1 DEF DeferredStop, stop, Fresh, TypeOK
        <3>. QED BY <1>2, <3>1, <3>2
    <2>2. CASE \/ Accept(s) \/ AcceptTimeout(s) \/ SendInit(s) \/ RelayStop(s) \/ BeginRead(s)
               \/ ReadTimeout(s) \/ RelayMessage(s) \/ RelayError(s) \/ ReportClosed(s)
               \/ CloseListener(s)
        BY <2>2 DEF Accept, AcceptTimeout, SendInit, RelayStop, BeginRead, ReadTimeout, RelayMessage,
                    RelayError, ReportClosed, CloseListener, Serve, Idle, Fresh, TypeOK
    <2>. QED BY <1>4, <2>1, <2>2 DEF Service
<1>5. ASSUME NEW s \in Session, Helper(s) \/ User(s) PROVE Fresh'
    <2>1. /\ \A t \in Session : helper'[t] = "none" => helper[t] = "none"
          /\ UNCHANGED <<svc, once, cs>>
        BY <1>5 DEF Helper, User, Dial, DialFails, AwaitInit, ReadPipe, ReadFails, Terminate,
                    UserTypes, UserCloses, HelperDies, Become, TypeOK
    <2>. QED BY <2>1 DEF Fresh
<1>. QED BY <1>3, <1>4, <1>5 DEF Next
-----------------------------------------------------------------------------
(* Where a message is.                                                      *)
Places == SentLast /\ OnePlace

DoneStays == \A m \in Cmd : cpc[m] = "done" => cpc'[m] = "done"

LEMMA PlacesSame ==
    ASSUME Places, DoneStays, toHelper' = toHelper, shown' = shown
    PROVE  Places'
BY DEF Places, DoneStays, SentLast, OnePlace, OnPipe, InWindow

\* A message is sent once, by the last step of its goroutine.
LEMMA PlacesSend ==
    ASSUME TypeOK, Places, DoneStays, NEW s \in Session, NEW x \in Message, PipeSend(s, x),
           shown' = shown, x \in Cmd => cpc[x] # "done" /\ cpc'[x] = "done"
    PROVE  Places'
<1>. DEFINE q == toHelper[s]
<1>1. /\ toHelper \in [Session -> Seq(Message)] /\ q \in Seq(Message)
      /\ \A i \in DOMAIN Append(q, x) : \/ i \in DOMAIN q /\ Append(q, x)[i] = q[i]
                                        \/ i = Len(q) + 1 /\ Append(q, x)[i] = x
    <2>1. toHelper \in [Session -> Seq(Message)] /\ q \in Seq(Message)
        BY DEF TypeOK, Message
    <2>2. ASSUME NEW i \in DOMAIN Append(q, x)
          PROVE  \/ i \in DOMAIN q /\ Append(q, x)[i] = q[i]
                 \/ i = Len(q) + 1 /\ Append(q, x)[i] = x
        <3>1. /\ Len(q) \in Nat /\ DOMAIN q = 1 .. Len(q) /\ i \in 1 .. Len(q) + 1
            BY <2>1, AppendProperties, LenProperties
        <3>. QED BY <2>1, <3>1, AppendProperties
    <2>. QED BY <2>1, <2>2
<1>2. ASSUME NEW m \in Cmd, NEW t \in Session, NEW i \in Nat, OnPipe(m, t, i)'
      PROVE  OnPipe(m, t, i) \/ (m = x /\ t = s /\ i = Len(q) + 1)
    BY <1>1, <1>2 DEF PipeSend, OnPipe
<1>3. \A m \in Cmd, t \in Session, i \in Nat : InWindow(m, t, i)' <=> InWindow(m, t, i)
    BY DEF InWindow
<1>4. SentLast'
    BY <1>2, <1>3 DEF Places, SentLast, DoneStays
<1>5. x \in Cmd => \A t \in Session, i \in Nat : ~OnPipe(x, t, i) /\ ~InWindow(x, t, i)
    BY DEF Places, SentLast
<1>6. OnePlace'
    BY <1>2, <1>3, <1>5 DEF Places, OnePlace
<1>. QED BY <1>4, <1>6 DEF Places

\* The first message of a pipe is taken; it may be shown.
LEMMA PlacesTake ==
    ASSUME TypeOK, Places, DoneStays, NEW s \in Session, toHelper[s] # <<>>,
           toHelper' = [toHelper EXCEPT ![s] = Tail(@)],
           \/ shown' = shown
           \/ /\ Head(toHelper[s]) \in Cmd
              /\ shown' = [shown EXCEPT ![s] = Append(@, Head(toHelper[s]))]
    PROVE  Places'
<1>. DEFINE q == toHelper[s]
            w == shown[s]
            From(t, i) == IF t = s THEN i + 1 ELSE i
<1>1. /\ toHelper \in [Session -> Seq(Message)] /\ q \in Seq(Message)
      /\ shown \in [Session -> Seq(Cmd)] /\ w \in Seq(Cmd)
    BY DEF TypeOK, Message
<1>2. /\ Head(q) = q[1] /\ 1 \in DOMAIN q
      /\ \A i \in DOMAIN Tail(q) : i \in Nat /\ i >= 1 /\ i + 1 \in DOMAIN q /\ Tail(q)[i] = q[i + 1]
    BY <1>1, HeadTailProperties
<1>3. ASSUME NEW m \in Cmd, NEW t \in Session, NEW i \in Nat, OnPipe(m, t, i)'
      PROVE  OnPipe(m, t, From(t, i)) /\ (t = s => i >= 1)
    BY <1>1, <1>2, <1>3 DEF OnPipe
<1>4. ASSUME NEW m \in Cmd, NEW t \in Session, NEW i \in Nat, InWindow(m, t, i)'
      PROVE  InWindow(m, t, i) \/ (OnPipe(m, s, 1) /\ t = s /\ i = Len(w) + 1)
    <2>1. CASE shown' = shown
        BY <1>4, <2>1 DEF InWindow
    <2>2. CASE /\ Head(q) \in Cmd
               /\ shown' = [shown EXCEPT ![s] = Append(@, Head(q))]
        <3>1. \A j \in DOMAIN Append(w, Head(q)) :
                 \/ j \in DOMAIN w /\ Append(w, Head(q))[j] = w[j]
                 \/ j = Len(w) + 1 /\ Append(w, Head(q))[j] = Head(q)
            BY <1>1, <2>2, AppendProperties
        <3>. QED BY <1>1, <1>2, <1>4, <2>2, <3>1 DEF InWindow, OnPipe
    <2>. QED BY <2>1, <2>2
<1>5. \A t \in Session, i \in Nat : From(t, i) \in Nat
    OBVIOUS
<1>6. SentLast'
    BY <1>3, <1>4, <1>5 DEF Places, SentLast, DoneStays
<1>7. ASSUME NEW m \in Cmd, NEW t \in Session, NEW u \in Session, NEW i \in Nat, NEW j \in Nat
      PROVE  /\ OnPipe(m, t, i)' /\ OnPipe(m, u, j)' => t = u /\ i = j
             /\ InWindow(m, t, i)' /\ InWindow(m, u, j)' => t = u /\ i = j
             /\ ~(OnPipe(m, t, i)' /\ InWindow(m, u, j)')
    <2>1. OnPipe(m, t, i)' /\ OnPipe(m, u, j)' => t = u /\ i = j
        BY <1>3, <1>5 DEF Places, OnePlace
    <2>2. InWindow(m, t, i)' /\ InWindow(m, u, j)' => t = u /\ i = j
        BY <1>4 DEF Places, OnePlace
    <2>3. ~(OnPipe(m, t, i)' /\ InWindow(m, u, j)')
        BY <1>3, <1>4, <1>5 DEF Places, OnePlace
    <2>. QED BY <2>1, <2>2, <2>3
<1>8. OnePlace'
    BY <1>7 DEF OnePlace
<1>. QED BY <1>6, <1>8 DEF Places

LEMMA PlacesStep ==
    ASSUME TypeOK, Places, Next
    PROVE  Places'
<1>. USE DEF cmdVars, pipeVars, windowVars
<1>0. DoneStays
    <2>1. ASSUME NEW g \in Cmd, handleCommand(g) PROVE DoneStays
        <3>1. cpc[g] # "done" /\ \A h \in Cmd : h # g => cpc'[h] = cpc[h]
            BY <2>1 DEF handleCommand, OpenChat, SpawnFails, Load, SendMessage, MessageFails,
                        Respawn, LoadPending, SendPending, Notice, SignalStop, StopSession,
                        stop, Sends, NoPipe, Goto, TypeOK
        <3>. QED BY <3>1 DEF DoneStays
    <2>2. ASSUME NEW s \in Session, Service(s) \/ Helper(s) \/ User(s) PROVE DoneStays
        BY <2>2 DEF Service, Accept, AcceptTimeout, SendInit, RelayStop, BeginRead, ReadTimeout,
                    RelayMessage, RelayError, ReportClosed, CloseListener, DeferredStop, Idle,
                    Helper, Dial, DialFails, AwaitInit, ReadPipe, ReadFails, Terminate,
                    User, UserTypes, UserCloses, HelperDies, DoneStays
    <2>. QED BY <2>1, <2>2 DEF Next
<1>1. ASSUME NEW g \in Cmd, handleCommand(g) PROVE Places'
    <2>1. CASE \/ OpenChat(g) \/ SpawnFails(g) \/ Load(g) \/ MessageFails(g) \/ Respawn(g)
               \/ LoadPending(g) \/ StopSession(g)
        BY <1>0, <2>1, PlacesSame
           DEF OpenChat, SpawnFails, Load, MessageFails, Respawn, LoadPending, StopSession, startChat
    <2>2. ASSUME NEW m \in Message, NEW p \in {"done", "stop"}, Sends(g, m, p) \/ NoPipe(g, p),
                 cpc[g] \in {"loaded", "pending"}, m \in Cmd => m = g /\ p = "done"
          PROVE  Places'
        <3>1. CASE NoPipe(g, p)
            BY <1>0, <3>1, PlacesSame DEF NoPipe
        <3>2. CASE Sends(g, m, p)
            <4>1. cs[g] \in Session /\ PipeSend(cs[g], m) /\ shown' = shown
                BY <2>2, <3>2 DEF Sends, TypeOK
            <4>2. m \in Cmd => cpc[m] # "done" /\ cpc'[m] = "done"
                BY <2>2, <3>2 DEF Sends, Goto, TypeOK
            <4>. QED BY <1>0, <4>1, <4>2, PlacesSend
        <3>. QED BY <2>2, <3>1, <3>2
    <2>3. CASE SendMessage(g) \/ SendPending(g)
        BY <2>2, <2>3 DEF SendMessage, SendPending, Message
    <2>4. CASE Notice(g) \/ SignalStop(g)
        BY <2>2, <2>4, ChatConstants DEF Notice, SignalStop, Message
    <2>. QED BY <1>1, <2>1, <2>3, <2>4 DEF handleCommand
<1>2. ASSUME NEW s \in Session, Service(s) PROVE Places'
    <2>1. CASE SendInit(s)
        BY <1>0, <2>1, PlacesSend, PlacesSame, ChatConstants DEF SendInit, Message
    <2>2. CASE \/ Accept(s) \/ AcceptTimeout(s) \/ RelayStop(s) \/ BeginRead(s) \/ ReadTimeout(s)
               \/ RelayMessage(s) \/ RelayError(s) \/ ReportClosed(s) \/ CloseListener(s)
               \/ DeferredStop(s)
        BY <1>0, <2>2, PlacesSame
           DEF Accept, AcceptTimeout, RelayStop, BeginRead, ReadTimeout, RelayMessage, RelayError,
               ReportClosed, CloseListener, DeferredStop, Idle
    <2>. QED BY <1>2, <2>1, <2>2 DEF Service
<1>3. ASSUME NEW s \in Session, Helper(s) \/ User(s) PROVE Places'
    <2>1. CASE AwaitInit(s)
        BY <1>0, <2>1, PlacesTake, PlacesSame DEF AwaitInit
    <2>2. CASE ReadPipe(s)
        BY <1>0, <2>2, PlacesTake DEF ReadPipe
    <2>3. CASE \/ Dial(s) \/ DialFails(s) \/ ReadFails(s) \/ Terminate(s)
               \/ UserTypes(s) \/ UserCloses(s) \/ HelperDies(s)
        BY <1>0, <2>3, PlacesSame
           DEF Dial, DialFails, ReadFails, Terminate, UserTypes, UserCloses, HelperDies
    <2>. QED BY <1>3, <2>1, <2>2, <2>3 DEF Helper, User
<1>. QED BY <1>1, <1>2, <1>3 DEF Next
-----------------------------------------------------------------------------
\* The inductive invariant of the chat.
THEOREM ChatInvariant == Spec => []IInv
<1>1. IInv /\ [Next]_vars => IInv'
    <2>. SUFFICES ASSUME IInv, [Next]_vars PROVE IInv'
        OBVIOUS
    <2>1. CASE Next
        BY <2>1, TypeStep, FreshStep, ServedStep, PlacesStep DEF IInv, Places
    <2>2. CASE UNCHANGED vars
        BY <2>2 DEF vars, cmdVars, pipeVars, windowVars, IInv, TypeOK, Fresh, ActiveServed,
                    Stopping, SentLast, OnePlace, OnPipe, InWindow
    <2>. QED BY <2>1, <2>2
<1>. QED BY InitInv, <1>1, PTL DEF Spec

\* Types, for any commands and windows, and that a goroutine which is to use a
\* session has found one (chat.go).
THEOREM ChatTypeCorrect == Spec => []TypeOK
<1>1. IInv => TypeOK
    BY DEF IInv
<1>. QED BY ChatInvariant, <1>1, PTL

\* The map leads no command to a session whose stop is over, for any number of
\* windows that replace each other and of goroutines that stop them: an entry is
\* a session that is still to be stopped by the goroutine that serves it, or one
\* that is being stopped and will be deleted (chat.go).
THEOREM ActiveServedAlways == Spec => []ActiveServed
<1>1. IInv => ActiveServed
    BY DEF IInv
<1>. QED BY ChatInvariant, <1>1, PTL

\* A set that holds no two elements.
LEMMA AtMostOne ==
    ASSUME NEW S, \A x, y \in S : x = y
    PROVE  Cardinality(S) <= 1
<1>1. CASE S = {}
    BY <1>1, FS_EmptySet
<1>2. CASE S # {}
    <2>1. PICK x : S = {x}
        BY <1>2
    <2>. QED BY <2>1, FS_Singleton
<1>. QED BY <1>1, <1>2

\* No operator message is shown twice, in one window or in two, for any number
\* of messages and of windows opened again (chat.go, forwardChatMessage).
THEOREM ShownOnceAlways == Spec => []ShownOnce
<1>1. IInv => ShownOnce
    <2>. SUFFICES ASSUME IInv, NEW m \in Cmd PROVE Cardinality(Copies(m)) <= 1
        BY DEF ShownOnce
    <2>1. ASSUME NEW x \in Copies(m)
          PROVE  \E s \in Session, i \in Nat :
                     \/ OnPipe(m, s, i) /\ x = <<s, "pipe", i>>
                     \/ InWindow(m, s, i) /\ x = <<s, "window", i>>
        <3>1. toHelper \in [Session -> Seq(Message)] /\ shown \in [Session -> Seq(Cmd)]
            BY DEF IInv, TypeOK, Message
        <3>2. PICK s \in Session :
                 \/ x \in {s} \X {"pipe"} \X {i \in DOMAIN toHelper[s] : toHelper[s][i] = m}
                 \/ x \in {s} \X {"window"} \X {i \in DOMAIN shown[s] : shown[s][i] = m}
            BY <2>1 DEF Copies
        <3>3. DOMAIN toHelper[s] \subseteq Nat /\ DOMAIN shown[s] \subseteq Nat
            BY <3>1
        <3>4. CASE x \in {s} \X {"pipe"} \X {i \in DOMAIN toHelper[s] : toHelper[s][i] = m}
            <4>1. PICK i \in DOMAIN toHelper[s] : toHelper[s][i] = m /\ x = <<s, "pipe", i>>
                BY <3>4
            <4>2. i \in Nat /\ OnPipe(m, s, i)
                BY <3>3, <4>1 DEF OnPipe
            <4>. QED BY <3>2, <4>1, <4>2
        <3>5. CASE x \in {s} \X {"window"} \X {i \in DOMAIN shown[s] : shown[s][i] = m}
            <4>1. PICK i \in DOMAIN shown[s] : shown[s][i] = m /\ x = <<s, "window", i>>
                BY <3>5
            <4>2. i \in Nat /\ InWindow(m, s, i)
                BY <3>3, <4>1 DEF InWindow
            <4>. QED BY <3>2, <4>1, <4>2
        <3>. QED BY <3>2, <3>4, <3>5
    <2>2. \A x, y \in Copies(m) : x = y
        BY <2>1 DEF IInv, OnePlace
    <2>. QED BY <2>2, AtMostOne
<1>. QED BY ChatInvariant, <1>1, PTL
=============================================================================
