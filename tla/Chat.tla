-------------------------------- MODULE Chat --------------------------------
(***************************************************************************)
(* One chat of the agent (agent/chat.go, chat_windows.go): the operator's  *)
(* commands, each handled in a goroutine of its own, the chat sessions     *)
(* they start, and the helper processes that show the chat window in the   *)
(* user's session and talk to the service over a TCP pipe.                 *)
(*                                                                         *)
(* Different chats share nothing but the command WebSocket, so one chatID  *)
(* is modelled.  A session, its accept goroutine, its pipe and its helper  *)
(* process are all identified by the same element of Session.              *)
(***************************************************************************)
EXTENDS Integers, Sequences, FiniteSets

CONSTANTS
    Cmd,           \* commands of the operator, one goroutine each
    KindOf,        \* what each may be: open_chat, chat_message, close_chat,
                   \* or a notice (typing, file, remote request)
    Session,       \* bound: how many helpers can be spawned
    None,          \* nil
    SpawnMayFail,  \* whether CreateProcess in the user's session can fail
    MaxUser        \* bound: messages the user types, over all windows

ASSUME ChatConstants ==
    /\ KindOf \in [Cmd -> SUBSET {"open", "message", "notice", "close"}]
    /\ None \notin Session
    /\ Cmd \cap {"init", "notice", "stop"} = {}
    /\ SpawnMayFail \in BOOLEAN
    /\ MaxUser \in Nat

VARIABLES
    active,     \* activeChats[chatID]
    cpc,        \* where each command goroutine stands
    cs,         \* its local variable cs: the session it loaded or started
    kind,       \* what the command is; it never changes
    svc,        \* the accept goroutine, later relayFromHelper
    conn,       \* ChatSession.conn, nil while it is not yet accepted
    once,       \* ChatSession.once: "no", "running" or "done"
    helper,     \* the helper process
    toHelper,   \* the pipe, service to helper
    toService,  \* the pipe, helper to service
    shown,      \* operator messages each window has shown
    typed       \* messages the user has typed

cmdVars    == <<cpc, cs, kind>>
pipeVars   == <<toHelper, toService>>
windowVars == <<shown, typed>>
vars == <<active, cmdVars, svc, conn, once, helper, pipeVars, windowVars>>

Init ==
    /\ active = None
    /\ cpc = [g \in Cmd |-> "received"]
    /\ cs = [g \in Cmd |-> None]
    /\ kind \in [Cmd -> UNION {KindOf[g] : g \in Cmd}]
    /\ \A g \in Cmd : kind[g] \in KindOf[g]
    /\ svc = [s \in Session |-> "none"]
    /\ conn = [s \in Session |-> "nil"]
    /\ once = [s \in Session |-> "no"]
    /\ helper = [s \in Session |-> "none"]
    /\ toHelper = [s \in Session |-> <<>>]
    /\ toService = [s \in Session |-> <<>>]
    /\ shown = [s \in Session |-> <<>>]
    /\ typed = 0

\* stopCh is closed by whoever enters the body of stop first.
stopped(s) == once[s] # "no"

\* Fault: the map keeps the entry.
Forget_KeepEntry(s) ==
    /\ once' = [once EXCEPT ![s] = "done"]
    /\ UNCHANGED <<active, conn>>

(* ChatSession.stop, step by step: other goroutines run in between.         *)
CloseStopCh(s) ==
    /\ once[s] = "no"
    /\ once' = [once EXCEPT ![s] = "running"]
    /\ UNCHANGED <<active, conn>>

\* A nil conn is left to whoever sets it later.
CloseConn(s) ==
    /\ conn' = [conn EXCEPT ![s] = IF @ = "open" THEN "closed" ELSE @]
    /\ UNCHANGED <<active, once>>

\* The map loses the chat's entry, whichever session it holds.
Forget(s) ==
    /\ active' = None
    /\ once' = [once EXCEPT ![s] = "done"]
    /\ UNCHANGED conn

\* A caller that comes while another runs the body waits for it (sync.Once).
JoinStop(s) == once[s] = "done" /\ UNCHANGED <<active, conn, once>>

\* The caller moves from one place to the next, and is over where it returns.
stop(s, at, to) ==
    \/ at = "stop" /\ to = "closing" /\ CloseStopCh(s)
    \/ at = "closing" /\ to = "deleting" /\ CloseConn(s)
    \/ at = "deleting" /\ to = "over" /\ Forget(s)
    \/ at = "stop" /\ to = "over" /\ JoinStop(s)

\* startChat: listen, spawn the helper, publish the session, start accepting.
\* The elements of Session are used in one order.
startChat(s) ==
    /\ helper[s] = "none" /\ s = CHOOSE r \in Session : helper[r] = "none"
    /\ helper' = [helper EXCEPT ![s] = "dialing"]
    /\ svc' = [svc EXCEPT ![s] = "accepting"]
    /\ active' = s
    /\ UNCHANGED <<conn, once, pipeVars, windowVars>>

Goto(g, p) == cpc' = [cpc EXCEPT ![g] = p]

\* chatPipeSend to a session whose conn is open: the bytes reach the helper,
\* or are accepted by the kernel although the helper has gone.
PipeSend(s, m) ==
    /\ conn[s] = "open"
    /\ toHelper' = IF helper[s] = "exited" THEN toHelper
                   ELSE [toHelper EXCEPT ![s] = Append(@, m)]

-----------------------------------------------------------------------------
(* handleCommand: open_chat.                                                *)
OpenChat(g) ==
    /\ kind[g] = "open" /\ cpc[g] = "received"
    /\ \E s \in Session : startChat(s) /\ cs' = [cs EXCEPT ![g] = s]
    /\ Goto(g, "done")
    /\ UNCHANGED kind

SpawnFails(g) ==
    /\ SpawnMayFail
    /\ (kind[g] = "open" /\ cpc[g] = "received") \/ cpc[g] = "respawn"
    /\ Goto(g, "done")
    /\ UNCHANGED <<active, cs, kind, svc, conn, once, helper, pipeVars, windowVars>>

\* Fault: the result of the lookup is used unchecked.
Load_Unchecked(g) ==
    /\ kind[g] # "open" /\ cpc[g] = "received"
    /\ cs' = [cs EXCEPT ![g] = active]
    /\ Goto(g, "loaded")
    /\ UNCHANGED <<active, kind, svc, conn, once, helper, pipeVars, windowVars>>

\* The other commands begin by looking the chat up.
Load(g) ==
    /\ kind[g] # "open" /\ cpc[g] = "received"
    /\ cs' = [cs EXCEPT ![g] = active]
    /\ Goto(g, IF active # None THEN "loaded"
               ELSE IF kind[g] = "message" THEN "respawn" ELSE "done")
    /\ UNCHANGED <<active, kind, svc, conn, once, helper, pipeVars, windowVars>>

\* What a command does to the pipe, and no other state.
Sends(g, m, to) ==
    /\ PipeSend(cs[g], m)
    /\ Goto(g, to)
    /\ UNCHANGED <<active, cs, kind, svc, conn, once, helper, toService, windowVars>>

NoPipe(g, to) ==
    /\ conn[cs[g]] # "open"
    /\ Goto(g, to)
    /\ UNCHANGED <<active, cs, kind, svc, conn, once, helper, pipeVars, windowVars>>

(* forwardChatMessage.                                                      *)
\* Fault: the return after a successful send is missing.
SendMessage_NoReturn(g) ==
    kind[g] = "message" /\ cpc[g] = "loaded" /\ Sends(g, g, "respawn")

SendMessage(g) == kind[g] = "message" /\ cpc[g] = "loaded" /\ Sends(g, g, "done")

\* conn is nil, or the write fails: the session is stopped.
MessageFails(g) ==
    /\ kind[g] = "message" /\ cpc[g] = "loaded"
    /\ conn[cs[g]] # "open" \/ helper[cs[g]] = "exited"
    /\ Goto(g, "stop")
    /\ UNCHANGED <<active, cs, kind, svc, conn, once, helper, pipeVars, windowVars>>

Respawn(g) ==
    /\ cpc[g] = "respawn"
    /\ \E s \in Session : startChat(s) /\ cs' = [cs EXCEPT ![g] = s]
    /\ Goto(g, "sleeping")
    /\ UNCHANGED kind

\* Two seconds later the chat is looked up again, and the pending message is
\* sent if there is a pipe by then.
LoadPending(g) ==
    /\ cpc[g] = "sleeping"
    /\ IF active = None THEN Goto(g, "done") /\ UNCHANGED cs
       ELSE Goto(g, "pending") /\ cs' = [cs EXCEPT ![g] = active]
    /\ UNCHANGED <<active, kind, svc, conn, once, helper, pipeVars, windowVars>>

SendPending(g) == cpc[g] = "pending" /\ (Sends(g, g, "done") \/ NoPipe(g, "done"))

\* forwardChatTyping, forwardChatFile, forwardRemoteRequest: sent or dropped.
Notice(g) ==
    /\ kind[g] = "notice" /\ cpc[g] = "loaded"
    /\ Sends(g, "notice", "done") \/ NoPipe(g, "done")

(* stopChat: the stop signal, if there is a pipe, and then stop.            *)
SignalStop(g) ==
    /\ kind[g] = "close" /\ cpc[g] = "loaded"
    /\ Sends(g, "stop", "stop") \/ NoPipe(g, "stop")

\* A message whose session is stopped goes on to open another.
StopSession(g) ==
    /\ \E to \in {"closing", "deleting", "over"} :
          /\ stop(cs[g], cpc[g], to)
          /\ Goto(g, IF to # "over" THEN to
                     ELSE IF kind[g] = "message" THEN "respawn" ELSE "done")
    /\ UNCHANGED <<cs, kind, svc, helper, pipeVars, windowVars>>

handleCommand(g) ==
    \/ OpenChat(g) \/ SpawnFails(g) \/ Load(g)
    \/ SendMessage(g) \/ MessageFails(g) \/ Respawn(g)
    \/ LoadPending(g) \/ SendPending(g)
    \/ Notice(g) \/ SignalStop(g) \/ StopSession(g)

-----------------------------------------------------------------------------
(* The accept goroutine of startChat.                                       *)
\* It moves on and changes nothing else.
Serve(s, from, to) == svc[s] = from /\ svc' = [svc EXCEPT ![s] = to]

Idle == UNCHANGED <<active, cmdVars, conn, once, helper, pipeVars, windowVars>>

Accept(s) ==
    /\ conn[s] = "queued" /\ Serve(s, "accepting", "accepted")
    /\ conn' = [conn EXCEPT ![s] = "open"]
    /\ UNCHANGED <<active, cmdVars, once, helper, pipeVars, windowVars>>

AcceptTimeout(s) == Serve(s, "accepting", "returning") /\ Idle

SendInit(s) ==
    /\ Serve(s, "accepted", "relaying")
    /\ PipeSend(s, "init") \/ (conn[s] # "open" /\ UNCHANGED toHelper)
    /\ UNCHANGED <<active, cmdVars, conn, once, helper, toService, windowVars>>

(* relayFromHelper: stopCh is looked at before each read, which waits three *)
(* seconds at most.                                                         *)
RelayStop(s) == stopped(s) /\ Serve(s, "relaying", "returning") /\ Idle

BeginRead(s) == ~stopped(s) /\ Serve(s, "relaying", "reading") /\ Idle

\* Fault: a helper that is gone is not noticed.
PipeDead_HalfOpen(s) == conn[s] = "closed"

\* A read of the pipe fails; a reset may take the unread messages with it.
PipeDead(s) == conn[s] = "closed" \/ helper[s] = "exited"

ReadTimeout(s) ==
    /\ toService[s] = <<>> /\ ~PipeDead(s)
    /\ Serve(s, "reading", "relaying") /\ Idle

\* What the user typed, or a chat_closed, goes on to the server (cmdWSSend).
RelayMessage(s) ==
    /\ toService[s] # <<>> /\ conn[s] = "open" /\ Serve(s, "reading", "relaying")
    /\ toService' = [toService EXCEPT ![s] = Tail(@)]
    /\ UNCHANGED <<active, cmdVars, conn, once, helper, toHelper, windowVars>>

\* The read fails: user_closed is sent to the server, and the relay returns.
RelayError(s) == PipeDead(s) /\ Serve(s, "reading", "reporting") /\ Idle
ReportClosed(s) == Serve(s, "reporting", "returning") /\ Idle

(* The deferred calls: ln.Close, and then stop.                             *)
CloseListener(s) == Serve(s, "returning", "stop") /\ Idle

DeferredStop(s) ==
    /\ \E to \in {"closing", "deleting", "over"} :
          stop(s, svc[s], to) /\ svc' = [svc EXCEPT ![s] = IF to = "over" THEN "ended" ELSE to]
    /\ UNCHANGED <<cmdVars, helper, pipeVars, windowVars>>

Service(s) ==
    \/ Accept(s) \/ AcceptTimeout(s) \/ SendInit(s)
    \/ RelayStop(s) \/ BeginRead(s) \/ ReadTimeout(s) \/ RelayMessage(s)
    \/ RelayError(s) \/ ReportClosed(s) \/ CloseListener(s) \/ DeferredStop(s)

-----------------------------------------------------------------------------
(* runChatHelperMode, in the helper process.                                *)
Become(s, h) == helper' = [helper EXCEPT ![s] = h]

\* The listener is open until the accept goroutine returns.
Listening(s) == svc[s] \notin {"stop", "closing", "deleting", "ended"}

Dial(s) ==
    /\ helper[s] = "dialing" /\ Listening(s)
    /\ Become(s, "connected")
    /\ conn' = [conn EXCEPT ![s] = "queued"]
    /\ UNCHANGED <<active, cmdVars, svc, once, pipeVars, windowVars>>

DialFails(s) ==
    /\ helper[s] = "dialing" /\ ~Listening(s)
    /\ Become(s, "exited")
    /\ UNCHANGED <<active, cmdVars, svc, conn, once, pipeVars, windowVars>>

\* The far end of the pipe is gone: closed, or never accepted.
FarEndGone(s) == conn[s] = "closed" \/ (conn[s] = "queued" /\ ~Listening(s))

\* The first message is taken for the init message whatever it is; without
\* one the window opens all the same.
AwaitInit(s) ==
    /\ helper[s] = "connected"
    /\ \/ toHelper[s] # <<>> /\ toHelper' = [toHelper EXCEPT ![s] = Tail(@)]
       \/ FarEndGone(s) /\ UNCHANGED toHelper
    /\ Become(s, "up")
    /\ UNCHANGED <<active, cmdVars, svc, conn, once, toService, windowVars>>

\* The reader goroutine: messages are shown, notices displayed, a late init
\* ignored; the stop signal ends the window.
ReadPipe(s) ==
    /\ helper[s] = "up" /\ toHelper[s] # <<>>
    /\ LET m == Head(toHelper[s]) IN
       /\ shown' = IF m \in Cmd THEN [shown EXCEPT ![s] = Append(@, m)] ELSE shown
       /\ Become(s, IF m = "stop" THEN "exited" ELSE "up")
    /\ toHelper' = [toHelper EXCEPT ![s] = Tail(@)]
    /\ UNCHANGED <<active, cmdVars, svc, conn, once, toService, typed>>

\* Fault: a read error after the init message does not end the window.
ReadFails_NotClosed(s) ==
    /\ helper[s] = "up" /\ conn[s] = "queued" /\ ~Listening(s)
    /\ Become(s, "exited")
    /\ UNCHANGED <<active, cmdVars, svc, conn, once, pipeVars, windowVars>>

ReadFails(s) ==
    /\ helper[s] = "up" /\ FarEndGone(s)
    /\ Become(s, "exited")
    /\ UNCHANGED <<active, cmdVars, svc, conn, once, pipeVars, windowVars>>

Terminate(s) ==
    /\ helper[s] = "closing"
    /\ Become(s, "exited")
    /\ UNCHANGED <<active, cmdVars, svc, conn, once, pipeVars, windowVars>>

Helper(s) ==
    Dial(s) \/ DialFails(s) \/ AwaitInit(s) \/ ReadPipe(s) \/ ReadFails(s) \/ Terminate(s)

(* goChatSend: the user types, or closes the window.                        *)
goChatSend(s, m) ==
    toService' = IF FarEndGone(s) THEN toService
                 ELSE [toService EXCEPT ![s] = Append(@, m)]

UserTypes(s) ==
    /\ helper[s] = "up" /\ typed < MaxUser
    /\ typed' = typed + 1
    /\ goChatSend(s, "message")
    /\ UNCHANGED <<active, cmdVars, svc, conn, once, helper, toHelper, shown>>

UserCloses(s) ==
    /\ helper[s] = "up"
    /\ goChatSend(s, "closed")
    /\ Become(s, "closing")
    /\ UNCHANGED <<active, cmdVars, svc, conn, once, toHelper, windowVars>>

\* The user logs off, or the process dies.
HelperDies(s) ==
    /\ helper[s] \in {"dialing", "connected", "up"}
    /\ Become(s, "exited")
    /\ UNCHANGED <<active, cmdVars, svc, conn, once, pipeVars, windowVars>>

User(s) == UserTypes(s) \/ UserCloses(s) \/ HelperDies(s)

-----------------------------------------------------------------------------
Next ==
    \/ \E g \in Cmd : handleCommand(g)
    \/ \E s \in Session : Service(s) \/ Helper(s) \/ User(s)

Spec == Init /\ [][Next]_vars

\* Goroutines, timers and helper processes make progress; users owe nothing.
FairSpec ==
    /\ Spec
    /\ \A g \in Cmd : WF_vars(handleCommand(g))
    /\ \A s \in Session : WF_vars(Service(s)) /\ WF_vars(Helper(s))
-----------------------------------------------------------------------------
TypeOK ==
    /\ active \in Session \cup {None}
    /\ cpc \in [Cmd -> {"received", "loaded", "respawn", "sleeping", "pending",
                       "stop", "closing", "deleting", "done"}]
    /\ cs \in [Cmd -> Session \cup {None}]
    /\ \A g \in Cmd :
          cpc[g] \in {"loaded", "sleeping", "pending", "stop", "closing", "deleting"}
              => cs[g] # None
    /\ \A g \in Cmd : kind[g] \in KindOf[g]
    /\ svc \in [Session -> {"none", "accepting", "accepted", "relaying", "reading", "reporting",
                            "returning", "stop", "closing", "deleting", "ended"}]
    /\ conn \in [Session -> {"nil", "queued", "open", "closed"}]
    /\ once \in [Session -> {"no", "running", "done"}]
    /\ helper \in [Session -> {"none", "dialing", "connected", "up", "closing", "exited"}]
    /\ toHelper \in [Session -> Seq(Cmd \cup {"init", "notice", "stop"})]
    /\ toService \in [Session -> Seq({"message", "closed"})]
    /\ shown \in [Session -> Seq(Cmd)]
    /\ typed \in 0 .. MaxUser

\* The map never leads a command to a session whose stop is over, although the
\* relay may have returned, stopCh and conn be closed, and stop delete the entry
\* of a session that has replaced its own: the entry is a session that its own
\* goroutine has still to stop, or one that some goroutine is stopping and
\* will delete.
Stopping(s) ==
    \/ svc[s] \in {"closing", "deleting"}
    \/ \E g \in Cmd : cs[g] = s /\ cpc[g] \in {"closing", "deleting"}

ActiveServed ==
    active # None =>
        \/ once[active] = "no" /\ svc[active] \notin {"none", "ended"}
        \/ once[active] = "running" /\ Stopping(active)

\* An operator message reaches the user at most once, over all windows of the
\* chat, although a message may be sent, fail, respawn a window and be sent
\* again by forwardChatMessage.
Copies(m) ==
    UNION {({s} \X {"pipe"} \X {i \in DOMAIN toHelper[s] : toHelper[s][i] = m})
           \cup ({s} \X {"window"} \X {i \in DOMAIN shown[s] : shown[s][i] = m})
             : s \in Session}

ShownOnce == \A m \in Cmd : Cardinality(Copies(m)) <= 1

\* A window that is gone is forgotten: its session stops and the map does not
\* keep it, so that the next message opens a new window.
DeadForgotten ==
    \A s \in Session : helper[s] = "exited" ~> (stopped(s) /\ active # s)

\* Once the service has closed the pipe of a window, the window goes away.
ClosedWindowGoes ==
    \A s \in Session : conn[s] = "closed" ~> helper[s] = "exited"
=============================================================================
