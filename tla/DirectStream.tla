---------------------------- MODULE DirectStream ----------------------------
(***************************************************************************)
(* A stream captured by the agent's own process (agent/stream.go, run):    *)
(* the capture loop with its inactivity timers, the input handler, and the *)
(* blocking of the local user's input, which all streams share.            *)
(*                                                                         *)
(* Time is counted by the two inactivity timers: idle is 0 while neither   *)
(* has expired, 1 after 9:30 and 2 after 10 minutes without input.  What   *)
(* frames hold, and which encoder makes them, is left out.                 *)
(***************************************************************************)
EXTENDS StreamSession

CONSTANTS
    MaxMessages,  \* bound: messages of the viewer in one session
    Queue         \* capacity of the channels (64 and 4 in the code)

ASSUME DirectConstants == MaxMessages \in Nat /\ Queue \in Nat \ {0}

VARIABLES
    idle,            \* expired inactivity timers
    warned,          \* warningSent
    inputCh,         \* length of inputCh, codecCh and monitorCh taken together
    blockCh,         \* contents of blockCh
    sent,            \* messages sent by the viewer
    inputIsBlocked,  \* the flag of input_windows.go
    blockedBy        \* the session whose thread has blocked the user's input

timerVars == <<idle, warned>>
queueVars == <<inputCh, blockCh, sent>>
blockVars == <<inputIsBlocked, blockedBy>>
directVars == <<timerVars, queueVars, blockVars>>
vars == <<sessionVars, directVars>>

Init ==
    /\ SessionInit
    /\ idle = [s \in Session |-> 0]
    /\ warned = [s \in Session |-> FALSE]
    /\ inputCh = [s \in Session |-> 0]
    /\ blockCh = [s \in Session |-> <<>>]
    /\ sent = [s \in Session |-> 0]
    /\ inputIsBlocked = FALSE
    /\ blockedBy = None

-----------------------------------------------------------------------------
startStream(s) == (Dial(s) \/ DialFails(s)) /\ UNCHANGED directVars

\* captureInit fails: the viewer is told; or the dimensions are not valid.
CaptureFails(s) ==
    /\ Step(s, "start", "lastMessage") \/ Step(s, "start", "return")
    /\ UNCHANGED directVars

SendInit(s) ==
    /\ IF CanWrite(s) THEN StartLoop(s) ELSE WriteFails(s) /\ Step(s, "start", "return")
    /\ UNCHANGED directVars

(* The loop: one action per case of its select.                             *)
SeeStop(s) ==
    /\ stopCh[s] /\ Step(s, "loop", "return")
    /\ UNCHANGED directVars

\* Fault: the warning restarts the timers.
Warn_Resets(s) ==
    /\ idle[s] >= 1 /\ ~warned[s]
    /\ idle' = [idle EXCEPT ![s] = 0]
    /\ Step(s, "loop", "message")
    /\ UNCHANGED <<warned, queueVars, blockVars>>

Warn(s) ==
    /\ idle[s] >= 1 /\ ~warned[s]
    /\ warned' = [warned EXCEPT ![s] = TRUE]
    /\ Step(s, "loop", "message")
    /\ UNCHANGED <<idle, queueVars, blockVars>>

IdleTimeout(s) ==
    /\ idle[s] = 2
    /\ Step(s, "loop", "lastMessage")
    /\ UNCHANGED directVars

resetIdleTimer(s) ==
    /\ idle' = [idle EXCEPT ![s] = 0]
    /\ warned' = [warned EXCEPT ![s] = FALSE]

\* Input is injected, or the monitor or codec switched and the viewer answered;
\* unlike a request to block the user's input, all of them restart the timers.
Input(s) ==
    /\ inputCh[s] > 0
    /\ inputCh' = [inputCh EXCEPT ![s] = @ - 1]
    /\ resetIdleTimer(s)
    /\ Step(s, "loop", "loop") \/ Step(s, "loop", "message")
    /\ UNCHANGED <<blockCh, sent, blockVars>>

\* BlockInput: only the thread that blocked the input can unblock it.
inputBlock(s, block) ==
    /\ inputIsBlocked' = block
    /\ blockedBy' = CASE block /\ blockedBy = None -> s
                      [] ~block /\ blockedBy = s -> None
                      [] OTHER -> blockedBy

Block(s) ==
    /\ blockCh[s] # <<>>
    /\ inputBlock(s, Head(blockCh[s]))
    /\ blockCh' = [blockCh EXCEPT ![s] = Tail(@)]
    /\ Step(s, "loop", "message")
    /\ UNCHANGED <<timerVars, inputCh, sent>>

\* A tick of the frame timer: nothing to send, a frame, or a resolution that
\* has changed.
Frame(s) ==
    /\ Step(s, "loop", "frame") \/ Step(s, "loop", "return")
    /\ UNCHANGED directVars

(* Writes of the loop: an error ends it only after a frame.                 *)
SendFrame(s) ==
    /\ Step(s, "frame", IF CanWrite(s) THEN "loop" ELSE "return") /\ Written(s)
    /\ UNCHANGED directVars

SendMessage(s) ==
    /\ Step(s, "message", "loop") /\ Written(s)
    /\ UNCHANGED directVars

SendLast(s) ==
    /\ Step(s, "lastMessage", "return") /\ Written(s)
    /\ UNCHANGED directVars

(* The deferred calls, last one first: the thread is unlocked before        *)
(* inputUnblock runs, so the goroutine may have changed its thread by then; *)
(* stop comes last.                                                         *)
\* Fault: stop is not deferred.
inputUnblock_NoStop(s) == Step(s, "return", "ended") /\ UNCHANGED directVars

inputUnblock(s) ==
    /\ Step(s, "return", "stop")
    /\ inputIsBlocked' = FALSE
    /\ \/ blockedBy' = IF inputIsBlocked /\ blockedBy = s THEN None ELSE blockedBy
       \/ inputIsBlocked /\ UNCHANGED blockedBy
    /\ UNCHANGED <<timerVars, queueVars>>

run(s) ==
    \/ CaptureFails(s) \/ SendInit(s)
    \/ SeeStop(s) \/ Warn(s) \/ IdleTimeout(s) \/ Input(s) \/ Block(s) \/ Frame(s)
    \/ SendFrame(s) \/ SendMessage(s) \/ SendLast(s) \/ inputUnblock(s)

(* The reader goroutine queues what the viewer sends, or drops it.          *)
\* Fault: nothing is dropped.
Queued_Unbounded(s) ==
    /\ inputCh' = [inputCh EXCEPT ![s] = @ + 1]
    /\ UNCHANGED blockCh

Queued(s) ==
    \/ /\ inputCh' = [inputCh EXCEPT ![s] = IF @ < Queue THEN @ + 1 ELSE @]
       /\ UNCHANGED blockCh
    \/ /\ \E b \in BOOLEAN :
             blockCh' = [blockCh EXCEPT ![s] = IF Len(@) < Queue THEN Append(@, b) ELSE @]
       /\ UNCHANGED inputCh

ViewerSends(s) ==
    /\ pc[Reader(s)] = "reading" /\ sock[s] = "open" /\ peer[s] # "gone"
    /\ sent[s] < MaxMessages
    /\ sent' = [sent EXCEPT ![s] = @ + 1]
    /\ Queued(s)
    /\ UNCHANGED <<sessionVars, timerVars, blockVars>>

\* An inactivity timer expires, whether or not the loop is at its select; but
\* thirty seconds are enough for the loop to take the warning, unless a
\* stalled write holds it up.
Expire(s) ==
    /\ pc[Run(s)] \in {"loop", "frame", "message"} /\ idle[s] < 2
    /\ idle[s] = 1 => warned[s] \/ (pc[Run(s)] # "loop" /\ peer[s] = "stalled")
    /\ idle' = [idle EXCEPT ![s] = @ + 1]
    /\ UNCHANGED <<sessionVars, warned, queueVars, blockVars>>

Next ==
    \/ SharedNext /\ UNCHANGED directVars
    \/ \E s \in Session : startStream(s) \/ run(s) \/ ViewerSends(s) \/ Expire(s)

Spec == Init /\ [][Next]_vars

Writes(s) == SendInit(s) \/ SendFrame(s) \/ SendMessage(s) \/ SendLast(s)

\* The select is fair to an expired timer and to a closed stopCh.
LoopRuns(s) ==
    /\ WF_vars(run(s)) /\ SF_vars(Writes(s)) /\ WF_vars(Expire(s))
    /\ SF_vars(SeeStop(s)) /\ SF_vars(Warn(s)) /\ SF_vars(IdleTimeout(s))

FairSpec == Spec /\ SharedFairness /\ \A s \in Session : LoopRuns(s)
-----------------------------------------------------------------------------
\* The writes of the loop belong to the loop, and the last one to its end.
AbstractPlace(l) ==
    IF l \in {"frame", "message"} THEN "loop" ELSE IF l = "lastMessage" THEN "return" ELSE l

AbstractPc == [p \in DOMAIN pc |-> AbstractPlace(pc[p])]

Abstract == INSTANCE StreamSession WITH pc <- AbstractPc

\* The run of stream.go keeps to the life cycle that stop, the map and the two
\* other goroutines rely on.
ImplementsSession == Abstract!SessionSpec

TypeOK ==
    /\ Abstract!SessionTypeOK
    /\ idle \in [Session -> 0 .. 2]
    /\ warned \in [Session -> BOOLEAN]
    /\ inputCh \in [Session -> 0 .. Queue]
    /\ blockCh \in [Session -> Seq(BOOLEAN)]
    /\ \A s \in Session : Len(blockCh[s]) <= Queue
    /\ sent \in [Session -> 0 .. MaxMessages]
    /\ inputIsBlocked \in BOOLEAN
    /\ blockedBy \in Session \cup {None}

\* "always unblock input when stream ends": the local user's input is not left
\* blocked by a stream that is over.
UnblockedAtEnd == \A s \in Session : pc[Run(s)] = "ended" => blockedBy # s

\* "10 minutes": a stream whose viewer falls silent is disconnected.
IdleEnds == \A s \in Session : pc[Run(s)] = "loop" ~> pc[Run(s)] = "ended"
=============================================================================
