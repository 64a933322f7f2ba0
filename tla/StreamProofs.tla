---------------------------- MODULE StreamProofs ----------------------------
(***************************************************************************)
(* Proofs about StreamSession, for any sessions, close commands and        *)
(* assignment of tokens.  The argument rests on who may call stop: nobody  *)
(* knows a session before it is stored (Early), and from then on the once  *)
(* lets a single goroutine into the body (Exclusive).                      *)
(***************************************************************************)
EXTENDS StreamSession, TLAPS

Place == {"dial", "dialled", "start", "loop", "return", "none", "idle", "reading",
          "received", "stop", "closing", "deleting", "ended"}

\* The types SessionTypeOK leaves out.
Domains ==
    /\ SessionTypeOK
    /\ pc \in [Goroutine \cup Closer -> Place]

\* A session that has not been stored is known to its own goroutine only, which
\* has not come to stop; the two others start with the loop.
Early ==
    \A s \in Session :
        /\ pc[Run(s)] \in {"dial", "dialled", "start"} =>
              pc[Keepalive(s)] = "none" /\ pc[Reader(s)] = "none"
        /\ pc[Run(s)] \in {"dial", "dialled"} =>
              /\ once[s] = "no"
              /\ \A c \in Closer : found[c] # s
              /\ \A t \in Token : activeStreams[t] # s

\* An entry leads to a session of its token whose stop is not over.
Entries ==
    \A t \in Token : activeStreams[t] # None =>
        TokenOf[activeStreams[t]] = t /\ once[activeStreams[t]] # "done"

\* A running session has its entry, unless another of its token was stored.
Found ==
    \A s \in Session :
        Running(s) => \/ activeStreams[TokenOf[s]] = s
                      \/ \E r \in Session \ {s} :
                            /\ TokenOf[r] = TokenOf[s]
                            /\ pc[Run(r)] \notin {"dial", "dialled"}

\* One goroutine at most is in the body of stop.
Exclusive ==
    \A s \in Session :
        /\ \A p, q \in Goroutine \cup Closer :
              Stopping(p, s) /\ Stopping(q, s) => p = q
        /\ once[s] = "running" <=> \E p \in Goroutine \cup Closer : Stopping(p, s)

\* The connection is closed before the entry goes.
Closed ==
    \A s \in Session :
        /\ once[s] = "done" => sock[s] = "closed"
        /\ \A p \in Goroutine \cup Closer :
              Stopping(p, s) /\ pc[p] = "deleting" => sock[s] = "closed"

IInv == Domains /\ Early /\ Entries /\ Found /\ Exclusive /\ Closed

\* The goroutines that may call stop for s.
Caller(p, s) ==
    p \in {Run(s), Keepalive(s), Reader(s)} \/ (p \in Closer /\ found[p] = s)
-----------------------------------------------------------------------------
LEMMA Apart ==
    ASSUME SessionConstants, NEW s \in Session
    PROVE  /\ Run(s) \in Goroutine /\ Keepalive(s) \in Goroutine /\ Reader(s) \in Goroutine
           /\ Run(s) # Keepalive(s) /\ Run(s) # Reader(s) /\ Keepalive(s) # Reader(s)
           /\ TokenOf[s] \in Token
           /\ \A r \in Session : r # s => /\ Run(s) \notin {Run(r), Keepalive(r), Reader(r)}
                                          /\ Keepalive(s) \notin {Run(r), Keepalive(r), Reader(r)}
                                          /\ Reader(s) \notin {Run(r), Keepalive(r), Reader(r)}
           /\ s # None
           /\ \A p \in Goroutine : p \notin Closer
           /\ \A p \in Goroutine : p[1] = s => p \in {Run(s), Keepalive(s), Reader(s)}
           /\ Run(s)[1] = s /\ Keepalive(s)[1] = s /\ Reader(s)[1] = s
BY DEF SessionConstants, Run, Keepalive, Reader, Goroutine, Token

LEMMA InitInv == SessionConstants /\ SessionInit => IInv
<1> SUFFICES ASSUME SessionConstants, SessionInit PROVE IInv
    OBVIOUS
<1>1. pc \in [Goroutine \cup Closer -> Place]
    BY DEF SessionInit, Place
<1>2. \A s \in Session : /\ pc[Run(s)] = "dial" /\ pc[Keepalive(s)] = "none" /\ pc[Reader(s)] = "none"
    BY Apart DEF SessionInit, Run, Keepalive, Reader
<1>3. \A c \in Closer : pc[c] = "received"
    BY DEF SessionInit
<1>4. \A p \in Goroutine \cup Closer : pc[p] \in {"dial", "none", "received"}
    BY DEF SessionInit
<1>5. Domains
    BY <1>1, <1>2, <1>3 DEF SessionInit, Domains, SessionTypeOK
<1>6. Early /\ Entries /\ Found
    BY <1>2 DEF SessionInit, Early, Entries, Found, Running, SessionConstants, Token
<1>7. Exclusive /\ Closed
    BY <1>4 DEF SessionInit, Exclusive, Closed, Stopping
<1>8. QED
    BY <1>5, <1>6, <1>7 DEF IInv
-----------------------------------------------------------------------------
(* The kinds of step.                                                       *)
\* One goroutine of s moves, and does nothing else.
QuietMove(s) ==
    /\ UNCHANGED <<activeStreams, found, stopCh, once, sock, peer>>
    /\ \/ \E m \in {<<"dial", "ended">>, <<"start", "return">>,
                      <<"loop", "return">>, <<"return", "stop">>} :
             pc[Run(s)] = m[1] /\ Goto(Run(s), m[2])
       \/ \E to \in {"stop", "ended"} : pc[Keepalive(s)] = "idle" /\ Goto(Keepalive(s), to)
       \/ pc[Reader(s)] = "reading" /\ Goto(Reader(s), "stop")

\* Nothing but the far end of a connection changes, if anything does.
NetMove ==
    /\ UNCHANGED <<activeStreams, pc, found, stopCh, once, sock>>
    /\ peer' \in [Session -> {"reading", "stalled", "gone"}]

Kinds ==
    \/ \E s \in Session, p \in Goroutine \cup Closer : Caller(p, s) /\ stop(p, s)
    \/ \E c \in Closer : LoadStream(c)
    \/ \E s \in Session : Store(s) \/ Dial(s) \/ StartLoop(s) \/ QuietMove(s)
    \/ NetMove

SharedMoves ==
    \/ \E s \in Session, p \in Goroutine \cup Closer : Caller(p, s) /\ stop(p, s)
    \/ \E c \in Closer : LoadStream(c)
    \/ \E s \in Session : Store(s) \/ QuietMove(s)
    \/ NetMove

LEMMA SharedKinds ==
    ASSUME SessionConstants, found \in [Closer -> Session \cup {None}],
           peer \in [Session -> {"reading", "stalled", "gone"}], SharedNext
    PROVE  SharedMoves
<1>1. ASSUME NEW c \in Closer, stopStream(c) PROVE SharedMoves
    <2>1. CASE LoadStream(c)
        BY <2>1 DEF SharedMoves
    <2>2. CASE found[c] # None /\ stop(c, found[c])
        <3>1. found[c] \in Session /\ Caller(c, found[c])
            BY <1>1, <2>2 DEF Caller
        <3>2. QED
            BY <2>2, <3>1 DEF SharedMoves
    <2>3. QED
        BY <1>1, <2>1, <2>2 DEF stopStream
<1>2. ASSUME NEW s \in Session PROVE SharedNext!2!(s) => SharedMoves
    <2>1. /\ Run(s) \in Goroutine /\ Keepalive(s) \in Goroutine /\ Reader(s) \in Goroutine
          /\ Caller(Run(s), s) /\ Caller(Keepalive(s), s) /\ Caller(Reader(s), s)
        BY Apart DEF Caller
    <2>2. stop(Run(s), s) \/ stop(Keepalive(s), s) \/ stop(Reader(s), s) => SharedMoves
        BY <2>1 DEF SharedMoves
    <2>3. KeepaliveEnds(s) \/ PingFails(s) \/ ReadFails(s) \/ CloseFrame(s) => QuietMove(s)
        BY DEF KeepaliveEnds, PingFails, ReadFails, CloseFrame, QuietMove
    <2>4. Stall(s) \/ Resume(s) \/ Lose(s) => NetMove
        BY DEF Stall, Resume, Lose, NetMove
    <2>5. QED
        BY <2>2, <2>3, <2>4 DEF keepalive, reader, SharedMoves
<1>3. QED
    BY <1>1, <1>2 DEF SharedNext

LEMMA StepKinds ==
    ASSUME SessionConstants, SessionTypeOK, [SessionNext]_sessionVars
    PROVE  Kinds
<1>1. CASE SharedNext
    BY <1>1, SharedKinds DEF SessionTypeOK, SharedMoves, Kinds
<1>2. ASSUME NEW s \in Session, RunStep(s) PROVE Kinds
    <2>1. DialFails(s) => QuietMove(s)
        <3>1. <<"dial", "ended">>[1] = "dial" /\ <<"dial", "ended">>[2] = "ended"
            OBVIOUS
        <3>2. QED
            BY <3>1 DEF DialFails, QuietMove
    <2>2. ASSUME NEW m \in {<<"start", "return">>, <<"loop", "return">>, <<"return", "stop">>},
                 Step(s, m[1], m[2])
          PROVE  QuietMove(s)
        BY <2>2 DEF Step, QuietMove
    <2>3. Step(s, "start", "return") \/ Step(s, "loop", "return") \/ Step(s, "return", "stop")
             => QuietMove(s)
        BY <2>2
    <2>4. QED
        BY <1>2, <2>1, <2>3 DEF RunStep, Kinds
<1>3. CASE UNCHANGED sessionVars
    BY <1>3 DEF sessionVars, Kinds, NetMove, SessionTypeOK
<1>4. QED
    BY <1>1, <1>2, <1>3 DEF SessionNext
-----------------------------------------------------------------------------
(* The steps of stop.                                                       *)
\* What a step of p inside stop does to the places, and to who is stopping.
LEMMA StopMoves ==
    ASSUME SessionConstants, IInv, NEW s \in Session, NEW p \in Goroutine \cup Closer,
           Caller(p, s), pc[p] \in {"stop", "closing", "deleting"},
           NEW l \in {"closing", "deleting", "ended"}, Goto(p, l), UNCHANGED found
    PROVE  /\ pc' \in [Goroutine \cup Closer -> Place]
           /\ pc'[p] = l
           /\ \A q \in (Goroutine \cup Closer) \ {p} : pc'[q] = pc[q]
           /\ pc[Run(s)] \notin {"dial", "dialled"}
           /\ \A r \in Session : r # s => p \notin {Run(r), Keepalive(r), Reader(r)}
           /\ \A r \in Session : pc'[Run(r)] \in {"dial", "dialled"} <=>
                                 pc[Run(r)] \in {"dial", "dialled"}
           /\ Stopping(p, s) <=> pc[p] \in {"closing", "deleting"}
           /\ Stopping(p, s)' <=> l \in {"closing", "deleting"}
           /\ \A r \in Session : r # s => ~Stopping(p, r) /\ ~Stopping(p, r)'
           /\ \A q \in Goroutine \cup Closer, r \in Session :
                  q # p => (Stopping(q, r)' <=> Stopping(q, r))
<1>1. /\ pc' \in [Goroutine \cup Closer -> Place]
      /\ pc'[p] = l
      /\ \A q \in (Goroutine \cup Closer) \ {p} : pc'[q] = pc[q]
    BY DEF IInv, Domains, Goto, Place
<1>2. pc[Run(s)] \notin {"dial", "dialled"}
    BY Apart DEF IInv, Early, Caller
<1>3. \A r \in Session : r # s => p \notin {Run(r), Keepalive(r), Reader(r)}
    BY Apart DEF Caller
<1>4. \A r \in Session : pc'[Run(r)] \in {"dial", "dialled"} <=>
                         pc[Run(r)] \in {"dial", "dialled"}
    BY <1>1, Apart
<1>5. IF p \in Closer THEN found[p] = s ELSE p[1] = s
    BY Apart DEF Caller
<1>6. /\ Stopping(p, s) <=> pc[p] \in {"closing", "deleting"}
      /\ Stopping(p, s)' <=> l \in {"closing", "deleting"}
    BY <1>1, <1>5 DEF Stopping
<1>7. \A r \in Session : r # s => ~Stopping(p, r) /\ ~Stopping(p, r)'
    BY <1>5 DEF Stopping
<1>8. \A q \in Goroutine \cup Closer, r \in Session :
         q # p => (Stopping(q, r)' <=> Stopping(q, r))
    BY <1>1 DEF Stopping
<1>9. QED
    BY <1>1, <1>2, <1>3, <1>4, <1>6, <1>7, <1>8

\* The places keep their types.
LEMMA StopTypes ==
    ASSUME SessionConstants, IInv, NEW s \in Session, NEW p \in Goroutine \cup Closer,
           Caller(p, s), pc[p] \in {"stop", "closing", "deleting"},
           NEW l \in {"closing", "deleting", "ended"}, Goto(p, l), UNCHANGED found
    PROVE  /\ \A c \in Closer : pc'[c] \in {"received", "stop", "closing", "deleting", "ended"}
           /\ \A r \in Session :
                 /\ pc'[Run(r)] \in {"dial", "dialled", "start", "loop", "return",
                                     "stop", "closing", "deleting", "ended"}
                 /\ pc'[Keepalive(r)] \in {"none", "idle", "stop", "closing", "deleting", "ended"}
                 /\ pc'[Reader(r)] \in {"none", "reading", "stop", "closing", "deleting", "ended"}
           /\ \A c \in Closer : pc'[c] \in {"stop", "closing", "deleting"} => found'[c] # None
<1>1. /\ pc'[p] = l
      /\ \A q \in (Goroutine \cup Closer) \ {p} : pc'[q] = pc[q]
    BY StopMoves
<1>2. SessionTypeOK
    BY DEF IInv, Domains
<1>3. \A c \in Closer : /\ pc'[c] \in {"received", "stop", "closing", "deleting", "ended"}
                        /\ pc'[c] \in {"stop", "closing", "deleting"} => found'[c] # None
    BY <1>1, <1>2 DEF SessionTypeOK
<1>4. ASSUME NEW r \in Session
      PROVE  /\ pc'[Run(r)] \in {"dial", "dialled", "start", "loop", "return",
                                 "stop", "closing", "deleting", "ended"}
             /\ pc'[Keepalive(r)] \in {"none", "idle", "stop", "closing", "deleting", "ended"}
             /\ pc'[Reader(r)] \in {"none", "reading", "stop", "closing", "deleting", "ended"}
    <2>1. /\ Run(r) \in Goroutine \cup Closer /\ Keepalive(r) \in Goroutine \cup Closer
          /\ Reader(r) \in Goroutine \cup Closer
        BY Apart
    <2>2. /\ pc[Run(r)] \in {"dial", "dialled", "start", "loop", "return",
                             "stop", "closing", "deleting", "ended"}
          /\ pc[Keepalive(r)] \in {"none", "idle", "stop", "closing", "deleting", "ended"}
          /\ pc[Reader(r)] \in {"none", "reading", "stop", "closing", "deleting", "ended"}
        BY <1>2 DEF SessionTypeOK
    <2>3. QED
        BY <1>1, <2>1, <2>2
<1>5. QED
    BY <1>3, <1>4

LEMMA CloseStopChStep ==
    ASSUME SessionConstants, IInv, NEW s \in Session, NEW p \in Goroutine \cup Closer,
           Caller(p, s), CloseStopCh(p, s)
    PROVE  IInv'
<1>. pc[p] \in {"stop", "closing", "deleting"} /\ "closing" \in {"closing", "deleting", "ended"}
     /\ Goto(p, "closing") /\ UNCHANGED found /\ once[s] = "no"
    BY DEF CloseStopCh
<1>. HIDE DEF Caller
<1>1. Domains'
    BY StopMoves, StopTypes DEF CloseStopCh, IInv, Domains, SessionTypeOK
<1>2. Early'
    <2>1. /\ pc'[p] = "closing" /\ pc[Run(s)] \notin {"dial", "dialled"}
          /\ \A q \in (Goroutine \cup Closer) \ {p} : pc'[q] = pc[q]
        BY StopMoves
    <2>2. ASSUME NEW r \in Session, pc'[Run(r)] \in {"dial", "dialled", "start"}
          PROVE  pc'[Run(r)] = pc[Run(r)] /\ pc'[Keepalive(r)] = "none" /\ pc'[Reader(r)] = "none"
        <3>1. Run(r) # p /\ pc'[Run(r)] = pc[Run(r)]
            BY <2>1, <2>2, Apart
        <3>2. pc[Keepalive(r)] = "none" /\ pc[Reader(r)] = "none"
            BY <2>2, <3>1 DEF IInv, Early
        <3>. QED BY <2>1, <3>1, <3>2, Apart
    <2>3. ASSUME NEW r \in Session, pc'[Run(r)] \in {"dial", "dialled"}
          PROVE  /\ once'[r] = "no" /\ \A c \in Closer : found'[c] # r
                 /\ \A t \in Token : activeStreams'[t] # r
        <3>1. pc[Run(r)] \in {"dial", "dialled"}
            BY <2>2, <2>3
        <3>2. /\ once[r] = "no" /\ \A c \in Closer : found[c] # r
              /\ \A t \in Token : activeStreams[t] # r
            BY <3>1 DEF IInv, Early
        <3>3. r # s /\ once \in [Session -> {"no", "running", "done"}]
            BY <2>1, <3>1 DEF IInv, Domains, SessionTypeOK
        <3>. QED BY <3>2, <3>3 DEF CloseStopCh
    <2>. QED BY <2>2, <2>3 DEF Early
<1>3. Entries'
    BY DEF CloseStopCh, IInv, Entries, Domains, SessionTypeOK
<1>4. Found'
    BY StopMoves, Apart DEF CloseStopCh, IInv, Found, Running, Domains, SessionTypeOK
<1>5. Exclusive'
    <2>1. \A q \in Goroutine \cup Closer : ~Stopping(q, s)
        BY DEF IInv, Exclusive
    <2>2. once' = [once EXCEPT ![s] = "running"] /\ once \in [Session -> {"no", "running", "done"}]
        BY DEF CloseStopCh, IInv, Domains, SessionTypeOK
    <2>3. QED
        BY <2>1, <2>2, StopMoves DEF IInv, Exclusive
<1>6. Closed'
    <2>1. \A q \in Goroutine \cup Closer : ~Stopping(q, s)
        BY DEF IInv, Exclusive
    <2>2. /\ once' = [once EXCEPT ![s] = "running"] /\ sock' = sock
          /\ once \in [Session -> {"no", "running", "done"}]
        BY DEF CloseStopCh, IInv, Domains, SessionTypeOK
    <2>3. QED
        BY <2>1, <2>2, StopMoves DEF IInv, Closed
<1>7. QED
    BY <1>1, <1>2, <1>3, <1>4, <1>5, <1>6 DEF IInv

LEMMA CloseSocketStep ==
    ASSUME SessionConstants, IInv, NEW s \in Session, NEW p \in Goroutine \cup Closer,
           Caller(p, s), CloseSocket(p, s)
    PROVE  IInv'
<1>. pc[p] \in {"stop", "closing", "deleting"} /\ "deleting" \in {"closing", "deleting", "ended"}
     /\ Goto(p, "deleting") /\ UNCHANGED <<found, once, activeStreams>> /\ pc[p] = "closing"
    BY DEF CloseSocket
<1>. sock' = [sock EXCEPT ![s] = "closed"] /\ sock \in [Session -> {"none", "open", "closed"}]
    BY DEF CloseSocket, IInv, Domains, SessionTypeOK
<1>. HIDE DEF Caller
<1>1. Domains'
    <2>1. SessionTypeOK
        BY DEF IInv, Domains
    <2>2. UNCHANGED <<activeStreams, found, stopCh, once, peer>> /\ sock' \in [Session -> {"none", "open", "closed"}]
        BY DEF CloseSocket
    <2>3. SessionTypeOK'
        BY <2>1, <2>2, StopTypes DEF SessionTypeOK
    <2>. QED BY <2>3, StopMoves DEF Domains
<1>2. Early'
    BY StopMoves, Apart DEF IInv, Early
<1>3. Entries'
    BY DEF IInv, Entries
<1>4. Found'
    <2>1. \A r \in Session : Running(r)' => Running(r)
        <3>1. once[s] = "running"
            BY StopMoves DEF IInv, Exclusive
        <3>2. QED
            BY <3>1, StopMoves, Apart DEF Running
    <2>2. QED
        BY <2>1, StopMoves DEF IInv, Found
<1>5. Exclusive'
    BY StopMoves DEF IInv, Exclusive
<1>6. Closed'
    BY StopMoves DEF IInv, Closed
<1>7. QED
    BY <1>1, <1>2, <1>3, <1>4, <1>5, <1>6 DEF IInv

LEMMA ForgetStep ==
    ASSUME SessionConstants, IInv, NEW s \in Session, NEW p \in Goroutine \cup Closer,
           Caller(p, s), Forget(p, s)
    PROVE  IInv'
<1>. pc[p] \in {"stop", "closing", "deleting"} /\ "ended" \in {"closing", "deleting", "ended"}
     /\ Goto(p, "ended") /\ UNCHANGED <<found, sock>> /\ pc[p] = "deleting"
    BY DEF Forget
<1>. once' = [once EXCEPT ![s] = "done"] /\ once \in [Session -> {"no", "running", "done"}]
    BY DEF Forget, IInv, Domains, SessionTypeOK
<1>. activeStreams' = [activeStreams EXCEPT ![TokenOf[s]] = None]
     /\ activeStreams \in [Token -> Session \cup {None}] /\ TokenOf[s] \in Token
    BY Apart DEF Forget, IInv, Domains, SessionTypeOK
<1>. HIDE DEF Caller
<1>1. Stopping(p, s) /\ once[s] = "running"
    BY StopMoves DEF IInv, Exclusive
<1>2. Domains'
    <2>1. SessionTypeOK
        BY DEF IInv, Domains
    <2>2. /\ UNCHANGED <<found, stopCh, sock, peer>>
          /\ activeStreams' = [activeStreams EXCEPT ![TokenOf[s]] = None]
          /\ once' = [once EXCEPT ![s] = "done"]
        BY DEF Forget
    <2>3. /\ activeStreams' \in [Token -> Session \cup {None}]
          /\ once' \in [Session -> {"no", "running", "done"}]
        BY <2>1, <2>2 DEF SessionTypeOK
    <2>4. SessionTypeOK'
        BY <2>1, <2>2, <2>3, StopTypes DEF SessionTypeOK
    <2>. QED BY <2>4, StopMoves DEF Domains
<1>3. Early'
    BY StopMoves, Apart DEF IInv, Early
<1>4. Entries'
    BY Apart DEF IInv, Entries
\* The entry that goes was of s's token; s itself is past Store.
<1>5. Found'
    <2> SUFFICES ASSUME NEW r \in Session, Running(r)',
                        activeStreams'[TokenOf[r]] # r
                 PROVE  \E q \in Session \ {r} :
                           TokenOf[q] = TokenOf[r] /\ pc'[Run(q)] \notin {"dial", "dialled"}
        BY DEF Found
    <2>1. r # s /\ Running(r)
        BY StopMoves, Apart, <1>1 DEF Running
    <2>2. CASE activeStreams[TokenOf[r]] = r
        <3>1. TokenOf[r] = TokenOf[s]
            BY <2>2, Apart
        <3>2. pc'[Run(s)] \notin {"dial", "dialled"}
            BY StopMoves
        <3>3. QED
            BY <2>1, <3>1, <3>2
    <2>3. CASE activeStreams[TokenOf[r]] # r
        BY <2>1, <2>3, StopMoves DEF IInv, Found
    <2>4. QED
        BY <2>2, <2>3
<1>6. Exclusive'
    <2>1. \A q \in Goroutine \cup Closer : ~Stopping(q, s)'
        BY <1>1, StopMoves DEF IInv, Exclusive
    <2>2. QED
        BY <2>1, StopMoves DEF IInv, Exclusive
<1>7. Closed'
    <2>1. sock[s] = "closed"
        BY <1>1 DEF IInv, Closed
    <2>2. QED
        BY <2>1, StopMoves DEF IInv, Closed
<1>8. QED
    BY <1>2, <1>3, <1>4, <1>5, <1>6, <1>7 DEF IInv

LEMMA JoinStopStep ==
    ASSUME SessionConstants, IInv, NEW s \in Session, NEW p \in Goroutine \cup Closer,
           Caller(p, s), JoinStop(p, s)
    PROVE  IInv'
<1>. pc[p] \in {"stop", "closing", "deleting"} /\ "ended" \in {"closing", "deleting", "ended"}
     /\ Goto(p, "ended") /\ UNCHANGED <<activeStreams, found, once, sock>>
     /\ pc[p] = "stop" /\ once[s] = "done"
    BY DEF JoinStop
<1>. HIDE DEF Caller
<1>1. Domains'
    BY StopMoves, StopTypes DEF JoinStop, IInv, Domains, SessionTypeOK
<1>2. Early'
    BY StopMoves, Apart DEF IInv, Early
<1>3. Entries'
    BY DEF IInv, Entries
<1>4. Found'
    <2>1. \A r \in Session : Running(r)' => Running(r)
        BY StopMoves, Apart DEF Running
    <2>2. QED
        BY <2>1, StopMoves DEF IInv, Found
<1>5. Exclusive' /\ Closed'
    BY StopMoves DEF IInv, Exclusive, Closed
<1>6. QED
    BY <1>1, <1>2, <1>3, <1>4, <1>5 DEF IInv
-----------------------------------------------------------------------------
(* The other steps.                                                         *)
\* A step after which nobody is stopping who was not before.
LEMMA SameStoppers ==
    ASSUME IInv, UNCHANGED <<once, sock>>,
           \A q \in Goroutine \cup Closer, r \in Session :
               /\ Stopping(q, r)' <=> Stopping(q, r)
               /\ Stopping(q, r) => pc'[q] = pc[q]
    PROVE  Exclusive' /\ Closed'
BY DEF IInv, Exclusive, Closed

LEMMA LoadStreamStep ==
    ASSUME SessionConstants, IInv, NEW c \in Closer, LoadStream(c)
    PROVE  IInv'
<1>. PICK l \in {"stop", "ended"} :
        /\ Goto(c, l)
        /\ l = "stop" => activeStreams[TokenOf[c]] # None
    BY DEF LoadStream
<1>. /\ UNCHANGED <<activeStreams, stopCh, once, sock, peer>> /\ pc[c] = "received"
     /\ found' = [found EXCEPT ![c] = activeStreams[TokenOf[c]]]
     /\ found \in [Closer -> Session \cup {None}]
     /\ TokenOf[c] \in Token /\ activeStreams[TokenOf[c]] \in Session \cup {None}
    BY DEF LoadStream, IInv, Domains, SessionTypeOK, Token
<1>1. /\ pc' \in [Goroutine \cup Closer -> Place]
      /\ pc'[c] = l
      /\ \A q \in (Goroutine \cup Closer) \ {c} : pc'[q] = pc[q]
    BY DEF IInv, Domains, Goto, Place
<1>2. \A r \in Session : /\ pc'[Run(r)] = pc[Run(r)] /\ pc'[Keepalive(r)] = pc[Keepalive(r)]
                         /\ pc'[Reader(r)] = pc[Reader(r)]
    BY <1>1, Apart
<1>3. Domains'
    <2>1. \A q \in Closer : pc'[q] \in {"received", "stop", "closing", "deleting", "ended"}
        <3>1. c \in Goroutine \cup Closer /\ \A q \in Closer \ {c} : pc'[q] = pc[q]
            BY <1>1
        <3>2. l \in {"received", "stop", "closing", "deleting", "ended"}
            OBVIOUS
        <3>. QED BY <1>1, <3>1, <3>2 DEF IInv, Domains, SessionTypeOK
    <2>2. found' \in [Closer -> Session \cup {None}]
        OBVIOUS
    <2>3. \A q \in Closer : pc'[q] \in {"stop", "closing", "deleting"} => found'[q] # None
        <3>1. ASSUME NEW q \in Closer, q # c, pc'[q] \in {"stop", "closing", "deleting"}
              PROVE  found'[q] # None
            <4>1. pc'[q] = pc[q] /\ found'[q] = found[q]
                BY <1>1, <3>1
            <4>. QED BY <3>1, <4>1 DEF IInv, Domains, SessionTypeOK
        <3>2. pc'[c] = "stop" => found'[c] # None
            BY <1>1
        <3>. QED BY <1>1, <3>1, <3>2
    <2>. QED BY <1>1, <1>2, <2>1, <2>2, <2>3 DEF IInv, Domains, SessionTypeOK
<1>4. Early'
    BY <1>2 DEF IInv, Early
<1>5. Entries'
    BY DEF IInv, Entries
<1>6. Found'
    BY <1>2 DEF IInv, Found, Running
<1>7. Exclusive' /\ Closed'
    <2>1. \A q \in Goroutine \cup Closer, r \in Session :
              /\ Stopping(q, r)' <=> Stopping(q, r)
              /\ Stopping(q, r) => pc'[q] = pc[q]
        BY <1>1 DEF Stopping
    <2>2. QED
        BY <2>1, SameStoppers
<1>8. QED
    BY <1>3, <1>4, <1>5, <1>6, <1>7 DEF IInv

\* A step of a goroutine outside the body of stop.
LEMMA OutsideMoves ==
    ASSUME SessionConstants, IInv, NEW p \in Goroutine, NEW l \in Place \ {"closing", "deleting"},
           pc[p] \notin {"closing", "deleting"}, Goto(p, l), UNCHANGED found
    PROVE  /\ pc' \in [Goroutine \cup Closer -> Place]
           /\ pc'[p] = l
           /\ \A q \in (Goroutine \cup Closer) \ {p} : pc'[q] = pc[q]
           /\ \A q \in Goroutine \cup Closer, r \in Session :
                  /\ Stopping(q, r)' <=> Stopping(q, r)
                  /\ Stopping(q, r) => pc'[q] = pc[q]
<1>1. /\ pc' \in [Goroutine \cup Closer -> Place]
      /\ pc'[p] = l
      /\ \A q \in (Goroutine \cup Closer) \ {p} : pc'[q] = pc[q]
    BY DEF IInv, Domains, Goto
<1>2. \A q \in Goroutine \cup Closer, r \in Session :
         /\ Stopping(q, r)' <=> Stopping(q, r)
         /\ Stopping(q, r) => pc'[q] = pc[q]
    BY <1>1 DEF Stopping
<1>3. QED
    BY <1>1, <1>2

LEMMA DialStep ==
    ASSUME SessionConstants, IInv, NEW s \in Session, Dial(s)
    PROVE  IInv'
<1>. /\ Goto(Run(s), "dialled") /\ pc[Run(s)] = "dial" /\ Run(s) \in Goroutine
     /\ "dialled" \in Place \ {"closing", "deleting"}
     /\ UNCHANGED <<activeStreams, found, stopCh, once, peer>>
     /\ sock' = [sock EXCEPT ![s] = "open"] /\ sock \in [Session -> {"none", "open", "closed"}]
    BY Apart DEF Dial, Place, IInv, Domains, SessionTypeOK
<1>1. \A r \in Session : /\ pc'[Run(r)] = IF r = s THEN "dialled" ELSE pc[Run(r)]
                         /\ pc'[Keepalive(r)] = pc[Keepalive(r)] /\ pc'[Reader(r)] = pc[Reader(r)]
    BY OutsideMoves, Apart
<1>2. \A c \in Closer : pc'[c] = pc[c]
    BY OutsideMoves, Apart
<1>3. pc' \in [Goroutine \cup Closer -> Place]
    BY OutsideMoves
<1>4. Domains'
    BY <1>1, <1>2, <1>3 DEF IInv, Domains, SessionTypeOK
<1>5. Early' /\ Entries'
    BY <1>1 DEF IInv, Early, Entries
<1>6. Found'
    BY <1>1 DEF IInv, Found, Running
<1>7. Exclusive'
    BY OutsideMoves DEF IInv, Exclusive
\* The connection is new to a session that nobody stops.
<1>8. Closed'
    <2>1. once[s] = "no" /\ \A q \in Goroutine \cup Closer : ~Stopping(q, s)
        BY DEF IInv, Early, Exclusive
    <2>2. QED
        BY <2>1, OutsideMoves DEF IInv, Closed
<1>9. QED
    BY <1>4, <1>5, <1>6, <1>7, <1>8 DEF IInv

LEMMA StoreStep ==
    ASSUME SessionConstants, IInv, NEW s \in Session, Store(s)
    PROVE  IInv'
<1>. /\ Goto(Run(s), "start") /\ pc[Run(s)] = "dialled" /\ Run(s) \in Goroutine
     /\ "start" \in Place \ {"closing", "deleting"}
     /\ UNCHANGED <<found, stopCh, once, sock, peer>>
     /\ activeStreams' = [activeStreams EXCEPT ![TokenOf[s]] = s]
     /\ activeStreams \in [Token -> Session \cup {None}] /\ TokenOf[s] \in Token
    BY Apart DEF Store, Place, IInv, Domains, SessionTypeOK
<1>1. \A r \in Session : /\ pc'[Run(r)] = IF r = s THEN "start" ELSE pc[Run(r)]
                         /\ pc'[Keepalive(r)] = pc[Keepalive(r)] /\ pc'[Reader(r)] = pc[Reader(r)]
    BY OutsideMoves, Apart
<1>2. \A c \in Closer : pc'[c] = pc[c]
    BY OutsideMoves, Apart
<1>3. pc' \in [Goroutine \cup Closer -> Place]
    BY OutsideMoves
<1>4. once[s] = "no"
    BY DEF IInv, Early
<1>5. Domains'
    BY <1>1, <1>2, <1>3 DEF IInv, Domains, SessionTypeOK
<1>6. Early'
    BY <1>1 DEF IInv, Early
<1>7. Entries'
    BY <1>4 DEF IInv, Entries
\* A session whose entry s overwrites keeps s as its excuse.
<1>8. Found'
    <2> SUFFICES ASSUME NEW r \in Session, Running(r)',
                        activeStreams'[TokenOf[r]] # r
                 PROVE  \E q \in Session \ {r} :
                           TokenOf[q] = TokenOf[r] /\ pc'[Run(q)] \notin {"dial", "dialled"}
        BY DEF Found
    <2>1. r # s /\ Running(r)
        BY <1>1 DEF Running
    <2>2. CASE TokenOf[r] = TokenOf[s]
        BY <1>1, <2>1, <2>2
    <2>3. CASE TokenOf[r] # TokenOf[s]
        <3>1. TokenOf[r] \in Token
            BY Apart
        <3>2. activeStreams[TokenOf[r]] # r
            BY <2>3, <3>1
        <3>3. PICK q \in Session \ {r} :
                 TokenOf[q] = TokenOf[r] /\ pc[Run(q)] \notin {"dial", "dialled"}
            BY <2>1, <3>2 DEF IInv, Found
        <3>4. QED
            BY <1>1, <3>3
    <2>4. QED
        BY <2>2, <2>3
<1>9. Exclusive' /\ Closed'
    BY OutsideMoves, SameStoppers
<1>10. QED
    BY <1>5, <1>6, <1>7, <1>8, <1>9 DEF IInv

LEMMA StartLoopStep ==
    ASSUME SessionConstants, IInv, NEW s \in Session, StartLoop(s)
    PROVE  IInv'
<1>. /\ pc' = [pc EXCEPT ![Run(s)] = "loop", ![Keepalive(s)] = "idle", ![Reader(s)] = "reading"]
     /\ pc[Run(s)] = "start" /\ pc \in [Goroutine \cup Closer -> Place]
     /\ UNCHANGED <<activeStreams, found, stopCh, once, sock, peer>>
    BY DEF StartLoop, IInv, Domains
<1>1. \A q \in Goroutine \cup Closer :
         pc'[q] = IF q = Run(s) THEN "loop" ELSE IF q = Keepalive(s) THEN "idle"
                  ELSE IF q = Reader(s) THEN "reading" ELSE pc[q]
    BY Apart
<1>2. /\ pc'[Run(s)] = "loop" /\ pc'[Keepalive(s)] = "idle" /\ pc'[Reader(s)] = "reading"
      /\ \A r \in Session : r # s => /\ pc'[Run(r)] = pc[Run(r)]
                                     /\ pc'[Keepalive(r)] = pc[Keepalive(r)]
                                     /\ pc'[Reader(r)] = pc[Reader(r)]
    BY <1>1, Apart
<1>3. \A c \in Closer : pc'[c] = pc[c]
    BY <1>1, Apart
<1>4. pc' \in [Goroutine \cup Closer -> Place]
    BY DEF Place
<1>5. Domains'
    <2>1. SessionTypeOK
        BY DEF IInv, Domains
    <2>2. \A r \in Session :
             /\ pc'[Run(r)] \in {"dial", "dialled", "start", "loop", "return",
                                 "stop", "closing", "deleting", "ended"}
             /\ pc'[Keepalive(r)] \in {"none", "idle", "stop", "closing", "deleting", "ended"}
             /\ pc'[Reader(r)] \in {"none", "reading", "stop", "closing", "deleting", "ended"}
        <3>1. ASSUME NEW r \in Session, r # s
              PROVE  /\ pc'[Run(r)] = pc[Run(r)] /\ pc'[Keepalive(r)] = pc[Keepalive(r)]
                     /\ pc'[Reader(r)] = pc[Reader(r)]
            BY <1>2, <3>1
        <3>2. ASSUME NEW r \in Session, r # s
              PROVE  /\ pc'[Run(r)] \in {"dial", "dialled", "start", "loop", "return",
                                         "stop", "closing", "deleting", "ended"}
                     /\ pc'[Keepalive(r)] \in {"none", "idle", "stop", "closing", "deleting", "ended"}
                     /\ pc'[Reader(r)] \in {"none", "reading", "stop", "closing", "deleting", "ended"}
            BY <2>1, <3>1, <3>2 DEF SessionTypeOK
        <3>. QED BY <1>2, <3>2
    <2>. QED BY <1>3, <1>4, <2>1, <2>2 DEF Domains, SessionTypeOK
<1>6. Early'
    <2>1. ASSUME NEW r \in Session, pc'[Run(r)] \in {"dial", "dialled", "start"}
          PROVE  /\ pc[Run(r)] = pc'[Run(r)] /\ pc'[Keepalive(r)] = pc[Keepalive(r)]
                 /\ pc'[Reader(r)] = pc[Reader(r)]
        <3>1. r # s
            BY <1>2, <2>1
        <3>. QED BY <1>2, <3>1
    <2>2. Early
        BY DEF IInv
    <2>3. ASSUME NEW r \in Session, pc'[Run(r)] \in {"dial", "dialled", "start"}
          PROVE  pc'[Keepalive(r)] = "none" /\ pc'[Reader(r)] = "none"
        <3>1. /\ pc[Run(r)] \in {"dial", "dialled", "start"}
              /\ pc'[Keepalive(r)] = pc[Keepalive(r)] /\ pc'[Reader(r)] = pc[Reader(r)]
            BY <2>1, <2>3
        <3>2. pc[Keepalive(r)] = "none" /\ pc[Reader(r)] = "none"
            BY <2>2, <3>1 DEF Early
        <3>. QED BY <3>1, <3>2
    <2>4. ASSUME NEW r \in Session, pc'[Run(r)] \in {"dial", "dialled"}
          PROVE  /\ once'[r] = "no" /\ \A c \in Closer : found'[c] # r
                 /\ \A t \in Token : activeStreams'[t] # r
        <3>0. pc'[Run(r)] \in {"dial", "dialled", "start"}
            BY <2>4
        <3>1. pc[Run(r)] \in {"dial", "dialled"}
            BY <2>1, <2>4, <3>0
        <3>. QED BY <2>2, <3>1 DEF Early
    <2>. QED BY <2>3, <2>4 DEF Early
<1>7. Entries' /\ Found'
    <2>1. \A r \in Session : /\ Running(r)' => Running(r)
                             /\ pc[Run(r)] \notin {"dial", "dialled"} =>
                                   pc'[Run(r)] \notin {"dial", "dialled"}
        BY <1>2 DEF Running
    <2>2. QED
        BY <2>1 DEF IInv, Entries, Found
<1>8. Exclusive' /\ Closed'
    <2>1. pc[Keepalive(s)] = "none" /\ pc[Reader(s)] = "none"
        BY DEF IInv, Early
    <2>2. \A q \in Goroutine \cup Closer, r \in Session :
              /\ Stopping(q, r)' <=> Stopping(q, r)
              /\ Stopping(q, r) => pc'[q] = pc[q]
        BY <1>1, <2>1 DEF Stopping
    <2>3. QED
        BY <2>2, SameStoppers
<1>9. QED
    BY <1>5, <1>6, <1>7, <1>8 DEF IInv

\* What a quiet step of p needs and gives.
LEMMA QuietStep ==
    ASSUME SessionConstants, IInv, NEW s \in Session, QuietMove(s)
    PROVE  IInv'
<1>. UNCHANGED <<activeStreams, found, stopCh, once, sock, peer>>
    BY DEF QuietMove
<1>1. PICK p \in {Run(s), Keepalive(s), Reader(s)}, l \in Place \ {"closing", "deleting"} :
         /\ Goto(p, l) /\ pc[p] \notin {"closing", "deleting", "none"}
         /\ p = Run(s) => \/ l = "ended"
                          \/ l \in {"return", "stop"} /\ pc[p] \notin {"dial", "dialled", "ended"}
         /\ p = Keepalive(s) => l \in {"stop", "ended"}
         /\ p = Reader(s) => l = "stop"
    <2>1. CASE \E m \in {<<"dial", "ended">>, <<"start", "return">>,
                           <<"loop", "return">>, <<"return", "stop">>} :
                  pc[Run(s)] = m[1] /\ Goto(Run(s), m[2])
        BY <2>1, Apart DEF Place
    <2>2. CASE \E to \in {"stop", "ended"} : pc[Keepalive(s)] = "idle" /\ Goto(Keepalive(s), to)
        BY <2>2, Apart DEF Place
    <2>3. CASE pc[Reader(s)] = "reading" /\ Goto(Reader(s), "stop")
        BY <2>3, Apart DEF Place
    <2>4. QED
        BY <2>1, <2>2, <2>3 DEF QuietMove
<1>2. p \in Goroutine
    BY Apart
<1>3. /\ pc' \in [Goroutine \cup Closer -> Place]
      /\ pc'[p] = l
      /\ \A q \in (Goroutine \cup Closer) \ {p} : pc'[q] = pc[q]
    BY <1>1, <1>2, OutsideMoves
<1>4. \A c \in Closer : pc'[c] = pc[c]
    BY <1>2, <1>3, Apart
<1>5. \A r \in Session :
         /\ pc'[Run(r)] = pc[Run(r)]
            \/ (r = s /\ pc'[Run(r)] = "ended")
            \/ (r = s /\ pc'[Run(r)] \in {"return", "stop"}
                /\ pc[Run(r)] \notin {"dial", "dialled", "ended"})
         /\ pc'[Keepalive(r)] = pc[Keepalive(r)]
            \/ (r = s /\ pc'[Keepalive(r)] \in {"stop", "ended"}
                /\ pc[Keepalive(s)] # "none")
         /\ pc'[Reader(r)] = pc[Reader(r)]
            \/ (r = s /\ pc'[Reader(r)] = "stop" /\ pc[Reader(s)] # "none")
    BY <1>1, <1>3, Apart
<1>6. Domains'
    BY <1>3, <1>4, <1>5 DEF IInv, Domains, SessionTypeOK
<1>7. Early' /\ Entries'
    BY <1>5 DEF IInv, Early, Entries
<1>8. Found'
    <2>1. \A r \in Session : pc[Run(r)] \notin {"dial", "dialled"} =>
                            pc'[Run(r)] \notin {"dial", "dialled"}
        BY <1>5
    <2>2. \A r \in Session : Running(r)' => Running(r)
        BY <1>5 DEF Running
    <2>3. QED
        BY <2>1, <2>2 DEF IInv, Found
<1>9. Exclusive' /\ Closed'
    BY <1>1, <1>2, OutsideMoves, SameStoppers
<1>10. QED
    BY <1>6, <1>7, <1>8, <1>9 DEF IInv

LEMMA NetStep == IInv /\ NetMove => IInv'
BY DEF IInv, Domains, SessionTypeOK, Early, Entries, Found, Running, Exclusive, Closed,
       Stopping, NetMove
-----------------------------------------------------------------------------
(* The theorems.                                                            *)
\* Every step of the program preserves the invariant.
LEMMA StepInv == SessionConstants /\ IInv /\ [SessionNext]_sessionVars => IInv'
<1> SUFFICES ASSUME SessionConstants, IInv, [SessionNext]_sessionVars PROVE IInv'
    OBVIOUS
<1>1. Kinds
    BY StepKinds DEF IInv, Domains
<1>2. ASSUME NEW s \in Session, NEW p \in Goroutine \cup Closer, Caller(p, s), stop(p, s)
      PROVE  IInv'
    <2>1. CASE CloseStopCh(p, s)
        BY <1>2, <2>1, CloseStopChStep
    <2>2. CASE CloseSocket(p, s)
        BY <1>2, <2>2, CloseSocketStep
    <2>3. CASE Forget(p, s)
        BY <1>2, <2>3, ForgetStep
    <2>4. CASE JoinStop(p, s)
        BY <1>2, <2>4, JoinStopStep
    <2>5. QED
        BY <1>2, <2>1, <2>2, <2>3, <2>4 DEF stop
<1>3. ASSUME NEW c \in Closer, LoadStream(c) PROVE IInv'
    BY <1>3, LoadStreamStep
<1>4. ASSUME NEW s \in Session, Store(s) \/ Dial(s) \/ StartLoop(s) \/ QuietMove(s)
      PROVE  IInv'
    BY <1>4, StoreStep, DialStep, StartLoopStep, QuietStep
<1>5. CASE NetMove
    BY <1>5, NetStep
<1>6. QED
    BY <1>1, <1>2, <1>3, <1>4, <1>5 DEF Kinds

THEOREM SessionInvariant == SessionSpec => []IInv
<1>1. SessionInit => IInv
    BY InitInv, SessionConstants
<1>2. IInv /\ [SessionNext]_sessionVars => IInv'
    BY StepInv, SessionConstants
<1>3. QED
    BY <1>1, <1>2, PTL DEF SessionSpec

\* Every variable keeps its type, and a close command that is to call stop has
\* found a session to call it on.
THEOREM SessionTypeCorrect == SessionSpec => []SessionTypeOK
<1>1. IInv => SessionTypeOK
    BY DEF IInv, Domains
<1>2. QED
    BY <1>1, SessionInvariant, PTL

\* However many open and close commands share a token, activeStreams never
\* leads to a session whose stop is over, and a running session is lost from it
\* only to another open with its token.
THEOREM EntriesServedAlways == SessionSpec => []EntriesServed
<1>1. IInv => EntriesServed
    BY DEF IInv, Entries, Found, EntriesServed
<1>2. QED
    BY <1>1, SessionInvariant, PTL

\* However many goroutines and commands call stop at once, one runs its body,
\* and when that is over the connection is closed.
THEOREM StopOnceAlways == SessionSpec => []StopOnce
<1>1. IInv => StopOnce
    BY DEF IInv, Exclusive, Closed, StopOnce
<1>2. QED
    BY <1>1, SessionInvariant, PTL
-----------------------------------------------------------------------------
(* A session that nobody has dialled for is known to its own goroutine.     *)
Opened ==
    \A s \in Session :
        /\ stopCh[s] <=> once[s] # "no"
        /\ sock[s] = "none" =>
              /\ once[s] = "no"
              /\ pc[Run(s)] \in {"dial", "ended"}
              /\ pc[Keepalive(s)] = "none" /\ pc[Reader(s)] = "none"
              /\ \A c \in Closer : found[c] # s
              /\ \A t \in Token : activeStreams[t] # s

LEMMA OpenedStop ==
    ASSUME SessionConstants, IInv, Opened, NEW s \in Session,
           NEW p \in Goroutine \cup Closer, Caller(p, s), stop(p, s)
    PROVE  Opened'
<1>. USE DEF stop, CloseStopCh, CloseSocket, Forget, JoinStop
<1>1. PICK l \in {"closing", "deleting", "ended"} : Goto(p, l)
    OBVIOUS
<1>2. UNCHANGED found /\ pc[p] \in {"stop", "closing", "deleting"}
    OBVIOUS
<1>3. /\ pc'[p] = l
      /\ \A q \in (Goroutine \cup Closer) \ {p} : pc'[q] = pc[q]
    BY <1>1, <1>2, StopMoves
<1>4. sock[s] # "none"
    BY <1>2 DEF Opened, Caller
<1>5. \A r \in Session : r # s =>
         /\ pc'[Run(r)] = pc[Run(r)] /\ pc'[Keepalive(r)] = pc[Keepalive(r)]
         /\ pc'[Reader(r)] = pc[Reader(r)]
         /\ sock'[r] = sock[r] /\ once'[r] = once[r] /\ stopCh'[r] = stopCh[r]
    <2>1. ASSUME NEW r \in Session, r # s PROVE p \notin {Run(r), Keepalive(r), Reader(r)}
        BY <2>1, Apart DEF Caller
    <2>2. \A r \in Session : /\ Run(r) \in Goroutine /\ Keepalive(r) \in Goroutine
                             /\ Reader(r) \in Goroutine
        BY Apart
    <2>3. \A r \in Session : r # s =>
             sock'[r] = sock[r] /\ once'[r] = once[r] /\ stopCh'[r] = stopCh[r]
        BY DEF IInv, Domains, SessionTypeOK
    <2>. QED BY <1>3, <2>1, <2>2, <2>3
<1>6. sock'[s] # "none" /\ (stopCh'[s] <=> once'[s] # "no")
    <2>1. once[s] \in {"no", "running", "done"} /\ (stopCh[s] <=> once[s] # "no")
        BY DEF IInv, Domains, SessionTypeOK, Opened
    <2>2. CASE CloseStopCh(p, s)
        BY <1>4, <2>2 DEF IInv, Domains, SessionTypeOK
    <2>3. CASE CloseSocket(p, s)
        BY <2>1, <2>3 DEF IInv, Domains, SessionTypeOK
    <2>4. CASE Forget(p, s)
        <3>1. Stopping(p, s)
            BY <1>1, <1>2, <2>4, StopMoves
        <3>2. once[s] = "running"
            BY <3>1 DEF IInv, Exclusive
        <3>. QED BY <1>4, <2>1, <2>4, <3>2 DEF IInv, Domains, SessionTypeOK
    <2>5. CASE JoinStop(p, s)
        BY <1>4, <2>1, <2>5
    <2>. QED BY <2>2, <2>3, <2>4, <2>5
<1>7. \A r \in Session, t \in Token : activeStreams[t] # r => activeStreams'[t] # r
    BY Apart DEF IInv, Domains, SessionTypeOK
<1>. QED BY <1>2, <1>5, <1>6, <1>7 DEF Opened

LEMMA OpenedStep ==
    SessionConstants /\ IInv /\ Opened /\ [SessionNext]_sessionVars => Opened'
<1> SUFFICES ASSUME SessionConstants, IInv, Opened, [SessionNext]_sessionVars PROVE Opened'
    OBVIOUS
<1>1. Kinds
    BY StepKinds DEF IInv, Domains
<1>2. ASSUME NEW c \in Closer, LoadStream(c) PROVE Opened'
    <2>1. \A r \in Session : /\ pc'[Run(r)] = pc[Run(r)] /\ pc'[Keepalive(r)] = pc[Keepalive(r)]
                             /\ pc'[Reader(r)] = pc[Reader(r)]
        BY <1>2, Apart DEF LoadStream, Goto, IInv, Domains
    <2>2. \A r \in Session : sock[r] = "none" => \A d \in Closer : found'[d] # r
        BY <1>2 DEF LoadStream, Opened, IInv, Domains, SessionTypeOK, Token
    <2>. QED BY <1>2, <2>1, <2>2 DEF LoadStream, Opened
<1>3. ASSUME NEW s \in Session, Store(s) \/ Dial(s) \/ StartLoop(s) \/ QuietMove(s)
      PROVE  Opened'
    <2>1. \A r \in Session : r # s =>
             /\ pc'[Run(r)] = pc[Run(r)] /\ pc'[Keepalive(r)] = pc[Keepalive(r)]
             /\ pc'[Reader(r)] = pc[Reader(r)]
        BY <1>3, Apart DEF Store, Dial, StartLoop, QuietMove, Goto, IInv, Domains
    <2>2. CASE Store(s)
        BY <2>1, <2>2 DEF Store, Opened, IInv, Domains, SessionTypeOK
    <2>3. CASE Dial(s)
        BY <2>1, <2>3 DEF Dial, Opened, IInv, Domains, SessionTypeOK
    <2>4. CASE StartLoop(s)
        <3>1. sock[s] # "none"
            BY <2>4 DEF StartLoop, Opened
        <3>2. \A r \in Session : sock[r] = "none" => /\ pc'[Run(r)] = pc[Run(r)]
                                                  /\ pc'[Keepalive(r)] = pc[Keepalive(r)]
                                                  /\ pc'[Reader(r)] = pc[Reader(r)]
            BY <2>1, <3>1
        <3>3. UNCHANGED <<activeStreams, found, stopCh, once, sock>>
            BY <2>4 DEF StartLoop
        <3>. QED BY <3>2, <3>3 DEF Opened
    <2>5. CASE QuietMove(s)
        <3>1. sock[s] = "none" => /\ pc'[Run(s)] \in {"dial", "ended"}
                                  /\ pc'[Keepalive(s)] = "none" /\ pc'[Reader(s)] = "none"
            BY <2>5, Apart DEF QuietMove, Goto, Opened, IInv, Domains
        <3>. QED BY <2>1, <2>5, <3>1 DEF QuietMove, Opened
    <2>. QED BY <1>3, <2>2, <2>3, <2>4, <2>5
<1>4. CASE NetMove
    BY <1>4 DEF NetMove, Opened
<1>. QED BY <1>1, <1>2, <1>3, <1>4, OpenedStop DEF Kinds

LEMMA OpenedInit == SessionConstants /\ SessionInit => Opened
<1> SUFFICES ASSUME SessionConstants, SessionInit PROVE Opened
    OBVIOUS
<1>1. \A s \in Session : pc[Run(s)] = "dial" /\ pc[Keepalive(s)] = "none" /\ pc[Reader(s)] = "none"
    BY Apart DEF SessionInit, Run, Keepalive, Reader
<1>2. /\ stopCh = [s \in Session |-> FALSE] /\ once = [s \in Session |-> "no"]
      /\ found = [c \in Closer |-> None] /\ activeStreams = [t \in Token |-> None]
    BY DEF SessionInit
<1>3. \A s \in Session : s # None
    BY Apart
<1>. QED BY <1>1, <1>2, <1>3 DEF Opened
-----------------------------------------------------------------------------
(* How stop ends, whatever run and runCrossSession do before they come to   *)
(* it: the results below are about this module's processes next to any      *)
(* goroutine that keeps to OwnMove and any reader that keeps to ReaderMove, *)
(* and rest on SharedFairness.                                              *)

\* A goroutine on its way to stop may dial and, while the connection works,
\* start the two others.
OwnMove(s) ==
    /\ pc[Run(s)] \notin {"stop", "closing", "deleting", "ended"}
    /\ UNCHANGED <<activeStreams, found, stopCh, once, peer>>
    /\ (pc[Run(s)] = "dial" /\ sock' = [sock EXCEPT ![s] = "open"]) \/ UNCHANGED sock
    /\ \A p \in (Goroutine \cup Closer) \ {Run(s)} :
          pc'[p] = pc[p] \/ (p \in {Keepalive(s), Reader(s)} /\ CanWrite(s) /\ pc[p] = "none")

\* The reader may hand on what it has read before it reads again.
ReaderMove(s) ==
    /\ UNCHANGED <<activeStreams, found, stopCh, once, sock, peer>>
    /\ \/ pc[Reader(s)] = "reading" /\ sock[s] = "open" /\ Goto(Reader(s), "forwarding")
       \/ pc[Reader(s)] = "forwarding" /\ Goto(Reader(s), "reading")

OpenNext == SharedNext \/ \E s \in Session : OwnMove(s) \/ ReaderMove(s)

\* Which goroutines there are.
Placed == DOMAIN pc = Goroutine \cup Closer

\* Among the steps of this module, the run goroutine is moved by two.
LEMMA SharedRun ==
    ASSUME SessionConstants, Placed, SharedNext, NEW s \in Session
    PROVE  pc'[Run(s)] = pc[Run(s)] \/ Store(s) \/ stop(Run(s), s)
<1>1. \A r \in Session : /\ Run(r) \in Goroutine /\ Keepalive(r) \in Goroutine
                         /\ Reader(r) \in Goroutine
                         /\ Keepalive(r) # Run(s) /\ Reader(r) # Run(s)
                         /\ Run(r) = Run(s) => r = s
                         /\ Run(r) \notin Closer
    BY Apart
<1>2. ASSUME NEW p, p # Run(s), NEW l, Goto(p, l) PROVE pc'[Run(s)] = pc[Run(s)]
    BY <1>1, <1>2 DEF Goto, Placed
<1>3. ASSUME NEW p, p # Run(s), NEW r, stop(p, r) PROVE pc'[Run(s)] = pc[Run(s)]
    <2>1. \E l : Goto(p, l)
        BY <1>3 DEF stop, CloseStopCh, CloseSocket, Forget, JoinStop
    <2>. QED BY <1>2, <1>3, <2>1
<1>4. ASSUME NEW c \in Closer, stopStream(c) PROVE pc'[Run(s)] = pc[Run(s)]
    <2>1. c # Run(s)
        BY <1>1
    <2>2. LoadStream(c) => \E l : Goto(c, l)
        BY DEF LoadStream
    <2>. QED BY <1>2, <1>3, <1>4, <2>1, <2>2 DEF stopStream
<1>5. ASSUME NEW r \in Session, r # s, Store(r) \/ stop(Run(r), r)
      PROVE  pc'[Run(s)] = pc[Run(s)]
    <2>1. Run(r) # Run(s)
        BY <1>1, <1>5
    <2>2. Store(r) => \E l : Goto(Run(r), l)
        BY DEF Store
    <2>. QED BY <1>2, <1>3, <1>5, <2>1, <2>2
<1>6. ASSUME NEW r \in Session, keepalive(r) \/ reader(r) \/ CloseFrame(r)
      PROVE  pc'[Run(s)] = pc[Run(s)]
    <2>1. Keepalive(r) # Run(s) /\ Reader(r) # Run(s)
        BY <1>1
    <2>2. CASE stop(Keepalive(r), r) \/ stop(Reader(r), r)
        BY <1>3, <2>1, <2>2
    <2>3. CASE KeepaliveEnds(r) \/ PingFails(r) \/ ReadFails(r) \/ CloseFrame(r)
        <3>1. \E p \in {Keepalive(r), Reader(r)} : \E l : Goto(p, l)
            BY <2>3 DEF KeepaliveEnds, PingFails, ReadFails, CloseFrame
        <3>. QED BY <1>2, <2>1, <3>1
    <2>. QED BY <1>6, <2>2, <2>3 DEF keepalive, reader
<1>7. ASSUME NEW r \in Session, Stall(r) \/ Resume(r) \/ Lose(r)
      PROVE  pc'[Run(s)] = pc[Run(s)]
    BY <1>7 DEF Stall, Resume, Lose
<1>. QED BY <1>4, <1>5, <1>6, <1>7 DEF SharedNext

\* What of the invariants the argument needs: a session under stop has a
\* connection, and the once says whether somebody is in the body.
StopInv ==
    /\ Placed
    /\ found \in [Closer -> Session \cup {None}]
    /\ once \in [Session -> {"no", "running", "done"}]
    /\ sock \in [Session -> {"none", "open", "closed"}]
    /\ peer \in [Session -> {"reading", "stalled", "gone"}]
    /\ \A s \in Session :
          /\ pc[Keepalive(s)] \in {"none", "idle", "stop", "closing", "deleting", "ended"}
          /\ pc[Reader(s)] \in {"none", "reading", "forwarding", "stop", "closing",
                                 "deleting", "ended"}
          /\ stopCh[s] <=> once[s] # "no"
          /\ once[s] # "no" => sock[s] # "none" /\ pc[Run(s)] \notin {"dial", "dialled"}
          /\ once[s] = "running" <=> \E p \in Goroutine \cup Closer : Stopping(p, s)
          /\ once[s] = "done" => sock[s] = "closed"

\* Where a process of this module is ready, it can take a step.
CommandEnabled(c) == ENABLED <<stopStream(c)>>_sessionVars
SettleEnabled(s) == ENABLED <<Settle(s)>>_sessionVars
StopEnabled(s) == ENABLED <<stop(Run(s), s)>>_sessionVars
KeepaliveEnabled(s) == ENABLED <<keepalive(s)>>_sessionVars
ReaderEnabled(s) == ENABLED <<reader(s)>>_sessionVars

StopReady(p, s) ==
    \/ pc[p] = "stop" /\ once[s] # "running"
    \/ pc[p] = "closing" /\ Written(s)
    \/ pc[p] = "deleting"

SharedCanStep ==
    /\ \A c \in Closer :
          found[c] # None /\ StopReady(c, found[c]) => CommandEnabled(c)
    /\ \A s \in Session :
          /\ peer[s] = "stalled" => SettleEnabled(s)
          /\ StopReady(Run(s), s) => StopEnabled(s)
          /\ StopReady(Keepalive(s), s) \/ (pc[Keepalive(s)] = "idle" /\ stopCh[s])
                => KeepaliveEnabled(s)
          /\ StopReady(Reader(s), s) \/ (pc[Reader(s)] = "reading" /\ WriteFails(s))
                => ReaderEnabled(s)

Open == [][OpenNext]_sessionVars /\ []StopInv /\ []SharedCanStep

OpenKinds == SharedMoves \/ \E s \in Session : OwnMove(s) \/ ReaderMove(s)

LEMMA OpenStep ==
    ASSUME SessionConstants, StopInv, [OpenNext]_sessionVars
    PROVE  OpenKinds
<1>1. CASE UNCHANGED sessionVars
    BY <1>1 DEF sessionVars, StopInv, OpenKinds, SharedMoves, NetMove
<1>2. CASE SharedNext
    BY <1>2, SharedKinds DEF StopInv, OpenKinds
<1>. QED BY <1>1, <1>2 DEF OpenNext, OpenKinds

\* A goroutine in stop moves by steps of stop only.
LEMMA InStop ==
    ASSUME SessionConstants, StopInv, [OpenNext]_sessionVars,
           NEW p \in Goroutine \cup Closer, NEW s \in Session, Caller(p, s),
           pc[p] \in {"stop", "closing", "deleting"}
    PROVE  \/ pc'[p] = pc[p] /\ Caller(p, s)'
           \/ stop(p, s)
<1>1. OpenKinds
    BY OpenStep
<1>2. ASSUME NEW r \in Session, NEW q \in Goroutine \cup Closer, Caller(q, r), stop(q, r)
      PROVE  \/ pc'[p] = pc[p] /\ Caller(p, s)'
             \/ stop(p, s)
    <2>1. PICK l : Goto(q, l)
        BY <1>2 DEF stop, CloseStopCh, CloseSocket, Forget, JoinStop
    <2>2. UNCHANGED found
        BY <1>2 DEF stop, CloseStopCh, CloseSocket, Forget, JoinStop
    <2>3. CASE q = p
        BY <1>2, <2>3, Apart DEF Caller
    <2>4. CASE q # p
        BY <2>1, <2>2, <2>4 DEF Goto, StopInv, Placed, Caller
    <2>. QED BY <2>3, <2>4
<1>3. ASSUME NEW c \in Closer, LoadStream(c)
      PROVE  pc'[p] = pc[p] /\ Caller(p, s)'
    <2>1. p # c
        BY <1>3 DEF LoadStream
    <2>2. UNCHANGED found \/ found' = [found EXCEPT ![c] = activeStreams[TokenOf[c]]]
        BY <1>3 DEF LoadStream
    <2>3. pc'[p] = pc[p]
        BY <1>3, <2>1 DEF LoadStream, Goto, StopInv, Placed
    <2>. QED BY <2>1, <2>2, <2>3 DEF Caller, StopInv
<1>4. ASSUME NEW r \in Session, Store(r) \/ QuietMove(r) \/ OwnMove(r) \/ ReaderMove(r)
      PROVE  pc'[p] = pc[p] /\ Caller(p, s)'
    <2>1. UNCHANGED found
        BY <1>4 DEF Store, QuietMove, OwnMove, ReaderMove
    <2>2. pc'[p] = pc[p]
        <3>1. CASE Store(r)
            BY <3>1 DEF Store, Goto, StopInv, Placed
        <3>2. CASE QuietMove(r)
            BY <3>2 DEF QuietMove, Goto, StopInv, Placed
        <3>3. CASE OwnMove(r)
            BY <3>3 DEF OwnMove
        <3>4. CASE ReaderMove(r)
            BY <3>4 DEF ReaderMove, Goto, StopInv, Placed
        <3>. QED BY <1>4, <3>1, <3>2, <3>3, <3>4
    <2>. QED BY <2>1, <2>2 DEF Caller
<1>5. NetMove => pc'[p] = pc[p] /\ Caller(p, s)'
    BY DEF NetMove, Caller
<1>. QED BY <1>1, <1>2, <1>3, <1>4, <1>5 DEF OpenKinds, SharedMoves

\* The once of a session that has been told to stop goes forward only.
LEMMA OnceMoves ==
    ASSUME SessionConstants, StopInv, [OpenNext]_sessionVars, NEW s \in Session
    PROVE  /\ once[s] # "no" => once'[s] # "no"
           /\ once[s] = "done" => once'[s] = "done"
<1>1. OpenKinds
    BY OpenStep
<1>2. ASSUME NEW r \in Session, NEW q \in Goroutine \cup Closer, Caller(q, r), stop(q, r)
      PROVE  /\ once[s] # "no" => once'[s] # "no"
             /\ once[s] = "done" => once'[s] = "done"
    BY <1>2 DEF stop, CloseStopCh, CloseSocket, Forget, JoinStop, StopInv
<1>3. (\E c \in Closer : LoadStream(c)) => UNCHANGED once
    BY DEF LoadStream
<1>4. (\E r \in Session : Store(r) \/ QuietMove(r) \/ OwnMove(r) \/ ReaderMove(r))
         => UNCHANGED once
    BY DEF Store, QuietMove, OwnMove, ReaderMove
<1>5. NetMove => UNCHANGED once
    BY DEF NetMove
<1>. QED BY <1>1, <1>2, <1>3, <1>4, <1>5 DEF OpenKinds, SharedMoves

(* The two places of the goroutine that runs the body.                      *)
InBody(p, s, place) == Stopping(p, s) /\ pc[p] = place

LEMMA BodyCaller ==
    ASSUME SessionConstants, NEW s \in Session, NEW p \in Goroutine \cup Closer, Stopping(p, s)
    PROVE  Caller(p, s) /\ pc[p] \in {"stop", "closing", "deleting"}
BY Apart DEF Stopping, Caller

LEMMA BodyStop ==
    ASSUME SessionConstants, StopInv, NEW s \in Session, NEW p \in Goroutine \cup Closer,
           Stopping(p, s), stop(p, s)
    PROVE  /\ pc[p] = "closing" => InBody(p, s, "deleting")'
           /\ pc[p] = "deleting" => once'[s] = "done"
<1>1. CASE CloseSocket(p, s)
    BY <1>1 DEF CloseSocket, Goto, InBody, Stopping, StopInv, Placed
<1>2. CASE Forget(p, s)
    BY <1>2 DEF Forget, StopInv
<1>3. ~CloseStopCh(p, s) /\ ~JoinStop(p, s)
    BY DEF Stopping, CloseStopCh, JoinStop
<1>. QED BY <1>1, <1>2, <1>3 DEF stop

LEMMA BodyStep ==
    ASSUME SessionConstants, StopInv, [OpenNext]_sessionVars,
           NEW s \in Session, NEW p \in Goroutine \cup Closer, Stopping(p, s)
    PROVE  /\ pc[p] = "closing" => InBody(p, s, "closing")' \/ InBody(p, s, "deleting")'
           /\ pc[p] = "deleting" => InBody(p, s, "deleting")' \/ once'[s] = "done"
<1>1. \/ pc'[p] = pc[p] /\ Caller(p, s)'
      \/ stop(p, s)
    BY BodyCaller, InStop
<1>2. CASE pc'[p] = pc[p] /\ Caller(p, s)'
    <2>1. (IF p \in Closer THEN found[p] = s ELSE p[1] = s)'
        BY <1>2, Apart DEF Caller
    <2>. QED BY <1>2, <2>1 DEF Stopping, InBody
<1>. QED BY <1>1, <1>2, BodyStop

\* A write to a session under stop does not wait for ever.
LEMMA StallEnds ==
    ASSUME NEW s \in Session
    PROVE  Open /\ SessionRuns(s) =>
              [](once[s] # "no" => []<>Written(s))
<1>1. peer[s] = "stalled" /\ <<Settle(s)>>_sessionVars /\ StopInv => ~(peer[s] = "stalled")'
    BY DEF Settle, Resume, Lose, StopInv
<1>2. SharedCanStep /\ peer[s] = "stalled" => SettleEnabled(s)
    BY DEF SharedCanStep
<1>3. StopInv /\ once[s] # "no" /\ ~(peer[s] = "stalled") => Written(s)
    BY DEF StopInv, Written, CanWrite, WriteFails
<1>4. StopInv /\ [OpenNext]_sessionVars /\ once[s] # "no" => (once[s] # "no")'
    BY OnceMoves, SessionConstants
<1>. QED BY <1>1, <1>2, <1>3, <1>4, PTL DEF Open, SessionRuns, SettleEnabled

LEMMA BodyOnce ==
    ASSUME SessionConstants, StopInv, NEW s \in Session, NEW p \in Goroutine \cup Closer,
           Stopping(p, s)
    PROVE  once[s] = "running"
BY DEF StopInv

\* Whoever runs the body comes to its end.
LEMMA CommandBodyEnds ==
    ASSUME NEW s \in Session, NEW c \in Closer
    PROVE  Open /\ SessionRuns(s) /\ CommandRuns(c) => (Stopping(c, s) ~> once[s] = "done")
<1>1. StopInv /\ [OpenNext]_sessionVars /\ InBody(c, s, "closing") =>
         InBody(c, s, "closing")' \/ InBody(c, s, "deleting")'
    BY BodyStep, SessionConstants DEF InBody
<1>2. StopInv /\ [OpenNext]_sessionVars /\ InBody(c, s, "deleting") =>
         InBody(c, s, "deleting")' \/ (once[s] = "done")'
    BY BodyStep, SessionConstants DEF InBody
<1>3. InBody(c, s, "closing") \/ InBody(c, s, "deleting") => found[c] = s /\ s # None
    BY Apart, SessionConstants DEF InBody, Stopping
<1>4. (InBody(c, s, "closing") \/ InBody(c, s, "deleting")) /\ stopStream(c) => stop(c, s)
    BY <1>3 DEF stopStream, LoadStream, InBody, Stopping
<1>5. StopInv /\ <<stopStream(c)>>_sessionVars /\ InBody(c, s, "closing") =>
         InBody(c, s, "deleting")'
    BY <1>4, BodyStop, SessionConstants DEF InBody
<1>6. StopInv /\ <<stopStream(c)>>_sessionVars /\ InBody(c, s, "deleting") =>
         (once[s] = "done")'
    BY <1>4, BodyStop, SessionConstants DEF InBody
<1>7. SharedCanStep /\ InBody(c, s, "closing") /\ Written(s) => CommandEnabled(c)
    BY <1>3 DEF SharedCanStep, StopReady, InBody
<1>8. SharedCanStep /\ InBody(c, s, "deleting") => CommandEnabled(c)
    BY <1>3 DEF SharedCanStep, StopReady, InBody
<1>9. StopInv /\ (InBody(c, s, "closing") \/ InBody(c, s, "deleting")) => once[s] # "no"
    BY BodyOnce, SessionConstants DEF InBody
<1>10. Stopping(c, s) => InBody(c, s, "closing") \/ InBody(c, s, "deleting")
    BY DEF Stopping, InBody
<1>. QED
    BY <1>1, <1>2, <1>5, <1>6, <1>7, <1>8, <1>9, <1>10, StallEnds, PTL
    DEF Open, CommandRuns, CommandEnabled

LEMMA RunBodyEnds ==
    ASSUME NEW s \in Session
    PROVE  Open /\ SessionRuns(s) => (Stopping(Run(s), s) ~> once[s] = "done")
<1>. DEFINE p == Run(s)
<1>1. p \in Goroutine \cup Closer
    BY Apart, SessionConstants
<1>. HIDE DEF p
<1>2. StopInv /\ [OpenNext]_sessionVars /\ InBody(p, s, "closing") =>
         InBody(p, s, "closing")' \/ InBody(p, s, "deleting")'
    BY <1>1, BodyStep, SessionConstants DEF InBody
<1>3. StopInv /\ [OpenNext]_sessionVars /\ InBody(p, s, "deleting") =>
         InBody(p, s, "deleting")' \/ (once[s] = "done")'
    BY <1>1, BodyStep, SessionConstants DEF InBody
<1>4. (InBody(p, s, "closing") \/ InBody(p, s, "deleting")) /\ stop(Run(s), s) => stop(p, s)
    BY DEF p, InBody
<1>5. StopInv /\ <<stop(Run(s), s)>>_sessionVars /\ InBody(p, s, "closing") =>
         InBody(p, s, "deleting")'
    BY <1>1, <1>4, BodyStop, SessionConstants DEF InBody
<1>6. StopInv /\ <<stop(Run(s), s)>>_sessionVars /\ InBody(p, s, "deleting") =>
         (once[s] = "done")'
    BY <1>1, <1>4, BodyStop, SessionConstants DEF InBody
<1>7. SharedCanStep /\ InBody(p, s, "closing") /\ Written(s) => StopEnabled(s)
    BY DEF SharedCanStep, StopReady, InBody, p
<1>8. SharedCanStep /\ InBody(p, s, "deleting") => StopEnabled(s)
    BY DEF SharedCanStep, StopReady, InBody, p
<1>9. StopInv /\ (InBody(p, s, "closing") \/ InBody(p, s, "deleting")) => once[s] # "no"
    BY <1>1, BodyOnce, SessionConstants DEF InBody
<1>10. Stopping(p, s) => InBody(p, s, "closing") \/ InBody(p, s, "deleting")
    BY DEF Stopping, InBody
<1>11. Open /\ SessionRuns(s) => (Stopping(p, s) ~> once[s] = "done")
    BY <1>2, <1>3, <1>5, <1>6, <1>7, <1>8, <1>9, <1>10, StallEnds, PTL
    DEF Open, SessionRuns, StopEnabled
<1>. QED BY <1>11 DEF p

LEMMA KeepaliveBodyEnds ==
    ASSUME NEW s \in Session
    PROVE  Open /\ SessionRuns(s) => (Stopping(Keepalive(s), s) ~> once[s] = "done")
<1>. DEFINE p == Keepalive(s)
<1>1. p \in Goroutine \cup Closer
    BY Apart, SessionConstants
<1>. HIDE DEF p
<1>2. StopInv /\ [OpenNext]_sessionVars /\ InBody(p, s, "closing") =>
         InBody(p, s, "closing")' \/ InBody(p, s, "deleting")'
    BY <1>1, BodyStep, SessionConstants DEF InBody
<1>3. StopInv /\ [OpenNext]_sessionVars /\ InBody(p, s, "deleting") =>
         InBody(p, s, "deleting")' \/ (once[s] = "done")'
    BY <1>1, BodyStep, SessionConstants DEF InBody
<1>4. (InBody(p, s, "closing") \/ InBody(p, s, "deleting")) /\ keepalive(s) => stop(p, s)
    BY DEF p, keepalive, KeepaliveEnds, PingFails, InBody
<1>5. StopInv /\ <<keepalive(s)>>_sessionVars /\ InBody(p, s, "closing") =>
         InBody(p, s, "deleting")'
    BY <1>1, <1>4, BodyStop, SessionConstants DEF InBody
<1>6. StopInv /\ <<keepalive(s)>>_sessionVars /\ InBody(p, s, "deleting") =>
         (once[s] = "done")'
    BY <1>1, <1>4, BodyStop, SessionConstants DEF InBody
<1>7. SharedCanStep /\ InBody(p, s, "closing") /\ Written(s) => KeepaliveEnabled(s)
    BY DEF SharedCanStep, StopReady, InBody, p
<1>8. SharedCanStep /\ InBody(p, s, "deleting") => KeepaliveEnabled(s)
    BY DEF SharedCanStep, StopReady, InBody, p
<1>9. StopInv /\ (InBody(p, s, "closing") \/ InBody(p, s, "deleting")) => once[s] # "no"
    BY <1>1, BodyOnce, SessionConstants DEF InBody
<1>10. Stopping(p, s) => InBody(p, s, "closing") \/ InBody(p, s, "deleting")
    BY DEF Stopping, InBody
<1>11. Open /\ SessionRuns(s) => (Stopping(p, s) ~> once[s] = "done")
    BY <1>2, <1>3, <1>5, <1>6, <1>7, <1>8, <1>9, <1>10, StallEnds, PTL
    DEF Open, SessionRuns, KeepaliveEnabled
<1>. QED BY <1>11 DEF p

LEMMA ReaderBodyEnds ==
    ASSUME NEW s \in Session
    PROVE  Open /\ SessionRuns(s) => (Stopping(Reader(s), s) ~> once[s] = "done")
<1>. DEFINE p == Reader(s)
<1>1. p \in Goroutine \cup Closer
    BY Apart, SessionConstants
<1>. HIDE DEF p
<1>2. StopInv /\ [OpenNext]_sessionVars /\ InBody(p, s, "closing") =>
         InBody(p, s, "closing")' \/ InBody(p, s, "deleting")'
    BY <1>1, BodyStep, SessionConstants DEF InBody
<1>3. StopInv /\ [OpenNext]_sessionVars /\ InBody(p, s, "deleting") =>
         InBody(p, s, "deleting")' \/ (once[s] = "done")'
    BY <1>1, BodyStep, SessionConstants DEF InBody
<1>4. (InBody(p, s, "closing") \/ InBody(p, s, "deleting")) /\ reader(s) => stop(p, s)
    BY DEF p, reader, ReadFails, InBody
<1>5. StopInv /\ <<reader(s)>>_sessionVars /\ InBody(p, s, "closing") =>
         InBody(p, s, "deleting")'
    BY <1>1, <1>4, BodyStop, SessionConstants DEF InBody
<1>6. StopInv /\ <<reader(s)>>_sessionVars /\ InBody(p, s, "deleting") =>
         (once[s] = "done")'
    BY <1>1, <1>4, BodyStop, SessionConstants DEF InBody
<1>7. SharedCanStep /\ InBody(p, s, "closing") /\ Written(s) => ReaderEnabled(s)
    BY DEF SharedCanStep, StopReady, InBody, p
<1>8. SharedCanStep /\ InBody(p, s, "deleting") => ReaderEnabled(s)
    BY DEF SharedCanStep, StopReady, InBody, p
<1>9. StopInv /\ (InBody(p, s, "closing") \/ InBody(p, s, "deleting")) => once[s] # "no"
    BY <1>1, BodyOnce, SessionConstants DEF InBody
<1>10. Stopping(p, s) => InBody(p, s, "closing") \/ InBody(p, s, "deleting")
    BY DEF Stopping, InBody
<1>11. Open /\ SessionRuns(s) => (Stopping(p, s) ~> once[s] = "done")
    BY <1>2, <1>3, <1>5, <1>6, <1>7, <1>8, <1>9, <1>10, StallEnds, PTL
    DEF Open, SessionRuns, ReaderEnabled
<1>. QED BY <1>11 DEF p

\* A stop that has begun is completed.
LEMMA StopCompletes ==
    ASSUME NEW s \in Session
    PROVE  Open /\ SharedFairness => (stopCh[s] ~> once[s] = "done")
<1>1. SharedFairness => SessionRuns(s) /\ \A c \in Closer : CommandRuns(c)
    BY DEF SharedFairness
<1>2. ASSUME NEW c \in Closer
      PROVE  Open /\ SharedFairness => [](Stopping(c, s) => <>(once[s] = "done"))
    <2>1. SharedFairness => CommandRuns(c)
        BY DEF SharedFairness
    <2>. QED BY <1>1, <2>1, CommandBodyEnds, PTL
<1>3. Open /\ SharedFairness =>
         \A c \in Closer : [](Stopping(c, s) => <>(once[s] = "done"))
    BY <1>2
<1>4. (\A c \in Closer : [](Stopping(c, s) => <>(once[s] = "done")))
         => [](\A c \in Closer : Stopping(c, s) => <>(once[s] = "done"))
    OBVIOUS
<1>5. (\A c \in Closer : Stopping(c, s) => <>(once[s] = "done"))
         /\ (\E c \in Closer : Stopping(c, s)) => <>(once[s] = "done")
    OBVIOUS
<1>6. StopInv /\ stopCh[s] =>
         \/ once[s] = "done"
         \/ Stopping(Run(s), s) \/ Stopping(Keepalive(s), s) \/ Stopping(Reader(s), s)
         \/ \E c \in Closer : Stopping(c, s)
    <2>1. StopInv /\ stopCh[s] => once[s] \in {"running", "done"}
        BY DEF StopInv
    <2>2. StopInv /\ once[s] = "running" => \E p \in Goroutine \cup Closer : Stopping(p, s)
        BY DEF StopInv
    <2>3. ASSUME NEW p \in Goroutine, Stopping(p, s)
          PROVE  p \in {Run(s), Keepalive(s), Reader(s)}
        BY <2>3, Apart, SessionConstants DEF Stopping
    <2>. QED BY <2>1, <2>2, <2>3
<1>. QED
    BY <1>1, <1>3, <1>4, <1>5, <1>6, RunBodyEnds, KeepaliveBodyEnds, ReaderBodyEnds, PTL
    DEF Open

(* After the body of stop the connection is closed for good, and whoever    *)
(* still calls stop passes through it.                                      *)
Over(s, p, place) == once[s] = "done" /\ pc[p] = place

LEMMA OverBody ==
    ASSUME SessionConstants, StopInv, NEW s \in Session, once[s] = "done",
           NEW p \in {Run(s), Keepalive(s), Reader(s)}
    PROVE  /\ p \in Goroutine \cup Closer /\ Caller(p, s)
           /\ pc[p] \notin {"closing", "deleting"}
           /\ ~CanWrite(s) /\ WriteFails(s) /\ stopCh[s]
<1>1. p \in Goroutine \cup Closer /\ Caller(p, s) /\ p \notin Closer /\ p[1] = s
    BY Apart DEF Caller
<1>2. ~Stopping(p, s)
    BY <1>1 DEF StopInv
<1>. QED BY <1>1, <1>2 DEF Stopping, StopInv, WriteFails, CanWrite

\* A goroutine that is about to call stop finds it done.
LEMMA OverStop ==
    ASSUME SessionConstants, StopInv, [OpenNext]_sessionVars, NEW s \in Session,
           NEW p \in {Run(s), Keepalive(s), Reader(s)}, Over(s, p, "stop")
    PROVE  /\ Over(s, p, "stop")' \/ Over(s, p, "ended")'
           /\ stop(p, s) => Over(s, p, "ended")'
<1>1. once'[s] = "done"
    BY OnceMoves DEF Over
<1>2. p \in Goroutine \cup Closer /\ Caller(p, s)
    BY OverBody DEF Over
<1>3. pc'[p] = pc[p] \/ stop(p, s)
    BY <1>2, InStop DEF Over
<1>4. stop(p, s) => JoinStop(p, s)
    BY DEF Over, stop, CloseStopCh, CloseSocket, Forget
<1>5. JoinStop(p, s) => pc'[p] = "ended"
    BY <1>2 DEF JoinStop, Goto, StopInv, Placed
<1>. QED BY <1>1, <1>3, <1>4, <1>5 DEF Over

\* Nobody is moved by another goroutine, and nobody is started any more.
LEMMA OverQuiet ==
    ASSUME SessionConstants, StopInv, [OpenNext]_sessionVars, NEW s \in Session,
           once[s] = "done"
    PROVE  /\ pc[Run(s)] = "ended" => pc'[Run(s)] = "ended"
           /\ \A p \in {Keepalive(s), Reader(s)} :
                 pc[p] \in {"none", "ended"} => pc'[p] = pc[p]
           /\ pc[Keepalive(s)] = "idle" => pc'[Keepalive(s)] \in {"idle", "stop", "ended"}
           /\ pc[Reader(s)] = "reading" => pc'[Reader(s)] \in {"reading", "stop"}
           /\ pc[Reader(s)] = "forwarding" => pc'[Reader(s)] \in {"forwarding", "reading"}
<1>. DEFINE Kept == /\ pc[Run(s)] = "ended" => pc'[Run(s)] = "ended"
                    /\ \A p \in {Keepalive(s), Reader(s)} :
                          pc[p] \in {"none", "ended"} => pc'[p] = pc[p]
                    /\ pc[Keepalive(s)] = "idle" =>
                          pc'[Keepalive(s)] \in {"idle", "stop", "ended"}
                    /\ pc[Reader(s)] = "reading" => pc'[Reader(s)] \in {"reading", "stop"}
                    /\ pc[Reader(s)] = "forwarding" =>
                          pc'[Reader(s)] \in {"forwarding", "reading"}
<1>1. OpenKinds
    BY OpenStep
<1>2. /\ Run(s) \in DOMAIN pc /\ Keepalive(s) \in DOMAIN pc /\ Reader(s) \in DOMAIN pc
      /\ \A r \in Session : /\ Run(r) \in DOMAIN pc /\ Keepalive(r) \in DOMAIN pc
                            /\ Reader(r) \in DOMAIN pc
    BY Apart DEF StopInv, Placed
<1>3. ASSUME NEW r \in Session, NEW q \in Goroutine \cup Closer, Caller(q, r), stop(q, r)
      PROVE  Kept
    <2>1. PICK l : Goto(q, l)
        BY <1>3 DEF stop, CloseStopCh, CloseSocket, Forget, JoinStop
    <2>2. pc[q] \in {"stop", "closing", "deleting"}
        BY <1>3 DEF stop, CloseStopCh, CloseSocket, Forget, JoinStop
    <2>. QED BY <1>2, <2>1, <2>2 DEF Goto
<1>4. ASSUME NEW c \in Closer, LoadStream(c) PROVE Kept
    BY <1>2, <1>4 DEF LoadStream, Goto
<1>5. ASSUME NEW r \in Session, Store(r) PROVE Kept
    BY <1>2, <1>5 DEF Store, Goto
<1>6. ASSUME NEW r \in Session, QuietMove(r) PROVE Kept
    BY <1>2, <1>6, Apart DEF QuietMove, Goto
<1>7. ASSUME NEW r \in Session, OwnMove(r) PROVE Kept
    <2>1. CASE r = s
        BY <1>7, <2>1, Apart, OverBody DEF OwnMove
    <2>2. CASE r # s
        BY <1>7, <2>2, Apart DEF OwnMove
    <2>. QED BY <2>1, <2>2
<1>8. NetMove => Kept
    BY DEF NetMove
\* The connection of s is closed: its reader gets nothing more to hand on.
<1>9. ASSUME NEW r \in Session, ReaderMove(r) PROVE Kept
    <2>1. CASE r = s
        BY <1>2, <1>9, <2>1, Apart DEF ReaderMove, Goto, StopInv
    <2>2. CASE r # s
        BY <1>2, <1>9, <2>2, Apart DEF ReaderMove, Goto
    <2>. QED BY <2>1, <2>2
<1>. QED BY <1>1, <1>3, <1>4, <1>5, <1>6, <1>7, <1>8, <1>9 DEF OpenKinds, SharedMoves

LEMMA KeepaliveStops ==
    ASSUME NEW s \in Session
    PROVE  Open /\ SessionRuns(s) =>
              (once[s] = "done" ~> [](pc[Keepalive(s)] \in {"none", "ended"}))
<1>. DEFINE k == Keepalive(s)
            Gone == once[s] = "done" /\ pc[k] \in {"none", "ended"}
<1>1. StopInv /\ [OpenNext]_sessionVars /\ Gone => Gone'
    BY OverQuiet, OnceMoves, SessionConstants
<1>2. StopInv /\ [OpenNext]_sessionVars /\ Over(s, k, "idle") =>
         Over(s, k, "idle")' \/ Over(s, k, "stop")' \/ Gone'
    BY OverQuiet, OnceMoves, SessionConstants DEF Over
<1>3. StopInv /\ [OpenNext]_sessionVars /\ Over(s, k, "stop") => Over(s, k, "stop")' \/ Gone'
    BY OverStop, SessionConstants DEF Over
<1>4. StopInv /\ [OpenNext]_sessionVars /\ <<keepalive(s)>>_sessionVars /\ Over(s, k, "idle") =>
         Over(s, k, "stop")' \/ Gone'
    <2>1. StopInv /\ keepalive(s) /\ Over(s, k, "idle") => pc'[k] \in {"stop", "ended"}
        BY Apart, SessionConstants DEF keepalive, KeepaliveEnds, PingFails, stop, CloseStopCh,
           CloseSocket, Forget, JoinStop, Goto, StopInv, Placed, Over
    <2>. QED BY <2>1, OnceMoves, SessionConstants DEF Over
<1>5. StopInv /\ [OpenNext]_sessionVars /\ <<keepalive(s)>>_sessionVars /\ Over(s, k, "stop") =>
         Gone'
    BY OverStop, SessionConstants DEF keepalive, KeepaliveEnds, PingFails, Over
<1>6. StopInv /\ SharedCanStep /\ (Over(s, k, "idle") \/ Over(s, k, "stop")) =>
         KeepaliveEnabled(s)
    BY DEF SharedCanStep, StopReady, Over, StopInv
<1>7. StopInv /\ once[s] = "done" => Gone \/ Over(s, k, "idle") \/ Over(s, k, "stop")
    <2>1. StopInv /\ once[s] = "done" => pc[k] \notin {"closing", "deleting"}
        BY OverBody, SessionConstants
    <2>. QED BY <2>1 DEF StopInv, Over
<1>8. Gone => pc[k] \in {"none", "ended"}
    OBVIOUS
<1>. HIDE DEF Gone
<1>. QED
    BY <1>1, <1>2, <1>3, <1>4, <1>5, <1>6, <1>7, <1>8, PTL
    DEF Open, SessionRuns, KeepaliveEnabled

\* What is left to a reader: that it comes back from what it hands on.
ReaderReturns(s) == Over(s, Reader(s), "forwarding") ~> Over(s, Reader(s), "reading")

LEMMA ReaderStops ==
    ASSUME NEW s \in Session
    PROVE  Open /\ SessionRuns(s) /\ ReaderReturns(s) =>
              (once[s] = "done" ~> [](pc[Reader(s)] \in {"none", "ended"}))
<1>. DEFINE k == Reader(s)
            Gone == once[s] = "done" /\ pc[k] \in {"none", "ended"}
<1>1. StopInv /\ [OpenNext]_sessionVars /\ Gone => Gone'
    BY OverQuiet, OnceMoves, SessionConstants
<1>2. StopInv /\ [OpenNext]_sessionVars /\ Over(s, k, "reading") =>
         Over(s, k, "reading")' \/ Over(s, k, "stop")'
    BY OverQuiet, OnceMoves, SessionConstants DEF Over
<1>3. StopInv /\ [OpenNext]_sessionVars /\ Over(s, k, "stop") => Over(s, k, "stop")' \/ Gone'
    BY OverStop, SessionConstants DEF Over
<1>4. StopInv /\ [OpenNext]_sessionVars /\ <<reader(s)>>_sessionVars /\ Over(s, k, "reading") =>
         Over(s, k, "stop")'
    <2>1. StopInv /\ reader(s) /\ Over(s, k, "reading") => pc'[k] = "stop"
        BY Apart, SessionConstants DEF reader, ReadFails, stop, CloseStopCh, CloseSocket, Forget,
           JoinStop, Goto, StopInv, Placed, Over
    <2>. QED BY <2>1, OnceMoves, SessionConstants DEF Over
<1>5. StopInv /\ [OpenNext]_sessionVars /\ <<reader(s)>>_sessionVars /\ Over(s, k, "stop") =>
         Gone'
    BY OverStop, SessionConstants DEF reader, ReadFails, Over
<1>6. StopInv /\ SharedCanStep /\ (Over(s, k, "reading") \/ Over(s, k, "stop")) =>
         ReaderEnabled(s)
    BY OverBody, SessionConstants DEF SharedCanStep, StopReady, Over
<1>7. StopInv /\ once[s] = "done" =>
         Gone \/ Over(s, k, "reading") \/ Over(s, k, "stop") \/ Over(s, k, "forwarding")
    <2>1. StopInv /\ once[s] = "done" => pc[k] \notin {"closing", "deleting"}
        BY OverBody, SessionConstants
    <2>. QED BY <2>1 DEF StopInv, Over
<1>8. Gone => pc[k] \in {"none", "ended"}
    OBVIOUS
<1>. HIDE DEF Gone
<1>. QED
    BY <1>1, <1>2, <1>3, <1>4, <1>5, <1>6, <1>7, <1>8, PTL
    DEF Open, SessionRuns, ReaderEnabled, ReaderReturns

LEMMA RunStops ==
    ASSUME NEW s \in Session
    PROVE  Open /\ SessionRuns(s) =>
              ((Over(s, Run(s), "stop") \/ Over(s, Run(s), "ended")) ~> [](pc[Run(s)] = "ended"))
<1>. DEFINE k == Run(s)
<1>1. StopInv /\ [OpenNext]_sessionVars /\ Over(s, k, "ended") => Over(s, k, "ended")'
    BY OverQuiet, OnceMoves, SessionConstants DEF Over
<1>2. StopInv /\ [OpenNext]_sessionVars /\ Over(s, k, "stop") =>
         Over(s, k, "stop")' \/ Over(s, k, "ended")'
    BY OverStop, SessionConstants
<1>3. StopInv /\ [OpenNext]_sessionVars /\ <<stop(Run(s), s)>>_sessionVars /\ Over(s, k, "stop")
         => Over(s, k, "ended")'
    BY OverStop, SessionConstants
<1>4. SharedCanStep /\ Over(s, k, "stop") => StopEnabled(s)
    BY DEF SharedCanStep, StopReady, Over
<1>5. Over(s, k, "ended") => pc[k] = "ended"
    BY DEF Over
<1>. QED
    BY <1>1, <1>2, <1>3, <1>4, <1>5, PTL DEF Open, SessionRuns, StopEnabled

\* All of a session has come to its end.
WoundDown(s) ==
    /\ \A g \in {"run", "keepalive", "reader"} : pc[<<s, g>>] \in {"none", "ended"}
    /\ sock[s] = "closed"

\* What is left to a run goroutine: that it comes to its deferred stop.
ComesToStop(s) ==
    (once[s] = "done" /\ pc[Run(s)] \notin {"stop", "ended"}) ~> Over(s, Run(s), "stop")

\* Whoever calls stop first, the body of stop comes to its end, through a
\* connection that stalls, and the goroutines behind it leave one by one.
THEOREM StopEnds ==
    ASSUME NEW s \in Session
    PROVE  Open /\ SharedFairness /\ ComesToStop(s) /\ ReaderReturns(s) =>
              (stopCh[s] ~> WoundDown(s))
<1>1. SharedFairness => SessionRuns(s)
    BY DEF SharedFairness
<1>2. Over(s, Run(s), "stop") \/ Over(s, Run(s), "ended")
         \/ (once[s] = "done" /\ pc[Run(s)] \notin {"stop", "ended"}) \/ ~(once[s] = "done")
    BY DEF Over
<1>3. StopInv /\ [OpenNext]_sessionVars /\ once[s] = "done" => (once[s] = "done")'
    BY OnceMoves, SessionConstants
<1>4. /\ StopInv /\ once[s] = "done" /\ pc[Run(s)] = "ended"
      /\ pc[Keepalive(s)] \in {"none", "ended"} /\ pc[Reader(s)] \in {"none", "ended"}
      => WoundDown(s)
    BY DEF StopInv, WoundDown, Run, Keepalive, Reader
<1>. QED
    BY <1>1, <1>2, <1>3, <1>4, StopCompletes, KeepaliveStops, ReaderStops, RunStops, PTL
    DEF Open, ComesToStop
=============================================================================
