---------------------------- MODULE RelayProofs ----------------------------
(***************************************************************************)
(* Proofs about Relay, for any number of connections, tokens and frames    *)
(* and any capacities.                                                     *)
(*                                                                         *)
(* The argument turns on the slots of an entry.  A handler writes a slot   *)
(* once, in register, and nothing ever clears it; everything a handler     *)
(* later learns about its partner (from priv, from pairCh, in partner) is  *)
(* the content of the other slot of its own entry.                         *)
(***************************************************************************)
EXTENDS Relay, TLAPS, SequenceTheorems

\* A handler has an entry exactly from getOrCreate on; the entry's creator
\* has the same token and works on that very entry.
EntOK ==
    \A c \in Conn :
        /\ pc[c] \in {"idle", "auth", "upgraded"} => ent[c] = None
        /\ pc[c] \in {"joining", "waiting", "tunnel", "leaving"} => ent[c] # None
        /\ ent[c] # None => /\ TokenOf[ent[c]] = TokenOf[c]
                            /\ ent[ent[c]] = ent[c]

\* A token leads to an entry created for that token.
StoreOK ==
    \A t \in Token : sessions[t] # None =>
        TokenOf[sessions[t]] = t /\ ent[sessions[t]] = sessions[t]

\* A slot holds a handler of that role which registered in that entry.
SlotOK ==
    \A e \in Conn, r \in Roles : slot[e][r] # None =>
        /\ ent[slot[e][r]] = e
        /\ RoleOf(slot[e][r]) = r
        /\ pc[slot[e][r]] \in {"waiting", "tunnel", "leaving", "closed"}

\* c holds its role's slot, and the other slot holds d.
Coupled(c, d) ==
    /\ ent[c] # None
    /\ slot[ent[c]][RoleOf(c)] = c
    /\ slot[ent[c]][Other(RoleOf(c))] = d

\* What register and Pair told a handler is what the slots say.
ChannelsOK ==
    \A c \in Conn :
        /\ pc[c] \in {"waiting", "tunnel", "leaving"} =>
               slot[ent[c]][RoleOf(c)] = c
        /\ priv[c] # None => Coupled(c, priv[c])
        /\ partner[c] # None => Coupled(c, partner[c])
        /\ pairCh[c] # None => /\ ent[pairCh[c]] = c
                               /\ slot[c][RoleOf(pairCh[c])] = pairCh[c]
                               /\ slot[c][Other(RoleOf(pairCh[c]))] # None
        /\ (pc[c] = "waiting" /\ pairCh[ent[c]] = c) => priv[c] # None
        /\ (pc[c] \in {"tunnel", "leaving"} \/ pump[c] # "off") => partner[c] # None

\* The registered handlers of an entry the store still has are all alive, and
\* while it has none its creator is about to register.
LiveOK ==
    \A t \in Token : sessions[t] # None =>
        LET e == sessions[t] IN
        /\ \A r \in Roles : slot[e][r] # None => pc[slot[e][r]] \in {"waiting", "tunnel"}
        /\ (\A r \in Roles : slot[e][r] = None) => pc[e] = "joining"

IInv == TypeOK /\ EntOK /\ StoreOK /\ SlotOK /\ ChannelsOK /\ LiveOK
-----------------------------------------------------------------------------
\* Frames are frames; queues stay queues of frames under the two operations.
LEMMA QueueOps ==
    ASSUME NEW q \in Seq(Frame), NEW f \in Frame
    PROVE  /\ Append(q, f) \in Seq(Frame)
           /\ q # <<>> => Head(q) \in Frame /\ Tail(q) \in Seq(Frame)
BY HeadTailProperties, AppendProperties

LEMMA BufferOps ==
    ASSUME NEW q \in Buffer, NEW f \in Frame
    PROVE  /\ q \in Seq(Frame)
           /\ Len(q) < SendCap => Append(q, f) \in Buffer
           /\ q # <<>> => Tail(q) \in Buffer
<1>1. q \in Seq(Frame) /\ Len(q) \in Nat /\ Len(q) <= SendCap
  BY DEF Buffer
<1>2. Append(q, f) \in Seq(Frame) /\ Len(Append(q, f)) = Len(q) + 1
  BY <1>1, AppendProperties
<1>3. q # <<>> => Tail(q) \in Seq(Frame) /\ Len(Tail(q)) = Len(q) - 1
  BY <1>1, HeadTailProperties
<1>. QED BY <1>1, <1>2, <1>3, ConstantsOK DEF Buffer

LEMMA FrameTypes ==
    ASSUME NEW c \in Conn, NEW k \in Nat
    PROVE  /\ Bye(c) \in Frame
           /\ [src |-> c, kind |-> "data", n |-> k] \in Frame
BY DEF Bye, Frame

LEMMA RoleFacts ==
    ASSUME NEW c \in Conn
    PROVE  /\ RoleOf(c) \in Roles /\ Other(RoleOf(c)) \in Roles
           /\ Other(RoleOf(c)) # RoleOf(c)
           /\ Other(Other(RoleOf(c))) = RoleOf(c)
           /\ \A r \in Roles : r # RoleOf(c) => r = Other(RoleOf(c))
BY DEF RoleOf, Roles, Other

LEMMA InitIInv == Init => IInv
<1> SUFFICES ASSUME Init PROVE IInv
    OBVIOUS
<1>1. TypeOK
  <2>1. <<>> \in Buffer
    BY ConstantsOK DEF Buffer
  <2>. QED BY <2>1, ConstantsOK DEF Init, TypeOK
<1>2. EntOK /\ StoreOK /\ SlotOK /\ ChannelsOK /\ LiveOK
  BY DEF Init, EntOK, StoreOK, SlotOK, ChannelsOK, LiveOK
<1>. QED BY <1>1, <1>2 DEF IInv

\* Every step is one of the actions, by some connection.
LEMMA StepCases ==
    ASSUME [Next]_vars,
           NEW ACTION P,
           UNCHANGED vars => P,
           \A c \in Conn :
              (\/ Request(c) \/ Reject(c) \/ Upgrade(c) \/ IdleTimeout(c)
               \/ ClientClose(c) \/ ReadPing(c)) => P,
           \A c \in Conn : FindEntry(c) \/ ServerFull(c) \/ CreateEntry(c) => P,
           \A c \in Conn : RoleTaken(c) \/ RegisterFirst(c) \/ RegisterSecond(c) => P,
           \A c \in Conn : PairFirst(c) \/ PairSecond(c) => P,
           \A c \in Conn : GiveUp(c) \/ ReadError(c) => P,
           \A c \in Conn : ReadData(c) \/ SayBye(c) => P,
           \A c \in Conn :
              PumpDeliver(c) \/ PumpLose(c) \/ PumpFail(c) \/ PumpStop(c) => P
    PROVE  P
BY DEF Next, Handler, Pump, Client, PairTimeout, ContextDone, getOrCreate,
       register, Pair

\* Once registered, a handler's entry is a connection's.
LEMMA EntConn ==
    ASSUME IInv, NEW c \in Conn,
           pc[c] \in {"joining", "waiting", "tunnel", "leaving"}
    PROVE  ent[c] \in Conn
BY DEF IInv, TypeOK, EntOK

LEMMA PartnerConn ==
    ASSUME IInv, NEW c \in Conn,
           pc[c] \in {"tunnel", "leaving"} \/ pump[c] # "off"
    PROVE  partner[c] \in Conn
BY DEF IInv, TypeOK, ChannelsOK

\* Type correctness is preserved, one step per action.
LEMMA TypeStep == IInv /\ [Next]_vars => TypeOK'
<1> SUFFICES ASSUME IInv, [Next]_vars PROVE TypeOK'
    OBVIOUS
<1>. USE ConstantsOK DEF TypeOK, storeVars, tunnelVars, netVars
<1>. TypeOK
  BY DEF IInv
<1>1. ASSUME UNCHANGED vars PROVE TypeOK'
  BY <1>1 DEF vars
<1>2. ASSUME NEW c \in Conn,
             \/ Request(c) \/ Reject(c) \/ Upgrade(c) \/ IdleTimeout(c)
             \/ ClientClose(c) \/ ReadPing(c)
      PROVE TypeOK'
  <2>1. CASE Request(c)      BY <2>1 DEF Request
  <2>2. CASE Reject(c)       BY <2>2 DEF Reject, Return
  <2>3. CASE Upgrade(c)      BY <2>3 DEF Upgrade
  <2>4. CASE IdleTimeout(c)  BY <2>4 DEF IdleTimeout
  <2>5. CASE ClientClose(c)  BY <2>5 DEF ClientClose
  <2>6. CASE ReadPing(c)     BY <2>6 DEF ReadPing
  <2>. QED BY <1>2, <2>1, <2>2, <2>3, <2>4, <2>5, <2>6
<1>3. ASSUME NEW c \in Conn, FindEntry(c) \/ ServerFull(c) \/ CreateEntry(c)
      PROVE TypeOK'
  <2>1. CASE FindEntry(c)    BY <2>1 DEF FindEntry
  <2>2. CASE ServerFull(c)   BY <2>2 DEF ServerFull, Return
  <2>3. CASE CreateEntry(c)  BY <2>3 DEF CreateEntry
  <2>. QED BY <1>3, <2>1, <2>2, <2>3
<1>4. ASSUME NEW c \in Conn, RoleTaken(c) \/ RegisterFirst(c) \/ RegisterSecond(c)
      PROVE TypeOK'
  <2>1. CASE RoleTaken(c)    BY <2>1 DEF RoleTaken, Return
  <2>2. ASSUME pc[c] = "joining", Claim(c)
        PROVE  /\ slot' \in [Conn -> [Roles -> Conn \cup {None}]]
               /\ pc' \in [Conn -> {"idle", "auth", "upgraded", "joining",
                                    "waiting", "tunnel", "leaving", "closed"}]
               /\ UNCHANGED <<sessions, ent, partner, tunnelVars, netVars>>
               /\ OtherSlot(c) \in Conn \cup {None}
    <3>1. ent[c] \in Conn
      BY <2>2, EntConn
    <3>2. slot[ent[c]] \in [Roles -> Conn \cup {None}]
      BY <3>1
    <3>3. [slot[ent[c]] EXCEPT ![RoleOf(c)] = c] \in [Roles -> Conn \cup {None}]
      BY <3>2, RoleFacts
    <3>4. OtherSlot(c) \in Conn \cup {None}
      BY <3>2, RoleFacts DEF OtherSlot
    <3>. QED BY <2>2, <3>1, <3>3, <3>4 DEF Claim
  <2>3. CASE RegisterFirst(c)
    BY <2>2, <2>3 DEF RegisterFirst
  <2>4. CASE RegisterSecond(c)
    BY <2>2, <2>4 DEF RegisterSecond
  <2>. QED BY <1>4, <2>1, <2>3, <2>4
<1>5. ASSUME NEW c \in Conn, PairFirst(c) \/ PairSecond(c) PROVE TypeOK'
  <2>1. ent[c] \in Conn
    BY <1>5, EntConn DEF PairFirst, PairSecond
  <2>2. CASE PairFirst(c)    BY <2>1, <2>2 DEF PairFirst, Tunnel
  <2>3. CASE PairSecond(c)   BY <2>3 DEF PairSecond, Tunnel
  <2>. QED BY <1>5, <2>2, <2>3
<1>6. ASSUME NEW c \in Conn, GiveUp(c) \/ ReadError(c) PROVE TypeOK'
  <2>1. CASE GiveUp(c)       BY <2>1 DEF GiveUp, Return, remove
  <2>2. CASE ReadError(c)    BY <2>2 DEF ReadError, remove
  <2>. QED BY <1>6, <2>1, <2>2
<1>7. ASSUME NEW c \in Conn, ReadData(c) \/ SayBye(c) PROVE TypeOK'
  <2>1. partner[c] \in Conn
    BY <1>7, PartnerConn DEF ReadData, SayBye
  <2>2. ASSUME NEW f \in Frame, Offer(c, f) PROVE sendCh' \in [Conn -> Buffer]
    BY <2>1, <2>2, BufferOps DEF Offer
  <2>3. CASE ReadData(c)
    <3>1. sendCh' \in [Conn -> Buffer]
      BY <2>2, <2>3, FrameTypes DEF ReadData
    <3>2. /\ sent' = [sent EXCEPT ![c] = @ + 1]
          /\ UNCHANGED <<storeVars, pc, ent, partner, pump, stopped, delivered, netVars>>
      BY <2>3 DEF ReadData
    <3>. QED BY <3>1, <3>2
  <2>4. CASE SayBye(c)
    <3>1. sendCh' \in [Conn -> Buffer]
      BY <2>2, <2>4, FrameTypes DEF SayBye
    <3>. QED BY <2>4, <3>1 DEF SayBye, Return
  <2>. QED BY <1>7, <2>3, <2>4
<1>8. ASSUME NEW c \in Conn,
             PumpDeliver(c) \/ PumpLose(c) \/ PumpFail(c) \/ PumpStop(c)
      PROVE TypeOK'
  <2>1. ASSUME Take(c)
        PROVE  /\ sendCh' \in [Conn -> Buffer]
               /\ Head(sendCh[partner[c]]) \in Frame
               /\ UNCHANGED <<storeVars, pc, ent, partner, sent, netVars>>
    <3>1. partner[c] \in Conn
      BY <2>1, PartnerConn DEF Take
    <3>2. sendCh[partner[c]] \in Buffer /\ sendCh[partner[c]] # <<>>
      BY <2>1, <3>1 DEF Take
    <3>3. sendCh[partner[c]] \in Seq(Frame)
      BY <3>2 DEF Buffer
    <3>4. Head(sendCh[partner[c]]) \in Frame
      BY <3>2, <3>3, HeadTailProperties
    <3>5. Tail(sendCh[partner[c]]) \in Buffer
      BY <3>2, <3>4, BufferOps
    <3>. QED BY <2>1, <3>1, <3>4, <3>5 DEF Take
  <2>2. CASE PumpDeliver(c)
    <3>1. delivered[c] \in Seq(Frame)
      OBVIOUS
    <3>2. delivered' \in [Conn -> Seq(Frame)]
      BY <2>1, <2>2, <3>1, QueueOps DEF PumpDeliver
    <3>. QED BY <2>1, <2>2, <3>2 DEF PumpDeliver
  <2>3. CASE PumpLose(c)     BY <2>1, <2>3 DEF PumpLose
  <2>4. CASE PumpFail(c)     BY <2>1, <2>4 DEF PumpFail
  <2>5. CASE PumpStop(c)     BY <2>5 DEF PumpStop
  <2>. QED BY <1>8, <2>2, <2>3, <2>4, <2>5
<1>. QED
  BY <1>1, <1>2, <1>3, <1>4, <1>5, <1>6, <1>7, <1>8, StepCases

LEMMA EntStep == IInv /\ [Next]_vars => EntOK'
<1> SUFFICES ASSUME IInv, [Next]_vars PROVE EntOK'
    OBVIOUS
<1>. USE ConstantsOK DEF EntOK, TypeOK, storeVars, tunnelVars, netVars
<1>. TypeOK /\ EntOK /\ StoreOK
  BY DEF IInv
<1>1. ASSUME UNCHANGED vars PROVE EntOK'
  BY <1>1 DEF vars
<1>2. ASSUME NEW c \in Conn,
             \/ Request(c) \/ Reject(c) \/ Upgrade(c) \/ IdleTimeout(c)
             \/ ClientClose(c) \/ ReadPing(c)
      PROVE EntOK'
  BY <1>2 DEF Request, Reject, Upgrade, IdleTimeout, ClientClose, ReadPing, Return
<1>3. ASSUME NEW c \in Conn, FindEntry(c) \/ ServerFull(c) \/ CreateEntry(c)
      PROVE EntOK'
  <2>1. CASE FindEntry(c)    BY <2>1 DEF FindEntry, StoreOK
  <2>2. CASE ServerFull(c)   BY <2>2 DEF ServerFull, Return
  <2>3. CASE CreateEntry(c)  BY <2>3 DEF CreateEntry
  <2>. QED BY <1>3, <2>1, <2>2, <2>3
<1>4. ASSUME NEW c \in Conn, RoleTaken(c) \/ RegisterFirst(c) \/ RegisterSecond(c)
      PROVE EntOK'
  BY <1>4 DEF RoleTaken, RegisterFirst, RegisterSecond, Claim, Return
<1>5. ASSUME NEW c \in Conn, PairFirst(c) \/ PairSecond(c) PROVE EntOK'
  BY <1>5 DEF PairFirst, PairSecond, Tunnel
<1>6. ASSUME NEW c \in Conn, GiveUp(c) \/ ReadError(c) PROVE EntOK'
  BY <1>6 DEF GiveUp, ReadError, Return
<1>7. ASSUME NEW c \in Conn, ReadData(c) \/ SayBye(c) PROVE EntOK'
  BY <1>7 DEF ReadData, SayBye, Return
<1>8. ASSUME NEW c \in Conn,
             PumpDeliver(c) \/ PumpLose(c) \/ PumpFail(c) \/ PumpStop(c)
      PROVE EntOK'
  BY <1>8 DEF PumpDeliver, PumpLose, PumpFail, PumpStop, Take
<1>. QED
  BY <1>1, <1>2, <1>3, <1>4, <1>5, <1>6, <1>7, <1>8, StepCases

LEMMA StoreStep == IInv /\ [Next]_vars => StoreOK'
<1> SUFFICES ASSUME IInv, [Next]_vars PROVE StoreOK'
    OBVIOUS
<1>. USE ConstantsOK DEF StoreOK, TypeOK, storeVars, tunnelVars, netVars
<1>. TypeOK /\ EntOK /\ StoreOK
  BY DEF IInv
<1>1. ASSUME UNCHANGED vars PROVE StoreOK'
  BY <1>1 DEF vars
<1>2. ASSUME NEW c \in Conn,
             \/ Request(c) \/ Reject(c) \/ Upgrade(c) \/ IdleTimeout(c)
             \/ ClientClose(c) \/ ReadPing(c)
      PROVE StoreOK'
  BY <1>2 DEF Request, Reject, Upgrade, IdleTimeout, ClientClose, ReadPing, Return
<1>3. ASSUME NEW c \in Conn, FindEntry(c) \/ ServerFull(c) \/ CreateEntry(c)
      PROVE StoreOK'
  <2>. ServerFull(c) \/ ent[c] = None
    BY <1>3 DEF FindEntry, CreateEntry, EntOK
  <2>1. CASE FindEntry(c)    BY <2>1 DEF FindEntry
  <2>2. CASE ServerFull(c)   BY <2>2 DEF ServerFull, Return
  <2>3. CASE CreateEntry(c)  BY <2>3 DEF CreateEntry
  <2>. QED BY <1>3, <2>1, <2>2, <2>3
<1>4. ASSUME NEW c \in Conn, RoleTaken(c) \/ RegisterFirst(c) \/ RegisterSecond(c)
      PROVE StoreOK'
  BY <1>4 DEF RoleTaken, RegisterFirst, RegisterSecond, Claim, Return
<1>5. ASSUME NEW c \in Conn, PairFirst(c) \/ PairSecond(c) PROVE StoreOK'
  BY <1>5 DEF PairFirst, PairSecond, Tunnel
<1>6. ASSUME NEW c \in Conn, GiveUp(c) \/ ReadError(c) PROVE StoreOK'
  <2>1. ent' = ent /\ sessions' = [sessions EXCEPT ![TokenOf[c]] = None]
    BY <1>6 DEF GiveUp, ReadError, remove
  <2>2. \A t \in Token : sessions'[t] # None => sessions'[t] = sessions[t]
    BY <2>1
  <2>. QED BY <2>1, <2>2
<1>7. ASSUME NEW c \in Conn, ReadData(c) \/ SayBye(c) PROVE StoreOK'
  BY <1>7 DEF ReadData, SayBye, Return
<1>8. ASSUME NEW c \in Conn,
             PumpDeliver(c) \/ PumpLose(c) \/ PumpFail(c) \/ PumpStop(c)
      PROVE StoreOK'
  BY <1>8 DEF PumpDeliver, PumpLose, PumpFail, PumpStop, Take
<1>. QED
  BY <1>1, <1>2, <1>3, <1>4, <1>5, <1>6, <1>7, <1>8, StepCases

\* What a claim does to the slots: it fills one empty one.
LEMMA ClaimFacts ==
    ASSUME IInv, NEW c \in Conn, pc[c] = "joining", Claim(c)
    PROVE  /\ ent[c] \in Conn
           /\ slot[ent[c]][RoleOf(c)] = None
           /\ \A e \in Conn, r \in Roles :
                 slot'[e][r] = IF e = ent[c] /\ r = RoleOf(c) THEN c ELSE slot[e][r]
           /\ pc' = [pc EXCEPT ![c] = "waiting"]
           /\ UNCHANGED <<sessions, ent, partner, tunnelVars, netVars>>
<1>1. ent[c] \in Conn
  BY EntConn
<1>2. slot \in [Conn -> [Roles -> Conn \cup {None}]]
  BY DEF IInv, TypeOK
<1>3. slot[ent[c]] \in [Roles -> Conn \cup {None}]
  BY <1>1, <1>2
<1>4. slot' = [slot EXCEPT ![ent[c]] = [slot[ent[c]] EXCEPT ![RoleOf(c)] = c]]
  BY DEF Claim
<1>5. \A e \in Conn : slot'[e] = IF e = ent[c] THEN [slot[ent[c]] EXCEPT ![RoleOf(c)] = c]
                                ELSE slot[e]
  BY <1>1, <1>2, <1>4
<1>6. \A r \in Roles : [slot[ent[c]] EXCEPT ![RoleOf(c)] = c][r] =
                          IF r = RoleOf(c) THEN c ELSE slot[ent[c]][r]
  BY <1>3
<1>7. \A e \in Conn, r \in Roles :
         slot'[e][r] = IF e = ent[c] /\ r = RoleOf(c) THEN c ELSE slot[e][r]
  BY <1>5, <1>6
<1>. QED BY <1>1, <1>7 DEF Claim, OwnSlot

\* Slots and entries unchanged, one handler moved on without leaving the
\* registered states: SlotOK stays.
LEMMA SlotKept ==
    ASSUME IInv, NEW c \in Conn, slot' = slot, ent' = ent,
           \A d \in Conn : d # c => pc'[d] = pc[d],
           pc[c] \in {"waiting", "tunnel", "leaving", "closed"} =>
               pc'[c] \in {"waiting", "tunnel", "leaving", "closed"}
    PROVE  SlotOK'
<1>1. SUFFICES ASSUME NEW e \in Conn, NEW r \in Roles, slot[e][r] # None
               PROVE  /\ ent[slot[e][r]] = e
                      /\ RoleOf(slot[e][r]) = r
                      /\ pc'[slot[e][r]] \in {"waiting", "tunnel", "leaving", "closed"}
  BY DEF SlotOK
<1>2. slot[e][r] \in Conn
  BY <1>1 DEF IInv, TypeOK
<1>. QED BY <1>1, <1>2 DEF IInv, SlotOK

\* Likewise for LiveOK, when the store is unchanged too.
LEMMA LiveKept ==
    ASSUME IInv, NEW c \in Conn, slot' = slot, sessions' = sessions,
           \A d \in Conn : d # c => pc'[d] = pc[d],
           pc[c] \in {"waiting", "tunnel"} => pc'[c] \in {"waiting", "tunnel"},
           pc[c] = "joining" => pc'[c] = "joining"
    PROVE  LiveOK'
<1>1. SUFFICES ASSUME NEW t \in Token, sessions[t] # None
               PROVE  LET e == sessions[t] IN
                      /\ \A r \in Roles : slot[e][r] # None =>
                            pc'[slot[e][r]] \in {"waiting", "tunnel"}
                      /\ (\A r \in Roles : slot[e][r] = None) => pc'[e] = "joining"
  BY DEF LiveOK
<1>2. sessions[t] \in Conn /\ \A r \in Roles : slot[sessions[t]][r] \in Conn \cup {None}
  BY <1>1 DEF IInv, TypeOK
<1>. QED BY <1>1, <1>2 DEF IInv, LiveOK

\* The effect of each action on the handlers' positions.
LEMMA Positions ==
    ASSUME IInv, NEW c \in Conn
    PROVE  /\ Request(c) \/ Reject(c) \/ Upgrade(c) \/ FindEntry(c) \/ ServerFull(c)
              \/ CreateEntry(c) \/ RoleTaken(c) \/ Claim(c) \/ PairFirst(c)
              \/ PairSecond(c) \/ GiveUp(c) \/ ReadError(c) \/ SayBye(c) =>
                  \A d \in Conn : d # c => pc'[d] = pc[d]
           /\ PairFirst(c) \/ PairSecond(c) => pc'[c] = "tunnel"
           /\ ReadError(c) => pc'[c] = "leaving"
           /\ Reject(c) \/ ServerFull(c) \/ RoleTaken(c) \/ GiveUp(c) \/ SayBye(c) =>
                  pc'[c] = "closed"
<1>. USE DEF IInv, TypeOK
<1>1. \A d \in Conn, x \in STRING :
         pc' = [pc EXCEPT ![c] = x] => pc'[d] = IF d = c THEN x ELSE pc[d]
  OBVIOUS
<1>2. /\ Request(c) => pc' = [pc EXCEPT ![c] = "auth"]
      /\ Upgrade(c) => pc' = [pc EXCEPT ![c] = "upgraded"]
      /\ FindEntry(c) \/ CreateEntry(c) => pc' = [pc EXCEPT ![c] = "joining"]
      /\ Claim(c) => pc' = [pc EXCEPT ![c] = "waiting"]
      /\ PairFirst(c) \/ PairSecond(c) => pc' = [pc EXCEPT ![c] = "tunnel"]
      /\ ReadError(c) => pc' = [pc EXCEPT ![c] = "leaving"]
      /\ Reject(c) \/ ServerFull(c) \/ RoleTaken(c) \/ GiveUp(c) \/ SayBye(c) =>
            pc' = [pc EXCEPT ![c] = "closed"]
  BY DEF Request, Upgrade, FindEntry, CreateEntry, Claim, PairFirst, PairSecond, Tunnel,
         ReadError, Reject, ServerFull, RoleTaken, GiveUp, SayBye, Return
<1>. QED BY <1>1, <1>2

LEMMA SlotStep == IInv /\ [Next]_vars => SlotOK'
<1> SUFFICES ASSUME IInv, [Next]_vars PROVE SlotOK'
    OBVIOUS
<1>. USE ConstantsOK DEF SlotOK, TypeOK, storeVars, tunnelVars, netVars
<1>. TypeOK /\ EntOK /\ SlotOK
  BY DEF IInv
<1>1. ASSUME UNCHANGED vars PROVE SlotOK'
  BY <1>1 DEF vars
<1>2. ASSUME NEW c \in Conn,
             \/ Request(c) \/ Reject(c) \/ Upgrade(c) \/ IdleTimeout(c)
             \/ ClientClose(c) \/ ReadPing(c)
      PROVE SlotOK'
  BY <1>2 DEF Request, Reject, Upgrade, IdleTimeout, ClientClose, ReadPing, Return
<1>3. ASSUME NEW c \in Conn, FindEntry(c) \/ ServerFull(c) \/ CreateEntry(c)
      PROVE SlotOK'
  <2>1. CASE FindEntry(c)    BY <2>1 DEF FindEntry
  <2>2. CASE ServerFull(c)   BY <2>2 DEF ServerFull, Return
  <2>3. CASE CreateEntry(c)  BY <2>3 DEF CreateEntry
  <2>. QED BY <1>3, <2>1, <2>2, <2>3
<1>4. ASSUME NEW c \in Conn, RoleTaken(c) \/ RegisterFirst(c) \/ RegisterSecond(c)
      PROVE SlotOK'
  <2>1. CASE RoleTaken(c)    BY <2>1 DEF RoleTaken, Return
  <2>2. CASE Claim(c) /\ pc[c] = "joining"
    <3>1. SUFFICES ASSUME NEW e \in Conn, NEW r \in Roles, slot'[e][r] # None
                   PROVE  /\ ent[slot'[e][r]] = e
                          /\ RoleOf(slot'[e][r]) = r
                          /\ pc'[slot'[e][r]] \in {"waiting", "tunnel", "leaving", "closed"}
      BY <2>2, ClaimFacts
    <3>2. CASE e = ent[c] /\ r = RoleOf(c)
      BY <2>2, <3>1, <3>2, ClaimFacts
    <3>3. CASE ~(e = ent[c] /\ r = RoleOf(c))
      <4>1. slot'[e][r] = slot[e][r] /\ slot[e][r] \in Conn /\ slot[e][r] # c
        BY <2>2, <3>1, <3>3, ClaimFacts
      <4>. QED BY <2>2, <3>1, <4>1, Positions
    <3>. QED BY <3>2, <3>3
  <2>. QED BY <1>4, <2>1, <2>2 DEF RegisterFirst, RegisterSecond
<1>5. ASSUME NEW c \in Conn, PairFirst(c) \/ PairSecond(c) PROVE SlotOK'
  <2>1. slot' = slot /\ ent' = ent
    BY <1>5 DEF PairFirst, PairSecond, Tunnel
  <2>2. pc'[c] = "tunnel" /\ \A d \in Conn : d # c => pc'[d] = pc[d]
    BY <1>5, Positions
  <2>. HIDE DEF SlotOK, TypeOK
  <2>. QED BY <2>1, <2>2, SlotKept
<1>6. ASSUME NEW c \in Conn, GiveUp(c) \/ ReadError(c) PROVE SlotOK'
  <2>1. slot' = slot /\ ent' = ent
    BY <1>6 DEF GiveUp, ReadError
  <2>2. pc'[c] \in {"leaving", "closed"} /\ \A d \in Conn : d # c => pc'[d] = pc[d]
    BY <1>6, Positions
  <2>. HIDE DEF SlotOK, TypeOK
  <2>. QED BY <2>1, <2>2, SlotKept
<1>7. ASSUME NEW c \in Conn, ReadData(c) \/ SayBye(c) PROVE SlotOK'
  BY <1>7 DEF ReadData, SayBye, Return
<1>8. ASSUME NEW c \in Conn,
             PumpDeliver(c) \/ PumpLose(c) \/ PumpFail(c) \/ PumpStop(c)
      PROVE SlotOK'
  BY <1>8 DEF PumpDeliver, PumpLose, PumpFail, PumpStop, Take
<1>. HIDE DEF SlotOK, TypeOK, storeVars, tunnelVars, netVars
<1>. QED
  BY <1>1, <1>2, <1>3, <1>4, <1>5, <1>6, <1>7, <1>8, StepCases

LEMMA LiveStep == IInv /\ [Next]_vars => LiveOK'
<1> SUFFICES ASSUME IInv, [Next]_vars PROVE LiveOK'
    OBVIOUS
<1>. USE ConstantsOK DEF LiveOK, TypeOK, storeVars, tunnelVars, netVars
<1>. TypeOK /\ EntOK /\ StoreOK /\ SlotOK /\ LiveOK
  BY DEF IInv
<1>1. ASSUME UNCHANGED vars PROVE LiveOK'
  BY <1>1 DEF vars
<1>2. ASSUME NEW c \in Conn,
             \/ Request(c) \/ Reject(c) \/ Upgrade(c) \/ IdleTimeout(c)
             \/ ClientClose(c) \/ ReadPing(c)
      PROVE LiveOK'
  <2>1. CASE Request(c)
    <3>1. slot' = slot /\ sessions' = sessions /\ pc[c] = "idle"
      BY <2>1 DEF Request
    <3>2. \A d \in Conn : d # c => pc'[d] = pc[d]
      BY <2>1, Positions
    <3>. HIDE DEF LiveOK, TypeOK
    <3>. QED BY <3>1, <3>2, LiveKept
  <2>2. CASE Reject(c)
    <3>1. slot' = slot /\ sessions' = sessions /\ pc[c] = "auth"
      BY <2>2 DEF Reject
    <3>2. \A d \in Conn : d # c => pc'[d] = pc[d]
      BY <2>2, Positions
    <3>. HIDE DEF LiveOK, TypeOK
    <3>. QED BY <3>1, <3>2, LiveKept
  <2>3. CASE Upgrade(c)
    <3>1. slot' = slot /\ sessions' = sessions /\ pc[c] = "auth"
      BY <2>3 DEF Upgrade
    <3>2. \A d \in Conn : d # c => pc'[d] = pc[d]
      BY <2>3, Positions
    <3>. HIDE DEF LiveOK, TypeOK
    <3>. QED BY <3>1, <3>2, LiveKept
  <2>4. CASE IdleTimeout(c) \/ ClientClose(c) \/ ReadPing(c)
    BY <2>4 DEF IdleTimeout, ClientClose, ReadPing
  <2>. QED BY <1>2, <2>1, <2>2, <2>3, <2>4
<1>3. ASSUME NEW c \in Conn, FindEntry(c) \/ ServerFull(c) \/ CreateEntry(c)
      PROVE LiveOK'
  <2>1. CASE FindEntry(c)    BY <2>1 DEF FindEntry
  <2>2. CASE ServerFull(c)   BY <2>2 DEF ServerFull, Return
  <2>3. CASE CreateEntry(c)
    <3>1. ent[c] = None
      BY <2>3 DEF CreateEntry, EntOK
    <3>2. ASSUME NEW r \in Roles, slot[c][r] # None PROVE FALSE
      <4>1. slot[c] \in [Roles -> Conn \cup {None}]
        OBVIOUS
      <4>2. slot[c][r] \in Conn /\ ent[slot[c][r]] = c
        BY <3>2, <4>1 DEF SlotOK
      <4>3. EntOK
        BY DEF IInv
      <4>4. c # None
        BY ConstantsOK
      <4>. QED BY <3>1, <4>2, <4>3, <4>4 DEF EntOK
    <3>. QED BY <2>3, <3>1, <3>2 DEF CreateEntry
  <2>. QED BY <1>3, <2>1, <2>2, <2>3
<1>4. ASSUME NEW c \in Conn, RoleTaken(c) \/ RegisterFirst(c) \/ RegisterSecond(c)
      PROVE LiveOK'
  <2>1. CASE RoleTaken(c)
    <3>1. ent[c] \in Conn /\ RoleOf(c) \in Roles /\ slot[ent[c]][RoleOf(c)] # None
      BY <2>1, EntConn, RoleFacts DEF RoleTaken, OwnSlot
    <3>2. ASSUME NEW t \in Token, sessions[t] = c
          PROVE  ent[c] = c
      BY <3>2 DEF StoreOK
    <3>. QED BY <2>1, <3>1, <3>2 DEF RoleTaken, Return
  <2>2. CASE Claim(c) /\ pc[c] = "joining"
    <3>0. /\ sessions' = sessions
          /\ \A e \in Conn, r \in Roles :
                slot'[e][r] = IF e = ent[c] /\ r = RoleOf(c) THEN c ELSE slot[e][r]
      BY <2>2, ClaimFacts
    <3>1. SUFFICES ASSUME NEW t \in Token, sessions[t] # None
                   PROVE  LET e == sessions[t] IN
                          /\ \A r \in Roles : slot'[e][r] # None =>
                                pc'[slot'[e][r]] \in {"waiting", "tunnel"}
                          /\ (\A r \in Roles : slot'[e][r] = None) => pc'[e] = "joining"
      BY <3>0
    <3>. DEFINE e == sessions[t]
    <3>2. e \in Conn /\ ent[e] = e
      BY <3>1 DEF StoreOK
    <3>3. ASSUME NEW r \in Roles, slot'[e][r] # None
          PROVE  pc'[slot'[e][r]] \in {"waiting", "tunnel"}
      <4>1. CASE e = ent[c] /\ r = RoleOf(c)
        <5>1. slot'[e][r] = c
          BY <2>2, <3>2, <4>1, ClaimFacts
        <5>2. pc'[c] = "waiting"
          BY <2>2, ClaimFacts
        <5>. QED BY <5>1, <5>2
      <4>2. CASE ~(e = ent[c] /\ r = RoleOf(c))
        <5>1. slot'[e][r] = slot[e][r] /\ slot[e][r] # None
          BY <2>2, <3>2, <3>3, <4>2, ClaimFacts
        <5>2. slot[e][r] \in Conn /\ pc[slot[e][r]] \in {"waiting", "tunnel"}
          BY <3>1, <3>2, <5>1
        <5>3. slot[e][r] # c
          BY <2>2, <5>2
        <5>4. pc'[slot[e][r]] = pc[slot[e][r]]
          BY <2>2, <5>2, <5>3, Positions
        <5>. QED BY <5>1, <5>2, <5>4
      <4>. QED BY <4>1, <4>2
    <3>4. ASSUME \A r \in Roles : slot'[e][r] = None PROVE pc'[e] = "joining"
      <4>1. e # ent[c]
        <5>1. RoleOf(c) \in Roles /\ c # None
          BY RoleFacts
        <5>2. slot'[e][RoleOf(c)] = None
          BY <3>4, <5>1
        <5>. QED BY <3>0, <3>2, <5>1, <5>2
      <4>2. e # c /\ \A r \in Roles : slot[e][r] = None
        <5>1. ASSUME NEW r \in Roles PROVE slot[e][r] = None
          <6>1. slot'[e][r] = None
            BY <3>4
          <6>. QED BY <3>0, <3>2, <4>1, <6>1
        <5>. QED BY <3>2, <4>1, <5>1
      <4>3. pc[e] = "joining"
        BY <3>1, <4>2
      <4>. QED BY <2>2, <3>2, <4>2, <4>3, Positions
    <3>. QED BY <3>3, <3>4
  <2>. QED BY <1>4, <2>1, <2>2 DEF RegisterFirst, RegisterSecond
<1>5. ASSUME NEW c \in Conn, PairFirst(c) \/ PairSecond(c) PROVE LiveOK'
  <2>1. slot' = slot /\ sessions' = sessions /\ pc[c] = "waiting"
    BY <1>5 DEF PairFirst, PairSecond, Tunnel
  <2>2. pc'[c] = "tunnel" /\ \A d \in Conn : d # c => pc'[d] = pc[d]
    BY <1>5, Positions
  <2>. HIDE DEF LiveOK, TypeOK
  <2>. QED BY <2>1, <2>2, LiveKept
<1>6. ASSUME NEW c \in Conn, GiveUp(c) \/ ReadError(c) PROVE LiveOK'
  <2>1. pc[c] \in {"waiting", "tunnel"} /\ sessions' = [sessions EXCEPT ![TokenOf[c]] = None]
    BY <1>6 DEF GiveUp, ReadError, remove
  <2>2. ASSUME NEW t \in Token, sessions'[t] # None
        PROVE  /\ sessions'[t] = sessions[t] /\ sessions[t] \in Conn
               /\ t # TokenOf[c] /\ ent[c] # sessions[t] /\ c # sessions[t]
    BY <2>1, <2>2 DEF StoreOK, EntOK
  <2>3. /\ slot' = slot
        /\ \A d \in Conn : d # c => pc'[d] = pc[d]
    BY <1>6, Positions DEF GiveUp, ReadError
  <2>4. SUFFICES ASSUME NEW t \in Token, sessions'[t] # None
                 PROVE  LET e == sessions[t] IN
                        /\ \A r \in Roles : slot[e][r] # None =>
                              pc'[slot[e][r]] \in {"waiting", "tunnel"}
                        /\ (\A r \in Roles : slot[e][r] = None) => pc'[e] = "joining"
    BY <2>2, <2>3
  <2>5. \A r \in Roles : slot[sessions[t]][r] # None =>
            slot[sessions[t]][r] \in Conn /\ slot[sessions[t]][r] # c
    BY <2>2, <2>4 DEF SlotOK
  <2>. QED BY <2>2, <2>3, <2>4, <2>5
<1>7. ASSUME NEW c \in Conn, ReadData(c) \/ SayBye(c) PROVE LiveOK'
  <2>1. CASE ReadData(c)     BY <2>1 DEF ReadData
  <2>2. CASE SayBye(c)
    <3>1. slot' = slot /\ sessions' = sessions /\ pc[c] = "leaving"
      BY <2>2 DEF SayBye
    <3>2. \A d \in Conn : d # c => pc'[d] = pc[d]
      BY <2>2, Positions
    <3>. HIDE DEF LiveOK, TypeOK
    <3>. QED BY <3>1, <3>2, LiveKept
  <2>. QED BY <1>7, <2>1, <2>2
<1>8. ASSUME NEW c \in Conn,
             PumpDeliver(c) \/ PumpLose(c) \/ PumpFail(c) \/ PumpStop(c)
      PROVE LiveOK'
  <2>1. slot' = slot /\ sessions' = sessions /\ pc' = pc
    BY <1>8 DEF PumpDeliver, PumpLose, PumpFail, PumpStop, Take
  <2>. QED BY <2>1
<1>. QED
  BY <1>1, <1>2, <1>3, <1>4, <1>5, <1>6, <1>7, <1>8, StepCases

\* ChannelsOK for one connection.
ChannelsOf(d) ==
    /\ pc[d] \in {"waiting", "tunnel", "leaving"} => slot[ent[d]][RoleOf(d)] = d
    /\ priv[d] # None => Coupled(d, priv[d])
    /\ partner[d] # None => Coupled(d, partner[d])
    /\ pairCh[d] # None => /\ ent[pairCh[d]] = d
                           /\ slot[d][RoleOf(pairCh[d])] = pairCh[d]
                           /\ slot[d][Other(RoleOf(pairCh[d]))] # None
    /\ (pc[d] = "waiting" /\ pairCh[ent[d]] = d) => priv[d] # None
    /\ (pc[d] \in {"tunnel", "leaving"} \/ pump[d] # "off") => partner[d] # None

LEMMA ChannelsSplit == ChannelsOK <=> \A d \in Conn : ChannelsOf(d)
BY DEF ChannelsOK, ChannelsOf

\* No slot, entry or channel changes and no handler advances into a
\* registered state: ChannelsOK stays.
LEMMA ChannelsKept ==
    ASSUME IInv, NEW c \in Conn,
           UNCHANGED <<slot, ent, pairCh, priv, partner>>,
           \A d \in Conn : pump'[d] # "off" => pump[d] # "off",
           \A d \in Conn : d # c => pc'[d] = pc[d],
           \/ pc'[c] = pc[c]
           \/ pc'[c] \in {"auth", "upgraded", "joining", "closed"}
           \/ pc[c] = "tunnel" /\ pc'[c] = "leaving"
    PROVE  ChannelsOK'
<1>1. SUFFICES ASSUME NEW d \in Conn PROVE ChannelsOf(d)'
  BY DEF ChannelsOK, ChannelsOf
<1>2. ChannelsOf(d)
  BY ChannelsSplit DEF IInv
<1>3. CASE d = c
  BY <1>2, <1>3 DEF ChannelsOf, Coupled
<1>4. CASE d # c
  BY <1>2, <1>4 DEF ChannelsOf, Coupled
<1>. QED BY <1>3, <1>4

\* A handler that has no entry yet gets one.
LEMMA ChannelsEntry ==
    ASSUME IInv, NEW c \in Conn, NEW e \in Conn, ent[c] = None,
           ent' = [ent EXCEPT ![c] = e], pc' = [pc EXCEPT ![c] = "joining"],
           UNCHANGED <<slot, pairCh, priv, partner, pump>>
    PROVE  ChannelsOK'
<1>1. SUFFICES ASSUME NEW d \in Conn PROVE ChannelsOf(d)'
  BY DEF ChannelsOK, ChannelsOf
<1>2. ChannelsOf(d)
  BY ChannelsSplit DEF IInv
<1>3. pairCh[d] # None => pairCh[d] \in Conn
  BY DEF IInv, TypeOK
<1>4. /\ pc'[c] = "joining" /\ \A x \in Conn : x # c => pc'[x] = pc[x] /\ ent'[x] = ent[x]
  BY DEF IInv, TypeOK
<1>5. CASE d = c
  BY <1>2, <1>3, <1>4, <1>5, ConstantsOK DEF ChannelsOf, Coupled
<1>6. CASE d # c
  BY <1>2, <1>3, <1>4, <1>6, ConstantsOK DEF ChannelsOf, Coupled
<1>. QED BY <1>5, <1>6

LEMMA ChannelsClaim ==
    ASSUME IInv, NEW c \in Conn, RegisterFirst(c) \/ RegisterSecond(c)
    PROVE  ChannelsOK'
<1>1. SUFFICES ASSUME NEW d \in Conn PROVE ChannelsOf(d)'
  BY DEF ChannelsOK, ChannelsOf
<1>2. ChannelsOf(d) /\ ChannelsOf(c)
  BY ChannelsSplit DEF IInv
<1>3. /\ pc[c] = "joining" /\ ent[c] \in Conn /\ slot[ent[c]][RoleOf(c)] = None
      /\ \A e \in Conn, r \in Roles :
            slot'[e][r] = IF e = ent[c] /\ r = RoleOf(c) THEN c ELSE slot[e][r]
      /\ pc'[c] = "waiting"
      /\ \A x \in Conn : x # c => pc'[x] = pc[x]
      /\ UNCHANGED <<ent, partner, pump>>
  BY ClaimFacts, Positions DEF RegisterFirst, RegisterSecond, tunnelVars, IInv, TypeOK
<1>4. \A x \in Conn, y \in Conn : Coupled(x, y) => Coupled(x, y)'
  <2>1. SUFFICES ASSUME NEW x \in Conn, NEW y \in Conn, Coupled(x, y)
                 PROVE  Coupled(x, y)'
    OBVIOUS
  <2>2. ent[x] \in Conn
    BY <2>1 DEF Coupled, IInv, TypeOK
  <2>. QED BY <1>3, <2>1, <2>2, RoleFacts, ConstantsOK DEF Coupled
<1>5. /\ priv[d] # None => priv[d] \in Conn
      /\ partner[d] # None => partner[d] \in Conn
      /\ pairCh[d] # None => pairCh[d] \in Conn
      /\ pc[d] \in {"waiting", "tunnel", "leaving"} => ent[d] \in Conn
  <2>1. TypeOK
    BY DEF IInv
  <2>2. pc[d] \in {"waiting", "tunnel", "leaving"} => ent[d] \in Conn
    BY EntConn
  <2>. QED BY <2>1, <2>2 DEF TypeOK
<1>6. pc'[d] \in {"waiting", "tunnel", "leaving"} => slot'[ent'[d]][RoleOf(d)] = d
  <2>1. CASE d = c
    BY <1>3, <2>1, RoleFacts
  <2>2. CASE d # c
    BY <1>2, <1>3, <1>5, <2>2, RoleFacts, ConstantsOK DEF ChannelsOf
  <2>. QED BY <2>1, <2>2
<1>7. (pc'[d] \in {"tunnel", "leaving"} \/ pump'[d] # "off") => partner'[d] # None
  BY <1>2, <1>3 DEF ChannelsOf
<1>8. partner'[d] # None => Coupled(d, partner[d])'
  BY <1>2, <1>3, <1>4, <1>5 DEF ChannelsOf
<1>9. CASE RegisterFirst(c)
  <2>1. UNCHANGED <<pairCh, priv>>
    BY <1>9 DEF RegisterFirst
  <2>2. priv'[d] # None => Coupled(d, priv[d])'
    BY <1>2, <1>4, <1>5, <2>1 DEF ChannelsOf
  <2>3. pairCh'[d] # None => /\ ent'[pairCh'[d]] = d
                             /\ slot'[d][RoleOf(pairCh'[d])] = pairCh'[d]
                             /\ slot'[d][Other(RoleOf(pairCh'[d]))] # None
    BY <1>2, <1>3, <1>5, <2>1, RoleFacts, ConstantsOK DEF ChannelsOf
  <2>4. (pc'[d] = "waiting" /\ pairCh'[ent'[d]] = d) => priv'[d] # None
    <3>1. CASE d = c
      <4>1. pairCh[ent[c]] # c
        <5>1. ChannelsOf(ent[c])
          BY <1>3, ChannelsSplit DEF IInv
        <5>. QED BY <1>3, <5>1, ConstantsOK DEF ChannelsOf
      <4>. QED BY <1>3, <2>1, <3>1, <4>1
    <3>2. CASE d # c
      BY <1>2, <1>3, <2>1, <3>2 DEF ChannelsOf
    <3>. QED BY <3>1, <3>2
  <2>. QED BY <1>6, <1>7, <1>8, <2>2, <2>3, <2>4 DEF ChannelsOf
<1>10. CASE RegisterSecond(c)
  <2>1. /\ OtherSlot(c) # None /\ OtherSlot(c) \in Conn
        /\ pairCh[ent[c]] = None
        /\ pairCh'[ent[c]] = c
        /\ \A x \in Conn : x # ent[c] => pairCh'[x] = pairCh[x]
        /\ priv'[c] = OtherSlot(c)
        /\ \A x \in Conn : x # c => priv'[x] = priv[x]
    BY <1>3, <1>10, RoleFacts DEF RegisterSecond, OtherSlot, IInv, TypeOK
  <2>2. priv'[d] # None => Coupled(d, priv[d])'
    <3>1. CASE d = c
      BY <1>3, <2>1, <3>1, RoleFacts, ConstantsOK DEF Coupled, OtherSlot
    <3>2. CASE d # c
      BY <1>2, <1>4, <1>5, <2>1, <3>2 DEF ChannelsOf
    <3>. QED BY <3>1, <3>2
  <2>3. pairCh'[d] # None => /\ ent'[pairCh'[d]] = d
                             /\ slot'[d][RoleOf(pairCh'[d])] = pairCh'[d]
                             /\ slot'[d][Other(RoleOf(pairCh'[d]))] # None
    <3>1. CASE d = ent[c]
      BY <1>3, <2>1, <3>1, RoleFacts DEF OtherSlot
    <3>2. CASE d # ent[c]
      BY <1>2, <1>3, <1>5, <2>1, <3>2, RoleFacts DEF ChannelsOf
    <3>. QED BY <3>1, <3>2
  <2>4. (pc'[d] = "waiting" /\ pairCh'[ent'[d]] = d) => priv'[d] # None
    <3>1. CASE d = c
      BY <2>1, <3>1
    <3>2. CASE d # c
      BY <1>2, <1>3, <1>5, <2>1, <3>2 DEF ChannelsOf
    <3>. QED BY <3>1, <3>2
  <2>. QED BY <1>6, <1>7, <1>8, <2>2, <2>3, <2>4 DEF ChannelsOf
<1>. QED BY <1>9, <1>10

\* The handler that consumes its channel remembers what it took, and only a
\* handler that is not the second peer consumes pairCh.
LEMMA ChannelsPair ==
    ASSUME IInv, NEW c \in Conn, PairFirst(c) \/ PairSecond(c)
    PROVE  ChannelsOK'
<1>1. SUFFICES ASSUME NEW d \in Conn PROVE ChannelsOf(d)'
  BY DEF ChannelsOK, ChannelsOf
<1>2. ChannelsOf(d) /\ ChannelsOf(c)
  BY ChannelsSplit DEF IInv
<1>3. /\ pc[c] = "waiting" /\ ent[c] \in Conn /\ pc'[c] = "tunnel"
      /\ \A x \in Conn : x # c => pc'[x] = pc[x]
      /\ UNCHANGED <<slot, ent>>
  BY EntConn, Positions DEF PairFirst, PairSecond, Tunnel
<1>4. ASSUME NEW y, Tunnel(c, y)
      PROVE  /\ partner'[c] = y /\ \A x \in Conn : x # c => partner'[x] = partner[x]
             /\ \A x \in Conn : x # c => pump'[x] = pump[x]
  BY <1>4 DEF Tunnel, IInv, TypeOK
<1>5. CASE PairSecond(c)
  <2>1. /\ priv[c] # None /\ partner'[c] = priv[c] /\ priv'[c] = None
        /\ \A x \in Conn : x # c =>
              priv'[x] = priv[x] /\ partner'[x] = partner[x] /\ pump'[x] = pump[x]
        /\ pairCh' = pairCh
    BY <1>4, <1>5 DEF PairSecond, IInv, TypeOK
  <2>2. CASE d = c
    BY <1>2, <1>3, <2>1, <2>2 DEF ChannelsOf, Coupled
  <2>3. CASE d # c
    BY <1>2, <1>3, <2>1, <2>3 DEF ChannelsOf, Coupled
  <2>. QED BY <2>2, <2>3
<1>6. CASE PairFirst(c)
  <2>. DEFINE e == ent[c]
  <2>1. /\ priv[c] = None /\ pairCh[e] # None /\ partner'[c] = pairCh[e]
        /\ pairCh[e] \in Conn
        /\ pairCh'[e] = None /\ \A x \in Conn : x # e => pairCh'[x] = pairCh[x]
        /\ \A x \in Conn : x # c => partner'[x] = partner[x] /\ pump'[x] = pump[x]
        /\ priv' = priv
    BY <1>3, <1>4, <1>6 DEF PairFirst, IInv, TypeOK
  <2>2. Coupled(c, pairCh[e])
    <3>. DEFINE p == pairCh[e]
    <3>1. p # c
      BY <1>2, <1>3, <2>1 DEF ChannelsOf
    <3>2. ent[p] = e /\ slot[e][RoleOf(p)] = p
      BY <1>3, <2>1, ChannelsSplit DEF ChannelsOf, IInv
    <3>3. slot[e][RoleOf(c)] = c
      BY <1>2, <1>3 DEF ChannelsOf
    <3>4. RoleOf(p) # RoleOf(c)
      BY <3>1, <3>2, <3>3
    <3>5. RoleOf(p) = Other(RoleOf(c))
      BY <2>1, <3>4, RoleFacts
    <3>. QED BY <1>3, <3>2, <3>3, <3>5, ConstantsOK DEF Coupled
  <2>3. CASE d = c
    BY <1>2, <1>3, <2>1, <2>2, <2>3, ConstantsOK DEF ChannelsOf, Coupled
  <2>4. CASE d # c
    <3>1. pc[d] = "waiting" => ent[d] \in Conn
      BY EntConn
    <3>2. pc'[d] = pc[d] /\ priv'[d] = priv[d] /\ partner'[d] = partner[d]
          /\ pump'[d] = pump[d]
      BY <1>3, <2>1, <2>4
    <3>3. pairCh'[d] # None => pairCh'[d] = pairCh[d]
      BY <2>1
    <3>4. (pc'[d] = "waiting" /\ pairCh'[ent'[d]] = d) => priv'[d] # None
      BY <1>2, <1>3, <2>1, <3>1, <3>2, ConstantsOK DEF ChannelsOf
    <3>. QED BY <1>2, <1>3, <3>2, <3>3, <3>4 DEF ChannelsOf, Coupled
  <2>. QED BY <2>3, <2>4
<1>. QED BY <1>5, <1>6

LEMMA ChannelsStep == IInv /\ [Next]_vars => ChannelsOK'
<1> SUFFICES ASSUME IInv, [Next]_vars PROVE ChannelsOK'
    OBVIOUS
<1>1. ASSUME UNCHANGED vars PROVE ChannelsOK'
  <2>. ChannelsOK
    BY DEF IInv
  <2>. QED BY <1>1 DEF vars, storeVars, tunnelVars, ChannelsOK, Coupled
<1>2. ASSUME NEW c \in Conn,
             UNCHANGED <<slot, ent, pairCh, priv, partner, pump>>,
             \A d \in Conn : d # c => pc'[d] = pc[d],
             \/ pc'[c] = pc[c]
             \/ pc'[c] \in {"auth", "upgraded", "joining", "closed"}
             \/ pc[c] = "tunnel" /\ pc'[c] = "leaving"
      PROVE  ChannelsOK'
  BY <1>2, ChannelsKept
<1>3. ASSUME NEW c \in Conn,
             \/ Request(c) \/ Reject(c) \/ Upgrade(c) \/ IdleTimeout(c)
             \/ ClientClose(c) \/ ReadPing(c)
      PROVE ChannelsOK'
  <2>1. UNCHANGED <<slot, ent, pairCh, priv, partner, pump>>
    BY <1>3 DEF Request, Reject, Upgrade, IdleTimeout, ClientClose, ReadPing,
                storeVars, tunnelVars
  <2>2. CASE Request(c) \/ Reject(c) \/ Upgrade(c)
    <3>1. \A d \in Conn : d # c => pc'[d] = pc[d]
      BY <2>2, Positions
    <3>2. pc'[c] \in {"auth", "upgraded", "closed"}
      BY <2>2, Positions DEF Request, Upgrade, IInv, TypeOK
    <3>. QED BY <1>2, <2>1, <3>1, <3>2
  <2>3. CASE IdleTimeout(c) \/ ClientClose(c) \/ ReadPing(c)
    <3>1. pc' = pc
      BY <2>3 DEF IdleTimeout, ClientClose, ReadPing
    <3>. QED BY <1>2, <2>1, <3>1
  <2>. QED BY <1>3, <2>2, <2>3
<1>4. ASSUME NEW c \in Conn, FindEntry(c) \/ ServerFull(c) \/ CreateEntry(c)
      PROVE ChannelsOK'
  <2>1. CASE FindEntry(c)
    <3>1. sessions[TokenOf[c]] \in Conn /\ ent[c] = None
      <4>1. TokenOf[c] \in Token /\ sessions \in [Token -> Conn \cup {None}]
        BY ConstantsOK DEF IInv, TypeOK
      <4>2. sessions[TokenOf[c]] # None /\ pc[c] = "upgraded"
        BY <2>1 DEF FindEntry
      <4>3. ent[c] = None
        BY <4>2 DEF IInv, EntOK
      <4>. QED BY <4>1, <4>2, <4>3
    <3>. QED BY <2>1, <3>1, ChannelsEntry DEF FindEntry, storeVars, tunnelVars
  <2>2. CASE ServerFull(c)
    <3>1. UNCHANGED <<slot, ent, pairCh, priv, partner, pump>>
      BY <2>2 DEF ServerFull, storeVars, tunnelVars
    <3>2. pc'[c] = "closed" /\ \A d \in Conn : d # c => pc'[d] = pc[d]
      BY <2>2, Positions
    <3>. QED BY <1>2, <3>1, <3>2
  <2>3. CASE CreateEntry(c)
    <3>1. ent[c] = None
      BY <2>3 DEF CreateEntry, IInv, EntOK
    <3>. QED BY <2>3, <3>1, ChannelsEntry DEF CreateEntry, storeVars, tunnelVars
  <2>. QED BY <1>4, <2>1, <2>2, <2>3
<1>5. ASSUME NEW c \in Conn, RoleTaken(c) \/ RegisterFirst(c) \/ RegisterSecond(c)
      PROVE ChannelsOK'
  <2>1. CASE RoleTaken(c)
    <3>1. UNCHANGED <<slot, ent, pairCh, priv, partner, pump>>
      BY <2>1 DEF RoleTaken, storeVars, tunnelVars
    <3>2. pc'[c] = "closed" /\ \A d \in Conn : d # c => pc'[d] = pc[d]
      BY <2>1, Positions
    <3>. QED BY <1>2, <3>1, <3>2
  <2>. QED BY <1>5, <2>1, ChannelsClaim
<1>6. ASSUME NEW c \in Conn, PairFirst(c) \/ PairSecond(c) PROVE ChannelsOK'
  BY <1>6, ChannelsPair
<1>7. ASSUME NEW c \in Conn, GiveUp(c) \/ ReadError(c) PROVE ChannelsOK'
  <2>1. UNCHANGED <<slot, ent, pairCh, priv, partner, pump>>
    BY <1>7 DEF GiveUp, ReadError, tunnelVars
  <2>2. \A d \in Conn : d # c => pc'[d] = pc[d]
    BY <1>7, Positions
  <2>3. pc'[c] = "closed" \/ (pc[c] = "tunnel" /\ pc'[c] = "leaving")
    BY <1>7, Positions DEF ReadError
  <2>. QED BY <1>2, <2>1, <2>2, <2>3
<1>8. ASSUME NEW c \in Conn, ReadData(c) \/ SayBye(c) PROVE ChannelsOK'
  <2>1. UNCHANGED <<slot, ent, pairCh, priv, partner, pump>>
    BY <1>8 DEF ReadData, SayBye, storeVars
  <2>2. \A d \in Conn : d # c => pc'[d] = pc[d]
    BY <1>8, Positions DEF ReadData
  <2>3. pc'[c] \in {pc[c], "closed"}
    BY <1>8, Positions DEF ReadData
  <2>. QED BY <1>2, <2>1, <2>2, <2>3
<1>9. ASSUME NEW c \in Conn,
             PumpDeliver(c) \/ PumpLose(c) \/ PumpFail(c) \/ PumpStop(c)
      PROVE ChannelsOK'
  <2>1. UNCHANGED <<slot, ent, pairCh, priv, partner, pc>> /\ pump[c] = "on"
    BY <1>9 DEF PumpDeliver, PumpLose, PumpFail, PumpStop, Take, storeVars
  <2>2. \A d \in Conn : pump'[d] # "off" => pump[d] # "off"
    BY <1>9, <2>1 DEF PumpDeliver, PumpLose, PumpFail, PumpStop, IInv, TypeOK
  <2>. QED BY <2>1, <2>2, ChannelsKept
<1>. QED
  BY <1>1, <1>3, <1>4, <1>5, <1>6, <1>7, <1>8, <1>9, StepCases
-----------------------------------------------------------------------------
(* The theorems.                                                            *)

\* IInv holds in every reachable state of the relay.
THEOREM Inductive == Spec => []IInv
<1>1. Init => IInv
  BY InitIInv
<1>2. IInv /\ [Next]_vars => IInv'
  BY TypeStep, EntStep, StoreStep, SlotStep, ChannelsStep, LiveStep DEF IInv
<1>. QED BY <1>1, <1>2, PTL DEF Spec

\* Every variable keeps its type: slots and channels hold connections,
\* buffers hold frames.
THEOREM TypeCorrect == Spec => []TypeOK
<1>1. IInv => TypeOK
  BY DEF IInv
<1>. QED BY <1>1, Inductive, PTL

\* The slots make tunnels one to one.
LEMMA IInvMatched == IInv => Matched
<1>1. SUFFICES ASSUME IInv, NEW c \in Conn, partner[c] # None
               PROVE  /\ TokenOf[partner[c]] = TokenOf[c]
                      /\ RoleOf(partner[c]) = Other(RoleOf(c))
                      /\ partner[partner[c]] \in {None, c}
  BY DEF Matched
<1>. DEFINE d == partner[c]
            e == ent[c]
<1>2. d \in Conn /\ e \in Conn /\ Coupled(c, d)
  BY <1>1 DEF IInv, TypeOK, ChannelsOK, Coupled
<1>3. ent[d] = e /\ RoleOf(d) = Other(RoleOf(c))
  <2>1. slot[e][Other(RoleOf(c))] = d /\ Other(RoleOf(c)) \in Roles /\ d # None
    BY <1>2, RoleFacts, ConstantsOK DEF Coupled
  <2>2. ent[slot[e][Other(RoleOf(c))]] = e
        /\ RoleOf(slot[e][Other(RoleOf(c))]) = Other(RoleOf(c))
    BY <1>1, <1>2, <2>1 DEF IInv, SlotOK
  <2>. QED BY <2>1, <2>2
<1>4. TokenOf[d] = TokenOf[e] /\ TokenOf[c] = TokenOf[e]
  <2>1. \A x \in Conn : ent[x] # None => TokenOf[ent[x]] = TokenOf[x]
    BY <1>1 DEF IInv, EntOK
  <2>. QED BY <1>2, <1>3, <2>1, ConstantsOK
<1>5. partner[d] # None => partner[d] = c
  <2>1. Other(RoleOf(d)) = RoleOf(c)
    BY <1>3, RoleFacts
  <2>2. slot[e][RoleOf(c)] = c
    BY <1>2 DEF Coupled
  <2>3. partner[d] # None => slot[ent[d]][Other(RoleOf(d))] = partner[d]
    BY <1>1, <1>2 DEF IInv, ChannelsOK, Coupled
  <2>. QED BY <1>3, <2>1, <2>2, <2>3
<1>. QED BY <1>3, <1>4, <1>5

\* A tunnel always joins one viewer and one agent of the same session, and
\* nobody else shares either end.
THEOREM MatchedAlways == Spec => []Matched
<1>1. IInv => Matched
  BY IInvMatched
<1>. QED BY <1>1, Inductive, PTL

\* register never blocks on pairCh while it holds the entry's mutex.
THEOREM RegisterNeverBlocksAlways == Spec => []RegisterNeverBlocks
<1>1. IInv => RegisterNeverBlocks
  <2>1. SUFFICES ASSUME IInv, NEW c \in Conn, pc[c] = "joining", OwnSlot(c) = None,
                        pairCh[ent[c]] # None
                 PROVE  FALSE
    BY DEF RegisterNeverBlocks
  <2>. DEFINE p == pairCh[ent[c]]
  <2>2. ent[c] \in Conn /\ p \in Conn
    BY <2>1, EntConn DEF IInv, TypeOK
  <2>3. /\ slot[ent[c]][RoleOf(p)] # None
        /\ slot[ent[c]][Other(RoleOf(p))] # None
    BY <2>1, <2>2, ConstantsOK DEF IInv, ChannelsOK
  <2>4. RoleOf(c) = RoleOf(p) \/ RoleOf(c) = Other(RoleOf(p))
    BY <2>2, RoleFacts
  <2>. QED BY <2>1, <2>3, <2>4 DEF OwnSlot
<1>. QED BY <1>1, Inductive, PTL

\* No entry is leaked: one the store still has is held by a handler that has
\* yet to remove it.
THEOREM EntryHeldAlways == Spec => []EntryHeld
<1>1. IInv => EntryHeld
  <2>1. SUFFICES ASSUME IInv, NEW t \in Token, sessions[t] # None
                 PROVE  \E c \in Conn : /\ ent[c] = sessions[t]
                                        /\ pc[c] \in {"joining", "waiting", "tunnel"}
    BY DEF EntryHeld
  <2>. DEFINE e == sessions[t]
  <2>2. e \in Conn /\ ent[e] = e
    BY <2>1 DEF IInv, TypeOK, StoreOK
  <2>3. CASE \A r \in Roles : slot[e][r] = None
    BY <2>1, <2>2, <2>3 DEF IInv, LiveOK
  <2>4. CASE \E r \in Roles : slot[e][r] # None
    <3>1. PICK r \in Roles : slot[e][r] # None
      BY <2>4
    <3>2. slot[e][r] \in Conn
      <4>1. slot[e] \in [Roles -> Conn \cup {None}]
        BY <2>1, <2>2 DEF IInv, TypeOK
      <4>. QED BY <3>1, <4>1
    <3>3. ent[slot[e][r]] = e /\ pc[slot[e][r]] \in {"waiting", "tunnel"}
      BY <2>1, <2>2, <3>1 DEF IInv, SlotOK, LiveOK
    <3>. QED BY <3>2, <3>3
  <2>. QED BY <2>3, <2>4
<1>. QED BY <1>1, Inductive, PTL

\* The frames of a queue come from connections of its owner's token.
SameToken(q, c) == \A i \in DOMAIN q : TokenOf[q[i].src] = TokenOf[c]

LEMMA SameTokenOps ==
    ASSUME NEW c \in Conn, NEW q \in Seq(Frame), SameToken(q, c),
           NEW f \in Frame, TokenOf[f.src] = TokenOf[c]
    PROVE  /\ SameToken(Append(q, f), c)
           /\ q # <<>> => SameToken(Tail(q), c) /\ TokenOf[Head(q).src] = TokenOf[c]
<1>1. SameToken(Append(q, f), c)
  <2>1. /\ Append(q, f) \in Seq(Frame) /\ Len(Append(q, f)) = Len(q) + 1
        /\ \A i \in 1 .. Len(q) : Append(q, f)[i] = q[i]
        /\ Append(q, f)[Len(q) + 1] = f
    BY AppendProperties
  <2>2. DOMAIN q = 1 .. Len(q) /\ Len(q) \in Nat
    OBVIOUS
  <2>3. DOMAIN Append(q, f) = 1 .. (Len(q) + 1)
    BY <2>1
  <2>4. \A i \in 1 .. (Len(q) + 1) : i \in 1 .. Len(q) \/ i = Len(q) + 1
    BY <2>2
  <2>. QED BY <2>1, <2>2, <2>3, <2>4 DEF SameToken
<1>2. ASSUME q # <<>>
      PROVE  SameToken(Tail(q), c) /\ TokenOf[Head(q).src] = TokenOf[c]
  <2>1. /\ Head(q) = q[1] /\ Len(q) \in Nat /\ Len(q) >= 1
        /\ Len(Tail(q)) = Len(q) - 1 /\ Tail(q) \in Seq(Frame)
        /\ \A i \in 1 .. Len(Tail(q)) : Tail(q)[i] = q[i + 1]
    BY <1>2, HeadTailProperties
  <2>2. DOMAIN q = 1 .. Len(q) /\ DOMAIN Tail(q) = 1 .. Len(Tail(q))
    BY <2>1
  <2>3. 1 \in DOMAIN q /\ \A i \in DOMAIN Tail(q) : i + 1 \in DOMAIN q
    BY <2>1, <2>2
  <2>. QED BY <2>1, <2>2, <2>3 DEF SameToken
<1>. QED BY <1>1, <1>2

LEMMA IsolationSplit ==
    FrameIsolation <=>
        \A c \in Conn : SameToken(sendCh[c], c) /\ SameToken(delivered[c], c)
BY DEF FrameIsolation, SameToken

LEMMA IsolationOffer ==
    ASSUME IInv, FrameIsolation, NEW c \in Conn, partner[c] # None,
           NEW f \in Frame, f.src = c, Offer(c, f), delivered' = delivered
    PROVE  FrameIsolation'
<1>1. TokenOf[partner[c]] = TokenOf[c] /\ partner[c] \in Conn
  BY IInvMatched DEF Matched, IInv, TypeOK
<1>2. sendCh \in [Conn -> Buffer]
  BY DEF IInv, TypeOK
<1>3. \A d \in Conn : SameToken(sendCh[d], d) /\ SameToken(delivered[d], d)
  BY IsolationSplit
<1>4. SameToken(Append(sendCh[partner[c]], f), partner[c])
  <2>1. sendCh[partner[c]] \in Seq(Frame)
    BY <1>1, <1>2 DEF Buffer
  <2>. QED BY <1>1, <1>3, <2>1, SameTokenOps
<1>5. \A d \in Conn : SameToken(sendCh'[d], d)
  BY <1>1, <1>2, <1>3, <1>4 DEF Offer
<1>. QED BY <1>3, <1>5 DEF FrameIsolation, SameToken

LEMMA IsolationTake ==
    ASSUME IInv, FrameIsolation, NEW c \in Conn, Take(c),
           delivered' \in {delivered,
                [delivered EXCEPT ![c] = Append(@, Head(sendCh[partner[c]]))]}
    PROVE  FrameIsolation'
<1>. DEFINE q == sendCh[partner[c]]
<1>1. partner[c] \in Conn
  BY PartnerConn DEF Take
<1>2. /\ sendCh \in [Conn -> Buffer] /\ delivered \in [Conn -> Seq(Frame)]
      /\ q \in Seq(Frame) /\ q # <<>>
  BY <1>1 DEF IInv, TypeOK, Buffer, Take
<1>3. \A d \in Conn : SameToken(sendCh[d], d) /\ SameToken(delivered[d], d)
  BY IsolationSplit
<1>4. TokenOf[partner[c]] = TokenOf[c]
  BY <1>1, IInvMatched, ConstantsOK DEF Matched
<1>5. Head(q) \in Frame
  BY <1>2, HeadTailProperties
<1>6. TokenOf[Head(q).src] = TokenOf[partner[c]] /\ SameToken(Tail(q), partner[c])
  <2>1. 1 \in DOMAIN q /\ Head(q) = q[1]
    BY <1>2, HeadTailProperties
  <2>2. TokenOf[Head(q).src] = TokenOf[partner[c]]
    BY <1>1, <1>3, <2>1 DEF SameToken
  <2>. QED BY <1>1, <1>2, <1>3, <1>5, <2>2, SameTokenOps
<1>7. SameToken(Append(delivered[c], Head(q)), c)
  BY <1>2, <1>3, <1>4, <1>5, <1>6, SameTokenOps
<1>8. \A d \in Conn : SameToken(sendCh'[d], d)
  BY <1>1, <1>2, <1>3, <1>6 DEF Take
<1>9. \A d \in Conn : SameToken(delivered'[d], d)
  BY <1>2, <1>3, <1>7
<1>. QED BY <1>8, <1>9 DEF FrameIsolation, SameToken

LEMMA IsolationStep == IInv /\ FrameIsolation /\ [Next]_vars => FrameIsolation'
<1> SUFFICES ASSUME IInv, FrameIsolation, [Next]_vars PROVE FrameIsolation'
    OBVIOUS
<1>1. ASSUME sendCh' = sendCh, delivered' = delivered PROVE FrameIsolation'
  BY <1>1 DEF FrameIsolation
<1>2. ASSUME UNCHANGED vars PROVE FrameIsolation'
  BY <1>1, <1>2 DEF vars, tunnelVars
<1>3. ASSUME NEW c \in Conn,
             \/ Request(c) \/ Reject(c) \/ Upgrade(c) \/ IdleTimeout(c)
             \/ ClientClose(c) \/ ReadPing(c)
      PROVE FrameIsolation'
  BY <1>1, <1>3
     DEF Request, Reject, Upgrade, IdleTimeout, ClientClose, ReadPing, tunnelVars
<1>4. ASSUME NEW c \in Conn, FindEntry(c) \/ ServerFull(c) \/ CreateEntry(c)
      PROVE FrameIsolation'
  BY <1>1, <1>4 DEF FindEntry, ServerFull, CreateEntry, tunnelVars
<1>5. ASSUME NEW c \in Conn, RoleTaken(c) \/ RegisterFirst(c) \/ RegisterSecond(c)
      PROVE FrameIsolation'
  BY <1>1, <1>5 DEF RoleTaken, RegisterFirst, RegisterSecond, Claim, tunnelVars
<1>6. ASSUME NEW c \in Conn, PairFirst(c) \/ PairSecond(c) PROVE FrameIsolation'
  BY <1>1, <1>6 DEF PairFirst, PairSecond, Tunnel
<1>7. ASSUME NEW c \in Conn, GiveUp(c) \/ ReadError(c) PROVE FrameIsolation'
  BY <1>1, <1>7 DEF GiveUp, ReadError, tunnelVars
<1>8. ASSUME NEW c \in Conn, ReadData(c) \/ SayBye(c) PROVE FrameIsolation'
  <2>1. partner[c] # None
    BY <1>8, PartnerConn, ConstantsOK DEF ReadData, SayBye
  <2>2. sent[c] + 1 \in Nat
    BY DEF IInv, TypeOK
  <2>3. CASE ReadData(c)
    <3>. DEFINE f == [src |-> c, kind |-> "data", n |-> sent[c] + 1]
    <3>1. f \in Frame /\ f.src = c
      BY <2>2 DEF Frame
    <3>2. Offer(c, f) /\ delivered' = delivered
      BY <2>3 DEF ReadData
    <3>. QED BY <2>1, <3>1, <3>2, IsolationOffer
  <2>4. CASE SayBye(c)
    <3>1. Bye(c) \in Frame /\ Bye(c).src = c
      BY DEF Bye, Frame
    <3>2. Offer(c, Bye(c)) /\ delivered' = delivered
      BY <2>4 DEF SayBye
    <3>. QED BY <2>1, <3>1, <3>2, IsolationOffer
  <2>. QED BY <1>8, <2>3, <2>4
<1>9. ASSUME NEW c \in Conn,
             PumpDeliver(c) \/ PumpLose(c) \/ PumpFail(c) \/ PumpStop(c)
      PROVE FrameIsolation'
  <2>1. CASE PumpStop(c)
    BY <1>1, <2>1 DEF PumpStop
  <2>2. CASE PumpDeliver(c) \/ PumpLose(c) \/ PumpFail(c)
    BY <2>2, IsolationTake DEF PumpDeliver, PumpLose, PumpFail
  <2>. QED BY <1>9, <2>1, <2>2
<1>. QED
  BY <1>2, <1>3, <1>4, <1>5, <1>6, <1>7, <1>8, <1>9, StepCases

\* Frames never cross sessions, in the buffers or on the sockets.
THEOREM FrameIsolationAlways == Spec => []FrameIsolation
<1>1. Init => FrameIsolation
  BY DEF Init, FrameIsolation
<1>2. IInv /\ FrameIsolation /\ [Next]_vars => FrameIsolation'
  BY IsolationStep
<1>. QED BY <1>1, <1>2, Inductive, PTL DEF Spec
-----------------------------------------------------------------------------
(* Order: what the pump of c has written, and what it has yet to write,      *)
(* are frames c's reader has read, in the order it read them.                *)
Feed(c) == IF partner[c] # None THEN sendCh[partner[c]] ELSE <<>>

\* Data frames have growing numbers, none beyond k.
Ordered(q, k) ==
    /\ \A i \in DOMAIN q : q[i].kind = "data" => q[i].n <= k
    /\ \A i, j \in DOMAIN q :
          (i < j /\ q[i].kind = "data" /\ q[j].kind = "data") => q[i].n < q[j].n

\* A handler that has no partner yet has delivered nothing, a queue that nobody
\* feeds is empty, and the numbers stop at what has been read.
OrderOK ==
    /\ \A c \in Conn : pc[c] \in {"idle", "auth", "upgraded", "joining", "waiting"}
                          => partner[c] = None
    /\ \A c \in Conn : partner[c] = None => delivered[c] = <<>>
    /\ \A d \in Conn : (\A c \in Conn : partner[c] # d) => sendCh[d] = <<>>
    /\ \A c \in Conn : Ordered(delivered[c] \o Feed(c), sent[c])

\* Two handlers never have one partner: its entry has one slot of their role.
LEMMA CoupledUnique ==
    ASSUME IInv, NEW c \in Conn, NEW d \in Conn, NEW x \in Conn, Coupled(c, x), Coupled(d, x)
    PROVE  c = d
<1>1. ent[c] \in Conn /\ ent[d] \in Conn
    BY DEF IInv, TypeOK, Coupled
<1>2. ent[x] = ent[c] /\ ent[x] = ent[d]
    BY <1>1, RoleFacts, ConstantsOK DEF Coupled, IInv, SlotOK
<1>3. RoleOf(x) = Other(RoleOf(c)) /\ RoleOf(x) = Other(RoleOf(d))
    BY <1>1, RoleFacts, ConstantsOK DEF Coupled, IInv, SlotOK
<1>4. RoleOf(c) = RoleOf(d)
    BY <1>3, RoleFacts
<1>. QED BY <1>2, <1>4 DEF Coupled

LEMMA PartnerUnique ==
    ASSUME IInv, NEW c \in Conn, NEW d \in Conn, partner[c] # None, partner[c] = partner[d]
    PROVE  c = d
<1>1. partner[c] \in Conn /\ Coupled(c, partner[c]) /\ Coupled(d, partner[c])
    BY DEF IInv, TypeOK, ChannelsOK
<1>. QED BY <1>1, CoupledUnique

LEMMA OrderedAppend ==
    ASSUME NEW q \in Seq(Frame), NEW k \in Nat, NEW l \in Nat, Ordered(q, k), k <= l,
           NEW f \in Frame, f.kind = "data" => k < f.n /\ f.n <= l
    PROVE  Ordered(Append(q, f), l)
<1>1. /\ Len(q) \in Nat /\ DOMAIN q = 1 .. Len(q)
      /\ DOMAIN Append(q, f) = 1 .. (Len(q) + 1)
      /\ \A i \in 1 .. Len(q) : Append(q, f)[i] = q[i]
      /\ Append(q, f)[Len(q) + 1] = f
    BY AppendProperties
<1>2. \A i \in 1 .. (Len(q) + 1) : i \in 1 .. Len(q) \/ i = Len(q) + 1
    BY <1>1
<1>3. \A i \in 1 .. Len(q) : q[i].n \in Nat
    <2>1. \A i \in 1 .. Len(q) : q[i] \in Frame
        BY <1>1
    <2>. QED BY <2>1 DEF Frame
<1>4. f.n \in Nat
    BY DEF Frame
<1>. QED BY <1>1, <1>2, <1>3, <1>4 DEF Ordered

LEMMA OrderedWeaker ==
    ASSUME NEW q \in Seq(Frame), NEW k \in Nat, NEW l \in Nat, Ordered(q, k), k <= l
    PROVE  Ordered(q, l)
<1>1. \A i \in DOMAIN q : q[i] \in Frame
    OBVIOUS
<1>2. \A i \in DOMAIN q : q[i].n \in Nat
    BY <1>1 DEF Frame
<1>. QED BY <1>2 DEF Ordered

\* A frame that is lost leaves the others in order.
LEMMA OrderedLoss ==
    ASSUME NEW d \in Seq(Frame), NEW q \in Seq(Frame), q # <<>>, NEW k \in Nat,
           Ordered(d \o q, k)
    PROVE  Ordered(d \o Tail(q), k)
<1>. DEFINE s == d \o q
            t == d \o Tail(q)
            up(i) == IF i <= Len(d) THEN i ELSE i + 1
<1>1. /\ Len(d) \in Nat /\ Len(q) \in Nat /\ Len(q) >= 1
      /\ Tail(q) \in Seq(Frame) /\ Len(Tail(q)) = Len(q) - 1
      /\ \A i \in 1 .. Len(Tail(q)) : Tail(q)[i] = q[i + 1]
    BY HeadTailProperties
<1>2. /\ Len(s) = Len(d) + Len(q) /\ Len(t) = Len(d) + Len(q) - 1
      /\ DOMAIN s = 1 .. Len(s) /\ DOMAIN t = 1 .. Len(t)
      /\ \A i \in 1 .. Len(s) : s[i] = IF i <= Len(d) THEN d[i] ELSE q[i - Len(d)]
      /\ \A i \in 1 .. Len(t) : t[i] = IF i <= Len(d) THEN d[i] ELSE Tail(q)[i - Len(d)]
    BY <1>1, ConcatProperties
<1>3. ASSUME NEW i \in DOMAIN t PROVE up(i) \in DOMAIN s /\ t[i] = s[up(i)]
    <2>1. CASE i <= Len(d)
        BY <1>1, <1>2, <2>1
    <2>2. CASE i > Len(d)
        <3>1. i - Len(d) \in 1 .. Len(Tail(q)) /\ i + 1 \in 1 .. Len(s)
            BY <1>1, <1>2, <2>2
        <3>2. t[i] = q[i - Len(d) + 1] /\ s[i + 1] = q[i + 1 - Len(d)]
            BY <1>1, <1>2, <2>2, <3>1
        <3>3. i - Len(d) + 1 = i + 1 - Len(d) /\ up(i) = i + 1
            BY <1>1, <1>2, <2>2
        <3>. QED BY <1>2, <3>1, <3>2, <3>3
    <2>. QED BY <1>1, <1>2, <2>1, <2>2
<1>4. \A i, j \in DOMAIN t : i < j => up(i) < up(j)
    BY <1>1, <1>2
<1>. HIDE DEF s, t, up
<1>5. Ordered(s, k)
    BY DEF s
<1>6. Ordered(t, k)
    BY <1>3, <1>4, <1>5 DEF Ordered
<1>. QED BY <1>6 DEF t

LEMMA FramesAssociative ==
    ASSUME NEW p \in Seq(Frame), NEW q \in Seq(Frame), NEW t \in Seq(Frame)
    PROVE  (p \o q) \o t = p \o (q \o t)
BY ConcatAssociative

\* Moving the head of the queue to the socket changes nothing as a whole.
LEMMA DeliverWhole ==
    ASSUME NEW d \in Seq(Frame), NEW q \in Seq(Frame), q # <<>>
    PROVE  Append(d, Head(q)) \o Tail(q) = d \o q
<1>1. Head(q) \in Frame /\ Tail(q) \in Seq(Frame) /\ <<Head(q)>> \in Seq(Frame)
    BY HeadTailProperties
<1>2. Append(d, Head(q)) = d \o <<Head(q)>>
    BY <1>1, AppendIsConcat
<1>3. (d \o <<Head(q)>>) \o Tail(q) = d \o (<<Head(q)>> \o Tail(q))
    BY <1>1, FramesAssociative, Zenon
<1>4. <<Head(q)>> \o Tail(q) = q
    BY <1>1, HeadTailProperties
<1>. QED BY <1>2, <1>3, <1>4

LEMMA FeedType ==
    ASSUME IInv, NEW c \in Conn
    PROVE  /\ Feed(c) \in Seq(Frame) /\ delivered[c] \in Seq(Frame) /\ sent[c] \in Nat
           /\ delivered[c] \o Feed(c) \in Seq(Frame)
BY DEF IInv, TypeOK, Feed, Buffer

\* The reader of c offers the next frame, which is dropped or comes last.
LEMMA OrderOffer ==
    ASSUME IInv, OrderOK, NEW c \in Conn, partner[c] # None, NEW f \in Frame,
           Offer(c, f), sent' \in [Conn -> Nat],
           UNCHANGED <<partner, delivered>>,
           \A d \in Conn : d # c => sent'[d] = sent[d],
           sent[c] <= sent'[c], f.kind = "data" => sent[c] < f.n /\ f.n <= sent'[c],
           \A d \in Conn : pc'[d] = pc[d] \/ pc'[d] \in {"leaving", "closed"}
    PROVE  OrderOK'
<1>1. partner[c] \in Conn /\ sendCh \in [Conn -> Buffer] /\ sendCh[partner[c]] \in Seq(Frame)
    BY DEF IInv, TypeOK, Buffer
<1>2. \A d \in Conn : d # c => Feed(d)' = Feed(d)
    BY <1>1, PartnerUnique DEF Offer, Feed
<1>3. Feed(c)' \in {Feed(c), Append(Feed(c), f)}
    BY <1>1 DEF Offer, Feed
<1>4. delivered[c] \o Append(Feed(c), f) = Append(delivered[c] \o Feed(c), f)
    <2>1. <<f>> \in Seq(Frame) /\ Feed(c) \in Seq(Frame) /\ delivered[c] \in Seq(Frame)
        BY FeedType
    <2>2. delivered[c] \o (Feed(c) \o <<f>>) = (delivered[c] \o Feed(c)) \o <<f>>
        BY <2>1, FramesAssociative, Zenon
    <2>. QED BY <2>2, FeedType, AppendIsConcat
<1>5. Ordered(Append(delivered[c] \o Feed(c), f), sent'[c])
    BY FeedType, OrderedAppend DEF OrderOK
<1>6. Ordered(delivered[c] \o Feed(c), sent'[c])
    BY FeedType, OrderedWeaker DEF OrderOK
<1>7. \A d \in Conn : Ordered(delivered'[d] \o Feed(d)', sent'[d])
    BY <1>2, <1>3, <1>4, <1>5, <1>6 DEF OrderOK
<1>8. \A d \in Conn : (\A e \in Conn : partner'[e] # d) => sendCh'[d] = <<>>
    BY <1>1 DEF Offer, OrderOK
<1>. QED BY <1>7, <1>8 DEF OrderOK

\* The pump of c takes the head of its queue, and delivers or loses it.
LEMMA OrderTake ==
    ASSUME IInv, OrderOK, NEW c \in Conn, Take(c),
           delivered' \in {delivered,
                [delivered EXCEPT ![c] = Append(@, Head(sendCh[partner[c]]))]}
    PROVE  OrderOK'
<1>1. partner[c] \in Conn /\ partner[c] # None
    BY PartnerConn, ConstantsOK DEF Take
<1>2. /\ sendCh \in [Conn -> Buffer] /\ delivered \in [Conn -> Seq(Frame)]
      /\ Feed(c) = sendCh[partner[c]] /\ Feed(c) # <<>> /\ Feed(c) \in Seq(Frame)
      /\ sent[c] \in Nat
    BY <1>1, FeedType DEF IInv, TypeOK, Feed, Take
<1>3. Feed(c)' = Tail(Feed(c))
    BY <1>1, <1>2 DEF Feed, Take
<1>4. \A d \in Conn : d # c => Feed(d)' = Feed(d) /\ delivered'[d] = delivered[d]
    BY <1>1, <1>2, PartnerUnique DEF Feed, Take
<1>5. Ordered(delivered'[c] \o Tail(Feed(c)), sent[c])
    <2>1. CASE delivered' = delivered
        BY <1>2, <2>1, OrderedLoss DEF OrderOK
    <2>2. CASE delivered' = [delivered EXCEPT ![c] = Append(@, Head(sendCh[partner[c]]))]
        <3>1. delivered'[c] = Append(delivered[c], Head(Feed(c)))
            BY <1>2, <2>2
        <3>2. delivered'[c] \o Tail(Feed(c)) = delivered[c] \o Feed(c)
            BY <1>2, <3>1, DeliverWhole
        <3>. QED BY <3>2 DEF OrderOK
    <2>. QED BY <2>1, <2>2
<1>6. \A d \in Conn : Ordered(delivered'[d] \o Feed(d)', sent'[d])
    BY <1>3, <1>4, <1>5 DEF OrderOK, Take
<1>7. \A d \in Conn : (\A e \in Conn : partner'[e] # d) => sendCh'[d] = <<>>
    BY <1>1, <1>2 DEF Take, OrderOK
<1>8. \A d \in Conn : partner'[d] = None => delivered'[d] = <<>>
    BY <1>1, <1>4 DEF Take, OrderOK
<1>. QED BY <1>6, <1>7, <1>8 DEF OrderOK, Take

\* A new tunnel finds its queue empty: nobody else had this partner.
LEMMA OrderPair ==
    ASSUME IInv, IInv', OrderOK, NEW c \in Conn, PairFirst(c) \/ PairSecond(c)
    PROVE  OrderOK'
<1>1. PICK d : Tunnel(c, d) /\ pc[c] = "waiting"
    BY DEF PairFirst, PairSecond
<1>2. /\ partner' = [partner EXCEPT ![c] = d] /\ partner \in [Conn -> Conn \cup {None}]
      /\ pc' = [pc EXCEPT ![c] = "tunnel"] /\ UNCHANGED <<sendCh, delivered, sent, slot, ent>>
      /\ DOMAIN pc = Conn
    BY <1>1 DEF Tunnel, IInv, TypeOK
<1>3. partner[c] = None /\ delivered[c] = <<>>
    BY <1>1 DEF OrderOK
<1>4. partner'[c] = d /\ d \in Conn /\ d # None
    <2>1. pc'[c] = "tunnel" /\ partner'[c] = d
        BY <1>2
    <2>. QED BY <2>1, ConstantsOK DEF IInv, TypeOK, ChannelsOK
<1>5. \A e \in Conn : partner[e] # d
    <2>1. ASSUME NEW e \in Conn, partner[e] = d, e # c PROVE FALSE
        <3>1. Coupled(e, d)
            BY <1>4, <2>1 DEF IInv, ChannelsOK
        <3>2. Coupled(c, d)
            <4>1. Coupled(c, d)'
                BY <1>4 DEF IInv, ChannelsOK
            <4>. QED BY <1>2, <4>1 DEF Coupled
        <3>. QED BY <1>4, <2>1, <3>1, <3>2, CoupledUnique
    <2>. QED BY <1>3, <1>4, <2>1
<1>6. Feed(c)' = <<>> /\ Feed(c) = <<>>
    <2>1. sendCh'[d] = <<>>
        BY <1>2, <1>4, <1>5 DEF OrderOK
    <2>. QED BY <1>3, <1>4, <2>1 DEF Feed
<1>7. \A e \in Conn : e # c => Feed(e)' = Feed(e)
    BY <1>2 DEF Feed
<1>8. \A e \in Conn : Ordered(delivered'[e] \o Feed(e)', sent'[e])
    BY <1>2, <1>6, <1>7 DEF OrderOK
<1>9. \A e \in Conn : (\A g \in Conn : partner'[g] # e) => sendCh'[e] = <<>>
    <2>1. \A e, g \in Conn : partner'[g] # e => partner[g] # e
        BY <1>2, <1>3, ConstantsOK
    <2>. QED BY <1>2, <2>1 DEF OrderOK
<1>. QED BY <1>2, <1>3, <1>4, <1>8, <1>9 DEF OrderOK

LEMMA OrderStep == IInv /\ IInv' /\ OrderOK /\ [Next]_vars => OrderOK'
<1> SUFFICES ASSUME IInv, IInv', OrderOK, [Next]_vars PROVE OrderOK'
    OBVIOUS
<1>. DEFINE Early == {"idle", "auth", "upgraded", "joining", "waiting"}
\* A step that neither moves frames nor begins a tunnel.
<1>1. ASSUME UNCHANGED <<partner, sendCh, delivered>>,
             \A d \in Conn : sent'[d] \in Nat /\ sent[d] <= sent'[d],
             \A d \in Conn : pc'[d] \in Early => pc[d] \in Early
      PROVE OrderOK'
    <2>1. \A d \in Conn : Feed(d)' = Feed(d)
        BY <1>1 DEF Feed
    <2>2. \A d \in Conn : Ordered(delivered[d] \o Feed(d), sent'[d])
        BY <1>1, FeedType, OrderedWeaker DEF OrderOK
    <2>. QED BY <1>1, <2>1, <2>2 DEF OrderOK
<1>2. ASSUME UNCHANGED sent PROVE \A d \in Conn : sent'[d] \in Nat /\ sent[d] <= sent'[d]
    BY <1>2 DEF IInv, TypeOK
<1>3. ASSUME UNCHANGED vars PROVE OrderOK'
    BY <1>1, <1>2, <1>3 DEF vars, tunnelVars
<1>4. ASSUME NEW c \in Conn, NEW to, pc' = [pc EXCEPT ![c] = to], pc[c] \in Early \/ to \notin Early
      PROVE  \A d \in Conn : pc'[d] \in Early => pc[d] \in Early
    BY <1>4 DEF IInv, TypeOK
<1>5. ASSUME NEW c \in Conn,
             \/ Request(c) \/ Reject(c) \/ Upgrade(c) \/ IdleTimeout(c)
             \/ ClientClose(c) \/ ReadPing(c)
      PROVE OrderOK'
    <2>1. CASE Request(c) \/ Reject(c) \/ Upgrade(c)
        BY <1>1, <1>2, <1>4, <2>1 DEF Request, Reject, Upgrade, Return, tunnelVars
    <2>2. CASE IdleTimeout(c) \/ ClientClose(c)
        BY <1>1, <1>2, <2>2 DEF IdleTimeout, ClientClose, tunnelVars
    <2>3. CASE ReadPing(c)
        <3>1. \A d \in Conn : sent'[d] \in Nat /\ sent[d] <= sent'[d]
            BY <2>3 DEF ReadPing, IInv, TypeOK
        <3>. QED BY <1>1, <2>3, <3>1 DEF ReadPing
    <2>. QED BY <1>5, <2>1, <2>2, <2>3
<1>6. ASSUME NEW c \in Conn, FindEntry(c) \/ ServerFull(c) \/ CreateEntry(c)
      PROVE OrderOK'
    BY <1>1, <1>2, <1>4, <1>6 DEF FindEntry, ServerFull, CreateEntry, Return, tunnelVars
<1>7. ASSUME NEW c \in Conn, RoleTaken(c) \/ RegisterFirst(c) \/ RegisterSecond(c)
      PROVE OrderOK'
    BY <1>1, <1>2, <1>4, <1>7
       DEF RoleTaken, RegisterFirst, RegisterSecond, Claim, Return, tunnelVars
<1>8. ASSUME NEW c \in Conn, PairFirst(c) \/ PairSecond(c) PROVE OrderOK'
    BY <1>8, OrderPair
<1>9. ASSUME NEW c \in Conn, GiveUp(c) \/ ReadError(c) PROVE OrderOK'
    BY <1>1, <1>2, <1>4, <1>9 DEF GiveUp, ReadError, Return, tunnelVars
<1>10. ASSUME NEW c \in Conn, ReadData(c) \/ SayBye(c) PROVE OrderOK'
    <2>1. partner[c] # None
        BY <1>10, PartnerConn, ConstantsOK DEF ReadData, SayBye
    <2>2. /\ sent \in [Conn -> Nat] /\ sent[c] + 1 \in Nat /\ sent[c] \in Nat
          /\ pc \in [Conn -> {"idle", "auth", "upgraded", "joining", "waiting",
                              "tunnel", "leaving", "closed"}]
        BY DEF IInv, TypeOK
    <2>3. CASE ReadData(c)
        <3>. DEFINE f == [src |-> c, kind |-> "data", n |-> sent[c] + 1]
        <3>1. f \in Frame /\ f.kind = "data" /\ f.n = sent[c] + 1
            BY <2>2 DEF Frame
        <3>2. /\ sent' = [sent EXCEPT ![c] = @ + 1] /\ Offer(c, f)
              /\ UNCHANGED <<partner, delivered, pc>>
            BY <2>3 DEF ReadData
        <3>3. /\ sent' \in [Conn -> Nat] /\ sent'[c] = sent[c] + 1
              /\ \A d \in Conn : d # c => sent'[d] = sent[d]
            BY <2>2, <3>2
        <3>. HIDE DEF f
        <3>. QED BY <2>1, <2>2, <3>1, <3>2, <3>3, OrderOffer
    <2>4. CASE SayBye(c)
        <3>1. Bye(c) \in Frame /\ Bye(c).kind # "data"
            BY DEF Bye, Frame
        <3>2. Offer(c, Bye(c)) /\ UNCHANGED <<partner, delivered, sent>>
            BY <2>4 DEF SayBye
        <3>3. \A d \in Conn : pc'[d] = pc[d] \/ pc'[d] \in {"leaving", "closed"}
            BY <2>2, <2>4 DEF SayBye, Return
        <3>. QED BY <2>1, <2>2, <3>1, <3>2, <3>3, OrderOffer
    <2>. QED BY <1>10, <2>3, <2>4
<1>11. ASSUME NEW c \in Conn,
              PumpDeliver(c) \/ PumpLose(c) \/ PumpFail(c) \/ PumpStop(c)
       PROVE OrderOK'
    <2>1. CASE PumpStop(c)
        BY <1>1, <1>2, <2>1 DEF PumpStop
    <2>2. CASE PumpDeliver(c) \/ PumpLose(c) \/ PumpFail(c)
        BY <2>2, OrderTake DEF PumpDeliver, PumpLose, PumpFail
    <2>. QED BY <1>11, <2>1, <2>2
<1>. QED
    BY <1>3, <1>5, <1>6, <1>7, <1>8, <1>9, <1>10, <1>11, StepCases

\* A tunnel never reorders or repeats data frames: not on the socket, not in the
\* buffer that feeds it, not between the two.
THEOREM InOrderAlways == Spec => []InOrder
<1>1. Init => OrderOK
    BY DEF Init, OrderOK, Ordered, Feed
<1>2. IInv /\ IInv' /\ OrderOK /\ [Next]_vars => OrderOK'
    BY OrderStep
<1>3. OrderOK => InOrder
    BY DEF OrderOK, Ordered, Feed, InOrder
<1>. QED BY <1>1, <1>2, <1>3, Inductive, PTL DEF Spec
-----------------------------------------------------------------------------
(* Refinement: every step of the relay is a step of Rendezvous or none.     *)

\* Nobody's phase or mate changes: a stuttering step of Rendezvous.
LEMMA AbstractStutter ==
    ASSUME \A d \in Conn : PhaseOf(d)' = PhaseOf(d) /\ MateOf(d)' = MateOf(d)
    PROVE  UNCHANGED Abstract!vars
BY DEF Abstract!vars

\* A registered handler is one that register let through.
LEMMA RegisteredFacts ==
    ASSUME IInv, NEW c \in Conn
    PROVE  /\ Registered(c) => /\ ent[c] \in Conn
                               /\ pc[c] \in {"waiting", "tunnel", "leaving", "closed"}
           /\ pc[c] \in {"waiting", "tunnel", "leaving"} => Registered(c)
           /\ pc[c] = "tunnel" => MateOf(c) # None
<1>1. Registered(c) => /\ ent[c] \in Conn
                       /\ pc[c] \in {"waiting", "tunnel", "leaving", "closed"}
  <2>1. SUFFICES ASSUME Registered(c)
                 PROVE  /\ ent[c] \in Conn
                        /\ pc[c] \in {"waiting", "tunnel", "leaving", "closed"}
    OBVIOUS
  <2>2. ent[c] \in Conn /\ slot[ent[c]][RoleOf(c)] = c /\ c # None
    BY <2>1, ConstantsOK DEF Registered, OwnSlot, IInv, TypeOK
  <2>3. pc[slot[ent[c]][RoleOf(c)]] \in {"waiting", "tunnel", "leaving", "closed"}
    BY <2>2, RoleFacts DEF IInv, SlotOK
  <2>. QED BY <2>2, <2>3
<1>2. pc[c] \in {"waiting", "tunnel", "leaving"} => Registered(c)
  BY DEF Registered, OwnSlot, IInv, EntOK, ChannelsOK
<1>3. pc[c] = "tunnel" => MateOf(c) # None
  BY <1>2 DEF MateOf, OtherSlot, IInv, ChannelsOK, Coupled
<1>. QED BY <1>1, <1>2, <1>3

\* With the slots and entries unchanged, being registered and the mate are
\* unchanged, and the phase follows the handler's position.
LEMMA AbstractKept ==
    ASSUME slot' = slot, ent' = ent, NEW d \in Conn
    PROVE  /\ Registered(d)' = Registered(d)
           /\ MateOf(d)' = MateOf(d)
           /\ pc'[d] = pc[d] => PhaseOf(d)' = PhaseOf(d)
BY DEF Registered, MateOf, PhaseOf, OwnSlot, OtherSlot

LEMMA PhaseValues ==
    ASSUME IInv, NEW c \in Conn
    PROVE  /\ ~Registered(c) => PhaseOf(c) = "out" /\ MateOf(c) = None
           /\ pc[c] = "waiting" => PhaseOf(c) = "in"
           /\ pc[c] = "tunnel" => PhaseOf(c) = "open"
           /\ pc[c] = "leaving" => PhaseOf(c) = "gone"
           /\ Registered(c) /\ pc[c] = "closed" => PhaseOf(c) = "gone"
           /\ Registered(c) => MateOf(c) = OtherSlot(c)
BY RegisteredFacts DEF PhaseOf, MateOf

\* Only c's phase changes, nobody's mate.
LEMMA AbstractMove ==
    ASSUME NEW c \in Conn, NEW x,
           \A d \in Conn : MateOf(d)' = MateOf(d),
           \A d \in Conn : d # c => PhaseOf(d)' = PhaseOf(d),
           PhaseOf(c)' = x
    PROVE  /\ [d \in Conn |-> PhaseOf(d)]' =
                 [[d \in Conn |-> PhaseOf(d)] EXCEPT ![c] = x]
           /\ [d \in Conn |-> MateOf(d)]' = [d \in Conn |-> MateOf(d)]
OBVIOUS

\* An action that changes neither slots nor entries nor a registered
\* handler's phase is a stuttering step.
LEMMA StutterKept ==
    ASSUME IInv, IInv', NEW c \in Conn, slot' = slot, ent' = ent,
           \A d \in Conn : d # c => pc'[d] = pc[d],
           \/ pc'[c] = pc[c]
           \/ ~Registered(c)
           \/ pc[c] = "leaving" /\ pc'[c] = "closed"
    PROVE  UNCHANGED Abstract!vars
<1>1. SUFFICES ASSUME NEW d \in Conn
               PROVE  PhaseOf(d)' = PhaseOf(d) /\ MateOf(d)' = MateOf(d)
  BY AbstractStutter
<1>2. CASE pc'[d] = pc[d]
  BY <1>2, AbstractKept
<1>3. CASE d = c /\ ~Registered(c)
  BY <1>3, AbstractKept DEF PhaseOf
<1>4. CASE d = c /\ Registered(c) /\ pc[c] = "leaving" /\ pc'[c] = "closed"
  BY <1>4, AbstractKept DEF PhaseOf
<1>. QED BY <1>2, <1>3, <1>4, RegisteredFacts

\* getOrCreate gives c an entry in none of whose slots it is.
LEMMA StutterEntry ==
    ASSUME IInv, NEW c \in Conn, NEW e \in Conn, ent[c] = None,
           ent' = [ent EXCEPT ![c] = e], slot' = slot,
           \A d \in Conn : d # c => pc'[d] = pc[d]
    PROVE  UNCHANGED Abstract!vars
<1>1. SUFFICES ASSUME NEW d \in Conn
               PROVE  PhaseOf(d)' = PhaseOf(d) /\ MateOf(d)' = MateOf(d)
  BY AbstractStutter
<1>2. ent'[c] = e /\ \A x \in Conn : x # c => ent'[x] = ent[x]
  BY DEF IInv, TypeOK
<1>3. CASE d = c
  <2>1. slot[e][RoleOf(c)] # c
    BY RoleFacts, ConstantsOK DEF IInv, SlotOK
  <2>. QED BY <1>2, <1>3, <2>1, ConstantsOK
           DEF PhaseOf, MateOf, Registered, OwnSlot
<1>4. CASE d # c
  BY <1>2, <1>4 DEF PhaseOf, MateOf, Registered, OwnSlot, OtherSlot
<1>. QED BY <1>3, <1>4

\* A handler that claims its slot comes in, and only its own phase changes.
LEMMA ClaimPhases ==
    ASSUME IInv, NEW c \in Conn, pc[c] = "joining", Claim(c)
    PROVE  /\ PhaseOf(c) = "out" /\ MateOf(c) = None
           /\ PhaseOf(c)' = "in" /\ Registered(c)' /\ OtherSlot(c)' = OtherSlot(c)
           /\ \A d \in Conn : d # c =>
                 /\ PhaseOf(d)' = PhaseOf(d)
                 /\ Registered(d)' = Registered(d)
                 /\ ~(ent[d] = ent[c] /\ RoleOf(d) # RoleOf(c)) => MateOf(d)' = MateOf(d)
<1>1. /\ ent[c] \in Conn /\ slot[ent[c]][RoleOf(c)] = None /\ ent' = ent
      /\ \A e \in Conn, r \in Roles :
            slot'[e][r] = IF e = ent[c] /\ r = RoleOf(c) THEN c ELSE slot[e][r]
      /\ pc'[c] = "waiting"
      /\ \A d \in Conn : d # c => pc'[d] = pc[d]
  <2>1. \A d \in Conn : d # c => pc'[d] = pc[d]
    BY Positions
  <2>2. pc' = [pc EXCEPT ![c] = "waiting"] /\ ent' = ent
    BY DEF Claim
  <2>3. pc'[c] = "waiting"
    BY <2>2 DEF IInv, TypeOK
  <2>4. /\ ent[c] \in Conn /\ slot[ent[c]][RoleOf(c)] = None
        /\ \A e \in Conn, r \in Roles :
              slot'[e][r] = IF e = ent[c] /\ r = RoleOf(c) THEN c ELSE slot[e][r]
    BY ClaimFacts
  <2>. QED BY <2>1, <2>2, <2>3, <2>4
<1>2. PhaseOf(c) = "out" /\ MateOf(c) = None
  BY PhaseValues, RegisteredFacts
<1>3. Registered(c)' /\ PhaseOf(c)' = "in" /\ OtherSlot(c)' = OtherSlot(c)
  BY <1>1, RoleFacts, ConstantsOK DEF Registered, PhaseOf, OwnSlot, OtherSlot
<1>4. ASSUME NEW d \in Conn, d # c
      PROVE  /\ PhaseOf(d)' = PhaseOf(d)
             /\ Registered(d)' = Registered(d)
             /\ ~(ent[d] = ent[c] /\ RoleOf(d) # RoleOf(c)) => MateOf(d)' = MateOf(d)
  <2>1. ent[d] # None => ent[d] \in Conn
    BY DEF IInv, TypeOK
  <2>2. Registered(d)' = Registered(d)
    BY <1>1, <1>4, <2>1, RoleFacts, ConstantsOK DEF Registered, OwnSlot
  <2>3. PhaseOf(d)' = PhaseOf(d)
    BY <1>1, <1>4, <2>2 DEF PhaseOf
  <2>4. ~(ent[d] = ent[c] /\ RoleOf(d) # RoleOf(c)) => MateOf(d)' = MateOf(d)
    <3>1. SUFFICES ASSUME ~(ent[d] = ent[c] /\ RoleOf(d) # RoleOf(c)), Registered(d)
                   PROVE  OtherSlot(d)' = OtherSlot(d)
      BY <2>2 DEF MateOf
    <3>2. ent[d] \in Conn /\ slot[ent[d]][RoleOf(d)] = d
      BY <2>1, <3>1 DEF Registered, OwnSlot
    <3>3. ent[d] # ent[c]
      BY <1>1, <3>1, <3>2, <1>4, ConstantsOK
    <3>. QED BY <1>1, <3>2, <3>3, RoleFacts DEF OtherSlot
  <2>. QED BY <2>2, <2>3, <2>4
<1>. QED BY <1>2, <1>3, <1>4

LEMMA RefineFirst ==
    ASSUME IInv, NEW c \in Conn, RegisterFirst(c)
    PROVE  Abstract!EnterFirst(c)
<1>1. pc[c] = "joining" /\ Claim(c) /\ OtherSlot(c) = None
  BY DEF RegisterFirst
<1>2. ASSUME NEW d \in Conn PROVE MateOf(d)' = MateOf(d)
  <2>1. CASE d = c
    BY <1>1, <2>1, ClaimPhases DEF MateOf
  <2>2. CASE d # c /\ ent[d] = ent[c] /\ RoleOf(d) # RoleOf(c)
    <3>1. RoleOf(d) = Other(RoleOf(c))
      BY <2>2, RoleFacts
    <3>2. ~Registered(d)
      BY <1>1, <2>2, <3>1, ConstantsOK DEF Registered, OwnSlot, OtherSlot
    <3>. QED BY <1>1, <2>2, <3>2, ClaimPhases DEF MateOf
  <2>3. CASE d # c /\ ~(ent[d] = ent[c] /\ RoleOf(d) # RoleOf(c))
    BY <1>1, <2>3, ClaimPhases
  <2>. QED BY <2>1, <2>2, <2>3
<1>3. \A d \in Conn : d # c => PhaseOf(d)' = PhaseOf(d)
  BY <1>1, ClaimPhases
<1>4. PhaseOf(c) = "out" /\ PhaseOf(c)' = "in"
  BY <1>1, ClaimPhases
<1>. QED BY <1>2, <1>3, <1>4, AbstractMove DEF Abstract!EnterFirst

LEMMA RefineSecond ==
    ASSUME IInv, NEW c \in Conn, RegisterSecond(c)
    PROVE  \E d \in Conn : Abstract!EnterSecond(c, d)
<1>1. pc[c] = "joining" /\ Claim(c) /\ OtherSlot(c) # None
  BY DEF RegisterSecond
<1>2. ent[c] \in Conn /\ slot[ent[c]][RoleOf(c)] = None
  BY <1>1, ClaimFacts
<1>3. slot[ent[c]] \in [Roles -> Conn \cup {None}]
  BY <1>2 DEF IInv, TypeOK
<1>4. PICK d \in Conn : d = OtherSlot(c)
  BY <1>1, <1>3, RoleFacts DEF OtherSlot
<1>5. pc[c] = "joining" /\ Claim(c) /\ OtherSlot(c) = d /\ d # None
  BY <1>1, <1>4
<1>6. d \in Conn /\ ent[d] = ent[c] /\ RoleOf(d) = Other(RoleOf(c)) /\ d # c
      /\ pc[d] \in {"waiting", "tunnel", "leaving", "closed"}
  BY <1>5, <1>2, <1>3, RoleFacts DEF OtherSlot, IInv, SlotOK
<1>7. Other(RoleOf(d)) = RoleOf(c)
  BY <1>6, RoleFacts
<1>8. Registered(d) /\ OtherSlot(d) = None
  BY <1>5, <1>2, <1>6, <1>7, ConstantsOK DEF Registered, OwnSlot, OtherSlot
<1>9. MateOf(d) = None /\ pc[d] # "tunnel"
  BY <1>6, <1>8, RegisteredFacts DEF MateOf
<1>10. PhaseOf(d) \in {"in", "gone"}
  BY <1>6, <1>8, <1>9, PhaseValues
<1>11. Abstract!Compatible(c, d)
  <2>1. TokenOf[d] = TokenOf[ent[d]] /\ TokenOf[c] = TokenOf[ent[c]]
    BY <1>2, <1>6, ConstantsOK DEF IInv, EntOK
  <2>2. (c \in Viewers) <=> ~(d \in Viewers)
    BY <1>6 DEF RoleOf, Other
  <2>. QED BY <1>6, <2>1, <2>2 DEF Abstract!Compatible, Abstract!SameRole
<1>12. MateOf(c)' = d /\ MateOf(d)' = c
  <2>1. MateOf(c)' = d
    BY <1>5, ClaimPhases DEF MateOf
  <2>2. Registered(d)'
    BY <1>5, <1>6, <1>8, ClaimPhases
  <2>3. OtherSlot(d)' = c
    BY <1>5, <1>2, <1>6, <1>7, ClaimFacts, RoleFacts DEF OtherSlot
  <2>. QED BY <2>1, <2>2, <2>3 DEF MateOf
<1>13. ASSUME NEW x \in Conn, x # c, x # d PROVE MateOf(x)' = MateOf(x)
  <2>1. CASE ent[x] = ent[c] /\ RoleOf(x) # RoleOf(c)
    <3>1. RoleOf(x) = Other(RoleOf(c))
      BY <2>1, RoleFacts
    <3>2. ~Registered(x)
      BY <1>5, <1>13, <2>1, <3>1 DEF Registered, OwnSlot, OtherSlot
    <3>3. ~Registered(x)'
      BY <1>5, <1>13, <3>2, ClaimPhases
    <3>. QED BY <3>2, <3>3 DEF MateOf
  <2>2. CASE ~(ent[x] = ent[c] /\ RoleOf(x) # RoleOf(c))
    BY <1>5, <1>13, <2>2, ClaimPhases
  <2>. QED BY <2>1, <2>2
<1>14. /\ PhaseOf(c) = "out" /\ MateOf(c) = None /\ PhaseOf(c)' = "in"
       /\ \A x \in Conn : x # c => PhaseOf(x)' = PhaseOf(x)
  BY <1>5, ClaimPhases
<1>15. [x \in Conn |-> PhaseOf(x)]' = [[x \in Conn |-> PhaseOf(x)] EXCEPT ![c] = "in"]
  BY <1>14
<1>16. [x \in Conn |-> MateOf(x)]' =
          [[x \in Conn |-> MateOf(x)] EXCEPT ![c] = d, ![d] = c]
  <2>1. \A x \in Conn : MateOf(x)' = IF x = d THEN c ELSE IF x = c THEN d ELSE MateOf(x)
    BY <1>6, <1>12, <1>13
  <2>2. [[x \in Conn |-> MateOf(x)] EXCEPT ![c] = d, ![d] = c] =
           [x \in Conn |-> IF x = d THEN c ELSE IF x = c THEN d ELSE MateOf(x)]
    BY <1>6
  <2>. QED BY <2>1, <2>2
<1>17. Abstract!EnterSecond(c, d)
  BY <1>6, <1>9, <1>10, <1>11, <1>14, <1>15, <1>16 DEF Abstract!EnterSecond
<1>. QED BY <1>6, <1>17

LEMMA RefineMove ==
    ASSUME IInv, IInv', NEW c \in Conn, slot' = slot, ent' = ent, pc[c] # pc'[c],
           \A d \in Conn : d # c => pc'[d] = pc[d]
    PROVE  /\ pc[c] = "waiting" /\ pc'[c] = "tunnel" => Abstract!Open(c)
           /\ pc[c] = "waiting" /\ pc'[c] = "closed" => Abstract!Leave(c)
           /\ pc[c] = "tunnel" /\ pc'[c] = "leaving" => Abstract!Leave(c)
<1>1. \A d \in Conn : MateOf(d)' = MateOf(d) /\ Registered(d)' = Registered(d)
  BY AbstractKept
<1>2. \A d \in Conn : d # c => PhaseOf(d)' = PhaseOf(d)
  BY AbstractKept
<1>3. ASSUME NEW x, PhaseOf(c)' = x
      PROVE  /\ [d \in Conn |-> PhaseOf(d)]' =
                 [[d \in Conn |-> PhaseOf(d)] EXCEPT ![c] = x]
             /\ [d \in Conn |-> MateOf(d)]' = [d \in Conn |-> MateOf(d)]
  BY <1>1, <1>2, <1>3, AbstractMove
<1>4. CASE pc[c] = "waiting" /\ pc'[c] = "tunnel"
  <2>1. PhaseOf(c) = "in" /\ Registered(c)
    BY <1>4, PhaseValues, RegisteredFacts
  <2>2. PhaseOf(c)' = "open"
    BY <1>1, <1>4, <2>1 DEF PhaseOf
  <2>3. MateOf(c) # None
    <3>1. partner'[c] # None /\ Coupled(c, partner[c])'
      BY <1>4 DEF IInv, ChannelsOK
    <3>2. OtherSlot(c)' # None
      BY <3>1 DEF Coupled, OtherSlot
    <3>. QED BY <2>1, <3>2 DEF MateOf, OtherSlot
  <2>. QED BY <1>3, <1>4, <2>1, <2>2, <2>3 DEF Abstract!Open
<1>5. CASE pc[c] = "waiting" /\ pc'[c] = "closed"
  <2>1. PhaseOf(c) = "in" /\ Registered(c)
    BY <1>5, PhaseValues, RegisteredFacts
  <2>2. PhaseOf(c)' = "gone"
    BY <1>1, <1>5, <2>1 DEF PhaseOf
  <2>. QED BY <1>3, <1>5, <2>1, <2>2 DEF Abstract!Leave
<1>6. CASE pc[c] = "tunnel" /\ pc'[c] = "leaving"
  <2>1. PhaseOf(c) = "open" /\ Registered(c)
    BY <1>6, PhaseValues, RegisteredFacts
  <2>2. PhaseOf(c)' = "gone"
    BY <1>1, <1>6, <2>1 DEF PhaseOf
  <2>. QED BY <1>3, <1>6, <2>1, <2>2 DEF Abstract!Leave
<1>. QED BY <1>4, <1>5, <1>6

LEMMA RefineInit == Init => Abstract!Init
<1> SUFFICES ASSUME Init PROVE Abstract!Init
    OBVIOUS
<1>1. \A c \in Conn : ~Registered(c)
  BY DEF Init, Registered
<1>. QED BY <1>1 DEF Abstract!Init, PhaseOf, MateOf

LEMMA RefineStep == IInv /\ IInv' /\ [Next]_vars => [Abstract!Next]_(Abstract!vars)
<1> SUFFICES ASSUME IInv, IInv', [Next]_vars
             PROVE  [Abstract!Next]_(Abstract!vars)
    OBVIOUS
<1>1. ASSUME UNCHANGED vars PROVE UNCHANGED Abstract!vars
  <2>1. slot' = slot /\ ent' = ent /\ pc' = pc
    BY <1>1 DEF vars, storeVars
  <2>. QED BY <2>1, AbstractKept, AbstractStutter
<1>2. ASSUME NEW c \in Conn,
             \/ Request(c) \/ Reject(c) \/ Upgrade(c) \/ IdleTimeout(c)
             \/ ClientClose(c) \/ ReadPing(c)
      PROVE  UNCHANGED Abstract!vars
  <2>1. slot' = slot /\ ent' = ent
    BY <1>2 DEF Request, Reject, Upgrade, IdleTimeout, ClientClose, ReadPing, storeVars
  <2>2. \A d \in Conn : d # c => pc'[d] = pc[d]
    BY <1>2, Positions DEF IdleTimeout, ClientClose, ReadPing
  <2>3. pc'[c] = pc[c] \/ pc[c] \in {"idle", "auth"}
    BY <1>2 DEF Request, Reject, Upgrade, IdleTimeout, ClientClose, ReadPing
  <2>. QED BY <2>1, <2>2, <2>3, RegisteredFacts, StutterKept
<1>3. ASSUME NEW c \in Conn, FindEntry(c) \/ ServerFull(c) \/ CreateEntry(c)
      PROVE  UNCHANGED Abstract!vars
  <2>1. slot' = slot /\ ent[c] = None /\ pc[c] = "upgraded"
    BY <1>3 DEF FindEntry, ServerFull, CreateEntry, storeVars, IInv, EntOK
  <2>2. \A d \in Conn : d # c => pc'[d] = pc[d]
    BY <1>3, Positions
  <2>3. CASE FindEntry(c)
    <3>1. sessions[TokenOf[c]] \in Conn
      BY <2>3, ConstantsOK DEF FindEntry, IInv, TypeOK
    <3>2. ent' = [ent EXCEPT ![c] = sessions[TokenOf[c]]]
      BY <2>3 DEF FindEntry
    <3>. QED BY <2>1, <2>2, <3>1, <3>2, StutterEntry
  <2>4. CASE ServerFull(c)
    <3>1. ent' = ent
      BY <2>4 DEF ServerFull
    <3>. QED BY <2>1, <2>2, <3>1, RegisteredFacts, StutterKept
  <2>5. CASE CreateEntry(c)
    <3>1. ent' = [ent EXCEPT ![c] = c]
      BY <2>5 DEF CreateEntry
    <3>. QED BY <2>1, <2>2, <3>1, StutterEntry
  <2>. QED BY <1>3, <2>3, <2>4, <2>5
<1>4. ASSUME NEW c \in Conn, RoleTaken(c) \/ RegisterFirst(c) \/ RegisterSecond(c)
      PROVE  [Abstract!Next]_(Abstract!vars)
  <2>1. CASE RoleTaken(c)
    <3>1. slot' = slot /\ ent' = ent /\ pc[c] = "joining"
      BY <2>1 DEF RoleTaken, storeVars
    <3>2. \A d \in Conn : d # c => pc'[d] = pc[d]
      BY <2>1, Positions
    <3>. QED BY <3>1, <3>2, RegisteredFacts, StutterKept
  <2>2. CASE RegisterFirst(c)
    BY <2>2, RefineFirst DEF Abstract!Next
  <2>3. CASE RegisterSecond(c)
    BY <2>3, RefineSecond DEF Abstract!Next
  <2>. QED BY <1>4, <2>1, <2>2, <2>3
<1>5. ASSUME NEW c \in Conn, PairFirst(c) \/ PairSecond(c)
      PROVE  [Abstract!Next]_(Abstract!vars)
  <2>1. slot' = slot /\ ent' = ent /\ pc[c] = "waiting"
    BY <1>5 DEF PairFirst, PairSecond, Tunnel
  <2>2. pc'[c] = "tunnel" /\ \A d \in Conn : d # c => pc'[d] = pc[d]
    BY <1>5, Positions
  <2>3. Abstract!Open(c)
    BY <2>1, <2>2, RefineMove
  <2>. QED BY <2>3 DEF Abstract!Next
<1>6. ASSUME NEW c \in Conn, GiveUp(c) \/ ReadError(c)
      PROVE  [Abstract!Next]_(Abstract!vars)
  <2>1. slot' = slot /\ ent' = ent
    BY <1>6 DEF GiveUp, ReadError
  <2>2. \A d \in Conn : d # c => pc'[d] = pc[d]
    BY <1>6, Positions
  <2>3. \/ pc[c] = "waiting" /\ pc'[c] = "closed"
        \/ pc[c] = "tunnel" /\ pc'[c] = "leaving"
    BY <1>6, Positions DEF GiveUp, ReadError
  <2>4. Abstract!Leave(c)
    BY <2>1, <2>2, <2>3, RefineMove
  <2>. QED BY <2>4 DEF Abstract!Next
<1>7. ASSUME NEW c \in Conn, ReadData(c) \/ SayBye(c)
      PROVE  UNCHANGED Abstract!vars
  <2>1. slot' = slot /\ ent' = ent
    BY <1>7 DEF ReadData, SayBye, storeVars
  <2>2. \A d \in Conn : d # c => pc'[d] = pc[d]
    BY <1>7, Positions DEF ReadData
  <2>3. pc'[c] = pc[c] \/ (pc[c] = "leaving" /\ pc'[c] = "closed")
    BY <1>7, Positions DEF ReadData, SayBye
  <2>. QED BY <2>1, <2>2, <2>3, StutterKept
<1>8. ASSUME NEW c \in Conn,
             PumpDeliver(c) \/ PumpLose(c) \/ PumpFail(c) \/ PumpStop(c)
      PROVE  UNCHANGED Abstract!vars
  <2>1. slot' = slot /\ ent' = ent /\ pc' = pc
    BY <1>8 DEF PumpDeliver, PumpLose, PumpFail, PumpStop, Take, storeVars
  <2>. QED BY <2>1, AbstractKept, AbstractStutter
<1>. QED
  BY <1>1, <1>2, <1>3, <1>4, <1>5, <1>6, <1>7, <1>8, StepCases

\* The store, the entries, the two pairing channels and the timeouts together
\* implement Rendezvous: one-to-one couples that never change.
THEOREM Refinement == Spec => ImplementsRendezvous
<1>1. IInv /\ IInv' /\ [Next]_vars => [Abstract!Next]_(Abstract!vars)
  BY RefineStep
<1>2. Init => Abstract!Init
  BY RefineInit
<1>. QED BY <1>1, <1>2, Inductive, PTL DEF Spec, ImplementsRendezvous, Abstract!Spec
-----------------------------------------------------------------------------
(* A dead client does not keep its role.                                    *)

\* A socket stays open at most until its handler returns.
SockOK == \A c \in Conn : pc[c] = "closed" => sock[c] = "closed"

\* The handler of a dead client, before and after it has a partner.
DeadIn(c, place) == sock[c] = "gone" /\ pc[c] = place

\* The store has forgotten c's entry.
Released(c) == \A t \in Token : sessions[t] = None \/ sessions[t] # ent[c]

\* Where a handler need not wait for its client, it can take a step.
HandlerEnabled(c) == ENABLED <<Handler(c)>>_vars

HandlerCanStep ==
    \A c \in Conn :
        (\/ pc[c] \in {"auth", "upgraded", "joining", "waiting", "leaving"}
         \/ pc[c] = "tunnel" /\ sock[c] # "open") => HandlerEnabled(c)

LEMMA SockStep == TypeOK /\ SockOK /\ [Next]_vars => SockOK'
<1> SUFFICES ASSUME TypeOK, SockOK, [Next]_vars
             PROVE  SockOK'
    OBVIOUS
<1>. USE DEF SockOK, TypeOK
<1>1. UNCHANGED vars => SockOK'
  BY DEF vars, netVars
<1>2. ASSUME NEW c \in Conn
      PROVE  (\/ Request(c) \/ Reject(c) \/ Upgrade(c) \/ IdleTimeout(c)
              \/ ClientClose(c) \/ ReadPing(c)) => SockOK'
  BY DEF Request, Reject, Upgrade, IdleTimeout, ClientClose, ReadPing, Return, netVars
<1>3. ASSUME NEW c \in Conn
      PROVE  FindEntry(c) \/ ServerFull(c) \/ CreateEntry(c) => SockOK'
  BY DEF FindEntry, ServerFull, CreateEntry, Return, netVars
<1>4. ASSUME NEW c \in Conn
      PROVE  RoleTaken(c) \/ RegisterFirst(c) \/ RegisterSecond(c) => SockOK'
  BY DEF RoleTaken, RegisterFirst, RegisterSecond, Claim, Return, netVars
<1>5. ASSUME NEW c \in Conn
      PROVE  PairFirst(c) \/ PairSecond(c) => SockOK'
  BY DEF PairFirst, PairSecond, Tunnel, netVars
<1>6. ASSUME NEW c \in Conn
      PROVE  GiveUp(c) \/ ReadError(c) => SockOK'
  BY DEF GiveUp, ReadError, Return, netVars
<1>7. ASSUME NEW c \in Conn
      PROVE  ReadData(c) \/ SayBye(c) => SockOK'
  BY DEF ReadData, SayBye, Return, netVars
<1>8. ASSUME NEW c \in Conn
      PROVE  PumpDeliver(c) \/ PumpLose(c) \/ PumpFail(c) \/ PumpStop(c) => SockOK'
  BY DEF PumpDeliver, PumpLose, PumpFail, PumpStop, Take, netVars
<1>. QED
  BY <1>1, <1>2, <1>3, <1>4, <1>5, <1>6, <1>7, <1>8, StepCases

\* Only c's own handler moves c on or changes what it knows, and a dead
\* client stays dead until the handler returns.
LEMMA OthersKeep ==
    ASSUME IInv, [Next]_vars, NEW c \in Conn, sock[c] = "gone",
           pc[c] \in {"waiting", "tunnel"}, ~Handler(c)
    PROVE  pc'[c] = pc[c] /\ sock'[c] = "gone"
<1>. DEFINE Kept == pc'[c] = pc[c] /\ sock'[c] = "gone"
<1>. USE DEF IInv, TypeOK, Handler, getOrCreate, register, Pair, PairTimeout
<1>1. UNCHANGED vars => Kept
  BY DEF vars, netVars
<1>2. ASSUME NEW d \in Conn
      PROVE  (\/ Request(d) \/ Reject(d) \/ Upgrade(d) \/ IdleTimeout(d)
              \/ ClientClose(d) \/ ReadPing(d)) => Kept
  BY DEF Request, Reject, Upgrade, IdleTimeout, ClientClose, ReadPing, Return, netVars
<1>3. ASSUME NEW d \in Conn
      PROVE  FindEntry(d) \/ ServerFull(d) \/ CreateEntry(d) => Kept
  BY DEF FindEntry, ServerFull, CreateEntry, Return, netVars
<1>4. ASSUME NEW d \in Conn
      PROVE  RoleTaken(d) \/ RegisterFirst(d) \/ RegisterSecond(d) => Kept
  BY DEF RoleTaken, RegisterFirst, RegisterSecond, Claim, Return, netVars
<1>5. ASSUME NEW d \in Conn
      PROVE  PairFirst(d) \/ PairSecond(d) => Kept
  BY DEF PairFirst, PairSecond, Tunnel, netVars
<1>6. ASSUME NEW d \in Conn
      PROVE  GiveUp(d) \/ ReadError(d) => Kept
  BY DEF GiveUp, ReadError, Return, netVars
<1>7. ASSUME NEW d \in Conn
      PROVE  ReadData(d) \/ SayBye(d) => Kept
  BY DEF ReadData, SayBye, Return, netVars
<1>8. ASSUME NEW d \in Conn
      PROVE  PumpDeliver(d) \/ PumpLose(d) \/ PumpFail(d) \/ PumpStop(d) => Kept
  BY DEF PumpDeliver, PumpLose, PumpFail, PumpStop, Take, netVars
<1>. HIDE DEF Kept
<1>9. Kept
  BY <1>1, <1>2, <1>3, <1>4, <1>5, <1>6, <1>7, <1>8, StepCases
<1>. QED BY <1>9 DEF Kept

\* remove forgets the handler's own entry, for it is stored under its token.
LEMMA RemoveReleases ==
    ASSUME IInv, NEW c \in Conn, pc[c] \in {"waiting", "tunnel"},
           remove(TokenOf[c]), ent' = ent
    PROVE  Released(c)'
<1>1. ent[c] \in Conn /\ TokenOf[ent[c]] = TokenOf[c] /\ None \notin Conn
  BY EntConn, ConstantsOK DEF IInv, EntOK
<1>2. SUFFICES ASSUME NEW t \in Token, sessions'[t] = ent[c]
               PROVE  FALSE
  BY DEF Released
<1>3. t # TokenOf[c] /\ sessions[t] = ent[c]
  BY <1>1, <1>2 DEF remove, IInv, TypeOK
<1>4. TokenOf[ent[c]] = t
  BY <1>1, <1>3 DEF IInv, StoreOK
<1>. QED BY <1>1, <1>3, <1>4

\* What the handler of a dead client does next.
LEMMA DeadHandlerStep ==
    ASSUME IInv, NEW c \in Conn, Handler(c), sock[c] = "gone"
    PROVE  /\ pc[c] = "waiting" => DeadIn(c, "tunnel")' \/ Released(c)'
           /\ pc[c] = "tunnel" => Released(c)'
<1>1. ASSUME pc[c] = "waiting"
      PROVE  PairFirst(c) \/ PairSecond(c) \/ GiveUp(c)
  BY <1>1 DEF Handler, getOrCreate, register, Pair, PairTimeout, ContextDone, Reject, Upgrade,
              FindEntry, ServerFull, CreateEntry, RoleTaken, RegisterFirst, RegisterSecond,
              ReadError, SayBye
<1>2. ASSUME pc[c] = "tunnel"
      PROVE  ReadError(c)
  BY <1>2 DEF Handler, getOrCreate, register, Pair, PairTimeout, ContextDone, Reject, Upgrade,
              FindEntry, ServerFull, CreateEntry, RoleTaken, RegisterFirst, RegisterSecond,
              PairFirst, PairSecond, GiveUp, SayBye
<1>3. PairFirst(c) \/ PairSecond(c) => DeadIn(c, "tunnel")'
  BY Positions DEF DeadIn, PairFirst, PairSecond, Tunnel, netVars
<1>4. GiveUp(c) => Released(c)'
  BY RemoveReleases DEF GiveUp
<1>5. ReadError(c) => Released(c)'
  BY RemoveReleases DEF ReadError
<1>. QED BY <1>1, <1>2, <1>3, <1>4, <1>5

\* A registered connection whose client is gone does not hold its role for
\* ever: fairness moves the handler from the wait into a tunnel or out of the
\* store, and out of a tunnel in any case.
THEOREM DeadPeerReleasedEventually == FairSpec /\ []HandlerCanStep => DeadPeerReleased
<1>1. Spec => []SockOK
  <2>1. Init => SockOK
    BY DEF Init, SockOK
  <2>. QED BY <2>1, SockStep, TypeCorrect, PTL DEF Spec
<1>2. ASSUME NEW c \in Conn
      PROVE  FairSpec /\ []HandlerCanStep =>
                ((sock[c] = "gone" /\ Registered(c)) ~> Released(c))
  <2>1. FairSpec => Spec /\ HandlerRuns(c)
    BY DEF FairSpec
  <2>2. IInv /\ SockOK /\ sock[c] = "gone" /\ Registered(c) =>
            DeadIn(c, "waiting") \/ DeadIn(c, "tunnel") \/ Released(c)
    <3>1. SUFFICES ASSUME IInv, SockOK, sock[c] = "gone", Registered(c),
                          NEW t \in Token, sessions[t] # None, sessions[t] = ent[c]
                   PROVE  DeadIn(c, "waiting") \/ DeadIn(c, "tunnel")
      BY DEF Released
    <3>2. slot[sessions[t]][RoleOf(c)] = c /\ c # None /\ RoleOf(c) \in Roles
      BY <3>1, RoleFacts, ConstantsOK DEF Registered, OwnSlot
    <3>. QED BY <3>1, <3>2 DEF IInv, LiveOK, DeadIn
  <2>3. IInv /\ [Next]_vars /\ DeadIn(c, "waiting") =>
            DeadIn(c, "waiting")' \/ DeadIn(c, "tunnel")' \/ Released(c)'
    BY OthersKeep, DeadHandlerStep DEF DeadIn
  <2>4. IInv /\ [Next]_vars /\ DeadIn(c, "tunnel") =>
            DeadIn(c, "tunnel")' \/ Released(c)'
    BY OthersKeep, DeadHandlerStep DEF DeadIn
  <2>5. IInv /\ <<Handler(c)>>_vars /\ DeadIn(c, "waiting") =>
            DeadIn(c, "tunnel")' \/ Released(c)'
    BY DeadHandlerStep DEF DeadIn
  <2>6. IInv /\ <<Handler(c)>>_vars /\ DeadIn(c, "tunnel") => Released(c)'
    BY DeadHandlerStep DEF DeadIn
  <2>7. HandlerCanStep /\ (DeadIn(c, "waiting") \/ DeadIn(c, "tunnel")) =>
            HandlerEnabled(c)
    BY DEF HandlerCanStep, DeadIn
  <2>. QED
    BY <1>1, <2>1, <2>2, <2>3, <2>4, <2>5, <2>6, <2>7, Inductive, PTL
    DEF Spec, HandlerRuns, HandlerEnabled
<1>. QED BY <1>2 DEF DeadPeerReleased, Released
=============================================================================
