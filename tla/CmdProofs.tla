----------------------------- MODULE CmdProofs -----------------------------
(***************************************************************************)
(* Proofs about CmdWS, for any commands, capacities, limits of the backoff *)
(* and number of connections.  A frame goes from the wire through the      *)
(* reader's hand and frameCh to the session; the argument follows the      *)
(* commands through the three and shows that none is lost or overtaken     *)
(* between them, however the goroutine outlives its session.               *)
(***************************************************************************)
EXTENDS CmdWS, TLAPS, SequenceTheorems

\* While cmdWSSession runs there is a connection.
Connected == pc \notin {"dial", "sleep"} => conn \in Conn

\* A reader holds a frame exactly while it is sending, and there is no reader
\* before the first heartbeat.
Held ==
    /\ \A c \in Conn : reader[c] = "sending" <=> holding[c] # None
    /\ \A c \in Conn : (c > conn \/ (c = conn /\ pc = "heartbeat")) => reader[c] = "none"

\* The commands in q are those of s after the m-th up to the n-th, in order:
\* k[i] commands of s have passed before the end of the first i frames of q.
Carries(q, s, m, n) ==
    \E k \in [0 .. Len(q) -> m .. n] :
        /\ k[0] = m /\ k[Len(q)] = n
        /\ \A i, j \in 0 .. Len(q) : i <= j => k[i] <= k[j]
        /\ \A i \in 1 .. Len(q) :
              IF q[i] \in Command THEN k[i] = k[i - 1] + 1 /\ s[k[i]] = q[i]
              ELSE k[i] = k[i - 1]

\* The same of the frame a reader holds.
Hands(f, s, m, n) == IF f \in Command THEN n = m + 1 /\ s[n] = f ELSE n = m

\* What has been sent and not started is in frameCh, in the reader's hand and
\* on the wire, in this order.
InTransit(c) ==
    \E b, d \in Nat :
        /\ Carries(frameCh[c], sentOn[c], Len(started[c]), b)
        /\ Hands(holding[c], sentOn[c], b, d)
        /\ Carries(wire[c], sentOn[c], d, Len(sentOn[c]))

Order ==
    \A c \in Conn :
        /\ InTransit(c)
        /\ \A i \in 1 .. Len(started[c]) : started[c][i] = sentOn[c][i]

IInv == TypeOK /\ Connected /\ Held /\ Order
-----------------------------------------------------------------------------
(* Carries.                                                                 *)
LEMMA CarriesBounds ==
    ASSUME NEW S, NEW q \in Seq(S), NEW s, NEW m \in Nat, NEW n \in Nat, Carries(q, s, m, n)
    PROVE  m <= n
<1>1. PICK k \in [0 .. Len(q) -> m .. n] : k[0] = m
    BY DEF Carries
<1>2. 0 \in 0 .. Len(q)
    OBVIOUS
<1>. QED BY <1>1, <1>2

LEMMA CarriesNone ==
    ASSUME NEW s, NEW m \in Nat
    PROVE  Carries(<<>>, s, m, m)
<1>. DEFINE k == [i \in 0 .. 0 |-> m]
<1>1. /\ k \in [0 .. Len(<<>>) -> m .. m] /\ k[0] = m /\ k[Len(<<>>)] = m
      /\ \A i, j \in 0 .. Len(<<>>) : i <= j => k[i] <= k[j]
    OBVIOUS
<1>2. 1 .. Len(<<>>) = {}
    OBVIOUS
<1>. QED BY <1>1, <1>2 DEF Carries

\* The sequence of what has been sent may grow.
LEMMA CarriesLonger ==
    ASSUME NEW S, NEW q \in Seq(S), NEW s \in Seq(Command), NEW f \in Command,
           NEW m \in Nat, NEW n \in Nat, n <= Len(s), Carries(q, s, m, n)
    PROVE  Carries(q, Append(s, f), m, n)
<1>1. PICK k \in [0 .. Len(q) -> m .. n] :
        /\ k[0] = m /\ k[Len(q)] = n
        /\ \A i, j \in 0 .. Len(q) : i <= j => k[i] <= k[j]
        /\ \A i \in 1 .. Len(q) :
              IF q[i] \in Command THEN k[i] = k[i - 1] + 1 /\ s[k[i]] = q[i]
              ELSE k[i] = k[i - 1]
    BY DEF Carries
<1>2. ASSUME NEW i \in 1 .. Len(q), q[i] \in Command PROVE Append(s, f)[k[i]] = s[k[i]]
    <2>1. Len(q) \in Nat /\ i \in 0 .. Len(q) /\ i - 1 \in 0 .. Len(q)
        BY <1>2
    <2>2. k[i] = k[i - 1] + 1 /\ k[i - 1] \in m .. n /\ k[i] \in m .. n
        BY <1>1, <1>2, <2>1
    <2>3. k[i] \in 1 .. Len(s)
        BY <2>2
    <2>. QED BY <2>3, AppendProperties
<1>. QED BY <1>1, <1>2 DEF Carries

LEMMA CarriesAppend ==
    ASSUME NEW S, NEW q \in Seq(S), NEW s, NEW f \in S, NEW m \in Nat, NEW n \in Nat,
           NEW o \in Nat, Carries(q, s, m, n), Hands(f, s, n, o)
    PROVE  Carries(Append(q, f), s, m, o)
<1>. DEFINE r == Append(q, f)
            l == Len(q)
<1>1. PICK k \in [0 .. l -> m .. n] :
        /\ k[0] = m /\ k[l] = n
        /\ \A i, j \in 0 .. l : i <= j => k[i] <= k[j]
        /\ \A i \in 1 .. l :
              IF q[i] \in Command THEN k[i] = k[i - 1] + 1 /\ s[k[i]] = q[i]
              ELSE k[i] = k[i - 1]
    BY DEF Carries
<1>2. /\ l \in Nat /\ Len(r) = l + 1 /\ r[l + 1] = f
      /\ \A i \in 1 .. l : r[i] = q[i]
    BY AppendProperties
<1>3. o >= n /\ (f \in Command => o = n + 1 /\ s[o] = f) /\ (f \notin Command => o = n)
    BY DEF Hands
<1>. DEFINE g == [i \in 0 .. (l + 1) |-> IF i = l + 1 THEN o ELSE k[i]]
<1>4. /\ \A i \in 0 .. l : g[i] = k[i] /\ g[i] \in m .. o /\ g[i] <= o
      /\ g[l + 1] = o /\ o \in m .. o
    <2>1. 0 \in 0 .. l /\ k[0] \in m .. n
        BY <1>1, <1>2
    <2>2. m <= n
        BY <2>1
    <2>3. o \in m .. o /\ l + 1 \in 0 .. (l + 1)
        BY <1>2, <1>3, <2>2
    <2>4. ASSUME NEW i \in 0 .. l PROVE g[i] = k[i] /\ g[i] \in m .. o /\ g[i] <= o
        <3>1. i \in 0 .. (l + 1) /\ i # l + 1
            BY <1>2
        <3>2. k[i] \in m .. n
            BY <1>1
        <3>3. k[i] \in m .. o
            BY <1>3, <3>2
        <3>. QED BY <3>1, <3>3
    <2>. QED BY <2>3, <2>4
<1>5. g \in [0 .. Len(r) -> m .. o]
    <2>1. ASSUME NEW i \in 0 .. (l + 1)
          PROVE  (IF i = l + 1 THEN o ELSE k[i]) \in m .. o
        <3>1. CASE i = l + 1
            BY <1>4, <3>1
        <3>2. CASE i # l + 1
            <4>1. i \in 0 .. l
                BY <1>2, <2>1, <3>2
            <4>2. g[i] = k[i] /\ g[i] \in m .. o
                BY <1>4, <4>1
            <4>. QED BY <3>2, <4>2
        <3>. QED BY <3>1, <3>2
    <2>. QED BY <1>2, <2>1
<1>6. g[0] = m /\ g[Len(r)] = o
    <2>1. 0 \in 0 .. l
        BY <1>2
    <2>2. g[0] = k[0]
        BY <1>4, <2>1
    <2>. QED BY <1>1, <1>2, <1>4, <2>2
<1>7. \A i, j \in 0 .. Len(r) : i <= j => g[i] <= g[j]
    <2>1. ASSUME NEW i \in 0 .. Len(r), NEW j \in 0 .. Len(r), i <= j PROVE g[i] <= g[j]
        <3>1. CASE j \in 0 .. l
            BY <1>1, <1>2, <1>4, <2>1, <3>1
        <3>2. CASE j = l + 1
            BY <1>2, <1>4, <2>1, <3>2
        <3>. QED BY <1>2, <3>1, <3>2
    <2>. QED BY <2>1
<1>8. ASSUME NEW i \in 1 .. Len(r)
      PROVE  IF r[i] \in Command THEN g[i] = g[i - 1] + 1 /\ s[g[i]] = r[i]
             ELSE g[i] = g[i - 1]
    <2>1. CASE i \in 1 .. l
        <3>1. i \in 0 .. l /\ i - 1 \in 0 .. l
            BY <1>2, <2>1
        <3>2. g[i] = k[i] /\ g[i - 1] = k[i - 1] /\ r[i] = q[i]
            BY <1>2, <1>4, <2>1, <3>1
        <3>. QED BY <1>1, <2>1, <3>2
    <2>2. CASE i = l + 1
        <3>1. g[i] = o /\ g[i - 1] = n /\ r[i] = f
            BY <1>1, <1>2, <1>4, <2>2
        <3>. QED BY <1>3, <3>1
    <2>. QED BY <1>2, <2>1, <2>2
<1>. HIDE DEF g, r, l
<1>9. Carries(r, s, m, o)
    BY <1>5, <1>6, <1>7, <1>8 DEF Carries
<1>. QED BY <1>9 DEF r

LEMMA CarriesTail ==
    ASSUME NEW S, NEW q \in Seq(S), q # <<>>, NEW s, NEW m \in Nat, NEW n \in Nat,
           Carries(q, s, m, n)
    PROVE  \E o \in Nat : Hands(Head(q), s, m, o) /\ Carries(Tail(q), s, o, n)
<1>. DEFINE r == Tail(q)
            l == Len(r)
<1>1. PICK k \in [0 .. Len(q) -> m .. n] :
        /\ k[0] = m /\ k[Len(q)] = n
        /\ \A i, j \in 0 .. Len(q) : i <= j => k[i] <= k[j]
        /\ \A i \in 1 .. Len(q) :
              IF q[i] \in Command THEN k[i] = k[i - 1] + 1 /\ s[k[i]] = q[i]
              ELSE k[i] = k[i - 1]
    BY DEF Carries
<1>2. /\ l \in Nat /\ Len(q) = l + 1 /\ Head(q) = q[1]
      /\ \A i \in 1 .. l : r[i] = q[i + 1]
    BY HeadTailProperties
<1>. DEFINE o == k[1]
            g == [i \in 0 .. l |-> k[i + 1]]
<1>3. o \in Nat /\ o \in m .. n
    BY <1>1, <1>2
<1>4. Hands(Head(q), s, m, o)
    <2>1. 1 \in 1 .. Len(q) /\ 1 - 1 = 0
        BY <1>2
    <2>. QED BY <1>1, <1>2, <2>1 DEF Hands
<1>5. \A i \in 0 .. l : i + 1 \in 0 .. Len(q) /\ g[i] = k[i + 1] /\ g[i] \in o .. n
    BY <1>1, <1>2
<1>6. g \in [0 .. l -> o .. n] /\ g[0] = o /\ g[l] = n
    BY <1>1, <1>2, <1>5
<1>7. \A i, j \in 0 .. l : i <= j => g[i] <= g[j]
    BY <1>1, <1>2, <1>5
<1>8. ASSUME NEW i \in 1 .. l
      PROVE  IF r[i] \in Command THEN g[i] = g[i - 1] + 1 /\ s[g[i]] = r[i]
             ELSE g[i] = g[i - 1]
    <2>1. /\ i \in 0 .. l /\ i - 1 \in 0 .. l /\ i + 1 \in 1 .. Len(q)
          /\ (i + 1) - 1 = i /\ (i - 1) + 1 = i
        BY <1>2
    <2>2. g[i] = k[i + 1] /\ g[i - 1] = k[i] /\ r[i] = q[i + 1]
        BY <1>2, <1>5, <2>1
    <2>. QED BY <1>1, <2>1, <2>2
<1>. HIDE DEF g, r, l, o
<1>9. Carries(r, s, o, n)
    BY <1>6, <1>7, <1>8 DEF Carries, l
<1>. QED BY <1>3, <1>4, <1>9 DEF r
-----------------------------------------------------------------------------
(* Types.                                                                   *)
LEMMA AdvancedType ==
    ASSUME NEW b \in Base .. Longest
    PROVE  Advanced(b) \in Base .. Longest
<1>1. Base \in Nat \ {0} /\ Longest \in Nat /\ b \in Nat /\ b >= Base /\ Base <= Longest
    BY CmdConstants
<1>2. (b * 3) \div 2 \in Nat /\ (b * 3) \div 2 >= b
    BY <1>1
<1>. QED BY <1>1, <1>2 DEF Advanced

\* The session's own frames are none of the commands.
LEMMA FrameNames ==
    /\ None \notin Frame
    /\ "ping" \notin Command /\ "close" \notin Command /\ "error" \notin Command
    /\ Command \subseteq Frame /\ {"ping", "close", "error"} \subseteq Frame
    BY CmdConstants DEF Command, Frame

LEMMA InitInv == Init => IInv
<1>. SUFFICES ASSUME Init PROVE IInv
    OBVIOUS
<1>1. TypeOK
    BY CmdConstants DEF Init, TypeOK, Conn
<1>2. Connected
    BY DEF Init, Connected
<1>3. Held
    BY DEF Init, Held
<1>4. ASSUME NEW c \in Conn PROVE InTransit(c)
    <2>1. /\ frameCh[c] = <<>> /\ wire[c] = <<>> /\ sentOn[c] = <<>> /\ started[c] = <<>>
          /\ holding[c] = None
        BY <1>4 DEF Init
    <2>2. Carries(<<>>, <<>>, 0, 0) /\ Hands(None, <<>>, 0, 0) /\ Len(<<>>) = 0
        BY CarriesNone, FrameNames DEF Hands, Frame
    <2>. QED BY <2>1, <2>2 DEF InTransit
<1>5. ASSUME NEW c \in Conn PROVE \A i \in 1 .. Len(started[c]) : started[c][i] = sentOn[c][i]
    <2>1. started[c] = <<>>
        BY <1>5 DEF Init
    <2>. QED BY <2>1
<1>. QED BY <1>1, <1>2, <1>3, <1>4, <1>5 DEF IInv, Order

\* What a step of the session leaves alone.
LEMMA SessionFrame ==
    ASSUME TypeOK, Connected, cmdWSSession \/ Sleep
    PROVE  TypeOK' /\ Connected'
<1>1. CASE Sleep
    BY <1>1 DEF TypeOK, Connected, Sleep, At, netVars, readerVars
<1>2. CASE Connect
    <2>1. conn + 1 \in Conn
        BY <1>2, CmdConstants DEF Connect, TypeOK, Conn
    <2>. QED BY <1>2, <2>1 DEF TypeOK, Connected, Connect, At, readerVars, Conn
<1>3. CASE ConnectFails
    <2>1. backoff' \in Base .. Longest
        BY <1>3, AdvancedType DEF ConnectFails, Backoff, TypeOK
    <2>. QED BY <1>3, <2>1 DEF TypeOK, Connected, ConnectFails, At, netVars, readerVars
<1>4. CASE Tick \/ Heartbeat \/ Pong \/ HeartbeatFails
    BY <1>4 DEF TypeOK, Connected, Tick, Heartbeat, Pong, HeartbeatFails, Leave, At, netVars, readerVars
<1>5. CASE FirstHeartbeat
    BY <1>5 DEF TypeOK, Connected, FirstHeartbeat, At
<1>6. CASE TakeFrame
    <2>1. /\ conn \in Conn /\ frameCh[conn] \in Seq(Frame) /\ frameCh[conn] # <<>> /\ Taken
          /\ Len(frameCh[conn]) <= FrameCap
        BY <1>6 DEF TakeFrame, TakeError, TakeClose, TakePing, TakeCommand, Taken, Connected, TypeOK
    <2>2. /\ Tail(frameCh[conn]) \in Seq(Frame) /\ Len(Tail(frameCh[conn])) <= FrameCap
        BY <2>1, CmdConstants, HeadTailProperties
    <2>3. started' \in [Conn -> Seq(Command)]
        <3>1. CASE TakeCommand
            <4>1. Head(frameCh[conn]) \in Command /\ started[conn] \in Seq(Command)
                BY <2>1, <3>1 DEF TakeCommand, TypeOK
            <4>. QED BY <2>1, <3>1, <4>1, AppendProperties DEF TakeCommand, TypeOK
        <3>. QED BY <1>6, <3>1 DEF TakeFrame, TakeError, TakeClose, TakePing, TypeOK
    <2>. QED BY <1>6, <2>1, <2>2, <2>3
         DEF TypeOK, Connected, Taken, TakeFrame, TakeError, TakeClose, TakePing, TakeCommand, netVars
<1>7. CASE Clear
    <2>1. cmdWSActive' \in 0 .. MaxConns
        BY <1>7, CmdConstants DEF Clear
    <2>. QED BY <1>7, <2>1 DEF TypeOK, Connected, Clear, At, netVars, readerVars
<1>8. CASE Close
    <2>1. backoff' \in Base .. Longest
        BY <1>8, AdvancedType, CmdConstants DEF Close, Backoff, TypeOK
    <2>. QED BY <1>8, <2>1 DEF TypeOK, Connected, Close, At, readerVars
<1>. QED BY <1>1, <1>2, <1>3, <1>4, <1>5, <1>6, <1>7, <1>8 DEF cmdWSSession, Serve
\* And of the reader, the server and the network.
LEMMA ConnFrame ==
    ASSUME TypeOK, Connected, Held, NEW c \in Conn, ReaderStep(c) \/ ServerSends(c) \/ PeerChanges(c)
    PROVE  TypeOK' /\ Connected'
<1>1. /\ wire[c] \in Seq(Frame) /\ Len(wire[c]) <= WireCap
      /\ frameCh[c] \in Seq(Frame) /\ Len(frameCh[c]) <= FrameCap
      /\ sentOn[c] \in Seq(Command) /\ holding[c] \in Frame \cup {None}
    BY DEF TypeOK
<1>2. WireCap \in Nat /\ FrameCap \in Nat
    BY CmdConstants
<1>3. CASE Read(c)
    <2>1. /\ Tail(wire[c]) \in Seq(Frame) /\ Len(Tail(wire[c])) <= WireCap
          /\ Head(wire[c]) \in Frame
        BY <1>1, <1>2, <1>3, HeadTailProperties DEF Read
    <2>. QED BY <1>3, <2>1 DEF TypeOK, Connected, Read, mainVars
<1>4. CASE ReadFails(c)
    BY <1>4, FrameNames DEF TypeOK, Connected, ReadFails, mainVars, netVars
<1>5. CASE Push(c) /\ holding[c] # None
    <2>1. /\ Append(frameCh[c], holding[c]) \in Seq(Frame)
          /\ Len(Append(frameCh[c], holding[c])) <= FrameCap
        BY <1>1, <1>2, <1>5, AppendProperties DEF Push
    <2>. QED BY <1>5, <2>1 DEF TypeOK, Connected, Push, mainVars, netVars
<1>6. CASE ServerSends(c)
    <2>1. ASSUME NEW f \in Frame, Len(wire[c]) < WireCap
          PROVE  Append(wire[c], f) \in Seq(Frame) /\ Len(Append(wire[c], f)) <= WireCap
        BY <1>1, <1>2, <2>1, AppendProperties
    <2>2. \A k \in Command : Append(sentOn[c], k) \in Seq(Command)
        BY <1>1, AppendProperties
    <2>3. /\ wire' \in [Conn -> Seq(Frame)]
          /\ \A d \in Conn : Len(wire'[d]) <= WireCap
        <3>1. PICK f \in Frame : wire' = [wire EXCEPT ![c] = Append(@, f)]
            BY <1>6, FrameNames DEF ServerSends
        <3>2. Append(wire[c], f) \in Seq(Frame) /\ Len(Append(wire[c], f)) <= WireCap
            BY <1>6, <2>1 DEF ServerSends
        <3>. QED BY <3>1, <3>2 DEF TypeOK
    <2>4. sentOn' \in [Conn -> Seq(Command)]
        <3>1. \/ sentOn' = sentOn
              \/ \E k \in Command : sentOn' = [sentOn EXCEPT ![c] = Append(@, k)]
            BY <1>6 DEF ServerSends
        <3>2. sentOn \in [Conn -> Seq(Command)]
            BY DEF TypeOK
        <3>. QED BY <2>2, <3>1, <3>2
    <2>5. peer' \in [Conn -> {"up", "closing", "silent", "gone"}]
        <3>1. peer' = peer \/ peer' = [peer EXCEPT ![c] = "closing"]
            BY <1>6 DEF ServerSends
        <3>2. peer \in [Conn -> {"up", "closing", "silent", "gone"}]
            BY DEF TypeOK
        <3>. QED BY <3>1, <3>2
    <2>. QED BY <1>6, <2>3, <2>4, <2>5 DEF TypeOK, Connected, ServerSends, mainVars, readerVars
<1>7. CASE PeerChanges(c)
    BY <1>7 DEF TypeOK, Connected, PeerChanges, mainVars, readerVars
<1>8. Push(c) => holding[c] # None
    BY DEF Push, Held
<1>. QED BY <1>3, <1>4, <1>5, <1>6, <1>7, <1>8 DEF ReaderStep
-----------------------------------------------------------------------------
(* The reader's hand.                                                       *)
LEMMA HeldStep ==
    ASSUME TypeOK, Connected, Held, Next
    PROVE  Held'
<1>1. CASE Sleep
    BY <1>1 DEF Held, Sleep, At, readerVars
<1>2. CASE Connect
    BY <1>2, CmdConstants DEF Held, Connect, At, readerVars, Conn, TypeOK
<1>3. CASE ConnectFails \/ Tick \/ Heartbeat \/ Pong \/ HeartbeatFails
    BY <1>3 DEF Held, ConnectFails, Tick, Heartbeat, Pong, HeartbeatFails, Leave, At, readerVars
<1>4. CASE FirstHeartbeat
    <2>1. /\ conn \in Conn /\ pc = "heartbeat" /\ pc' = "loop" /\ conn' = conn /\ holding' = holding
          /\ reader' = [reader EXCEPT ![conn] = "reading"]
        BY <1>4 DEF FirstHeartbeat, At, Connected
    <2>2. reader[conn] = "none" /\ holding[conn] = None
        BY <2>1, CmdConstants DEF Held, Conn
    <2>3. reader'[conn] = "reading" /\ \A c \in Conn : c # conn => reader'[c] = reader[c]
        BY <2>1 DEF TypeOK
    <2>4. \A c \in Conn : reader'[c] = "sending" <=> holding'[c] # None
        BY <2>1, <2>2, <2>3 DEF Held
    <2>5. \A c \in Conn : c > conn => c # conn
        BY CmdConstants, <2>1 DEF Conn
    <2>6. \A c \in Conn : c > conn' => reader'[c] = "none"
        BY <2>1, <2>3, <2>5 DEF Held
    <2>. QED BY <2>1, <2>4, <2>6 DEF Held
<1>5. CASE TakeFrame
    BY <1>5 DEF Held, TakeFrame, TakeError, TakeClose, TakePing, TakeCommand, Taken
<1>6. CASE Clear \/ Close
    BY <1>6 DEF Held, Clear, Close, At, readerVars
<1>7. ASSUME NEW c \in Conn, Read(c) PROVE Held'
    <2>1. Head(wire[c]) # None
        BY <1>7, FrameNames, HeadTailProperties DEF Read, TypeOK
    <2>. QED BY <1>7, <2>1 DEF Held, Read, TypeOK, mainVars
<1>8. ASSUME NEW c \in Conn, ReadFails(c) PROVE Held'
    <2>1. "error" # None
        BY FrameNames
    <2>. QED BY <1>8, <2>1 DEF Held, ReadFails, TypeOK, mainVars
<1>9. ASSUME NEW c \in Conn, Push(c) PROVE Held'
    BY <1>9 DEF Held, Push, TypeOK, mainVars
<1>10. ASSUME NEW c \in Conn, ServerSends(c) \/ PeerChanges(c) PROVE Held'
    BY <1>10 DEF Held, ServerSends, PeerChanges, mainVars, readerVars
<1>. QED BY <1>1, <1>2, <1>3, <1>4, <1>5, <1>6, <1>7, <1>8, <1>9, <1>10
         DEF Next, cmdWSSession, Serve, ReaderStep
-----------------------------------------------------------------------------
(* Commands on their way.                                                   *)
LEMMA OrderSame ==
    ASSUME Order, UNCHANGED <<frameCh, holding, wire, sentOn, started>>
    PROVE  Order'
BY DEF Order, InTransit

\* A step touches one connection.
LEMMA OrderOther ==
    ASSUME Order, NEW c \in Conn,
           InTransit(c)',
           (\A i \in 1 .. Len(started[c]) : started[c][i] = sentOn[c][i])',
           \A d \in Conn \ {c} : /\ frameCh'[d] = frameCh[d] /\ holding'[d] = holding[d]
                                 /\ wire'[d] = wire[d] /\ sentOn'[d] = sentOn[d]
                                 /\ started'[d] = started[d]
    PROVE  Order'
<1>1. ASSUME NEW d \in Conn, d # c
      PROVE  InTransit(d)' /\ (\A i \in 1 .. Len(started[d]) : started[d][i] = sentOn[d][i])'
    <2>1. /\ frameCh'[d] = frameCh[d] /\ holding'[d] = holding[d] /\ wire'[d] = wire[d]
          /\ sentOn'[d] = sentOn[d] /\ started'[d] = started[d]
        BY <1>1
    <2>2. InTransit(d) /\ \A i \in 1 .. Len(started[d]) : started[d][i] = sentOn[d][i]
        BY DEF Order
    <2>3. InTransit(d)'
        BY <2>1, <2>2 DEF InTransit
    <2>. QED BY <2>1, <2>2, <2>3
<1>. QED BY <1>1 DEF Order

\* What is passed on between two of the three places.
LEMMA TransitTypes ==
    ASSUME TypeOK, Order, NEW c \in Conn
    PROVE  /\ frameCh[c] \in Seq(Frame) /\ wire[c] \in Seq(Frame)
           /\ sentOn[c] \in Seq(Command) /\ started[c] \in Seq(Command)
           /\ Len(started[c]) \in Nat /\ Len(sentOn[c]) \in Nat
           /\ \E b, d \in Nat :
                 /\ Carries(frameCh[c], sentOn[c], Len(started[c]), b)
                 /\ Hands(holding[c], sentOn[c], b, d)
                 /\ Carries(wire[c], sentOn[c], d, Len(sentOn[c]))
                 /\ Len(started[c]) <= b /\ b <= d /\ d <= Len(sentOn[c])
<1>1. /\ frameCh[c] \in Seq(Frame) /\ wire[c] \in Seq(Frame)
      /\ sentOn[c] \in Seq(Command) /\ started[c] \in Seq(Command)
      /\ Len(started[c]) \in Nat /\ Len(sentOn[c]) \in Nat
    BY LenProperties DEF TypeOK
<1>2. PICK b \in Nat, d \in Nat :
         /\ Carries(frameCh[c], sentOn[c], Len(started[c]), b)
         /\ Hands(holding[c], sentOn[c], b, d)
         /\ Carries(wire[c], sentOn[c], d, Len(sentOn[c]))
    BY DEF Order, InTransit
<1>3. Len(started[c]) <= b /\ d <= Len(sentOn[c])
    BY <1>1, <1>2, CarriesBounds
<1>4. b <= d
    BY <1>2 DEF Hands
<1>. QED BY <1>1, <1>2, <1>3, <1>4

LEMMA OrderTake ==
    ASSUME IInv, TakeFrame
    PROVE  Order'
<1>1. TypeOK /\ Order /\ conn \in Conn /\ Taken
    BY DEF IInv, Connected, TakeFrame, TakeError, TakeClose, TakePing, TakeCommand, Taken
<1>. PICK c \in Conn : c = conn
    BY <1>1
<1>. DEFINE q == frameCh[c]
            s == sentOn[c]
            m == Len(started[c])
<1>2. /\ q \in Seq(Frame) /\ q # <<>> /\ s \in Seq(Command) /\ started[c] \in Seq(Command)
      /\ m \in Nat
    BY <1>1, TransitTypes DEF Taken
<1>3. PICK b \in Nat, d \in Nat :
         Carries(q, s, m, b) /\ Hands(holding[c], s, b, d) /\ Carries(wire[c], s, d, Len(s))
    BY <1>1, TransitTypes
<1>4. PICK o \in Nat : Hands(Head(q), s, m, o) /\ Carries(Tail(q), s, o, b)
    BY <1>2, <1>3, CarriesTail
<1>5. /\ frameCh' = [frameCh EXCEPT ![c] = Tail(q)] /\ frameCh'[c] = Tail(q)
      /\ holding' = holding /\ wire' = wire /\ sentOn' = sentOn
    BY <1>1 DEF Taken, netVars, TypeOK
<1>6. /\ Len(started'[c]) = o /\ \A i \in 1 .. Len(started'[c]) : started'[c][i] = s[i]
      /\ \A e \in Conn \ {c} : started'[e] = started[e]
    <2>1. \A i \in 1 .. m : started[c][i] = s[i]
        BY <1>1 DEF Order
    <2>2. CASE TakeCommand
        <3>1. o = m + 1 /\ s[o] = Head(q)
            BY <1>4, <2>2 DEF TakeCommand, Hands
        <3>2. started'[c] = Append(started[c], Head(q)) /\ Head(q) \in Command
            BY <1>1, <2>2 DEF TakeCommand, TypeOK
        <3>3. \A e \in Conn \ {c} : started'[e] = started[e]
            BY <1>1, <2>2 DEF TakeCommand, TypeOK
        <3>. QED BY <1>2, <2>1, <3>1, <3>2, <3>3, AppendProperties
    <2>3. CASE TakeError \/ TakeClose \/ TakePing
        <3>1. started' = started /\ Head(q) \notin Command
            BY <2>3, FrameNames DEF TakeError, TakeClose, TakePing
        <3>. QED BY <1>4, <2>1, <3>1 DEF Hands
    <2>. QED BY <2>2, <2>3 DEF TakeFrame
<1>7. InTransit(c)'
    BY <1>3, <1>4, <1>5, <1>6 DEF InTransit
<1>8. (\A i \in 1 .. Len(started[c]) : started[c][i] = sentOn[c][i])'
    BY <1>5, <1>6
<1>. QED BY <1>1, <1>5, <1>6, <1>7, <1>8, OrderOther
LEMMA OrderRead ==
    ASSUME IInv, NEW c \in Conn, Read(c)
    PROVE  Order'
<1>. DEFINE q == wire[c]
            s == sentOn[c]
<1>1. TypeOK /\ Order /\ q \in Seq(Frame) /\ q # <<>> /\ Len(s) \in Nat
    BY TransitTypes DEF IInv, Read
<1>2. holding[c] = None /\ None \notin Command
    BY FrameNames DEF IInv, Held, Read
<1>3. PICK b \in Nat :
         Carries(frameCh[c], s, Len(started[c]), b) /\ Carries(q, s, b, Len(s))
    BY <1>1, <1>2, TransitTypes DEF Hands
<1>4. PICK o \in Nat : Hands(Head(q), s, b, o) /\ Carries(Tail(q), s, o, Len(s))
    BY <1>1, <1>3, CarriesTail
<1>5. /\ holding'[c] = Head(q) /\ wire'[c] = Tail(q)
      /\ \A e \in Conn \ {c} : holding'[e] = holding[e] /\ wire'[e] = wire[e]
      /\ frameCh' = frameCh /\ sentOn' = sentOn /\ started' = started
    BY <1>1 DEF Read, TypeOK
<1>6. InTransit(c)'
    BY <1>3, <1>4, <1>5 DEF InTransit
<1>7. (\A i \in 1 .. Len(started[c]) : started[c][i] = sentOn[c][i])'
    BY <1>1, <1>5 DEF Order
<1>. QED BY <1>1, <1>5, <1>6, <1>7, OrderOther

LEMMA OrderReadFails ==
    ASSUME IInv, NEW c \in Conn, ReadFails(c)
    PROVE  Order'
<1>1. holding[c] = None /\ None \notin Command /\ "error" \notin Command
    BY FrameNames DEF IInv, Held, ReadFails
<1>2. /\ holding' = [holding EXCEPT ![c] = "error"] /\ holding'[c] = "error"
      /\ frameCh' = frameCh /\ wire' = wire /\ sentOn' = sentOn /\ started' = started
    BY DEF ReadFails, netVars, IInv, TypeOK
<1>3. InTransit(c)'
    BY <1>1, <1>2 DEF IInv, Order, InTransit, Hands
<1>4. (\A i \in 1 .. Len(started[c]) : started[c][i] = sentOn[c][i])'
    BY <1>2 DEF IInv, Order
<1>. QED BY <1>2, <1>3, <1>4, OrderOther DEF IInv, TypeOK

LEMMA OrderPush ==
    ASSUME IInv, NEW c \in Conn, Push(c)
    PROVE  Order'
<1>. DEFINE q == frameCh[c]
            s == sentOn[c]
            f == holding[c]
<1>1. TypeOK /\ Order /\ q \in Seq(Frame) /\ Len(started[c]) \in Nat
    BY TransitTypes DEF IInv
<1>2. f \in Frame /\ None \notin Command
    BY FrameNames DEF IInv, Held, Push, TypeOK
<1>3. PICK b \in Nat, d \in Nat :
         Carries(q, s, Len(started[c]), b) /\ Hands(f, s, b, d) /\ Carries(wire[c], s, d, Len(s))
    BY <1>1, TransitTypes
<1>4. Carries(Append(q, f), s, Len(started[c]), d) /\ Hands(None, s, d, d)
    BY <1>1, <1>2, <1>3, CarriesAppend DEF Hands
<1>5. /\ holding'[c] = None /\ frameCh'[c] = Append(q, f)
      /\ \A e \in Conn \ {c} : holding'[e] = holding[e] /\ frameCh'[e] = frameCh[e]
      /\ wire' = wire /\ sentOn' = sentOn /\ started' = started
    BY <1>1 DEF Push, TypeOK, netVars
<1>6. InTransit(c)'
    BY <1>3, <1>4, <1>5 DEF InTransit
<1>7. (\A i \in 1 .. Len(started[c]) : started[c][i] = sentOn[c][i])'
    BY <1>1, <1>5 DEF Order
<1>. QED BY <1>1, <1>5, <1>6, <1>7, OrderOther

LEMMA OrderSend ==
    ASSUME IInv, NEW c \in Conn, ServerSends(c)
    PROVE  Order'
<1>. DEFINE q == wire[c]
            s == sentOn[c]
            m == Len(started[c])
<1>1. /\ TypeOK /\ Order /\ frameCh[c] \in Seq(Frame) /\ q \in Seq(Frame)
      /\ s \in Seq(Command) /\ m \in Nat /\ Len(s) \in Nat
    BY TransitTypes DEF IInv
<1>2. PICK b \in Nat, d \in Nat :
         /\ Carries(frameCh[c], s, m, b) /\ Hands(holding[c], s, b, d) /\ Carries(q, s, d, Len(s))
         /\ b <= d /\ d <= Len(s)
    BY <1>1, TransitTypes
<1>3. /\ frameCh' = frameCh /\ holding' = holding /\ started' = started
      /\ \A i \in 1 .. m : started[c][i] = s[i]
      /\ m <= Len(s)
    BY <1>1, <1>2, CarriesBounds DEF ServerSends, readerVars, Order
<1>4. CASE \E f \in {"ping", "close"} : wire' = [wire EXCEPT ![c] = Append(@, f)] /\ sentOn' = sentOn
    <2>1. PICK f \in {"ping", "close"} : wire' = [wire EXCEPT ![c] = Append(@, f)]
        BY <1>4
    <2>2. f \in Frame /\ f \notin Command
        BY FrameNames
    <2>3. Carries(Append(q, f), s, d, Len(s))
        BY <1>1, <1>2, <2>2, CarriesAppend DEF Hands
    <2>4. wire'[c] = Append(q, f) /\ \A e \in Conn \ {c} : wire'[e] = wire[e]
        BY <1>1, <2>1 DEF TypeOK
    <2>5. InTransit(c)'
        BY <1>2, <1>3, <1>4, <2>3, <2>4 DEF InTransit
    <2>6. (\A i \in 1 .. Len(started[c]) : started[c][i] = sentOn[c][i])'
        BY <1>3, <1>4
    <2>. QED BY <1>1, <1>3, <1>4, <2>4, <2>5, <2>6, OrderOther
<1>5. CASE \E f \in Command : /\ wire' = [wire EXCEPT ![c] = Append(@, f)]
                              /\ sentOn' = [sentOn EXCEPT ![c] = Append(@, f)]
    <2>1. PICK f \in Command : /\ wire' = [wire EXCEPT ![c] = Append(@, f)]
                               /\ sentOn' = [sentOn EXCEPT ![c] = Append(@, f)]
        BY <1>5
    <2>. DEFINE t == Append(s, f)
    <2>2. /\ f \in Frame /\ Len(t) = Len(s) + 1 /\ t[Len(t)] = f
          /\ \A i \in 1 .. Len(s) : t[i] = s[i]
        BY <1>1, FrameNames, AppendProperties
    <2>3. Carries(frameCh[c], t, m, b) /\ Carries(q, t, d, Len(s))
        BY <1>1, <1>2, CarriesLonger
    <2>4. Hands(holding[c], t, b, d)
        BY <1>1, <1>2, <2>2 DEF Hands
    <2>5. Carries(Append(q, f), t, d, Len(t))
        <3>1. Hands(f, t, Len(s), Len(t)) /\ Len(t) \in Nat
            BY <1>1, <2>2 DEF Hands
        <3>. HIDE DEF t
        <3>. QED BY <1>1, <2>2, <2>3, <3>1, CarriesAppend
    <2>6. /\ wire'[c] = Append(q, f) /\ sentOn'[c] = t
          /\ \A e \in Conn \ {c} : wire'[e] = wire[e] /\ sentOn'[e] = sentOn[e]
        BY <1>1, <2>1 DEF TypeOK
    <2>7. InTransit(c)'
        BY <1>3, <2>3, <2>4, <2>5, <2>6 DEF InTransit
    <2>8. (\A i \in 1 .. Len(started[c]) : started[c][i] = sentOn[c][i])'
        BY <1>1, <1>3, <2>2, <2>6
    <2>. QED BY <1>1, <1>3, <2>6, <2>7, <2>8, OrderOther
<1>. QED BY <1>4, <1>5 DEF ServerSends

LEMMA OrderStep ==
    ASSUME IInv, Next
    PROVE  Order'
<1>1. CASE TakeFrame
    BY <1>1, OrderTake
<1>2. ASSUME NEW c \in Conn, ReaderStep(c) \/ ServerSends(c) PROVE Order'
    BY <1>2, OrderRead, OrderReadFails, OrderPush, OrderSend DEF ReaderStep
<1>3. CASE \/ Sleep \/ Connect \/ ConnectFails \/ Tick \/ Heartbeat \/ Pong
           \/ FirstHeartbeat \/ HeartbeatFails \/ Clear \/ Close
    <2>1. UNCHANGED <<frameCh, holding, wire, sentOn, started>>
        BY <1>3 DEF Sleep, Connect, ConnectFails, Tick, Heartbeat, Pong, FirstHeartbeat,
                    HeartbeatFails, Leave, Clear, Close, netVars, readerVars
    <2>. QED BY <2>1, OrderSame DEF IInv
<1>4. ASSUME NEW c \in Conn, PeerChanges(c) PROVE Order'
    BY <1>4, OrderSame DEF PeerChanges, readerVars, IInv
<1>. QED BY <1>1, <1>2, <1>3, <1>4 DEF Next, cmdWSSession, Serve
-----------------------------------------------------------------------------
\* The inductive invariant of the command channel.
THEOREM CmdInvariant == Spec => []IInv
<1>1. IInv /\ [Next]_vars => IInv'
    <2>. SUFFICES ASSUME IInv, [Next]_vars PROVE IInv'
        OBVIOUS
    <2>1. CASE Next
        <3>1. TypeOK' /\ Connected'
            BY <2>1, SessionFrame, ConnFrame DEF IInv, Next
        <3>2. Held'
            BY <2>1, HeldStep DEF IInv
        <3>3. Order'
            BY <2>1, OrderStep
        <3>. QED BY <3>1, <3>2, <3>3 DEF IInv
    <2>2. CASE UNCHANGED vars
        <3>1. Order'
            BY <2>2, OrderSame DEF vars, netVars, readerVars, IInv
        <3>. QED BY <2>2, <3>1
             DEF vars, mainVars, netVars, readerVars, IInv, TypeOK, Connected, Held
    <2>. QED BY <2>1, <2>2
<1>. QED BY InitInv, <1>1, PTL DEF Spec

\* Types, and the limits of the backoff and of frameCh, for any commands,
\* capacities and limits (cmd_ws.go:86).
THEOREM CmdTypeCorrect == Spec => []TypeOK
<1>1. IInv => TypeOK
    BY DEF IInv
<1>. QED BY CmdInvariant, <1>1, PTL

\* Commands start in the order they were sent, each on its own connection, none
\* twice, for any number of connections and readers left behind (cmd_ws.go:178).
THEOREM StartedInOrderAlways == Spec => []StartedInOrder
<1>1. IInv => StartedInOrder
    <2>. SUFFICES ASSUME IInv, NEW c \in Conn PROVE IsPrefix(started[c], sentOn[c])
        BY DEF StartedInOrder
    <2>1. /\ started[c] \in Seq(Command) /\ sentOn[c] \in Seq(Command)
          /\ Len(started[c]) <= Len(sentOn[c])
          /\ \A i \in 1 .. Len(started[c]) : started[c][i] = sentOn[c][i]
        BY TransitTypes DEF IInv, Order
    <2>2. /\ Len(SubSeq(sentOn[c], 1, Len(started[c]))) = Len(started[c])
          /\ SubSeq(sentOn[c], 1, Len(started[c])) \in Seq(Command)
          /\ \A i \in 1 .. Len(started[c]) :
                SubSeq(sentOn[c], 1, Len(started[c]))[i] = sentOn[c][i]
        BY <2>1
    <2>3. started[c] = SubSeq(sentOn[c], 1, Len(started[c]))
        BY <2>1, <2>2, SeqEqual
    <2>. QED BY <2>1, <2>3 DEF IsPrefix
<1>. QED BY CmdInvariant, <1>1, PTL
=============================================================================
