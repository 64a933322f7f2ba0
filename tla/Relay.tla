------------------------------- MODULE Relay -------------------------------
(***************************************************************************)
(* The standalone relay (server/session.go, server/relay.go): viewers and  *)
(* agents open WebSocket connections, the relay pairs one viewer with one  *)
(* agent that present the same session token, and then moves frames        *)
(* between the two.                                                        *)
(*                                                                         *)
(* A connection is served by one goroutine (handleRelay) and, once it is   *)
(* paired, by a second one (the outbound pump).  The two mutexes of the    *)
(* code make one store operation and one registration atomic each; every   *)
(* other step of a handler interleaves with the other handlers.            *)
(*                                                                         *)
(* A sessionEntry is identified by the connection whose getOrCreate        *)
(* allocated it, a peer by its connection.                                 *)
(***************************************************************************)
EXTENDS Integers, Sequences, FiniteSets

CONSTANTS
    Conn,         \* WebSocket connections (a reconnect is another element)
    Viewers,      \* those that connect with role=viewer; the rest are agents
    Token,        \* session tokens
    TokenOf,      \* the token each connection's authentication yields
    None,         \* nil
    MaxSessions,  \* config maxSessions; 0 means no limit
    SendCap,      \* capacity of peer.sendCh (256 in the code)
    MaxFrames     \* bound on the messages each client sends

ASSUME ConstantsOK ==
    /\ Viewers \subseteq Conn
    /\ TokenOf \in [Conn -> Token]
    /\ None \notin Conn
    /\ MaxSessions \in Nat
    /\ SendCap \in Nat \ {0}
    /\ MaxFrames \in [Conn -> Nat]

VARIABLES
    sessions,   \* sessionStore.sessions: token -> entry
    slot,       \* sessionEntry.viewer / sessionEntry.agent
    pairCh,     \* sessionEntry.pairCh, capacity 1
    priv,       \* the one-element channel register builds for a second peer
    pc,         \* where each handler goroutine stands
    ent,        \* the handler's local variable entry
    partner,    \* the handler's local variable partner
    sendCh,     \* peer.sendCh
    pump,       \* the outbound pump goroutine
    stopped,    \* stopCh is closed
    sock,       \* the socket: open, dropped by the client, closed by the relay
    ctxDone,    \* r.Context() is cancelled
    sent,       \* how many messages the relay has read from the client
    delivered   \* frames the pump has written to the client, in order

storeVars  == <<sessions, slot, pairCh, priv>>
tunnelVars == <<sendCh, pump, stopped, delivered, sent>>
netVars    == <<sock, ctxDone>>
vars == <<storeVars, pc, ent, partner, tunnelVars, netVars>>

Roles == {"viewer", "agent"}
RoleOf(c) == IF c \in Viewers THEN "viewer" ELSE "agent"
Other(r) == IF r = "viewer" THEN "agent" ELSE "viewer"

Frame == [src : Conn, kind : {"data", "bye"}, n : Nat]
Bye(c) == [src |-> c, kind |-> "bye", n |-> 0]

\* What the buffered channel peer.sendCh can hold.
Buffer == {q \in Seq(Frame) : Len(q) <= SendCap}

Tracked == {t \in Token : sessions[t] # None}

-----------------------------------------------------------------------------
Init ==
    /\ sessions = [t \in Token |-> None]
    /\ slot = [e \in Conn |-> [r \in Roles |-> None]]
    /\ pairCh = [e \in Conn |-> None]
    /\ priv = [c \in Conn |-> None]
    /\ pc = [c \in Conn |-> "idle"]
    /\ ent = [c \in Conn |-> None]
    /\ partner = [c \in Conn |-> None]
    /\ sendCh = [c \in Conn |-> <<>>]
    /\ pump = [c \in Conn |-> "off"]
    /\ stopped = [c \in Conn |-> FALSE]
    /\ sock = [c \in Conn |-> "open"]
    /\ ctxDone = [c \in Conn |-> FALSE]
    /\ sent = [c \in Conn |-> 0]
    /\ delivered = [c \in Conn |-> <<>>]

\* sessionStore.remove: whatever entry the token maps to is forgotten.
remove(t) == sessions' = [sessions EXCEPT ![t] = None]

\* The handler returns; its deferred conn.Close() closes the socket.
Return(c) ==
    /\ pc' = [pc EXCEPT ![c] = "closed"]
    /\ sock' = [sock EXCEPT ![c] = "closed"]

\* A request arrives; role check and authentication begin.
Request(c) ==
    /\ pc[c] = "idle"
    /\ pc' = [pc EXCEPT ![c] = "auth"]
    /\ UNCHANGED <<storeVars, ent, partner, tunnelVars, netVars>>

\* Authentication or the upgrade fails.
Reject(c) ==
    /\ pc[c] = "auth"
    /\ Return(c)
    /\ UNCHANGED <<storeVars, ent, partner, tunnelVars, ctxDone>>

\* Authentication succeeds and the connection becomes a WebSocket.
Upgrade(c) ==
    /\ pc[c] = "auth"
    /\ pc' = [pc EXCEPT ![c] = "upgraded"]
    /\ UNCHANGED <<storeVars, ent, partner, tunnelVars, netVars>>

(* getOrCreate: the existing entry, "server full", or a new entry.          *)
\* Fault: the lookup returns whichever session there is.
FindEntry_AnyToken(c) ==
    \E t \in Token :
        /\ pc[c] = "upgraded"
        /\ sessions[t] # None
        /\ ent' = [ent EXCEPT ![c] = sessions[t]]
        /\ pc' = [pc EXCEPT ![c] = "joining"]
        /\ UNCHANGED <<storeVars, partner, tunnelVars, netVars>>

FindEntry(c) ==
    LET t == TokenOf[c] IN
    /\ pc[c] = "upgraded"
    /\ sessions[t] # None
    /\ ent' = [ent EXCEPT ![c] = sessions[t]]
    /\ pc' = [pc EXCEPT ![c] = "joining"]
    /\ UNCHANGED <<storeVars, partner, tunnelVars, netVars>>

ServerFull(c) ==
    /\ pc[c] = "upgraded"
    /\ sessions[TokenOf[c]] = None
    /\ MaxSessions > 0 /\ Cardinality(Tracked) >= MaxSessions
    /\ Return(c)
    /\ UNCHANGED <<storeVars, ent, partner, tunnelVars, ctxDone>>

CreateEntry(c) ==
    LET t == TokenOf[c] IN
    /\ pc[c] = "upgraded"
    /\ sessions[t] = None
    /\ MaxSessions > 0 => Cardinality(Tracked) < MaxSessions
    /\ sessions' = [sessions EXCEPT ![t] = c]
    /\ ent' = [ent EXCEPT ![c] = c]
    /\ pc' = [pc EXCEPT ![c] = "joining"]
    /\ UNCHANGED <<slot, pairCh, priv, partner, tunnelVars, netVars>>

getOrCreate(c) == FindEntry(c) \/ ServerFull(c) \/ CreateEntry(c)

(* register: the role's slot is claimed under e.mu.                         *)
OwnSlot(c) == slot[ent[c]][RoleOf(c)]
OtherSlot(c) == slot[ent[c]][Other(RoleOf(c))]

\* Fault: an occupied slot is overwritten.
Claim_NoRoleCheck(c) ==
    /\ slot' = [slot EXCEPT ![ent[c]] = [@ EXCEPT ![RoleOf(c)] = c]]
    /\ pc' = [pc EXCEPT ![c] = "waiting"]
    /\ UNCHANGED <<sessions, ent, partner, tunnelVars, netVars>>

Claim(c) ==
    /\ OwnSlot(c) = None
    /\ slot' = [slot EXCEPT ![ent[c]] = [@ EXCEPT ![RoleOf(c)] = c]]
    /\ pc' = [pc EXCEPT ![c] = "waiting"]
    /\ UNCHANGED <<sessions, ent, partner, tunnelVars, netVars>>

RoleTaken(c) ==
    /\ pc[c] = "joining"
    /\ OwnSlot(c) # None
    /\ Return(c)
    /\ UNCHANGED <<storeVars, ent, partner, tunnelVars, ctxDone>>

RegisterFirst(c) ==
    /\ pc[c] = "joining"
    /\ OtherSlot(c) = None
    /\ Claim(c)
    /\ UNCHANGED <<pairCh, priv>>

\* The second peer finds its partner at once and tells the first one through
\* pairCh; the send blocks, with e.mu held, while pairCh is full.
RegisterSecond(c) ==
    /\ pc[c] = "joining"
    /\ OtherSlot(c) # None
    /\ Claim(c)
    /\ pairCh[ent[c]] = None
    /\ pairCh' = [pairCh EXCEPT ![ent[c]] = c]
    /\ priv' = [priv EXCEPT ![c] = OtherSlot(c)]

register(c) == RoleTaken(c) \/ RegisterFirst(c) \/ RegisterSecond(c)

-----------------------------------------------------------------------------
(* The select of a registered handler: partnerCh, the timer, the context.   *)

\* The partner arrives on partnerCh; the outbound pump starts.
Tunnel(c, d) ==
    /\ partner' = [partner EXCEPT ![c] = d]
    /\ pc' = [pc EXCEPT ![c] = "tunnel"]
    /\ pump' = [pump EXCEPT ![c] = "on"]
    /\ UNCHANGED <<sessions, slot, ent, sendCh, stopped, delivered, sent, netVars>>

PairSecond(c) ==
    /\ pc[c] = "waiting" /\ priv[c] # None
    /\ Tunnel(c, priv[c])
    /\ priv' = [priv EXCEPT ![c] = None]
    /\ UNCHANGED pairCh

PairFirst(c) ==
    /\ pc[c] = "waiting" /\ priv[c] = None /\ pairCh[ent[c]] # None
    /\ Tunnel(c, pairCh[ent[c]])
    /\ pairCh' = [pairCh EXCEPT ![ent[c]] = None]
    /\ UNCHANGED priv

Pair(c) == PairFirst(c) \/ PairSecond(c)

\* Faults: the entry is kept; the role is freed but not the channel.
GiveUp_KeepEntry(c) ==
    /\ pc[c] = "waiting"
    /\ Return(c)
    /\ UNCHANGED <<storeVars, ent, partner, tunnelVars, ctxDone>>

GiveUp_FreeRole(c) ==
    /\ pc[c] = "waiting"
    /\ slot' = [slot EXCEPT ![ent[c]] = [@ EXCEPT ![RoleOf(c)] = None]]
    /\ remove(TokenOf[c])
    /\ Return(c)
    /\ UNCHANGED <<pairCh, priv, ent, partner, tunnelVars, ctxDone>>

\* The pairing timer fires, or the request's context was cancelled.
GiveUp(c) ==
    /\ pc[c] = "waiting"
    /\ remove(TokenOf[c])
    /\ Return(c)
    /\ UNCHANGED <<slot, pairCh, priv, ent, partner, tunnelVars, ctxDone>>

PairTimeout(c) == GiveUp(c)

ContextDone(c) == ctxDone[c] /\ GiveUp(c)

-----------------------------------------------------------------------------
(* The tunnel.                                                              *)

\* Faults: the capacity is off by one; the newest frame overtakes the others.
Offer_OneMore(c, f) ==
    sendCh' = IF Len(sendCh[partner[c]]) <= SendCap
              THEN [sendCh EXCEPT ![partner[c]] = Append(@, f)]
              ELSE sendCh

Offer_InFront(c, f) ==
    sendCh' = IF Len(sendCh[partner[c]]) < SendCap
              THEN [sendCh EXCEPT ![partner[c]] = <<f>> \o @]
              ELSE sendCh

\* The non-blocking send: f is dropped when the partner's sendCh is full.
Offer(c, f) ==
    sendCh' = IF Len(sendCh[partner[c]]) < SendCap
              THEN [sendCh EXCEPT ![partner[c]] = Append(@, f)]
              ELSE sendCh

\* A data message is read and offered to partner.sendCh; what the client sent
\* before it went away is still read.
ReadData(c) ==
    /\ pc[c] = "tunnel" /\ sock[c] # "closed"
    /\ sent[c] < MaxFrames[c]
    /\ sent' = [sent EXCEPT ![c] = @ + 1]
    /\ Offer(c, [src |-> c, kind |-> "data", n |-> sent[c] + 1])
    /\ UNCHANGED <<storeVars, pc, ent, partner, pump, stopped, delivered, netVars>>

\* A ping is answered on the same socket and not forwarded.
ReadPing(c) ==
    /\ pc[c] = "tunnel" /\ sock[c] # "closed"
    /\ sent[c] < MaxFrames[c]
    /\ sent' = [sent EXCEPT ![c] = @ + 1]
    /\ UNCHANGED <<storeVars, pc, ent, partner, sendCh, pump, stopped,
                   delivered, netVars>>

\* The idle timer closes the socket under the reader.
IdleTimeout(c) ==
    /\ pc[c] = "tunnel" /\ sock[c] = "open"
    /\ sock' = [sock EXCEPT ![c] = "closed"]
    /\ UNCHANGED <<storeVars, pc, ent, partner, tunnelVars, ctxDone>>

\* Faults: the teardown forgets to remove the session; only a socket closed
\* on this side is noticed.
ReadError_KeepEntry(c) ==
    /\ pc[c] = "tunnel" /\ sock[c] # "open"
    /\ stopped' = [stopped EXCEPT ![c] = TRUE]
    /\ pc' = [pc EXCEPT ![c] = "leaving"]
    /\ UNCHANGED <<storeVars, ent, partner, sendCh, pump, delivered, sent, netVars>>

ReadError_HalfOpen(c) ==
    /\ pc[c] = "tunnel" /\ sock[c] = "closed"
    /\ stopped' = [stopped EXCEPT ![c] = TRUE]
    /\ remove(TokenOf[c])
    /\ pc' = [pc EXCEPT ![c] = "leaving"]
    /\ UNCHANGED <<slot, pairCh, priv, ent, partner, sendCh, pump, delivered,
                   sent, netVars>>

\* ReadMessage fails; the deferred teardown stops the pump and forgets the
\* token.
ReadError(c) ==
    /\ pc[c] = "tunnel" /\ sock[c] # "open"
    /\ stopped' = [stopped EXCEPT ![c] = TRUE]
    /\ remove(TokenOf[c])
    /\ pc' = [pc EXCEPT ![c] = "leaving"]
    /\ UNCHANGED <<slot, pairCh, priv, ent, partner, sendCh, pump, delivered,
                   sent, netVars>>

\* ... and then offers peer_disconnected to partner.sendCh.
SayBye(c) ==
    /\ pc[c] = "leaving"
    /\ Offer(c, Bye(c))
    /\ Return(c)
    /\ UNCHANGED <<storeVars, ent, partner, pump, stopped, delivered, sent, ctxDone>>

(* The pump takes the next frame of partner.sendCh and writes it to its own *)
(* socket.  Once the socket is not open the write fails, or succeeds into a *)
(* kernel buffer nobody reads.                                              *)
Take(c) ==
    /\ pump[c] = "on" /\ sendCh[partner[c]] # <<>>
    /\ sendCh' = [sendCh EXCEPT ![partner[c]] = Tail(@)]
    /\ UNCHANGED <<storeVars, pc, ent, partner, sent, netVars>>

PumpDeliver(c) ==
    /\ Take(c) /\ sock[c] = "open"
    /\ delivered' = [delivered EXCEPT ![c] = Append(@, Head(sendCh[partner[c]]))]
    /\ UNCHANGED <<pump, stopped>>

PumpLose(c) ==
    /\ Take(c) /\ sock[c] = "gone"
    /\ UNCHANGED <<pump, stopped, delivered>>

PumpFail(c) ==
    /\ Take(c) /\ sock[c] # "open"
    /\ pump' = [pump EXCEPT ![c] = "done"]
    /\ stopped' = [stopped EXCEPT ![c] = TRUE]
    /\ UNCHANGED delivered

PumpStop(c) ==
    /\ pump[c] = "on" /\ stopped[c]
    /\ pump' = [pump EXCEPT ![c] = "done"]
    /\ UNCHANGED <<storeVars, pc, ent, partner, sendCh, stopped, delivered,
                   sent, netVars>>

-----------------------------------------------------------------------------
\* The client goes away.  net/http cancels the request's context only while
\* it still owns the connection, which ends with the upgrade.
ClientClose(c) ==
    /\ pc[c] \notin {"idle", "closed"} /\ sock[c] = "open"
    /\ sock' = [sock EXCEPT ![c] = "gone"]
    /\ ctxDone' = [ctxDone EXCEPT ![c] = (pc[c] = "auth")]
    /\ UNCHANGED <<storeVars, pc, ent, partner, tunnelVars>>

\* The steps a handler takes by itself, whatever the client does.
Handler(c) ==
    \/ Reject(c) \/ Upgrade(c) \/ getOrCreate(c) \/ register(c)
    \/ Pair(c) \/ PairTimeout(c) \/ ContextDone(c)
    \/ ReadError(c) \/ SayBye(c)

Pump(c) == PumpDeliver(c) \/ PumpLose(c) \/ PumpFail(c) \/ PumpStop(c)

Client(c) ==
    Request(c) \/ ReadData(c) \/ ReadPing(c) \/ IdleTimeout(c) \/ ClientClose(c)

Next == \E c \in Conn : Handler(c) \/ Pump(c) \/ Client(c)

Spec == Init /\ [][Next]_vars

\* Goroutines are scheduled and timers fire; clients owe nothing.
HandlerRuns(c) == WF_vars(Handler(c))
PumpRuns(c) == WF_vars(Pump(c))
FairSpec == Spec /\ \A c \in Conn : HandlerRuns(c) /\ PumpRuns(c)
-----------------------------------------------------------------------------
(* What the relay promises.                                                 *)

\* Types of the variables; a sendCh never holds more than its capacity.
TypeOK ==
    /\ sessions \in [Token -> Conn \cup {None}]
    /\ slot \in [Conn -> [Roles -> Conn \cup {None}]]
    /\ pairCh \in [Conn -> Conn \cup {None}]
    /\ priv \in [Conn -> Conn \cup {None}]
    /\ pc \in [Conn -> {"idle", "auth", "upgraded", "joining", "waiting",
                        "tunnel", "leaving", "closed"}]
    /\ ent \in [Conn -> Conn \cup {None}]
    /\ partner \in [Conn -> Conn \cup {None}]
    /\ sendCh \in [Conn -> Buffer]
    /\ pump \in [Conn -> {"off", "on", "done"}]
    /\ stopped \in [Conn -> BOOLEAN]
    /\ sock \in [Conn -> {"open", "gone", "closed"}]
    /\ ctxDone \in [Conn -> BOOLEAN]
    /\ sent \in [Conn -> Nat]
    /\ delivered \in [Conn -> Seq(Frame)]

\* register gave c its role's slot in its entry.
Registered(c) == ent[c] # None /\ OwnSlot(c) = c

\* A tunnel joins one viewer and one agent of the same session: if c was
\* handed d as its partner, d has the other role and the same token, and d
\* itself was handed nobody but c (register and the two pairing channels).
Matched ==
    \A c \in Conn : partner[c] # None =>
        LET d == partner[c] IN
        /\ TokenOf[d] = TokenOf[c]
        /\ RoleOf(d) = Other(RoleOf(c))
        /\ partner[d] \in {None, c}

\* The send to pairCh that register makes while it holds e.mu never blocks:
\* when a handler is about to fill the second slot the channel is empty.
RegisterNeverBlocks ==
    \A c \in Conn :
        (pc[c] = "joining" /\ OwnSlot(c) = None /\ OtherSlot(c) # None)
            => pairCh[ent[c]] = None

\* No entry is leaked: whatever the store still maps a token to is held by a
\* handler that has yet to run remove (PairTimeout, ContextDone, ReadError),
\* although handlers that were refused their role return without removing.
EntryHeld ==
    \A t \in Token : sessions[t] # None =>
        \E c \in Conn : /\ ent[c] = sessions[t]
                        /\ pc[c] \in {"joining", "waiting", "tunnel"}

\* Frames never cross sessions: whatever sits in a connection's sendCh, and
\* whatever the pump has written to its socket, was read from a connection
\* that authenticated for the same token.
FrameIsolation ==
    \A c \in Conn :
        /\ \A i \in DOMAIN sendCh[c] : TokenOf[sendCh[c][i].src] = TokenOf[c]
        /\ \A i \in DOMAIN delivered[c] : TokenOf[delivered[c][i].src] = TokenOf[c]

\* The tunnel may drop data frames when sendCh is full but never reorders or
\* repeats them, on the socket or in the buffer that feeds it.
InOrder ==
    \A c \in Conn :
        LET q == delivered[c] \o (IF partner[c] # None THEN sendCh[partner[c]] ELSE <<>>)
        IN \A i, j \in DOMAIN q :
             (i < j /\ q[i].kind = "data" /\ q[j].kind = "data") => q[i].n < q[j].n

\* A registered connection whose client is gone does not hold its role for
\* ever: the store forgets the entry, so that a reconnect gets a fresh one
\* (PairTimeout while waiting, ReadError in the tunnel).
DeadPeerReleased ==
    \A c \in Conn :
        (sock[c] = "gone" /\ Registered(c)) ~>
            (\A t \in Token : sessions[t] = None \/ sessions[t] # ent[c])

\* A teardown completes: once either goroutine of a tunnel has closed stopCh,
\* the handler returns and the pump ends.
TeardownCompletes ==
    \A c \in Conn : stopped[c] ~> (pc[c] = "closed" /\ pump[c] = "done")

-----------------------------------------------------------------------------
(* The relay implements Rendezvous: a party is in once register has given   *)
(* it its role's slot, and its mate is whoever holds the entry's other slot. *)

PhaseOf(c) ==
    CASE ~Registered(c) -> "out"
      [] Registered(c) /\ pc[c] = "waiting" -> "in"
      [] Registered(c) /\ pc[c] = "tunnel" -> "open"
      [] OTHER -> "gone"

MateOf(c) == IF Registered(c) THEN OtherSlot(c) ELSE None

Abstract == INSTANCE Rendezvous
                WITH phase <- [c \in Conn |-> PhaseOf(c)],
                     mate  <- [c \in Conn |-> MateOf(c)]

\* The entries, the two channels and the timeouts of the code implement a
\* permanent one-to-one coupling of opposite roles with equal tokens.
ImplementsRendezvous == Abstract!Spec
-----------------------------------------------------------------------------
(* What a comment of the source says and the code does not do.              *)

\* "Outbound pump: partner's frames -> our connection": every frame written
\* to a socket came from the other end.
PartnersFrames ==
    \A c \in Conn : \A i \in DOMAIN delivered[c] : delivered[c][i].src = partner[c]
=============================================================================
