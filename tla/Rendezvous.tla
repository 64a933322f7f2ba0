----------------------------- MODULE Rendezvous -----------------------------
(***************************************************************************)
(* What the relay promises, without entries, channels or handlers: parties *)
(* come in, at most one per role finds the one other party of its token,   *)
(* and the couple formed on arrival never changes.  A party that leaves is *)
(* still a possible mate for a while: it may have given up waiting when    *)
(* the other one, already on its way to the same entry, arrives.           *)
(***************************************************************************)
CONSTANTS Conn, Viewers, TokenOf, None

VARIABLES
    phase,   \* out -> in -> open -> gone, or in -> gone
    mate     \* the party one is coupled with

vars == <<phase, mate>>

SameRole(c, d) == (c \in Viewers) <=> (d \in Viewers)

Compatible(c, d) == TokenOf[c] = TokenOf[d] /\ ~SameRole(c, d)

Init ==
    /\ phase = [c \in Conn |-> "out"]
    /\ mate = [c \in Conn |-> None]

\* c comes in and finds nobody it can be coupled with at once.
EnterFirst(c) ==
    /\ phase[c] = "out"
    /\ phase' = [phase EXCEPT ![c] = "in"]
    /\ UNCHANGED mate

\* c comes in and is coupled with d, which was alone until now.
EnterSecond(c, d) ==
    /\ phase[c] = "out" /\ phase[d] \in {"in", "gone"}
    /\ mate[c] = None /\ mate[d] = None
    /\ Compatible(c, d)
    /\ phase' = [phase EXCEPT ![c] = "in"]
    /\ mate' = [mate EXCEPT ![c] = d, ![d] = c]

\* A coupled party learns its mate and may use the tunnel.
Open(c) ==
    /\ phase[c] = "in" /\ mate[c] # None
    /\ phase' = [phase EXCEPT ![c] = "open"]
    /\ UNCHANGED mate

Leave(c) ==
    /\ phase[c] \in {"in", "open"}
    /\ phase' = [phase EXCEPT ![c] = "gone"]
    /\ UNCHANGED mate

Next ==
    \E c \in Conn :
        \/ EnterFirst(c) \/ Open(c) \/ Leave(c)
        \/ \E d \in Conn : EnterSecond(c, d)

Spec == Init /\ [][Next]_vars
=============================================================================
