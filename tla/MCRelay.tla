------------------------------ MODULE MCRelay ------------------------------
(* Instances of Relay for TLC: up to two viewers, two agents, two tokens.    *)
EXTENDS Relay, TLC

CONSTANTS v1, v2, a1, a2, tok1, tok2

OneToken == [c \in Conn |-> tok1]

\* One agent has a token of its own.
StrayAgent == [c \in Conn |-> IF c = a2 THEN tok2 ELSE tok1]

\* Bounds on what the clients send; in the last one the agents alone talk.
ThreeEach == [c \in Conn |-> 3]
OneEach == [c \in Conn |-> 1]
AgentsTalk == [c \in Conn |-> IF c \in Viewers THEN 0 ELSE 1]

\* The viewers carry one token and are interchangeable.
Symmetry == Permutations({v1, v2})
=============================================================================
