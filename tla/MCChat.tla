------------------------------- MODULE MCChat -------------------------------
(* Instances of Chat for TLC.                                                *)
EXTENDS Chat, TLC

CONSTANTS g1, g2, w1, w2

\* A chat that is opened meets a command of each kind.
Pairs == [g \in Cmd |-> IF g = g1 THEN {"open"}
                        ELSE {"open", "message", "close", "notice"}]
=============================================================================
