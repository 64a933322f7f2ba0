------------------------------ MODULE MCDirect ------------------------------
(* Instances of DirectStream for TLC.                                        *)
EXTENDS DirectStream, TLC

CONSTANTS s1, tokA

\* The one token there is.
OneToken == [x \in Session \cup Closer |-> tokA]
=============================================================================
