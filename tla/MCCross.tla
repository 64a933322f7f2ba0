------------------------------- MODULE MCCross -------------------------------
(* Instances of CrossStream for TLC.                                         *)
EXTENDS CrossStream, TLC

CONSTANTS s1, c1, tokA

\* Every command carries one token.
OneToken == [x \in Session \cup Closer |-> tokA]
=============================================================================
