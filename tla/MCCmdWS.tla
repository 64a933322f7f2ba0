------------------------------- MODULE MCCmdWS -------------------------------
(* Instances of CmdWS for TLC.                                               *)
EXTENDS CmdWS, TLC

CONSTANTS k1, k2

Two == <<k1, k2>>
=============================================================================
