------------------------------- MODULE MCPipe -------------------------------
(* Instances of Pipe for TLC.                                                *)
EXTENDS Pipe, TLC

CONSTANTS frames, audio, signal

\* The stop signal is the message without a payload.
Bodies == [w \in Writer |-> w # signal]
=============================================================================
