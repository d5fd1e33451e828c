------------------------------ MODULE MCArgus ------------------------------
(* One Application, one Warning Event, one failed probe and its Pod, and   *)
(* one browser with room for two messages.                                 *)
EXTENDS ArgusStream
=============================================================================
