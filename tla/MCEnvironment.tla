----------------------------- MODULE MCEnvironment -----------------------------
(* A small Environment: two tags, and commits enough for one Deploy after another.     *)
EXTENDS EnvironmentState
===============================================================================
