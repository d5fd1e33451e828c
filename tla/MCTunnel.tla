------------------------------ MODULE MCTunnel ------------------------------
(* One session, and a second call next to it: a check, or a cancel by the  *)
(* same developer or by another.                                           *)
EXTENDS DatabaseTunnel, TLC

CONSTANTS c1, c2

MCConnection == {c1, c2}

Ask(kind, login, target) ==
  [kind |-> kind, login |-> login, place |-> "staging", target |-> target]

MCRequests ==
  c1 :> {Ask("session", "alice", c1)} @@
  c2 :> {Ask("check", "bob", c1), Ask("cancel", "alice", c1), Ask("cancel", "bob", c1)}

=============================================================================
