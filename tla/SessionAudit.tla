---------------------------- MODULE SessionAudit ----------------------------
(***************************************************************************)
(* What the Database tunnel promises of its audit trail, and nothing of    *)
(* how: a session that opens is recorded as started, one that is over as   *)
(* ended, and a call that is refused leaves its refusal or nothing.  Only  *)
(* the end of the process, after which nothing is recorded, cuts a session *)
(* off without a word.                                                     *)
(***************************************************************************)
EXTENDS Sequences

CONSTANT Connection      \* the calls the tunnel gets

VARIABLES
  process,     \* "running" or "ended"
  session,     \* what became of each call: "before" a session, "open", "over", "cut"
  trail        \* the moments recorded of each call, in order

auditVars == <<process, session, trail>>

AuditInit ==
  /\ process = "running"
  /\ session = [c \in Connection |-> "before"]
  /\ trail = [c \in Connection |-> <<>>]

Moves(c, from, to, moments) ==
  /\ process = "running"
  /\ session[c] = from
  /\ session' = [session EXCEPT ![c] = to]
  /\ trail' = [trail EXCEPT ![c] = @ \o moments]
  /\ UNCHANGED process

Open(c) == Moves(c, "before", "open", <<"started">>)
Close(c) == Moves(c, "open", "over", <<"ended">>)
Refuse(c) == Moves(c, "before", "over", <<"refused">>)
Leave(c) == Moves(c, "before", "over", <<>>)

\* Every open session is cut off, and any call that is on its way to one.
ProcessEnds ==
  /\ process = "running"
  /\ process' = "ended"
  /\ \E calls \in SUBSET {c \in Connection : session[c] = "before"} :
       session' = [c \in Connection |->
                     IF session[c] = "open" \/ c \in calls THEN "cut" ELSE session[c]]
  /\ UNCHANGED trail

AuditNext ==
  \/ \E c \in Connection : Open(c) \/ Close(c) \/ Refuse(c) \/ Leave(c)
  \/ ProcessEnds

AuditSpec == AuditInit /\ [][AuditNext]_auditVars

=============================================================================
