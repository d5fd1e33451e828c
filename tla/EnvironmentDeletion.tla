------------------------- MODULE EnvironmentDeletion -------------------------
(***************************************************************************)
(* What ArgoCD makes of one Application's Environments, and how it takes   *)
(* them away: it follows main in its own time, renders the chart from what *)
(* main holds at that moment, and deletes an Environment only after the    *)
(* PreDelete hook it renders then, the final backup of the database.       *)
(*                                                                         *)
(* app delete leaves values.yaml and sops/ for that render                 *)
(* (internal/platformrepo/delete.go); app create clears what is left when  *)
(* the name is used again (writer.go, attemptCreate).  The commands are    *)
(* PlatformLedger's; the chart is chart/application.                       *)
(***************************************************************************)
EXTENDS PlatformLedger

VARIABLES
  argo,      \* each Environment's ArgoCD Application: not there, applied, or
             \* with a deletion asked for, backing up, or blocked
  database,  \* whether the Environment's Cluster, its database, runs
  cleared    \* whether a create took away the values ArgoCD still had a use for

deletionVars == <<main, argo, database, cleared>>

DeletionTypeOK ==
  /\ LedgerTypeOK
  /\ argo \in [Environment -> {"absent", "applied", "deleting", "backingUp", "blocked"}]
  /\ database \in [Environment -> BOOLEAN]
  /\ cleared \in [Environment -> BOOLEAN]

DeletionInit ==
  /\ LedgerInit
  /\ argo = [e \in Environment |-> "absent"]
  /\ database = [e \in Environment |-> FALSE]
  /\ cleared = [e \in Environment |-> FALSE]

(* What the chart makes of an Environment's values.  Without values.yaml it *)
(* does not render; before the first image it renders nothing.             *)
Renders(v) == v.dir
Released(v) == v.tag # ""
RendersDatabase(v) == Renders(v) /\ Released(v) /\ v.postgres

(* The final-backup Job comes with the database: only Preview Environments *)
(* turn backups off.                                                       *)
RendersFinalBackup(v) == RendersDatabase(v)

-----------------------------------------------------------------------------
(* The commands *)

Commit(c) ==
  /\ Apply(c)
  /\ cleared' = [e \in Environment |->
       cleared[e] \/ (c.op = "create" /\ main.env[e].dir /\ argo[e] # "absent")]
  /\ UNCHANGED <<argo, database>>

Configure(field) == CompleteSetting(field) /\ UNCHANGED <<argo, database, cleared>>

-----------------------------------------------------------------------------
(* ArgoCD *)

(* It finds the application.yaml of each Environment at main, and asks for *)
(* the deletion of an Application that has none any more.  One that is     *)
(* being deleted stays so, whatever main holds.                            *)
Follow(e) ==
  /\ \/ /\ main.env[e].live /\ argo[e] = "absent"
        /\ argo' = [argo EXCEPT ![e] = "applied"]
     \/ /\ ~main.env[e].live /\ argo[e] = "applied"
        /\ argo' = [argo EXCEPT ![e] = "deleting"]
  /\ UNCHANGED <<main, database, cleared>>

(* A sync creates the database, and never prunes it. *)
Sync(e) ==
  /\ argo[e] = "applied"
  /\ RendersDatabase(main.env[e])
  /\ ~database[e]
  /\ database' = [database EXCEPT ![e] = TRUE]
  /\ UNCHANGED <<main, argo, cleared>>

(* The cascade the resources finalizer asks for. *)
TearDown(e) ==
  /\ argo' = [argo EXCEPT ![e] = "absent"]
  /\ database' = [database EXCEPT ![e] = FALSE]
  /\ cleared' = [cleared EXCEPT ![e] = FALSE]
  /\ UNCHANGED main

(* The hooks are what the chart renders from main now; without values.yaml *)
(* that is an error, tried again for as long as it takes.                  *)
StartBackup(e) ==
  /\ argo[e] = "deleting"
  /\ RendersFinalBackup(main.env[e])
  /\ argo' = [argo EXCEPT ![e] = "backingUp"]
  /\ UNCHANGED <<main, database, cleared>>

NothingToBackUp(e) ==
  /\ argo[e] = "deleting"
  /\ Renders(main.env[e]) /\ ~RendersFinalBackup(main.env[e])
  /\ TearDown(e)

BackupCompletes(e) ==
  /\ argo[e] = "backingUp"
  /\ database[e]
  /\ TearDown(e)

(* A backup that fails, or takes more than half an hour, blocks the        *)
(* deletion until somebody removes the failed Job.                         *)
BackupFails(e) ==
  /\ argo[e] = "backingUp"
  /\ argo' = [argo EXCEPT ![e] = "blocked"]
  /\ UNCHANGED <<main, database, cleared>>

Unblock(e) ==
  /\ argo[e] = "blocked"
  /\ argo' = [argo EXCEPT ![e] = "deleting"]
  /\ UNCHANGED <<main, database, cleared>>

HookStep(e) == StartBackup(e) \/ NothingToBackUp(e) \/ BackupCompletes(e) \/ BackupFails(e)

DeletionNext ==
  \/ \E c \in Command : Commit(c)
  \/ \E field \in Setting : Configure(field)
  \/ \E e \in Environment : Follow(e) \/ Sync(e) \/ HookStep(e) \/ Unblock(e)

(* ArgoCD reads main every few minutes and retries; the Job ends by its    *)
(* own time limit.  Nobody has to unblock a deletion.                      *)
DeletionFairness ==
  \A e \in Environment : WF_deletionVars(Follow(e)) /\ WF_deletionVars(HookStep(e))

DeletionSpec == DeletionInit /\ [][DeletionNext]_deletionVars /\ DeletionFairness

-----------------------------------------------------------------------------
(* What must hold *)

(* For as long as a database runs, main holds the values its final backup  *)
(* is rendered from, whatever commands followed app delete and however     *)
(* late ArgoCD comes to it (delete.go:46-50), unless a create has cleared  *)
(* them; so no database goes without a backup but by a create over what a  *)
(* delete left.  (And everything keeps its type.)                          *)
DatabasesCanBeBackedUp ==
  /\ DeletionTypeOK
  /\ \A e \in Environment :
       database[e] /\ ~cleared[e] =>
         argo[e] # "absent" /\ RendersFinalBackup(main.env[e])

(* A deletion comes to its end, or to a backup that failed: it never waits *)
(* for ever for values that are gone (delete.go:47-49), unless a create    *)
(* has cleared them.                                                       *)
DeletionsEnd ==
  \A e \in Environment :
    argo[e] = "deleting" ~> argo[e] \in {"absent", "blocked"} \/ cleared[e]
=============================================================================
