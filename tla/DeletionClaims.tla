---------------------------- MODULE DeletionClaims ----------------------------
(***************************************************************************)
(* A statement of the repository's command line about deleting an          *)
(* Application that fails when its name is used again too soon.            *)
(***************************************************************************)
EXTENDS EnvironmentDeletion

(* "a Job takes a final Backup of the database, kept 30 days, and the      *)
(* deletion waits for it to complete before anything is torn down"         *)
(* (internal/cli/app_delete.go:32-34).  A create that lands before ArgoCD  *)
(* has rendered the hook replaces the values it would be rendered from:    *)
(* the new ones have no image, render no hook, and the database goes.      *)
FinalBackupComesFirst ==
  [][\A e \in Environment :
       database[e] /\ ~database'[e] => argo[e] = "backingUp"]_deletionVars
=============================================================================
