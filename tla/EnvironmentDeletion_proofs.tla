---------------------- MODULE EnvironmentDeletion_proofs ----------------------
(***************************************************************************)
(* EnvironmentDeletion, for any commands and settings: a running database  *)
(* can be backed up, however late ArgoCD looks at main.                    *)
(*                                                                         *)
(* The argument joins the two actors.  That main keeps what a deployed     *)
(* database is rendered from is the ledger's doing (Extends, of every      *)
(* command but create, on the tree every command keeps in order); that     *)
(* ArgoCD asks for nothing else is this module's.                          *)
(***************************************************************************)
EXTENDS EnvironmentDeletion, PlatformLedger_proofs

(* DatabasesCanBeBackedUp is inductive once main is known to be in order.  *)
DeletionInv == LedgerInv /\ DatabasesCanBeBackedUp

(* DatabasesCanBeBackedUp of one Environment. *)
BackedUp(e) ==
  database[e] /\ ~cleared[e] => argo[e] # "absent" /\ RendersFinalBackup(main.env[e])

LEMMA DeletionInvInit == DeletionInit => DeletionInv
<1> SUFFICES ASSUME DeletionInit PROVE DeletionInv
  OBVIOUS
<1>1. LedgerInv
  BY LedgerInvInit DEF DeletionInit
<1> QED
  BY <1>1 DEF DeletionInit, DeletionInv, DatabasesCanBeBackedUp, DeletionTypeOK,
              LedgerInv, LedgerTypeOK

(* The commands: all but create keep a deployed database's values; create  *)
(* owns up in cleared.                                                     *)
LEMMA CommandsKeepBackups ==
  ASSUME DeletionInv,
         (\E c \in Command : Commit(c)) \/ (\E field \in Setting : Configure(field))
  PROVE  DeletionInv'
<1>1. LedgerInv /\ DeletionTypeOK /\ \A e \in Environment : BackedUp(e)
  BY DEF DeletionInv, DatabasesCanBeBackedUp, BackedUp
<1>2. ASSUME LedgerInv', NEW keys, Extends(keys, main, main'), argo' = argo, database' = database,
             cleared' \in [Environment -> BOOLEAN],
             \A e \in Environment : cleared[e] => cleared'[e]
      PROVE  DeletionInv'
  <2>1. \A e \in Environment : BackedUp(e)'
    BY <1>1, <1>2 DEF BackedUp, Extends, KeepsDatabase, RendersFinalBackup, RendersDatabase,
                      Renders, Released
  <2>2. DeletionTypeOK'
    BY <1>1, <1>2 DEF DeletionTypeOK, LedgerInv, LedgerTypeOK
  <2> QED
    BY <1>2, <2>1, <2>2 DEF DeletionInv, DatabasesCanBeBackedUp, BackedUp
<1>3. ASSUME NEW c \in Command, Commit(c) PROVE DeletionInv'
  <2>1. /\ LedgerInv' /\ (c.op # "create" => Extends(KeysWritten(c), main, main'))
        /\ argo' = argo /\ database' = database
    BY <1>1, <1>3, ApplyStep DEF Commit
  <2>2. /\ cleared' \in [Environment -> BOOLEAN]
        /\ \A e \in Environment : /\ cleared[e] => cleared'[e]
                                  /\ c.op = "create" /\ main.env[e].dir /\ argo[e] # "absent"
                                       => cleared'[e]
    BY <1>1, <1>3 DEF Commit, DeletionTypeOK
  <2>3. CASE c.op # "create"
    BY <1>2, <2>1, <2>2, <2>3
  <2>4. CASE c.op = "create"
    <3>1. \A e \in Environment : BackedUp(e)'
      BY <1>1, <2>1, <2>2, <2>4 DEF BackedUp, RendersFinalBackup, RendersDatabase, Renders
    <3>2. DeletionTypeOK'
      BY <1>1, <2>1, <2>2 DEF DeletionTypeOK, LedgerInv, LedgerTypeOK
    <3> QED
      BY <2>1, <3>1, <3>2 DEF DeletionInv, DatabasesCanBeBackedUp, BackedUp
  <2> QED
    BY <2>3, <2>4
<1>4. ASSUME NEW field \in Setting, Configure(field) PROVE DeletionInv'
  BY <1>1, <1>2, <1>4, SettingStep DEF Configure, DeletionTypeOK
<1> QED
  BY <1>3, <1>4

(* ArgoCD: a database appears only under an applied Application, and is    *)
(* gone before its Application is.                                         *)
LEMMA ArgoKeepsBackups ==
  ASSUME DeletionInv, NEW e \in Environment,
         Follow(e) \/ Sync(e) \/ HookStep(e) \/ Unblock(e)
  PROVE  DeletionInv'
<1>1. DeletionTypeOK /\ LedgerInv /\ UNCHANGED main
  BY DEF DeletionInv, DatabasesCanBeBackedUp, Follow, Sync, HookStep, Unblock, StartBackup,
         NothingToBackUp, BackupCompletes, BackupFails, TearDown
<1>2. LedgerInv'
  BY <1>1 DEF LedgerInv
<1>3. DeletionTypeOK'
  BY <1>1 DEF DeletionTypeOK, LedgerTypeOK, Follow, Sync, HookStep, Unblock, StartBackup,
              NothingToBackUp, BackupCompletes, BackupFails, TearDown
<1>4. \A d \in Environment : BackedUp(d)
  BY DEF DeletionInv, DatabasesCanBeBackedUp, BackedUp
<1>5. ASSUME Follow(e) \/ Sync(e) PROVE \A d \in Environment : BackedUp(d)'
  BY <1>1, <1>4, <1>5 DEF BackedUp, DeletionTypeOK, Follow, Sync, RendersFinalBackup
<1>6. ASSUME NothingToBackUp(e) \/ BackupCompletes(e)
      PROVE  \A d \in Environment : BackedUp(d)'
  BY <1>1, <1>4, <1>6 DEF BackedUp, DeletionTypeOK, NothingToBackUp, BackupCompletes, TearDown
<1>7. ASSUME StartBackup(e) \/ BackupFails(e) \/ Unblock(e)
      PROVE  \A d \in Environment : BackedUp(d)'
  BY <1>1, <1>4, <1>7 DEF BackedUp, DeletionTypeOK, StartBackup, BackupFails, Unblock
<1> QED
  BY <1>2, <1>3, <1>5, <1>6, <1>7
  DEF DeletionInv, DatabasesCanBeBackedUp, BackedUp, HookStep

LEMMA DeletionInvStep == DeletionInv /\ [DeletionNext]_deletionVars => DeletionInv'
<1>1. ASSUME DeletionInv, UNCHANGED deletionVars PROVE DeletionInv'
  BY <1>1 DEF deletionVars, DeletionInv, LedgerInv, DatabasesCanBeBackedUp, DeletionTypeOK,
              LedgerTypeOK, RendersFinalBackup, RendersDatabase, Renders, Released
<1> QED
  BY <1>1, CommandsKeepBackups, ArgoKeepsBackups DEF DeletionNext

(* For as long as a database runs, main holds what its final backup is     *)
(* rendered from, unless a create over what app delete left has cleared    *)
(* it: whatever is deleted, added, deployed and bound in between, and      *)
(* however late ArgoCD comes to it (delete.go:46-50).                      *)
THEOREM DatabasesStayBackedUp == DeletionSpec => []DatabasesCanBeBackedUp
<1>1. DeletionInv => DatabasesCanBeBackedUp
  BY DEF DeletionInv
<1> QED
  BY <1>1, DeletionInvInit, DeletionInvStep, PTL DEF DeletionSpec
=============================================================================
