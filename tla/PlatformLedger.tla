--------------------------- MODULE PlatformLedger ---------------------------
(***************************************************************************)
(* What the Platform repository promises the people and programs that read *)
(* it: main only ever changes by a whole command, applied to the tree main *)
(* held at that moment.  How the Writers get there, with clones, pushes    *)
(* and retries, is PlatformWriter's business; it implements this module.   *)
(*                                                                         *)
(* The invariants of one Application's tree are stated and checked here,   *)
(* on every sequence of commands, and hold of PlatformWriter by refinement.*)
(***************************************************************************)
EXTENDS ApplicationTree

CONSTANTS
  Command,   \* the commands the CLI and the Deploy gate may run
  Setting    \* the parts of the Platform's configuration an admin has yet to complete

ASSUME CommandAssumption ==
  /\ Command \subseteq CommandType /\ Setting \subseteq Settings
  /\ \A c \in Command : c.op = "add" => AsksForSomething(c)

VARIABLE main   \* the tree at the tip of main

LedgerTypeOK == main \in Tree

LedgerInit == main = EmptyTree

(* A command whose commit reaches main. *)
Apply(c) == Outcome(c, main) = "commit" /\ main' = Result(c, main)

(* The bootstrap wizard, or an admin by hand, fills in platform.yaml and   *)
(* the backups credentials.  Nothing takes them away again.                *)
CompleteSetting(field) ==
  /\ ~main.config[field]
  /\ main' = [main EXCEPT !.config[field] = TRUE]

LedgerNext ==
  \/ \E c \in Command : Apply(c)
  \/ \E field \in Setting : CompleteSetting(field)

LedgerSpec == LedgerInit /\ [][LedgerNext]_main

-----------------------------------------------------------------------------
(* Safety *)

(* The Preview Environments render staging's Application: the              *)
(* ApplicationSet exists only beside a live staging and a binding to       *)
(* follow, and names exactly the sources staging's application.yaml names, *)
(* so a preview gets staging's Secrets (previews.go, refreshPreviews).     *)
PreviewsFollowStaging ==
  main.previews.present =>
    /\ main.env["staging"].live
    /\ Complete(main.binding)
    /\ main.previews.sopsSource = main.env["staging"].sopsSource

(* Every live database finds its backups Secret: the file is in sops/, the *)
(* KSOPS generator lists it, and application.yaml names sops/ as a source, *)
(* whichever command turned Postgres on and in whatever order staging was  *)
(* added (backups.go, copyBackupsCredentials).                             *)
DatabaseFindsItsCredentials ==
  \A e \in Environment :
    LET v == main.env[e] IN
    v.live /\ v.postgres => v.sopsSource /\ CredentialsSlug \in v.registered

(* What values.yaml names is there: ksops.yaml lists exactly the encrypted *)
(* files of its directory, since one not listed never becomes a Secret and *)
(* one listed but gone fails ArgoCD's render (secret.go,                   *)
(* registerSopsDirectory); and each name is of a Secret of its own         *)
(* Environment that is so listed, even in a staging copied from a prod     *)
(* with secrets (edit.go, CopyValuesForStaging).                           *)
NamedSecretsExist ==
  \A e \in Environment :
    LET v == main.env[e] IN
    /\ v.registered = {s \in Slug : v.files[s] # "absent"}
    /\ \A name \in v.secrets : name[1] = e /\ name[2] \in v.registered

(* A database role has a password only while its level admits anyone: none *)
(* outlives a level set to none, and none is overwritten by a developer's  *)
(* secret (database.go, writeDatabaseAccess).                              *)
PasswordsFitLevels ==
  \A e \in Environment : \A r \in Role :
    LET v == main.env[e] IN
    /\ v.files[PasswordSlug[r]] \in {"absent", "password"}
    /\ Present(v, r) => v.password[r] = e /\ ResolvedAccess(v, e)[r] # "none"
    /\ ~Present(v, r) => v.password[r] = "none"

(* Every Capability but custom domains is the same in both Environments,   *)
(* so "prod's answer holds for a new staging too" (capability.go:145-147), *)
(* and add-capability may judge what is present by prod alone.             *)
CapabilitiesAreUniform ==
  LET prod == main.env["prod"]
      staging == main.env["staging"]
  IN prod.dir /\ staging.dir =>
       /\ staging.postgres = prod.postgres
       /\ staging.login = prod.login
       /\ staging.groups = prod.groups
       /\ staging.size = prod.size
       /\ staging.domains = {}

(* The Scheduled tasks an Environment runs come from the commit its image  *)
(* was built from: one deploy brought its tag and its tasks together,      *)
(* whatever was deployed, promoted, added, deleted and created in between  *)
(* (deploy.go, attemptSetImageTag; edit.go, SetTasks).                     *)
TasksFollowTag ==
  \A e \in Environment :
    LET v == main.env[e] IN
      v.tag # "" => \E c \in Command : c.op = "deploy" /\ c.tag = v.tag /\ c.tasks = v.tasks

(* What a command finds to do is there to do, and is then done: one that   *)
(* is to be committed changes something, since git commit fails on an      *)
(* unchanged tree (git.go, Commit), and a deploy, a bind or an access      *)
(* change that is repeated commits nothing and is not refused              *)
(* (deploy.go:142-144, DeployResult.Unchanged).                            *)
OutcomesAreTrue ==
  \A c \in Command : Outcome(c, main) = "commit" =>
    /\ c.op # "secret" => Result(c, main) # main
    /\ ComparesFirst(c) => Outcome(c, Result(c, main)) = "unchanged"

-----------------------------------------------------------------------------
(* Action properties *)

OpensWhatItAdmits(v, e) ==
  \A r \in Role : ResolvedAccess(v, e)[r] # "none" => Present(v, r)

(* Whether a command that turned v into w created the Environment or its   *)
(* database, or wrote its levels or passwords.                             *)
DatabaseWritten(v, w) ==
  \/ ~v.live \/ ~v.postgres
  \/ v.level # w.level \/ v.password # w.password

(* With an age key, every command that writes to an Environment's access   *)
(* leaves a password for each role its levels admit, also for one an       *)
(* earlier command could only set the level of, for want of a key          *)
(* (writer.go, openDatabase); and no other command takes it away.          *)
LevelsBringPasswords ==
  \A e \in Environment :
    LET v == main.env[e]
        w == main'.env[e]
    IN /\ main.config["ageKey"] /\ w.live /\ w.postgres
       /\ DatabaseWritten(v, w) \/ OpensWhatItAdmits(v, e)
       => OpensWhatItAdmits(w, e)

(* A database role has its password as its level says: only while the      *)
(* level admits anyone, and from the first write of the levels that finds  *)
(* an age key.                                                             *)
PasswordsMatchLevels == []PasswordsFitLevels /\ [][LevelsBringPasswords]_main

(* The ways a command may take the file of a slug from one KEY: secret set *)
(* writes another KEY of the same slug over it (secret.go), or turning     *)
(* Postgres on writes the backups credentials over a KEY of their slug     *)
(* (backups.go, copyBackupsCredentials).                                   *)
OverwrittenBySecret(e, s) ==
  \E c \in Command :
    /\ c.op = "secret" /\ c.environment = e /\ Apply(c)
    /\ main'.env[e].files[s] \in {k \in c.keys : SlugOf[k] = s}

OverwrittenByCredentials(e, s) ==
  /\ s = CredentialsSlug
  /\ ~main.env[e].postgres /\ main'.env[e].postgres
  /\ main'.env[e].files[s] = "credentials"

(* No command on a live Application takes a developer's secret: what       *)
(* values.yaml names stays named, and the file of a KEY keeps that KEY's   *)
(* value, but for a secret set of a KEY with the same slug and, for a KEY  *)
(* BACKUPS_CREDENTIALS, a Postgres that is turned on.  Only clearing the   *)
(* leftover of a deleted Application removes one (writer.go,               *)
(* attemptCreate).                                                         *)
SecretsSurvive ==
  [][Live(main) =>
       \A e \in Environment :
         /\ main.env[e].secrets \subseteq main'.env[e].secrets
         /\ \A s \in Slug :
              main.env[e].files[s] \in Key =>
                \/ main'.env[e].files[s] = main.env[e].files[s]
                \/ OverwrittenBySecret(e, s)
                \/ OverwrittenByCredentials(e, s)]_main
=============================================================================
