-------------------------- MODULE ApplicationTree --------------------------
(***************************************************************************)
(* One Application as the Platform repository holds it, and what each      *)
(* command of the Platform-repository Writer does to it                    *)
(* (internal/platformrepo with the editors of internal/render).            *)
(*                                                                         *)
(* A Tree is everything a command reads or writes: the fields of           *)
(* platform.yaml it looks at, the directory of each Environment, the       *)
(* repository binding and the previews ApplicationSet.  A command is       *)
(* described by what its checks let through (...Allowed), and by the tree  *)
(* its edits leave (...Result).  Attempt puts the two together: it is what *)
(* one run of an attempt...() function does between its clone and its      *)
(* push.                                                                   *)
(*                                                                         *)
(* YAML, paths, encryption and messages are abstracted.  An absent file is *)
(* a FALSE flag or the content "absent"; a Secret's name is the pair of    *)
(* the Environment its <fullname> stands for and its slug.                 *)
(***************************************************************************)
EXTENDS Naturals

CONSTANTS
  Kind,        \* kinds of Application the model creates
  Size,        \* sizes
  Domain,      \* custom domains of valid shape, the Platform's own excluded
  Address,     \* [Environment -> Domain]: <name>.<baseDomain> and <name>-staging.<baseDomain>
  Group,       \* sign-in groups
  Tag,         \* image tags a deploy may carry
  Migration,   \* migration commands iidp.yaml may set
  Tasks,       \* non-empty lists of Scheduled tasks iidp.yaml may set
  Key,         \* secret KEYs
  SlugOf,      \* [Key -> slug]: SecretSlug
  Repository,  \* numeric repository ids
  Owner,       \* numeric owner ids
  Name,        \* owner/name of a repository, the human-readable half of a binding
  OrgID        \* the id of the org whose repositories may deploy

Environment == {"prod", "staging"}
Role == {"readWrite", "readOnly"}

PasswordSlug == [r \in Role |-> IF r = "readWrite" THEN "db-write" ELSE "db-read"]
CredentialsSlug == "backups-credentials"
Slug == {SlugOf[k] : k \in Key} \cup {PasswordSlug[r] : r \in Role} \cup {CredentialsSlug}

Levels == {"none", "pull", "push", "maintain", "admin"}
Rank == [l \in Levels |-> CASE l = "none" -> 0 [] l = "pull" -> 1 [] l = "push" -> 2
                            [] l = "maintain" -> 3 [] OTHER -> 4]

(* What an *.enc.yaml holds: the Platform's backups credentials, a         *)
(* database password, or the value of a KEY.                               *)
Content == {"absent", "credentials", "password"} \cup Key

ASSUME TreeAssumption ==
  /\ Address \in [Environment -> Domain]
  /\ SlugOf \in [Key -> STRING]
  /\ Key \cap {"absent", "credentials", "password"} = {}
  /\ OrgID \in Owner
  /\ "" \notin Tag \cup Migration \cup Tasks

-----------------------------------------------------------------------------
(* The data *)

(* platform.yaml's agePublicKey, its bucket and endpoint for backups, and  *)
(* bootstrap/templates/backups-credentials.enc.yaml.                       *)
Settings == {"ageKey", "bucket", "credentials"}
ConfigType == [Settings -> BOOLEAN]

EnvironmentType ==
  [ dir        : BOOLEAN,   \* the directory and its values.yaml
    live       : BOOLEAN,   \* application.yaml, what ArgoCD applies
    sopsSource : BOOLEAN,   \* application.yaml names sops/ as a source
    kind       : Kind \cup {""},
    size       : Size \cup {""},
    tag        : Tag \cup {""},
    migration  : Migration \cup {""},
    tasks      : Tasks \cup {""},
    domains    : SUBSET Domain,
    login      : BOOLEAN,
    groups     : SUBSET Group,
    postgres   : BOOLEAN,
    level      : [Role -> Levels \cup {"unset"}],
    password   : [Role -> Environment \cup {"none"}],
    secrets    : SUBSET (Environment \X Slug),
    files      : [Slug -> Content],
    registered : SUBSET Slug ]

NoEnvironment ==
  [ dir |-> FALSE, live |-> FALSE, sopsSource |-> FALSE,
    kind |-> "", size |-> "", tag |-> "", migration |-> "", tasks |-> "",
    domains |-> {}, login |-> FALSE, groups |-> {}, postgres |-> FALSE,
    level |-> [r \in Role |-> "unset"], password |-> [r \in Role |-> "none"],
    secrets |-> {}, files |-> [s \in Slug |-> "absent"], registered |-> {} ]

(* A binding as repository.yaml can hold it; "unusable" is one that is not *)
(* YAML or lacks an id, which every reader takes as binding nothing.       *)
NoBinding == [state |-> "none"]
UnusableBinding == [state |-> "unusable"]
CompleteBinding == [state : {"complete"}, id : Repository, owner : Owner, name : Name]
BindingType == {NoBinding, UnusableBinding} \cup CompleteBinding

Complete(binding) == binding.state = "complete"

SameRepository(b, c) == b.id = c.id /\ b.owner = c.owner

(* The previews ApplicationSet: the repository whose pull requests it      *)
(* follows, and whether its template carries staging's sops/ source.       *)
NoPreviews == [present |-> FALSE]
PreviewsType == {NoPreviews} \cup [present : {TRUE}, name : Name, sopsSource : BOOLEAN]

Tree == [ config : ConfigType, env : [Environment -> EnvironmentType],
          binding : BindingType, previews : PreviewsType ]

EmptyTree ==
  [ config |-> [setting \in Settings |-> FALSE],
    env |-> [e \in Environment |-> NoEnvironment],
    binding |-> NoBinding, previews |-> NoPreviews ]

Live(t) == \E e \in Environment : t.env[e].live

(* Whether applications/<name>/ exists: git keeps no empty directory. *)
HasDirectory(t) ==
  \/ \E e \in Environment : t.env[e].dir
  \/ t.binding # NoBinding
  \/ t.previews.present

-----------------------------------------------------------------------------
(* The editors of one Environment *)

(* Mutant of RegisterSops: adds to the listing, and forgets no file. *)
RegisterSopsKeepingOld(v) ==
  [v EXCEPT !.registered = @ \cup {s \in Slug : v.files[s] # "absent"}]

(* KsopsGenerator over a fresh listing of every *.enc.yaml in sops/. *)
RegisterSops(v) == [v EXCEPT !.registered = {s \in Slug : v.files[s] # "absent"}]

AddKustomizeSource(v) == [v EXCEPT !.sopsSource = TRUE]

CopyBackupsCredentials(v) ==
  AddKustomizeSource(RegisterSops([v EXCEPT !.files[CredentialsSlug] = "credentials"]))

DefaultAccess(e) ==
  [r \in Role |-> IF e = "staging" /\ r = "readWrite" THEN "push" ELSE "none"]

(* The levels values.yaml sets, with the Environment's defaults for the unset ones. *)
ResolvedAccess(v, e) ==
  [r \in Role |-> IF v.level[r] = "unset" THEN DefaultAccess(e)[r] ELSE v.level[r]]

(* readOnly may need no more permission than readWrite, when neither is none. *)
AccessAccepted(access) ==
  \/ \E r \in Role : access[r] = "none"
  \/ Rank[access["readOnly"]] <= Rank[access["readWrite"]]

Present(v, r) == v.files[PasswordSlug[r]] # "absent"

(* Mutant of PasswordsWritten: only for the roles the command opens. *)
PasswordsOfChanges(v, access, passwords) ==
  {r \in Role : access[r] # "none" /\ passwords /\ access[r] # v.level[r]}

(* The roles whose password one writeDatabaseAccess generates or removes. *)
PasswordsWritten(v, access, passwords) ==
  {r \in Role : /\ access[r] # "none"
                /\ passwords
                /\ ~(Present(v, r) /\ v.password[r] # "none")}
PasswordsRemoved(v, access) == {r \in Role : access[r] = "none" /\ Present(v, r)}

(* With passwords FALSE only the levels are written, and the Environment   *)
(* stays closed.                                                           *)
WriteDatabaseAccess(v, e, access, passwords) ==
  LET written == PasswordsWritten(v, access, passwords)
      removed == PasswordsRemoved(v, access)
      edited == [v EXCEPT
                   !.level = access,
                   !.password = [r \in Role |-> CASE access[r] = "none" -> "none"
                                                  [] r \in written -> e
                                                  [] OTHER -> v.password[r]],
                   !.files = [s \in Slug |->
                                IF \E r \in written : s = PasswordSlug[r] THEN "password"
                                ELSE IF \E r \in removed : s = PasswordSlug[r] THEN "absent"
                                ELSE v.files[s]]]
  IN IF written \cup removed = {} THEN edited ELSE AddKustomizeSource(RegisterSops(edited))

OpenDatabase(v, e, config) == WriteDatabaseAccess(v, e, DefaultAccess(e), config["ageKey"])

(* Mutant of StagingFromProd: keeps prod's list of secrets. *)
StagingWithProdsSecrets(prod) ==
  [prod EXCEPT
     !.live = TRUE, !.sopsSource = FALSE, !.tag = "", !.tasks = "", !.domains = {},
     !.level = [r \in Role |-> "unset"], !.password = [r \in Role |-> "none"],
     !.files = [s \in Slug |-> "absent"], !.registered = {}]

(* CopyValuesForStaging, and the application.yaml written next to it.  The *)
(* new directory has no sops/ yet.                                         *)
StagingFromProd(prod) ==
  [prod EXCEPT
     !.live = TRUE, !.sopsSource = FALSE,
     !.tag = "", !.tasks = "", !.domains = {}, !.secrets = {},
     !.level = [r \in Role |-> "unset"], !.password = [r \in Role |-> "none"],
     !.files = [s \in Slug |-> "absent"], !.registered = {}]

-----------------------------------------------------------------------------
(* The previews ApplicationSet *)

(* writePreviews needs the binding's owner/name and staging's application.yaml. *)
PreviewsRenderable(t) == Complete(t.binding) /\ t.env["staging"].live

WritePreviews(t) ==
  [t EXCEPT !.previews = [present |-> TRUE, name |-> t.binding.name,
                          sopsSource |-> t.env["staging"].sopsSource]]

(* Whether a command that turned t into u wrote staging's application.yaml. *)
StagingApplicationWritten(t, u) ==
  /\ u.env["staging"].live
  /\ ~t.env["staging"].live \/ u.env["staging"].sopsSource # t.env["staging"].sopsSource

RefreshAllowed(t, u) ==
  StagingApplicationWritten(t, u) /\ u.previews.present => PreviewsRenderable(u)

(* Mutant of RefreshPreviews: not called. *)
PreviewsLeftAlone(t, u) == u

RefreshPreviews(t, u) ==
  IF StagingApplicationWritten(t, u) /\ u.previews.present THEN WritePreviews(u) ELSE u

-----------------------------------------------------------------------------
(* The commands *)

(* None of the domains is an address of the Application's Environments. *)
DomainsAccepted(domains, environments) ==
  \A e \in environments : Address[e] \notin domains

BackupsConfigured(config) == config["bucket"] /\ config["credentials"]

CreateCommand ==
  [ op : {"create"}, kind : Kind, size : Size, postgres : BOOLEAN, staging : BOOLEAN,
    domains : SUBSET Domain, login : BOOLEAN, groups : SUBSET Group,
    repository : {NoBinding} \cup CompleteBinding, previews : BOOLEAN ]

Created(c) == IF c.staging THEN Environment ELSE {"prod"}

(* Mutant of CreateAllowed: creates over an Application that runs. *)
CreateOverLive(c, t) ==
  /\ c.postgres => BackupsConfigured(t.config)
  /\ c.previews => c.staging /\ Complete(c.repository)

CreateAllowed(c, t) ==
  /\ ~Live(t)
  /\ c.postgres => BackupsConfigured(t.config)
  /\ DomainsAccepted(c.domains, Created(c))
  /\ c.groups # {} => c.login
  /\ c.previews => c.staging /\ Complete(c.repository)

(* writeEnvironment: application.yaml and values.yaml of a new Environment. *)
WriteEnvironment(c, e) ==
  [NoEnvironment EXCEPT
     !.dir = TRUE, !.live = TRUE, !.kind = c.kind, !.size = c.size,
     !.domains = IF e = "prod" THEN c.domains ELSE {},
     !.login = c.login, !.groups = c.groups, !.postgres = c.postgres]

(* A leftover directory is removed in the same commit, so nothing of it stays. *)
CreateResult(c, t) ==
  LET environment(e) ==
        IF e \notin Created(c) THEN NoEnvironment
        ELSE IF c.postgres
             THEN OpenDatabase(CopyBackupsCredentials(WriteEnvironment(c, e)), e, t.config)
             ELSE WriteEnvironment(c, e)
      u == [ config |-> t.config, env |-> [e \in Environment |-> environment(e)],
             binding |-> c.repository, previews |-> NoPreviews ]
  IN IF c.previews THEN WritePreviews(u) ELSE u

AddCommand ==
  [ op : {"add"}, postgres : BOOLEAN, staging : BOOLEAN, domains : SUBSET Domain,
    size : Size \cup {""}, login : BOOLEAN, setGroups : BOOLEAN, groups : SUBSET Group,
    previews : BOOLEAN ]

(* The CLI asks for at least one Capability; an empty list of groups is one. *)
AsksForSomething(c) ==
  \/ c.postgres \/ c.staging \/ c.login \/ c.setGroups \/ c.previews
  \/ c.domains # {} \/ c.size # ""

(* Mutant of CapabilitiesAbsent: staging is there while it is live. *)
CapabilitiesAbsentByLife(c, t) ==
  LET prod == t.env["prod"] IN
  /\ ~(c.postgres /\ prod.postgres)
  /\ ~(c.staging /\ t.env["staging"].live)
  /\ c.size # "" => c.size # prod.size
  /\ ~(c.login /\ prod.login)
  /\ c.setGroups => c.login \/ prod.login
  /\ c.setGroups /\ prod.login => c.groups # prod.groups
  /\ c.domains \cap prod.domains = {}

(* checkCapabilitiesAbsent *)
CapabilitiesAbsent(c, t) ==
  LET prod == t.env["prod"] IN
  /\ ~(c.postgres /\ prod.postgres)
  /\ ~(c.staging /\ t.env["staging"].dir)
  /\ c.size # "" => c.size # prod.size
  /\ ~(c.login /\ prod.login)
  /\ c.setGroups => c.login \/ prod.login
  /\ c.setGroups /\ prod.login => c.groups # prod.groups
  /\ c.domains \cap prod.domains = {}

(* The Environments that exist as far as add-capability can tell: by directory. *)
Existing(t) == {"prod"} \cup (IF t.env["staging"].dir THEN {"staging"} ELSE {})

(* Mutant of PostgresAfter: looks at this command only. *)
PostgresAsked(c, t) == c.postgres

(* Postgres's state in the Application once the command is done. *)
PostgresAfter(c, t) == c.postgres \/ t.env["prod"].postgres

(* Mutant of ApplyCapabilities: login on prod only. *)
ApplyLoginToProd(c, v, e) ==
  [v EXCEPT
     !.postgres = @ \/ c.postgres,
     !.login = @ \/ (c.login /\ e = "prod"),
     !.groups = IF c.setGroups THEN c.groups ELSE @,
     !.size = IF c.size = "" THEN @ ELSE c.size,
     !.domains = IF e = "prod" THEN @ \cup c.domains ELSE @]

(* applyCapabilitiesToEnvironment *)
ApplyCapabilities(c, v, e) ==
  [v EXCEPT
     !.postgres = @ \/ c.postgres,
     !.login = @ \/ c.login,
     !.groups = IF c.setGroups THEN c.groups ELSE @,
     !.size = IF c.size = "" THEN @ ELSE c.size,
     !.domains = IF e = "prod" THEN @ \cup c.domains ELSE @]

(* The Environments as the command leaves them, before the previews. *)
AddEdits(c, t) ==
  LET edited(e) == ApplyCapabilities(c, t.env[e], e)
      database(v, e) == OpenDatabase(CopyBackupsCredentials(v), e, t.config)
      existing(e) == IF c.postgres THEN database(edited(e), e) ELSE edited(e)
      staging == StagingFromProd(edited("prod"))
      added == IF PostgresAfter(c, t) THEN database(staging, "staging") ELSE staging
  IN [t EXCEPT !.env = [e \in Environment |->
                          IF e = "staging" /\ c.staging THEN added
                          ELSE IF e \in Existing(t) THEN existing(e) ELSE t.env[e]]]

AddResult(c, t) ==
  IF c.previews THEN WritePreviews(AddEdits(c, t)) ELSE RefreshPreviews(t, AddEdits(c, t))

AddAllowed(c, t) ==
  /\ t.env["prod"].dir
  /\ CapabilitiesAbsent(c, t)
  /\ c.previews => /\ ~t.previews.present
                   /\ t.env["staging"].dir \/ c.staging
                   /\ Complete(t.binding)
                   /\ t.env["staging"].live \/ c.staging
  /\ c.postgres => t.config["bucket"]
  /\ c.postgres \/ (c.staging /\ t.env["prod"].postgres) => t.config["credentials"]
  /\ DomainsAccepted(c.domains, Existing(t) \cup (IF c.staging THEN {"staging"} ELSE {}))
  /\ c.postgres => \A e \in Existing(t) : t.env[e].live
  /\ RefreshAllowed(t, AddEdits(c, t))

BindCommand == [op : {"bind"}, repository : CompleteBinding, rebind : BOOLEAN]

(* A complete binding to another repository is only replaced on request;   *)
(* an unusable one binds nothing and is replaced freely.                   *)
BindAllowed(c, t) ==
  /\ Live(t)
  /\ Complete(t.binding) => SameRepository(t.binding, c.repository) \/ c.rebind

BindResult(c, t) == [t EXCEPT !.binding = c.repository]

DeleteCommand == [op : {"delete"}]

(* The directory is implied: a live Environment is in it. *)
DeleteAllowed(t) == Live(t)

(* Mutant of DeleteResult: values.yaml and sops/ go as well. *)
DeleteWholeEnvironments(t) ==
  [t EXCEPT
     !.env = [e \in Environment |-> IF t.env[e].live THEN NoEnvironment ELSE t.env[e]],
     !.binding = NoBinding,
     !.previews = NoPreviews]

(* application.yaml of every live Environment, repository.yaml and the     *)
(* previews go; values.yaml and sops/ stay for the PreDelete hook.         *)
DeleteResult(t) ==
  [t EXCEPT
     !.env = [e \in Environment |->
                IF t.env[e].live THEN [t.env[e] EXCEPT !.live = FALSE, !.sopsSource = FALSE]
                ELSE t.env[e]],
     !.binding = NoBinding,
     !.previews = NoPreviews]

SecretCommand == [op : {"secret"}, environment : Environment, keys : SUBSET Key \ {{}}]

(* The slugs of the database passwords are not for secrets. *)
ValidSecretKey(k) == \A r \in Role : SlugOf[k] # PasswordSlug[r]

(* KEYs of one slug share a document; the model picks the one that stays.  *)
WriteSecrets(c, t) ==
  LET e == c.environment
      slugs == {SlugOf[k] : k \in c.keys}
      edited == [t.env[e] EXCEPT
                   !.files = [s \in Slug |-> IF s \in slugs
                                             THEN CHOOSE k \in c.keys : SlugOf[k] = s
                                             ELSE t.env[e].files[s]],
                   !.secrets = @ \cup {<<e, s>> : s \in slugs}]
  IN [t EXCEPT !.env[e] = AddKustomizeSource(RegisterSops(edited))]

SetSecretsResult(c, t) == RefreshPreviews(t, WriteSecrets(c, t))

SetSecretsAllowed(c, t) ==
  /\ \A k \in c.keys : ValidSecretKey(k)
  /\ t.config["ageKey"]
  /\ t.env[c.environment].dir
  /\ t.env[c.environment].live
  /\ RefreshAllowed(t, WriteSecrets(c, t))

(* change gives a level to set for each role, or "" to keep it. *)
AccessCommand ==
  [op : {"access"}, environment : Environment, change : [Role -> Levels \cup {""}]]

AccessAsked(c, t) ==
  LET current == ResolvedAccess(t.env[c.environment], c.environment)
  IN [r \in Role |-> IF c.change[r] = "" THEN current[r] ELSE c.change[r]]

WriteAccess(c, t) ==
  LET e == c.environment
  IN [t EXCEPT !.env[e] = WriteDatabaseAccess(t.env[e], e, AccessAsked(c, t), TRUE)]

SetAccessResult(c, t) == RefreshPreviews(t, WriteAccess(c, t))

SetAccessAllowed(c, t) ==
  LET v == t.env[c.environment] IN
  /\ v.live
  /\ v.postgres
  /\ AccessAccepted(ResolvedAccess(v, c.environment))
  /\ AccessAccepted(AccessAsked(c, t))
  /\ PasswordsWritten(v, AccessAsked(c, t), TRUE) # {} => t.config["ageKey"]
  /\ RefreshAllowed(t, WriteAccess(c, t))

(* A deploy request the Deploy gate has read: the caller's repository id,  *)
(* whether its ref promotes, and what it asks for.  migration "keep" is a  *)
(* request without the field.                                              *)
DeployCommand ==
  [ op : {"deploy"}, id : Repository, promote : BOOLEAN,
    environment : Environment \cup {"auto"},
    tag : Tag, migration : Migration \cup {"", "keep"}, tasks : Tasks \cup {""} ]

(* The Environment the ref deploys, whatever the request says. *)
Target(c, t) == IF ~c.promote /\ t.env["staging"].live THEN "staging" ELSE "prod"

(* Gate.authorize, on the clone the write is made from. *)
BoundToCaller(c, t) ==
  Complete(t.binding) /\ t.binding.owner = OrgID /\ t.binding.id = c.id

Authorized(c, t) == BoundToCaller(c, t) /\ c.environment \in {"auto", Target(c, t)}

SetImageTagAllowed(c, t) ==
  LET v == t.env[Target(c, t)] IN
  /\ HasDirectory(t)
  /\ Authorized(c, t)
  /\ v.live
  /\ c.migration \in Migration /\ c.migration # v.migration => v.postgres
  /\ c.tasks # "" /\ c.tasks # v.tasks => v.kind # "static-site"

(* Mutant of SetImageTagResult: a request without tasks keeps the old ones. *)
DeployKeepingTasks(c, t) ==
  LET v == t.env[Target(c, t)]
      migration == IF c.migration = "keep" THEN v.migration ELSE c.migration
      tasks == IF c.tasks = "" THEN v.tasks ELSE c.tasks
  IN [t EXCEPT !.env[Target(c, t)] =
        [v EXCEPT !.tag = c.tag, !.migration = migration, !.tasks = tasks]]

SetImageTagResult(c, t) ==
  LET v == t.env[Target(c, t)]
      migration == IF c.migration = "keep" THEN v.migration ELSE c.migration
  IN [t EXCEPT !.env[Target(c, t)] =
        [v EXCEPT !.tag = c.tag, !.migration = migration, !.tasks = c.tasks]]

CommandType ==
  CreateCommand \cup AddCommand \cup BindCommand \cup DeleteCommand
    \cup SecretCommand \cup AccessCommand \cup DeployCommand

Allowed(c, t) ==
  CASE c.op = "create" -> CreateAllowed(c, t)
    [] c.op = "add"    -> AddAllowed(c, t)
    [] c.op = "bind"   -> BindAllowed(c, t)
    [] c.op = "delete" -> DeleteAllowed(t)
    [] c.op = "secret" -> SetSecretsAllowed(c, t)
    [] c.op = "access" -> SetAccessAllowed(c, t)
    [] c.op = "deploy" -> SetImageTagAllowed(c, t)

Result(c, t) ==
  CASE c.op = "create" -> CreateResult(c, t)
    [] c.op = "add"    -> AddResult(c, t)
    [] c.op = "bind"   -> BindResult(c, t)
    [] c.op = "delete" -> DeleteResult(t)
    [] c.op = "secret" -> SetSecretsResult(c, t)
    [] c.op = "access" -> SetAccessResult(c, t)
    [] c.op = "deploy" -> SetImageTagResult(c, t)

(* The commands that look for a difference, and commit nothing without one. *)
ComparesFirst(c) == c.op \in {"bind", "access", "deploy"}

(* Mutant of Outcome: commits without looking for a difference. *)
OutcomeUncompared(c, t) == IF ~Allowed(c, t) THEN "refused" ELSE "commit"

(* What one attempt on a clone of t comes to. *)
Outcome(c, t) ==
  IF ~Allowed(c, t) THEN "refused"
  ELSE IF ComparesFirst(c) /\ Result(c, t) = t THEN "unchanged"
  ELSE "commit"
=============================================================================
