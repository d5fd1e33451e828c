------------------------ MODULE PlatformLedger_proofs ------------------------
(***************************************************************************)
(* PlatformLedger, for any commands in any order and any settings of the   *)
(* Platform.  First what the commands do to a Tree, for every Tree and     *)
(* every command that its checks let through: the result is a Tree         *)
(* (ResultIsTree), and what holds of the encrypted documents, the          *)
(* Capabilities and the previews holds of it still (ResultKeeps).  These   *)
(* are facts about the operators of ApplicationTree.  Then the invariants  *)
(* of main, as consequences of one inductive invariant, WellKept, that     *)
(* every command's edits keep.                                             *)
(***************************************************************************)
EXTENDS PlatformLedger, TLAPS

-----------------------------------------------------------------------------
(* The editors of one Environment *)

LEMMA NoEnvironmentType == NoEnvironment \in EnvironmentType
BY DEF NoEnvironment, EnvironmentType, Content, Levels, Role

LEMMA RegisterSopsType ==
  ASSUME NEW v \in EnvironmentType
  PROVE  RegisterSops(v) \in EnvironmentType
BY DEF RegisterSops, EnvironmentType

LEMMA AddKustomizeSourceType ==
  ASSUME NEW v \in EnvironmentType
  PROVE  AddKustomizeSource(v) \in EnvironmentType
BY DEF AddKustomizeSource, EnvironmentType

(* Replacing the documents of sops/ keeps the type. *)
LEMMA FilesType ==
  ASSUME NEW v \in EnvironmentType, NEW files \in [Slug -> Content],
         NEW secrets \in SUBSET (Environment \X Slug)
  PROVE  /\ [v EXCEPT !.files = files] \in EnvironmentType
         /\ [v EXCEPT !.files = files, !.secrets = secrets] \in EnvironmentType
BY DEF EnvironmentType

LEMMA CopyBackupsCredentialsType ==
  ASSUME NEW v \in EnvironmentType
  PROVE  CopyBackupsCredentials(v) \in EnvironmentType
<1>1. v.files \in [Slug -> Content]
  BY DEF EnvironmentType
<1>2. [v.files EXCEPT ![CredentialsSlug] = "credentials"] \in [Slug -> Content]
  BY <1>1 DEF Content
<1>3. [v EXCEPT !.files[CredentialsSlug] = "credentials"] \in EnvironmentType
  BY <1>2, FilesType
<1> QED
  BY <1>3, RegisterSopsType, AddKustomizeSourceType DEF CopyBackupsCredentials

LEMMA DefaultAccessType ==
  ASSUME NEW e \in Environment
  PROVE  DefaultAccess(e) \in [Role -> Levels]
BY DEF DefaultAccess, Levels

LEMMA ResolvedAccessType ==
  ASSUME NEW v \in EnvironmentType, NEW e \in Environment
  PROVE  ResolvedAccess(v, e) \in [Role -> Levels]
<1>1. v.level \in [Role -> Levels \cup {"unset"}]
  BY DEF EnvironmentType
<1> QED
  BY <1>1, DefaultAccessType DEF ResolvedAccess

LEMMA WriteDatabaseAccessType ==
  ASSUME NEW v \in EnvironmentType, NEW e \in Environment,
         NEW access \in [Role -> Levels], NEW passwords \in BOOLEAN
  PROVE  WriteDatabaseAccess(v, e, access, passwords) \in EnvironmentType
<1> DEFINE written == PasswordsWritten(v, access, passwords)
           removed == PasswordsRemoved(v, access)
           password == [r \in Role |-> CASE access[r] = "none" -> "none"
                                         [] r \in written -> e
                                         [] OTHER -> v.password[r]]
           files == [s \in Slug |->
                       IF \E r \in written : s = PasswordSlug[r] THEN "password"
                       ELSE IF \E r \in removed : s = PasswordSlug[r] THEN "absent"
                       ELSE v.files[s]]
           edited == [v EXCEPT !.level = access, !.password = password, !.files = files]
<1>1. password \in [Role -> Environment \cup {"none"}]
  <2>1. v.password \in [Role -> Environment \cup {"none"}]
    BY DEF EnvironmentType
  <2> QED
    BY <2>1
<1>2. files \in [Slug -> Content]
  <2>1. v.files \in [Slug -> Content]
    BY DEF EnvironmentType
  <2> QED
    BY <2>1 DEF Content
<1>3. edited \in EnvironmentType
  BY <1>1, <1>2 DEF EnvironmentType
<1>4. AddKustomizeSource(RegisterSops(edited)) \in EnvironmentType
  BY <1>3, RegisterSopsType, AddKustomizeSourceType
<1> QED
  BY <1>3, <1>4 DEF WriteDatabaseAccess

LEMMA OpenDatabaseType ==
  ASSUME NEW v \in EnvironmentType, NEW e \in Environment, NEW config \in ConfigType
  PROVE  OpenDatabase(v, e, config) \in EnvironmentType
<1>1. config["ageKey"] \in BOOLEAN
  BY DEF ConfigType, Settings
<1> QED
  BY <1>1, DefaultAccessType, WriteDatabaseAccessType DEF OpenDatabase

(* Turning a database on leaves application.yaml in place. *)
LEMMA OpenDatabaseStaysLive ==
  ASSUME NEW v \in EnvironmentType, NEW e, NEW config,
         v.live
  PROVE  OpenDatabase(CopyBackupsCredentials(v), e, config).live
BY DEF OpenDatabase, WriteDatabaseAccess, CopyBackupsCredentials, RegisterSops,
       AddKustomizeSource, EnvironmentType

LEMMA StagingFromProdType ==
  ASSUME NEW v \in EnvironmentType
  PROVE  StagingFromProd(v) \in EnvironmentType
BY DEF StagingFromProd, EnvironmentType, Content

-----------------------------------------------------------------------------
(* The previews *)

LEMMA WritePreviewsType ==
  ASSUME NEW t \in Tree, PreviewsRenderable(t)
  PROVE  WritePreviews(t) \in Tree
<1>1. t.binding \in CompleteBinding
  BY DEF Tree, BindingType, PreviewsRenderable, Complete, NoBinding, UnusableBinding
<1>2. t.binding.name \in Name
  BY <1>1 DEF CompleteBinding
<1>3. t.env["staging"].sopsSource \in BOOLEAN
  BY DEF Tree, Environment, EnvironmentType
<1> QED
  BY <1>2, <1>3 DEF WritePreviews, Tree, PreviewsType

LEMMA RefreshPreviewsType ==
  ASSUME NEW t \in Tree, NEW u \in Tree, RefreshAllowed(t, u)
  PROVE  RefreshPreviews(t, u) \in Tree
BY WritePreviewsType DEF RefreshPreviews, RefreshAllowed

-----------------------------------------------------------------------------
(* The commands *)

LEMMA TreeFields ==
  ASSUME NEW t \in Tree, NEW e \in Environment
  PROVE  /\ t.env[e] \in EnvironmentType
         /\ t.config \in ConfigType
BY DEF Tree

LEMMA CreateResultType ==
  ASSUME NEW c \in CreateCommand, NEW t \in Tree, CreateAllowed(c, t)
  PROVE  CreateResult(c, t) \in Tree
<1> DEFINE environment(e) ==
             IF e \notin Created(c) THEN NoEnvironment
             ELSE IF c.postgres
                  THEN OpenDatabase(CopyBackupsCredentials(WriteEnvironment(c, e)), e, t.config)
                  ELSE WriteEnvironment(c, e)
           u == [ config |-> t.config, env |-> [e \in Environment |-> environment(e)],
                  binding |-> c.repository, previews |-> NoPreviews ]
<1>1. ASSUME NEW e \in Environment PROVE WriteEnvironment(c, e) \in EnvironmentType
  BY NoEnvironmentType DEF WriteEnvironment, EnvironmentType, CreateCommand
<1>2. t.config \in ConfigType
  BY DEF Tree
<1>3. ASSUME NEW e \in Environment PROVE environment(e) \in EnvironmentType
  <2>1. OpenDatabase(CopyBackupsCredentials(WriteEnvironment(c, e)), e, t.config)
          \in EnvironmentType
    BY <1>1, <1>2, CopyBackupsCredentialsType, OpenDatabaseType
  <2> QED
    BY <1>1, <2>1, NoEnvironmentType
<1>4. c.repository \in BindingType
  BY DEF CreateCommand, BindingType
<1> HIDE DEF environment
<1>5. u \in Tree
  BY <1>2, <1>3, <1>4 DEF Tree, PreviewsType
<1>6. ASSUME c.previews PROVE WritePreviews(u) \in Tree
  <2>1. c.staging /\ Complete(c.repository)
    BY <1>6 DEF CreateAllowed
  <2>2. environment("staging").live
    <3>1. environment("staging") =
            IF c.postgres
            THEN OpenDatabase(CopyBackupsCredentials(WriteEnvironment(c, "staging")),
                              "staging", t.config)
            ELSE WriteEnvironment(c, "staging")
      BY <2>1 DEF environment, Created, Environment
    <3>2. WriteEnvironment(c, "staging").live
      BY DEF WriteEnvironment, NoEnvironment
    <3>3. WriteEnvironment(c, "staging") \in EnvironmentType
      BY <1>1 DEF Environment
    <3> QED
      BY <3>1, <3>2, <3>3, OpenDatabaseStaysLive
  <2>3. PreviewsRenderable(u)
    BY <2>1, <2>2 DEF PreviewsRenderable, Environment
  <2> QED
    BY <1>5, <2>3, WritePreviewsType
<1> QED
  BY <1>5, <1>6 DEF CreateResult, environment

LEMMA ApplyCapabilitiesType ==
  ASSUME NEW c \in AddCommand, NEW v \in EnvironmentType, NEW e \in Environment
  PROVE  /\ ApplyCapabilities(c, v, e) \in EnvironmentType
         /\ ApplyCapabilities(c, v, e).live = v.live
<1> DEFINE caps ==
             [ postgres |-> v.postgres \/ c.postgres,
               login |-> v.login \/ c.login,
               groups |-> IF c.setGroups THEN c.groups ELSE v.groups,
               size |-> IF c.size = "" THEN v.size ELSE c.size,
               domains |-> IF e = "prod" THEN v.domains \cup c.domains ELSE v.domains ]
<1>1. caps \in [ postgres : BOOLEAN, login : BOOLEAN, groups : SUBSET Group,
                 size : Size \cup {""}, domains : SUBSET Domain ]
  BY DEF EnvironmentType, AddCommand
<1> DEFINE w == [v EXCEPT !.postgres = caps.postgres, !.login = caps.login,
                          !.groups = caps.groups, !.size = caps.size,
                          !.domains = caps.domains]
<1>2. ApplyCapabilities(c, v, e) = w
  BY DEF ApplyCapabilities
<1> HIDE DEF caps
<1>3. w \in EnvironmentType
  BY <1>1 DEF EnvironmentType
<1>4. w.live = v.live
  BY DEF EnvironmentType
<1> QED
  BY <1>2, <1>3, <1>4

LEMMA AddResultType ==
  ASSUME NEW c \in AddCommand, NEW t \in Tree, AddAllowed(c, t)
  PROVE  AddResult(c, t) \in Tree
<1>1. ASSUME NEW v \in EnvironmentType, NEW e \in Environment
      PROVE  /\ ApplyCapabilities(c, v, e) \in EnvironmentType
             /\ ApplyCapabilities(c, v, e).live = v.live
  BY ApplyCapabilitiesType
<1>2. ASSUME NEW v \in EnvironmentType, NEW e \in Environment
      PROVE  OpenDatabase(CopyBackupsCredentials(v), e, t.config) \in EnvironmentType
  BY TreeFields, CopyBackupsCredentialsType, OpenDatabaseType
<1> DEFINE edited(e) == ApplyCapabilities(c, t.env[e], e)
           database(v, e) == OpenDatabase(CopyBackupsCredentials(v), e, t.config)
           existing(e) == IF c.postgres THEN database(edited(e), e) ELSE edited(e)
           staging == StagingFromProd(edited("prod"))
           added == IF PostgresAfter(c, t) THEN database(staging, "staging") ELSE staging
<1>3. ASSUME NEW e \in Environment
      PROVE  edited(e) \in EnvironmentType /\ existing(e) \in EnvironmentType
  BY <1>1, <1>2, TreeFields
<1>4. added \in EnvironmentType
  <2>1. staging \in EnvironmentType
    BY <1>3, StagingFromProdType DEF Environment
  <2> QED
    BY <1>2, <2>1 DEF Environment
<1> DEFINE env == [e \in Environment |-> IF e = "staging" /\ c.staging THEN added
                                         ELSE IF e \in Existing(t) THEN existing(e)
                                         ELSE t.env[e]]
<1>5. env \in [Environment -> EnvironmentType]
  <2> HIDE DEF existing, added
  <2> QED
    BY <1>3, <1>4, TreeFields
<1>6. AddEdits(c, t) = [t EXCEPT !.env = env]
  BY DEF AddEdits
<1> HIDE DEF env
<1>7. AddEdits(c, t) \in Tree
  BY <1>5, <1>6 DEF Tree
<1>8. ASSUME c.previews PROVE PreviewsRenderable(AddEdits(c, t))
  <2>1. Complete(t.binding) /\ (t.env["staging"].live \/ c.staging)
    BY <1>8 DEF AddAllowed
  <2>2. added.live
    <3>1. staging \in EnvironmentType
      BY <1>3, StagingFromProdType DEF Environment
    <3>2. staging.live
      <4>1. edited("prod") \in EnvironmentType
        BY <1>3 DEF Environment
      <4> HIDE DEF edited
      <4> QED
        BY <4>1 DEF StagingFromProd, EnvironmentType
    <3> HIDE DEF staging
    <3> QED
      BY <3>1, <3>2, OpenDatabaseStaysLive
  <2>3. ASSUME t.env["staging"].live PROVE existing("staging").live
    <3>1. t.env["staging"] \in EnvironmentType /\ edited("staging") \in EnvironmentType
      BY <1>3, TreeFields DEF Environment
    <3>2. edited("staging").live
      BY <1>1, <2>3, <3>1 DEF Environment
    <3> HIDE DEF edited
    <3> QED
      BY <3>1, <3>2, OpenDatabaseStaysLive
  <2>4. env["staging"].live
    <3>1. env["staging"] = IF c.staging THEN added
                           ELSE IF "staging" \in Existing(t) THEN existing("staging")
                           ELSE t.env["staging"]
      <4> HIDE DEF added, existing
      <4> QED
        BY DEF env, Environment
    <3> HIDE DEF added, existing, env
    <3> QED
      BY <2>1, <2>2, <2>3, <3>1
  <2>5. AddEdits(c, t).binding = t.binding /\ AddEdits(c, t).env = env
    BY <1>6 DEF Tree
  <2> QED
    BY <2>1, <2>4, <2>5 DEF PreviewsRenderable
<1> QED
  BY <1>7, <1>8, WritePreviewsType, RefreshPreviewsType DEF AddResult, AddAllowed

LEMMA BindResultType ==
  ASSUME NEW c \in BindCommand, NEW t \in Tree
  PROVE  BindResult(c, t) \in Tree
BY DEF BindResult, BindCommand, Tree, BindingType

LEMMA DeleteResultType ==
  ASSUME NEW t \in Tree
  PROVE  DeleteResult(t) \in Tree
<1>1. ASSUME NEW v \in EnvironmentType
      PROVE  [v EXCEPT !.live = FALSE, !.sopsSource = FALSE] \in EnvironmentType
  BY DEF EnvironmentType
<1> QED
  BY <1>1 DEF DeleteResult, Tree, BindingType, PreviewsType

LEMMA SetImageTagResultType ==
  ASSUME NEW c \in DeployCommand, NEW t \in Tree
  PROVE  SetImageTagResult(c, t) \in Tree
<1>1. Target(c, t) \in Environment
  BY DEF Target, Environment
<1> DEFINE v == t.env[Target(c, t)]
           migration == IF c.migration = "keep" THEN v.migration ELSE c.migration
           written == [v EXCEPT !.tag = c.tag, !.migration = migration, !.tasks = c.tasks]
<1>2. written \in EnvironmentType
  <2>1. v \in EnvironmentType
    BY <1>1, TreeFields
  <2>2. migration \in Migration \cup {""}
    <3> HIDE DEF v
    <3> QED
      BY <2>1 DEF EnvironmentType, DeployCommand
  <2>3. c.tag \in Tag \cup {""} /\ c.tasks \in Tasks \cup {""}
    BY DEF DeployCommand
  <2> HIDE DEF v, migration
  <2> QED
    BY <2>1, <2>2, <2>3 DEF EnvironmentType
<1>3. SetImageTagResult(c, t) = [t EXCEPT !.env[Target(c, t)] = written]
  BY DEF SetImageTagResult
<1> HIDE DEF written
<1> QED
  BY <1>1, <1>2, <1>3 DEF Tree

LEMMA SetSecretsResultType ==
  ASSUME NEW c \in SecretCommand, NEW t \in Tree, SetSecretsAllowed(c, t)
  PROVE  SetSecretsResult(c, t) \in Tree
<1> DEFINE e == c.environment
           slugs == {SlugOf[k] : k \in c.keys}
           files == [s \in Slug |-> IF s \in slugs
                                    THEN CHOOSE k \in c.keys : SlugOf[k] = s
                                    ELSE t.env[e].files[s]]
           secrets == t.env[e].secrets \cup {<<e, s>> : s \in slugs}
           edited == [t.env[e] EXCEPT !.files = files, !.secrets = secrets]
<1>1. e \in Environment /\ c.keys \subseteq Key
  BY DEF SecretCommand
<1>2. slugs \subseteq Slug
  BY <1>1 DEF Slug
<1>3. files \in [Slug -> Content]
  <2>1. t.env[e].files \in [Slug -> Content]
    BY <1>1, TreeFields DEF EnvironmentType
  <2>2. ASSUME NEW s \in slugs PROVE (CHOOSE k \in c.keys : SlugOf[k] = s) \in Content
    BY <1>1 DEF Content
  <2> QED
    BY <2>1, <2>2
<1>4. secrets \in SUBSET (Environment \X Slug)
  <2>1. t.env[e].secrets \in SUBSET (Environment \X Slug)
    BY <1>1, TreeFields DEF EnvironmentType
  <2> QED
    BY <1>1, <1>2, <2>1
<1>5. edited \in EnvironmentType
  <2> HIDE DEF files, secrets
  <2> QED
    BY <1>1, <1>3, <1>4, TreeFields, FilesType
<1>6. AddKustomizeSource(RegisterSops(edited)) \in EnvironmentType
  BY <1>5, RegisterSopsType, AddKustomizeSourceType
<1>7. WriteSecrets(c, t) = [t EXCEPT !.env[e] = AddKustomizeSource(RegisterSops(edited))]
  BY DEF WriteSecrets
<1>8. WriteSecrets(c, t) \in Tree
  <2> HIDE DEF edited
  <2> QED
    BY <1>1, <1>6, <1>7 DEF Tree
<1> QED
  BY <1>8, RefreshPreviewsType DEF SetSecretsResult, SetSecretsAllowed

LEMMA AccessAskedType ==
  ASSUME NEW c \in AccessCommand, NEW t \in Tree
  PROVE  AccessAsked(c, t) \in [Role -> Levels]
<1>1. c.environment \in Environment /\ c.change \in [Role -> Levels \cup {""}]
  BY DEF AccessCommand
<1>2. ResolvedAccess(t.env[c.environment], c.environment) \in [Role -> Levels]
  BY <1>1, TreeFields, ResolvedAccessType
<1> QED
  BY <1>1, <1>2 DEF AccessAsked

LEMMA SetAccessResultType ==
  ASSUME NEW c \in AccessCommand, NEW t \in Tree, SetAccessAllowed(c, t)
  PROVE  SetAccessResult(c, t) \in Tree
<1>1. c.environment \in Environment
  BY DEF AccessCommand
<1>2. AccessAsked(c, t) \in [Role -> Levels]
  BY AccessAskedType
<1>3. WriteDatabaseAccess(t.env[c.environment], c.environment, AccessAsked(c, t), TRUE)
        \in EnvironmentType
  BY <1>1, <1>2, TreeFields, WriteDatabaseAccessType
<1>4. WriteAccess(c, t) \in Tree
  BY <1>1, <1>3 DEF WriteAccess, Tree
<1> QED
  BY <1>4, RefreshPreviewsType DEF SetAccessResult, SetAccessAllowed

(* Whatever a command's checks let through keeps the tree well formed: no  *)
(* command leaves a value the other commands cannot read.                  *)
THEOREM ResultIsTree ==
  ASSUME NEW c \in CommandType, NEW t \in Tree, Allowed(c, t)
  PROVE  Result(c, t) \in Tree
<1>1. CASE c \in CreateCommand
  BY <1>1, CreateResultType DEF CreateCommand, Allowed, Result
<1>2. CASE c \in AddCommand
  BY <1>2, AddResultType DEF AddCommand, Allowed, Result
<1>3. CASE c \in BindCommand
  BY <1>3, BindResultType DEF BindCommand, Allowed, Result
<1>4. CASE c \in DeleteCommand
  BY <1>4, DeleteResultType DEF DeleteCommand, Allowed, Result
<1>5. CASE c \in SecretCommand
  BY <1>5, SetSecretsResultType DEF SecretCommand, Allowed, Result
<1>6. CASE c \in AccessCommand
  BY <1>6, SetAccessResultType DEF AccessCommand, Allowed, Result
<1>7. CASE c \in DeployCommand
  BY <1>7, SetImageTagResultType DEF DeployCommand, Allowed, Result
<1> QED
  BY <1>1, <1>2, <1>3, <1>4, <1>5, <1>6, <1>7 DEF CommandType

-----------------------------------------------------------------------------
(* What the commands keep of one Environment *)

(* ksops.yaml lists exactly the documents of sops/. *)
Listed(v) == v.registered = {s \in Slug : v.files[s] # "absent"}

(* Each secret values.yaml names is of this Environment, is listed, and is  *)
(* no database password.  The last part makes it inductive: set-access may *)
(* remove a password's document, and that must not be a named secret's.    *)
OwnSecrets(v, e) ==
  \A name \in v.secrets :
    name[1] = e /\ name[2] \in v.registered /\ \A r \in Role : name[2] # PasswordSlug[r]

(* A password's document is there exactly while values.yaml says so, for   *)
(* this Environment and a level that admits someone.                       *)
OwnPasswords(v, e) ==
  \A r \in Role :
    /\ v.files[PasswordSlug[r]] \in {"absent", "password"}
    /\ Present(v, r) => v.password[r] = e /\ ResolvedAccess(v, e)[r] # "none"
    /\ ~Present(v, r) => v.password[r] = "none"

(* A live database finds its backups credentials. *)
Credentialed(v) ==
  v.live /\ v.postgres => v.sopsSource /\ CredentialsSlug \in v.registered

(* What is kept of sops/ and of the fields of values.yaml that mirror it. *)
Orderly(v, e) ==
  /\ ~v.dir => v = NoEnvironment
  /\ Listed(v) /\ OwnSecrets(v, e) /\ OwnPasswords(v, e)

(* v and w differ in sops/, its sources and the database access at most. *)
SameValues(v, w) ==
  /\ w.dir = v.dir /\ w.live = v.live /\ w.kind = v.kind /\ w.size = v.size
  /\ w.tag = v.tag /\ w.migration = v.migration /\ w.tasks = v.tasks
  /\ w.domains = v.domains /\ w.login = v.login /\ w.groups = v.groups
  /\ w.postgres = v.postgres

(* Going from v to w, no name of a secret is lost, and the file of a KEY   *)
(* keeps its content unless one of keys, of the same slug, is written over *)
(* it, or the backups credentials are.                                     *)
KeepsNames(v, w) == v.secrets \subseteq w.secrets

KeepsFiles(keys, v, w) ==
  \A s \in Slug : v.files[s] \in Key =>
    \/ w.files[s] = v.files[s]
    \/ w.files[s] \in {k \in keys : SlugOf[k] = s}
    \/ s = CredentialsSlug /\ w.files[s] = "credentials"

(* As KeepsFiles, but the credentials come with a database only. *)
KeepsSecrets(keys, v, w) ==
  /\ KeepsNames(v, w)
  /\ KeepsFiles(keys, v, w)
  /\ v.files[CredentialsSlug] \in Key /\ w.files[CredentialsSlug] = "credentials" =>
       ~v.postgres /\ w.postgres

(* Going from v to w, with an age key or without, the roles a level admits *)
(* have their passwords when the levels are written, and keep them.        *)
KeepsOpen(key, e, v, w) ==
  /\ key /\ w.live /\ w.postgres
  /\ DatabaseWritten(v, w) \/ OpensWhatItAdmits(v, e)
  => OpensWhatItAdmits(w, e)

(* An Environment that is not there is in order. *)
LEMMA NoEnvironmentOrderly ==
  ASSUME NEW e \in Environment
  PROVE  Orderly(NoEnvironment, e) /\ Credentialed(NoEnvironment)
<1>1. \A r \in Role : PasswordSlug[r] \in Slug
  BY DEF Slug
<1> QED
  BY <1>1 DEF Orderly, Listed, OwnSecrets, OwnPasswords, Credentialed, NoEnvironment, Present

(* What copying the backups credentials changes. *)
LEMMA CopyBackupsCredentialsEdit ==
  ASSUME NEW v \in EnvironmentType, NEW w, w = CopyBackupsCredentials(v)
  PROVE  /\ SameValues(v, w)
         /\ w.secrets = v.secrets /\ w.level = v.level /\ w.password = v.password
         /\ w.files = [v.files EXCEPT ![CredentialsSlug] = "credentials"]
         /\ w.sopsSource /\ Listed(w)
BY DEF CopyBackupsCredentials, AddKustomizeSource, RegisterSops, SameValues, Listed, EnvironmentType

(* What writing the database levels changes: the levels, the passwords and *)
(* their documents, listed anew when one of them is written or removed.    *)
LEMMA WriteDatabaseAccessEdit ==
  ASSUME NEW v \in EnvironmentType, NEW e \in Environment, NEW access, NEW passwords, NEW w,
         w = WriteDatabaseAccess(v, e, access, passwords)
  PROVE  LET written == PasswordsWritten(v, access, passwords)
             removed == PasswordsRemoved(v, access)
         IN
         /\ SameValues(v, w)
         /\ w.secrets = v.secrets /\ w.level = access
         /\ w.password = [r \in Role |-> CASE access[r] = "none" -> "none"
                                           [] r \in written -> e
                                           [] OTHER -> v.password[r]]
         /\ w.files = [s \in Slug |-> IF \E r \in written : s = PasswordSlug[r] THEN "password"
                                      ELSE IF \E r \in removed : s = PasswordSlug[r] THEN "absent"
                                      ELSE v.files[s]]
         /\ \/ Listed(w) /\ w.sopsSource
            \/ w.registered = v.registered /\ w.files = v.files /\ w.sopsSource = v.sopsSource
<1> DEFINE written == PasswordsWritten(v, access, passwords)
           removed == PasswordsRemoved(v, access)
           password == [r \in Role |-> CASE access[r] = "none" -> "none"
                                           [] r \in written -> e
                                           [] OTHER -> v.password[r]]
           files == [s \in Slug |-> IF \E r \in written : s = PasswordSlug[r] THEN "password"
                                      ELSE IF \E r \in removed : s = PasswordSlug[r] THEN "absent"
                                      ELSE v.files[s]]
           edited == [v EXCEPT !.level = access, !.password = password, !.files = files]
<1>1. w = IF written \cup removed = {} THEN edited ELSE AddKustomizeSource(RegisterSops(edited))
  BY DEF WriteDatabaseAccess
<1>2. v.files \in [Slug -> Content]
  BY DEF EnvironmentType
<1>3. written \cup removed = {} => files = v.files
  BY <1>2
<1> HIDE DEF password, files, written, removed
<1>4. SameValues(v, w)
  <2>1. SameValues(v, edited)
    BY DEF SameValues, EnvironmentType
  <2>2. SameValues(v, AddKustomizeSource(RegisterSops(edited)))
    BY DEF SameValues, EnvironmentType, AddKustomizeSource, RegisterSops
  <2> QED
    BY <1>1, <2>1, <2>2
<1>5. w.secrets = v.secrets /\ w.level = access /\ w.password = password /\ w.files = files
  BY <1>1 DEF EnvironmentType, AddKustomizeSource, RegisterSops
<1>6. \/ Listed(w) /\ w.sopsSource
      \/ w.registered = v.registered /\ w.files = v.files /\ w.sopsSource = v.sopsSource
  <2>1. CASE written \cup removed = {}
    BY <1>1, <1>3, <2>1 DEF EnvironmentType
  <2>2. CASE written \cup removed # {}
    <3>1. w.registered = {s \in Slug : edited.files[s] # "absent"}
      BY <1>1, <2>2 DEF EnvironmentType, AddKustomizeSource, RegisterSops
    <3>2. edited.files = files
      BY DEF EnvironmentType
    <3>3. w.sopsSource
      BY <1>1, <2>2 DEF EnvironmentType, AddKustomizeSource, RegisterSops
    <3> QED
      BY <1>5, <3>1, <3>2, <3>3 DEF Listed
  <2> QED
    BY <2>1, <2>2
<1> QED
  BY <1>4, <1>5, <1>6 DEF password, files, written, removed

(* The database's own documents have slugs of their own. *)
LEMMA OwnSlugs ==
  /\ \A r \in Role : PasswordSlug[r] \in Slug /\ PasswordSlug[r] # CredentialsSlug
  /\ \A r, q \in Role : PasswordSlug[r] = PasswordSlug[q] => r = q
  /\ CredentialsSlug \in Slug
BY DEF Slug, PasswordSlug, CredentialsSlug, Role

(* Copying the credentials keeps sops/ in order, and every secret. *)
LEMMA CopyBackupsCredentialsOrderly ==
  ASSUME NEW v \in EnvironmentType, NEW e \in Environment, v.dir, Orderly(v, e),
         NEW w, w = CopyBackupsCredentials(v)
  PROVE  /\ Orderly(w, e) /\ KeepsNames(v, w) /\ KeepsFiles({}, v, w)
         /\ w.sopsSource /\ CredentialsSlug \in w.registered
<1>1. v.files \in [Slug -> Content]
  BY DEF EnvironmentType
<1>2. /\ SameValues(v, w)
      /\ w.secrets = v.secrets /\ w.level = v.level /\ w.password = v.password
      /\ w.files = [v.files EXCEPT ![CredentialsSlug] = "credentials"]
      /\ w.sopsSource /\ Listed(w)
  BY CopyBackupsCredentialsEdit
<1>3. \A s \in Slug : w.files[s] = IF s = CredentialsSlug THEN "credentials" ELSE v.files[s]
  BY <1>1, <1>2
<1>4. v.registered \subseteq w.registered /\ CredentialsSlug \in w.registered
  BY <1>2, <1>3, OwnSlugs DEF Orderly, Listed
<1>5. OwnPasswords(w, e)
  BY <1>2, <1>3, OwnSlugs DEF Orderly, OwnPasswords, Present, ResolvedAccess
<1>6. OwnSecrets(w, e)
  BY <1>2, <1>4 DEF Orderly, OwnSecrets
<1> QED
  BY <1>2, <1>3, <1>4, <1>5, <1>6 DEF Orderly, KeepsNames, KeepsFiles, SameValues

(* So does writing the levels, whatever they were and are to be; a         *)
(* password written is there, and so is one that is needed still.          *)
LEMMA WriteDatabaseAccessOrderly ==
  ASSUME NEW v \in EnvironmentType, NEW e \in Environment, v.dir, Orderly(v, e),
         NEW access \in [Role -> Levels], NEW passwords,
         NEW w, w = WriteDatabaseAccess(v, e, access, passwords)
  PROVE  /\ Orderly(w, e) /\ SameValues(v, w)
         /\ v.secrets = w.secrets
         /\ \A s \in Slug : v.files[s] \in Key \cup {"credentials"} => w.files[s] = v.files[s]
         /\ v.sopsSource => w.sopsSource
         /\ CredentialsSlug \in v.registered => CredentialsSlug \in w.registered
         /\ w.level = access
         /\ \A r \in PasswordsWritten(v, access, passwords) : Present(w, r)
         /\ \A r \in Role : access[r] # "none" /\ Present(v, r) => Present(w, r)
<1> DEFINE written == PasswordsWritten(v, access, passwords)
           removed == PasswordsRemoved(v, access)
<1>1. /\ SameValues(v, w)
      /\ w.secrets = v.secrets /\ w.level = access
      /\ w.password = [r \in Role |-> CASE access[r] = "none" -> "none"
                                        [] r \in written -> e
                                        [] OTHER -> v.password[r]]
      /\ w.files = [s \in Slug |-> IF \E r \in written : s = PasswordSlug[r] THEN "password"
                                   ELSE IF \E r \in removed : s = PasswordSlug[r] THEN "absent"
                                   ELSE v.files[s]]
      /\ \/ Listed(w) /\ w.sopsSource
         \/ w.registered = v.registered /\ w.files = v.files /\ w.sopsSource = v.sopsSource
  BY WriteDatabaseAccessEdit
<1>2. written \subseteq Role /\ removed \subseteq Role
  BY DEF PasswordsWritten, PasswordsRemoved
<1>3. \A s \in Slug : v.files[s] \in Key \cup {"credentials"} => \A r \in Role : s # PasswordSlug[r]
  BY TreeAssumption DEF Orderly, OwnPasswords
<1>4. \A s \in Slug : (\A r \in Role : s # PasswordSlug[r]) => w.files[s] = v.files[s]
  BY <1>1, <1>2
<1>5. Listed(w)
  <2> HIDE DEF written, removed
  <2>1. CASE Listed(w)
    BY <2>1
  <2>2. CASE w.registered = v.registered /\ w.files = v.files
    BY <2>2 DEF Orderly, Listed
  <2> QED
    BY <1>1, <2>1, <2>2
<1>6. \A r \in Role : /\ r \in written => w.files[PasswordSlug[r]] = "password"
                      /\ r \in removed => w.files[PasswordSlug[r]] = "absent"
                      /\ r \notin written \cup removed
                           => w.files[PasswordSlug[r]] = v.files[PasswordSlug[r]]
  <2> HIDE DEF written, removed
  <2>1. \A r \in Role : r \in removed => r \notin written
    BY DEF written, removed, PasswordsWritten, PasswordsRemoved
  <2> QED
    BY <1>1, <1>2, <2>1, OwnSlugs
<1>7. ResolvedAccess(w, e) = access
  BY <1>1 DEF ResolvedAccess, Levels
<1>8. OwnPasswords(w, e)
  <2> SUFFICES ASSUME NEW q \in Role
               PROVE  /\ w.files[PasswordSlug[q]] \in {"absent", "password"}
                      /\ Present(w, q) => w.password[q] = e /\ access[q] # "none"
                      /\ ~Present(w, q) => w.password[q] = "none"
    BY <1>7 DEF OwnPasswords
  <2>1. /\ v.files[PasswordSlug[q]] \in {"absent", "password"}
        /\ Present(v, q) => v.password[q] = e
        /\ ~Present(v, q) => v.password[q] = "none"
    BY DEF Orderly, OwnPasswords
  <2>2. /\ access[q] = "none" => q \notin written
        /\ q \in removed <=> access[q] = "none" /\ Present(v, q)
    BY DEF PasswordsWritten, PasswordsRemoved
  <2> HIDE DEF written, removed
  <2>3. w.password[q] = CASE access[q] = "none" -> "none"
                          [] q \in written -> e
                          [] OTHER -> v.password[q]
    BY <1>1
  <2>4. CASE access[q] = "none"
    <3>1. w.password[q] = "none"
      BY <2>2, <2>3, <2>4
    <3>2. w.files[PasswordSlug[q]] = "absent"
      BY <1>6, <2>1, <2>2, <2>4 DEF Present
    <3> QED
      BY <3>1, <3>2 DEF Present
  <2>5. CASE access[q] # "none" /\ q \in written
    <3>1. w.password[q] = e
      BY <2>3, <2>5
    <3>2. w.files[PasswordSlug[q]] = "password"
      BY <1>6, <2>5
    <3> QED
      BY <2>5, <3>1, <3>2 DEF Present
  <2>6. CASE access[q] # "none" /\ q \notin written
    <3>1. w.password[q] = v.password[q]
      BY <2>3, <2>6
    <3>2. w.files[PasswordSlug[q]] = v.files[PasswordSlug[q]]
      BY <1>6, <2>2, <2>6
    <3> QED
      BY <2>1, <2>6, <3>1, <3>2 DEF Present
  <2> QED
    BY <2>4, <2>5, <2>6
<1>9. \A s \in Slug : v.files[s] # "absent" /\ (\A r \in Role : s # PasswordSlug[r])
                       => s \in w.registered
  BY <1>4, <1>5 DEF Listed
<1>10. OwnSecrets(w, e)
  BY <1>1, <1>9 DEF Orderly, OwnSecrets, Listed
<1>11. \A q \in written : Present(w, q)
  <2> HIDE DEF written, removed
  <2> QED
    BY <1>2, <1>6 DEF Present
<1>12. ASSUME NEW q \in Role, access[q] # "none", Present(v, q)
       PROVE  Present(w, q)
  <2>1. q \notin removed
    BY <1>12 DEF PasswordsRemoved
  <2> HIDE DEF written, removed
  <2> QED
    BY <1>6, <1>12, <2>1 DEF Present
<1> QED
  BY <1>1, <1>3, <1>4, <1>5, <1>8, <1>9, <1>10, <1>11, <1>12, OwnSlugs
  DEF Orderly, SameValues, Listed

(* With a password for each role the levels admit, the database is open.   *)
LEMMA WrittenPasswordsOpen ==
  ASSUME NEW e, NEW access \in [Role -> Levels], NEW w, w.level = access,
         \A r \in Role : access[r] # "none" => Present(w, r)
  PROVE  OpensWhatItAdmits(w, e)
BY DEF OpensWhatItAdmits, ResolvedAccess, Levels

(* Turning Postgres on leaves a database that finds its credentials. *)
LEMMA OpenedDatabaseOrderly ==
  ASSUME NEW v \in EnvironmentType, NEW e \in Environment, v.dir, Orderly(v, e),
         NEW config \in ConfigType,
         NEW w, w = OpenDatabase(CopyBackupsCredentials(v), e, config)
  PROVE  /\ Orderly(w, e) /\ Credentialed(w)
         /\ KeepsNames(v, w) /\ KeepsFiles({}, v, w)
         /\ SameValues(v, w)
         /\ config["ageKey"] => OpensWhatItAdmits(w, e)
<1> DEFINE x == CopyBackupsCredentials(v)
<1>1. x \in EnvironmentType /\ DefaultAccess(e) \in [Role -> Levels]
  BY CopyBackupsCredentialsType, DefaultAccessType
<1>3. /\ Orderly(x, e) /\ KeepsNames(v, x) /\ KeepsFiles({}, v, x)
      /\ x.sopsSource /\ CredentialsSlug \in x.registered
  BY CopyBackupsCredentialsOrderly
<1>4. SameValues(v, x)
  BY CopyBackupsCredentialsEdit
<1>5. w = WriteDatabaseAccess(x, e, DefaultAccess(e), config["ageKey"])
  BY DEF OpenDatabase
<1> HIDE DEF x
<1>6. x.dir
  BY <1>4 DEF SameValues
<1>7. /\ Orderly(w, e) /\ SameValues(x, w) /\ x.secrets = w.secrets
      /\ \A s \in Slug : x.files[s] \in Key \cup {"credentials"} => w.files[s] = x.files[s]
      /\ w.sopsSource /\ CredentialsSlug \in w.registered
      /\ w.level = DefaultAccess(e)
      /\ \A r \in PasswordsWritten(x, DefaultAccess(e), config["ageKey"]) : Present(w, r)
      /\ \A r \in Role : DefaultAccess(e)[r] # "none" /\ Present(x, r) => Present(w, r)
  BY <1>1, <1>3, <1>5, <1>6, WriteDatabaseAccessOrderly
<1>10. ASSUME config["ageKey"] PROVE OpensWhatItAdmits(w, e)
  <2>1. \A r \in Role : DefaultAccess(e)[r] # "none" =>
          r \in PasswordsWritten(x, DefaultAccess(e), config["ageKey"]) \/ Present(x, r)
    BY <1>10 DEF PasswordsWritten
  <2> QED
    BY <1>1, <1>7, <2>1, WrittenPasswordsOpen
<1>8. KeepsNames(v, w) /\ KeepsFiles({}, v, w)
  BY <1>3, <1>7 DEF KeepsNames, KeepsFiles
<1>9. SameValues(v, w)
  BY <1>4, <1>7 DEF SameValues
<1> QED
  BY <1>7, <1>8, <1>9, <1>10 DEF Credentialed

(* A staging copied from prod has no secrets, passwords or documents. *)
LEMMA StagingFromProdOrderly ==
  ASSUME NEW v \in EnvironmentType, v.dir, NEW w, w = StagingFromProd(v)
  PROVE  /\ Orderly(w, "staging")
         /\ w.dir /\ w.live /\ w.tag = "" /\ w.tasks = "" /\ w.domains = {}
         /\ w.postgres = v.postgres /\ w.login = v.login /\ w.groups = v.groups
         /\ w.size = v.size
<1>1. /\ w.dir = v.dir /\ w.live /\ w.tag = "" /\ w.tasks = "" /\ w.domains = {}
      /\ w.postgres = v.postgres /\ w.login = v.login /\ w.groups = v.groups
      /\ w.size = v.size
  BY DEF StagingFromProd, EnvironmentType
<1>2. /\ w.secrets = {} /\ w.registered = {}
      /\ w.files = [s \in Slug |-> "absent"] /\ w.password = [r \in Role |-> "none"]
  BY DEF StagingFromProd, EnvironmentType
<1>3. Listed(w) /\ OwnSecrets(w, "staging")
  BY <1>2 DEF Listed, OwnSecrets
<1>4. OwnPasswords(w, "staging")
  BY <1>2, OwnSlugs DEF OwnPasswords, Present
<1> QED
  BY <1>1, <1>3, <1>4 DEF Orderly

(* The Capabilities an add-capability asks for, on top of v's. *)
AskedFor(c, v, w) ==
  /\ w.postgres = (v.postgres \/ c.postgres)
  /\ w.login = (v.login \/ c.login)
  /\ (c.setGroups => w.groups = c.groups) /\ (~c.setGroups => w.groups = v.groups)
  /\ (c.size # "" => w.size = c.size) /\ (c.size = "" => w.size = v.size)

(* Custom domains are prod's alone. *)
DomainsAskedFor(c, e, v, w) ==
  /\ e = "prod" => w.domains = v.domains \cup c.domains
  /\ e # "prod" => w.domains = v.domains

(* What applyCapabilitiesToEnvironment changes: the Capabilities alone. *)
LEMMA ApplyCapabilitiesEdit ==
  ASSUME NEW v \in EnvironmentType, NEW c \in AddCommand, NEW e,
         NEW w, w = ApplyCapabilities(c, v, e)
  PROVE  /\ w.dir = v.dir /\ w.live = v.live /\ w.kind = v.kind /\ w.tag = v.tag
         /\ w.migration = v.migration /\ w.tasks = v.tasks
         /\ w.sopsSource = v.sopsSource /\ w.level = v.level /\ w.password = v.password
         /\ w.secrets = v.secrets /\ w.files = v.files /\ w.registered = v.registered
         /\ AskedFor(c, v, w)
         /\ DomainsAskedFor(c, e, v, w)
<1>1. v.postgres \in BOOLEAN /\ v.login \in BOOLEAN /\ c.postgres \in BOOLEAN /\ c.login \in BOOLEAN
  BY DEF EnvironmentType, AddCommand
<1>2. /\ w.dir = v.dir /\ w.live = v.live /\ w.kind = v.kind /\ w.tag = v.tag
      /\ w.migration = v.migration /\ w.tasks = v.tasks
      /\ w.sopsSource = v.sopsSource /\ w.level = v.level /\ w.password = v.password
      /\ w.secrets = v.secrets /\ w.files = v.files /\ w.registered = v.registered
  BY DEF ApplyCapabilities, EnvironmentType
<1>3. /\ w.postgres = (v.postgres \/ c.postgres)
      /\ w.login = (v.login \/ c.login)
  BY <1>1 DEF ApplyCapabilities, EnvironmentType
<1>4. /\ (c.setGroups => w.groups = c.groups) /\ (~c.setGroups => w.groups = v.groups)
      /\ (c.size # "" => w.size = c.size) /\ (c.size = "" => w.size = v.size)
      /\ DomainsAskedFor(c, e, v, w)
  BY DEF ApplyCapabilities, EnvironmentType, DomainsAskedFor
<1> QED
  BY <1>2, <1>3, <1>4 DEF AskedFor

(* Orderly, KeepsSecrets and KeepsOpen look at sops/ and the database      *)
(* access alone.                                                           *)
LEMMA SameDocumentsOrderly ==
  ASSUME NEW v, NEW w, NEW e, Orderly(v, e), w.dir,
         w.level = v.level, w.password = v.password,
         w.secrets = v.secrets, w.files = v.files, w.registered = v.registered
  PROVE  Orderly(w, e) /\ KeepsSecrets({}, v, w)
<1>1. Orderly(w, e)
  BY DEF Orderly, Listed, OwnSecrets, OwnPasswords, Present, ResolvedAccess
<1>2. KeepsSecrets({}, v, w)
  BY TreeAssumption DEF KeepsSecrets, KeepsNames, KeepsFiles
<1> QED
  BY <1>1, <1>2

(* An Environment whose levels and passwords stay keeps open what was. *)
LEMMA SameAccessOpen ==
  ASSUME NEW v, NEW w, NEW e, NEW key, w.level = v.level, w.password = v.password,
         \A r \in Role : w.files[PasswordSlug[r]] = v.files[PasswordSlug[r]],
         w.live => v.live, w.postgres => v.postgres
  PROVE  KeepsOpen(key, e, v, w)
BY DEF KeepsOpen, DatabaseWritten, OpensWhatItAdmits, ResolvedAccess, Present

(* An Environment that stays as it is keeps everything. *)
LEMMA UnchangedKeeps ==
  ASSUME NEW v, NEW e, NEW key
  PROVE  KeepsSecrets({}, v, v) /\ KeepsOpen(key, e, v, v)
<1>1. KeepsSecrets({}, v, v)
  BY TreeAssumption DEF KeepsSecrets, KeepsNames, KeepsFiles
<1> QED
  BY <1>1, SameAccessOpen

-----------------------------------------------------------------------------
(* What one command makes of one Environment *)

Sound(v, e) == Orderly(v, e) /\ Credentialed(v)

AllSound(t) == \A e \in Environment : Sound(t.env[e], e)

SameCapabilities(v, w) ==
  /\ w.postgres = v.postgres /\ w.login = v.login
  /\ w.groups = v.groups /\ w.size = v.size

(* Prod and staging have the same Capabilities, custom domains aside. *)
Uniform(t) ==
  t.env["prod"].dir /\ t.env["staging"].dir =>
    /\ SameCapabilities(t.env["prod"], t.env["staging"])
    /\ t.env["staging"].domains = {}

(* What app create writes for e. *)
NewEnvironment(c, e, config) ==
  IF c.postgres THEN OpenDatabase(CopyBackupsCredentials(WriteEnvironment(c, e)), e, config)
                ELSE WriteEnvironment(c, e)

(* What app create has to leave of e. *)
CreateOutcome(c, e, config, w) ==
  /\ Sound(w, e)
  /\ config["ageKey"] /\ w.postgres => OpensWhatItAdmits(w, e)
  /\ w.dir /\ w.live /\ w.tag = "" /\ w.tasks = ""
  /\ e # "prod" => w.domains = {}
  /\ w.login = c.login /\ w.groups = c.groups /\ w.size = c.size
  /\ w.postgres = c.postgres

(* It leaves that, with a database or without. *)
LEMMA CreatedEnvironment ==
  ASSUME NEW c \in CreateCommand, NEW e \in Environment, NEW config \in ConfigType
  PROVE  CreateOutcome(c, e, config, NewEnvironment(c, e, config))
<1> DEFINE w == NewEnvironment(c, e, config)
<1> DEFINE v == WriteEnvironment(c, e)
<1>1. v \in EnvironmentType
  BY NoEnvironmentType DEF WriteEnvironment, EnvironmentType, CreateCommand
<1>2. /\ v.dir /\ v.live /\ v.tag = "" /\ v.tasks = ""
      /\ e # "prod" => v.domains = {}
      /\ v.login = c.login /\ v.groups = c.groups /\ v.size = c.size
      /\ v.postgres = c.postgres
  BY DEF WriteEnvironment, NoEnvironment
<1>3. Orderly(v, e)
  <2>1. /\ v.level = NoEnvironment.level /\ v.password = NoEnvironment.password
        /\ v.secrets = NoEnvironment.secrets /\ v.files = NoEnvironment.files
        /\ v.registered = NoEnvironment.registered
    BY DEF WriteEnvironment, NoEnvironment
  <2> HIDE DEF v
  <2> QED
    BY <1>2, <2>1, NoEnvironmentOrderly, SameDocumentsOrderly
<1> HIDE DEF v, w
<1>4. ASSUME c.postgres PROVE CreateOutcome(c, e, config, w)
  <2>1. w = OpenDatabase(CopyBackupsCredentials(v), e, config)
    BY <1>4 DEF v, w, NewEnvironment
  <2>2. /\ Sound(w, e) /\ SameValues(v, w)
        /\ config["ageKey"] => OpensWhatItAdmits(w, e)
    BY <1>1, <1>2, <1>3, <2>1, OpenedDatabaseOrderly DEF Sound
  <2> QED
    BY <1>2, <2>2 DEF SameValues, CreateOutcome
<1>5. ASSUME ~c.postgres PROVE CreateOutcome(c, e, config, w)
  <2>1. w = v
    BY <1>5 DEF v, w, NewEnvironment
  <2> QED
    BY <1>2, <1>3, <1>5, <2>1 DEF Sound, Credentialed, CreateOutcome
<1> QED
  BY <1>4, <1>5 DEF w

(* What add-capability has to make of the Environment e, from v to w: a     *)
(* new staging takes after prod; an Environment that is there gains what   *)
(* is asked for; one that is not stays away.                               *)
AddOutcome(c, t, e, v, w) ==
  /\ KeepsOpen(t.config["ageKey"], e, v, w)
  /\ e = "staging" /\ c.staging =>
       /\ ~v.dir /\ Sound(w, e)
       /\ w.dir /\ w.live /\ w.tag = "" /\ w.tasks = "" /\ w.domains = {}
       /\ AskedFor(c, t.env["prod"], w)
  /\ ~(e = "staging" /\ c.staging) /\ v.dir =>
       /\ Sound(w, e) /\ KeepsSecrets({}, v, w)
       /\ w.dir /\ w.live = v.live /\ w.tag = v.tag /\ w.tasks = v.tasks
       /\ DomainsAskedFor(c, e, v, w) /\ AskedFor(c, v, w)
  /\ ~(e = "staging" /\ c.staging) /\ ~v.dir => w = v

(* It makes that: the three editors it chains keep what each other left. *)
LEMMA AddedEnvironment ==
  ASSUME NEW c \in AddCommand, NEW t \in Tree, AddAllowed(c, t), AllSound(t), Uniform(t),
         NEW e \in Environment
  PROVE  AddOutcome(c, t, e, t.env[e], AddEdits(c, t).env[e])
<1> DEFINE v == t.env[e]
           w == AddEdits(c, t).env[e]
<1> DEFINE edited(d) == ApplyCapabilities(c, t.env[d], d)
           database(x, d) == OpenDatabase(CopyBackupsCredentials(x), d, t.config)
           existing(d) == IF c.postgres THEN database(edited(d), d) ELSE edited(d)
           staging == StagingFromProd(edited("prod"))
           added == IF PostgresAfter(c, t) THEN database(staging, "staging") ELSE staging
<1>1. ASSUME NEW d \in Environment
      PROVE  /\ t.env[d] \in EnvironmentType /\ t.config \in ConfigType
             /\ edited(d) \in EnvironmentType
  BY TreeFields, ApplyCapabilitiesType
<1>0. ASSUME NEW d \in Environment, NEW x, x = edited(d)
      PROVE  /\ x.dir = t.env[d].dir /\ x.live = t.env[d].live /\ x.tag = t.env[d].tag
             /\ x.tasks = t.env[d].tasks /\ x.sopsSource = t.env[d].sopsSource
             /\ DomainsAskedFor(c, d, t.env[d], x)
             /\ x.secrets = t.env[d].secrets /\ x.files = t.env[d].files
             /\ x.registered = t.env[d].registered
             /\ x.level = t.env[d].level /\ x.password = t.env[d].password
             /\ AskedFor(c, t.env[d], x)
  <2>1. PICK y \in EnvironmentType : y = t.env[d]
    BY <1>1
  <2>2. x = ApplyCapabilities(c, y, d)
    BY <1>0, <2>1
  <2> QED
    BY <2>1, <2>2, ApplyCapabilitiesEdit
<1>2. w = IF e = "staging" /\ c.staging THEN added
          ELSE IF e \in Existing(t) THEN existing(e) ELSE v
  <2>1. AddEdits(c, t).env =
          [d \in Environment |-> IF d = "staging" /\ c.staging THEN added
                                 ELSE IF d \in Existing(t) THEN existing(d) ELSE t.env[d]]
    BY DEF AddEdits, Tree
  <2> HIDE DEF added, existing
  <2> QED
    BY <2>1
<1>3. t.env["prod"].dir /\ (e \in Existing(t) <=> v.dir)
  BY DEF AddAllowed, Existing, Environment
<1>4. ASSUME e = "staging", c.staging
      PROVE  /\ ~v.dir /\ Sound(w, e)
             /\ w.dir /\ w.live /\ w.tag = "" /\ w.tasks = "" /\ w.domains = {}
             /\ AskedFor(c, t.env["prod"], w)
             /\ KeepsOpen(t.config["ageKey"], e, v, w)
  <2>1. edited("prod") \in EnvironmentType /\ edited("prod").dir
        /\ AskedFor(c, t.env["prod"], edited("prod"))
    BY <1>0, <1>1, <1>3 DEF Environment
  <2>2. ~v.dir
    BY <1>4 DEF AddAllowed, CapabilitiesAbsent
  <2> HIDE DEF edited
  <2>3. /\ staging \in EnvironmentType /\ Orderly(staging, "staging")
        /\ staging.dir /\ staging.live /\ staging.tag = "" /\ staging.tasks = ""
        /\ staging.domains = {} /\ AskedFor(c, t.env["prod"], staging)
    BY <2>1, StagingFromProdType, StagingFromProdOrderly DEF AskedFor
  <2> HIDE DEF staging
  <2>4. CASE PostgresAfter(c, t)
    <3>1. w = OpenDatabase(CopyBackupsCredentials(staging), "staging", t.config)
      BY <1>2, <1>4, <2>4
    <3>2. /\ Sound(w, e) /\ SameValues(staging, w)
          /\ t.config["ageKey"] => OpensWhatItAdmits(w, e)
      BY <1>1, <1>4, <2>3, <3>1, OpenedDatabaseOrderly DEF Sound
    <3> QED
      BY <2>2, <2>3, <3>2 DEF SameValues, AskedFor, KeepsOpen
  <2>5. CASE ~PostgresAfter(c, t)
    <3>1. w = staging
      BY <1>2, <1>4, <2>5
    <3>2. ~w.postgres
      BY <2>3, <2>5, <3>1 DEF AskedFor, PostgresAfter
    <3> QED
      BY <1>4, <2>2, <2>3, <3>1, <3>2 DEF Sound, Credentialed, KeepsOpen
  <2> QED
    BY <2>4, <2>5
<1>5. ASSUME ~(e = "staging" /\ c.staging), v.dir
      PROVE  /\ Sound(w, e) /\ KeepsSecrets({}, v, w)
             /\ w.dir /\ w.live = v.live /\ w.tag = v.tag /\ w.tasks = v.tasks
             /\ DomainsAskedFor(c, e, v, w)
             /\ AskedFor(c, v, w)
             /\ KeepsOpen(t.config["ageKey"], e, v, w)
  <2> DEFINE x == edited(e)
  <2>1. /\ x \in EnvironmentType /\ Sound(v, e)
        /\ x.dir /\ x.live = v.live /\ x.tag = v.tag /\ x.tasks = v.tasks
        /\ DomainsAskedFor(c, e, v, x)
        /\ x.secrets = v.secrets /\ x.files = v.files /\ x.registered = v.registered
        /\ x.level = v.level /\ x.password = v.password /\ x.sopsSource = v.sopsSource
        /\ AskedFor(c, v, x)
    BY <1>0, <1>1, <1>5 DEF AllSound
  <2>2. w = existing(e)
    BY <1>2, <1>3, <1>5
  <2> HIDE DEF edited
  <2>3. Orderly(x, e) /\ KeepsSecrets({}, v, x)
    BY <1>5, <2>1, SameDocumentsOrderly DEF Sound
  <2> HIDE DEF x
  <2>4. CASE c.postgres
    <3>1. w = OpenDatabase(CopyBackupsCredentials(x), e, t.config)
      BY <2>2, <2>4 DEF x
    <3>2. /\ Sound(w, e) /\ SameValues(x, w)
          /\ KeepsNames(x, w) /\ KeepsFiles({}, x, w)
          /\ t.config["ageKey"] => OpensWhatItAdmits(w, e)
      BY <1>1, <2>1, <2>3, <3>1, OpenedDatabaseOrderly DEF Sound
    <3>3. ~v.postgres
      BY <1>3, <1>5, <2>4 DEF AddAllowed, CapabilitiesAbsent, Uniform, SameCapabilities, Environment
    <3>4. w.postgres
      BY <2>1, <2>4, <3>2 DEF SameValues, AskedFor
    <3>5. KeepsSecrets({}, v, w)
      BY <2>1, <3>2, <3>3, <3>4 DEF KeepsSecrets, KeepsNames, KeepsFiles
    <3> QED
      BY <2>1, <3>2, <3>5 DEF SameValues, AskedFor, DomainsAskedFor, KeepsOpen
  <2>5. CASE ~c.postgres
    <3>1. w = x
      BY <2>2, <2>5 DEF x
    <3>2. Credentialed(x)
      BY <2>1, <2>5 DEF Sound, Credentialed, AskedFor
    <3>3. KeepsOpen(t.config["ageKey"], e, v, x)
      BY <2>1, <2>5, SameAccessOpen DEF AskedFor
    <3> QED
      BY <2>1, <2>3, <3>1, <3>2, <3>3 DEF Sound
  <2> QED
    BY <2>4, <2>5
<1> HIDE DEF v, w
<1>6. ASSUME ~(e = "staging" /\ c.staging), ~v.dir
      PROVE  w = v /\ KeepsOpen(t.config["ageKey"], e, v, w)
  <2>1. w = v
    BY <1>2, <1>3, <1>6
  <2> QED
    BY <2>1, SameAccessOpen
<1>7. AddOutcome(c, t, e, v, w)
  BY <1>4, <1>5, <1>6 DEF AddOutcome
<1> QED
  BY <1>7 DEF v, w

(* application.yaml lies in the directory. *)
LEMMA LiveHasDirectory ==
  ASSUME NEW v, NEW e, Orderly(v, e), v.live
  PROVE  v.dir
<1>1. ~NoEnvironment.live
  BY DEF NoEnvironment
<1> QED
  BY <1>1 DEF Orderly

(* delete takes application.yaml away, and nothing of sops/ or values.yaml. *)
LEMMA DeletedEnvironment ==
  ASSUME NEW t \in Tree, AllSound(t), NEW e \in Environment,
         NEW v, v = t.env[e], NEW w, w = DeleteResult(t).env[e]
  PROVE  /\ Sound(w, e) /\ KeepsSecrets({}, v, w) /\ ~w.live
         /\ w.dir = v.dir /\ w.tag = v.tag /\ w.tasks = v.tasks
         /\ w.postgres = v.postgres /\ w.login = v.login /\ w.groups = v.groups
         /\ w.size = v.size /\ w.domains = v.domains
<1>1. v \in EnvironmentType /\ Sound(v, e)
  BY DEF Tree, AllSound
<1>2. w = IF v.live THEN [v EXCEPT !.live = FALSE, !.sopsSource = FALSE] ELSE v
  BY DEF DeleteResult, Tree
<1>3. CASE v.live
  <2>1. /\ ~w.live
        /\ w.dir = v.dir /\ w.tag = v.tag /\ w.tasks = v.tasks
        /\ w.postgres = v.postgres /\ w.login = v.login /\ w.groups = v.groups
        /\ w.size = v.size /\ w.domains = v.domains
        /\ w.level = v.level /\ w.password = v.password
        /\ w.secrets = v.secrets /\ w.files = v.files /\ w.registered = v.registered
    <3>1. w = [v EXCEPT !.live = FALSE, !.sopsSource = FALSE]
      BY <1>2, <1>3
    <3> QED
      BY <1>1, <3>1 DEF EnvironmentType
  <2>2. w.dir
    BY <1>1, <1>3, <2>1, LiveHasDirectory DEF Sound
  <2>3. Orderly(w, e) /\ KeepsSecrets({}, v, w)
    BY <1>1, <2>1, <2>2, SameDocumentsOrderly DEF Sound
  <2> QED
    BY <2>1, <2>3 DEF Sound, Credentialed
<1>4. CASE ~v.live
  BY <1>1, <1>2, <1>4, UnchangedKeeps
<1> QED
  BY <1>3, <1>4

(* The KEYs a command writes into each Environment. *)
KeysWritten(c) ==
  [e \in Environment |-> IF c.op = "secret" /\ c.environment = e THEN c.keys ELSE {}]

NoKeys == [e \in Environment |-> {}]

(* set-secret: the KEYs it may write are never a password's document. *)
LEMMA SecretsEnvironment ==
  ASSUME NEW c \in SecretCommand, NEW t \in Tree, SetSecretsAllowed(c, t), AllSound(t),
         NEW e \in Environment, NEW v, v = t.env[e], NEW w, w = WriteSecrets(c, t).env[e]
  PROVE  /\ Sound(w, e) /\ KeepsSecrets(KeysWritten(c)[e], v, w) /\ SameValues(v, w)
         /\ KeepsOpen(t.config["ageKey"], e, v, w)
<1>1. v \in EnvironmentType /\ Sound(v, e)
  BY DEF Tree, AllSound
<1>2. CASE e = c.environment
  <2> DEFINE slugs == {SlugOf[k] : k \in c.keys}
             files == [s \in Slug |-> IF s \in slugs
                                      THEN CHOOSE k \in c.keys : SlugOf[k] = s
                                      ELSE v.files[s]]
             secrets == v.secrets \cup {<<e, s>> : s \in slugs}
             edited == [v EXCEPT !.files = files, !.secrets = secrets]
  <2>1. w = AddKustomizeSource(RegisterSops(edited))
    <3>1. t.env[c.environment] = v
      BY <1>2
    <3>2. WriteSecrets(c, t) =
            [t EXCEPT !.env[c.environment] = AddKustomizeSource(RegisterSops(edited))]
      BY <1>2, <3>1 DEF WriteSecrets
    <3> HIDE DEF edited
    <3> QED
      BY <1>2, <3>2 DEF Tree
  <2>2. v.dir /\ v.live /\ c.keys \subseteq Key /\ \A k \in c.keys : ValidSecretKey(k)
    BY <1>2 DEF SetSecretsAllowed, SecretCommand
  <2>3. slugs \subseteq Slug /\ \A s \in slugs : \A r \in Role : s # PasswordSlug[r]
    BY <2>2 DEF Slug, ValidSecretKey
  <2>4. /\ \A s \in slugs : files[s] \in Key /\ files[s] \in {k \in c.keys : SlugOf[k] = s}
        /\ \A s \in Slug \ slugs : files[s] = v.files[s]
    <3>1. ASSUME NEW s \in slugs
          PROVE  (CHOOSE k \in c.keys : SlugOf[k] = s) \in {k \in c.keys : SlugOf[k] = s}
      <4>1. \E k \in c.keys : SlugOf[k] = s
        OBVIOUS
      <4> QED
        BY <4>1
    <3> QED
      BY <2>2, <2>3, <3>1
  <2> HIDE DEF files, secrets
  <2>5. SameValues(v, w)
    BY <1>1, <2>1 DEF SameValues, EnvironmentType, AddKustomizeSource, RegisterSops
  <2>6. /\ w.files = files /\ w.secrets = secrets /\ w.sopsSource
        /\ w.level = v.level /\ w.password = v.password
    BY <1>1, <2>1 DEF EnvironmentType, AddKustomizeSource, RegisterSops
  <2>7. Listed(w)
    <3>1. w.registered = {s \in Slug : edited.files[s] # "absent"}
      BY <1>1, <2>1 DEF EnvironmentType, AddKustomizeSource, RegisterSops
    <3>2. edited.files = files
      BY <1>1 DEF EnvironmentType
    <3> QED
      BY <2>6, <3>1, <3>2 DEF Listed
  <2> HIDE DEF slugs, edited
  <2>8. slugs \subseteq w.registered /\ v.registered \subseteq w.registered
    BY <1>1, <2>3, <2>4, <2>6, <2>7, TreeAssumption DEF Sound, Orderly, Listed
  <2>9. OwnSecrets(w, e)
    <3> SUFFICES ASSUME NEW name \in w.secrets
                 PROVE  /\ name[1] = e /\ name[2] \in w.registered
                        /\ \A r \in Role : name[2] # PasswordSlug[r]
      BY DEF OwnSecrets
    <3>1. CASE name \in v.secrets
      BY <1>1, <2>8, <3>1 DEF Sound, Orderly, OwnSecrets
    <3>2. ASSUME NEW s \in slugs, name = <<e, s>>
          PROVE  /\ name[1] = e /\ name[2] \in w.registered
                 /\ \A r \in Role : name[2] # PasswordSlug[r]
      BY <2>3, <2>8, <3>2
    <3> QED
      BY <2>6, <3>1, <3>2 DEF secrets
  <2>10. \A r \in Role : w.files[PasswordSlug[r]] = v.files[PasswordSlug[r]]
    BY <2>3, <2>4, <2>6, OwnSlugs
  <2>11. OwnPasswords(w, e)
    BY <1>1, <2>6, <2>10 DEF Sound, Orderly, OwnPasswords, Present, ResolvedAccess
  <2>12. Credentialed(w)
    BY <1>1, <2>5, <2>6, <2>8 DEF Sound, Credentialed, SameValues
  <2>13. KeepsSecrets(KeysWritten(c)[e], v, w)
    <3>1. KeepsNames(v, w)
      BY <2>6 DEF secrets, KeepsNames
    <3>2. KeysWritten(c)[e] = c.keys
      BY <1>2 DEF KeysWritten, SecretCommand
    <3>3. KeepsFiles(c.keys, v, w)
      BY <2>4, <2>6 DEF KeepsFiles
    <3>4. v.files[CredentialsSlug] \in Key => w.files[CredentialsSlug] # "credentials"
      BY <2>4, <2>6, OwnSlugs, TreeAssumption
    <3> QED
      BY <3>1, <3>2, <3>3, <3>4 DEF KeepsSecrets
  <2>14. KeepsOpen(t.config["ageKey"], e, v, w)
    BY <2>5, <2>6, <2>10, SameAccessOpen DEF SameValues
  <2> QED
    BY <2>2, <2>5, <2>7, <2>9, <2>11, <2>12, <2>13, <2>14 DEF Sound, Orderly, SameValues
<1>3. CASE e # c.environment
  <2>1. w = v
    BY <1>3 DEF WriteSecrets, Tree
  <2>2. KeysWritten(c)[e] = {}
    BY <1>3 DEF KeysWritten
  <2> QED
    BY <1>1, <2>1, <2>2, UnchangedKeeps DEF SameValues
<1> QED
  BY <1>2, <1>3

(* set-access. *)
LEMMA AccessEnvironment ==
  ASSUME NEW c \in AccessCommand, NEW t \in Tree, SetAccessAllowed(c, t), AllSound(t),
         NEW e \in Environment, NEW v, v = t.env[e], NEW w, w = WriteAccess(c, t).env[e]
  PROVE  /\ Sound(w, e) /\ KeepsSecrets({}, v, w) /\ SameValues(v, w)
         /\ KeepsOpen(t.config["ageKey"], e, v, w)
<1>1. v \in EnvironmentType /\ Sound(v, e)
  BY DEF Tree, AllSound
<1>2. CASE e = c.environment
  <2>1. AccessAsked(c, t) \in [Role -> Levels]
    BY AccessAskedType
  <2>2. PICK passwords :
          /\ w = WriteDatabaseAccess(v, e, AccessAsked(c, t), passwords)
          /\ \A r \in Role : AccessAsked(c, t)[r] # "none" =>
               r \in PasswordsWritten(v, AccessAsked(c, t), passwords) \/ Present(v, r)
    <3>1. \A r \in Role : AccessAsked(c, t)[r] # "none" =>
            r \in PasswordsWritten(v, AccessAsked(c, t), TRUE) \/ Present(v, r)
      BY DEF PasswordsWritten
    <3>2. w = WriteDatabaseAccess(v, e, AccessAsked(c, t), TRUE)
      BY <1>2 DEF WriteAccess, Tree
    <3> QED
      BY <3>1, <3>2
  <2>3. v.live /\ v.dir
    BY <1>1, <1>2, LiveHasDirectory DEF Sound, SetAccessAllowed
  <2>4. /\ Orderly(w, e) /\ SameValues(v, w)
        /\ v.secrets = w.secrets
        /\ \A s \in Slug : v.files[s] \in Key \cup {"credentials"} => w.files[s] = v.files[s]
        /\ v.sopsSource => w.sopsSource
        /\ CredentialsSlug \in v.registered => CredentialsSlug \in w.registered
        /\ w.level = AccessAsked(c, t)
        /\ \A r \in PasswordsWritten(v, AccessAsked(c, t), passwords) : Present(w, r)
        /\ \A r \in Role : AccessAsked(c, t)[r] # "none" /\ Present(v, r) => Present(w, r)
    BY <1>1, <2>1, <2>2, <2>3, WriteDatabaseAccessOrderly DEF Sound
  <2>5. KeepsSecrets({}, v, w)
    BY <2>4, OwnSlugs, TreeAssumption DEF KeepsSecrets, KeepsNames, KeepsFiles
  <2>6. OpensWhatItAdmits(w, e)
    BY <2>1, <2>2, <2>4, WrittenPasswordsOpen
  <2> QED
    BY <1>1, <2>4, <2>5, <2>6 DEF Sound, Credentialed, SameValues, KeepsOpen
<1>3. CASE e # c.environment
  <2>1. w = v
    BY <1>3 DEF WriteAccess, Tree
  <2> QED
    BY <1>1, <2>1, UnchangedKeeps DEF SameValues
<1> QED
  BY <1>2, <1>3

(* A deploy writes the tag, its tasks and the migration of its target. *)
LEMMA DeployedEnvironment ==
  ASSUME NEW c \in DeployCommand, NEW t \in Tree, SetImageTagAllowed(c, t), AllSound(t),
         NEW e \in Environment, NEW v, v = t.env[e], NEW w, w = SetImageTagResult(c, t).env[e]
  PROVE  /\ Sound(w, e) /\ KeepsSecrets({}, v, w)
         /\ KeepsOpen(t.config["ageKey"], e, v, w)
         /\ w.dir = v.dir /\ w.live = v.live /\ w.sopsSource = v.sopsSource
         /\ w.postgres = v.postgres /\ w.login = v.login /\ w.groups = v.groups
         /\ w.size = v.size /\ w.domains = v.domains
         /\ e = Target(c, t) => w.tag = c.tag /\ w.tasks = c.tasks
         /\ e # Target(c, t) => w = v
<1>1. v \in EnvironmentType /\ Sound(v, e)
  BY DEF Tree, AllSound
<1>2. CASE e = Target(c, t)
  <2> DEFINE migration == IF c.migration = "keep" THEN v.migration ELSE c.migration
  <2>1. w = [v EXCEPT !.tag = c.tag, !.migration = migration, !.tasks = c.tasks]
    BY <1>2 DEF SetImageTagResult, Tree
  <2> HIDE DEF migration
  <2>2. /\ w.dir = v.dir /\ w.live = v.live /\ w.sopsSource = v.sopsSource
        /\ w.postgres = v.postgres /\ w.login = v.login /\ w.groups = v.groups
        /\ w.size = v.size /\ w.domains = v.domains
        /\ w.tag = c.tag /\ w.tasks = c.tasks
        /\ w.level = v.level /\ w.password = v.password
        /\ w.secrets = v.secrets /\ w.files = v.files /\ w.registered = v.registered
    BY <1>1, <2>1 DEF EnvironmentType
  <2>3. w.dir
    BY <1>1, <1>2, <2>2, LiveHasDirectory DEF Sound, SetImageTagAllowed
  <2>4. Orderly(w, e) /\ KeepsSecrets({}, v, w)
    BY <1>1, <2>2, <2>3, SameDocumentsOrderly DEF Sound
  <2>5. KeepsOpen(t.config["ageKey"], e, v, w)
    BY <2>2, SameAccessOpen
  <2> QED
    BY <1>1, <1>2, <2>2, <2>4, <2>5 DEF Sound, Credentialed
<1>3. CASE e # Target(c, t)
  <2>1. w = v
    BY <1>3 DEF SetImageTagResult, Tree
  <2> QED
    BY <1>1, <1>3, <2>1, UnchangedKeeps
<1> QED
  BY <1>2, <1>3

-----------------------------------------------------------------------------
(* What the commands keep of the tree *)

(* PlatformLedger's PreviewsFollowStaging, of any tree. *)
Following(t) ==
  t.previews.present =>
    /\ t.env["staging"].live
    /\ Complete(t.binding)
    /\ t.previews.sopsSource = t.env["staging"].sopsSource

(* A database that has been deployed stays one. *)
KeepsDatabase(v, w) ==
  v.dir /\ v.tag # "" /\ v.postgres => w.dir /\ w.tag # "" /\ w.postgres

(* The inductive invariant of main. *)
WellKept(t) == AllSound(t) /\ Following(t) /\ Uniform(t)

(* u keeps the secrets and the databases of t, but for the KEYs written.   *)
Extends(keys, t, u) ==
  \A e \in Environment :
    KeepsSecrets(keys[e], t.env[e], u.env[e]) /\ KeepsDatabase(t.env[e], u.env[e])

StaysOpen(t, u) ==
  \A e \in Environment : KeepsOpen(t.config["ageKey"], e, t.env[e], u.env[e])

(* Editing the Environments leaves the rest, with or without the previews. *)
LEMMA EditedTree ==
  ASSUME NEW t \in Tree, NEW env, NEW u, u = [t EXCEPT !.env = env]
  PROVE  /\ u.env = env /\ u.binding = t.binding /\ u.previews = t.previews
         /\ \A r \in {RefreshPreviews(t, u), WritePreviews(u)} :
              r.env = env /\ r.binding = t.binding /\ r.config = t.config
         /\ WritePreviews(u).previews.present
         /\ WritePreviews(u).previews.sopsSource = env["staging"].sopsSource
<1>1. u.env = env /\ u.binding = t.binding /\ u.previews = t.previews
  BY DEF Tree
<1>2. /\ WritePreviews(u).env = env /\ WritePreviews(u).binding = t.binding
      /\ WritePreviews(u).config = t.config
      /\ WritePreviews(u).previews.present
      /\ WritePreviews(u).previews.sopsSource = env["staging"].sopsSource
  BY DEF Tree, WritePreviews
<1>3. u.config = t.config
  BY DEF Tree
<1>4. RefreshPreviews(t, u) \in {WritePreviews(u), u}
  BY DEF RefreshPreviews
<1> QED
  BY <1>1, <1>2, <1>3, <1>4

(* refreshPreviews puts the ApplicationSet right after any edit that keeps *)
(* staging's application.yaml.                                             *)
LEMMA RefreshFollows ==
  ASSUME NEW t \in Tree, NEW env, NEW u, u = [t EXCEPT !.env = env],
         Following(t), RefreshAllowed(t, u),
         t.env["staging"].live => env["staging"].live
  PROVE  Following(RefreshPreviews(t, u))
<1>1. u.env = env /\ u.binding = t.binding /\ u.previews = t.previews
  BY EditedTree
<1>2. CASE StagingApplicationWritten(t, u) /\ u.previews.present
  <2>1. RefreshPreviews(t, u) = WritePreviews(u) /\ PreviewsRenderable(u)
    BY <1>2 DEF RefreshPreviews, RefreshAllowed
  <2> QED
    BY <1>1, <2>1, EditedTree DEF Following, PreviewsRenderable
<1>3. CASE ~(StagingApplicationWritten(t, u) /\ u.previews.present)
  <2>1. RefreshPreviews(t, u) = u
    BY <1>3 DEF RefreshPreviews
  <2> QED
    BY <1>1, <1>3, <2>1 DEF Following, StagingApplicationWritten
<1> QED
  BY <1>2, <1>3

(* An Environment without a directory holds nothing to lose. *)
LEMMA NothingToKeep ==
  ASSUME NEW v, NEW w, NEW e, Orderly(v, e), ~v.dir
  PROVE  KeepsSecrets({}, v, w) /\ KeepsDatabase(v, w)
<1>1. NoEnvironment.secrets = {} /\ \A s \in Slug : NoEnvironment.files[s] = "absent"
  BY DEF NoEnvironment
<1>2. v.secrets = {} /\ \A s \in Slug : v.files[s] \notin Key
  BY <1>1, TreeAssumption DEF Orderly
<1> QED
  BY <1>2, OwnSlugs DEF KeepsSecrets, KeepsNames, KeepsFiles, KeepsDatabase

(* Each command keeps the tree in order.  create starts it afresh. *)
LEMMA CreateKeeps ==
  ASSUME NEW c \in CreateCommand, NEW t \in Tree, CreateAllowed(c, t),
         NEW r, r = CreateResult(c, t)
  PROVE  /\ WellKept(r)
         /\ r.env["prod"].live
         /\ StaysOpen(t, r)
         /\ \A e \in Environment : r.env[e].tag = ""
<1> DEFINE environment(e) ==
             IF e \notin Created(c) THEN NoEnvironment
             ELSE IF c.postgres
                  THEN OpenDatabase(CopyBackupsCredentials(WriteEnvironment(c, e)), e, t.config)
                  ELSE WriteEnvironment(c, e)
           u == [ config |-> t.config, env |-> [e \in Environment |-> environment(e)],
                  binding |-> c.repository, previews |-> NoPreviews ]
<1>1. r = IF c.previews THEN WritePreviews(u) ELSE u
  BY DEF CreateResult
<1>2. ASSUME NEW e \in Environment, e \in Created(c)
      PROVE  CreateOutcome(c, e, t.config, environment(e))
  <2>1. environment(e) = NewEnvironment(c, e, t.config)
    BY <1>2 DEF NewEnvironment
  <2> HIDE DEF environment
  <2> QED
    BY <2>1, TreeFields, CreatedEnvironment
<1>3. ASSUME NEW e \in Environment, e \notin Created(c)
      PROVE  environment(e) = NoEnvironment
  BY <1>3
<1> HIDE DEF environment
<1>4. /\ \A e \in Environment : u.env[e] = environment(e)
      /\ u.binding = c.repository /\ ~u.previews.present
  BY DEF NoPreviews
<1>5. /\ r.env = u.env /\ r.binding = u.binding
      /\ ~c.previews => r.previews = u.previews
      /\ c.previews => r.previews.sopsSource = u.env["staging"].sopsSource
  BY <1>1 DEF WritePreviews
<1> HIDE DEF u
<1>6. AllSound(r)
  BY <1>2, <1>3, <1>4, <1>5, NoEnvironmentOrderly DEF AllSound, Sound, CreateOutcome
<1>7. Following(r)
  <2>1. c.previews => "staging" \in Created(c) /\ Complete(c.repository)
    BY DEF CreateAllowed, Created, Environment
  <2> QED
    BY <1>2, <1>4, <1>5, <2>1 DEF Following, Environment, CreateOutcome
<1>8. Uniform(r)
  <2>1. ~NoEnvironment.dir
    BY DEF NoEnvironment
  <2> QED
    BY <1>2, <1>3, <1>4, <1>5, <2>1 DEF Uniform, SameCapabilities, Environment, CreateOutcome
<1>9. r.env["prod"].live
  <2>1. "prod" \in Created(c)
    BY DEF Created, Environment
  <2> QED
    BY <1>2, <1>4, <1>5, <2>1 DEF Environment, CreateOutcome
<1>10. \A e \in Environment : r.env[e].tag = ""
  <2>1. NoEnvironment.tag = ""
    BY DEF NoEnvironment
  <2> QED
    BY <1>2, <1>3, <1>4, <1>5, <2>1 DEF CreateOutcome
<1>11. StaysOpen(t, r)
  <2>1. ~NoEnvironment.live
    BY DEF NoEnvironment
  <2> QED
    BY <1>2, <1>3, <1>4, <1>5, <2>1 DEF StaysOpen, KeepsOpen, CreateOutcome
<1> QED
  BY <1>6, <1>7, <1>8, <1>9, <1>10, <1>11 DEF WellKept

(* add-capability keeps both Environments alike, and the previews after     *)
(* staging.                                                                *)
LEMMA AddKeeps ==
  ASSUME NEW c \in AddCommand, NEW t \in Tree, AddAllowed(c, t), WellKept(t),
         NEW r, r = AddResult(c, t)
  PROVE  /\ WellKept(r) /\ Extends(NoKeys, t, r) /\ StaysOpen(t, r)
         /\ r.env = AddEdits(c, t).env
<1>1. PICK env : AddEdits(c, t) = [t EXCEPT !.env = env]
  BY DEF AddEdits
<1>2. r.env = env /\ AddEdits(c, t).env = env /\ r.binding = t.binding
  BY <1>1, EditedTree DEF AddResult
<1>3. /\ "prod" \in Environment /\ "staging" \in Environment /\ t.env["prod"].dir
      /\ \A e \in Environment : Sound(t.env[e], e)
  BY DEF Environment, AddAllowed, WellKept, AllSound
<1>0. ASSUME NEW e \in Environment
      PROVE  AddOutcome(c, t, e, t.env[e], r.env[e])
  BY <1>2, AddedEnvironment DEF WellKept
<1>4. ASSUME NEW e \in Environment
      PROVE  /\ Sound(r.env[e], e)
             /\ KeepsSecrets({}, t.env[e], r.env[e]) /\ KeepsDatabase(t.env[e], r.env[e])
             /\ t.env[e].live => r.env[e].live
  <2>1. CASE e = "staging" /\ c.staging
    <3>1. ~t.env[e].dir /\ Sound(r.env[e], e) /\ r.env[e].live
      BY <1>0, <2>1 DEF AddOutcome
    <3> QED
      BY <1>3, <3>1, NothingToKeep DEF Sound
  <2>2. CASE ~(e = "staging" /\ c.staging) /\ t.env[e].dir
    <3>1. /\ Sound(r.env[e], e) /\ KeepsSecrets({}, t.env[e], r.env[e])
          /\ r.env[e].dir /\ r.env[e].live = t.env[e].live /\ r.env[e].tag = t.env[e].tag
          /\ AskedFor(c, t.env[e], r.env[e])
      BY <1>0, <2>2 DEF AddOutcome
    <3> QED
      BY <3>1 DEF KeepsDatabase, AskedFor
  <2>3. CASE ~(e = "staging" /\ c.staging) /\ ~t.env[e].dir
    <3>1. r.env[e] = t.env[e]
      BY <1>0, <2>3 DEF AddOutcome
    <3>2. Sound(t.env[e], e)
      BY <1>3
    <3>3. KeepsSecrets({}, t.env[e], r.env[e]) /\ KeepsDatabase(t.env[e], r.env[e])
      BY <2>3, <3>2, NothingToKeep DEF Sound
    <3> QED
      BY <3>1, <3>2, <3>3
  <2> QED
    BY <2>1, <2>2, <2>3
<1>5. Following(r)
  <2>1. CASE c.previews
    <3>1. r = WritePreviews(AddEdits(c, t)) /\ Complete(t.binding)
      BY <2>1 DEF AddResult, AddAllowed
    <3>2. r.env["staging"].live
      <4>1. CASE c.staging
        BY <1>0, <1>3, <4>1 DEF AddOutcome
      <4>2. CASE ~c.staging
        BY <1>3, <1>4, <2>1, <4>2 DEF AddAllowed
      <4> QED
        BY <4>1, <4>2
    <3> QED
      BY <1>1, <1>2, <3>1, <3>2, EditedTree DEF Following
  <2>2. CASE ~c.previews
    <3>1. r = RefreshPreviews(t, AddEdits(c, t)) /\ RefreshAllowed(t, AddEdits(c, t))
      BY <2>2 DEF AddResult, AddAllowed
    <3>2. t.env["staging"].live => env["staging"].live
      BY <1>2, <1>3, <1>4
    <3> QED
      BY <1>1, <3>1, <3>2, RefreshFollows DEF WellKept
  <2> QED
    BY <2>1, <2>2
<1>6. Uniform(r)
  <2>1. AskedFor(c, t.env["prod"], r.env["prod"])
    BY <1>0, <1>3 DEF AddOutcome
  <2>2. CASE c.staging
    <3>1. AskedFor(c, t.env["prod"], r.env["staging"]) /\ r.env["staging"].domains = {}
      BY <1>0, <1>3, <2>2 DEF AddOutcome
    <3> QED
      BY <2>1, <3>1 DEF Uniform, SameCapabilities, AskedFor
  <2>3. CASE ~c.staging /\ t.env["staging"].dir
    <3>1. /\ AskedFor(c, t.env["staging"], r.env["staging"])
          /\ DomainsAskedFor(c, "staging", t.env["staging"], r.env["staging"])
      BY <1>0, <1>3, <2>3 DEF AddOutcome
    <3>2. /\ SameCapabilities(t.env["prod"], t.env["staging"])
          /\ t.env["staging"].domains = {}
      BY <1>3, <2>3 DEF WellKept, Uniform
    <3> QED
      BY <2>1, <3>1, <3>2 DEF Uniform, SameCapabilities, AskedFor, DomainsAskedFor
  <2>4. CASE ~c.staging /\ ~t.env["staging"].dir
    <3>1. r.env["staging"] = t.env["staging"]
      BY <1>0, <1>3, <2>4 DEF AddOutcome
    <3> QED
      BY <2>4, <3>1 DEF Uniform
  <2> QED
    BY <2>2, <2>3, <2>4
<1>7. StaysOpen(t, r)
  BY <1>0 DEF StaysOpen, AddOutcome
<1> QED
  BY <1>2, <1>4, <1>5, <1>6, <1>7 DEF WellKept, Extends, NoKeys, AllSound

(* A tree with the same Environments keeps all they hold. *)
LEMMA SameEnvironmentsExtend ==
  ASSUME NEW t, NEW r, r.env = t.env
  PROVE  Extends(NoKeys, t, r) /\ StaysOpen(t, r)
<1>1. ASSUME NEW e \in Environment
      PROVE  /\ KeepsSecrets({}, t.env[e], r.env[e]) /\ KeepsDatabase(t.env[e], r.env[e])
             /\ KeepsOpen(t.config["ageKey"], e, t.env[e], r.env[e])
  BY UnchangedKeeps DEF KeepsDatabase
<1> QED
  BY <1>1 DEF Extends, NoKeys, StaysOpen

(* A bind writes the binding alone, and a complete one. *)
LEMMA BindKeeps ==
  ASSUME NEW c \in BindCommand, NEW t \in Tree, WellKept(t),
         NEW r, r = BindResult(c, t)
  PROVE  /\ WellKept(r) /\ Extends(NoKeys, t, r) /\ StaysOpen(t, r)
         /\ r.env = t.env
<1>1. /\ r.env = t.env /\ r.previews = t.previews
      /\ Complete(r.binding)
  BY DEF BindResult, BindCommand, CompleteBinding, Complete, Tree
<1>2. WellKept(r)
  BY <1>1 DEF WellKept, AllSound, Following, Uniform
<1>3. Extends(NoKeys, t, r) /\ StaysOpen(t, r)
  BY <1>1, SameEnvironmentsExtend
<1> QED
  BY <1>1, <1>2, <1>3

(* delete. *)
LEMMA DeleteKeeps ==
  ASSUME NEW t \in Tree, WellKept(t), NEW r, r = DeleteResult(t)
  PROVE  /\ WellKept(r) /\ Extends(NoKeys, t, r) /\ StaysOpen(t, r)
         /\ \A e \in Environment : /\ ~r.env[e].live
                                   /\ r.env[e].tag = t.env[e].tag
                                   /\ r.env[e].tasks = t.env[e].tasks
<1> DEFINE Edited(e, v, w) ==
             /\ Sound(w, e) /\ KeepsSecrets({}, v, w) /\ ~w.live
             /\ w.dir = v.dir /\ w.tag = v.tag /\ w.tasks = v.tasks
             /\ w.postgres = v.postgres /\ w.login = v.login /\ w.groups = v.groups
             /\ w.size = v.size /\ w.domains = v.domains
<1>1. ASSUME NEW e \in Environment
      PROVE  Edited(e, t.env[e], r.env[e])
  BY DeletedEnvironment DEF WellKept
<1>2. AllSound(r)
  BY <1>1 DEF AllSound
<1>3. Following(r)
  BY DEF Following, DeleteResult, NoPreviews, Tree
<1>4. Uniform(r)
  BY <1>1 DEF WellKept, Uniform, SameCapabilities, Environment
<1>5. Extends(NoKeys, t, r) /\ StaysOpen(t, r)
  BY <1>1 DEF Extends, NoKeys, KeepsDatabase, StaysOpen, KeepsOpen
<1> QED
  BY <1>1, <1>2, <1>3, <1>4, <1>5 DEF WellKept

(* Commands that leave the values alone. *)
LEMMA SameValuesKeep ==
  ASSUME NEW t \in Tree, WellKept(t), NEW r, Following(r), NEW keys,
         \A e \in Environment :
           /\ Sound(r.env[e], e) /\ KeepsSecrets(keys[e], t.env[e], r.env[e])
           /\ SameValues(t.env[e], r.env[e])
  PROVE  WellKept(r) /\ Extends(keys, t, r)
<1>1. Uniform(r)
  BY DEF WellKept, Uniform, SameCapabilities, SameValues, Environment
<1>2. Extends(keys, t, r)
  BY DEF Extends, KeepsDatabase, SameValues
<1> QED
  BY <1>1, <1>2 DEF WellKept, AllSound

(* set-secret, with the refresh of the previews. *)
LEMMA SecretsKeep ==
  ASSUME NEW c \in SecretCommand, NEW t \in Tree, SetSecretsAllowed(c, t), WellKept(t),
         NEW r, r = SetSecretsResult(c, t)
  PROVE  /\ WellKept(r) /\ Extends(KeysWritten(c), t, r) /\ StaysOpen(t, r)
         /\ \A e \in Environment : SameValues(t.env[e], r.env[e])
<1>1. PICK env : WriteSecrets(c, t) = [t EXCEPT !.env = env]
  BY DEF WriteSecrets, Tree
<1>2. r.env = env /\ WriteSecrets(c, t).env = env
  BY <1>1, EditedTree DEF SetSecretsResult
<1>3. ASSUME NEW e \in Environment
      PROVE  /\ Sound(r.env[e], e) /\ KeepsSecrets(KeysWritten(c)[e], t.env[e], r.env[e])
             /\ SameValues(t.env[e], r.env[e])
             /\ KeepsOpen(t.config["ageKey"], e, t.env[e], r.env[e])
  BY <1>2, SecretsEnvironment DEF WellKept
<1>4. Following(r)
  <2>1. t.env["staging"].live => env["staging"].live
    BY <1>2, <1>3 DEF Environment, SameValues
  <2> QED
    BY <1>1, <2>1, RefreshFollows DEF WellKept, SetSecretsResult, SetSecretsAllowed
<1> QED
  BY <1>3, <1>4, SameValuesKeep DEF StaysOpen

(* set-access, with the refresh of the previews. *)
LEMMA AccessKeeps ==
  ASSUME NEW c \in AccessCommand, NEW t \in Tree, SetAccessAllowed(c, t), WellKept(t),
         NEW r, r = SetAccessResult(c, t)
  PROVE  /\ WellKept(r) /\ Extends(NoKeys, t, r) /\ StaysOpen(t, r)
         /\ \A e \in Environment : SameValues(t.env[e], r.env[e])
<1>1. PICK env : WriteAccess(c, t) = [t EXCEPT !.env = env]
  BY DEF WriteAccess, Tree
<1>2. r.env = env /\ WriteAccess(c, t).env = env
  BY <1>1, EditedTree DEF SetAccessResult
<1>3. ASSUME NEW e \in Environment
      PROVE  /\ Sound(r.env[e], e) /\ KeepsSecrets(NoKeys[e], t.env[e], r.env[e])
             /\ SameValues(t.env[e], r.env[e])
             /\ KeepsOpen(t.config["ageKey"], e, t.env[e], r.env[e])
  BY <1>2, AccessEnvironment DEF WellKept, NoKeys
<1>4. Following(r)
  <2>1. t.env["staging"].live => env["staging"].live
    BY <1>2, <1>3 DEF Environment, SameValues
  <2> QED
    BY <1>1, <2>1, RefreshFollows DEF WellKept, SetAccessResult, SetAccessAllowed
<1> QED
  BY <1>3, <1>4, SameValuesKeep DEF StaysOpen

(* A deploy. *)
LEMMA DeployKeeps ==
  ASSUME NEW c \in DeployCommand, NEW t \in Tree, SetImageTagAllowed(c, t), WellKept(t),
         NEW r, r = SetImageTagResult(c, t)
  PROVE  WellKept(r) /\ Extends(NoKeys, t, r) /\ StaysOpen(t, r)
<1> DEFINE Edited(e, v, w) ==
             /\ Sound(w, e) /\ KeepsSecrets({}, v, w)
             /\ KeepsOpen(t.config["ageKey"], e, v, w)
             /\ w.dir = v.dir /\ w.live = v.live /\ w.sopsSource = v.sopsSource
             /\ w.postgres = v.postgres /\ w.login = v.login /\ w.groups = v.groups
             /\ w.size = v.size /\ w.domains = v.domains
             /\ e = Target(c, t) => w.tag = c.tag /\ w.tasks = c.tasks
             /\ e # Target(c, t) => w = v
<1>1. ASSUME NEW e \in Environment
      PROVE  Edited(e, t.env[e], r.env[e])
  BY DeployedEnvironment DEF WellKept
<1>2. r.binding = t.binding /\ r.previews = t.previews
  BY DEF SetImageTagResult, Tree
<1>3. AllSound(r)
  BY <1>1 DEF AllSound
<1>4. Following(r)
  BY <1>1, <1>2 DEF WellKept, Following, Environment
<1>5. Uniform(r)
  BY <1>1 DEF WellKept, Uniform, SameCapabilities, Environment
<1>6. c.tag # ""
  BY TreeAssumption DEF DeployCommand
<1>7. Extends(NoKeys, t, r) /\ StaysOpen(t, r)
  BY <1>1, <1>6 DEF Extends, NoKeys, KeepsDatabase, StaysOpen
<1> QED
  BY <1>3, <1>4, <1>5, <1>7 DEF WellKept

(* Whatever a command's checks let through keeps the tree in order, and    *)
(* only app create, over the leftover of a deleted Application, drops a    *)
(* secret or a database.                                                   *)
THEOREM ResultKeeps ==
  ASSUME NEW c \in CommandType, NEW t \in Tree, Allowed(c, t), WellKept(t)
  PROVE  /\ WellKept(Result(c, t)) /\ StaysOpen(t, Result(c, t))
         /\ c.op # "create" => Extends(KeysWritten(c), t, Result(c, t))
<1>0. c.op # "secret" => KeysWritten(c) = NoKeys
  BY DEF KeysWritten, NoKeys
<1>1. CASE c \in CreateCommand
  <2>1. c.op = "create" /\ CreateAllowed(c, t) /\ Result(c, t) = CreateResult(c, t)
    BY <1>1 DEF CreateCommand, Allowed, Result
  <2> QED
    BY <1>1, <2>1, CreateKeeps
<1>2. CASE c \in AddCommand
  <2>1. AddAllowed(c, t) /\ Result(c, t) = AddResult(c, t)
    BY <1>2 DEF AddCommand, Allowed, Result
  <2> QED
    BY <1>0, <1>2, <2>1, AddKeeps DEF AddCommand
<1>3. CASE c \in BindCommand
  <2>1. Result(c, t) = BindResult(c, t)
    BY <1>3 DEF BindCommand, Result
  <2> QED
    BY <1>0, <1>3, <2>1, BindKeeps DEF BindCommand
<1>4. CASE c \in DeleteCommand
  <2>1. Result(c, t) = DeleteResult(t)
    BY <1>4 DEF DeleteCommand, Result
  <2> QED
    BY <1>0, <1>4, <2>1, DeleteKeeps DEF DeleteCommand
<1>5. CASE c \in SecretCommand
  <2>1. SetSecretsAllowed(c, t) /\ Result(c, t) = SetSecretsResult(c, t)
    BY <1>5 DEF SecretCommand, Allowed, Result
  <2> QED
    BY <1>5, <2>1, SecretsKeep
<1>6. CASE c \in AccessCommand
  <2>1. SetAccessAllowed(c, t) /\ Result(c, t) = SetAccessResult(c, t)
    BY <1>6 DEF AccessCommand, Allowed, Result
  <2> QED
    BY <1>0, <1>6, <2>1, AccessKeeps DEF AccessCommand
<1>7. CASE c \in DeployCommand
  <2>1. SetImageTagAllowed(c, t) /\ Result(c, t) = SetImageTagResult(c, t)
    BY <1>7 DEF DeployCommand, Allowed, Result
  <2> QED
    BY <1>0, <1>7, <2>1, DeployKeeps DEF DeployCommand
<1> QED
  BY <1>1, <1>2, <1>3, <1>4, <1>5, <1>6, <1>7 DEF CommandType

-----------------------------------------------------------------------------
LEMMA EmptyTreeType == EmptyTree \in Tree
BY NoEnvironmentType DEF EmptyTree, Tree, ConfigType, BindingType, PreviewsType

(* Completing platform.yaml keeps the type. *)
LEMMA ConfiguredType ==
  ASSUME NEW t \in Tree, NEW field \in Settings
  PROVE  [t EXCEPT !.config[field] = TRUE] \in Tree
BY DEF Tree, ConfigType

(* A commit's tree is a tree. *)
LEMMA CommittedType ==
  ASSUME NEW c \in Command, NEW t \in Tree, Outcome(c, t) = "commit"
  PROVE  Result(c, t) \in Tree
BY CommandAssumption, ResultIsTree DEF Outcome

-----------------------------------------------------------------------------
(* The inductive invariant *)

LedgerInv == main \in Tree /\ WellKept(main)

(* Nothing that WellKept or a command's lasting effects speak of is in the *)
(* Platform's configuration.                                               *)
LEMMA ConfiguredKeeps ==
  ASSUME NEW t \in Tree, NEW field, NEW r, r = [t EXCEPT !.config[field] = TRUE]
  PROVE  /\ r.env = t.env /\ r.binding = t.binding /\ r.previews = t.previews
         /\ WellKept(t) => WellKept(r) /\ Extends(NoKeys, t, r)
<1>1. r.env = t.env /\ r.binding = t.binding /\ r.previews = t.previews
  BY DEF Tree
<1>2. WellKept(t) => WellKept(r)
  BY <1>1 DEF WellKept, AllSound, Following, Uniform
<1>3. Extends(NoKeys, t, r)
  BY <1>1, SameEnvironmentsExtend
<1> QED
  BY <1>1, <1>2, <1>3

LEMMA LedgerInvInit == LedgerInit => LedgerInv
<1> SUFFICES ASSUME LedgerInit PROVE LedgerInv
  OBVIOUS
<1>1. main \in Tree
  BY EmptyTreeType DEF LedgerInit
<1>2. \A e \in Environment : main.env[e] = NoEnvironment
  BY DEF LedgerInit, EmptyTree
<1>3. ~main.previews.present
  BY DEF LedgerInit, EmptyTree, NoPreviews
<1>4. ~NoEnvironment.dir
  BY DEF NoEnvironment
<1> QED
  BY <1>1, <1>2, <1>3, <1>4, NoEnvironmentOrderly
  DEF LedgerInv, WellKept, AllSound, Sound, Following, Uniform, Environment

(* A step of main: the invariant, and what the tree before it held that    *)
(* the tree after it holds still.                                          *)
LEMMA ApplyStep ==
  ASSUME LedgerInv, NEW c \in Command, Apply(c)
  PROVE  /\ LedgerInv' /\ StaysOpen(main, main')
         /\ c.op # "create" => Extends(KeysWritten(c), main, main')
         /\ c.op = "create" => ~Live(main)
<1>1. c \in CommandType /\ Allowed(c, main) /\ main' = Result(c, main)
  BY CommandAssumption DEF Apply, Outcome
<1>2. main' \in Tree
  BY <1>1, ResultIsTree DEF LedgerInv
<1>3. /\ WellKept(main') /\ StaysOpen(main, main')
      /\ c.op # "create" => Extends(KeysWritten(c), main, main')
  BY <1>1, ResultKeeps DEF LedgerInv
<1>4. c.op = "create" => ~Live(main)
  BY <1>1 DEF Allowed, CreateAllowed
<1> QED
  BY <1>2, <1>3, <1>4 DEF LedgerInv

LEMMA SettingStep ==
  ASSUME LedgerInv, NEW field \in Setting, CompleteSetting(field)
  PROVE  LedgerInv' /\ Extends(NoKeys, main, main') /\ main'.env = main.env
<1>1. main' = [main EXCEPT !.config[field] = TRUE] /\ field \in Settings
  BY CommandAssumption DEF CompleteSetting
<1> QED
  BY <1>1, ConfiguredType, ConfiguredKeeps DEF LedgerInv

LEMMA LedgerStep ==
  ASSUME LedgerInv, LedgerNext
  PROVE  LedgerInv'
BY ApplyStep, SettingStep DEF LedgerNext

LEMMA LedgerInvStep == LedgerInv /\ [LedgerNext]_main => LedgerInv'
<1>1. ASSUME LedgerInv, UNCHANGED main PROVE LedgerInv'
  BY <1>1 DEF LedgerInv
<1> QED
  BY <1>1, LedgerStep

LEMMA LedgerInvAlways == LedgerSpec => []LedgerInv
BY LedgerInvInit, LedgerInvStep, PTL DEF LedgerSpec

(* The invariant gives the invariants TLC checks. *)
LEMMA WellKeptTree ==
  ASSUME LedgerInv
  PROVE  /\ LedgerTypeOK /\ PreviewsFollowStaging /\ DatabaseFindsItsCredentials
         /\ NamedSecretsExist /\ PasswordsFitLevels /\ CapabilitiesAreUniform
<1>1. \A e \in Environment : Sound(main.env[e], e)
  BY DEF LedgerInv, WellKept, AllSound
<1>2. DatabaseFindsItsCredentials
  BY <1>1 DEF DatabaseFindsItsCredentials, Sound, Credentialed
<1>3. NamedSecretsExist
  BY <1>1 DEF NamedSecretsExist, Sound, Orderly, Listed, OwnSecrets
<1>4. PasswordsFitLevels
  BY <1>1 DEF PasswordsFitLevels, Sound, Orderly, OwnPasswords
<1>5. PreviewsFollowStaging
  BY DEF LedgerInv, WellKept, Following, PreviewsFollowStaging
<1>6. CapabilitiesAreUniform
  BY DEF LedgerInv, WellKept, Uniform, SameCapabilities, CapabilitiesAreUniform
<1> QED
  BY <1>2, <1>3, <1>4, <1>5, <1>6 DEF LedgerInv, LedgerTypeOK

-----------------------------------------------------------------------------
(* Safety *)

(* main holds a tree that every command can read. *)
THEOREM LedgerTypes == LedgerSpec => []LedgerTypeOK
BY LedgerInvAlways, WellKeptTree, PTL

(* The Preview Environments get the sources staging gets, whatever is      *)
(* added, bound, deleted or given secrets in between.                      *)
THEOREM PreviewsStayBehindStaging == LedgerSpec => []PreviewsFollowStaging
BY LedgerInvAlways, WellKeptTree, PTL

(* No order of commands leaves a live database without its credentials.    *)
THEOREM DatabasesFindTheirCredentials == LedgerSpec => []DatabaseFindsItsCredentials
BY LedgerInvAlways, WellKeptTree, PTL

(* ksops.yaml and values.yaml agree with the encrypted files, always.      *)
THEOREM NamedSecretsStay == LedgerSpec => []NamedSecretsExist
BY LedgerInvAlways, WellKeptTree, PTL

(* Passwords come and go with the levels that need them: none without a    *)
(* level that admits someone, and none missing once the levels are written *)
(* with an age key, also when an earlier command could not write it.       *)
THEOREM PasswordsFollowLevels == LedgerSpec => PasswordsMatchLevels
<1>1. LedgerInv /\ [LedgerNext]_main => [LevelsBringPasswords]_main
  <2>1. ASSUME LedgerInv, NEW c \in Command, Apply(c) PROVE LevelsBringPasswords
    BY <2>1, ApplyStep DEF LevelsBringPasswords, StaysOpen, KeepsOpen
  <2>2. ASSUME LedgerInv, NEW field \in Setting, CompleteSetting(field)
        PROVE  LevelsBringPasswords
    <3>1. StaysOpen(main, main')
      BY <2>2, SettingStep, SameEnvironmentsExtend
    <3> QED
      BY <3>1 DEF LevelsBringPasswords, StaysOpen, KeepsOpen
  <2> QED
    BY <2>1, <2>2 DEF LedgerNext
<1> QED
  BY <1>1, LedgerInvAlways, WellKeptTree, PTL DEF LedgerSpec, PasswordsMatchLevels

(* "prod's answer holds for a new staging too": for every sequence of      *)
(* add-capability commands, deletes and creates.                           *)
THEOREM CapabilitiesStayUniform == LedgerSpec => []CapabilitiesAreUniform
BY LedgerInvAlways, WellKeptTree, PTL

(* No command on a live Application takes a developer's secret, but for a  *)
(* secret set of a KEY with its slug and, for BACKUPS_CREDENTIALS, turning *)
(* Postgres on.                                                            *)
THEOREM SecretsDoSurvive == LedgerSpec => SecretsSurvive
<1> DEFINE Survives ==
      Live(main) =>
        \A e \in Environment :
          /\ main.env[e].secrets \subseteq main'.env[e].secrets
          /\ \A s \in Slug :
               main.env[e].files[s] \in Key =>
                 \/ main'.env[e].files[s] = main.env[e].files[s]
                 \/ OverwrittenBySecret(e, s)
                 \/ OverwrittenByCredentials(e, s)
<1>1. ASSUME NEW keys, Extends(keys, main, main'), NEW e \in Environment, NEW s \in Slug,
             main.env[e].files[s] \in Key, main'.env[e].files[s] # main.env[e].files[s],
             ~OverwrittenByCredentials(e, s)
      PROVE  main'.env[e].files[s] \in {k \in keys[e] : SlugOf[k] = s}
  BY <1>1 DEF Extends, KeepsSecrets, KeepsFiles, OverwrittenByCredentials
<1>2. ASSUME LedgerInv, NEW c \in Command, Apply(c) PROVE Survives
  <2> SUFFICES ASSUME Live(main), NEW e \in Environment
               PROVE  /\ main.env[e].secrets \subseteq main'.env[e].secrets
                      /\ \A s \in Slug :
                           main.env[e].files[s] \in Key =>
                             \/ main'.env[e].files[s] = main.env[e].files[s]
                             \/ OverwrittenBySecret(e, s)
                             \/ OverwrittenByCredentials(e, s)
    OBVIOUS
  <2>1. Extends(KeysWritten(c), main, main')
    BY <1>2, ApplyStep
  <2>2. main.env[e].secrets \subseteq main'.env[e].secrets
    BY <2>1 DEF Extends, KeepsSecrets, KeepsNames
  <2>3. ASSUME NEW s \in Slug, main.env[e].files[s] \in Key,
               main'.env[e].files[s] # main.env[e].files[s], ~OverwrittenByCredentials(e, s)
        PROVE  OverwrittenBySecret(e, s)
    <3>1. main'.env[e].files[s] \in {k \in KeysWritten(c)[e] : SlugOf[k] = s}
      BY <1>1, <2>1, <2>3
    <3>2. c.op = "secret" /\ c.environment = e /\ KeysWritten(c)[e] = c.keys
      BY <3>1 DEF KeysWritten
    <3> QED
      BY <1>2, <3>1, <3>2 DEF OverwrittenBySecret
  <2> QED
    BY <2>2, <2>3
<1>3. ASSUME LedgerInv, NEW field \in Setting, CompleteSetting(field) PROVE Survives
  BY <1>3, SettingStep
<1>4. LedgerInv /\ [LedgerNext]_main => [Survives]_main
  BY <1>2, <1>3 DEF LedgerNext
<1> QED
  BY <1>4, LedgerInvAlways, PTL DEF LedgerSpec, SecretsSurvive

-----------------------------------------------------------------------------
(* A commit has something in it *)

(* An add-capability that its checks let through changes something: a      *)
(* previews ApplicationSet or a staging that was not there, or one of      *)
(* prod's Capabilities.                                                    *)
LEMMA AddChangesSomething ==
  ASSUME NEW c \in AddCommand, AsksForSomething(c),
         NEW t \in Tree, AddAllowed(c, t), WellKept(t)
  PROVE  AddResult(c, t) # t
<1> DEFINE r == AddResult(c, t)
<1>1. r.env = AddEdits(c, t).env
  BY AddKeeps
<1> HIDE DEF r
<1>2. ASSUME NEW e \in Environment PROVE AddOutcome(c, t, e, t.env[e], r.env[e])
  BY <1>1, AddedEnvironment DEF WellKept
<1>3. CapabilitiesAbsent(c, t) /\ t.env["prod"].dir
  BY DEF AddAllowed
<1>4. ASSUME c.previews PROVE r # t
  <2>1. r = WritePreviews(AddEdits(c, t)) /\ ~t.previews.present
    BY <1>4 DEF r, AddResult, AddAllowed
  <2>2. PICK env : AddEdits(c, t) = [t EXCEPT !.env = env]
    BY DEF AddEdits
  <2>3. r.previews.present
    BY <2>1, <2>2, EditedTree
  <2> QED
    BY <2>1, <2>3
<1>5. ASSUME c.staging PROVE r # t
  <2>1. ~t.env["staging"].dir /\ r.env["staging"].dir
    BY <1>2, <1>5 DEF AddOutcome, Environment
  <2> QED
    BY <2>1
<1>6. ASSUME ~c.previews, ~c.staging PROVE r # t
  <2> DEFINE v == t.env["prod"]
             w == r.env["prod"]
  <2>1. AskedFor(c, v, w) /\ DomainsAskedFor(c, "prod", v, w)
    BY <1>2, <1>3 DEF AddOutcome, Environment
  <2>2. v \in EnvironmentType
    BY TreeFields DEF Environment
  <2>3. CASE c.postgres \/ c.login
    BY <1>3, <2>1, <2>3 DEF CapabilitiesAbsent, AskedFor
  <2>4. CASE c.setGroups /\ ~c.login
    BY <1>3, <2>1, <2>4 DEF CapabilitiesAbsent, AskedFor
  <2>5. CASE c.size # ""
    BY <1>3, <2>1, <2>5 DEF CapabilitiesAbsent, AskedFor
  <2>6. CASE c.domains # {}
    BY <1>3, <2>1, <2>6 DEF CapabilitiesAbsent, DomainsAskedFor
  <2> QED
    BY <1>6, <2>3, <2>4, <2>5, <2>6 DEF AsksForSomething
<1> QED
  BY <1>4, <1>5, <1>6 DEF r

(* A create turns an Application that does not run into one that does, a   *)
(* delete the other way round; the rest compare, all but set-secret.       *)
LEMMA CommitChangesTree ==
  ASSUME NEW c \in Command, NEW t \in Tree, WellKept(t),
         Outcome(c, t) = "commit", c.op # "secret"
  PROVE  Result(c, t) # t
<1>1. c \in CommandType /\ Allowed(c, t) /\ (ComparesFirst(c) => Result(c, t) # t)
  BY CommandAssumption DEF Outcome
<1>2. CASE c \in CreateCommand
  <2>1. ~Live(t) /\ CreateAllowed(c, t) /\ Result(c, t) = CreateResult(c, t)
    BY <1>1, <1>2 DEF CreateCommand, Allowed, CreateAllowed, Result
  <2>2. Live(Result(c, t))
    BY <1>2, <2>1, CreateKeeps DEF Live, Environment
  <2> QED
    BY <2>1, <2>2
<1>3. CASE c \in AddCommand
  <2>1. AddAllowed(c, t) /\ Result(c, t) = AddResult(c, t) /\ AsksForSomething(c)
    BY <1>1, <1>3, CommandAssumption DEF AddCommand, Allowed, Result
  <2> QED
    BY <1>3, <2>1, AddChangesSomething
<1>4. CASE c \in DeleteCommand
  <2>1. Live(t) /\ Result(c, t) = DeleteResult(t)
    BY <1>1, <1>4 DEF DeleteCommand, Allowed, DeleteAllowed, Result
  <2>2. ~Live(Result(c, t))
    BY <2>1, DeleteKeeps DEF Live
  <2> QED
    BY <2>1, <2>2
<1>5. CASE c \in BindCommand \cup AccessCommand \cup DeployCommand
  BY <1>1, <1>5 DEF BindCommand, AccessCommand, DeployCommand, ComparesFirst
<1>6. CASE c \in SecretCommand
  BY <1>6 DEF SecretCommand
<1> QED
  BY <1>1, <1>2, <1>3, <1>4, <1>5, <1>6 DEF CommandType

-----------------------------------------------------------------------------
(* A repeated command finds nothing to do *)

LEMMA BindRepeats ==
  ASSUME NEW c \in BindCommand, NEW t \in Tree, BindAllowed(c, t),
         NEW r, r = BindResult(c, t)
  PROVE  BindAllowed(c, r) /\ BindResult(c, r) = r
<1>1. r.env = t.env /\ r.binding = c.repository
  BY DEF BindResult, Tree
<1> QED
  BY <1>1 DEF BindAllowed, BindResult, Live, SameRepository, Tree

(* What set-access writes, and the passwords it has to generate. *)
AccessWritten(v, e, access) == WriteDatabaseAccess(v, e, access, TRUE)
PasswordsToWrite(v, access) == PasswordsWritten(v, access, TRUE)

LEMMA SameRecord ==
  ASSUME NEW v \in EnvironmentType
  PROVE  [v EXCEPT !.level = v.level, !.password = v.password, !.files = v.files] = v
BY DEF EnvironmentType

(* The levels a set-access leaves are the ones it would set again, each    *)
(* with its password.                                                      *)
LEMMA AccessStaysWritten ==
  ASSUME NEW v \in EnvironmentType, NEW e \in Environment, v.dir, Orderly(v, e),
         NEW access \in [Role -> Levels],
         NEW w, w = AccessWritten(v, e, access)
  PROVE  /\ ResolvedAccess(w, e) = access
         /\ PasswordsToWrite(w, access) = {}
         /\ AccessWritten(w, e, access) = w
<1>1. PICK passwords :
        /\ w = WriteDatabaseAccess(v, e, access, passwords)
        /\ \A r \in Role : access[r] # "none" =>
                             r \in PasswordsWritten(v, access, passwords) \/ Present(v, r)
  <2>1. \A r \in Role : access[r] # "none" =>
                         r \in PasswordsWritten(v, access, TRUE) \/ Present(v, r)
    BY DEF PasswordsWritten
  <2> QED
    BY <2>1 DEF AccessWritten
<1>2. w \in EnvironmentType
  BY WriteDatabaseAccessType DEF AccessWritten
<1>3. /\ Orderly(w, e) /\ w.level = access
      /\ \A r \in Role : access[r] # "none" => Present(w, r)
  <2>1. /\ Orderly(w, e) /\ w.level = access
        /\ \A r \in PasswordsWritten(v, access, passwords) : Present(w, r)
        /\ \A r \in Role : access[r] # "none" /\ Present(v, r) => Present(w, r)
    BY <1>1, WriteDatabaseAccessOrderly
  <2> QED
    BY <1>1, <2>1
<1>4. ResolvedAccess(w, e) = access
  BY <1>3 DEF ResolvedAccess, Levels
<1>5. ASSUME NEW r \in Role
      PROVE  /\ access[r] # "none" => Present(w, r) /\ w.password[r] # "none"
             /\ access[r] = "none" => ~Present(w, r) /\ w.password[r] = "none"
  BY <1>3, <1>4 DEF Orderly, OwnPasswords, Environment
<1> DEFINE written == PasswordsWritten(w, access, TRUE)
           removed == PasswordsRemoved(w, access)
           password == [r \in Role |-> CASE access[r] = "none" -> "none"
                                         [] r \in written -> e
                                         [] OTHER -> w.password[r]]
           files == [s \in Slug |-> IF \E r \in written : s = PasswordSlug[r] THEN "password"
                                    ELSE IF \E r \in removed : s = PasswordSlug[r] THEN "absent"
                                    ELSE w.files[s]]
           edited == [w EXCEPT !.level = access, !.password = password, !.files = files]
<1>6. written = {} /\ removed = {}
  BY <1>5 DEF PasswordsWritten, PasswordsRemoved
<1>7. AccessWritten(w, e, access)
        = IF written \cup removed = {} THEN edited ELSE AddKustomizeSource(RegisterSops(edited))
  BY DEF AccessWritten, WriteDatabaseAccess
<1>8. PasswordsToWrite(w, access) = {}
  BY <1>6 DEF PasswordsToWrite
<1> HIDE DEF written, removed
<1>9. password = w.password
  <2>1. w.password \in [Role -> Environment \cup {"none"}]
    BY <1>2 DEF EnvironmentType
  <2> QED
    BY <1>5, <1>6, <2>1
<1>10. files = w.files
  BY <1>2, <1>6 DEF EnvironmentType
<1> HIDE DEF password, files
<1>11. edited = w
  BY <1>2, <1>3, <1>9, <1>10, SameRecord
<1> HIDE DEF edited
<1> QED
  BY <1>4, <1>6, <1>7, <1>8, <1>11

LEMMA AccessRepeats ==
  ASSUME NEW c \in AccessCommand, NEW t \in Tree, SetAccessAllowed(c, t), WellKept(t),
         NEW r, r = SetAccessResult(c, t)
  PROVE  SetAccessAllowed(c, r) /\ SetAccessResult(c, r) = r
<1> DEFINE e == c.environment
           v == t.env[e]
           w == r.env[e]
           access == AccessAsked(c, t)
<1>1. /\ e \in Environment /\ v \in EnvironmentType /\ access \in [Role -> Levels]
      /\ Orderly(v, e) /\ v.dir
      /\ v.live /\ v.postgres /\ AccessAccepted(access)
  <2>1. e \in Environment
    BY DEF AccessCommand
  <2>2. Orderly(v, e)
    BY <2>1 DEF WellKept, AllSound, Sound
  <2> QED
    BY <2>1, <2>2, TreeFields, AccessAskedType, LiveHasDirectory DEF SetAccessAllowed
<1>2. r \in Tree
  BY SetAccessResultType
<1>3. w = AccessWritten(v, e, access)
  <2>1. PICK env : WriteAccess(c, t) = [t EXCEPT !.env = env]
    BY DEF WriteAccess, Tree
  <2>2. r.env = WriteAccess(c, t).env
    BY <2>1, EditedTree DEF SetAccessResult
  <2> QED
    BY <1>1, <2>2 DEF WriteAccess, AccessWritten, Tree
<1>4. w.live /\ w.postgres
  BY <1>1, AccessKeeps DEF SameValues
<1> HIDE DEF access, v, w
<1>5. /\ ResolvedAccess(w, e) = access
      /\ PasswordsToWrite(w, access) = {}
      /\ AccessWritten(w, e, access) = w
  BY <1>1, <1>3, AccessStaysWritten
<1>6. AccessAsked(c, r) = access
  <2>1. AccessAsked(c, r) = [q \in Role |-> IF c.change[q] = "" THEN access[q] ELSE c.change[q]]
    BY <1>5 DEF AccessAsked, w
  <2>2. \A q \in Role : c.change[q] # "" => access[q] = c.change[q]
    BY DEF access, AccessAsked
  <2> QED
    BY <1>1, <2>1, <2>2
<1>7. WriteAccess(c, r) = r
  BY <1>1, <1>2, <1>5, <1>6 DEF WriteAccess, AccessWritten, w, Tree
<1>8. ~StagingApplicationWritten(r, r)
  BY DEF StagingApplicationWritten
<1>9. SetAccessResult(c, r) = r /\ RefreshAllowed(r, WriteAccess(c, r))
  BY <1>7, <1>8 DEF SetAccessResult, RefreshPreviews, RefreshAllowed
<1> QED
  BY <1>1, <1>4, <1>5, <1>6, <1>9 DEF SetAccessAllowed, PasswordsToWrite, w

(* The gate may be asked for the same deploy again: it then writes what is *)
(* there, and its caller is still the one the repository is bound to.      *)
LEMMA DeployRepeats ==
  ASSUME NEW c \in DeployCommand, NEW t \in Tree, SetImageTagAllowed(c, t), WellKept(t),
         NEW r, r = SetImageTagResult(c, t)
  PROVE  SetImageTagAllowed(c, r) /\ SetImageTagResult(c, r) = r
<1> DEFINE e == Target(c, t)
           v == t.env[e]
           migration == IF c.migration = "keep" THEN v.migration ELSE c.migration
           w == [v EXCEPT !.tag = c.tag, !.migration = migration, !.tasks = c.tasks]
<1>1. e \in Environment /\ v \in EnvironmentType
  BY TreeFields DEF Target, Environment
<1>2. r \in Tree
  BY SetImageTagResultType
<1>3. r = [t EXCEPT !.env[e] = w]
  BY DEF SetImageTagResult
<1>4. /\ w.live = v.live /\ w.dir = v.dir /\ w.postgres = v.postgres /\ w.kind = v.kind
      /\ w.tag = c.tag /\ w.migration = migration /\ w.tasks = c.tasks
  <2> HIDE DEF migration, v
  <2> QED
    BY <1>1 DEF EnvironmentType
<1>5. v.live /\ v.dir
  <2>1. Orderly(v, e)
    BY <1>1 DEF WellKept, AllSound, Sound
  <2> QED
    BY <1>1, <2>1, LiveHasDirectory DEF SetImageTagAllowed
<1> HIDE DEF w
<1>6. /\ r.env[e] = w /\ r.binding = t.binding
      /\ \A d \in Environment : r.env[d].live = t.env[d].live
  BY <1>1, <1>3, <1>4 DEF Tree
<1>7. Target(c, r) = e
  BY <1>6 DEF Target, Environment
<1>8. SetImageTagResult(c, r) = r
  <2>1. migration = IF c.migration = "keep" THEN w.migration ELSE c.migration
    BY <1>4
  <2>2. SetImageTagResult(c, r)
          = [r EXCEPT !.env[e] = [w EXCEPT !.tag = c.tag, !.migration = migration,
                                           !.tasks = c.tasks]]
    BY <1>6, <1>7, <2>1 DEF SetImageTagResult
  <2>3. [w EXCEPT !.tag = c.tag, !.migration = migration, !.tasks = c.tasks] = w
    <3>1. w \in EnvironmentType
      BY <1>1, <1>2, <1>6, TreeFields
    <3> HIDE DEF migration
    <3> QED
      BY <1>4, <3>1 DEF EnvironmentType
  <2> QED
    BY <1>1, <1>2, <1>6, <2>2, <2>3 DEF Tree
<1>9. SetImageTagAllowed(c, r)
  <2>1. HasDirectory(r)
    BY <1>1, <1>4, <1>5, <1>6 DEF HasDirectory
  <2>2. Authorized(c, r)
    BY <1>6, <1>7 DEF SetImageTagAllowed, Authorized, BoundToCaller
  <2>3. c.migration \in Migration /\ c.migration # w.migration => w.postgres
    BY <1>4 DEF SetImageTagAllowed
  <2> QED
    BY <1>4, <1>5, <1>6, <1>7, <2>1, <2>2, <2>3 DEF SetImageTagAllowed
<1> QED
  BY <1>8, <1>9

LEMMA CommandRepeats ==
  ASSUME NEW c \in Command, NEW t \in Tree, WellKept(t),
         Outcome(c, t) = "commit", ComparesFirst(c)
  PROVE  Outcome(c, Result(c, t)) = "unchanged"
<1>1. c \in CommandType /\ Allowed(c, t) /\ c.op \in {"bind", "access", "deploy"}
  BY CommandAssumption DEF Outcome, ComparesFirst
<1> DEFINE r == Result(c, t)
<1>2. Allowed(c, r) /\ Result(c, r) = r
  <2>1. CASE c \in BindCommand
    <3>1. \A u : Allowed(c, u) = BindAllowed(c, u) /\ Result(c, u) = BindResult(c, u)
      BY <2>1 DEF BindCommand, Allowed, Result
    <3> QED
      BY <1>1, <2>1, <3>1, BindRepeats
  <2>2. CASE c \in AccessCommand
    <3>1. \A u : Allowed(c, u) = SetAccessAllowed(c, u) /\ Result(c, u) = SetAccessResult(c, u)
      BY <2>2 DEF AccessCommand, Allowed, Result
    <3> QED
      BY <1>1, <2>2, <3>1, AccessRepeats
  <2>3. CASE c \in DeployCommand
    <3>1. \A u : Allowed(c, u) = SetImageTagAllowed(c, u)
                   /\ Result(c, u) = SetImageTagResult(c, u)
      BY <2>3 DEF DeployCommand, Allowed, Result
    <3> QED
      BY <1>1, <2>3, <3>1, DeployRepeats
  <2>4. c \in BindCommand \cup AccessCommand \cup DeployCommand
    BY <1>1 DEF CommandType, CreateCommand, AddCommand, DeleteCommand, SecretCommand
  <2> QED
    BY <2>1, <2>2, <2>3, <2>4
<1> HIDE DEF r
<1> QED
  BY <1>2 DEF Outcome, ComparesFirst, r

(* No commit is empty, and a bind, an access change or a deploy asked for  *)
(* again commits nothing and is not refused, in every tree main can hold.  *)
THEOREM OutcomesStayTrue == LedgerSpec => []OutcomesAreTrue
<1>1. LedgerInv => OutcomesAreTrue
  BY CommitChangesTree, CommandRepeats DEF LedgerInv, OutcomesAreTrue
<1> QED
  BY <1>1, LedgerInvAlways, PTL

-----------------------------------------------------------------------------
(* Scheduled tasks *)

(* TasksFollowTag of one Environment. *)
DeployedTogether(v) ==
  v.tag # "" => \E c \in Command : c.op = "deploy" /\ c.tag = v.tag /\ c.tasks = v.tasks

(* A command that deploys nothing leaves an Environment without a tag, or  *)
(* its tag and its tasks as they are; a deploy writes both.                *)
TasksWrittenWithTag(c, v, w) ==
  \/ w.tag = ""
  \/ w.tag = v.tag /\ w.tasks = v.tasks
  \/ c.op = "deploy" /\ w.tag = c.tag /\ w.tasks = c.tasks

LEMMA TasksComeWithTag ==
  ASSUME NEW c \in CommandType, NEW t \in Tree, Allowed(c, t), WellKept(t),
         NEW e \in Environment, NEW v, v = t.env[e], NEW w, w = Result(c, t).env[e]
  PROVE  TasksWrittenWithTag(c, v, w)
<1> USE DEF TasksWrittenWithTag
<1>1. CASE c \in CreateCommand
  <2>1. CreateAllowed(c, t) /\ Result(c, t) = CreateResult(c, t)
    BY <1>1 DEF CreateCommand, Allowed, Result
  <2> QED
    BY <1>1, <2>1, CreateKeeps
<1>2. CASE c \in AddCommand
  <2>1. AddAllowed(c, t) /\ Result(c, t) = AddResult(c, t)
    BY <1>2 DEF AddCommand, Allowed, Result
  <2>2. w = AddEdits(c, t).env[e]
    BY <1>2, <2>1, AddKeeps
  <2>3. AddOutcome(c, t, e, v, w)
    BY <1>2, <2>1, <2>2, AddedEnvironment DEF WellKept
  <2> QED
    BY <2>3 DEF AddOutcome
<1>3. CASE c \in BindCommand
  <2>1. Result(c, t) = BindResult(c, t)
    BY <1>3 DEF BindCommand, Result
  <2> QED
    BY <1>3, <2>1, BindKeeps
<1>4. CASE c \in DeleteCommand
  <2>1. Result(c, t) = DeleteResult(t)
    BY <1>4 DEF DeleteCommand, Result
  <2> QED
    BY <2>1, DeleteKeeps
<1>5. CASE c \in SecretCommand
  <2>1. SetSecretsAllowed(c, t) /\ Result(c, t) = SetSecretsResult(c, t)
    BY <1>5 DEF SecretCommand, Allowed, Result
  <2>2. SameValues(v, w)
    BY <1>5, <2>1, SecretsKeep
  <2> QED
    BY <2>2 DEF SameValues
<1>6. CASE c \in AccessCommand
  <2>1. SetAccessAllowed(c, t) /\ Result(c, t) = SetAccessResult(c, t)
    BY <1>6 DEF AccessCommand, Allowed, Result
  <2>2. SameValues(v, w)
    BY <1>6, <2>1, AccessKeeps
  <2> QED
    BY <2>2 DEF SameValues
<1>7. CASE c \in DeployCommand
  <2>1. /\ c.op = "deploy" /\ SetImageTagAllowed(c, t)
        /\ Result(c, t) = SetImageTagResult(c, t)
    BY <1>7 DEF DeployCommand, Allowed, Result
  <2>2. /\ e = Target(c, t) => w.tag = c.tag /\ w.tasks = c.tasks
        /\ e # Target(c, t) => w = v
    BY <1>7, <2>1, DeployedEnvironment DEF WellKept
  <2> QED
    BY <2>1, <2>2
<1> QED
  BY <1>1, <1>2, <1>3, <1>4, <1>5, <1>6, <1>7 DEF CommandType

(* Whatever is deployed, added, deleted and created in between, and in     *)
(* whichever Environment: the tag an Environment has and the Scheduled     *)
(* tasks it runs were brought by one deploy, so it never runs one commit's *)
(* image with the tasks of another.                                        *)
THEOREM TasksStayWithTag == LedgerSpec => []TasksFollowTag
<1>1. LedgerInit => TasksFollowTag
  <2>1. NoEnvironment.tag = ""
    BY DEF NoEnvironment
  <2>2. LedgerInit => \A e \in Environment : main.env[e] = NoEnvironment
    BY DEF LedgerInit, EmptyTree
  <2> QED
    BY <2>1, <2>2 DEF TasksFollowTag
<1>2. LedgerInv /\ TasksFollowTag /\ [LedgerNext]_main => TasksFollowTag'
  <2> SUFFICES ASSUME LedgerInv, TasksFollowTag, [LedgerNext]_main PROVE TasksFollowTag'
    OBVIOUS
  <2>1. ASSUME NEW c \in Command, Apply(c) PROVE TasksFollowTag'
    <3> SUFFICES ASSUME NEW e \in Environment
                 PROVE  DeployedTogether(main'.env[e])
      BY DEF TasksFollowTag, DeployedTogether
    <3>1. c \in CommandType /\ Allowed(c, main) /\ main' = Result(c, main)
      BY <2>1, CommandAssumption DEF Apply, Outcome
    <3> DEFINE v == main.env[e]
               w == Result(c, main).env[e]
    <3>2. TasksWrittenWithTag(c, v, w)
      BY <3>1, TasksComeWithTag DEF LedgerInv
    <3>3. DeployedTogether(v)
      BY DEF TasksFollowTag, DeployedTogether
    <3> HIDE DEF v, w
    <3>4. DeployedTogether(w)
      BY <3>2, <3>3 DEF DeployedTogether, TasksWrittenWithTag
    <3> QED
      BY <3>1, <3>4 DEF w
  <2>2. ASSUME NEW field \in Setting, CompleteSetting(field) PROVE TasksFollowTag'
    <3>1. main'.env = main.env
      BY <2>2, ConfiguredKeeps DEF LedgerInv, CompleteSetting
    <3> QED
      BY <3>1 DEF TasksFollowTag
  <2>3. CASE UNCHANGED main
    BY <2>3 DEF TasksFollowTag
  <2> QED
    BY <2>1, <2>2, <2>3 DEF LedgerNext
<1> QED
  BY <1>1, <1>2, LedgerInvAlways, PTL DEF LedgerSpec
=============================================================================
