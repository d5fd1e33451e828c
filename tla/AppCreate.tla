----------------------------- MODULE AppCreate -----------------------------
(***************************************************************************)
(* iidp app create (internal/cli/app.go, internal/apprepo): runs of it     *)
(* that make an Application repository or open a pull request on one, and  *)
(* only then write the Application to the Platform repository.  GitHub and *)
(* the Platform repository are two stores with no transaction between      *)
(* them; each call may fail, and a call that had its effect may look as if *)
(* it failed.                                                              *)
(***************************************************************************)
EXTENDS Naturals, FiniteSets

CONSTANTS
  Name,       \* of Applications
  Repo,       \* names of repositories in the org
  Options,    \* the answers and flags a run may be given
  Contents,   \* what is in repositories made by hand
  MaxRuns,    \* bound: runs of the command
  MaxRepos    \* bound: repositories ever made

ASSUME AppCreateAssumption == MaxRuns \in Nat /\ MaxRepos \in Nat

VARIABLES
  github,  \* the repository of each name, or NoRepository
  made,    \* how many repositories GitHub has made: their ids
  app,     \* the Platform repository's Application of each Name, or NoApp
  run      \* each run of the command

createVars == <<github, made, app, run>>

-----------------------------------------------------------------------------
Run == 1 .. MaxRuns
Nobody == 0
Framework == {"nextjs", "vite-react", "other"}
Kind == {"web-service", "static-site"}
Option == [path : {"", "create", "adopt"}, name : Name, repo : Repo,
           framework : Framework \cup {""}, kind : Kind \cup {""},
           postgres : BOOLEAN, staging : BOOLEAN, previews : BOOLEAN,
           migration : {"unset", "empty", "given"},
           detected : BOOLEAN,     \* whether a migration tool is found where it looks
           workflowScope : BOOLEAN,   \* whether GitHub lets the token write workflows,
           scopesKnown : BOOLEAN,     \* and whether it says so: of such tokens as have scopes
           sops : BOOLEAN,         \* installed, or not needed
           writable : BOOLEAN,     \* passes what the Writer alone checks: domains, backups
           interactive : BOOLEAN]  \* the wizard, with its summary
ASSUME OptionsAssumption ==
  /\ Options \subseteq Option
  /\ \A o \in Options : o.path = "create" => o.name \in Repo

\* What a branch holds.  A Dockerfile is "fine", one that runs as root and that iidp
\* can fix ("nginx" only for a Static site) or cannot ("odd"), or iidp's own.
Content == [dockerfile : {"none", "fine", "root", "nginx", "odd", "iidp", "fixed"},
            dockerignore : {"none", "theirs", "iidp"},
            workflow : {"none", "theirs", "iidp"}, config : {"none", "theirs", "iidp"},
            migrates : Run \cup {Nobody},   \* the run that put a migration command there
            framework : Framework, tool : BOOLEAN]
ASSUME ContentsAssumption ==
  /\ Contents \subseteq Content
  /\ \A c \in Contents : c.migrates = Nobody    \* nobody's run made them

NoRepository == [id |-> 0]
NoApp == [by |-> Nobody]
Exists(n) == github[n] # NoRepository

NoRun == [state |-> "none"]
Steps == {"summary", "check", "exists", "create", "push", "default", "read", "detect",
          "branch", "pr", "write"}
Outcomes == {"done", "refused", "failed", "declined"}

AppCreateTypeOK ==
  /\ made \in 0 .. MaxRepos
  /\ \A n \in Repo : Exists(n) =>
       /\ github[n].id \in 1 .. made /\ github[n].madeBy \in Run \cup {Nobody}
       /\ github[n].inOrg \in BOOLEAN /\ github[n].canPush \in BOOLEAN
       /\ github[n].default \in {"main", "master"}
       /\ github[n].empty \in BOOLEAN
       /\ ~github[n].empty => github[n].main \in Content
       /\ github[n].branchBy \in Run \cup {Nobody}
       /\ github[n].branchBy # Nobody => github[n].branch \in Content
       /\ github[n].pr \in Run \cup {Nobody} /\ github[n].prs \subseteq Run
       /\ github[n].pr # Nobody => github[n].branchBy # Nobody
  /\ \A n \in Name : app[n] # NoApp =>
       app[n].by \in Run /\ app[n].repo \in 0 .. made /\ app[n].kind \in Kind
  /\ \A k \in Run : run[k] # NoRun =>
       /\ run[k].state \in Steps \cup Outcomes /\ run[k].opts \in Options
       /\ run[k].left \in {"nothing", "repository", "branch", "pull request"}
       /\ run[k].kind \in Kind \cup {""} /\ run[k].id \in 0 .. made

AppCreateInit ==
  /\ github = [n \in Repo |-> NoRepository] /\ made = 0
  /\ app = [n \in Name |-> NoApp]
  /\ run = [k \in Run |-> NoRun]

-----------------------------------------------------------------------------
(* The answers.                                                            *)

KindOf(framework) == IF framework = "vite-react" THEN "static-site" ELSE "web-service"
PlannedKind(o) ==
  IF o.path = "create" /\ o.framework \in {"nextjs", "vite-react"}
  THEN KindOf(o.framework) ELSE o.kind

\* plan, for what its flags do to each other.
PlanAccepted(o) ==
  /\ o.path # "create" => o.framework = ""
  /\ o.path = "create" => o.framework # "" /\ (o.framework = "other" <=> o.kind # "")
  /\ o.path = "" => o.kind # ""
  /\ o.migration = "given" => o.postgres
  /\ ~(o.postgres /\ PlannedKind(o) = "static-site")
  /\ o.previews => o.staging /\ o.path # ""

\* Mutant of ScopeMissing: left to GitHub.
ScopeLeftToGitHub(o, content) == FALSE
\* Pushing the deploy workflow needs the workflow scope.  A token that has permissions
\* in place of scopes is let through, whatever GitHub will say to the push.
ScopeMissing(o, content) ==
  o.scopesKnown /\ ~o.workflowScope /\ content.workflow = "none"

\* The template of a new repository.
NoFiles == [dockerfile |-> "none", dockerignore |-> "none", workflow |-> "none",
            config |-> "none", migrates |-> Nobody, framework |-> "other", tool |-> FALSE]
DetectedCommand(o) ==
  IF o.migration # "unset" THEN o.migration = "given" ELSE o.postgres /\ o.detected
Template(k, o) ==
  [dockerfile |-> "iidp", dockerignore |-> "iidp", workflow |-> "iidp", config |-> "iidp",
   migrates |-> IF DetectedCommand(o) THEN k ELSE Nobody,
   framework |-> o.framework, tool |-> FALSE]

-----------------------------------------------------------------------------
(* What Adopt makes of a repository.                                       *)

ResolveKind(explicit, c) ==
  IF explicit # "" THEN explicit
  ELSE IF c.dockerfile = "none" /\ c.framework # "other" THEN KindOf(c.framework) ELSE ""

FixesRoot(c, kind) ==
  c.dockerfile = "root" \/ (c.dockerfile = "nginx" /\ kind = "static-site")
Files(c, kind) ==
  (IF c.dockerfile = "none" THEN {"Dockerfile", ".dockerignore"}
   ELSE IF FixesRoot(c, kind) THEN {"Dockerfile"} ELSE {})
  \cup (IF c.workflow = "none" THEN {"deploy.yaml"} ELSE {})
  \cup (IF c.config = "none" THEN {"iidp.yaml"} ELSE {})

\* Mutant of MigrationCommand: what was detected, database or not.
MigrationCommandWhenDetected(o, c) ==
  IF o.migration # "unset" THEN o.migration = "given" ELSE c.tool
MigrationCommand(o, c) ==
  IF o.migration # "unset" THEN o.migration = "given" ELSE o.postgres /\ c.tool

KindRefused(o, c) ==
  ResolveKind(o.kind, c) = "" \/ (o.postgres /\ ResolveKind(o.kind, c) = "static-site")

AdoptRefuses(o, c) ==
  \/ KindRefused(o, c)
  \/ Files(c, ResolveKind(o.kind, c)) = {}
  \/ ScopeMissing(o, c)

\* What the branch will hold.
Adopted(k, o, c) ==
  LET files == Files(c, ResolveKind(o.kind, c))
  IN [c EXCEPT
        !.dockerfile = IF c.dockerfile = "none" THEN "iidp"
                       ELSE IF "Dockerfile" \in files THEN "fixed" ELSE @,
        !.dockerignore = IF ".dockerignore" \in files THEN "iidp" ELSE @,
        !.workflow = IF "deploy.yaml" \in files THEN "iidp" ELSE @,
        !.config = IF "iidp.yaml" \in files THEN "iidp" ELSE @,
        !.migrates = IF "iidp.yaml" \in files /\ MigrationCommand(o, c) THEN k ELSE @]

-----------------------------------------------------------------------------
(* A run, step by step.                                                    *)

At(k, state) == run[k].state = state
Goes(k, state) == run' = [run EXCEPT ![k].state = state]
GoesLeaving(k, state, left) == run' = [run EXCEPT ![k].state = state, ![k].left = left]

\* plan and the token's scopes, before anything is cloned or written.
Begin(k) ==
  /\ run[k] = NoRun /\ (k > 1 => run[k - 1] # NoRun)
  /\ \E o \in Options :
       run' = [run EXCEPT ![k] =
         [state |-> IF ~PlanAccepted(o) \/ (o.path = "create" /\ ScopeMissing(o, NoFiles))
                    THEN "refused" ELSE IF o.interactive THEN "summary" ELSE "check",
          opts |-> o, left |-> "nothing", kind |-> PlannedKind(o), id |-> 0,
          content |-> NoFiles]]
  /\ UNCHANGED <<github, made, app>>

\* The wizard's summary asks what the run will, and the developer.
PreviewRefuses(o) ==
  \/ /\ o.path = "adopt"
     /\ \/ ~Exists(o.repo) \/ ~github[o.repo].inOrg \/ ~github[o.repo].canPush
        \/ github[o.repo].branchBy # Nobody \/ github[o.repo].empty
        \/ KindRefused(o, github[o.repo].main) \/ ScopeMissing(o, github[o.repo].main)
  \/ app[o.name] # NoApp \/ ~o.writable

Summarise(k) ==
  /\ At(k, "summary")
  /\ IF PreviewRefuses(run[k].opts) THEN Goes(k, "refused")
                                    ELSE Goes(k, "check") \/ Goes(k, "declined")
  /\ UNCHANGED <<github, made, app>>

CheckAvailable(k) ==
  LET o == run[k].opts
  IN /\ At(k, "check")
     /\ IF o.path = "" THEN Goes(k, "write")
        ELSE IF app[o.name] # NoApp \/ (o.postgres /\ o.staging /\ ~o.sops)
        THEN Goes(k, "refused")
        ELSE Goes(k, IF o.path = "create" THEN "exists" ELSE "read")
     /\ UNCHANGED <<github, made, app>>

\* Create: the repository must be new,
RepositoryExists(k) ==
  /\ At(k, "exists")
  /\ Goes(k, IF Exists(run[k].opts.name) THEN "refused" ELSE "create")
  /\ UNCHANGED <<github, made, app>>

\* and GitHub makes it, empty, unless another came first.
CreateRepository(k) ==
  LET n == run[k].opts.name
  IN /\ At(k, "create") /\ ~Exists(n) /\ made < MaxRepos
     /\ made' = made + 1
     /\ \E default \in {"main", "master"} :
          github' = [github EXCEPT ![n] =
            [id |-> made + 1, madeBy |-> k, inOrg |-> TRUE, canPush |-> TRUE,
             default |-> default, empty |-> TRUE, main |-> NoFiles,
             branchBy |-> Nobody, branch |-> NoFiles, pr |-> Nobody, prs |-> {}]]
     /\ \/ run' = [run EXCEPT ![k].state = "push", ![k].left = "repository",
                              ![k].id = made + 1]
        \/ GoesLeaving(k, "failed", "repository")
     /\ UNCHANGED app

\* The first commit.  GitHub refuses the workflow to a token that may not write it.
PushTemplate(k) ==
  LET o == run[k].opts
  IN /\ At(k, "push") /\ Exists(o.name) /\ github[o.name].empty
     /\ IF o.workflowScope
        THEN /\ github' = [github EXCEPT ![o.name].empty = FALSE,
                                         ![o.name].main = Template(k, o)]
             /\ \/ Goes(k, IF github[o.name].default = "main" THEN "write" ELSE "default")
                \/ Goes(k, "failed")
        ELSE Goes(k, "refused") /\ UNCHANGED github
     /\ UNCHANGED <<made, app>>

\* Mutant of SetDefaultBranch: whatever GitHub made the default stays it.
SetNoDefaultBranch(k) ==
  /\ At(k, "default")
  /\ Goes(k, "write")
  /\ UNCHANGED <<github, made, app>>

SetDefaultBranch(k) ==
  LET n == run[k].opts.name
  IN /\ At(k, "default") /\ Exists(n)
     /\ github' = [github EXCEPT ![n].default = "main"]
     /\ Goes(k, "write") \/ Goes(k, "failed")
     /\ UNCHANGED <<made, app>>

\* Adopt: the repository as GitHub reports it, whose id will be the binding.
ReadRepository(k) ==
  LET o == run[k].opts
  IN /\ At(k, "read")
     /\ IF Exists(o.repo) /\ github[o.repo].inOrg /\ github[o.repo].canPush
              /\ github[o.repo].branchBy = Nobody
        THEN run' = [run EXCEPT ![k].state = "detect", ![k].id = github[o.repo].id]
        ELSE Goes(k, "refused")
     /\ UNCHANGED <<github, made, app>>

\* Its clone, and every check of that.
Detect(k) ==
  LET o == run[k].opts
      c == github[o.repo].main
  IN /\ At(k, "detect") /\ Exists(o.repo) /\ ~github[o.repo].empty
     /\ IF AdoptRefuses(o, c) THEN Goes(k, "refused")
        ELSE run' = [run EXCEPT ![k].state = "branch", ![k].kind = ResolveKind(o.kind, c),
                                ![k].content = Adopted(k, o, c)]
     /\ UNCHANGED <<github, made, app>>

Refused(k) == Goes(k, "refused") /\ UNCHANGED github

\* The push is refused when the branch has come to be since.
PushBranch(k) ==
  LET n == run[k].opts.repo
      pushesWorkflow == run[k].content.workflow = "iidp" /\ github[n].main.workflow # "iidp"
  IN /\ At(k, "branch") /\ Exists(n) /\ github[n].canPush /\ github[n].branchBy = Nobody
     /\ IF pushesWorkflow /\ ~run[k].opts.workflowScope THEN Refused(k)
        ELSE /\ github' = [github EXCEPT ![n].branch = run[k].content, ![n].branchBy = k]
             /\ GoesLeaving(k, "pr", "branch") \/ GoesLeaving(k, "failed", "branch")
     /\ UNCHANGED <<made, app>>

\* GitHub opens one pull request for a branch.
OpenPullRequest(k) ==
  LET n == run[k].opts.repo
  IN /\ At(k, "pr") /\ Exists(n) /\ github[n].branchBy # Nobody /\ github[n].pr = Nobody
     /\ github' = [github EXCEPT ![n].pr = k, ![n].prs = @ \cup {k}]
     /\ GoesLeaving(k, "write", "pull request") \/ GoesLeaving(k, "failed", "pull request")
     /\ UNCHANGED <<made, app>>

\* The Writer's clone, checks, commit and push, with its retry.
NewApplication(k) ==
  LET o == run[k].opts
  IN [by |-> k, path |-> o.path, repo |-> run[k].id, kind |-> run[k].kind,
      postgres |-> o.postgres, staging |-> o.staging, previews |-> o.previews]

WriteApplication(k) ==
  LET o == run[k].opts
  IN /\ At(k, "write")
     /\ IF app[o.name] # NoApp \/ ~o.writable THEN Goes(k, "refused") /\ UNCHANGED app
        ELSE /\ app' = [app EXCEPT ![o.name] = NewApplication(k)]
             /\ Goes(k, "done") \/ Goes(k, "failed")
     /\ UNCHANGED <<github, made>>

\* Any call may fail with no effect, and so does one whose conditions do not hold.
Fail(k) ==
  /\ run[k] # NoRun /\ run[k].state \in Steps
  /\ Goes(k, "failed")
  /\ UNCHANGED <<github, made, app>>

-----------------------------------------------------------------------------
(* What others do.                                                         *)

MakeRepository(n) ==
  /\ ~Exists(n) /\ made < MaxRepos
  /\ made' = made + 1
  /\ \E c \in Contents, canPush \in BOOLEAN :
       github' = [github EXCEPT ![n] =
         [id |-> made + 1, madeBy |-> Nobody, inOrg |-> TRUE, canPush |-> canPush,
          default |-> "main", empty |-> FALSE, main |-> c,
          branchBy |-> Nobody, branch |-> NoFiles, pr |-> Nobody, prs |-> {}]]
  /\ UNCHANGED <<app, run>>

Over(k) == k # Nobody => run[k].state \in Outcomes

\* A pull request is merged or closed, and its branch kept or deleted.
EndPullRequest(n) ==
  /\ Exists(n) /\ github[n].pr # Nobody /\ Over(github[n].pr)
  /\ \E main \in {github[n].main, github[n].branch}, kept \in BOOLEAN :
       github' = [github EXCEPT ![n].pr = Nobody, ![n].main = main,
                                ![n].branchBy = IF kept THEN @ ELSE Nobody]
  /\ UNCHANGED <<made, app, run>>

DeleteBranch(n) ==
  /\ Exists(n) /\ github[n].pr = Nobody /\ github[n].branchBy # Nobody
  /\ Over(github[n].branchBy)
  /\ github' = [github EXCEPT ![n].branchBy = Nobody]
  /\ UNCHANGED <<made, app, run>>

\* What a run left is deleted to run it again; so may any repository be that no
\* Application is bound to and no run has written to and goes on.
DeleteRepository(n) ==
  /\ Exists(n) /\ Over(github[n].madeBy) /\ Over(github[n].branchBy)
  /\ ~ \E m \in Name : app[m] # NoApp /\ app[m].repo = github[n].id
  /\ github' = [github EXCEPT ![n] = NoRepository]
  /\ UNCHANGED <<made, app, run>>

Transfer(n) ==
  /\ Exists(n) /\ github[n].inOrg /\ github[n].madeBy = Nobody
  /\ github' = [github EXCEPT ![n].inOrg = FALSE]
  /\ UNCHANGED <<made, app, run>>

\* iidp app bind, of an Application that was made without a repository.
Bind(m, n) ==
  /\ app[m] # NoApp /\ app[m].repo = 0
  /\ Exists(n) /\ github[n].inOrg
  /\ app' = [app EXCEPT ![m].repo = github[n].id]
  /\ UNCHANGED <<github, made, run>>

AppCreateNext ==
  \/ \E k \in Run :
       \/ Begin(k) \/ Summarise(k) \/ CheckAvailable(k)
       \/ RepositoryExists(k) \/ CreateRepository(k) \/ PushTemplate(k) \/ SetDefaultBranch(k)
       \/ ReadRepository(k) \/ Detect(k) \/ PushBranch(k) \/ OpenPullRequest(k)
       \/ WriteApplication(k) \/ Fail(k)
  \/ \E n \in Repo :
       \/ MakeRepository(n) \/ EndPullRequest(n) \/ DeleteBranch(n)
       \/ DeleteRepository(n) \/ Transfer(n)
  \/ \E m \in Name, n \in Repo : Bind(m, n)

AppCreateSpec == AppCreateInit /\ [][AppCreateNext]_createVars

-----------------------------------------------------------------------------
(* What must hold.                                                         *)

\* An Application the Platform has is bound to the very repository its run made,
\* which holds the template on its default branch main, or to the one its run opened
\* a pull request on: never to another of that name.  And that pull request is open on
\* the branch the same run pushed, so that of two runs at most one gets as far.
ApplicationsHaveTheirRepository ==
  /\ \A m \in Name, n \in Repo :
       (app[m] # NoApp /\ Exists(n) /\ app[m].repo = github[n].id) =>
         CASE app[m].path = "create" ->
                github[n].madeBy = app[m].by /\ ~github[n].empty /\ github[n].default = "main"
           [] app[m].path = "adopt" -> app[m].by \in github[n].prs
           [] app[m].path = "" -> TRUE
  /\ \A n \in Repo : Exists(n) /\ github[n].pr # Nobody => github[n].branchBy = github[n].pr

\* A repository that must stay empty, since the token may not push a workflow and only
\* the push could tell.
RefusedByGitHubAlone(r) ==
  /\ r.opts.path = "create" /\ ~r.opts.workflowScope /\ ~r.opts.scopesKnown
  /\ r.left = "repository"

\* Every check comes before anything is made.  A run that is refused and leaves
\* something on GitHub lost the name to another while it ran; or, without the wizard's
\* summary, was given what only the Writer checks; or has left the repository alone, for
\* GitHub refused the first push of a token whose scopes it does not tell.
RefusalsComeFirst ==
  \A k \in Run : (run[k] # NoRun /\ run[k].state = "refused" /\ run[k].left # "nothing") =>
    \/ app[run[k].opts.name] # NoApp
    \/ ~run[k].opts.interactive /\ ~run[k].opts.writable
    \/ RefusedByGitHubAlone(run[k])

\* Everything keeps its type; a run that says it is done left its Application on the
\* Platform; and an Application's database fits its Kind, and the migration command its
\* run put into the repository, which deploys send, its database.
ApplicationsFit ==
  /\ AppCreateTypeOK
  /\ \A k \in Run : (run[k] # NoRun /\ run[k].state = "done") => app[run[k].opts.name].by = k
  /\ \A m \in Name : app[m] # NoApp =>
       /\ app[m].kind = "static-site" => ~app[m].postgres
       /\ app[m].previews => app[m].repo # 0 /\ app[m].staging
       /\ \A n \in Repo :
            Exists(n) /\ app[m].by \in {github[n].main.migrates, github[n].branch.migrates}
              => app[m].postgres
=============================================================================
