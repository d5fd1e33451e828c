-------------------------- MODULE AppCreate_proofs --------------------------
(***************************************************************************)
(* That an Application and its repository fit each other, for any number   *)
(* of runs of iidp app create, of repositories and of people who make,     *)
(* transfer and delete them.                                               *)
(*                                                                         *)
(* The invariant says what a run may rely on between its steps: nobody     *)
(* deletes the repository or the branch a run made while it goes on        *)
(* (Placed), and the id it read belongs to no other repository, ever.      *)
(***************************************************************************)
EXTENDS AppCreate, TLAPS

RepoRecord ==
  [id : Nat \ {0}, madeBy : Run \cup {Nobody}, inOrg : BOOLEAN, canPush : BOOLEAN,
   default : {"main", "master"}, empty : BOOLEAN, main : Content,
   branchBy : Run \cup {Nobody}, branch : Content, pr : Run \cup {Nobody}, prs : SUBSET Run]
AppRecord ==
  [by : Run, path : {"", "create", "adopt"}, repo : Nat, kind : Kind,
   postgres : BOOLEAN, staging : BOOLEAN, previews : BOOLEAN]
RunRecord ==
  [state : Steps \cup Outcomes, opts : Options,
   left : {"nothing", "repository", "branch", "pull request"},
   kind : Kind \cup {""}, id : Nat, content : Content]

Types ==
  /\ made \in 0 .. MaxRepos
  /\ github \in [Repo -> RepoRecord \cup {NoRepository}]
  /\ app \in [Name -> AppRecord \cup {NoApp}]
  /\ run \in [Run -> RunRecord \cup {NoRun}]

(* What a run's own record says of its answers. *)
Planned(r) ==
  /\ r.state # "refused" =>
       /\ PlanAccepted(r.opts)
       /\ r.opts.path = "create" => r.opts.workflowScope \/ ~r.opts.scopesKnown
       /\ r.kind = "static-site" => ~r.opts.postgres
       /\ r.opts.path # "adopt" \/ r.state \in {"branch", "pr", "write"} => r.kind \in Kind
  /\ r.opts.interactive /\ r.state \in Steps \ {"summary"} => r.opts.writable
  /\ r.state \in {"summary", "check", "exists", "create", "read", "detect", "branch", "declined"}
       => r.left = "nothing"
  /\ r.state \in {"exists", "create", "push", "default"} => r.opts.path = "create"
  /\ r.state = "push" => r.left = "repository"
  /\ r.state \in {"read", "detect", "branch", "pr"} => r.opts.path = "adopt"
  /\ r.state \in {"push", "default", "detect", "branch", "pr"} => r.id # 0
  /\ r.state = "write" /\ r.opts.path # "" => r.id # 0

(* Where the repository of a run is, while it goes on. *)
Created(k) ==
  LET n == run[k].opts.name IN
  run[k].state \in {"push", "default", "write"} /\ run[k].opts.path = "create" =>
    /\ Exists(n) /\ github[n].id = run[k].id /\ github[n].madeBy = k
    /\ run[k].state \in {"default", "write"} => ~github[n].empty
    /\ run[k].state = "write" => github[n].default = "main"

AdoptedIn(k) ==
  LET n == run[k].opts.repo IN
  /\ run[k].state \in {"detect", "branch", "pr", "write"} /\ run[k].opts.path = "adopt" =>
       \A m \in Repo : Exists(m) /\ github[m].id = run[k].id => m = n
  /\ run[k].state = "pr" => Exists(n) /\ github[n].branchBy = k
  /\ run[k].state = "write" /\ run[k].opts.path = "adopt" =>
       (Exists(n) /\ github[n].id = run[k].id => k \in github[n].prs)

Placed(k) == Created(k) /\ AdoptedIn(k)

(* How a run that ended left the Platform. *)
Told(k) ==
  LET o == run[k].opts IN
  /\ run[k].state = "refused" /\ run[k].left # "nothing" =>
       app[o.name] # NoApp \/ (~o.interactive /\ ~o.writable) \/ RefusedByGitHubAlone(run[k])
  /\ run[k].state = "done" => app[o.name] # NoApp /\ app[o.name].by = k

(* A migration command is of a run with a database. *)
Migrates(j) == j # Nobody => run[j] # NoRun /\ run[j].opts.postgres

RunOf(k) ==
  run[k] # NoRun =>
    /\ run[k].id <= made
    /\ Planned(run[k]) /\ Placed(k) /\ Told(k) /\ Migrates(run[k].content.migrates)

RepoOf(n) ==
  Exists(n) =>
    /\ github[n].id <= made
    /\ github[n].pr # Nobody => github[n].branchBy = github[n].pr
    /\ Migrates(github[n].main.migrates) /\ Migrates(github[n].branch.migrates)

UniqueIds ==
  \A n, m \in Repo : Exists(n) /\ Exists(m) /\ github[n].id = github[m].id => n = m

(* The repository n is what the Application a needs of the one it is bound to. *)
Serves(n, a) ==
  /\ a.path = "create" => /\ github[n].madeBy = a.by
                          /\ ~github[n].empty /\ github[n].default = "main"
  /\ a.path = "adopt" => a.by \in github[n].prs

AppOf(m) ==
  app[m] # NoApp =>
    /\ app[m].repo <= made
    /\ run[app[m].by] # NoRun /\ (app[m].postgres <=> run[app[m].by].opts.postgres)
    /\ app[m].path # "" => app[m].repo # 0
    /\ app[m].kind = "static-site" => ~app[m].postgres
    /\ app[m].previews => app[m].repo # 0 /\ app[m].staging
    /\ \A n \in Repo : Exists(n) /\ app[m].repo = github[n].id => Serves(n, app[m])

CreateInv ==
  /\ Types
  /\ UniqueIds
  /\ \A k \in Run : RunOf(k)
  /\ \A n \in Repo : RepoOf(n)
  /\ \A m \in Name : AppOf(m)

-----------------------------------------------------------------------------
(* The records *)

LEMMA RecordsDiffer ==
  /\ Nobody \notin Run
  /\ NoRepository \notin RepoRecord /\ NoApp \notin AppRecord /\ NoRun \notin RunRecord
  /\ \A r \in RepoRecord : r # NoRepository
  /\ \A a \in AppRecord : a # NoApp
  /\ \A r \in RunRecord : r # NoRun
<1>1. Nobody \notin Run
  BY DEF Nobody, Run
<1>2. ASSUME NEW r \in RepoRecord PROVE r # NoRepository
  <2>1. r.id # 0 /\ NoRepository.id = 0
    BY DEF RepoRecord, NoRepository
  <2> QED
    BY <2>1
<1>3. ASSUME NEW a \in AppRecord PROVE a # NoApp
  <2>1. a.by \in Run /\ NoApp.by = Nobody
    BY DEF AppRecord, NoApp
  <2> QED
    BY <1>1, <2>1
<1>4. ASSUME NEW r \in RunRecord PROVE r # NoRun
  <2>1. r.state \in Steps \cup Outcomes /\ NoRun.state = "none"
    BY DEF RunRecord, NoRun
  <2> QED
    BY <2>1 DEF Steps, Outcomes
<1> QED
  BY <1>1, <1>2, <1>3, <1>4

LEMMA MadeIsNat == Types => made \in Nat
BY AppCreateAssumption DEF Types

LEMMA ContentsType ==
  /\ NoFiles \in Content /\ NoFiles.migrates = Nobody /\ NoFiles.workflow = "none"
  /\ \A c \in Contents : c \in Content /\ c.migrates = Nobody
BY ContentsAssumption DEF NoFiles, Content, Framework

LEMMA OptionTypes ==
  ASSUME NEW o \in Options
  PROVE  /\ o.path \in {"", "create", "adopt"} /\ o.name \in Name /\ o.repo \in Repo
         /\ o.framework \in Framework \cup {""} /\ o.kind \in Kind \cup {""}
         /\ o.postgres \in BOOLEAN /\ o.staging \in BOOLEAN /\ o.previews \in BOOLEAN
         /\ o.path = "create" => o.name \in Repo
BY OptionsAssumption DEF Option

LEMMA PlannedKindType ==
  ASSUME NEW o \in Options
  PROVE  /\ PlannedKind(o) \in Kind \cup {""}
         /\ PlanAccepted(o) => /\ PlannedKind(o) = "static-site" => ~o.postgres
                               /\ o.path # "adopt" => PlannedKind(o) \in Kind
<1>1. PlannedKind(o) \in Kind \cup {""}
  BY OptionTypes DEF PlannedKind, KindOf, Kind
<1>2. ASSUME PlanAccepted(o), o.path # "adopt" PROVE PlannedKind(o) \in Kind
  <2>1. CASE o.path = ""
    BY <1>2, <2>1, OptionTypes DEF PlanAccepted, PlannedKind
  <2>2. CASE o.path = "create" /\ o.framework \in {"nextjs", "vite-react"}
    BY <2>2 DEF PlannedKind, KindOf, Kind
  <2>3. CASE o.path = "create" /\ o.framework \notin {"nextjs", "vite-react"}
    BY <1>2, <2>3, OptionTypes DEF PlanAccepted, PlannedKind, Framework
  <2> QED
    BY <1>2, <2>1, <2>2, <2>3, OptionTypes
<1>3. PlanAccepted(o) => (PlannedKind(o) = "static-site" => ~o.postgres)
  BY DEF PlanAccepted
<1> QED
  BY <1>1, <1>2, <1>3

LEMMA TemplateType ==
  ASSUME NEW k \in Run, NEW o \in Options, PlanAccepted(o), o.path = "create"
  PROVE  /\ Template(k, o) \in Content
         /\ Template(k, o).migrates \in {k, Nobody}
         /\ Template(k, o).migrates = k => o.postgres
<1>1. o.framework \in Framework
  BY OptionTypes DEF PlanAccepted
<1>2. DetectedCommand(o) => o.postgres
  BY DEF DetectedCommand, PlanAccepted
<1> DEFINE who == IF DetectedCommand(o) THEN k ELSE Nobody
<1>3. who \in {k, Nobody} /\ (who = k => o.postgres)
  BY <1>2, RecordsDiffer
<1>4. Template(k, o).migrates = who
  BY DEF Template
<1>5. Template(k, o) \in Content
  BY <1>1, <1>3 DEF Template, Content
<1> QED
  BY <1>3, <1>4, <1>5

LEMMA AdoptedType ==
  ASSUME NEW k \in Run, NEW o \in Options, PlanAccepted(o), NEW c \in Content,
         ~AdoptRefuses(o, c)
  PROVE  /\ Adopted(k, o, c) \in Content
         /\ Adopted(k, o, c).migrates \in {k, c.migrates}
         /\ Adopted(k, o, c).migrates = k => o.postgres \/ c.migrates = k
         /\ ResolveKind(o.kind, c) \in Kind
         /\ ResolveKind(o.kind, c) = "static-site" => ~o.postgres
<1>1. MigrationCommand(o, c) => o.postgres
  BY DEF MigrationCommand, PlanAccepted
<1> DEFINE files == Files(c, ResolveKind(o.kind, c))
           who == IF "iidp.yaml" \in files /\ MigrationCommand(o, c) THEN k ELSE c.migrates
<1>2. who \in {k, c.migrates} /\ (who = k => o.postgres \/ c.migrates = k)
  BY <1>1
<1>3. Adopted(k, o, c).migrates = who
  BY DEF Adopted, Content
<1>4. Adopted(k, o, c) \in Content
  <2>1. c.migrates \in Run \cup {Nobody}
    BY DEF Content
  <2>2. who \in Run \cup {Nobody}
    BY <1>2, <2>1
  <2>3. PICK file \in {"none", "fine", "root", "nginx", "odd", "iidp", "fixed"},
             ignore \in {"none", "theirs", "iidp"}, flow \in {"none", "theirs", "iidp"},
             conf \in {"none", "theirs", "iidp"} :
          /\ file = IF c.dockerfile = "none" THEN "iidp"
                    ELSE IF "Dockerfile" \in files THEN "fixed" ELSE c.dockerfile
          /\ ignore = IF ".dockerignore" \in files THEN "iidp" ELSE c.dockerignore
          /\ flow = IF "deploy.yaml" \in files THEN "iidp" ELSE c.workflow
          /\ conf = IF "iidp.yaml" \in files THEN "iidp" ELSE c.config
    <3> HIDE DEF files
    <3> QED
      BY DEF Content
  <2>4. Adopted(k, o, c) = [c EXCEPT !.dockerfile = file, !.dockerignore = ignore,
                                     !.workflow = flow, !.config = conf, !.migrates = who]
    BY <2>3 DEF Adopted
  <2> HIDE DEF who
  <2> QED
    BY <2>2, <2>4 DEF Content
<1>5. ResolveKind(o.kind, c) # "" /\ (ResolveKind(o.kind, c) = "static-site" => ~o.postgres)
  BY DEF AdoptRefuses, KindRefused
<1>6. ResolveKind(o.kind, c) \in Kind \cup {""}
  BY OptionTypes DEF ResolveKind, KindOf, Kind
<1> QED
  BY <1>2, <1>3, <1>4, <1>5, <1>6

-----------------------------------------------------------------------------
(* How repositories change, whoever changes them *)

Absent(n) == ~Exists(n) /\ ~Exists(n)'
Made(n) == ~Exists(n) /\ Exists(n)' /\ github'[n].id = made + 1 /\ made' = made + 1
Gone(n) == Exists(n) /\ ~Exists(n)' /\ Over(github[n].madeBy) /\ Over(github[n].branchBy)
Edited(n) ==
  /\ Exists(n) /\ Exists(n)'
  /\ github'[n].id = github[n].id /\ github'[n].madeBy = github[n].madeBy
  /\ github[n].default = "main" => github'[n].default = "main"
  /\ ~github[n].empty => ~github'[n].empty
  /\ github[n].prs \subseteq github'[n].prs
  /\ github'[n].branchBy = github[n].branchBy \/ Over(github[n].branchBy)

Evolves ==
  /\ made \in Nat /\ made' \in Nat /\ made <= made'
  /\ \A n \in Repo : Absent(n) \/ Made(n) \/ Gone(n) \/ Edited(n)
  /\ \A n, m \in Repo : Made(n) /\ Made(m) => n = m

AppsGrow == \A m \in Name : app[m] # NoApp => app'[m] # NoApp /\ app'[m].by = app[m].by
RunsGrow == \A k \in Run : run[k] # NoRun => run'[k] # NoRun /\ run'[k].opts = run[k].opts

LEMMA NothingChanges ==
  ASSUME Types, github' = github, made' = made
  PROVE  Evolves
<1>1. ASSUME NEW n \in Repo PROVE (Absent(n) \/ Edited(n)) /\ ~Made(n)
  <2>1. Exists(n)' <=> Exists(n)
    BY DEF Exists
  <2> QED
    BY <2>1 DEF Absent, Edited, Made
<1>2. made \in Nat
  BY DEF Types
<1> QED
  BY <1>1, <1>2 DEF Evolves

LEMMA RepositoryAppears ==
  ASSUME Types, NEW n \in Repo, ~Exists(n), made < MaxRepos, made' = made + 1,
         NEW r \in RepoRecord, r.id = made + 1, github' = [github EXCEPT ![n] = r]
  PROVE  Evolves
<1>1. made \in Nat
  BY DEF Types
<1>2. ASSUME NEW m \in Repo, m # n PROVE (Absent(m) \/ Edited(m)) /\ ~Made(m)
  <2>1. github'[m] = github[m]
    BY <1>2 DEF Types
  <2>2. Exists(m)' <=> Exists(m)
    BY <2>1 DEF Exists
  <2> QED
    BY <2>1, <2>2 DEF Absent, Edited, Made
<1>3. Made(n)
  <2>1. github'[n] = r /\ r # NoRepository
    BY RecordsDiffer DEF Types
  <2> QED
    BY <2>1 DEF Made, Exists
<1> QED
  BY <1>1, <1>2, <1>3 DEF Evolves

LEMMA RepositoryIsEdited ==
  ASSUME Types, NEW n \in Repo, Exists(n), made' = made,
         NEW r \in RepoRecord, github' = [github EXCEPT ![n] = r],
         r.id = github[n].id, r.madeBy = github[n].madeBy,
         github[n].default = "main" => r.default = "main",
         ~github[n].empty => ~r.empty,
         github[n].prs \subseteq r.prs,
         r.branchBy = github[n].branchBy \/ Over(github[n].branchBy)
  PROVE  Evolves
<1>1. made \in Nat
  BY DEF Types
<1>2. ASSUME NEW m \in Repo, m # n PROVE (Absent(m) \/ Edited(m)) /\ ~Made(m)
  <2>1. github'[m] = github[m]
    BY <1>2 DEF Types
  <2>2. Exists(m)' <=> Exists(m)
    BY <2>1 DEF Exists
  <2> QED
    BY <2>1, <2>2 DEF Absent, Edited, Made
<1>3. Edited(n) /\ ~Made(n)
  <2>1. github'[n] = r /\ r # NoRepository
    BY RecordsDiffer DEF Types
  <2> QED
    BY <2>1 DEF Edited, Made, Exists
<1> QED
  BY <1>1, <1>2, <1>3 DEF Evolves

LEMMA RepositoryGoes ==
  ASSUME Types, NEW n \in Repo, Exists(n), made' = made,
         Over(github[n].madeBy), Over(github[n].branchBy),
         github' = [github EXCEPT ![n] = NoRepository]
  PROVE  Evolves
<1>1. made \in Nat
  BY DEF Types
<1>2. ASSUME NEW m \in Repo, m # n PROVE (Absent(m) \/ Edited(m)) /\ ~Made(m)
  <2>1. github'[m] = github[m]
    BY <1>2 DEF Types
  <2>2. Exists(m)' <=> Exists(m)
    BY <2>1 DEF Exists
  <2> QED
    BY <2>1, <2>2 DEF Absent, Edited, Made
<1>3. Gone(n) /\ ~Made(n)
  <2>1. github'[n] = NoRepository
    BY DEF Types
  <2> QED
    BY <2>1 DEF Gone, Made, Exists
<1> QED
  BY <1>1, <1>2, <1>3 DEF Evolves

LEMMA IdsStayUnique ==
  ASSUME UniqueIds, \A n \in Repo : RepoOf(n), Evolves
  PROVE  UniqueIds'
<1> SUFFICES ASSUME NEW n \in Repo, NEW m \in Repo, Exists(n)', Exists(m)',
                    github'[n].id = github'[m].id
             PROVE  n = m
  BY DEF UniqueIds
<1>1. /\ Made(n) \/ Edited(n)
      /\ Made(m) \/ Edited(m)
  BY DEF Evolves, Absent, Gone
<1>2. ASSUME NEW x \in Repo, Edited(x) PROVE github'[x].id = github[x].id /\ github[x].id <= made
  BY <1>2 DEF Edited, RepoOf
<1>3. CASE Made(n) /\ Made(m)
  BY <1>3 DEF Evolves
<1>4. CASE Edited(n) /\ Edited(m)
  BY <1>2, <1>4 DEF Edited, UniqueIds
<1>5. ~(Made(n) /\ Edited(m)) /\ ~(Made(m) /\ Edited(n))
  BY <1>2 DEF Made, Evolves
<1> QED
  BY <1>1, <1>3, <1>4, <1>5

-----------------------------------------------------------------------------
(* The runs, Applications and repositories a step is not of *)

LEMMA MigratesStays ==
  ASSUME RunsGrow, NEW j \in Run \cup {Nobody}, Migrates(j)
  PROVE  Migrates(j)'
BY DEF RunsGrow, Migrates

LEMMA RunBystands ==
  ASSUME Types, NEW k \in Run, RunOf(k), run'[k] = run[k], Evolves, AppsGrow, RunsGrow
  PROVE  RunOf(k)'
<1> SUFFICES ASSUME run[k] # NoRun
             PROVE  /\ run[k].id <= made'
                    /\ Planned(run[k]) /\ Placed(k)' /\ Told(k)'
                    /\ Migrates(run[k].content.migrates)'
  BY DEF RunOf
<1>1. /\ run[k].id <= made /\ Planned(run[k]) /\ Placed(k) /\ Told(k)
      /\ Migrates(run[k].content.migrates)
  BY DEF RunOf
<1>2. run[k] \in RunRecord /\ run[k].opts \in Options /\ run[k].id \in Nat
      /\ run[k].content \in Content
  BY DEF Types, RunRecord
<1>3. run[k].id <= made'
  BY <1>1, <1>2 DEF Evolves
<1>4. Migrates(run[k].content.migrates)'
  <2>1. PICK j \in Run \cup {Nobody} : j = run[k].content.migrates
    BY <1>2 DEF Content
  <2>2. Migrates(j)'
    BY <1>1, <2>1, MigratesStays
  <2> QED
    BY <2>1, <2>2 DEF Migrates
<1>5. Told(k)'
  <2>1. run[k].opts.name \in Name
    BY <1>2, OptionTypes
  <2> QED
    BY <1>1, <2>1 DEF Told, AppsGrow
<1>6. Created(k)'
  <2> SUFFICES ASSUME run[k].state \in {"push", "default", "write"}, run[k].opts.path = "create"
               PROVE  LET n == run[k].opts.name IN
                      /\ Exists(n)' /\ github'[n].id = run[k].id /\ github'[n].madeBy = k
                      /\ run[k].state \in {"default", "write"} => ~github'[n].empty
                      /\ run[k].state = "write" => github'[n].default = "main"
    BY DEF Created, Exists
  <2> DEFINE n == run[k].opts.name
  <2>1. n \in Repo
    BY <1>2, OptionTypes
  <2>2. /\ Exists(n) /\ github[n].id = run[k].id /\ github[n].madeBy = k
        /\ run[k].state \in {"default", "write"} => ~github[n].empty
        /\ run[k].state = "write" => github[n].default = "main"
    BY <1>1 DEF Placed, Created
  <2>3. ~Over(k)
    BY RecordsDiffer DEF Over, Outcomes
  <2>4. Edited(n)
    BY <2>1, <2>2, <2>3 DEF Evolves, Absent, Made, Gone
  <2> QED
    BY <2>2, <2>4 DEF Edited
<1>7. AdoptedIn(k)'
  <2> DEFINE n == run[k].opts.repo
  <2>1. n \in Repo
    BY <1>2, OptionTypes
  <2>2. AdoptedIn(k)
    BY <1>1 DEF Placed
  <2>3. ASSUME NEW m \in Repo, Exists(m)', github'[m].id = run[k].id PROVE Edited(m)
    BY <1>1, <1>2, <2>3 DEF Evolves, Absent, Made, Gone
  <2>4. ASSUME run[k].state \in {"detect", "branch", "pr", "write"}, run[k].opts.path = "adopt",
               NEW m \in Repo, Exists(m)', github'[m].id = run[k].id
        PROVE  m = n
    BY <2>2, <2>3, <2>4 DEF AdoptedIn, Edited
  <2>5. ASSUME run[k].state = "pr" PROVE Exists(n)' /\ github'[n].branchBy = k
    <3>1. Exists(n) /\ github[n].branchBy = k
      BY <2>2, <2>5 DEF AdoptedIn
    <3>2. ~Over(k)
      BY <2>5, RecordsDiffer DEF Over, Outcomes
    <3>3. Edited(n)
      BY <2>1, <3>1, <3>2 DEF Evolves, Absent, Made, Gone
    <3> QED
      BY <3>1, <3>2, <3>3 DEF Edited
  <2>6. ASSUME run[k].state = "write", run[k].opts.path = "adopt",
               Exists(n)', github'[n].id = run[k].id
        PROVE  k \in github'[n].prs
    <3>1. Edited(n)
      BY <2>1, <2>3, <2>6
    <3>2. k \in github[n].prs
      BY <2>2, <2>6, <3>1 DEF AdoptedIn, Edited
    <3> QED
      BY <3>1, <3>2 DEF Edited
  <2> QED
    BY <2>4, <2>5, <2>6 DEF AdoptedIn, Exists
<1> QED
  BY <1>1, <1>3, <1>4, <1>5, <1>6, <1>7 DEF Placed

LEMMA AppBystands ==
  ASSUME Types, NEW m \in Name, AppOf(m), app'[m] = app[m], Evolves, RunsGrow
  PROVE  AppOf(m)'
<1> SUFFICES ASSUME app[m] # NoApp
             PROVE  /\ app[m].repo <= made'
                    /\ run'[app[m].by] # NoRun
                    /\ app[m].postgres <=> run'[app[m].by].opts.postgres
                    /\ app[m].path # "" => app[m].repo # 0
                    /\ app[m].kind = "static-site" => ~app[m].postgres
                    /\ app[m].previews => app[m].repo # 0 /\ app[m].staging
                    /\ \A n \in Repo : Exists(n)' /\ app[m].repo = github'[n].id
                         => Serves(n, app[m])'
  BY DEF AppOf, Serves
<1>1. app[m] \in AppRecord /\ app[m].by \in Run /\ app[m].repo \in Nat
  BY DEF Types, AppRecord
<1>2. /\ app[m].repo <= made /\ run[app[m].by] # NoRun
      /\ \A n \in Repo : Exists(n) /\ app[m].repo = github[n].id => Serves(n, app[m])
  BY DEF AppOf
<1>6. /\ app[m].postgres <=> run[app[m].by].opts.postgres
      /\ app[m].path # "" => app[m].repo # 0
      /\ app[m].kind = "static-site" => ~app[m].postgres
      /\ app[m].previews => app[m].repo # 0 /\ app[m].staging
  BY DEF AppOf
<1>3. app[m].repo <= made'
  BY <1>1, <1>2 DEF Evolves
<1>4. run'[app[m].by] # NoRun /\ run'[app[m].by].opts = run[app[m].by].opts
  BY <1>1, <1>2 DEF RunsGrow
<1>5. ASSUME NEW n \in Repo, Exists(n)', app[m].repo = github'[n].id PROVE Serves(n, app[m])'
  <2>1. Edited(n)
    BY <1>1, <1>2, <1>5 DEF Evolves, Absent, Made, Gone
  <2>2. Serves(n, app[m])
    BY <1>2, <1>5, <2>1 DEF Edited
  <2> QED
    BY <2>1, <2>2 DEF Serves, Edited
<1> QED
  BY <1>3, <1>4, <1>5, <1>6

LEMMA RepoBystands ==
  ASSUME Types, NEW n \in Repo, RepoOf(n), github'[n] = github[n], Evolves, RunsGrow
  PROVE  RepoOf(n)'
<1> SUFFICES ASSUME Exists(n)
             PROVE  /\ github[n].id <= made'
                    /\ github[n].pr # Nobody => github[n].branchBy = github[n].pr
                    /\ Migrates(github[n].main.migrates)' /\ Migrates(github[n].branch.migrates)'
  BY DEF RepoOf, Exists
<1>1. /\ github[n] \in RepoRecord /\ github[n].id \in Nat
      /\ github[n].main.migrates \in Run \cup {Nobody}
      /\ github[n].branch.migrates \in Run \cup {Nobody}
  BY DEF Types, RepoRecord, Exists, Content
<1>2. github[n].id <= made'
  BY <1>1 DEF RepoOf, Evolves
<1>3. ASSUME NEW j \in Run \cup {Nobody}, Migrates(j) PROVE Migrates(j)'
  BY <1>3, MigratesStays
<1>4. PICK i, j \in Run \cup {Nobody} : i = github[n].main.migrates /\ j = github[n].branch.migrates
  BY <1>1
<1>5. Migrates(i)' /\ Migrates(j)'
  BY <1>3, <1>4 DEF RepoOf
<1> QED
  BY <1>2, <1>4, <1>5 DEF RepoOf, Migrates

-----------------------------------------------------------------------------
(* A step keeps the invariant if it does for the run, the repository and   *)
(* the Application that it is of.                                          *)

LEMMA StepKeeps ==
  ASSUME CreateInv, Types', Evolves, AppsGrow, RunsGrow,
         \A k \in Run : run'[k] = run[k] \/ RunOf(k)',
         \A n \in Repo : github'[n] = github[n] \/ RepoOf(n)',
         \A m \in Name : app'[m] = app[m] \/ AppOf(m)'
  PROVE  CreateInv'
<1>1. /\ Types /\ UniqueIds
      /\ \A k \in Run : RunOf(k)
      /\ \A n \in Repo : RepoOf(n)
      /\ \A m \in Name : AppOf(m)
  BY DEF CreateInv
<1>2. UniqueIds'
  BY <1>1, IdsStayUnique
<1>3. \A k \in Run : RunOf(k)'
  BY <1>1, RunBystands
<1>4. \A n \in Repo : RepoOf(n)'
  BY <1>1, RepoBystands
<1>5. \A m \in Name : AppOf(m)'
  BY <1>1, AppBystands
<1> QED
  BY <1>2, <1>3, <1>4, <1>5 DEF CreateInv

-----------------------------------------------------------------------------
(* A run's step *)

(* k comes to be in state s, leaving l, and is otherwise as it was. *)
Turned(k, s, l) ==
  /\ run'[k] \in RunRecord /\ run' = [run EXCEPT ![k] = run'[k]]
  /\ run'[k].state = s /\ run'[k].left = l
  /\ run'[k].opts = run[k].opts /\ run'[k].content = run[k].content
  /\ run'[k].kind = run[k].kind /\ run'[k].id = run[k].id

LEMMA GoesTurns ==
  ASSUME Types, NEW k \in Run, run[k] # NoRun, NEW s \in Steps \cup Outcomes
  PROVE  /\ Goes(k, s) => Turned(k, s, run[k].left)
         /\ \A l \in {"nothing", "repository", "branch", "pull request"} :
              GoesLeaving(k, s, l) => Turned(k, s, l)
<1>1. run[k] \in RunRecord /\ DOMAIN run = Run
  BY DEF Types
<1>2. ASSUME Goes(k, s) PROVE Turned(k, s, run[k].left)
  <2>1. run' = [run EXCEPT ![k] = [run[k] EXCEPT !.state = s]]
    BY <1>2 DEF Goes
  <2>2. run'[k] = [run[k] EXCEPT !.state = s]
    BY <1>1, <2>1
  <2>3. run'[k] \in RunRecord
    BY <1>1, <2>2 DEF RunRecord
  <2>4. run' = [run EXCEPT ![k] = run'[k]]
    BY <2>1, <2>2
  <2> QED
    BY <1>1, <2>2, <2>3, <2>4 DEF Turned, RunRecord
<1>3. ASSUME NEW l \in {"nothing", "repository", "branch", "pull request"}, GoesLeaving(k, s, l)
      PROVE  Turned(k, s, l)
  <2>1. run' = [run EXCEPT ![k] = [run[k] EXCEPT !.state = s, !.left = l]]
    BY <1>3 DEF GoesLeaving
  <2>2. run'[k] = [run[k] EXCEPT !.state = s, !.left = l]
    BY <1>1, <2>1
  <2>3. run'[k] \in RunRecord
    BY <1>1, <2>2 DEF RunRecord
  <2>4. run' = [run EXCEPT ![k] = run'[k]]
    BY <2>1, <2>2
  <2> QED
    BY <1>1, <2>2, <2>3, <2>4 DEF Turned, RunRecord
<1> QED
  BY <1>2, <1>3

LEMMA RunAdvances ==
  ASSUME Types, NEW k \in Run, run'[k] \in RunRecord, run' = [run EXCEPT ![k] = run'[k]],
         run[k] # NoRun => run'[k].opts = run[k].opts
  PROVE  /\ run' \in [Run -> RunRecord \cup {NoRun}] /\ RunsGrow
         /\ \A j \in Run \ {k} : run'[j] = run[j]
         /\ run'[k] # NoRun
<1>1. run' \in [Run -> RunRecord \cup {NoRun}]
  BY DEF Types
<1>2. \A j \in Run \ {k} : run'[j] = run[j]
  BY DEF Types
<1>3. run'[k] # NoRun
  BY RecordsDiffer
<1> QED
  BY <1>1, <1>2, <1>3 DEF RunsGrow

(* A run that ends. *)
LEMMA RunRests ==
  ASSUME CreateInv, NEW k \in Run, run[k] # NoRun, run[k].state \in Steps, Evolves,
         NEW s \in Outcomes, NEW l, Turned(k, s, l),
         s = "declined" => l = "nothing",
         s = "done" => app'[run[k].opts.name] # NoApp /\ app'[run[k].opts.name].by = k,
         s = "refused" => \/ l = "nothing" \/ app'[run[k].opts.name] # NoApp
                          \/ ~run[k].opts.interactive /\ ~run[k].opts.writable
                          \/ RefusedByGitHubAlone(run'[k])
  PROVE  RunOf(k)' /\ RunsGrow /\ run' \in [Run -> RunRecord \cup {NoRun}]
         /\ \A j \in Run \ {k} : run'[j] = run[j]
<1>1. /\ Types /\ run[k].id <= made /\ Planned(run[k]) /\ Migrates(run[k].content.migrates)
      /\ run[k] \in RunRecord
  BY DEF CreateInv, RunOf, Types
<1>2. /\ RunsGrow /\ run' \in [Run -> RunRecord \cup {NoRun}] /\ run'[k] # NoRun
      /\ \A j \in Run \ {k} : run'[j] = run[j]
  BY <1>1, RunAdvances DEF Turned
<1>3. Planned(run'[k])
  BY <1>1 DEF Planned, Turned, Steps, Outcomes
<1>4. Placed(k)'
  BY DEF Placed, Created, AdoptedIn, Turned, Outcomes
<1>5. Told(k)'
  BY DEF Told, Turned
<1>6. Migrates(run[k].content.migrates)'
  <2>1. PICK j \in Run \cup {Nobody} : j = run[k].content.migrates
    BY <1>1 DEF RunRecord, Content
  <2>2. Migrates(j)'
    BY <1>1, <1>2, <2>1, MigratesStays
  <2>3. run'[k].content.migrates = j
    BY <2>1 DEF Turned
  <2> QED
    BY <2>2, <2>3 DEF Migrates
<1>7. run'[k].id <= made'
  <2>1. run[k].id \in Nat /\ made \in Nat /\ made' \in Nat /\ made <= made'
    BY <1>1 DEF RunRecord, Evolves
  <2>2. run'[k].id = run[k].id
    BY DEF Turned
  <2> QED
    BY <1>1, <2>1, <2>2
<1> QED
  BY <1>2, <1>3, <1>4, <1>5, <1>6, <1>7 DEF RunOf

(* A run that goes on to where no repository matters yet, or its own does. *)
LEMMA RunGoesOn ==
  ASSUME CreateInv, NEW k \in Run, run[k] # NoRun, run[k].state \in Steps, Evolves,
         NEW s \in Steps, NEW l, Turned(k, s, l),
         Planned(run'[k]), Placed(k)'
  PROVE  RunOf(k)' /\ RunsGrow /\ run' \in [Run -> RunRecord \cup {NoRun}]
         /\ \A j \in Run \ {k} : run'[j] = run[j]
<1>1. /\ Types /\ run[k].id <= made /\ Migrates(run[k].content.migrates)
      /\ run[k] \in RunRecord
  BY DEF CreateInv, RunOf, Types
<1>2. /\ RunsGrow /\ run' \in [Run -> RunRecord \cup {NoRun}] /\ run'[k] # NoRun
      /\ \A j \in Run \ {k} : run'[j] = run[j]
  BY <1>1, RunAdvances DEF Turned
<1>3. Told(k)'
  BY DEF Told, Turned, Steps
<1>4. Migrates(run[k].content.migrates)'
  <2>1. PICK j \in Run \cup {Nobody} : j = run[k].content.migrates
    BY <1>1 DEF RunRecord, Content
  <2>2. Migrates(j)'
    BY <1>1, <1>2, <2>1, MigratesStays
  <2>3. run'[k].content.migrates = j
    BY <2>1 DEF Turned
  <2> QED
    BY <2>2, <2>3 DEF Migrates
<1>5. run'[k].id <= made'
  <2>1. run[k].id \in Nat /\ made \in Nat /\ made' \in Nat /\ made <= made'
    BY <1>1 DEF RunRecord, Evolves
  <2>2. run'[k].id = run[k].id
    BY DEF Turned
  <2> QED
    BY <1>1, <2>1, <2>2
<1> QED
  BY <1>2, <1>3, <1>4, <1>5 DEF RunOf

(* Steps that only read. *)
LEMMA ReadingKeeps ==
  ASSUME CreateInv, NEW k \in Run,
         Summarise(k) \/ CheckAvailable(k) \/ RepositoryExists(k) \/ Fail(k)
  PROVE  CreateInv'
<1>1. /\ Types /\ github' = github /\ made' = made /\ app' = app
  BY DEF CreateInv, Summarise, CheckAvailable, RepositoryExists, Fail
<1>2. run[k].state \in Steps
  BY DEF Summarise, CheckAvailable, RepositoryExists, Fail, At, Steps
<1>3. run[k] # NoRun
  <2>1. NoRun.state = "none"
    BY DEF NoRun
  <2> QED
    BY <1>2, <2>1 DEF Steps
<1>4. Evolves /\ AppsGrow
  BY <1>1, NothingChanges DEF AppsGrow
<1>5. RunOf(k) /\ Planned(run[k])
  BY <1>3 DEF CreateInv, RunOf
<1> DEFINE Kept == /\ RunOf(k)' /\ RunsGrow /\ run' \in [Run -> RunRecord \cup {NoRun}]
                   /\ \A j \in Run \ {k} : run'[j] = run[j]
<1>6. ASSUME NEW s \in Outcomes, Goes(k, s), s # "done",
             s \in {"declined", "refused"} => run[k].left = "nothing"
      PROVE  Kept
  <2>1. Turned(k, s, run[k].left)
    BY <1>1, <1>3, <1>6, GoesTurns
  <2> QED
    BY <1>2, <1>3, <1>4, <1>6, <2>1, RunRests
<1>7. ASSUME NEW s \in {"check", "exists", "create", "read", "write"}, Goes(k, s),
             run[k].state \in {"summary", "check", "exists"},
             s = "check" /\ run[k].opts.interactive => run[k].opts.writable,
             run[k].state = "summary" => s = "check",
             s \in {"exists", "create"} => run[k].opts.path = "create",
             s = "read" => run[k].opts.path = "adopt",
             s = "write" => run[k].opts.path = ""
      PROVE  Kept
  <2>1. Turned(k, s, run[k].left) /\ s \in Steps
    BY <1>1, <1>3, <1>7, GoesTurns DEF Steps
  <2>2. Planned(run'[k])
    BY <1>5, <1>7, <2>1 DEF Planned, Turned, Steps
  <2>3. Placed(k)'
    BY <1>7, <2>1 DEF Placed, Created, AdoptedIn, Turned
  <2> QED
    BY <1>2, <1>3, <1>4, <2>1, <2>2, <2>3, RunGoesOn
<1>8. ASSUME Summarise(k) PROVE Kept
  <2>1. run[k].state = "summary" /\ run[k].left = "nothing"
    BY <1>5, <1>8 DEF Summarise, At, Planned
  <2>2. \/ Goes(k, "refused") \/ Goes(k, "declined")
        \/ Goes(k, "check") /\ ~PreviewRefuses(run[k].opts)
    BY <1>8 DEF Summarise
  <2>3. CASE Goes(k, "refused") \/ Goes(k, "declined")
    BY <1>6, <2>1, <2>3 DEF Outcomes
  <2>4. CASE Goes(k, "check") /\ ~PreviewRefuses(run[k].opts)
    BY <1>7, <2>1, <2>4 DEF PreviewRefuses
  <2> QED
    BY <2>2, <2>3, <2>4
<1>9. ASSUME CheckAvailable(k) PROVE Kept
  <2>1. /\ run[k].state = "check" /\ run[k].left = "nothing"
        /\ run[k].opts.path \in {"", "create", "adopt"}
    <3>1. run[k].opts \in Options
      BY <1>1, <1>3 DEF Types, RunRecord
    <3> QED
      BY <1>5, <1>9, <3>1, OptionTypes DEF CheckAvailable, At, Planned
  <2>2. \/ run[k].opts.path = "" /\ Goes(k, "write")
        \/ Goes(k, "refused")
        \/ run[k].opts.path = "create" /\ Goes(k, "exists")
        \/ run[k].opts.path = "adopt" /\ Goes(k, "read")
    BY <1>9, <2>1 DEF CheckAvailable
  <2>3. CASE Goes(k, "refused")
    BY <1>6, <2>1, <2>3 DEF Outcomes
  <2>4. CASE run[k].opts.path = "" /\ Goes(k, "write")
    BY <1>7, <2>1, <2>4
  <2>5. CASE run[k].opts.path = "create" /\ Goes(k, "exists")
    BY <1>7, <2>1, <2>5
  <2>6. CASE run[k].opts.path = "adopt" /\ Goes(k, "read")
    BY <1>7, <2>1, <2>6
  <2> QED
    BY <2>2, <2>3, <2>4, <2>5, <2>6
<1>10. ASSUME RepositoryExists(k) PROVE Kept
  <2>1. run[k].state = "exists" /\ run[k].left = "nothing" /\ run[k].opts.path = "create"
    BY <1>5, <1>10 DEF RepositoryExists, At, Planned
  <2>2. Goes(k, "refused") \/ Goes(k, "create")
    BY <1>10 DEF RepositoryExists
  <2>3. CASE Goes(k, "refused")
    BY <1>6, <2>1, <2>3 DEF Outcomes
  <2>4. CASE Goes(k, "create")
    BY <1>7, <2>1, <2>4
  <2> QED
    BY <2>2, <2>3, <2>4
<1>11. ASSUME Fail(k) PROVE Kept
  BY <1>6, <1>11 DEF Fail, Outcomes
<1>12. Kept
  BY <1>8, <1>9, <1>10, <1>11
<1>13. Types'
  BY <1>1, <1>12 DEF Types
<1> QED
  BY <1>1, <1>4, <1>12, <1>13, StepKeeps

(* What a run in state s, other than that of the step before, is. *)
LEMMA RunMoves ==
  ASSUME Types, NEW k \in Run, run'[k] \in RunRecord, run' = [run EXCEPT ![k] = run'[k]],
         run[k] # NoRun => run'[k].opts = run[k].opts,
         run'[k].state \in Steps \/ (run'[k].state = "refused" /\ run'[k].left = "nothing"),
         run'[k].id <= made', NEW j \in Run \cup {Nobody}, run'[k].content.migrates = j,
         Migrates(j) \/ (j = k /\ run'[k].opts.postgres), Planned(run'[k]), Placed(k)'
  PROVE  RunOf(k)' /\ RunsGrow /\ run' \in [Run -> RunRecord \cup {NoRun}]
         /\ \A i \in Run \ {k} : run'[i] = run[i]
<1>1. /\ RunsGrow /\ run' \in [Run -> RunRecord \cup {NoRun}] /\ run'[k] # NoRun
      /\ \A i \in Run \ {k} : run'[i] = run[i]
  BY RunAdvances
<1>2. Told(k)'
  BY DEF Told, Steps
<1>3. Migrates(j)'
  <2>1. CASE Migrates(j)
    BY <1>1, <2>1, MigratesStays
  <2>2. CASE j = k /\ run'[k].opts.postgres
    BY <1>1, <2>2 DEF Migrates
  <2> QED
    BY <2>1, <2>2
<1>4. Migrates(run[k].content.migrates)'
  BY <1>3 DEF Migrates
<1> QED
  BY <1>1, <1>2, <1>4 DEF RunOf

LEMMA BeginKeeps ==
  ASSUME CreateInv, NEW k \in Run, Begin(k)
  PROVE  CreateInv'
<1>1. /\ Types /\ github' = github /\ made' = made /\ app' = app /\ run[k] = NoRun
      /\ made \in Nat
  BY DEF CreateInv, Begin, Types
<1>2. Evolves /\ AppsGrow
  BY <1>1, NothingChanges DEF AppsGrow
<1> DEFINE Record(s, o) == [state |-> s, opts |-> o, left |-> "nothing",
                            kind |-> PlannedKind(o), id |-> 0, content |-> NoFiles]
<1>3. PICK o \in Options, s \in {"refused", "summary", "check"} :
        /\ run' = [run EXCEPT ![k] = Record(s, o)]
        /\ s # "refused" => PlanAccepted(o)
        /\ s # "refused" => ~(o.path = "create" /\ ScopeMissing(o, NoFiles))
        /\ s = "check" => ~o.interactive
  BY DEF Begin
<1>4. Record(s, o) \in RunRecord
  BY PlannedKindType, ContentsType DEF RunRecord, Steps, Outcomes
<1>5. run'[k] = Record(s, o) /\ run' = [run EXCEPT ![k] = run'[k]]
  BY <1>1, <1>3 DEF Types
<1>6. Planned(Record(s, o))
  <2>1. s # "refused" => (o.path = "create" => o.workflowScope \/ ~o.scopesKnown)
    BY <1>3, ContentsType DEF ScopeMissing
  <2>2. s # "refused" => /\ PlannedKind(o) = "static-site" => ~o.postgres
                         /\ o.path # "adopt" => PlannedKind(o) \in Kind
    BY <1>3, PlannedKindType
  <2> QED
    BY <1>3, <2>1, <2>2 DEF Planned, Steps
<1>7. Placed(k)'
  BY <1>5 DEF Placed, Created, AdoptedIn
<1>8. /\ run'[k].state \in Steps \/ (run'[k].state = "refused" /\ run'[k].left = "nothing")
      /\ run'[k].id = 0 /\ run'[k].content.migrates = Nobody
  BY <1>3, <1>5, ContentsType DEF Steps
<1>9. run'[k].id <= made'
  BY <1>1, <1>8
<1>10. Migrates(Nobody)
  BY DEF Migrates
<1>11. /\ RunOf(k)' /\ RunsGrow /\ run' \in [Run -> RunRecord \cup {NoRun}]
       /\ \A i \in Run \ {k} : run'[i] = run[i]
  <2> HIDE DEF Record
  <2> QED
    BY <1>1, <1>4, <1>5, <1>6, <1>7, <1>8, <1>9, <1>10, RunMoves
<1>12. Types'
  BY <1>1, <1>11 DEF Types
<1> QED
  BY <1>1, <1>2, <1>11, <1>12, StepKeeps

-----------------------------------------------------------------------------
(* Create *)

LEMMA CreateRepositoryKeeps ==
  ASSUME CreateInv, NEW k \in Run, CreateRepository(k)
  PROVE  CreateInv'
<1> DEFINE Repository(d) == [id |-> made + 1, madeBy |-> k, inOrg |-> TRUE, canPush |-> TRUE,
                             default |-> d, empty |-> TRUE, main |-> NoFiles,
                             branchBy |-> Nobody, branch |-> NoFiles, pr |-> Nobody, prs |-> {}]
<1>1. /\ Types /\ made \in Nat /\ app' = app /\ made' = made + 1 /\ made < MaxRepos
      /\ run[k].state = "create"
  BY DEF CreateInv, Types, CreateRepository, At
<1>2. run[k] # NoRun
  <2>1. NoRun.state = "none"
    BY DEF NoRun
  <2> QED
    BY <1>1, <2>1
<1>3. /\ RunOf(k) /\ Planned(run[k]) /\ run[k] \in RunRecord /\ run[k].opts.path = "create"
      /\ run[k].opts \in Options
  BY <1>1, <1>2 DEF CreateInv, RunOf, Types, Planned, RunRecord
<1>4. PICK n \in Repo : n = run[k].opts.name
  BY <1>3, OptionTypes
<1>5. ~Exists(n) /\ \E d \in {"main", "master"} : github' = [github EXCEPT ![n] = Repository(d)]
  BY <1>4 DEF CreateRepository
<1>6. PICK d \in {"main", "master"} : github' = [github EXCEPT ![n] = Repository(d)]
  BY <1>5
<1>7. Repository(d) \in RepoRecord
  BY <1>1, ContentsType DEF RepoRecord
<1>8. github'[n] = Repository(d) /\ \A m \in Repo \ {n} : github'[m] = github[m]
  BY <1>1, <1>6 DEF Types
<1>9. Repository(d).id = made + 1
  OBVIOUS
<1>10. Evolves
  <2> HIDE DEF Repository
  <2> QED
    BY <1>1, <1>5, <1>7, <1>9, <1>6, RepositoryAppears
<1>11. RepoOf(n)'
  <2>1. github'[n].pr = Nobody /\ github'[n].main = NoFiles /\ github'[n].branch = NoFiles
    BY <1>8
  <2>2. github'[n].id <= made'
    BY <1>1, <1>8, <1>9
  <2>3. github'[n].main.migrates = Nobody /\ github'[n].branch.migrates = Nobody
    BY <2>1, ContentsType
  <2> QED
    BY <2>1, <2>2, <2>3 DEF RepoOf, Migrates
<1>12. /\ RunOf(k)' /\ RunsGrow /\ run' \in [Run -> RunRecord \cup {NoRun}]
       /\ \A i \in Run \ {k} : run'[i] = run[i]
  <2>1. CASE GoesLeaving(k, "failed", "repository")
    <3>1. Turned(k, "failed", "repository")
      BY <1>1, <1>2, <2>1, GoesTurns DEF Outcomes
    <3> QED
      BY <1>1, <1>2, <1>10, <3>1, RunRests DEF Steps, Outcomes
  <2>2. CASE run' = [run EXCEPT ![k].state = "push", ![k].left = "repository",
                                ![k].id = made + 1]
    <3> DEFINE r == [run[k] EXCEPT !.state = "push", !.left = "repository", !.id = made + 1]
    <3>1. run' = [run EXCEPT ![k] = r]
      BY <2>2
    <3>2. run'[k] = r /\ run' = [run EXCEPT ![k] = run'[k]]
      BY <1>1, <3>1 DEF Types
    <3>3. made + 1 \in Nat /\ made + 1 # 0
      BY <1>1
    <3>4. r \in RunRecord
      BY <1>3, <3>3 DEF RunRecord, Steps
    <3>5. /\ r.state = "push" /\ r.left = "repository" /\ r.id = made + 1
          /\ r.opts = run[k].opts /\ r.kind = run[k].kind /\ r.content = run[k].content
      BY <1>3 DEF RunRecord
    <3> HIDE DEF r
    <3>6. Planned(r)
      <4>1. r.id # 0
        BY <3>3, <3>5
      <4>2. run[k].opts.interactive => run[k].opts.writable
        BY <1>1, <1>3 DEF Planned, Steps
      <4>3. /\ PlanAccepted(run[k].opts) /\ run[k].kind \in Kind
            /\ run[k].opts.workflowScope \/ ~run[k].opts.scopesKnown
            /\ run[k].kind = "static-site" => ~run[k].opts.postgres
        BY <1>1, <1>3 DEF Planned
      <4> QED
        BY <1>3, <3>5, <4>1, <4>2, <4>3 DEF Planned
    <3>7. Placed(k)'
      <4>1. github'[n] # NoRepository
        BY <1>7, <1>8, RecordsDiffer
      <4>2. github'[n].id = made + 1 /\ github'[n].madeBy = k
        BY <1>8
      <4>3. run'[k].opts.name = n
        BY <1>4, <3>2, <3>5
      <4> HIDE DEF Repository
      <4> QED
        BY <1>3, <3>2, <3>5, <4>1, <4>2, <4>3 DEF Placed, Created, AdoptedIn, Exists
    <3>8. PICK j \in Run \cup {Nobody} : j = run[k].content.migrates
      BY <1>3 DEF RunRecord, Content
    <3>9. Migrates(j) /\ run'[k].content.migrates = j
      BY <1>2, <1>3, <3>2, <3>5, <3>8 DEF RunOf
    <3>10. run'[k].id <= made'
      BY <1>1, <3>2, <3>5
    <3>11. run'[k].state \in Steps
      BY <3>2, <3>5 DEF Steps
    <3> QED
      BY <1>1, <3>2, <3>4, <3>5, <3>6, <3>7, <3>9, <3>10, <3>11, RunMoves
  <2> QED
    BY <2>1, <2>2 DEF CreateRepository
<1>13. made' \in 0 .. MaxRepos
  BY <1>1, AppCreateAssumption
<1>14. github' \in [Repo -> RepoRecord \cup {NoRepository}]
  <2> HIDE DEF Repository
  <2> QED
    BY <1>1, <1>7, <1>6 DEF Types
<1>15. Types'
  BY <1>1, <1>12, <1>13, <1>14 DEF Types
<1>16. AppsGrow
  BY <1>1 DEF AppsGrow
<1> QED
  BY <1>1, <1>8, <1>10, <1>11, <1>12, <1>15, <1>16, StepKeeps

LEMMA RunAt ==
  ASSUME CreateInv, NEW k \in Run, run[k].state \in Steps
  PROVE  /\ Types /\ run[k] # NoRun /\ run[k] \in RunRecord /\ run[k].opts \in Options
         /\ RunOf(k) /\ Planned(run[k]) /\ Placed(k)
         /\ run[k].state # "refused" /\ PlanAccepted(run[k].opts)
<1>1. NoRun.state = "none"
  BY DEF NoRun
<1>2. run[k] # NoRun
  BY <1>1 DEF Steps
<1>3. Types /\ run[k] \in RunRecord /\ RunOf(k)
  BY <1>2 DEF CreateInv, Types
<1>4. run[k].opts \in Options /\ Planned(run[k]) /\ Placed(k) /\ run[k].state # "refused"
  BY <1>2, <1>3 DEF RunRecord, RunOf, Steps
<1> QED
  BY <1>2, <1>3, <1>4 DEF Planned

(* A step of a run that edits its repository, and then fails or goes on. *)
LEMMA EditKeeps ==
  ASSUME CreateInv, NEW k \in Run, run[k].state \in Steps,
         NEW n \in Repo, Exists(n), made' = made, app' = app,
         NEW r \in RepoRecord, github' = [github EXCEPT ![n] = r],
         r.id = github[n].id, r.madeBy = github[n].madeBy,
         github[n].default = "main" => r.default = "main",
         ~github[n].empty => ~r.empty,
         github[n].prs \subseteq r.prs,
         r.branchBy = github[n].branchBy \/ Over(github[n].branchBy),
         r.pr # Nobody => r.branchBy = r.pr,
         Migrates(r.main.migrates), Migrates(r.branch.migrates),
         NEW s \in Steps, NEW l \in {"nothing", "repository", "branch", "pull request"},
         Turned(k, "failed", l) \/ Turned(k, s, l),
         Turned(k, s, l) => Planned(run'[k]) /\ Placed(k)'
  PROVE  CreateInv'
<1>1. Types /\ run[k] # NoRun
  BY RunAt
<1>2. Evolves /\ github' \in [Repo -> RepoRecord \cup {NoRepository}]
  <2>1. github' \in [Repo -> RepoRecord \cup {NoRepository}]
    BY <1>1 DEF Types
  <2>2. Evolves
    BY <1>1, RepositoryIsEdited
  <2> QED
    BY <2>1, <2>2
<1>3. /\ RunOf(k)' /\ RunsGrow /\ run' \in [Run -> RunRecord \cup {NoRun}]
      /\ \A j \in Run \ {k} : run'[j] = run[j]
  <2>1. CASE Turned(k, "failed", l)
    BY <1>1, <1>2, <2>1, RunRests DEF Outcomes
  <2>2. CASE Turned(k, s, l)
    BY <1>1, <1>2, <2>2, RunGoesOn
  <2> QED
    BY <2>1, <2>2
<1>4. github'[n] = r /\ \A m \in Repo \ {n} : github'[m] = github[m]
  BY <1>1 DEF Types
<1>5. RepoOf(n)'
  <2>1. github[n].id <= made
    BY DEF CreateInv, RepoOf
  <2>2. PICK i, j \in Run \cup {Nobody} : i = r.main.migrates /\ j = r.branch.migrates
    BY DEF RepoRecord, Content
  <2>3. Migrates(i)' /\ Migrates(j)'
    BY <1>3, <2>2, MigratesStays
  <2> QED
    BY <1>4, <2>1, <2>2, <2>3 DEF RepoOf, Migrates
<1>6. Types'
  BY <1>1, <1>2, <1>3 DEF Types
<1> QED
  BY <1>2, <1>3, <1>4, <1>5, <1>6, StepKeeps DEF AppsGrow

LEMMA PushedTemplateKeeps ==
  ASSUME CreateInv, NEW k \in Run, PushTemplate(k), run[k].opts.workflowScope
  PROVE  CreateInv'
<1>1. run[k].state = "push" /\ run[k].state \in Steps /\ made' = made /\ app' = app
  BY DEF PushTemplate, At, Steps
<1>2. /\ Types /\ run[k] # NoRun /\ run[k] \in RunRecord
      /\ Planned(run[k]) /\ Placed(k) /\ PlanAccepted(run[k].opts)
  BY <1>1, RunAt
<1>3. PICK o \in Options : o = run[k].opts
  BY <1>1, RunAt
<1>4. o.path = "create" /\ PlanAccepted(o)
  BY <1>1, <1>2, <1>3 DEF Planned
<1>5. PICK n \in Repo : n = o.name
  BY <1>4, OptionTypes
<1>6. PICK l \in {"nothing", "repository", "branch", "pull request"} : l = run[k].left
  BY <1>2 DEF RunRecord
<1>7. PICK t \in Content : t = Template(k, o)
  BY <1>4, TemplateType
<1> DEFINE r == [github[n] EXCEPT !.empty = FALSE, !.main = t]
<1>8. /\ Exists(n) /\ github' = [github EXCEPT ![n] = r]
      /\ \/ Goes(k, "failed")
         \/ github[n].default = "main" /\ Goes(k, "write")
         \/ github[n].default # "main" /\ Goes(k, "default")
  BY <1>3, <1>4, <1>5, <1>7 DEF PushTemplate
<1>9. github[n] \in RepoRecord
  BY <1>2, <1>8 DEF Types, Exists
<1>10. /\ r \in RepoRecord /\ r.id = github[n].id /\ r.madeBy = github[n].madeBy
       /\ r.default = github[n].default /\ r.prs = github[n].prs
       /\ r.branchBy = github[n].branchBy /\ r.pr = github[n].pr
       /\ r.branch = github[n].branch /\ r.main = t
  BY <1>9 DEF RepoRecord
<1>11. ~r.empty
  BY <1>9 DEF RepoRecord
<1>12. PICK s \in {"write", "default"} :
         /\ Goes(k, "failed") \/ Goes(k, s)
         /\ s = "write" => github[n].default = "main"
  BY <1>8
<1>13. s \in Steps /\ (Turned(k, "failed", l) \/ Turned(k, s, l))
  BY <1>1, <1>2, <1>6, <1>12, GoesTurns DEF Steps, Outcomes
<1>14. Created(k) /\ github[n].id = run[k].id /\ github[n].madeBy = k
  BY <1>1, <1>2, <1>3, <1>4, <1>5 DEF Placed, Created
<1>15. github'[n] = r
  BY <1>2, <1>8 DEF Types
<1>16. /\ github[n].pr # Nobody => github[n].branchBy = github[n].pr
       /\ Migrates(github[n].branch.migrates)
  BY <1>8 DEF CreateInv, RepoOf
<1>17. Migrates(t.migrates)
  <2>1. t.migrates \in {k, Nobody} /\ (t.migrates = k => o.postgres)
    BY <1>4, <1>7, TemplateType
  <2> QED
    BY <1>2, <1>3, <2>1 DEF Migrates
<1> HIDE DEF r
<1>18. ASSUME Turned(k, s, l) PROVE Planned(run'[k]) /\ Placed(k)'
  <2>1. Planned(run'[k])
    BY <1>1, <1>2, <1>3, <1>4, <1>18 DEF Planned, Turned, Steps
  <2>2. /\ run'[k].state = s /\ run'[k].opts = o /\ run'[k].id = run[k].id
    BY <1>3, <1>18 DEF Turned
  <2>3. r # NoRepository
    BY <1>10, RecordsDiffer
  <2>4. Created(k)'
    BY <1>5, <1>10, <1>11, <1>12, <1>14, <1>15, <2>2, <2>3 DEF Created, Exists
  <2>5. AdoptedIn(k)'
    BY <1>4, <2>2 DEF AdoptedIn
  <2> QED
    BY <2>1, <2>4, <2>5 DEF Placed
<1> QED
  BY <1>1, <1>8, <1>10, <1>11, <1>13, <1>16, <1>17, <1>18, EditKeeps

(* GitHub refuses the push of a token it tells no scopes of. *)
LEMMA UnpushedTemplateKeeps ==
  ASSUME CreateInv, NEW k \in Run, PushTemplate(k), ~run[k].opts.workflowScope
  PROVE  CreateInv'
<1>1. /\ run[k].state = "push" /\ run[k].state \in Steps
      /\ github' = github /\ made' = made /\ app' = app /\ Goes(k, "refused")
  BY DEF PushTemplate, At, Steps
<1>2. Types /\ run[k] # NoRun /\ run[k] \in RunRecord /\ Planned(run[k])
  BY <1>1, RunAt
<1>3. Evolves /\ AppsGrow
  BY <1>1, <1>2, NothingChanges DEF AppsGrow
<1>4. Turned(k, "refused", "repository")
  <2>1. run[k].left = "repository"
    BY <1>1, <1>2 DEF Planned
  <2> QED
    BY <1>1, <1>2, <2>1, GoesTurns DEF Outcomes
<1>5. RefusedByGitHubAlone(run'[k])
  <2>1. run[k].opts.path = "create" /\ ~run[k].opts.scopesKnown
    BY <1>1, <1>2 DEF Planned
  <2> QED
    BY <1>4, <2>1 DEF Turned, RefusedByGitHubAlone
<1>6. /\ RunOf(k)' /\ RunsGrow /\ run' \in [Run -> RunRecord \cup {NoRun}]
      /\ \A j \in Run \ {k} : run'[j] = run[j]
  BY <1>1, <1>2, <1>3, <1>4, <1>5, RunRests DEF Outcomes
<1>7. Types'
  BY <1>1, <1>2, <1>6 DEF Types
<1> QED
  BY <1>1, <1>3, <1>6, <1>7, StepKeeps

LEMMA PushTemplateKeeps ==
  ASSUME CreateInv, NEW k \in Run, PushTemplate(k)
  PROVE  CreateInv'
BY PushedTemplateKeeps, UnpushedTemplateKeeps

LEMMA SetDefaultBranchKeeps ==
  ASSUME CreateInv, NEW k \in Run, SetDefaultBranch(k)
  PROVE  CreateInv'
<1>1. run[k].state = "default" /\ run[k].state \in Steps /\ made' = made /\ app' = app
  BY DEF SetDefaultBranch, At, Steps
<1>2. /\ Types /\ run[k] # NoRun /\ run[k] \in RunRecord
      /\ Planned(run[k]) /\ Placed(k) /\ PlanAccepted(run[k].opts)
  BY <1>1, RunAt
<1>3. PICK o \in Options : o = run[k].opts
  BY <1>1, RunAt
<1>4. o.path = "create"
  BY <1>1, <1>2, <1>3 DEF Planned
<1>5. PICK n \in Repo : n = o.name
  BY <1>4, OptionTypes
<1>6. PICK l \in {"nothing", "repository", "branch", "pull request"} : l = run[k].left
  BY <1>2 DEF RunRecord
<1> DEFINE r == [github[n] EXCEPT !.default = "main"]
<1>7. /\ Exists(n) /\ github' = [github EXCEPT ![n] = r]
      /\ Goes(k, "failed") \/ Goes(k, "write")
  BY <1>3, <1>5 DEF SetDefaultBranch
<1>8. github[n] \in RepoRecord
  BY <1>2, <1>7 DEF Types, Exists
<1>9. /\ r \in RepoRecord /\ r.id = github[n].id /\ r.madeBy = github[n].madeBy
      /\ r.default = "main" /\ r.prs = github[n].prs
      /\ r.branchBy = github[n].branchBy /\ r.pr = github[n].pr
      /\ r.branch = github[n].branch /\ r.main = github[n].main
  BY <1>8 DEF RepoRecord
<1>10. github[n].id = run[k].id /\ github[n].madeBy = k /\ ~github[n].empty
  BY <1>1, <1>2, <1>3, <1>4, <1>5 DEF Placed, Created
<1>11. ~r.empty
  BY <1>8, <1>10 DEF RepoRecord
<1>12. "write" \in Steps /\ (Turned(k, "failed", l) \/ Turned(k, "write", l))
  BY <1>1, <1>2, <1>6, <1>7, GoesTurns DEF Steps, Outcomes
<1>13. github'[n] = r
  BY <1>2, <1>7 DEF Types
<1>14. /\ github[n].pr # Nobody => github[n].branchBy = github[n].pr
       /\ Migrates(github[n].main.migrates) /\ Migrates(github[n].branch.migrates)
  BY <1>7 DEF CreateInv, RepoOf
<1> HIDE DEF r
<1>15. ASSUME Turned(k, "write", l) PROVE Planned(run'[k]) /\ Placed(k)'
  <2>1. Planned(run'[k])
    BY <1>1, <1>2, <1>3, <1>4, <1>15 DEF Planned, Turned, Steps
  <2>2. /\ run'[k].state = "write" /\ run'[k].opts = o /\ run'[k].id = run[k].id
    BY <1>3, <1>15 DEF Turned
  <2>3. r # NoRepository
    BY <1>9, RecordsDiffer
  <2>4. Created(k)'
    BY <1>5, <1>9, <1>10, <1>11, <1>13, <2>2, <2>3 DEF Created, Exists
  <2>5. AdoptedIn(k)'
    BY <1>4, <2>2 DEF AdoptedIn
  <2> QED
    BY <2>1, <2>4, <2>5 DEF Placed
<1> QED
  BY <1>1, <1>7, <1>9, <1>11, <1>12, <1>14, <1>15, EditKeeps

-----------------------------------------------------------------------------
(* Adopt *)

(* A step of a run that reads, and learns the id or the content. *)
LEMMA LearningKeeps ==
  ASSUME CreateInv, NEW k \in Run, run[k].state \in Steps,
         github' = github, made' = made, app' = app,
         run'[k] \in RunRecord, run' = [run EXCEPT ![k] = run'[k]],
         run'[k].opts = run[k].opts, run'[k].state \in Steps,
         run'[k].id <= made, NEW j \in Run \cup {Nobody}, run'[k].content.migrates = j,
         Migrates(j) \/ (j = k /\ run'[k].opts.postgres), Planned(run'[k]), Placed(k)'
  PROVE  CreateInv'
<1>1. Types
  BY RunAt
<1>2. Evolves /\ AppsGrow
  BY <1>1, NothingChanges DEF AppsGrow
<1>3. /\ RunOf(k)' /\ RunsGrow /\ run' \in [Run -> RunRecord \cup {NoRun}]
      /\ \A i \in Run \ {k} : run'[i] = run[i]
  BY <1>1, RunMoves
<1>4. Types'
  BY <1>1, <1>3 DEF Types
<1> QED
  BY <1>2, <1>3, <1>4, StepKeeps

(* A step of a run that is refused before it has made anything. *)
LEMMA RefusalKeeps ==
  ASSUME CreateInv, NEW k \in Run, run[k].state \in Steps, Goes(k, "refused"),
         github' = github, made' = made, app' = app,
         run[k].left = "nothing"
  PROVE  CreateInv'
<1>1. Types /\ run[k] # NoRun
  BY RunAt
<1>2. Evolves /\ AppsGrow
  BY <1>1, NothingChanges DEF AppsGrow
<1>3. "refused" \in Outcomes /\ Turned(k, "refused", "nothing")
  BY <1>1, GoesTurns DEF Outcomes
<1>4. /\ RunOf(k)' /\ RunsGrow /\ run' \in [Run -> RunRecord \cup {NoRun}]
      /\ \A i \in Run \ {k} : run'[i] = run[i]
  BY <1>1, <1>2, <1>3, RunRests
<1>5. Types'
  BY <1>1, <1>4 DEF Types
<1> QED
  BY <1>2, <1>4, <1>5, StepKeeps

LEMMA ReadRepositoryKeeps ==
  ASSUME CreateInv, NEW k \in Run, ReadRepository(k)
  PROVE  CreateInv'
<1>1. /\ run[k].state = "read" /\ run[k].state \in Steps
      /\ github' = github /\ made' = made /\ app' = app
  BY DEF ReadRepository, At, Steps
<1>2. /\ Types /\ run[k] # NoRun /\ run[k] \in RunRecord /\ RunOf(k)
      /\ Planned(run[k]) /\ PlanAccepted(run[k].opts)
  BY <1>1, RunAt
<1>3. PICK o \in Options : o = run[k].opts
  BY <1>1, RunAt
<1>4. o.path = "adopt" /\ run[k].left = "nothing"
  BY <1>1, <1>2, <1>3 DEF Planned
<1>5. PICK n \in Repo : n = o.repo
  BY OptionTypes
<1>6. \/ Goes(k, "refused")
      \/ /\ Exists(n)
         /\ run' = [run EXCEPT ![k].state = "detect", ![k].id = github[n].id]
  BY <1>3, <1>5 DEF ReadRepository
<1>7. CASE Goes(k, "refused")
  BY <1>1, <1>4, <1>7, RefusalKeeps
<1>8. CASE /\ Exists(n)
           /\ run' = [run EXCEPT ![k].state = "detect", ![k].id = github[n].id]
  <2>1. PICK i \in Nat \ {0} : i = github[n].id
    BY <1>2, <1>8 DEF Types, Exists, RepoRecord
  <2>2. i <= made
    BY <1>8, <2>1 DEF CreateInv, RepoOf
  <2> DEFINE r == [run[k] EXCEPT !.state = "detect", !.id = i]
  <2>3. run' = [run EXCEPT ![k] = r]
    BY <1>8, <2>1
  <2>4. run'[k] = r /\ run' = [run EXCEPT ![k] = run'[k]]
    BY <1>2, <2>3 DEF Types
  <2>5. /\ r.state = "detect" /\ r.left = run[k].left /\ r.id = i
        /\ r.opts = run[k].opts /\ r.kind = run[k].kind /\ r.content = run[k].content
    BY <1>2 DEF RunRecord
  <2>6. r \in RunRecord
    BY <1>2, <2>1 DEF RunRecord, Steps
  <2> HIDE DEF r
  <2>7. Planned(r)
    <3>1. r.id # 0
      BY <2>1, <2>5
    <3>2. run[k].opts.interactive => run[k].opts.writable
      BY <1>1, <1>2 DEF Planned, Steps
    <3>3. run[k].kind = "static-site" => ~run[k].opts.postgres
      BY <1>1, <1>2 DEF Planned
    <3> QED
      BY <1>2, <1>3, <1>4, <2>5, <3>1, <3>2, <3>3 DEF Planned
  <2>8. Placed(k)'
    <3>1. ASSUME NEW m \in Repo, Exists(m), github[m].id = i PROVE m = n
      BY <1>8, <2>1, <3>1 DEF CreateInv, UniqueIds
    <3>2. run'[k].state = "detect" /\ run'[k].id = i /\ run'[k].opts = o
      BY <1>3, <2>4, <2>5
    <3>3. Exists(n)' <=> Exists(n)
      BY <1>1 DEF Exists
    <3> QED
      BY <1>1, <1>4, <1>5, <3>1, <3>2 DEF Placed, Created, AdoptedIn, Exists
  <2>9. PICK j \in Run \cup {Nobody} : j = run[k].content.migrates
    BY <1>2 DEF RunRecord, Content
  <2>10. Migrates(j) /\ run'[k].content.migrates = j /\ run'[k].id <= made
    BY <1>2, <2>2, <2>4, <2>5, <2>9 DEF RunOf
  <2>11. run'[k].state \in Steps
    BY <2>4, <2>5 DEF Steps
  <2> QED
    BY <1>1, <2>4, <2>5, <2>6, <2>7, <2>8, <2>10, <2>11, LearningKeeps
<1> QED
  BY <1>6, <1>7, <1>8

LEMMA DetectKeeps ==
  ASSUME CreateInv, NEW k \in Run, Detect(k)
  PROVE  CreateInv'
<1>1. /\ run[k].state = "detect" /\ run[k].state \in Steps
      /\ github' = github /\ made' = made /\ app' = app
  BY DEF Detect, At, Steps
<1>2. /\ Types /\ run[k] # NoRun /\ run[k] \in RunRecord /\ RunOf(k)
      /\ Planned(run[k]) /\ Placed(k)
  BY <1>1, RunAt
<1>3. PICK o \in Options : o = run[k].opts
  BY <1>1, RunAt
<1>4. o.path = "adopt" /\ run[k].left = "nothing" /\ PlanAccepted(o)
  BY <1>1, <1>2, <1>3 DEF Planned
<1>5. PICK n \in Repo : n = o.repo
  BY OptionTypes
<1>6. Exists(n)
  BY <1>3, <1>5 DEF Detect
<1>7. PICK c \in Content : c = github[n].main
  BY <1>2, <1>6 DEF Types, Exists, RepoRecord
<1>8. CASE AdoptRefuses(o, c)
  <2>1. Goes(k, "refused")
    BY <1>3, <1>5, <1>7, <1>8 DEF Detect
  <2> QED
    BY <1>1, <1>4, <2>1, RefusalKeeps
<1>9. CASE ~AdoptRefuses(o, c)
  <2>1. PICK kind \in Kind, a \in Content :
          kind = ResolveKind(o.kind, c) /\ a = Adopted(k, o, c)
    BY <1>4, <1>9, AdoptedType
  <2>2. /\ kind = "static-site" => ~o.postgres
        /\ a.migrates \in {k, c.migrates}
        /\ a.migrates = k => o.postgres \/ c.migrates = k
    BY <1>4, <1>9, <2>1, AdoptedType
  <2> DEFINE r == [run[k] EXCEPT !.state = "branch", !.kind = kind, !.content = a]
  <2>3. run' = [run EXCEPT ![k] = r]
    BY <1>3, <1>5, <1>7, <1>9, <2>1 DEF Detect
  <2>4. run'[k] = r /\ run' = [run EXCEPT ![k] = run'[k]]
    BY <1>2, <2>3 DEF Types
  <2>5. /\ r.state = "branch" /\ r.left = run[k].left /\ r.id = run[k].id
        /\ r.opts = run[k].opts /\ r.kind = kind /\ r.content = a
    BY <1>2 DEF RunRecord
  <2>6. r \in RunRecord
    BY <1>2 DEF RunRecord, Steps
  <2> HIDE DEF r
  <2>7. Planned(r)
    <3>1. run[k].opts.interactive => run[k].opts.writable
      BY <1>1, <1>2 DEF Planned, Steps
    <3>2. run[k].id # 0
      BY <1>1, <1>2 DEF Planned
    <3> QED
      BY <1>3, <1>4, <2>2, <2>5, <3>1, <3>2 DEF Planned
  <2>8. Placed(k)'
    <3>1. ASSUME NEW m \in Repo, Exists(m), github[m].id = run[k].id PROVE m = n
      BY <1>1, <1>2, <1>3, <1>4, <1>5, <3>1 DEF Placed, AdoptedIn
    <3>2. run'[k].state = "branch" /\ run'[k].id = run[k].id /\ run'[k].opts = o
      BY <1>3, <2>4, <2>5
    <3> QED
      BY <1>1, <1>4, <1>5, <3>1, <3>2 DEF Placed, Created, AdoptedIn, Exists
  <2>9. PICK j \in Run \cup {Nobody} : j = a.migrates
    BY DEF Content
  <2>10. Migrates(j) \/ (j = k /\ run'[k].opts.postgres)
    <3>1. Migrates(c.migrates)
      BY <1>6, <1>7 DEF CreateInv, RepoOf
    <3> QED
      BY <1>3, <2>2, <2>4, <2>5, <2>9, <3>1
  <2>11. run'[k].state \in Steps /\ run'[k].content.migrates = j
    BY <2>4, <2>5, <2>9 DEF Steps
  <2>12. run'[k].id <= made
    BY <1>2, <2>4, <2>5 DEF RunOf
  <2> QED
    BY <1>1, <2>4, <2>5, <2>6, <2>7, <2>8, <2>10, <2>11, <2>12, LearningKeeps
<1> QED
  BY <1>8, <1>9

LEMMA PushBranchKeeps ==
  ASSUME CreateInv, NEW k \in Run, PushBranch(k)
  PROVE  CreateInv'
<1>1. run[k].state = "branch" /\ run[k].state \in Steps /\ made' = made /\ app' = app
  BY DEF PushBranch, At, Steps
<1>2. /\ Types /\ run[k] # NoRun /\ run[k] \in RunRecord /\ RunOf(k)
      /\ Planned(run[k]) /\ Placed(k)
  BY <1>1, RunAt
<1>3. PICK o \in Options : o = run[k].opts
  BY <1>1, RunAt
<1>4. o.path = "adopt" /\ run[k].left = "nothing"
  BY <1>1, <1>2, <1>3 DEF Planned
<1>5. PICK n \in Repo : n = o.repo
  BY OptionTypes
<1>6. PICK c \in Content : c = run[k].content
  BY <1>2 DEF RunRecord
<1> DEFINE r == [github[n] EXCEPT !.branch = c, !.branchBy = k]
<1>7. /\ Exists(n) /\ github[n].branchBy = Nobody
      /\ \/ Goes(k, "refused") /\ github' = github
         \/ /\ github' = [github EXCEPT ![n] = r]
            /\ GoesLeaving(k, "pr", "branch") \/ GoesLeaving(k, "failed", "branch")
  BY <1>3, <1>5, <1>6 DEF PushBranch, Refused
<1>8. CASE Goes(k, "refused") /\ github' = github
  BY <1>1, <1>4, <1>8, RefusalKeeps
<1>9. CASE /\ github' = [github EXCEPT ![n] = r]
           /\ GoesLeaving(k, "pr", "branch") \/ GoesLeaving(k, "failed", "branch")
  <2>1. github[n] \in RepoRecord
    BY <1>2, <1>7 DEF Types, Exists
  <2>2. /\ r \in RepoRecord /\ r.id = github[n].id /\ r.madeBy = github[n].madeBy
        /\ r.default = github[n].default /\ r.prs = github[n].prs
        /\ r.branchBy = k /\ r.pr = github[n].pr
        /\ r.branch = c /\ r.main = github[n].main
    BY <2>1 DEF RepoRecord
  <2>3. r.empty = github[n].empty
    BY <2>1 DEF RepoRecord
  <2>4. "pr" \in Steps /\ (Turned(k, "failed", "branch") \/ Turned(k, "pr", "branch"))
    BY <1>1, <1>2, <1>9, GoesTurns DEF Steps, Outcomes
  <2>5. github'[n] = r /\ \A m \in Repo \ {n} : github'[m] = github[m]
    BY <1>2, <1>9 DEF Types
  <2>6. github[n].pr = Nobody /\ Migrates(github[n].main.migrates)
    BY <1>7 DEF CreateInv, RepoOf
  <2>7. Migrates(c.migrates)
    BY <1>2, <1>6 DEF RunOf
  <2>8. Over(github[n].branchBy)
    BY <1>7 DEF Over
  <2> HIDE DEF r
  <2>9. ASSUME Turned(k, "pr", "branch") PROVE Planned(run'[k]) /\ Placed(k)'
    <3>1. Planned(run'[k])
      BY <1>1, <1>2, <1>3, <1>4, <2>9 DEF Planned, Turned, Steps
    <3>2. /\ run'[k].state = "pr" /\ run'[k].opts = o /\ run'[k].id = run[k].id
      BY <1>3, <2>9 DEF Turned
    <3>3. r # NoRepository
      BY <2>2, RecordsDiffer
    <3>4. ASSUME NEW m \in Repo, github'[m] # NoRepository, github'[m].id = run[k].id
          PROVE  m = n
      <4>1. ASSUME m # n PROVE Exists(m) /\ github[m].id = run[k].id
        BY <2>5, <3>4, <4>1 DEF Exists
      <4> QED
        BY <1>1, <1>2, <1>3, <1>4, <1>5, <4>1 DEF Placed, AdoptedIn
    <3>5. AdoptedIn(k)'
      BY <1>5, <2>2, <2>5, <3>2, <3>3, <3>4 DEF AdoptedIn, Exists
    <3>6. Created(k)'
      BY <3>2 DEF Created
    <3> QED
      BY <3>1, <3>5, <3>6 DEF Placed
  <2> QED
    BY <1>1, <1>7, <1>9, <2>2, <2>3, <2>4, <2>6, <2>7, <2>8, <2>9, EditKeeps
<1> QED
  BY <1>7, <1>8, <1>9

LEMMA OpenPullRequestKeeps ==
  ASSUME CreateInv, NEW k \in Run, OpenPullRequest(k)
  PROVE  CreateInv'
<1>1. run[k].state = "pr" /\ run[k].state \in Steps /\ made' = made /\ app' = app
  BY DEF OpenPullRequest, At, Steps
<1>2. /\ Types /\ run[k] # NoRun /\ run[k] \in RunRecord /\ RunOf(k)
      /\ Planned(run[k]) /\ Placed(k)
  BY <1>1, RunAt
<1>3. PICK o \in Options : o = run[k].opts
  BY <1>1, RunAt
<1>4. o.path = "adopt"
  BY <1>1, <1>2, <1>3 DEF Planned
<1>5. PICK n \in Repo : n = o.repo
  BY OptionTypes
<1> DEFINE r == [github[n] EXCEPT !.pr = k, !.prs = @ \cup {k}]
<1>6. /\ Exists(n) /\ github' = [github EXCEPT ![n] = r]
      /\ GoesLeaving(k, "write", "pull request") \/ GoesLeaving(k, "failed", "pull request")
  BY <1>3, <1>5 DEF OpenPullRequest
<1>7. github[n] \in RepoRecord
  BY <1>2, <1>6 DEF Types, Exists
<1>8. github[n].branchBy = k
  BY <1>1, <1>2, <1>3, <1>5 DEF Placed, AdoptedIn
<1>9. /\ r \in RepoRecord /\ r.id = github[n].id /\ r.madeBy = github[n].madeBy
      /\ r.default = github[n].default /\ r.prs = github[n].prs \cup {k}
      /\ r.branchBy = k /\ r.pr = k
      /\ r.branch = github[n].branch /\ r.main = github[n].main
  BY <1>7, <1>8 DEF RepoRecord
<1>10. r.empty = github[n].empty
  BY <1>7 DEF RepoRecord
<1>11. /\ "write" \in Steps
       /\ Turned(k, "failed", "pull request") \/ Turned(k, "write", "pull request")
  BY <1>1, <1>2, <1>6, GoesTurns DEF Steps, Outcomes
<1>12. github'[n] = r /\ \A m \in Repo \ {n} : github'[m] = github[m]
  BY <1>2, <1>6 DEF Types
<1>13. Migrates(github[n].main.migrates) /\ Migrates(github[n].branch.migrates)
  BY <1>6 DEF CreateInv, RepoOf
<1> HIDE DEF r
<1>14. ASSUME Turned(k, "write", "pull request") PROVE Planned(run'[k]) /\ Placed(k)'
  <2>1. Planned(run'[k])
    BY <1>1, <1>2, <1>3, <1>4, <1>14 DEF Planned, Turned, Steps
  <2>2. /\ run'[k].state = "write" /\ run'[k].opts = o /\ run'[k].id = run[k].id
    BY <1>3, <1>14 DEF Turned
  <2>3. ASSUME NEW m \in Repo, github'[m] # NoRepository, github'[m].id = run[k].id
        PROVE  m = n
    <3>1. ASSUME m # n PROVE Exists(m) /\ github[m].id = run[k].id
      BY <1>12, <2>3, <3>1 DEF Exists
    <3> QED
      BY <1>1, <1>2, <1>3, <1>4, <1>5, <3>1 DEF Placed, AdoptedIn
  <2>4. k \in github'[n].prs
    BY <1>9, <1>12
  <2>5. AdoptedIn(k)'
    BY <1>5, <2>2, <2>3, <2>4 DEF AdoptedIn, Exists
  <2>6. Created(k)'
    BY <1>4, <2>2 DEF Created
  <2> QED
    BY <2>1, <2>5, <2>6 DEF Placed
<1> QED
  BY <1>1, <1>6, <1>8, <1>9, <1>10, <1>11, <1>12, <1>13, <1>14, EditKeeps

-----------------------------------------------------------------------------
(* The Platform repository *)

LEMMA WriteApplicationKeeps ==
  ASSUME CreateInv, NEW k \in Run, WriteApplication(k)
  PROVE  CreateInv'
<1>1. /\ run[k].state = "write" /\ run[k].state \in Steps
      /\ github' = github /\ made' = made
  BY DEF WriteApplication, At, Steps
<1>2. /\ Types /\ run[k] # NoRun /\ run[k] \in RunRecord /\ RunOf(k)
      /\ Planned(run[k]) /\ Placed(k) /\ PlanAccepted(run[k].opts)
  BY <1>1, RunAt
<1>3. PICK o \in Options : o = run[k].opts
  BY <1>1, RunAt
<1>4. PICK m \in Name : m = o.name
  BY OptionTypes
<1>5. PICK l \in {"nothing", "repository", "branch", "pull request"} : l = run[k].left
  BY <1>2 DEF RunRecord
<1>6. Evolves
  BY <1>1, <1>2, NothingChanges
<1>7. \/ (app[m] # NoApp \/ ~o.writable) /\ Goes(k, "refused") /\ app' = app
      \/ /\ app[m] = NoApp /\ app' = [app EXCEPT ![m] = NewApplication(k)]
         /\ Goes(k, "done") \/ Goes(k, "failed")
  BY <1>3, <1>4 DEF WriteApplication
<1>8. CASE (app[m] # NoApp \/ ~o.writable) /\ Goes(k, "refused") /\ app' = app
  <2>1. "refused" \in Outcomes /\ Turned(k, "refused", l)
    BY <1>2, <1>5, <1>8, GoesTurns DEF Outcomes
  <2>2. \/ app'[run[k].opts.name] # NoApp
        \/ ~run[k].opts.interactive /\ ~run[k].opts.writable
    BY <1>1, <1>2, <1>3, <1>4, <1>8 DEF Planned, Steps
  <2>3. /\ RunOf(k)' /\ RunsGrow /\ run' \in [Run -> RunRecord \cup {NoRun}]
        /\ \A j \in Run \ {k} : run'[j] = run[j]
    BY <1>1, <1>2, <1>6, <2>1, <2>2, RunRests
  <2>4. Types'
    BY <1>1, <1>2, <1>8, <2>3 DEF Types
  <2> QED
    BY <1>1, <1>6, <1>8, <2>3, <2>4, StepKeeps DEF AppsGrow
<1>9. CASE /\ app[m] = NoApp /\ app' = [app EXCEPT ![m] = NewApplication(k)]
           /\ Goes(k, "done") \/ Goes(k, "failed")
  <2>1. PICK a : a = NewApplication(k)
    OBVIOUS
  <2>2. /\ a.by = k /\ a.path = o.path /\ a.repo = run[k].id /\ a.kind = run[k].kind
        /\ a.previews = o.previews /\ a.staging = o.staging
    BY <1>3, <2>1 DEF NewApplication
  <2>3. a.postgres = o.postgres
    BY <1>3, <2>1 DEF NewApplication
  <2>4. run[k].kind \in Kind /\ run[k].id \in Nat /\ run[k].id <= made /\ made \in Nat
    <3>1. run[k].kind \in Kind
      BY <1>1, <1>2 DEF Planned
    <3>2. run[k].id \in Nat /\ run[k].id <= made
      BY <1>2 DEF RunOf, RunRecord
    <3>3. made \in Nat
      BY <1>2, MadeIsNat
    <3> QED
      BY <3>1, <3>2, <3>3
  <2>5. a \in AppRecord
    BY <1>3, <2>1, <2>4, OptionTypes DEF NewApplication, AppRecord
  <2>6. app'[m] = a /\ \A i \in Name \ {m} : app'[i] = app[i]
    BY <1>2, <1>9, <2>1 DEF Types
  <2>7. a # NoApp
    BY <2>5, RecordsDiffer
  <2>8. PICK s \in {"done", "failed"} : Turned(k, s, l)
    BY <1>2, <1>5, <1>9, GoesTurns DEF Outcomes
  <2>9. /\ RunOf(k)' /\ RunsGrow /\ run' \in [Run -> RunRecord \cup {NoRun}]
        /\ \A j \in Run \ {k} : run'[j] = run[j]
    <3>1. s \in Outcomes /\ s # "declined" /\ s # "refused"
      BY DEF Outcomes
    <3>2. app'[run[k].opts.name] # NoApp /\ app'[run[k].opts.name].by = k
      BY <1>3, <1>4, <2>2, <2>6, <2>7
    <3> QED
      BY <1>1, <1>2, <1>6, <2>8, <3>1, <3>2, RunRests
  <2>10. run'[k] # NoRun /\ run'[k].opts = o
    BY <1>2, <1>3, <2>9 DEF RunsGrow
  <2>11. a.repo <= made'
    BY <1>1, <2>2, <2>4
  <2>12. a.path # "" => a.repo # 0
    BY <1>1, <1>2, <1>3, <2>2 DEF Planned
  <2>13. a.kind = "static-site" => ~a.postgres
    <3>1. run[k].kind = "static-site" => ~o.postgres
      BY <1>1, <1>2, <1>3 DEF Planned
    <3> QED
      BY <2>2, <2>3, <3>1
  <2>14. a.previews => a.repo # 0 /\ a.staging
    <3>1. o.previews => o.staging /\ o.path # ""
      BY <1>2, <1>3 DEF PlanAccepted
    <3> QED
      BY <2>2, <2>12, <3>1
  <2>15. ASSUME NEW n \in Repo, Exists(n), a.repo = github[n].id PROVE Serves(n, a)
    <3>1. ASSUME a.path = "create"
          PROVE  github[n].madeBy = a.by /\ ~github[n].empty /\ github[n].default = "main"
      <4>1. o.name \in Repo
        BY <2>2, <3>1, OptionTypes
      <4>2. /\ Exists(o.name) /\ github[o.name].id = run[k].id /\ github[o.name].madeBy = k
            /\ ~github[o.name].empty /\ github[o.name].default = "main"
        BY <1>1, <1>2, <1>3, <2>2, <3>1 DEF Placed, Created
      <4>3. n = o.name
        BY <2>2, <2>15, <4>1, <4>2 DEF CreateInv, UniqueIds
      <4> QED
        BY <2>2, <4>2, <4>3
    <3>2. ASSUME a.path = "adopt" PROVE a.by \in github[n].prs
      <4>1. n = o.repo
        BY <1>1, <1>2, <1>3, <2>2, <2>15, <3>2 DEF Placed, AdoptedIn
      <4> QED
        BY <1>1, <1>2, <1>3, <2>2, <2>15, <3>2, <4>1 DEF Placed, AdoptedIn
    <3> QED
      BY <3>1, <3>2 DEF Serves
  <2>16. AppOf(m)'
    <3>1. \A n \in Repo : Exists(n)' /\ a.repo = github'[n].id => Serves(n, a)'
      BY <1>1, <2>15 DEF Exists, Serves
    <3>2. run'[a.by] # NoRun /\ (a.postgres <=> run'[a.by].opts.postgres)
      BY <2>2, <2>3, <2>10
    <3> QED
      BY <2>6, <2>11, <2>12, <2>13, <2>14, <3>1, <3>2 DEF AppOf, Serves
  <2>17. Types'
    <3>1. app' \in [Name -> AppRecord \cup {NoApp}]
      BY <1>2, <1>9, <2>1, <2>5 DEF Types
    <3> QED
      BY <1>1, <1>2, <2>9, <3>1 DEF Types
  <2>18. AppsGrow
    BY <1>9, <2>6 DEF AppsGrow
  <2> QED
    BY <1>1, <1>6, <2>6, <2>9, <2>16, <2>17, <2>18, StepKeeps
<1> QED
  BY <1>7, <1>8, <1>9

-----------------------------------------------------------------------------
(* What others do *)

(* Others' edit of a repository. *)
LEMMA OthersEditKeeps ==
  ASSUME CreateInv, NEW n \in Repo, Exists(n), made' = made, app' = app, run' = run,
         NEW r \in RepoRecord, github' = [github EXCEPT ![n] = r],
         r.id = github[n].id, r.madeBy = github[n].madeBy,
         github[n].default = "main" => r.default = "main",
         ~github[n].empty => ~r.empty,
         github[n].prs \subseteq r.prs,
         r.branchBy = github[n].branchBy \/ Over(github[n].branchBy),
         r.pr # Nobody => r.branchBy = r.pr,
         Migrates(r.main.migrates), Migrates(r.branch.migrates)
  PROVE  CreateInv'
<1>1. Types /\ RunsGrow /\ AppsGrow
  BY DEF CreateInv, RunsGrow, AppsGrow
<1>2. github' \in [Repo -> RepoRecord \cup {NoRepository}]
  BY <1>1 DEF Types
<1>3. Evolves
  BY <1>1, RepositoryIsEdited
<1>4. github'[n] = r /\ \A m \in Repo \ {n} : github'[m] = github[m]
  BY <1>1 DEF Types
<1>5. RepoOf(n)'
  <2>1. github[n].id <= made
    BY DEF CreateInv, RepoOf
  <2>2. PICK i, j \in Run \cup {Nobody} : i = r.main.migrates /\ j = r.branch.migrates
    BY DEF RepoRecord, Content
  <2>3. Migrates(i)' /\ Migrates(j)'
    BY <1>1, <2>2, MigratesStays
  <2> QED
    BY <1>4, <2>1, <2>2, <2>3 DEF RepoOf, Migrates
<1>6. Types'
  BY <1>1, <1>2 DEF Types
<1> QED
  BY <1>1, <1>3, <1>4, <1>5, <1>6, StepKeeps

LEMMA MakeRepositoryKeeps ==
  ASSUME CreateInv, NEW n \in Repo, MakeRepository(n)
  PROVE  CreateInv'
<1> DEFINE Repository(c, p) ==
             [id |-> made + 1, madeBy |-> Nobody, inOrg |-> TRUE, canPush |-> p,
              default |-> "main", empty |-> FALSE, main |-> c,
              branchBy |-> Nobody, branch |-> NoFiles, pr |-> Nobody, prs |-> {}]
<1>1. /\ Types /\ made \in Nat /\ app' = app /\ run' = run
      /\ made' = made + 1 /\ made < MaxRepos /\ ~Exists(n)
  BY DEF CreateInv, Types, MakeRepository
<1>2. PICK c \in Contents, p \in BOOLEAN : github' = [github EXCEPT ![n] = Repository(c, p)]
  BY DEF MakeRepository
<1>3. Repository(c, p) \in RepoRecord
  BY <1>1, ContentsType DEF RepoRecord
<1>4. github'[n] = Repository(c, p) /\ \A m \in Repo \ {n} : github'[m] = github[m]
  BY <1>1, <1>2 DEF Types
<1>5. Repository(c, p).id = made + 1
  OBVIOUS
<1>6. Evolves
  <2> HIDE DEF Repository
  <2> QED
    BY <1>1, <1>2, <1>3, <1>5, RepositoryAppears
<1>7. RepoOf(n)'
  <2>1. github'[n].pr = Nobody /\ github'[n].main = c /\ github'[n].branch = NoFiles
    BY <1>4
  <2>2. github'[n].id <= made'
    BY <1>1, <1>4, <1>5
  <2>3. github'[n].main.migrates = Nobody /\ github'[n].branch.migrates = Nobody
    BY <2>1, ContentsType
  <2> QED
    BY <2>1, <2>2, <2>3 DEF RepoOf, Migrates
<1>8. Types'
  <2>1. made' \in 0 .. MaxRepos
    BY <1>1, AppCreateAssumption
  <2>2. github' \in [Repo -> RepoRecord \cup {NoRepository}]
    <3> HIDE DEF Repository
    <3> QED
      BY <1>1, <1>2, <1>3 DEF Types
  <2> QED
    BY <1>1, <2>1, <2>2 DEF Types
<1> QED
  BY <1>1, <1>4, <1>6, <1>7, <1>8, StepKeeps DEF AppsGrow, RunsGrow

LEMMA EndPullRequestKeeps ==
  ASSUME CreateInv, NEW n \in Repo, EndPullRequest(n)
  PROVE  CreateInv'
<1>1. /\ Exists(n) /\ github[n].pr # Nobody /\ Over(github[n].pr)
      /\ made' = made /\ app' = app /\ run' = run
  BY DEF EndPullRequest
<1>2. github[n] \in RepoRecord /\ RepoOf(n)
  BY <1>1 DEF CreateInv, Types, Exists
<1>3. /\ github[n].branchBy = github[n].pr /\ Over(github[n].branchBy)
      /\ Migrates(github[n].main.migrates) /\ Migrates(github[n].branch.migrates)
  BY <1>1, <1>2 DEF RepoOf
<1>4. PICK main \in {github[n].main, github[n].branch}, by \in {github[n].branchBy, Nobody} :
        github' = [github EXCEPT ![n].pr = Nobody, ![n].main = main, ![n].branchBy = by]
  BY DEF EndPullRequest
<1> DEFINE r == [github[n] EXCEPT !.pr = Nobody, !.main = main, !.branchBy = by]
<1>5. github' = [github EXCEPT ![n] = r]
  BY <1>4
<1>6. /\ r \in RepoRecord /\ r.id = github[n].id /\ r.madeBy = github[n].madeBy
      /\ r.default = github[n].default /\ r.prs = github[n].prs
      /\ r.branchBy = by /\ r.pr = Nobody
      /\ r.branch = github[n].branch /\ r.main = main
  BY <1>2, <1>4 DEF RepoRecord
<1>7. r.empty = github[n].empty
  BY <1>2 DEF RepoRecord
<1>8. Migrates(main.migrates)
  BY <1>3, <1>4
<1> HIDE DEF r
<1> QED
  BY <1>1, <1>3, <1>5, <1>6, <1>7, <1>8, OthersEditKeeps

LEMMA DeleteBranchKeeps ==
  ASSUME CreateInv, NEW n \in Repo, DeleteBranch(n)
  PROVE  CreateInv'
<1>1. /\ Exists(n) /\ github[n].pr = Nobody /\ Over(github[n].branchBy)
      /\ made' = made /\ app' = app /\ run' = run
  BY DEF DeleteBranch
<1>2. github[n] \in RepoRecord /\ RepoOf(n)
  BY <1>1 DEF CreateInv, Types, Exists
<1>3. Migrates(github[n].main.migrates) /\ Migrates(github[n].branch.migrates)
  BY <1>1, <1>2 DEF RepoOf
<1> DEFINE r == [github[n] EXCEPT !.branchBy = Nobody]
<1>4. github' = [github EXCEPT ![n] = r]
  BY DEF DeleteBranch
<1>5. /\ r \in RepoRecord /\ r.id = github[n].id /\ r.madeBy = github[n].madeBy
      /\ r.default = github[n].default /\ r.prs = github[n].prs
      /\ r.branchBy = Nobody /\ r.pr = Nobody
      /\ r.branch = github[n].branch /\ r.main = github[n].main
  BY <1>1, <1>2 DEF RepoRecord
<1>6. r.empty = github[n].empty
  BY <1>2 DEF RepoRecord
<1> HIDE DEF r
<1> QED
  BY <1>1, <1>3, <1>4, <1>5, <1>6, OthersEditKeeps

LEMMA TransferKeeps ==
  ASSUME CreateInv, NEW n \in Repo, Transfer(n)
  PROVE  CreateInv'
<1>1. Exists(n) /\ made' = made /\ app' = app /\ run' = run
  BY DEF Transfer
<1>2. github[n] \in RepoRecord /\ RepoOf(n)
  BY <1>1 DEF CreateInv, Types, Exists
<1>3. /\ github[n].pr # Nobody => github[n].branchBy = github[n].pr
      /\ Migrates(github[n].main.migrates) /\ Migrates(github[n].branch.migrates)
  BY <1>1, <1>2 DEF RepoOf
<1> DEFINE r == [github[n] EXCEPT !.inOrg = FALSE]
<1>4. github' = [github EXCEPT ![n] = r]
  BY DEF Transfer
<1>5. /\ r \in RepoRecord /\ r.id = github[n].id /\ r.madeBy = github[n].madeBy
      /\ r.default = github[n].default /\ r.prs = github[n].prs
      /\ r.branchBy = github[n].branchBy /\ r.pr = github[n].pr
      /\ r.branch = github[n].branch /\ r.main = github[n].main
  BY <1>2 DEF RepoRecord
<1>6. r.empty = github[n].empty
  BY <1>2 DEF RepoRecord
<1> HIDE DEF r
<1> QED
  BY <1>1, <1>3, <1>4, <1>5, <1>6, OthersEditKeeps

LEMMA DeleteRepositoryKeeps ==
  ASSUME CreateInv, NEW n \in Repo, DeleteRepository(n)
  PROVE  CreateInv'
<1>1. /\ Exists(n) /\ Over(github[n].madeBy) /\ Over(github[n].branchBy)
      /\ github' = [github EXCEPT ![n] = NoRepository]
      /\ made' = made /\ app' = app /\ run' = run
  BY DEF DeleteRepository
<1>2. Types /\ RunsGrow /\ AppsGrow
  BY <1>1 DEF CreateInv, RunsGrow, AppsGrow
<1>3. Evolves
  BY <1>1, <1>2, RepositoryGoes
<1>4. github'[n] = NoRepository /\ \A m \in Repo \ {n} : github'[m] = github[m]
  BY <1>1, <1>2 DEF Types
<1>5. RepoOf(n)'
  BY <1>4 DEF RepoOf, Exists
<1>6. Types'
  BY <1>1, <1>2 DEF Types
<1> QED
  BY <1>1, <1>2, <1>3, <1>4, <1>5, <1>6, StepKeeps

LEMMA BindKeeps ==
  ASSUME CreateInv, NEW m \in Name, NEW n \in Repo, Bind(m, n)
  PROVE  CreateInv'
<1>1. /\ app[m] # NoApp /\ app[m].repo = 0 /\ Exists(n)
      /\ github' = github /\ made' = made /\ run' = run
  BY DEF Bind
<1>2. Types /\ RunsGrow /\ AppOf(m) /\ RepoOf(n)
  BY <1>1 DEF CreateInv, RunsGrow
<1>3. Evolves
  BY <1>1, <1>2, NothingChanges
<1>4. PICK i \in Nat : i = github[n].id
  BY <1>1, <1>2 DEF Types, Exists, RepoRecord
<1> DEFINE a == [app[m] EXCEPT !.repo = i]
<1>5. app' = [app EXCEPT ![m] = a]
  BY <1>4 DEF Bind
<1>6. app[m] \in AppRecord
  BY <1>1, <1>2 DEF Types
<1>7. /\ a \in AppRecord /\ a.repo = i /\ a.by = app[m].by /\ a.path = app[m].path
      /\ a.kind = app[m].kind
  BY <1>6 DEF AppRecord
<1>8. a.postgres = app[m].postgres /\ a.previews = app[m].previews
  BY <1>6 DEF AppRecord
<1>9. app'[m] = a /\ \A j \in Name \ {m} : app'[j] = app[j]
  BY <1>2, <1>5 DEF Types
<1>10. app[m].path = "" /\ ~app[m].previews
  BY <1>1, <1>2 DEF AppOf
<1>11. /\ run[app[m].by] # NoRun /\ (app[m].postgres <=> run[app[m].by].opts.postgres)
       /\ app[m].kind = "static-site" => ~app[m].postgres
  BY <1>1, <1>2 DEF AppOf
<1>12. i <= made'
  BY <1>1, <1>2, <1>4 DEF RepoOf
<1> HIDE DEF a
<1>13. AppOf(m)'
  <2>1. a.kind = "static-site" => ~a.postgres
    BY <1>7, <1>8, <1>11
  <2>2. run'[a.by] # NoRun /\ (a.postgres <=> run'[a.by].opts.postgres)
    BY <1>1, <1>7, <1>8, <1>11
  <2>3. ~a.previews /\ a.path = ""
    BY <1>7, <1>8, <1>10
  <2> QED
    BY <1>7, <1>9, <1>12, <2>1, <2>2, <2>3 DEF AppOf, Serves
<1>14. Types'
  <2>1. app' \in [Name -> AppRecord \cup {NoApp}]
    BY <1>2, <1>5, <1>7 DEF Types
  <2> QED
    BY <1>1, <1>2, <2>1 DEF Types
<1>15. AppsGrow
  <2>1. a # NoApp
    BY <1>7, RecordsDiffer
  <2> QED
    BY <1>7, <1>9, <2>1 DEF AppsGrow
<1> QED
  BY <1>1, <1>2, <1>3, <1>9, <1>13, <1>14, <1>15, StepKeeps

-----------------------------------------------------------------------------
(* The invariant of the specification *)

LEMMA CreateInvInit == AppCreateInit => CreateInv
<1> SUFFICES ASSUME AppCreateInit PROVE CreateInv
  OBVIOUS
<1>1. /\ \A n \in Repo : github[n] = NoRepository
      /\ \A m \in Name : app[m] = NoApp
      /\ \A k \in Run : run[k] = NoRun
  BY DEF AppCreateInit
<1>2. Types
  BY AppCreateAssumption DEF AppCreateInit, Types
<1> QED
  BY <1>1, <1>2 DEF CreateInv, UniqueIds, RunOf, RepoOf, AppOf, Exists

LEMMA CreateInvStep == CreateInv /\ [AppCreateNext]_createVars => CreateInv'
<1> SUFFICES ASSUME CreateInv, [AppCreateNext]_createVars PROVE CreateInv'
  OBVIOUS
<1>1. ASSUME NEW k \in Run,
             \/ Begin(k) \/ Summarise(k) \/ CheckAvailable(k)
             \/ RepositoryExists(k) \/ CreateRepository(k) \/ PushTemplate(k)
             \/ SetDefaultBranch(k) \/ ReadRepository(k) \/ Detect(k) \/ PushBranch(k)
             \/ OpenPullRequest(k) \/ WriteApplication(k) \/ Fail(k)
      PROVE  CreateInv'
  BY <1>1, BeginKeeps, ReadingKeeps, CreateRepositoryKeeps, PushTemplateKeeps,
     SetDefaultBranchKeeps, ReadRepositoryKeeps, DetectKeeps, PushBranchKeeps,
     OpenPullRequestKeeps, WriteApplicationKeeps
<1>2. ASSUME NEW n \in Repo,
             \/ MakeRepository(n) \/ EndPullRequest(n) \/ DeleteBranch(n)
             \/ DeleteRepository(n) \/ Transfer(n)
      PROVE  CreateInv'
  BY <1>2, MakeRepositoryKeeps, EndPullRequestKeeps, DeleteBranchKeeps,
     DeleteRepositoryKeeps, TransferKeeps
<1>3. ASSUME UNCHANGED createVars PROVE CreateInv'
  <2>1. Types' /\ Evolves /\ AppsGrow /\ RunsGrow
    BY <1>3, NothingChanges DEF CreateInv, Types, AppsGrow, RunsGrow, createVars
  <2> QED
    BY <1>3, <2>1, StepKeeps DEF createVars
<1> QED
  BY <1>1, <1>2, <1>3, BindKeeps DEF AppCreateNext

LEMMA CreateInvAlways == AppCreateSpec => []CreateInv
BY CreateInvInit, CreateInvStep, PTL DEF AppCreateSpec

-----------------------------------------------------------------------------
(* An Application is bound to the very repository its run made, which holds the template
   on main, or to the one its run opened a pull request on, never to another of that
   name, whatever is transferred, deleted or made again meanwhile; and of the runs of
   one repository at most one has a pull request open (apprepo.Create and Adopt, before
   the Writer's CreateApplication). *)
THEOREM ApplicationsKeepTheirRepository == AppCreateSpec => []ApplicationsHaveTheirRepository
<1>1. CreateInv => ApplicationsHaveTheirRepository
  <2> SUFFICES ASSUME CreateInv PROVE ApplicationsHaveTheirRepository
    OBVIOUS
  <2>1. ASSUME NEW m \in Name, NEW n \in Repo,
               app[m] # NoApp, Exists(n), app[m].repo = github[n].id
        PROVE  CASE app[m].path = "create" ->
                      github[n].madeBy = app[m].by /\ ~github[n].empty
                        /\ github[n].default = "main"
                 [] app[m].path = "adopt" -> app[m].by \in github[n].prs
                 [] app[m].path = "" -> TRUE
    <3>1. Serves(n, app[m]) /\ app[m].path \in {"", "create", "adopt"}
      BY <2>1 DEF CreateInv, AppOf, Types, AppRecord
    <3>2. CASE app[m].path = "create"
      BY <3>1, <3>2 DEF Serves
    <3>3. CASE app[m].path = "adopt"
      BY <3>1, <3>3 DEF Serves
    <3>4. CASE app[m].path = ""
      BY <3>4
    <3> QED
      BY <3>1, <3>2, <3>3, <3>4
  <2>2. \A n \in Repo : Exists(n) /\ github[n].pr # Nobody => github[n].branchBy = github[n].pr
    BY DEF CreateInv, RepoOf
  <2> QED
    BY <2>1, <2>2 DEF ApplicationsHaveTheirRepository
<1> QED
  BY <1>1, CreateInvAlways, PTL

(* A run that is refused has left nothing on GitHub, unless another took its name while
   it ran; or, without the wizard's summary, it was given what only the Writer checks; or
   GitHub tells no scopes of its token and refused the first push, which leaves the
   repository empty (the order of runAppCreate's checks, and CheckWorkflowScope). *)
THEOREM RefusalsDoComeFirst == AppCreateSpec => []RefusalsComeFirst
<1>1. CreateInv => RefusalsComeFirst
  BY DEF CreateInv, RunOf, Told, RefusalsComeFirst
<1> QED
  BY <1>1, CreateInvAlways, PTL

(* Everything keeps its type; a run that says it is done left its Application on the
   Platform; and the database of an Application fits its Kind and its repository's
   migration command (plan, resolveKind and migrationCommand). *)
THEOREM ApplicationsDoFit == AppCreateSpec => []ApplicationsFit
<1>1. CreateInv => ApplicationsFit
  <2> SUFFICES ASSUME CreateInv PROVE ApplicationsFit
    OBVIOUS
  <2>1. AppCreateTypeOK
    <3>1. made \in Nat
      BY AppCreateAssumption DEF CreateInv, Types
    <3>2. ASSUME NEW n \in Repo, Exists(n)
          PROVE  github[n] \in RepoRecord /\ github[n].id \in 1 .. made
      <4>1. github[n] \in RepoRecord /\ github[n].id <= made /\ made \in Nat
        BY <3>2 DEF CreateInv, Types, RepoOf, Exists
      <4> QED
        BY <4>1 DEF RepoRecord
    <3>3. ASSUME NEW n \in Name, app[n] # NoApp
          PROVE  app[n] \in AppRecord /\ app[n].repo \in 0 .. made
      <4>1. app[n] \in AppRecord
        BY <3>3 DEF CreateInv, Types
      <4>2. app[n].repo <= made
        BY <3>3 DEF CreateInv, AppOf
      <4>3. app[n].repo \in Nat
        BY <4>1 DEF AppRecord
      <4> QED
        BY <3>1, <4>1, <4>2, <4>3
    <3>4. ASSUME NEW k \in Run, run[k] # NoRun
          PROVE  run[k] \in RunRecord /\ run[k].id \in 0 .. made
      <4>1. run[k] \in RunRecord
        BY <3>4 DEF CreateInv, Types
      <4>2. run[k].id <= made
        BY <3>4 DEF CreateInv, RunOf
      <4>3. run[k].id \in Nat
        BY <4>1 DEF RunRecord
      <4> QED
        BY <3>1, <4>1, <4>2, <4>3
    <3>5. ASSUME NEW n \in Repo, Exists(n)
          PROVE  /\ github[n].madeBy \in Run \cup {Nobody}
                 /\ github[n].inOrg \in BOOLEAN /\ github[n].canPush \in BOOLEAN
                 /\ github[n].default \in {"main", "master"} /\ github[n].empty \in BOOLEAN
                 /\ github[n].main \in Content /\ github[n].branch \in Content
                 /\ github[n].branchBy \in Run \cup {Nobody}
                 /\ github[n].pr \in Run \cup {Nobody} /\ github[n].prs \subseteq Run
                 /\ github[n].pr # Nobody => github[n].branchBy # Nobody
      <4>1. github[n].pr # Nobody => github[n].branchBy # Nobody
        BY <3>5 DEF CreateInv, RepoOf
      <4> QED
        BY <3>2, <3>5, <4>1 DEF RepoRecord
    <3>6. ASSUME NEW n \in Name, app[n] # NoApp
          PROVE  app[n].by \in Run /\ app[n].kind \in Kind
      BY <3>3, <3>6 DEF AppRecord
    <3>7. ASSUME NEW k \in Run, run[k] # NoRun
          PROVE  /\ run[k].state \in Steps \cup Outcomes /\ run[k].opts \in Options
                 /\ run[k].left \in {"nothing", "repository", "branch", "pull request"}
                 /\ run[k].kind \in Kind \cup {""}
      BY <3>4, <3>7 DEF RunRecord
    <3>8. made \in 0 .. MaxRepos
      BY DEF CreateInv, Types
    <3> QED
      BY <3>2, <3>3, <3>4, <3>5, <3>6, <3>7, <3>8 DEF AppCreateTypeOK
  <2>2. \A k \in Run : (run[k] # NoRun /\ run[k].state = "done") => app[run[k].opts.name].by = k
    BY DEF CreateInv, RunOf, Told
  <2>3. ASSUME NEW m \in Name, app[m] # NoApp
        PROVE  /\ app[m].kind = "static-site" => ~app[m].postgres
               /\ app[m].previews => app[m].repo # 0 /\ app[m].staging
    BY <2>3 DEF CreateInv, AppOf
  <2>4. ASSUME NEW m \in Name, app[m] # NoApp, NEW n \in Repo, Exists(n),
               app[m].by \in {github[n].main.migrates, github[n].branch.migrates}
        PROVE  app[m].postgres
    <3>1. app[m].by # Nobody
      BY <2>4, RecordsDiffer DEF CreateInv, Types, AppRecord
    <3>2. app[m].postgres <=> run[app[m].by].opts.postgres
      BY <2>4 DEF CreateInv, AppOf
    <3>3. Migrates(app[m].by)
      BY <2>4 DEF CreateInv, RepoOf
    <3> QED
      BY <3>1, <3>2, <3>3 DEF Migrates
  <2> QED
    BY <2>1, <2>2, <2>3, <2>4 DEF ApplicationsFit
<1> QED
  BY <1>1, CreateInvAlways, PTL
=============================================================================
