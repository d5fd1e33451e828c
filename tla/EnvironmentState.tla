--------------------------- MODULE EnvironmentState ---------------------------
(***************************************************************************)
(* What the Platform says of one Environment (internal/platformstate): its *)
(* Condition, its Activity and its Deploys, worked out from the objects of *)
(* the cluster, which ArgoCD, Kubernetes and the Deploy gate move each in  *)
(* its own time.  The definitions are the package's; the actions are the   *)
(* cluster, as the package and the application chart suppose it to be.     *)
(*                                                                         *)
(* A moment is held as its age, which stops counting once it is past every *)
(* timeout it is compared with: the package asks nothing else of it.  An   *)
(* Arriving Environment's last step forward is one such moment.            *)
(***************************************************************************)
EXTENDS Integers, Sequences, FiniteSets, FiniteSetsExt, SequencesExt

CONSTANTS
  MaxTag,               \* image tags, numbered as they are first committed
  Migrates,             \* whether it has a migration command
  NotReadyGrace,        \* the timeouts, in ticks of the clock
  OutOfSyncStuckAfter,
  ArrivingStuckAfter,
  UnreleasedAfter,
  LeavingStuckAfter,
  MaxCommits,           \* bound: commits to the Platform repository
  MaxEvents,            \* bound: Events of the Deploy gate kept at once
  MaxCommitsDeleted,    \* bound: commits to an Environment that is deleted
  MaxFaults             \* bound: things that go wrong, or Events refused or expired

ASSUME EnvironmentAssumption ==
  /\ MaxTag \in Nat \ {0} /\ Migrates \in BOOLEAN
  /\ \A t \in {NotReadyGrace, OutOfSyncStuckAfter, ArrivingStuckAfter,
               UnreleasedAfter, LeavingStuckAfter} : t \in Nat
  /\ MaxCommits \in Nat \ {0} /\ MaxEvents \in Nat /\ MaxCommitsDeleted \in Nat /\ MaxFaults \in Nat

VARIABLES
  commits,    \* the Platform repository: what each commit asks for
  events,     \* the Deploy gate's Events, oldest first
  app,        \* the ArgoCD Application, and whether it is a Preview Environment's
  migration,  \* the migration Job
  backup,     \* the final backup Job
  deployment, \* the Deployment
  pods,       \* its Pods: one for each template
  age,        \* how long ago each moment was
  faults      \* how much has gone wrong

envVars == <<commits, events, app, migration, backup, deployment, pods, age, faults>>

-----------------------------------------------------------------------------
Tag == 1 .. MaxTag
NoTag == 0

\* The age at which each moment stops counting.
Old == [created |-> Max({UnreleasedAfter, OutOfSyncStuckAfter + 1}),
        accepted |-> 1 + Max({OutOfSyncStuckAfter, ArrivingStuckAfter}),
        outOfSync |-> 1 + OutOfSyncStuckAfter, finished |-> 1 + OutOfSyncStuckAfter,
        step |-> 1 + ArrivingStuckAfter, unavailable |-> 1 + NotReadyGrace,
        deleted |-> 1 + LeavingStuckAfter]
Commit == 1 .. MaxCommits

\* The pod template a commit asks for: the first commit that asked for the same.
TemplateOf(cs, c) ==
  Min({i \in 1 .. c : cs[i].tag = cs[c].tag /\ cs[i].restart = cs[c].restart})

JobState == {"none", "pending", "unschedulable", "running", "complete", "failed"}
PodState == {"none", "starting", "ready", "failing", "pulling", "unknown"}

EnvironmentTypeOK ==
  /\ commits \in BoundedSeq([tag : Tag \cup {NoTag}, restart : 0 .. MaxCommits], MaxCommits)
  /\ events \in BoundedSeq([tag : Tag, commit : 0 .. MaxCommits], MaxEvents)
  /\ \A i \in DOMAIN events : events[i].commit \in 0 .. Len(commits)
  /\ app \in [sync : {"Unknown", "Synced", "OutOfSync"}, revision : 0 .. Len(commits),
              phase : {"none", "Running", "Succeeded", "Failed"}, on : 0 .. Len(commits),
              history : SUBSET DOMAIN commits, error : {"", "ComparisonError", "DeletionError"},
              healthUnknown : BOOLEAN, looked : BOOLEAN, deleted : BOOLEAN, preview : BOOLEAN,
              step : {"none", "begun", "migrating", "applied"}]
  /\ migration \in [tag : Tag \cup {NoTag}, state : JobState]
  /\ (migration.tag = NoTag) = (migration.state = "none")
  /\ backup \in JobState
  /\ deployment \in [template : 0 .. Len(commits), progress : {"none", "progressing", "done", "deadline"}]
  /\ pods \in [Commit -> PodState]
  /\ deployment.template = 0 => \A i \in Commit : pods[i] = "none"
  /\ \A i \in Commit : pods[i] # "none" => i <= Len(commits)
  /\ DOMAIN age = DOMAIN Old \cup {"pod"}
  /\ \A m \in DOMAIN Old : age[m] \in 0 .. Old[m]
  /\ age.pod \in [Commit -> 0 .. Old.unavailable]
  /\ faults \in 0 .. MaxFaults

-----------------------------------------------------------------------------
(* The facts the rules read.  The Deployment wants one Pod.                 *)

Running == IF deployment.template = 0 THEN NoTag ELSE commits[deployment.template].tag
PodTag(i) == commits[i].tag
Pods == {i \in Commit : pods[i] # "none"}
Ready == {i \in Pods : pods[i] = "ready"}
Desired == 1

OperationRunning == app.phase = "Running"
OperationFailed == app.phase = "Failed"
OperationOn(c) == app.on = c
CommitSynced(c) ==
  \/ c \in app.history
  \/ app.phase = "Succeeded" /\ OperationOn(c)
  \/ app.sync = "Synced" /\ app.revision = c

\* pods of an earlier version still there while a new one rolls out count
Served ==
  /\ deployment.template # 0
  /\ \/ deployment.progress = "done"
     \/ \E i \in Pods : PodTag(i) # Running
     \/ Ready # {} /\ Cardinality(Ready) >= Desired

\* in CrashLoopBackOff, killed for its memory, or impossible to schedule
FailingAtOnce(i) == pods[i] = "failing"
Reason(w, why) == IF w THEN why ELSE ""

-----------------------------------------------------------------------------
(* The Condition                                                           *)

\* Bug: Pods that are not ready count although enough others are.
PodsConditionWithoutReady(graced) ==
  IF \E i \in Pods \ Ready : FailingAtOnce(i) \/ (graced /\ age.pod[i] > NotReadyGrace)
  THEN "Degraded" ELSE "Healthy"

PodsCondition(graced) ==
  LET short == Cardinality(Ready) < Desired
      unknown == \E i \in Pods : pods[i] = "unknown"
      \* the earliest that a Pod which is not ready says, or the Deployment
      since == Max({age.unavailable} \cup {age.pod[i] : i \in {j \in Pods \ Ready : pods[j] # "unknown"}})
  IN  CASE short /\ \E i \in Pods \ Ready : FailingAtOnce(i) -> "Degraded"
        [] short /\ graced /\ ~unknown /\ since > NotReadyGrace -> "Degraded"
        [] unknown -> "Unknown"
        [] OTHER -> "Healthy"

Condition ==
  LET c == IF deployment.template = 0 THEN "Healthy" ELSE PodsCondition(Served)
  IN  IF c = "Healthy" /\ app.healthUnknown THEN "Unknown" ELSE c

-----------------------------------------------------------------------------
(* Why a change is stuck                                                   *)

SyncStuck ==
  CASE app.error = "ComparisonError" -> "render"
    [] OperationFailed -> "sync"
    [] OTHER -> ""

MigrationStuck == Reason(migration.state \in {"failed", "unschedulable"}, "migration")

\* Bug: only a first sync that does not start counts.
OutOfSyncStuckAtFirst(since) ==
  Reason(/\ app.sync = "OutOfSync" /\ app.phase = "none"
         /\ Min({since, age.outOfSync}) > OutOfSyncStuckAfter, "outOfSync")

OutOfSyncStuck(since) ==
  Reason(/\ app.sync = "OutOfSync" /\ ~OperationRunning
         /\ Min({since, age.outOfSync}) > OutOfSyncStuckAfter, "outOfSync")

\* the later of the Application's creation and its last sync's end
OutOfSyncFrom == Min({age.created, age.finished})

RolloutStuck(of) ==
  CASE \E i \in Pods : PodTag(i) \in of /\ pods[i] = "pulling" -> "pulling"
    [] deployment.progress = "deadline" -> "deadline"
    [] OTHER -> ""

FirstReason(reasons) ==
  LET said == {i \in DOMAIN reasons : reasons[i] # ""}
  IN  IF said = {} THEN "" ELSE reasons[Min(said)]

ChangeStuck ==
  FirstReason(<<SyncStuck, MigrationStuck, RolloutStuck(Tag), OutOfSyncStuck(OutOfSyncFrom)>>)

RolloutInProgress ==
  /\ deployment.template # 0
  /\ \/ deployment.template \notin Pods
     \/ Pods \ {deployment.template} # {}

Changing ==
  \/ app.sync = "OutOfSync" \/ OperationRunning
  \/ RolloutInProgress \/ deployment.progress = "deadline"

\* The latest step forward counts, the Deploy's acceptance among them.
ArrivingStuck(traced) ==
  Reason(age.step > ArrivingStuckAfter /\ (traced => age.accepted > ArrivingStuckAfter), "arriving")

LeavingStuck ==
  CASE app.error = "DeletionError" -> "blocked"
    [] backup = "failed" -> "backup"
    [] backup = "unschedulable" -> "backup unschedulable"
    [] age.deleted > LeavingStuckAfter -> "leaving"
    [] OTHER -> ""

-----------------------------------------------------------------------------
(* The Deploys                                                             *)

ServingTag(tag) ==
  /\ deployment.template # 0 /\ Running = tag
  /\ Cardinality({i \in Ready : PodTag(i) = tag}) >= Desired

MigrationFor(tag) ==
  migration.tag = tag /\ (migration.state # "complete" \/ OperationRunning)

MigrationStuckFor(tag) == IF migration.tag \in {NoTag, tag} THEN MigrationStuck ELSE ""

\* ArgoCD names the commit as its target, or reconciled after the newest Deploy was accepted.
ArgoCDLooked(c) == app.revision = c \/ app.looked

Under(hop, why) == [hop |-> hop, reason |-> why, by |-> NoTag]
Serves == Under("Serving", "")
SupersededBy(tag) == [hop |-> "", reason |-> "", by |-> tag]

\* Bug: the tag alone places a Deploy, whatever ArgoCD is doing.
PlaceDeployByTag(tag, c) ==
  CASE ServingTag(tag) -> Serves
    [] Running = tag -> Under("RollingOut", RolloutStuck({tag}))
    [] MigrationFor(tag) -> Under("Applying", MigrationStuckFor(tag))
    [] OTHER -> Under("Accepted", "")

\* The hop of the newest Deploy the gate accepted, of tag, committed as c.
PlaceDeploy(tag, c) ==
  CASE OperationOn(c) /\ OperationRunning -> Under("Applying", MigrationStuckFor(tag))
    [] OperationOn(c) /\ OperationFailed ->
         Under("Applying", FirstReason(<<MigrationStuckFor(tag), SyncStuck>>))
    [] OTHER ->
  CASE CommitSynced(c) /\ Running \notin {NoTag, tag} -> SupersededBy(Running)
    [] (CommitSynced(c) \/ Running = tag) /\ ServingTag(tag) -> Serves
    [] CommitSynced(c) \/ Running = tag -> Under("RollingOut", RolloutStuck({tag}))
    [] OTHER ->
  CASE MigrationFor(tag) -> Under("Applying", MigrationStuckFor(tag))
    [] ArgoCDLooked(c) ->
         Under("WaitingForArgoCD",
               IF app.error = "ComparisonError" THEN "render" ELSE OutOfSyncStuck(age.accepted))
    [] OTHER -> Under("Accepted", Reason(app.error = "ComparisonError", "render"))

Accepted == {i \in DOMAIN events : events[i].commit # 0}

\* An earlier Deploy either reached ArgoCD before the next one or was skipped over.
PlaceEarlier(i) ==
  IF CommitSynced(events[i].commit) THEN Serves
  ELSE SupersededBy(events[Min({j \in Accepted : j > i})].tag)

Traced(i) ==
  LET e == events[i]
      place == CASE e.commit = 0 -> Under("", "refused")
                 [] i = Max(Accepted) -> PlaceDeploy(e.tag, e.commit)
                 [] OTHER -> PlaceEarlier(i)
  IN  [tag |-> e.tag, refused |-> e.commit = 0, commit |-> e.commit, traced |-> TRUE, place |-> place]

\* A Deploy no Event accounts for is found by its tag.
ByTag(tag, hop, why) ==
  <<[tag |-> tag, refused |-> FALSE, commit |-> 0, traced |-> FALSE, place |-> Under(hop, why)]>>

\* a Preview Environment's, from the tag its ApplicationSet sets
PreviewDeploy(want) ==
  CASE Running = want /\ ServingTag(want) -> <<>>
    [] Running = want /\ ~ServingTag(want) -> ByTag(want, "RollingOut", RolloutStuck({want}))
    [] OTHER -> ByTag(want, "Applying",
                      FirstReason(<<MigrationStuckFor(want), SyncStuck, OutOfSyncStuck(OutOfSyncFrom)>>))

UntracedDeploy ==
  CASE app.preview /\ Last(commits).tag # NoTag -> PreviewDeploy(Last(commits).tag)
    [] OTHER ->
  CASE migration.tag \notin {NoTag, Running} /\ MigrationFor(migration.tag) ->
         ByTag(migration.tag, "Applying", MigrationStuck)
    [] OTHER ->
  IF \/ Running = NoTag \/ ServingTag(Running)
     \/ Served /\ \A i \in Pods : PodTag(i) = Running   \* a restart or a size, not a Deploy
  THEN <<>> ELSE ByTag(Running, "RollingOut", RolloutStuck({Running}))

UnderWay(d) == ~d.refused /\ d.place.by = NoTag /\ d.place.hop # "Serving"

Deploys ==
  LET traced == [i \in DOMAIN events |-> Traced(i)]
      newest == IF Accepted = {} THEN {} ELSE {traced[Max(Accepted)]}
      known(d) == \E n \in newest : UnderWay(n) \/ n.tag = d.tag
      found == IF \E i \in DOMAIN UntracedDeploy : known(UntracedDeploy[i]) THEN <<>>
               ELSE UntracedDeploy
  IN  traced \o found

\* Bug: the newest Deploy is the one under way, a refused one too.
CurrentOfAny(deploys) ==
  IF deploys = <<>> THEN 0
  ELSE IF UnderWay(Last(deploys)) THEN Len(deploys) ELSE 0

\* The Deploy under way is the newest one that was not refused, until it serves or
\* is overtaken.
CurrentOf(deploys) ==
  LET able == {i \in DOMAIN deploys : ~deploys[i].refused}
  IN  IF able = {} THEN 0
      ELSE IF UnderWay(deploys[Max(able)]) THEN Max(able) ELSE 0

-----------------------------------------------------------------------------
(* The Activity                                                            *)

NoActivity == [state |-> "none", reason |-> "", deploy |-> 0]

Activity ==
  LET deploys == Deploys
      current == CurrentOf(deploys)
      stuck == IF current = 0 THEN ChangeStuck ELSE deploys[current].place.reason
      state ==
        CASE ~Served /\ (current # 0 \/ deployment.template # 0 \/ age.created < UnreleasedAfter) -> "Arriving"
          [] ~Served /\ ~(current # 0 \/ deployment.template # 0 \/ age.created < UnreleasedAfter) -> "Unreleased"
          [] Served /\ current # 0 -> "Deploying"
          [] Served /\ current = 0 -> IF Changing \/ stuck # "" THEN "Updating" ELSE "none"
      arriving ==
        IF state = "Arriving" /\ (current # 0 \/ deployment.template # 0)
        THEN ArrivingStuck(current # 0 /\ deploys[current].traced) ELSE ""
  IN  CASE app.deleted -> [state |-> "Leaving", reason |-> LeavingStuck, deploy |-> 0]
        [] ~app.deleted /\ state = "none" -> NoActivity
        [] OTHER -> [state |-> state, reason |-> FirstReason(<<stuck, arriving>>), deploy |-> current]

Stuck == Activity.reason # ""

-----------------------------------------------------------------------------
(* The cluster                                                             *)

EnvInit ==
  /\ commits = <<[tag |-> NoTag, restart |-> 0]>>
  /\ events = <<>>
  /\ app \in [sync : {"Unknown"}, revision : {0}, phase : {"none"}, on : {0}, history : {{}},
              error : {""}, healthUnknown : {FALSE}, looked : {FALSE}, deleted : {FALSE}, preview : BOOLEAN,
              step : {"none"}]
  /\ migration = [tag |-> NoTag, state |-> "none"]
  /\ backup = "none"
  /\ deployment = [template |-> 0, progress |-> "none"]
  /\ pods = [i \in Commit |-> "none"]
  /\ age = [m \in DOMAIN Old \cup {"pod"} |->
              CASE m = "pod" -> [i \in Commit |-> 0]
                [] m \in {"created", "step", "unavailable", "deleted"} -> 0
                [] OTHER -> Old[m]]
  /\ faults = 0

Tick ==
  LET Older(m) == Min({age[m] + 1, Old[m]}) IN
  /\ age' = [age EXCEPT
       !.created = Older("created"), !.accepted = Older("accepted"),
       !.outOfSync = Older("outOfSync"), !.finished = Older("finished"),
       !.step = Older("step"),
       !.unavailable = IF deployment.template # 0 /\ Ready = {} THEN Older("unavailable") ELSE 0,
       !.deleted = IF app.deleted THEN Older("deleted") ELSE 0,
       !.pod = [i \in Commit |-> IF i \in Pods \ Ready THEN Min({@[i] + 1, Old.unavailable}) ELSE 0]]
  /\ UNCHANGED <<commits, events, app, migration, backup, deployment, pods, faults>>

\* A step that is something going wrong counts as one; see MaxFaults.
Fault(wrong) == faults' = faults + (IF wrong THEN 1 ELSE 0) /\ faults' <= MaxFaults

Alive == ~app.deleted
Committed(c) == Len(commits) < MaxCommits /\ Alive /\ commits' = Append(commits, c)

\* The gate commits a tag, and its Event says so unless it could not be recorded; a
\* Preview Environment's tag never passes the gate.
Deploy(tag, recorded) ==
  /\ tag # Last(commits).tag
  /\ \A t \in 1 .. tag - 1 : \E i \in DOMAIN commits : commits[i].tag = t
  /\ recorded => ~app.preview /\ Len(events) < MaxEvents
  /\ Committed([tag |-> tag, restart |-> Last(commits).restart])
  /\ IF recorded
     THEN /\ events' = Append(events, [tag |-> tag, commit |-> Len(commits) + 1])
          /\ age' = [age EXCEPT !.accepted = 0]
          /\ app' = [app EXCEPT !.looked = FALSE]
     ELSE UNCHANGED <<events, age, app>>
  /\ Fault(~recorded /\ ~app.preview)
  /\ UNCHANGED <<migration, backup, deployment, pods>>

\* Any other change of the Environment's values; some restart its Pods.
Edit(restarts) ==
  /\ Committed([tag |-> Last(commits).tag,
                restart |-> Last(commits).restart + IF restarts THEN 1 ELSE 0])
  /\ UNCHANGED <<events, app, migration, backup, deployment, pods, age, faults>>

Refuse(tag) ==
  /\ ~app.preview /\ Alive /\ Len(events) < MaxEvents
  /\ events' = Append(events, [tag |-> tag, commit |-> 0])
  /\ Fault(TRUE)
  /\ UNCHANGED <<commits, app, migration, backup, deployment, pods, age>>

\* Kubernetes keeps an Event for an hour, which is longer than every timeout.
Expire ==
  /\ events # <<>>
  /\ 1 \in Accepted => Accepted # {1} \/ age.accepted = Old.accepted
  /\ events' = Tail(events)
  /\ Fault(TRUE)
  /\ UNCHANGED <<commits, app, migration, backup, deployment, pods, age>>

\* ArgoCD compares the cluster with the Platform repository.
Look ==
  /\ Alive
  /\ LET sync == IF Len(commits) \in app.history THEN "Synced" ELSE "OutOfSync" IN
     /\ app' = [app EXCEPT !.sync = sync, !.revision = Len(commits), !.looked = TRUE,
                           !.error = "", !.healthUnknown = FALSE]
     /\ age' = [age EXCEPT !.outOfSync =
                  IF sync = "Synced" THEN Old.outOfSync ELSE IF app.sync = "OutOfSync" THEN @ ELSE 0]
  /\ UNCHANGED <<commits, events, migration, backup, deployment, pods, faults>>

CannotRender ==
  /\ Alive /\ app.error = ""
  /\ \E unknown \in BOOLEAN :
       app' = [app EXCEPT !.sync = "Unknown", !.looked = TRUE, !.error = "ComparisonError",
                          !.healthUnknown = unknown]
  /\ age' = [age EXCEPT !.outOfSync = Old.outOfSync]
  /\ Fault(TRUE)
  /\ UNCHANGED <<commits, events, migration, backup, deployment, pods>>

StartSync ==
  /\ Alive /\ app.sync = "OutOfSync" /\ ~OperationRunning
  /\ app' = [app EXCEPT !.phase = "Running", !.on = app.revision, !.step = "begun"]
  /\ age' = [age EXCEPT !.step = 0, !.finished = Old.finished]
  /\ UNCHANGED <<commits, events, migration, backup, deployment, pods, faults>>

\* The Job is a hook: each operation makes it again, and waits for it.
CreateMigration ==
  /\ OperationRunning /\ app.step = "begun"
  /\ Migrates /\ commits[app.on].tag # NoTag
  /\ app' = [app EXCEPT !.step = "migrating"]
  /\ migration' = [tag |-> commits[app.on].tag, state |-> "pending"]
  /\ age' = [age EXCEPT !.step = 0]
  /\ UNCHANGED <<commits, events, backup, deployment, pods, faults>>

JobMoves(from, to) ==
  \/ from = "pending" /\ to \in {"unschedulable", "running"}
  \/ from = "unschedulable" /\ to = "running"
  \/ from = "running" /\ to \in {"complete", "failed"}
JobDeadline(from, to) == from \in {"pending", "unschedulable", "running"} /\ to = "failed"

MigrationMoves(to) ==
  /\ JobMoves(migration.state, to)
  /\ migration' = [migration EXCEPT !.state = to]
  /\ Fault(to \in {"unschedulable", "failed"})
  /\ UNCHANGED <<commits, events, app, backup, deployment, pods, age>>

\* The chart gives the Job a deadline, which counts the time its Pod waits.
MigrationDeadline ==
  /\ JobDeadline(migration.state, "failed")
  /\ migration' = [migration EXCEPT !.state = "failed"]
  /\ UNCHANGED <<commits, events, app, backup, deployment, pods, age, faults>>

\* The operation applies the Deployment once the migration is done.
Apply ==
  LET t == TemplateOf(commits, app.on) IN
  /\ OperationRunning
  /\ \/ app.step = "begun" /\ (~Migrates \/ commits[app.on].tag = NoTag)
     \/ app.step = "migrating" /\ migration.state = "complete"
  /\ app' = [app EXCEPT !.step = "applied"]
  /\ IF commits[app.on].tag = NoTag \/ deployment.template = t
     THEN UNCHANGED <<deployment, pods, age>>
     ELSE /\ deployment' = [template |-> t, progress |-> "progressing"]
          /\ pods' = [pods EXCEPT ![t] = IF @ = "none" THEN "starting" ELSE @]
          /\ age' = [age EXCEPT !.step = IF deployment.template = 0 THEN 0 ELSE @]
  /\ UNCHANGED <<commits, events, migration, backup, faults>>

SyncSucceeds ==
  /\ OperationRunning /\ app.step = "applied"
  /\ app' = [app EXCEPT !.phase = "Succeeded", !.step = "none",
                        !.history = @ \cup {app.on},
                        !.sync = IF app.error = "" /\ app.revision = app.on THEN "Synced" ELSE @]
  /\ age' = [age EXCEPT !.finished = 0,
                        !.outOfSync = IF app'.sync = "Synced" THEN Old.outOfSync ELSE @]
  /\ UNCHANGED <<commits, events, migration, backup, deployment, pods, faults>>

MigrationFailed == app.step = "migrating" /\ migration.state = "failed"

\* A failed migration fails the operation; so may anything else it does.
SyncFails ==
  /\ OperationRunning
  /\ app' = [app EXCEPT !.phase = "Failed", !.step = "none"]
  /\ age' = [age EXCEPT !.finished = 0]
  /\ Fault(~MigrationFailed)
  /\ UNCHANGED <<commits, events, migration, backup, deployment, pods>>

\* A Pod's Ready condition changes, or why it is not ready does.
PodMoves(i, to) ==
  /\ i \in Pods /\ to \notin {"none", pods[i]}
  /\ to = "starting" => pods[i] # "pulling"
  /\ to = "pulling" => pods[i] = "starting"
  /\ pods' = [pods EXCEPT ![i] = to]
  /\ LET turned == {pods[i], to} \cap {"ready", "unknown"} # {} \/ to = "starting" IN
     age' = [age EXCEPT !.pod[i] = IF turned THEN 0 ELSE @,
                        !.unavailable = IF Ready \subseteq {i} THEN 0 ELSE @]
  /\ Fault(to # "ready")
  /\ UNCHANGED <<commits, events, app, migration, backup, deployment>>

\* The new version is ready: Kubernetes takes the others down.
RolloutDone ==
  /\ deployment.template \in Ready /\ deployment.progress # "done"
  /\ deployment' = [deployment EXCEPT !.progress = "done"]
  /\ pods' = [i \in Commit |-> IF i = deployment.template THEN pods[i] ELSE "none"]
  /\ age' = [age EXCEPT !.pod = [i \in Commit |-> 0]]
  /\ UNCHANGED <<commits, events, app, migration, backup, faults>>

RolloutDeadline ==
  /\ deployment.progress = "progressing"
  /\ deployment' = [deployment EXCEPT !.progress = "deadline"]
  /\ UNCHANGED <<commits, events, app, migration, backup, pods, age, faults>>

\* The Environment is deleted: ArgoCD runs the final backup before it deletes the rest.
Delete ==
  /\ Alive /\ Len(commits) <= MaxCommitsDeleted
  /\ app' = [app EXCEPT !.deleted = TRUE]
  /\ age' = [age EXCEPT !.deleted = 0]
  /\ UNCHANGED <<commits, events, migration, backup, deployment, pods, faults>>

BackUp(to) ==
  /\ app.deleted
  /\ \/ backup = "none" /\ to = "pending" /\ ~OperationRunning
     \/ JobMoves(backup, to) \/ JobDeadline(backup, to)
  /\ backup' = to
  /\ UNCHANGED <<commits, events, app, migration, deployment, pods, age, faults>>

DeletionFails ==
  /\ app.deleted /\ app.error # "DeletionError"
  /\ app' = [app EXCEPT !.error = "DeletionError"]
  /\ UNCHANGED <<commits, events, migration, backup, deployment, pods, age, faults>>

EnvNext ==
  \/ Tick
  \/ \E t \in Tag, recorded \in BOOLEAN : Deploy(t, recorded)
  \/ \E r \in BOOLEAN : Edit(r)
  \/ \E t \in Tag : Refuse(t)
  \/ Expire \/ Look \/ CannotRender \/ StartSync
  \/ CreateMigration \/ (\E to \in JobState : MigrationMoves(to)) \/ MigrationDeadline
  \/ Apply \/ SyncSucceeds \/ SyncFails
  \/ \E i \in Commit, to \in PodState : PodMoves(i, to)
  \/ RolloutDone \/ RolloutDeadline
  \/ Delete \/ (\E to \in JobState : BackUp(to)) \/ DeletionFails

\* The clock goes on, ArgoCD looks again every few minutes and carries on with what it
\* began, and Kubernetes' deadlines pass.  Nothing makes ArgoCD start a sync, a Pod
\* turn ready, or a deletion finish.
CarryOn ==
  \/ CreateMigration \/ MigrationDeadline \/ Apply \/ SyncSucceeds
  \/ MigrationFailed /\ SyncFails

EnvFairness ==
  /\ WF_envVars(Tick) /\ WF_envVars(Look) /\ WF_envVars(RolloutDeadline)
  /\ WF_envVars(CarryOn)

EnvSpec == EnvInit /\ [][EnvNext]_envVars /\ EnvFairness

-----------------------------------------------------------------------------
(* What the Platform says                                                  *)

\* Short of Pods is not the same as a version that fails: as long as a Pod serves, the
\* Environment is not Degraded, whatever becomes of the version that should replace it.
NotDegradedWhileServing == Ready # {} => Condition # "Degraded"

\* An Environment of which nothing is said to change runs the tag its last commit asks
\* for, unless the gate's Event of that tag is gone and ArgoCD has not looked since.  (And
\* everything keeps its type.)
SinceTag == Min({i \in DOMAIN commits : \A j \in i .. Len(commits) : commits[j].tag = Last(commits).tag})
QuietMeansLanded ==
  /\ EnvironmentTypeOK
  /\ Activity = NoActivity =>
       \/ Running = Last(commits).tag
       \/ ~app.preview /\ app.revision < SinceTag /\ ~\E i \in Accepted : events[i].commit >= SinceTag

\* A Deploy of a tag the Environment has not had, the last thing asked of it, does not
\* go back a hop before it serves.
Hops == <<"Accepted", "WaitingForArgoCD", "Applying", "RollingOut", "Serving">>
HopNumber(hop) == IF hop = "" THEN 0 ELSE CHOOSE i \in DOMAIN Hops : Hops[i] = hop
NewestHop == IF Accepted = {} THEN 0
             ELSE HopNumber(Traced(Max(Accepted)).place.hop)
Newest == IF Accepted = {} THEN 0 ELSE events[Max(Accepted)].commit
IsNewTag(c) == \A i \in 1 .. c - 1 : commits[i].tag # commits[c].tag
HopsMoveForward ==
  [][ Newest # 0 /\ Newest' = Newest /\ Newest = Len(commits) /\ commits' = commits
      /\ IsNewTag(Newest) /\ NewestHop < 5 => NewestHop' >= NewestHop ]_envVars

\* A Deploy is not left under way for ever with nobody told: it serves, is overtaken,
\* or is said to be stuck; or the Environment is said not to be Healthy, or to be going.
\* A deletion is not left either.  This is of the newest tag: of one that another
\* replaced, whose own Event was lost, it is not so.
Told(c) ==
  \/ NewestHop \in {0, 5} \/ Stuck \/ Condition # "Healthy"
  \/ Newest # c \/ SinceTag > c \/ app.deleted
NothingStallsSilently ==
  /\ \A c \in Commit : (Newest = c) ~> Told(c)
  /\ app.deleted ~> Stuck

=============================================================================
