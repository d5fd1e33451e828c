----------------------- MODULE EnvironmentState_proofs -----------------------
(***************************************************************************)
(* What the Platform says of an Environment, for any tags, timeouts and    *)
(* bounds: a Pod that serves is enough not to be Degraded, an Environment  *)
(* of which nothing is said to change runs what was last asked of it, and  *)
(* the newest Deploy does not go back a hop.                               *)
(*                                                                         *)
(* The last two rest on one invariant of the cluster, EnvInv: the commits, *)
(* the Events, what ArgoCD looked at, syncs and has synced, the migrations *)
(* and the Deployment each follow the order of the commits.  Its parts are *)
(* proved one after the other, each from the ones before it.               *)
(*                                                                         *)
(* Least and greatest elements are found by LeastNatural, which states     *)
(* induction over the natural numbers of a set of them.                    *)
(***************************************************************************)
EXTENDS EnvironmentState, SequenceTheorems, FiniteSetTheorems, TLAPS

-----------------------------------------------------------------------------
(* Least and greatest *)

(* Every set of natural numbers has a least element. *)
LEMMA LeastNatural ==
  ASSUME NEW T \in SUBSET Nat, T # {}
  PROVE  \E m \in T : \A k \in T : m <= k
<1> DEFINE R == OpToRel(<, Nat)
<1>1. IsWellFoundedOn(R, Nat)
  BY NatLessThanWellFounded
<1>2. \A x, y \in Nat : x < y => <<x, y>> \in R
  BY DEF OpToRel
<1> HIDE DEF R
<1>3. PICK x \in T : \A y \in T : ~(<<y, x>> \in R)
  BY <1>1, WFMin
<1>4. x \in Nat /\ \A y \in T : y \in Nat
  OBVIOUS
<1>5. \A y \in T : ~(y < x)
  BY <1>2, <1>3, <1>4
<1>6. \A y \in T : x <= y
  BY <1>4, <1>5
<1> QED
  BY <1>6

LEMMA MinOf ==
  ASSUME NEW S \in SUBSET Nat, S # {}
  PROVE  Min(S) \in S /\ \A x \in S : Min(S) <= x
<1>1. PICK m \in S : \A x \in S : m <= x
  BY LeastNatural
<1> QED
  BY <1>1 DEF Min

LEMMA MaxOf ==
  ASSUME NEW S \in SUBSET Nat, NEW n \in Nat, \A x \in S : x <= n, S # {}
  PROVE  Max(S) \in S /\ \A x \in S : x <= Max(S)
<1> DEFINE D == {n - x : x \in S}
<1>1. D \in SUBSET Nat /\ D # {}
  <2>1. \A x \in S : x \in Nat /\ x <= n
    OBVIOUS
  <2>2. \A x \in S : n - x \in Nat
    BY <2>1
  <2> QED
    BY <2>2
<1>2. PICK d \in D : \A e \in D : d <= e
  BY <1>1, LeastNatural
<1>3. PICK m \in S : d = n - m
  BY <1>2
<1>4. \A x \in S : n - m <= n - x
  BY <1>2, <1>3
<1>5. \A x \in S : x \in Nat
  OBVIOUS
<1>6. \A x \in S : m >= x
  BY <1>3, <1>4, <1>5
<1>7. Max(S) \in S /\ \A x \in S : Max(S) >= x
  BY <1>3, <1>6 DEF Max
<1> QED
  BY <1>5, <1>7

LEMMA MinOfTwo ==
  ASSUME NEW a \in Nat, NEW b \in Nat
  PROVE  Min({a, b}) \in Nat /\ Min({a, b}) <= a /\ Min({a, b}) <= b
<1>1. {a, b} \in SUBSET Nat /\ {a, b} # {}
  OBVIOUS
<1> QED
  BY <1>1, MinOf

LEMMA MaxOfTwo ==
  ASSUME NEW a \in Nat, NEW b \in Nat
  PROVE  Max({a, b}) \in Nat
<1>1. {a, b} \in SUBSET Nat /\ {a, b} # {}
  OBVIOUS
<1>2. a + b \in Nat /\ \A x \in {a, b} : x <= a + b
  OBVIOUS
<1> QED
  BY <1>1, <1>2, MaxOf

-----------------------------------------------------------------------------
(* The Condition *)

(* A Pod that serves is enough for the Platform not to call the            *)
(* Environment Degraded (condition.go), whatever its other Pods say, how   *)
(* ever old they are and whether the grace has passed.                     *)
THEOREM ServingIsNotDegraded == EnvSpec => []NotDegradedWhileServing
<1>1. NotDegradedWhileServing
  <2> SUFFICES ASSUME Ready # {} PROVE Condition # "Degraded"
    BY DEF NotDegradedWhileServing
  <2>1. IsFiniteSet(Commit)
    BY EnvironmentAssumption, FS_Interval DEF Commit
  <2>2. IsFiniteSet(Ready)
    BY <2>1, FS_Subset DEF Ready, Pods
  <2>3. Cardinality(Ready) \in Nat /\ Cardinality(Ready) # 0
    BY <2>2, FS_EmptySet, FS_CardinalityType
  <2>4. ~(Cardinality(Ready) < Desired)
    BY <2>3 DEF Desired
  <2>5. PodsCondition(Served) # "Degraded"
    BY <2>4 DEF PodsCondition
  <2> QED
    BY <2>5 DEF Condition
<1> QED
  BY <1>1, PTL

-----------------------------------------------------------------------------
(* The inductive invariant *)

CommitType == [tag : Tag \cup {NoTag}, restart : 0 .. MaxCommits]
EventType == [tag : Tag, commit : 0 .. MaxCommits]
AppType(n) ==
  [sync : {"Unknown", "Synced", "OutOfSync"}, revision : 0 .. n,
   phase : {"none", "Running", "Succeeded", "Failed"}, on : 0 .. n,
   history : SUBSET (1 .. n), error : {"", "ComparisonError", "DeletionError"},
   healthUnknown : BOOLEAN, looked : BOOLEAN, deleted : BOOLEAN, preview : BOOLEAN,
   step : {"none", "begun", "migrating", "applied"}]

(* A tag once asked for is replaced, never taken back. *)
CommitsOK ==
  /\ commits \in Seq(CommitType) /\ Len(commits) \in 1 .. MaxCommits
  /\ \A i \in 1 .. Len(commits) : commits[i].restart < i
  /\ \A i, j \in 1 .. Len(commits) :
       i < j /\ commits[i].tag # NoTag => commits[j].tag # NoTag

(* The Events of accepted Deploys name commits of their tags, in order;    *)
(* Preview Environments have none.                                         *)
EventsOK ==
  /\ events \in Seq(EventType) /\ Len(events) <= MaxEvents
  /\ \A i \in 1 .. Len(events) : events[i].commit <= Len(commits)
  /\ \A i \in 1 .. Len(events) :
       events[i].commit # 0 => commits[events[i].commit].tag = events[i].tag
  /\ \A i, j \in 1 .. Len(events) :
       /\ i < j /\ events[i].commit # 0 /\ events[j].commit # 0
       => events[i].commit < events[j].commit
  /\ app.preview => events = <<>>

(* What ArgoCD last looked at, syncs and has synced are in the order of    *)
(* the commits; what it last synced it does not sync again.                *)
AppOK ==
  /\ app \in AppType(Len(commits))
  /\ app.sync = "OutOfSync" => app.revision # 0
  /\ app.sync = "Synced" => app.revision \in app.history
  /\ Alive /\ app.sync = "OutOfSync" => app.revision \notin app.history
  /\ app.error = "ComparisonError" => app.sync = "Unknown"
  /\ app.on <= app.revision
  /\ \A c \in app.history : c <= app.on
  /\ app.phase = "none" => app.on = 0 /\ app.history = {}
  /\ app.phase \in {"Running", "Failed"} => app.on # 0 /\ app.on \notin app.history
  /\ app.phase = "Succeeded" => app.on \in app.history
  /\ Alive => app.error # "DeletionError"

JobsOK ==
  /\ migration \in [tag : Tag \cup {NoTag}, state : JobState]
  /\ (migration.tag = NoTag) = (migration.state = "none")
  /\ backup \in JobState
  /\ migration.tag # NoTag => \E c \in 1 .. app.on : commits[c].tag = migration.tag

(* The Deployment is that of a commit which was applied, and after a sync  *)
(* of the commit that was synced.                                          *)
Runs(c) == commits[c].tag = NoTag \/ Running = commits[c].tag
RolloutOK ==
  /\ deployment \in [template : 0 .. Len(commits), progress : {"none", "progressing", "done", "deadline"}]
  /\ deployment.template <= app.on
  /\ deployment.template # 0 => Running # NoTag
  /\ app.phase = "Succeeded" => Runs(app.on)
  /\ OperationRunning /\ app.step = "applied" => Runs(app.on)
  /\ Alive /\ app.sync = "Unknown" /\ app.error # "ComparisonError" =>
       deployment.template = 0 /\ app.phase = "none"

PodsOK ==
  /\ pods \in [Commit -> PodState]
  /\ deployment.template = 0 => \A i \in Commit : pods[i] = "none"
  /\ \A i \in Commit : pods[i] # "none" => i <= Len(commits)

AgesOK ==
  /\ DOMAIN age = DOMAIN Old \cup {"pod"}
  /\ \A m \in DOMAIN Old : age[m] \in 0 .. Old[m]
  /\ age.pod \in [Commit -> 0 .. Old.unavailable]

FaultsOK == faults \in 0 .. MaxFaults

EnvInv ==
  /\ CommitsOK /\ EventsOK /\ AppOK /\ JobsOK
  /\ RolloutOK /\ PodsOK /\ AgesOK /\ FaultsOK

LEMMA EnvInvType == EnvInv => EnvironmentTypeOK
<1> SUFFICES ASSUME EnvInv PROVE EnvironmentTypeOK
  OBVIOUS
<1> USE DEF EnvInv
<1>1. commits \in BoundedSeq([tag : Tag \cup {NoTag}, restart : 0 .. MaxCommits], MaxCommits)
  <2>1. commits \in [1 .. Len(commits) -> CommitType]
    BY LenProperties DEF CommitsOK
  <2>2. Len(commits) \in 0 .. MaxCommits
    BY EnvironmentAssumption DEF CommitsOK
  <2> QED
    BY <2>1, <2>2 DEF BoundedSeq, SeqOf, CommitType
<1>2. events \in BoundedSeq([tag : Tag, commit : 0 .. MaxCommits], MaxEvents)
  <2>1. events \in [1 .. Len(events) -> EventType] /\ Len(events) \in Nat
    BY LenProperties DEF EventsOK
  <2>2. Len(events) \in 0 .. MaxEvents
    BY <2>1, EnvironmentAssumption DEF EventsOK
  <2> QED
    BY <2>1, <2>2 DEF BoundedSeq, SeqOf, EventType
<1>3. \A i \in DOMAIN events : events[i].commit \in 0 .. Len(commits)
  <2>1. DOMAIN events = 1 .. Len(events)
    BY LenProperties DEF EventsOK
  <2>2. \A i \in 1 .. Len(events) : events[i] \in EventType
    BY ElementOfSeq DEF EventsOK
  <2>3. \A i \in 1 .. Len(events) : events[i].commit \in Nat
    BY <2>2, EnvironmentAssumption DEF EventType
  <2> QED
    BY <2>1, <2>3 DEF EventsOK, CommitsOK
<1>4. DOMAIN commits = 1 .. Len(commits)
  BY LenProperties DEF CommitsOK
<1> QED
  BY <1>1, <1>2, <1>3, <1>4
  DEF EnvironmentTypeOK, AppOK, AppType, JobsOK, RolloutOK, PodsOK, AgesOK, FaultsOK

-----------------------------------------------------------------------------
(* The initial state *)

LEMMA Constants ==
  /\ MaxTag \in Nat /\ MaxCommits \in Nat /\ 1 <= MaxCommits /\ MaxEvents \in Nat
  /\ MaxFaults \in Nat
  /\ NotReadyGrace \in Nat /\ OutOfSyncStuckAfter \in Nat /\ ArrivingStuckAfter \in Nat
  /\ UnreleasedAfter \in Nat /\ LeavingStuckAfter \in Nat
<1>1. MaxTag \in Nat /\ MaxEvents \in Nat /\ MaxFaults \in Nat /\ MaxCommits \in Nat \ {0}
  BY EnvironmentAssumption
<1>2. MaxCommits \in Nat /\ 1 <= MaxCommits
  BY <1>1
<1>3. /\ NotReadyGrace \in Nat /\ OutOfSyncStuckAfter \in Nat /\ ArrivingStuckAfter \in Nat
      /\ UnreleasedAfter \in Nat /\ LeavingStuckAfter \in Nat
  BY EnvironmentAssumption
<1> QED
  BY <1>1, <1>2, <1>3

(* Every age at which a moment stops counting is a natural number. *)
LEMMA OldType ==
  /\ DOMAIN Old = {"created", "accepted", "outOfSync", "finished", "step", "unavailable", "deleted"}
  /\ \A m \in DOMAIN Old : Old[m] \in Nat
<1>1. OutOfSyncStuckAfter + 1 \in Nat
  BY Constants
<1>2. /\ Max({UnreleasedAfter, OutOfSyncStuckAfter + 1}) \in Nat
      /\ Max({OutOfSyncStuckAfter, ArrivingStuckAfter}) \in Nat
  BY <1>1, MaxOfTwo, Constants
<1>3. DOMAIN Old = {"created", "accepted", "outOfSync", "finished", "step", "unavailable", "deleted"}
  BY DEF Old
<1>4. /\ Old["created"] \in Nat /\ Old["accepted"] \in Nat /\ Old["outOfSync"] \in Nat
      /\ Old["finished"] \in Nat /\ Old["step"] \in Nat /\ Old["unavailable"] \in Nat
      /\ Old["deleted"] \in Nat
  BY <1>2, Constants DEF Old
<1> QED
  BY <1>3, <1>4

LEMMA EnvInvInit == EnvInit => EnvInv
<1> SUFFICES ASSUME EnvInit PROVE EnvInv
  OBVIOUS
<1> DEFINE none == [tag |-> NoTag, restart |-> 0]
<1>1. CommitsOK
  <2>1. none \in CommitType
    BY Constants DEF CommitType
  <2>2. commits = <<none>>
    BY DEF EnvInit
  <2>3. none.restart = 0 /\ none.tag = NoTag
    OBVIOUS
  <2> HIDE DEF none
  <2>4. commits \in Seq(CommitType) /\ Len(commits) = 1 /\ commits[1] = none
    BY <2>1, <2>2
  <2> QED
    BY <2>3, <2>4, Constants DEF CommitsOK
<1>2. Len(commits) = 1
  BY DEF EnvInit
<1>3. EventsOK
  <2>1. events = <<>>
    BY DEF EnvInit
  <2>2. Len(events) = 0 /\ events \in Seq(EventType)
    BY <2>1
  <2> QED
    BY <2>1, <2>2, Constants DEF EventsOK
<1>4. AppOK
  <2>1. /\ app.sync = "Unknown" /\ app.revision = 0 /\ app.phase = "none" /\ app.on = 0
        /\ app.history = {} /\ app.error = ""
    BY DEF EnvInit
  <2>2. /\ app \in [sync : {"Unknown"}, revision : {0}, phase : {"none"}, on : {0}, history : {{}},
                     error : {""}, healthUnknown : {FALSE}, looked : {FALSE}, deleted : {FALSE},
                     preview : BOOLEAN, step : {"none"}]
    BY DEF EnvInit
  <2>3. 0 \in 0 .. 1 /\ {} \in SUBSET (1 .. 1)
    OBVIOUS
  <2>4. app \in AppType(1)
    BY <2>2, <2>3, Zenon DEF AppType
  <2>5. app \in AppType(Len(commits))
    BY <1>2, <2>4
  <2>6. app.on <= app.revision
    <3> DEFINE on == app.on
               revision == app.revision
    <3>1. on = 0 /\ revision = 0
      BY <2>1
    <3> HIDE DEF on, revision
    <3>2. on <= revision
      BY <3>1
    <3> QED
      BY <3>2 DEF on, revision
  <2>7. \A c \in app.history : c <= app.on
    BY <2>1
  <2> QED
    BY <2>1, <2>5, <2>6, <2>7 DEF AppOK
<1>5. JobsOK
  BY DEF EnvInit, JobsOK, JobState
<1>6. RolloutOK
  <2>1. deployment.template = 0 /\ app.phase = "none" /\ app.on = 0
    BY DEF EnvInit
  <2>2. deployment \in [template : 0 .. Len(commits), progress : {"none", "progressing", "done", "deadline"}]
    <3>1. deployment = [template |-> 0, progress |-> "none"]
      BY DEF EnvInit
    <3> QED
      BY <1>2, <3>1
  <2> QED
    BY <2>1, <2>2 DEF RolloutOK, OperationRunning
<1>7. PodsOK
  BY DEF EnvInit, PodsOK, PodState
<1>8. AgesOK
  <2>1. DOMAIN age = DOMAIN Old \cup {"pod"}
    BY DEF EnvInit
  <2>2. "pod" \notin DOMAIN Old /\ "unavailable" \in DOMAIN Old
    BY OldType
  <2>3. age.pod = [i \in Commit |-> 0]
    BY DEF EnvInit
  <2>4. \A m \in DOMAIN Old : age[m] \in {0, Old[m]}
    BY <2>2 DEF EnvInit
  <2> QED
    BY <2>1, <2>2, <2>3, <2>4, OldType DEF AgesOK
<1>9. FaultsOK
  <2>1. faults = 0
    BY DEF EnvInit
  <2> QED
    BY <2>1, Constants DEF FaultsOK
<1> QED
  BY <1>1, <1>3, <1>4, <1>5, <1>6, <1>7, <1>8, <1>9 DEF EnvInv

-----------------------------------------------------------------------------
(* Who changes what *)

LEMMA WhoChanges ==
  ASSUME [EnvNext]_envVars
  PROVE  /\ \/ commits' = commits
            \/ \E t \in Tag, recorded \in BOOLEAN : Deploy(t, recorded)
            \/ \E r \in BOOLEAN : Edit(r)
         /\ \/ events' = events
            \/ \E t \in Tag, recorded \in BOOLEAN : Deploy(t, recorded)
            \/ \E t \in Tag : Refuse(t)
            \/ Expire
         /\ \/ app' = app
            \/ \E t \in Tag, recorded \in BOOLEAN : Deploy(t, recorded)
            \/ Look \/ CannotRender \/ StartSync \/ CreateMigration \/ Apply
            \/ SyncSucceeds \/ SyncFails \/ Delete \/ DeletionFails
         /\ \/ UNCHANGED <<migration, backup>>
            \/ CreateMigration \/ (\E to \in JobState : MigrationMoves(to)) \/ MigrationDeadline
            \/ \E to \in JobState : BackUp(to)
         /\ deployment' = deployment \/ Apply \/ RolloutDone \/ RolloutDeadline
         /\ pods' = pods \/ Apply \/ RolloutDone \/ \E i \in Commit, to \in PodState : PodMoves(i, to)
         /\ faults' = faults \/ \E wrong \in BOOLEAN : Fault(wrong)
<1>1. CASE UNCHANGED envVars
  BY <1>1 DEF envVars
<1>2. CASE Tick
  BY <1>2 DEF Tick
<1>3. ASSUME NEW t \in Tag, NEW recorded \in BOOLEAN, Deploy(t, recorded)
      PROVE  /\ UNCHANGED <<migration, backup, deployment, pods>>
             /\ \E wrong \in BOOLEAN : Fault(wrong)
  <2>1. (~recorded /\ ~app.preview) \in BOOLEAN
    OBVIOUS
  <2> QED
    BY <1>3, <2>1 DEF Deploy
<1>4. ASSUME NEW r \in BOOLEAN, Edit(r)
      PROVE  UNCHANGED <<events, app, migration, backup, deployment, pods, age, faults>>
  BY <1>4 DEF Edit
<1>5. ASSUME NEW t \in Tag, Refuse(t)
      PROVE  UNCHANGED <<commits, app, migration, backup, deployment, pods, age>> /\ Fault(TRUE)
  BY <1>5 DEF Refuse
<1>6. CASE Expire
  BY <1>6 DEF Expire
<1>7. CASE Look
  BY <1>7 DEF Look
<1>8. CASE CannotRender
  BY <1>8 DEF CannotRender
<1>9. CASE StartSync
  BY <1>9 DEF StartSync
<1>10. CASE CreateMigration
  BY <1>10 DEF CreateMigration
<1>11. ASSUME NEW to \in JobState, MigrationMoves(to)
       PROVE  /\ UNCHANGED <<commits, events, app, backup, deployment, pods, age>>
              /\ \E wrong \in BOOLEAN : Fault(wrong)
  <2>1. (to \in {"unschedulable", "failed"}) \in BOOLEAN
    OBVIOUS
  <2> QED
    BY <1>11, <2>1 DEF MigrationMoves
<1>12. CASE MigrationDeadline
  BY <1>12 DEF MigrationDeadline
<1>13. CASE Apply
  BY <1>13 DEF Apply
<1>14. CASE SyncSucceeds
  BY <1>14 DEF SyncSucceeds
<1>15. CASE SyncFails
  <2>1. (~MigrationFailed) \in BOOLEAN
    OBVIOUS
  <2> QED
    BY <1>15, <2>1 DEF SyncFails
<1>16. ASSUME NEW i \in Commit, NEW to \in PodState, PodMoves(i, to)
       PROVE  /\ UNCHANGED <<commits, events, app, migration, backup, deployment>>
              /\ \E wrong \in BOOLEAN : Fault(wrong)
  <2>1. (to # "ready") \in BOOLEAN
    OBVIOUS
  <2> QED
    BY <1>16, <2>1 DEF PodMoves
<1>17. CASE RolloutDone
  BY <1>17 DEF RolloutDone
<1>18. CASE RolloutDeadline
  BY <1>18 DEF RolloutDeadline
<1>19. CASE Delete
  BY <1>19 DEF Delete
<1>20. ASSUME NEW to \in JobState, BackUp(to)
       PROVE  UNCHANGED <<commits, events, app, migration, deployment, pods, age, faults>>
  BY <1>20 DEF BackUp
<1>21. CASE DeletionFails
  BY <1>21 DEF DeletionFails
<1> QED
  BY <1>1, <1>2, <1>3, <1>4, <1>5, <1>6, <1>7, <1>8, <1>9, <1>10, <1>11, <1>12, <1>13,
     <1>14, <1>15, <1>16, <1>17, <1>18, <1>19, <1>20, <1>21 DEF EnvNext

-----------------------------------------------------------------------------
(* The commits *)

CommitsGrow ==
  /\ Len(commits) <= Len(commits)'
  /\ \A i \in 1 .. Len(commits) : commits'[i] = commits[i]

LEMMA CommitAppended ==
  ASSUME CommitsOK, NEW c \in CommitType, Committed(c), c.restart <= Len(commits),
         commits[Len(commits)].tag # NoTag => c.tag # NoTag
  PROVE  CommitsOK' /\ CommitsGrow /\ Len(commits') = Len(commits) + 1 /\ commits'[Len(commits) + 1] = c
<1> DEFINE n == Len(commits)
<1>1. n \in Nat /\ n >= 1 /\ n < MaxCommits
  BY Constants DEF CommitsOK, Committed
<1>2. /\ commits' \in Seq(CommitType) /\ Len(commits') = n + 1
      /\ \A i \in 1 .. n : commits'[i] = commits[i]
      /\ commits'[n + 1] = c
  BY AppendProperties DEF CommitsOK, Committed
<1>3. \A i \in 1 .. n : commits[i].restart < i
  BY DEF CommitsOK
<1>4. \A i, j \in 1 .. n : i < j /\ commits[i].tag # NoTag => commits[j].tag # NoTag
  BY DEF CommitsOK
<1>5. commits[n].tag # NoTag => c.tag # NoTag
  OBVIOUS
<1>6. c.restart \in Nat /\ c.restart <= n
  BY Constants DEF CommitType
<1> HIDE DEF n
<1>7. \A i \in 1 .. n + 1 : i \in 1 .. n \/ i = n + 1
  BY <1>1
<1>8. \A i \in 1 .. n + 1 : commits'[i].restart < i
  BY <1>1, <1>2, <1>3, <1>6, <1>7
<1>9. ASSUME NEW i \in 1 .. n + 1, NEW j \in 1 .. n + 1, i < j, commits'[i].tag # NoTag
      PROVE  commits'[j].tag # NoTag
  <2>1. i \in 1 .. n
    BY <1>1, <1>9
  <2>2. CASE j \in 1 .. n
    BY <1>2, <1>4, <1>9, <2>1, <2>2
  <2>3. CASE j = n + 1
    <3>1. commits[i].tag # NoTag
      BY <1>2, <1>9, <2>1
    <3>2. commits[n].tag # NoTag
      <4>1. n \in 1 .. n /\ (i < n \/ i = n)
        BY <1>1, <2>1
      <4> QED
        BY <1>4, <2>1, <3>1, <4>1
    <3> QED
      BY <1>2, <1>5, <2>3, <3>2
  <2> QED
    BY <1>7, <2>2, <2>3
<1>10. n + 1 \in 1 .. MaxCommits /\ n <= n + 1
  BY <1>1, Constants
<1>11. CommitsOK'
  BY <1>2, <1>8, <1>9, <1>10 DEF CommitsOK
<1> QED
  BY <1>2, <1>10, <1>11 DEF CommitsGrow, n

(* What an Environment's next commit may ask for. *)
LEMMA LastCommit ==
  ASSUME CommitsOK
  PROVE  /\ Len(commits) \in Nat /\ Len(commits) >= 1 /\ Len(commits) \in 1 .. Len(commits)
         /\ Last(commits) = commits[Len(commits)]
         /\ commits[Len(commits)] \in CommitType
         /\ commits[Len(commits)].restart \in Nat
         /\ commits[Len(commits)].restart < Len(commits)
<1>1. Len(commits) \in Nat /\ Len(commits) >= 1
  BY Constants DEF CommitsOK
<1>2. Len(commits) \in 1 .. Len(commits)
  BY <1>1
<1>3. commits[Len(commits)] \in CommitType
  BY <1>2, ElementOfSeq DEF CommitsOK
<1>4. commits[Len(commits)].restart \in Nat
  BY <1>3, Constants DEF CommitType
<1> QED
  BY <1>1, <1>2, <1>3, <1>4 DEF CommitsOK, Last

LEMMA DeployCommits ==
  ASSUME CommitsOK, NEW t \in Tag, NEW recorded \in BOOLEAN, Deploy(t, recorded)
  PROVE  /\ CommitsOK' /\ CommitsGrow
         /\ Len(commits') = Len(commits) + 1 /\ commits'[Len(commits) + 1].tag = t
<1> DEFINE c == [tag |-> t, restart |-> Last(commits).restart]
<1>1. Committed(c)
  BY DEF Deploy
<1>2. c \in CommitType
  BY LastCommit DEF CommitType
<1>3. c.restart <= Len(commits)
  BY LastCommit
<1>4. c.tag # NoTag
  BY Constants DEF Tag, NoTag
<1>5. c.tag = t
  OBVIOUS
<1> HIDE DEF c
<1> QED
  BY <1>1, <1>2, <1>3, <1>4, <1>5, CommitAppended

LEMMA EditCommits ==
  ASSUME CommitsOK, NEW r \in BOOLEAN, Edit(r)
  PROVE  CommitsOK' /\ CommitsGrow
<1> DEFINE more == IF r THEN 1 ELSE 0
           c == [tag |-> Last(commits).tag, restart |-> Last(commits).restart + more]
<1>1. Committed(c)
  BY DEF Edit
<1>2. more \in 0 .. 1
  OBVIOUS
<1>3. /\ c.tag = commits[Len(commits)].tag
      /\ c.restart = commits[Len(commits)].restart + more
  BY LastCommit
<1> HIDE DEF more
<1>4. c.restart \in Nat /\ c.restart <= Len(commits)
  BY <1>2, <1>3, LastCommit
<1>5. Len(commits) < MaxCommits
  BY <1>1 DEF Committed
<1>6. c.restart \in 0 .. MaxCommits
  BY <1>4, <1>5, LastCommit, Constants
<1>7. c.tag \in Tag \cup {NoTag}
  BY <1>3, LastCommit DEF CommitType
<1>8. c \in CommitType
  BY <1>6, <1>7 DEF CommitType
<1> HIDE DEF c
<1> QED
  BY <1>1, <1>3, <1>4, <1>8, CommitAppended

LEMMA CommitsStep ==
  ASSUME CommitsOK, [EnvNext]_envVars
  PROVE  CommitsOK' /\ CommitsGrow
<1>1. CASE commits' = commits
  <2>1. Len(commits) <= Len(commits)
    BY LastCommit
  <2> QED
    BY <1>1, <2>1 DEF CommitsOK, CommitsGrow
<1> QED
  BY <1>1, WhoChanges, DeployCommits, EditCommits

-----------------------------------------------------------------------------
(* The Events *)

(* An Environment is a Preview Environment's for good. *)
LEMMA PreviewStays ==
  ASSUME AppOK, [EnvNext]_envVars
  PROVE  app'.preview = app.preview
<1>1. app \in AppType(Len(commits))
  BY DEF AppOK
<1>2. ASSUME NEW t \in Tag, NEW recorded \in BOOLEAN, Deploy(t, recorded)
      PROVE  app'.preview = app.preview
  BY <1>1, <1>2 DEF Deploy, AppType
<1>3. CASE Look
  BY <1>1, <1>3 DEF Look, AppType
<1>4. CASE CannotRender
  BY <1>1, <1>4 DEF CannotRender, AppType
<1>5. CASE StartSync \/ CreateMigration \/ Apply \/ SyncSucceeds \/ SyncFails
  BY <1>1, <1>5 DEF StartSync, CreateMigration, Apply, SyncSucceeds, SyncFails, AppType
<1>6. CASE Delete \/ DeletionFails
  BY <1>1, <1>6 DEF Delete, DeletionFails, AppType
<1> QED
  BY <1>2, <1>3, <1>4, <1>5, <1>6, WhoChanges

LEMMA EventCommits ==
  ASSUME EventsOK, NEW i \in 1 .. Len(events)
  PROVE  /\ events[i] \in EventType
         /\ events[i].commit \in Nat
         /\ events[i].commit <= Len(commits)
<1>1. events[i] \in EventType
  BY ElementOfSeq DEF EventsOK
<1>2. events[i].commit \in 0 .. MaxCommits
  BY <1>1 DEF EventType
<1>3. events[i].commit \in Nat
  BY <1>2, Constants
<1> QED
  BY <1>1, <1>3 DEF EventsOK

(* An Event appended that was refused, or names the newest commit. *)
LEMMA EventAppended ==
  ASSUME CommitsOK, CommitsOK', CommitsGrow, EventsOK, ~app.preview, ~app'.preview,
         NEW e \in EventType, Len(events) < MaxEvents, events' = Append(events, e),
         \/ e.commit = 0
         \/ e.commit = Len(commits) + 1 /\ Len(commits') = Len(commits) + 1 /\ commits'[e.commit].tag = e.tag
  PROVE  EventsOK'
<1> DEFINE k == Len(events)
           n == Len(commits)
           m == Len(commits')
<1>1. k \in Nat /\ n \in Nat /\ m \in Nat /\ n <= m
  BY LastCommit, LenProperties DEF EventsOK, CommitsGrow, CommitsOK
<1>2. /\ events' \in Seq(EventType) /\ Len(events') = k + 1
      /\ \A i \in 1 .. k : events'[i] = events[i]
      /\ events'[k + 1] = e
  BY AppendProperties DEF EventsOK
<1>3. \A i \in 1 .. k + 1 : i \in 1 .. k \/ i = k + 1
  BY <1>1
<1>4. \A i \in 1 .. k : events[i].commit \in Nat
  BY EventCommits
<1>5. \A i \in 1 .. k : events[i].commit <= n
  BY DEF EventsOK
<1>6. \A i \in 1 .. k : events[i].commit # 0 => commits[events[i].commit].tag = events[i].tag
  BY DEF EventsOK
<1>7. \A i, j \in 1 .. k :
        i < j /\ events[i].commit # 0 /\ events[j].commit # 0 => events[i].commit < events[j].commit
  BY DEF EventsOK
<1>8. \A i \in 1 .. n : commits'[i] = commits[i]
  BY DEF CommitsGrow
<1>9. k + 1 <= MaxEvents
  BY <1>1, Constants
<1>10. \/ e.commit = 0
       \/ e.commit = n + 1 /\ m = n + 1 /\ commits'[e.commit].tag = e.tag
  OBVIOUS
<1> HIDE DEF k, n, m
<1>11. \A i \in 1 .. k + 1 : events'[i].commit <= m
  BY <1>1, <1>2, <1>3, <1>4, <1>5, <1>10
<1>12. \A i \in 1 .. k + 1 : events'[i].commit # 0 => commits'[events'[i].commit].tag = events'[i].tag
  <2> SUFFICES ASSUME NEW i \in 1 .. k + 1, events'[i].commit # 0
               PROVE  commits'[events'[i].commit].tag = events'[i].tag
    OBVIOUS
  <2>1. CASE i \in 1 .. k
    <3>1. events[i].commit \in 1 .. n
      BY <1>1, <1>2, <1>4, <1>5, <2>1
    <3> QED
      BY <1>2, <1>6, <1>8, <2>1, <3>1
  <2>2. CASE i = k + 1
    BY <1>2, <1>10, <2>2
  <2> QED
    BY <1>3, <2>1, <2>2
<1>13. \A i, j \in 1 .. k + 1 :
         i < j /\ events'[i].commit # 0 /\ events'[j].commit # 0 => events'[i].commit < events'[j].commit
  <2> SUFFICES ASSUME NEW i \in 1 .. k + 1, NEW j \in 1 .. k + 1, i < j,
                      events'[i].commit # 0, events'[j].commit # 0
               PROVE  events'[i].commit < events'[j].commit
    OBVIOUS
  <2>1. i \in 1 .. k
    BY <1>1
  <2>2. CASE j \in 1 .. k
    BY <1>2, <1>7, <2>1, <2>2
  <2>3. CASE j = k + 1
    <3> DEFINE a == events'[i].commit
               b == events'[j].commit
    <3>1. a \in Nat /\ a <= n
      BY <1>2, <1>4, <1>5, <2>1
    <3>2. b = n + 1
      BY <1>2, <1>10, <2>3
    <3> HIDE DEF a, b
    <3>3. a < b
      BY <1>1, <3>1, <3>2
    <3> QED
      BY <3>3 DEF a, b
  <2> QED
    BY <1>3, <2>2, <2>3
<1> QED
  BY <1>2, <1>9, <1>11, <1>12, <1>13 DEF EventsOK, m

LEMMA EventsStep ==
  ASSUME CommitsOK, EventsOK, AppOK, [EnvNext]_envVars
  PROVE  EventsOK'
<1>1. CommitsOK' /\ CommitsGrow
  BY CommitsStep
<1>2. app'.preview = app.preview
  BY PreviewStays
<1>3. Len(commits) \in Nat /\ Len(commits') \in Nat /\ Len(commits) <= Len(commits')
  BY <1>1, LastCommit DEF CommitsGrow, CommitsOK
<1>4. \A i \in 1 .. Len(events) : events[i].commit \in Nat /\ events[i].commit <= Len(commits)
  BY EventCommits
<1>5. CASE events' = events
  <2>1. \A i \in 1 .. Len(events) : events[i].commit <= Len(commits')
    BY <1>3, <1>4
  <2>2. \A i \in 1 .. Len(events) :
          events[i].commit # 0 => commits'[events[i].commit].tag = events[i].tag
    <3> SUFFICES ASSUME NEW i \in 1 .. Len(events), events[i].commit # 0
                 PROVE  commits'[events[i].commit].tag = events[i].tag
      OBVIOUS
    <3>1. events[i].commit \in 1 .. Len(commits)
      BY <1>3, <1>4
    <3> QED
      BY <1>1, <3>1 DEF CommitsGrow, EventsOK
  <2> QED
    BY <1>2, <1>5, <2>1, <2>2 DEF EventsOK
<1>6. ASSUME NEW t \in Tag, NEW recorded \in BOOLEAN, Deploy(t, recorded) PROVE EventsOK'
  <2>1. CASE ~recorded
    <3>1. events' = events
      BY <1>6, <2>1 DEF Deploy
    <3> QED
      BY <1>5, <3>1
  <2>2. CASE recorded
    <3> DEFINE e == [tag |-> t, commit |-> Len(commits) + 1]
    <3>1. /\ ~app.preview /\ Len(events) < MaxEvents /\ Len(commits) < MaxCommits
          /\ events' = Append(events, e)
      BY <1>6, <2>2 DEF Deploy, Committed
    <3>2. Len(commits) + 1 \in 0 .. MaxCommits
      BY <1>3, <3>1, Constants
    <3>3. e \in EventType
      BY <3>2 DEF EventType
    <3>4. e.commit = Len(commits) + 1 /\ e.tag = t
      OBVIOUS
    <3> HIDE DEF e
    <3>5. Len(commits') = Len(commits) + 1 /\ commits'[e.commit].tag = e.tag
      BY <1>6, <3>4, DeployCommits
    <3> QED
      BY <1>1, <1>2, <3>1, <3>3, <3>4, <3>5, EventAppended
  <2> QED
    BY <2>1, <2>2
<1>7. ASSUME NEW t \in Tag, Refuse(t) PROVE EventsOK'
  <2> DEFINE e == [tag |-> t, commit |-> 0]
  <2>1. ~app.preview /\ Len(events) < MaxEvents /\ events' = Append(events, e)
    BY <1>7 DEF Refuse
  <2>2. e \in EventType
    BY Constants DEF EventType
  <2>3. e.commit = 0
    OBVIOUS
  <2> HIDE DEF e
  <2> QED
    BY <1>1, <1>2, <2>1, <2>2, <2>3, EventAppended
<1>8. CASE Expire
  <2> DEFINE k == Len(events)
  <2>1. events # <<>> /\ events' = Tail(events) /\ commits' = commits
    BY <1>8 DEF Expire
  <2>2. /\ events' \in Seq(EventType) /\ Len(events') = k - 1
        /\ \A i \in 1 .. Len(events') : events'[i] = events[i + 1]
    BY <2>1, HeadTailProperties DEF EventsOK
  <2>3. k \in Nat /\ k # 0 /\ k <= MaxEvents
    BY <2>1, EmptySeq, LenProperties DEF EventsOK
  <2>4. ~app.preview
    BY <2>1 DEF EventsOK
  <2> HIDE DEF k
  <2>5. \A i \in 1 .. k - 1 : i + 1 \in 1 .. k /\ events'[i] = events[i + 1]
    BY <2>2, <2>3
  <2>6. k - 1 <= MaxEvents
    BY <2>3, Constants
  <2>7. \A i \in 1 .. k - 1 : /\ events'[i].commit <= Len(commits)
                              /\ events'[i].commit # 0 => commits[events'[i].commit].tag = events'[i].tag
    BY <2>5 DEF EventsOK, k
  <2>8. \A i, j \in 1 .. k - 1 :
          i < j /\ events'[i].commit # 0 /\ events'[j].commit # 0 => events'[i].commit < events'[j].commit
    <3> SUFFICES ASSUME NEW i \in 1 .. k - 1, NEW j \in 1 .. k - 1, i < j,
                        events'[i].commit # 0, events'[j].commit # 0
                 PROVE  events'[i].commit < events'[j].commit
      OBVIOUS
    <3> DEFINE a == i + 1
               b == j + 1
    <3>1. a < b /\ a \in 1 .. k /\ b \in 1 .. k /\ events'[i] = events[a] /\ events'[j] = events[b]
      BY <2>3, <2>5
    <3> HIDE DEF a, b
    <3>2. events[a].commit # 0 /\ events[b].commit # 0
      BY <3>1
    <3>3. events[a].commit < events[b].commit
      BY <3>1, <3>2 DEF EventsOK, k
    <3> QED
      BY <3>1, <3>3
  <2> QED
    BY <1>2, <2>1, <2>2, <2>4, <2>6, <2>7, <2>8 DEF EventsOK
<1> QED
  BY <1>5, <1>6, <1>7, <1>8, WhoChanges

-----------------------------------------------------------------------------
(* The ArgoCD Application *)

LEMMA AppTypeGrows ==
  ASSUME NEW n \in Nat, NEW m \in Nat, n <= m, NEW a \in AppType(n)
  PROVE  a \in AppType(m)
<1>1. 0 .. n \subseteq 0 .. m /\ 1 .. n \subseteq 1 .. m
  OBVIOUS
<1>2. SUBSET (1 .. n) \subseteq SUBSET (1 .. m)
  BY <1>1
<1> QED
  BY <1>1, <1>2, Zenon DEF AppType

LEMMA OnType ==
  ASSUME NEW n \in Nat, NEW a \in AppType(n)
  PROVE  a.on \in Nat
<1>1. a.on \in 0 .. n
  BY DEF AppType
<1> QED
  BY <1>1

LEMMA CommitsLen ==
  ASSUME CommitsOK, CommitsOK', CommitsGrow
  PROVE  /\ Len(commits) \in Nat /\ Len(commits) >= 1
         /\ Len(commits)' \in Nat /\ Len(commits) <= Len(commits)'
BY LastCommit, Constants DEF CommitsGrow, CommitsOK

LEMMA AppNumbers ==
  ASSUME AppOK, CommitsOK
  PROVE  /\ app.revision \in Nat /\ app.revision <= Len(commits)
         /\ app.on \in Nat /\ app.on <= app.revision
         /\ app.history \subseteq 1 .. Len(commits)
         /\ app.preview \in BOOLEAN /\ app.deleted \in BOOLEAN /\ app.looked \in BOOLEAN
<1>1. app \in AppType(Len(commits)) /\ Len(commits) \in Nat
  BY LastCommit DEF AppOK
<1>2. app.revision \in 0 .. Len(commits) /\ app.on \in 0 .. Len(commits)
  BY <1>1 DEF AppType
<1>3. app.history \subseteq 1 .. Len(commits)
  BY <1>1 DEF AppType
<1>4. app.preview \in BOOLEAN /\ app.deleted \in BOOLEAN /\ app.looked \in BOOLEAN
  BY <1>1 DEF AppType
<1>5. app.on <= app.revision
  BY DEF AppOK
<1> QED
  BY <1>1, <1>2, <1>3, <1>4, <1>5

(* What AppOK speaks of stays. *)
AppSame ==
  /\ app'.sync = app.sync /\ app'.revision = app.revision /\ app'.phase = app.phase
  /\ app'.on = app.on /\ app'.history = app.history /\ app'.error = app.error
  /\ app'.deleted = app.deleted

LEMMA AppSameOK ==
  ASSUME AppOK, AppSame, app' \in AppType(Len(commits)')
  PROVE  AppOK'
BY DEF AppOK, AppSame, Alive

(* What the steps make of app's fields. *)
LEMMA LookFields ==
  ASSUME AppOK, CommitsOK, Look
  PROVE  /\ ~app.deleted /\ commits' = commits /\ deployment' = deployment /\ app' \in AppType(Len(commits))
         /\ app'.phase = app.phase /\ app'.on = app.on /\ app'.history = app.history
         /\ app'.deleted = app.deleted /\ app'.step = app.step /\ app'.looked
         /\ app'.revision = Len(commits) /\ app'.error = ""
         /\ Len(commits) \in app.history => app'.sync = "Synced"
         /\ Len(commits) \notin app.history => app'.sync = "OutOfSync"
<1> DEFINE sync == IF Len(commits) \in app.history THEN "Synced" ELSE "OutOfSync"
<1>1. app \in AppType(Len(commits))
  BY DEF AppOK
<1>2. /\ ~app.deleted /\ commits' = commits /\ deployment' = deployment
      /\ app' = [app EXCEPT !.sync = sync, !.revision = Len(commits), !.looked = TRUE,
                            !.error = "", !.healthUnknown = FALSE]
  BY DEF Look, Alive
<1>3. /\ Len(commits) \in app.history => sync = "Synced"
      /\ Len(commits) \notin app.history => sync = "OutOfSync"
  OBVIOUS
<1> HIDE DEF sync
<1>4. sync \in {"Synced", "OutOfSync"}
  BY <1>3
<1>5. /\ app'.phase = app.phase /\ app'.on = app.on /\ app'.history = app.history
      /\ app'.deleted = app.deleted /\ app'.step = app.step /\ app'.looked = TRUE
      /\ app'.revision = Len(commits) /\ app'.error = "" /\ app'.sync = sync
  BY <1>1, <1>2 DEF AppType
<1>6. Len(commits) \in 0 .. Len(commits)
  BY LastCommit
<1>7. app' \in AppType(Len(commits))
  BY <1>1, <1>2, <1>4, <1>6 DEF AppType
<1> QED
  BY <1>2, <1>3, <1>5, <1>7

LEMMA CannotRenderFields ==
  ASSUME AppOK, CannotRender
  PROVE  /\ ~app.deleted /\ commits' = commits /\ deployment' = deployment /\ app' \in AppType(Len(commits))
         /\ app'.phase = app.phase /\ app'.on = app.on /\ app'.history = app.history
         /\ app'.deleted = app.deleted /\ app'.step = app.step /\ app'.revision = app.revision
         /\ app'.error = "ComparisonError" /\ app'.sync = "Unknown" /\ app'.looked
<1>1. app \in AppType(Len(commits))
  BY DEF AppOK
<1>2. PICK unknown \in BOOLEAN :
        app' = [app EXCEPT !.sync = "Unknown", !.looked = TRUE, !.error = "ComparisonError",
                           !.healthUnknown = unknown]
  BY DEF CannotRender
<1>3. ~app.deleted /\ commits' = commits /\ deployment' = deployment
  BY DEF CannotRender, Alive
<1>4. /\ app'.phase = app.phase /\ app'.on = app.on /\ app'.history = app.history
      /\ app'.deleted = app.deleted /\ app'.step = app.step /\ app'.revision = app.revision
      /\ app'.error = "ComparisonError" /\ app'.sync = "Unknown" /\ app'.looked = TRUE
  BY <1>1, <1>2 DEF AppType
<1>5. app' \in AppType(Len(commits))
  BY <1>1, <1>2 DEF AppType
<1> QED
  BY <1>3, <1>4, <1>5

LEMMA StartSyncFields ==
  ASSUME AppOK, StartSync
  PROVE  /\ ~app.deleted /\ commits' = commits /\ deployment' = deployment /\ app' \in AppType(Len(commits))
         /\ app.sync = "OutOfSync" /\ app.phase # "Running"
         /\ app'.phase = "Running" /\ app'.on = app.revision /\ app'.step = "begun"
         /\ app'.sync = app.sync /\ app'.revision = app.revision /\ app'.history = app.history
         /\ app'.deleted = app.deleted /\ app'.error = app.error /\ app'.looked = app.looked
<1>1. app \in AppType(Len(commits))
  BY DEF AppOK
<1>2. app' = [app EXCEPT !.phase = "Running", !.on = app.revision, !.step = "begun"]
  BY DEF StartSync
<1>3. /\ ~app.deleted /\ commits' = commits /\ deployment' = deployment
      /\ app.sync = "OutOfSync" /\ app.phase # "Running"
  BY DEF StartSync, Alive, OperationRunning
<1>4. /\ app'.phase = "Running" /\ app'.on = app.revision /\ app'.step = "begun"
      /\ app'.sync = app.sync /\ app'.revision = app.revision /\ app'.history = app.history
      /\ app'.deleted = app.deleted /\ app'.error = app.error /\ app'.looked = app.looked
  BY <1>1, <1>2 DEF AppType
<1>5. app' \in AppType(Len(commits))
  BY <1>1, <1>2 DEF AppType
<1> QED
  BY <1>3, <1>4, <1>5

(* An operation's own steps. *)
LEMMA OperationFields ==
  ASSUME AppOK, CreateMigration \/ Apply
  PROVE  /\ app.phase = "Running" /\ commits' = commits /\ app' \in AppType(Len(commits))
         /\ AppSame /\ app'.looked = app.looked
         /\ CreateMigration => app'.step = "migrating" /\ deployment' = deployment
         /\ Apply => app'.step = "applied"
<1>1. app \in AppType(Len(commits))
  BY DEF AppOK
<1>2. CASE CreateMigration
  <2>1. app' = [app EXCEPT !.step = "migrating"]
    BY <1>2 DEF CreateMigration
  <2>2. app' \in AppType(Len(commits)) /\ AppSame /\ app'.looked = app.looked /\ app'.step = "migrating"
    BY <1>1, <2>1 DEF AppType, AppSame
  <2>3. app.phase = "Running" /\ commits' = commits /\ deployment' = deployment /\ app.step = "begun"
    BY <1>2 DEF CreateMigration, OperationRunning
  <2>4. ~Apply
    <3>1. Apply => app'.step = "applied"
      BY <1>1 DEF Apply, AppType
    <3> QED
      BY <2>2, <3>1
  <2> QED
    BY <1>2, <2>2, <2>3, <2>4
<1>3. CASE Apply
  <2>1. app' = [app EXCEPT !.step = "applied"]
    BY <1>3 DEF Apply
  <2>2. app' \in AppType(Len(commits)) /\ AppSame /\ app'.looked = app.looked /\ app'.step = "applied"
    BY <1>1, <2>1 DEF AppType, AppSame
  <2>3. app.phase = "Running" /\ commits' = commits
    BY <1>3 DEF Apply, OperationRunning
  <2>4. ~CreateMigration
    <3>1. CreateMigration => app'.step = "migrating"
      BY <1>1 DEF CreateMigration, AppType
    <3> QED
      BY <2>2, <3>1
  <2> QED
    BY <1>3, <2>2, <2>3, <2>4
<1> QED
  BY <1>2, <1>3

LEMMA SyncSucceedsFields ==
  ASSUME AppOK, CommitsOK, SyncSucceeds
  PROVE  /\ app.phase = "Running" /\ app.step = "applied" /\ commits' = commits /\ deployment' = deployment
         /\ app' \in AppType(Len(commits))
         /\ app'.phase = "Succeeded" /\ app'.step = "none" /\ app'.history = app.history \cup {app.on}
         /\ app'.on = app.on /\ app'.revision = app.revision /\ app'.looked = app.looked
         /\ app'.deleted = app.deleted /\ app'.error = app.error
         /\ \/ app'.sync = app.sync /\ ~(app.error = "" /\ app.revision = app.on)
            \/ app'.sync = "Synced" /\ app.revision = app.on /\ app.error = ""
<1>1. app \in AppType(Len(commits))
  BY DEF AppOK
<1> DEFINE sync == IF app.error = "" /\ app.revision = app.on THEN "Synced" ELSE app.sync
<1>2. /\ app.phase = "Running" /\ app.step = "applied" /\ commits' = commits /\ deployment' = deployment
      /\ app' = [app EXCEPT !.phase = "Succeeded", !.step = "none",
                            !.history = app.history \cup {app.on}, !.sync = sync]
  BY DEF SyncSucceeds, OperationRunning
<1>3. \/ sync = app.sync /\ ~(app.error = "" /\ app.revision = app.on)
      \/ sync = "Synced" /\ app.revision = app.on /\ app.error = ""
  OBVIOUS
<1>4. sync \in {"Unknown", "Synced", "OutOfSync"}
  BY <1>1 DEF AppType
<1> HIDE DEF sync
<1>5. /\ app'.phase = "Succeeded" /\ app'.step = "none" /\ app'.history = app.history \cup {app.on}
      /\ app'.on = app.on /\ app'.revision = app.revision /\ app'.looked = app.looked
      /\ app'.deleted = app.deleted /\ app'.error = app.error /\ app'.sync = sync
  BY <1>1, <1>2 DEF AppType
<1>6. app.history \cup {app.on} \in SUBSET (1 .. Len(commits))
  <2>1. app.on # 0
    BY <1>2 DEF AppOK
  <2>2. app.on \in 1 .. Len(commits)
    BY <2>1, AppNumbers, LastCommit
  <2> QED
    BY <2>2, AppNumbers
<1>7. app' \in AppType(Len(commits))
  BY <1>1, <1>2, <1>4, <1>6 DEF AppType
<1> QED
  BY <1>2, <1>3, <1>5, <1>7

LEMMA SyncFailsFields ==
  ASSUME AppOK, SyncFails
  PROVE  /\ app.phase = "Running" /\ commits' = commits /\ deployment' = deployment
         /\ app' \in AppType(Len(commits))
         /\ app'.phase = "Failed" /\ app'.step = "none" /\ app'.history = app.history
         /\ app'.on = app.on /\ app'.revision = app.revision /\ app'.looked = app.looked
         /\ app'.deleted = app.deleted /\ app'.error = app.error /\ app'.sync = app.sync
<1>1. app \in AppType(Len(commits))
  BY DEF AppOK
<1>2. /\ app.phase = "Running" /\ commits' = commits /\ deployment' = deployment
      /\ app' = [app EXCEPT !.phase = "Failed", !.step = "none"]
  BY DEF SyncFails, OperationRunning
<1>3. /\ app'.phase = "Failed" /\ app'.step = "none" /\ app'.history = app.history
      /\ app'.on = app.on /\ app'.revision = app.revision /\ app'.looked = app.looked
      /\ app'.deleted = app.deleted /\ app'.error = app.error /\ app'.sync = app.sync
  BY <1>1, <1>2 DEF AppType
<1>4. app' \in AppType(Len(commits))
  BY <1>1, <1>2 DEF AppType
<1> QED
  BY <1>2, <1>3, <1>4

LEMMA DeletionFields ==
  ASSUME AppOK, Delete \/ DeletionFails
  PROVE  /\ app'.deleted /\ commits' = commits /\ deployment' = deployment
         /\ app' \in AppType(Len(commits))
         /\ app'.phase = app.phase /\ app'.step = app.step /\ app'.history = app.history
         /\ app'.on = app.on /\ app'.revision = app.revision /\ app'.looked = app.looked
         /\ app'.sync = app.sync
         /\ app'.error = app.error \/ app'.error = "DeletionError"
<1>1. app \in AppType(Len(commits))
  BY DEF AppOK
<1>2. CASE Delete
  <2>1. commits' = commits /\ deployment' = deployment /\ app' = [app EXCEPT !.deleted = TRUE]
    BY <1>2 DEF Delete
  <2>2. /\ app'.deleted = TRUE
        /\ app'.phase = app.phase /\ app'.step = app.step /\ app'.history = app.history
        /\ app'.on = app.on /\ app'.revision = app.revision /\ app'.looked = app.looked
        /\ app'.sync = app.sync /\ app'.error = app.error
    BY <1>1, <2>1 DEF AppType
  <2>3. app' \in AppType(Len(commits))
    BY <1>1, <2>1 DEF AppType
  <2> QED
    BY <2>1, <2>2, <2>3
<1>3. CASE DeletionFails
  <2>1. /\ app.deleted /\ commits' = commits /\ deployment' = deployment
        /\ app' = [app EXCEPT !.error = "DeletionError"]
    BY <1>3 DEF DeletionFails
  <2>2. /\ app'.deleted = app.deleted
        /\ app'.phase = app.phase /\ app'.step = app.step /\ app'.history = app.history
        /\ app'.on = app.on /\ app'.revision = app.revision /\ app'.looked = app.looked
        /\ app'.sync = app.sync /\ app'.error = "DeletionError"
    BY <1>1, <2>1 DEF AppType
  <2>3. app' \in AppType(Len(commits))
    BY <1>1, <2>1 DEF AppType
  <2> QED
    BY <2>1, <2>2, <2>3
<1> QED
  BY <1>2, <1>3

LEMMA DeployFields ==
  ASSUME AppOK, NEW t \in Tag, NEW recorded \in BOOLEAN, Deploy(t, recorded)
  PROVE  app' \in AppType(Len(commits)) /\ AppSame /\ deployment' = deployment /\ app'.step = app.step
<1>1. app \in AppType(Len(commits))
  BY DEF AppOK
<1>2. app' = app \/ app' = [app EXCEPT !.looked = FALSE]
  BY DEF Deploy
<1>3. AppSame /\ app'.step = app.step
  BY <1>1, <1>2 DEF AppType, AppSame
<1>4. app' \in AppType(Len(commits))
  BY <1>1, <1>2 DEF AppType
<1> QED
  BY <1>3, <1>4 DEF Deploy

(* AppOK of the next state from its parts. *)
LEMMA AppStep ==
  ASSUME CommitsOK, AppOK, [EnvNext]_envVars
  PROVE  AppOK' /\ app.on <= app'.on
<1> DEFINE n == Len(commits)
           m == Len(commits)'
<1>1. CommitsOK' /\ CommitsGrow
  BY CommitsStep
<1>2. n \in Nat /\ n >= 1 /\ m \in Nat /\ n <= m
  BY <1>1, CommitsLen
<1>3. app.revision \in Nat /\ app.revision <= n /\ app.on \in Nat /\ app.on <= app.revision
  BY AppNumbers
<1>4. app \in AppType(n)
  BY DEF AppOK
<1>5. \A a \in AppType(n) : a \in AppType(m)
  BY <1>2, AppTypeGrows
<1>6. app.history \subseteq 1 .. n /\ \A c \in app.history : c <= app.on
  BY AppNumbers DEF AppOK
<1>7. ASSUME AppSame, app' \in AppType(n) PROVE AppOK' /\ app.on <= app'.on
  <2>1. app' \in AppType(Len(commits)')
    BY <1>5, <1>7
  <2>2. app.on <= app'.on
    <3>1. app'.on = app.on
      BY <1>7 DEF AppSame
    <3> QED
      BY <1>3, <3>1
  <2> QED
    BY <1>7, <2>1, <2>2, AppSameOK
<1>8. CASE app' = app
  BY <1>4, <1>7, <1>8 DEF AppSame
<1>9. ASSUME NEW t \in Tag, NEW recorded \in BOOLEAN, Deploy(t, recorded) PROVE AppOK' /\ app.on <= app'.on
  BY <1>7, <1>9, DeployFields
<1>10. CASE Look
  <2>1. /\ commits' = commits /\ app' \in AppType(n) /\ app'.phase = app.phase /\ app'.on = app.on
        /\ app'.history = app.history /\ app'.deleted = app.deleted
        /\ app'.revision = n /\ app'.error = ""
        /\ n \in app.history => app'.sync = "Synced"
        /\ n \notin app.history => app'.sync = "OutOfSync"
    BY <1>10, LookFields
  <2> DEFINE r == app'.revision
             o == app'.on
             was == app.on
  <2>a. r = n /\ o = was /\ was \in Nat /\ was <= app.revision
    BY <1>3, <2>1
  <2>b. r # 0 /\ o <= r /\ was <= o
    <3>1. was <= n
      BY <1>2, <1>3, <2>a
    <3> HIDE DEF r, o, was, n
    <3> QED
      BY <1>2, <2>a, <3>1
  <2>2. app'.revision # 0
    BY <2>b
  <2>3. app'.on <= app'.revision /\ app.on <= app'.on
    BY <2>b
  <2> HIDE DEF r, o, was
  <2>4. /\ app'.sync = "Synced" => app'.revision \in app'.history
        /\ app'.sync = "OutOfSync" => app'.revision \notin app'.history
    BY <2>1
  <2>5. app' \in AppType(Len(commits)')
    BY <2>1
  <2>6. \A c \in app'.history : c <= app'.on
    <3>1. app'.history = app.history /\ app'.on = app.on
      BY <2>1
    <3> QED
      BY <1>6, <3>1
  <2>7. /\ app'.phase = "none" => app'.on = 0 /\ app'.history = {}
        /\ app'.phase \in {"Running", "Failed"} => app'.on # 0 /\ app'.on \notin app'.history
        /\ app'.phase = "Succeeded" => app'.on \in app'.history
    BY <2>1 DEF AppOK
  <2>8. app'.error # "DeletionError" /\ app'.error # "ComparisonError"
    BY <2>1
  <2> QED
    BY <2>2, <2>3, <2>4, <2>5, <2>6, <2>7, <2>8 DEF AppOK
<1>11. CASE CannotRender
  <2>1. /\ app' \in AppType(n) /\ app'.phase = app.phase /\ app'.on = app.on
        /\ app'.history = app.history /\ app'.revision = app.revision
        /\ app'.error = "ComparisonError" /\ app'.sync = "Unknown" /\ commits' = commits
    BY <1>11, CannotRenderFields
  <2>2. app'.on <= app'.revision /\ app.on <= app'.on
    BY <1>3, <2>1
  <2>3. \A c \in app'.history : c <= app'.on
    BY <1>6, <2>1
  <2>4. /\ app'.phase = "none" => app'.on = 0 /\ app'.history = {}
        /\ app'.phase \in {"Running", "Failed"} => app'.on # 0 /\ app'.on \notin app'.history
        /\ app'.phase = "Succeeded" => app'.on \in app'.history
    BY <2>1 DEF AppOK
  <2>5. app'.sync # "OutOfSync" /\ app'.sync # "Synced" /\ app'.error # "DeletionError"
    BY <2>1
  <2>6. app' \in AppType(Len(commits)')
    BY <2>1
  <2>7. app'.sync = "Unknown"
    BY <2>1
  <2> QED
    BY <2>2, <2>3, <2>4, <2>5, <2>6, <2>7 DEF AppOK
<1>12. CASE StartSync
  <2>1. /\ app' \in AppType(n) /\ ~app.deleted /\ app.sync = "OutOfSync"
        /\ app'.phase = "Running" /\ app'.on = app.revision
        /\ app'.sync = app.sync /\ app'.revision = app.revision /\ app'.history = app.history
        /\ app'.deleted = app.deleted /\ app'.error = app.error /\ commits' = commits
    BY <1>12, StartSyncFields
  <2>2. app'.on <= app'.revision /\ app.on <= app'.on
    BY <1>3, <2>1
  <2>3. \A c \in app'.history : c <= app'.on
    <3> SUFFICES ASSUME NEW c \in app.history PROVE c <= app.revision
      BY <2>1
    <3>1. c \in Nat /\ c <= app.on
      BY <1>6
    <3> QED
      BY <1>3, <3>1
  <2>4. app.revision # 0 /\ app.revision \notin app.history /\ app.error # "DeletionError"
    BY <2>1 DEF AppOK, Alive
  <2>8. app.error # "ComparisonError"
    BY <2>1 DEF AppOK
  <2>9. app'.error # "ComparisonError"
    BY <2>1, <2>8
  <2>5. app'.revision # 0 /\ app'.on # 0 /\ app'.on \notin app'.history /\ app'.revision \notin app'.history
    BY <2>1, <2>4
  <2>6. app'.phase # "none" /\ app'.phase # "Succeeded" /\ app'.sync # "Synced" /\ app'.error # "DeletionError"
    BY <2>1, <2>4
  <2>7. app' \in AppType(Len(commits)')
    BY <2>1
  <2> QED
    BY <2>2, <2>3, <2>5, <2>6, <2>7, <2>9 DEF AppOK
<1>13. CASE CreateMigration \/ Apply
  BY <1>7, <1>13, OperationFields
<1>14. CASE SyncSucceeds
  <2>1. /\ app' \in AppType(n) /\ app.phase = "Running"
        /\ app'.phase = "Succeeded" /\ app'.history = app.history \cup {app.on}
        /\ app'.on = app.on /\ app'.revision = app.revision
        /\ app'.deleted = app.deleted /\ app'.error = app.error /\ commits' = commits
        /\ \/ app'.sync = app.sync /\ ~(app.error = "" /\ app.revision = app.on)
           \/ app'.sync = "Synced" /\ app.revision = app.on /\ app.error = ""
    BY <1>14, SyncSucceedsFields
  <2>a. /\ app'.on = app.on /\ app'.revision = app.revision
        /\ app'.history = app.history \cup {app.on}
    BY <2>1
  <2>2. app'.on <= app'.revision /\ app.on <= app'.on
    BY <1>3, <2>a
  <2>3. \A c \in app'.history : c <= app'.on
    <3> SUFFICES ASSUME NEW c \in app'.history PROVE c <= app.on
      BY <2>a
    <3>1. CASE c = app.on
      BY <1>3, <3>1
    <3>2. CASE c \in app.history
      BY <1>6, <3>2
    <3> QED
      BY <2>a, <3>1, <3>2
  <2>4. app'.on \in app'.history
    BY <2>1
  <2>5. app'.sync = "Synced" => app'.revision \in app'.history
    <3>1. CASE app'.sync = app.sync
      BY <2>1, <3>1 DEF AppOK
    <3>2. CASE app.revision = app.on
      BY <2>1, <3>2
    <3> QED
      BY <2>1, <3>1, <3>2
  <2>6. app'.sync = "OutOfSync" => app'.revision # 0
    BY <2>1 DEF AppOK
  <2>7. ASSUME ~app'.deleted, app'.sync = "OutOfSync" PROVE app'.revision \notin app'.history
    <3>1. app.sync = "OutOfSync" /\ ~app.deleted /\ ~(app.error = "" /\ app.revision = app.on)
      BY <2>1, <2>7
    <3>2. app.revision \notin app.history /\ app.error \in {"", "ComparisonError"}
      BY <1>4, <3>1 DEF AppOK, AppType, Alive
    <3>3. app.error # "ComparisonError"
      BY <3>1 DEF AppOK
    <3> QED
      BY <2>1, <3>1, <3>2, <3>3
  <2>8. ~app'.deleted => app'.error # "DeletionError"
    BY <2>1 DEF AppOK, Alive
  <2>9. app'.phase # "none" /\ app'.phase \notin {"Running", "Failed"}
    BY <2>1
  <2>10. app' \in AppType(Len(commits)')
    BY <2>1
  <2>11. ASSUME app'.error = "ComparisonError" PROVE app'.sync = "Unknown"
    <3>1. app.error = "ComparisonError"
      BY <2>1, <2>11
    <3>2. app.sync = "Unknown" /\ app.error # ""
      BY <3>1 DEF AppOK
    <3> QED
      BY <2>1, <3>2
  <2> QED
    BY <2>2, <2>3, <2>4, <2>5, <2>6, <2>7, <2>8, <2>9, <2>10, <2>11 DEF AppOK, Alive
<1>15. CASE SyncFails
  <2>1. /\ app' \in AppType(n) /\ app.phase = "Running" /\ app'.phase = "Failed"
        /\ app'.history = app.history /\ app'.on = app.on /\ app'.revision = app.revision
        /\ app'.deleted = app.deleted /\ app'.error = app.error /\ app'.sync = app.sync
        /\ commits' = commits
    BY <1>15, SyncFailsFields
  <2>2. app'.on <= app'.revision /\ app.on <= app'.on
    BY <1>3, <2>1
  <2>3. app'.on # 0 /\ app'.on \notin app'.history
    BY <2>1 DEF AppOK
  <2>4. app'.phase # "none" /\ app'.phase # "Succeeded"
    BY <2>1
  <2>5. app' \in AppType(Len(commits)')
    BY <2>1
  <2> QED
    BY <2>1, <2>2, <2>3, <2>4, <2>5 DEF AppOK, Alive
<1>16. CASE Delete \/ DeletionFails
  <2>1. /\ app' \in AppType(n) /\ app'.deleted /\ app'.phase = app.phase
        /\ app'.history = app.history /\ app'.on = app.on /\ app'.revision = app.revision
        /\ app'.sync = app.sync /\ commits' = commits
        /\ app'.error = app.error \/ app'.error = "DeletionError"
    BY <1>16, DeletionFields
  <2>2. app'.on <= app'.revision /\ app.on <= app'.on
    BY <1>3, <2>1
  <2>4. ASSUME app'.error = "ComparisonError" PROVE app'.sync = "Unknown"
    <3>1. app.error = "ComparisonError"
      BY <2>1, <2>4
    <3> QED
      BY <2>1, <3>1 DEF AppOK
  <2>3. app' \in AppType(Len(commits)')
    BY <2>1
  <2> QED
    BY <2>1, <2>2, <2>3, <2>4 DEF AppOK, Alive
<1> QED
  BY <1>8, <1>9, <1>10, <1>11, <1>12, <1>13, <1>14, <1>15, <1>16, WhoChanges

-----------------------------------------------------------------------------
(* The Jobs *)

LEMMA CommitTags ==
  ASSUME CommitsOK, NEW c \in 1 .. Len(commits)
  PROVE  commits[c].tag \in Tag \cup {NoTag}
<1>1. commits[c] \in CommitType
  BY ElementOfSeq DEF CommitsOK
<1> QED
  BY <1>1 DEF CommitType

LEMMA JobMoved ==
  ASSUME NEW from \in JobState, NEW to \in JobState, JobMoves(from, to) \/ JobDeadline(from, to)
  PROVE  from # "none" /\ to # "none"
BY DEF JobMoves, JobDeadline, JobState

(* A migration is of a tag that some commit up to the one last synced asks for. *)
LEMMA JobsStep ==
  ASSUME CommitsOK, AppOK, JobsOK, [EnvNext]_envVars
  PROVE  JobsOK'
<1>1. CommitsOK' /\ CommitsGrow /\ AppOK' /\ app.on <= app'.on
  BY CommitsStep, AppStep
<1>2. /\ app.on \in Nat /\ app.on <= app.revision /\ app.revision <= Len(commits)
      /\ app.revision \in Nat /\ Len(commits) \in Nat
  BY AppNumbers, LastCommit
<1>3. app'.on \in Nat
  <2>1. app' \in AppType(Len(commits)') /\ Len(commits)' \in Nat
    BY <1>1, CommitsLen DEF AppOK
  <2> QED
    BY <2>1, OnType
<1>4. \A c \in 1 .. app.on : c \in 1 .. app'.on /\ commits'[c] = commits[c]
  <2> DEFINE was == app.on
             o == app'.on
  <2>1. was \in Nat /\ o \in Nat /\ was <= o /\ was <= Len(commits)
    BY <1>1, <1>2, <1>3
  <2> HIDE DEF was, o
  <2>2. \A c \in 1 .. was : c \in 1 .. o /\ c \in 1 .. Len(commits)
    BY <1>2, <2>1
  <2> QED
    BY <1>1, <2>2 DEF CommitsGrow, was, o
<1>5. ASSUME migration'.tag = migration.tag PROVE migration'.tag # NoTag => \E c \in 1 .. app'.on : commits'[c].tag = migration'.tag
  BY <1>4, <1>5 DEF JobsOK
<1>6. CASE UNCHANGED <<migration, backup>>
  BY <1>5, <1>6 DEF JobsOK
<1>7. CASE CreateMigration
  <2>1. /\ app.phase = "Running" /\ commits[app.on].tag # NoTag
        /\ migration' = [tag |-> commits[app.on].tag, state |-> "pending"] /\ backup' = backup
    BY <1>7 DEF CreateMigration, OperationRunning
  <2>2. app.on # 0
    BY <2>1 DEF AppOK
  <2>3. app.on \in 1 .. app.on /\ app.on \in 1 .. Len(commits)
    BY <1>2, <2>2
  <2>4. commits[app.on].tag \in Tag \cup {NoTag}
    BY <2>3, CommitTags
  <2>5. migration' \in [tag : Tag \cup {NoTag}, state : JobState]
    BY <2>1, <2>4 DEF JobState
  <2>6. migration'.tag # NoTag /\ migration'.state # "none" /\ migration'.tag = commits[app.on].tag
    BY <2>1
  <2>7. \E c \in 1 .. app'.on : commits'[c].tag = migration'.tag
    BY <1>4, <2>3, <2>6
  <2> QED
    BY <2>1, <2>5, <2>6, <2>7 DEF JobsOK
<1>8. ASSUME NEW to \in JobState, JobMoves(migration.state, to) \/ JobDeadline(migration.state, to),
             migration' = [migration EXCEPT !.state = to], backup' = backup
      PROVE  JobsOK'
  <2>1. migration.state \in JobState
    BY DEF JobsOK
  <2>2. migration.state # "none" /\ to # "none"
    BY <1>8, <2>1, JobMoved
  <2>3. migration'.tag = migration.tag /\ migration'.state = to
    BY <1>8 DEF JobsOK
  <2>4. migration' \in [tag : Tag \cup {NoTag}, state : JobState]
    BY <1>8 DEF JobsOK
  <2> QED
    BY <1>5, <1>8, <2>2, <2>3, <2>4 DEF JobsOK
<1>9. ASSUME NEW to \in JobState, MigrationMoves(to) PROVE JobsOK'
  BY <1>8, <1>9 DEF MigrationMoves
<1>10. CASE MigrationDeadline
  <2>1. "failed" \in JobState
    BY DEF JobState
  <2> QED
    BY <1>8, <1>10, <2>1 DEF MigrationDeadline
<1>11. ASSUME NEW to \in JobState, BackUp(to) PROVE JobsOK'
  <2>1. migration' = migration /\ backup' = to
    BY <1>11 DEF BackUp
  <2> QED
    BY <1>5, <1>11, <2>1 DEF JobsOK
<1> QED
  BY <1>6, <1>7, <1>9, <1>10, <1>11, WhoChanges

-----------------------------------------------------------------------------
(* The Deployment and its Pods *)

(* The template of a commit is that of a commit before it, or its own, which asked for the same tag. *)
LEMMA TemplateOfCommit ==
  ASSUME CommitsOK, NEW c \in 1 .. Len(commits)
  PROVE  /\ TemplateOf(commits, c) \in 1 .. c
         /\ commits[TemplateOf(commits, c)].tag = commits[c].tag
<1> DEFINE S == {i \in 1 .. c : commits[i].tag = commits[c].tag /\ commits[i].restart = commits[c].restart}
<1>1. c \in S
  BY LastCommit
<1>2. S \in SUBSET Nat
  OBVIOUS
<1>3. Min(S) \in S
  BY <1>1, <1>2, MinOf
<1> QED
  BY <1>3 DEF TemplateOf

(* A Deployment which does not change keeps its tag. *)
LEMMA RunningStays ==
  ASSUME CommitsOK, CommitsGrow, RolloutOK, deployment'.template = deployment.template
  PROVE  Running' = Running
<1>1. deployment.template \in 0 .. Len(commits)
  BY DEF RolloutOK
<1>2. CASE deployment.template = 0
  BY <1>2 DEF Running
<1>3. CASE deployment.template # 0
  <2>1. deployment.template \in 1 .. Len(commits)
    BY <1>1, <1>3, LastCommit
  <2>2. commits'[deployment.template] = commits[deployment.template]
    BY <2>1 DEF CommitsGrow
  <2> QED
    BY <1>3, <2>2 DEF Running
<1> QED
  BY <1>2, <1>3
LEMMA RunsStays ==
  ASSUME CommitsOK, CommitsGrow, RolloutOK, deployment'.template = deployment.template,
         NEW c \in 1 .. Len(commits), Runs(c)
  PROVE  commits'[c].tag = NoTag \/ Running' = commits'[c].tag
<1>1. commits'[c] = commits[c]
  BY DEF CommitsGrow
<1> QED
  BY <1>1, RunningStays DEF Runs

(* An Apply leaves the tag of the commit that the operation syncs running. *)
LEMMA ApplyRuns ==
  ASSUME CommitsOK, AppOK, RolloutOK, Apply
  PROVE  /\ app.on \in 1 .. Len(commits)
         /\ deployment' \in [template : 0 .. Len(commits), progress : {"none", "progressing", "done", "deadline"}]
         /\ deployment'.template <= app.on
         /\ deployment'.template # 0 => Running' # NoTag
         /\ commits[app.on].tag = NoTag \/ Running' = commits[app.on].tag
<1> DEFINE on == app.on
           t == TemplateOf(commits, on)
<1>1. app.phase = "Running" /\ commits' = commits
  BY DEF Apply, OperationRunning
<1>2. on # 0 /\ on \in Nat /\ on <= app.revision /\ app.revision <= Len(commits) /\ app.revision \in Nat
  <2>1. app.on # 0
    BY <1>1 DEF AppOK
  <2> QED
    BY <2>1, AppNumbers
<1>3. Len(commits) \in Nat
  BY LastCommit
<1>4. \/ (commits[on].tag = NoTag \/ deployment.template = t) /\ deployment' = deployment
      \/ /\ ~(commits[on].tag = NoTag \/ deployment.template = t)
         /\ deployment' = [template |-> t, progress |-> "progressing"]
  BY DEF Apply
<1>5. on \in 1 .. Len(commits)
  <2> HIDE DEF on
  <2> QED
    BY <1>2, <1>3
<1>6. t \in 1 .. on /\ commits[t].tag = commits[on].tag
  BY <1>5, TemplateOfCommit
<1> HIDE DEF t
<1>7. t \in Nat /\ t # 0 /\ t <= on /\ t \in 0 .. Len(commits)
  <2> HIDE DEF on
  <2> QED
    BY <1>2, <1>3, <1>6
<1>8. deployment'.template = 0 \/ Running' = commits[deployment'.template].tag
  BY <1>1 DEF Running
<1>9. CASE (commits[on].tag = NoTag \/ deployment.template = t) /\ deployment' = deployment
  <2>1. Running' = Running
    BY <1>1, <1>9 DEF Running
  <2>2. commits[on].tag = NoTag \/ Running' = commits[on].tag
    BY <1>6, <1>7, <1>8, <1>9
  <2> QED
    BY <1>5, <1>9, <2>1, <2>2 DEF RolloutOK
<1>10. CASE /\ ~(commits[on].tag = NoTag \/ deployment.template = t)
            /\ deployment' = [template |-> t, progress |-> "progressing"]
  <2>1. deployment'.template = t
    BY <1>10
  <2>2. Running' = commits[on].tag
    BY <1>6, <1>7, <1>8, <2>1
  <2>3. deployment' \in [template : 0 .. Len(commits), progress : {"none", "progressing", "done", "deadline"}]
    BY <1>7, <1>10
  <2> QED
    BY <1>5, <1>7, <1>10, <2>1, <2>2, <2>3
<1> QED
  BY <1>4, <1>9, <1>10

LEMMA RolloutStep ==
  ASSUME CommitsOK, AppOK, RolloutOK, [EnvNext]_envVars
  PROVE  RolloutOK'
<1> DEFINE n == Len(commits)
           m == Len(commits)'
           Progress == {"none", "progressing", "done", "deadline"}
<1>1. CommitsOK' /\ CommitsGrow /\ AppOK' /\ app.on <= app'.on
  BY CommitsStep, AppStep
<1>2. n \in Nat /\ m \in Nat /\ n <= m
  BY <1>1, CommitsLen
<1>3. app.on \in Nat /\ app.on <= app.revision /\ app.revision \in Nat /\ app.revision <= n
  BY AppNumbers
<1>4. app'.on \in Nat
  <2>1. app' \in AppType(m)
    BY <1>1 DEF AppOK
  <2> QED
    BY <1>2, <2>1, OnType
<1>5. deployment \in [template : 0 .. n, progress : Progress]
  BY DEF RolloutOK
<1>6. 0 .. n \subseteq 0 .. m
  BY <1>2
<1> HIDE DEF n, m
<1>7. app.phase # "none" => app.on # 0 \/ app.phase = "Succeeded"
  BY DEF AppOK, AppType
<1>8. app.phase = "Succeeded" => app.on \in 1 .. n
  BY AppNumbers DEF AppOK, n
<1>9. app.phase = "Running" => app.on \in 1 .. n
  <2>1. app.phase = "Running" => app.on # 0
    BY DEF AppOK
  <2> QED
    BY <1>2, <1>3, <2>1
<1>10. ASSUME deployment'.template = deployment.template, deployment'.progress \in Progress,
              deployment' \in [template : 0 .. n, progress : Progress]
       PROVE  /\ deployment' \in [template : 0 .. m, progress : Progress]
              /\ deployment'.template <= app'.on
              /\ deployment'.template # 0 => Running' # NoTag
  <2>1. deployment' \in [template : 0 .. m, progress : Progress]
    BY <1>6, <1>10
  <2>2. deployment'.template <= app'.on
    <3> DEFINE t == deployment'.template
               o == app'.on
               was == app.on
    <3>1. t \in Nat /\ t <= was /\ was <= o /\ was \in Nat /\ o \in Nat
      BY <1>1, <1>2, <1>3, <1>4, <1>10 DEF RolloutOK
    <3> HIDE DEF t, o, was
    <3>2. t <= o
      BY <3>1
    <3> QED
      BY <3>2 DEF t, o
  <2>3. Running' = Running
    BY <1>1, <1>10, RunningStays
  <2> QED
    BY <1>10, <2>1, <2>2, <2>3 DEF RolloutOK
(* The commit last synced keeps its tag, and so does the Deployment. *)
<1>11. ASSUME deployment'.template = deployment.template, deployment'.progress \in Progress,
              deployment' \in [template : 0 .. n, progress : Progress],
              app'.phase = "Succeeded" =>
                /\ app'.on = app.on
                /\ \/ app.phase = "Succeeded"
                   \/ app.phase = "Running" /\ app.step = "applied",
              app'.phase = "Running" /\ app'.step = "applied" =>
                app'.on = app.on /\ app.phase = "Running" /\ app.step = "applied",
              Alive' /\ app'.sync = "Unknown" /\ app'.error # "ComparisonError" =>
                deployment.template = 0 /\ app'.phase = "none"
       PROVE  RolloutOK'
  <2>1. /\ deployment' \in [template : 0 .. m, progress : Progress]
        /\ deployment'.template <= app'.on
        /\ deployment'.template # 0 => Running' # NoTag
    BY <1>10, <1>11
  <2>2. ASSUME app'.phase = "Succeeded" PROVE Runs(app.on)'
    <3>1. app.on \in 1 .. n /\ Runs(app.on) /\ app'.on = app.on
      BY <1>8, <1>9, <1>11, <2>2 DEF RolloutOK, OperationRunning
    <3>2. commits'[app.on].tag = NoTag \/ Running' = commits'[app.on].tag
      BY <1>1, <1>11, <3>1, RunsStays DEF n
    <3> QED
      BY <3>1, <3>2 DEF Runs
  <2>3. ASSUME app'.phase = "Running", app'.step = "applied" PROVE Runs(app.on)'
    <3>1. app.on \in 1 .. n /\ Runs(app.on) /\ app'.on = app.on
      BY <1>9, <1>11, <2>3 DEF RolloutOK, OperationRunning
    <3>2. commits'[app.on].tag = NoTag \/ Running' = commits'[app.on].tag
      BY <1>1, <1>11, <3>1, RunsStays DEF n
    <3> QED
      BY <3>1, <3>2 DEF Runs
  <2> QED
    BY <1>11, <2>1, <2>2, <2>3 DEF RolloutOK, OperationRunning, m
<1>12. ASSUME AppSame, app'.step = app.step, deployment'.template = deployment.template,
              deployment'.progress \in Progress, deployment' \in [template : 0 .. n, progress : Progress]
       PROVE  RolloutOK'
  <2>1. Alive' /\ app'.sync = "Unknown" /\ app'.error # "ComparisonError" =>
          deployment.template = 0 /\ app'.phase = "none"
    BY <1>12 DEF AppSame, RolloutOK, Alive
  <2>2. app'.phase = "Succeeded" => app'.on = app.on /\ app.phase = "Succeeded"
    BY <1>12 DEF AppSame
  <2>3. app'.phase = "Running" /\ app'.step = "applied" =>
          app'.on = app.on /\ app.phase = "Running" /\ app.step = "applied"
    BY <1>12 DEF AppSame
  <2> QED
    BY <1>11, <1>12, <2>1, <2>2, <2>3
<1>13. CASE deployment' = deployment
  <2>1. deployment'.template = deployment.template /\ deployment'.progress \in Progress
    BY <1>5, <1>13
  <2>2. CASE app' = app
    BY <1>5, <1>12, <1>13, <2>1, <2>2 DEF AppSame
  <2>3. ASSUME NEW t \in Tag, NEW recorded \in BOOLEAN, Deploy(t, recorded) PROVE RolloutOK'
    BY <1>5, <1>12, <1>13, <2>1, <2>3, DeployFields
  <2>4. CASE Look
    <3>1. /\ app'.phase = app.phase /\ app'.step = app.step /\ app'.on = app.on
          /\ app'.sync \in {"Synced", "OutOfSync"}
      BY <2>4, LookFields
    <3>2. app'.sync # "Unknown"
      BY <3>1
    <3>a. app'.phase = "Succeeded" =>
            /\ app'.on = app.on
            /\ \/ app.phase = "Succeeded"
               \/ app.phase = "Running" /\ app.step = "applied"
      BY <3>1, <3>2
    <3>b. app'.phase = "Running" /\ app'.step = "applied" =>
            app'.on = app.on /\ app.phase = "Running" /\ app.step = "applied"
      BY <3>1, <3>2
    <3>c. Alive' /\ app'.sync = "Unknown" /\ app'.error # "ComparisonError" =>
            deployment.template = 0 /\ app'.phase = "none"
      BY <3>1, <3>2
    <3> QED
      BY <1>5, <1>11, <1>13, <2>1, <3>a, <3>b, <3>c
  <2>5. CASE CannotRender
    <3>1. /\ app'.phase = app.phase /\ app'.step = app.step /\ app'.on = app.on
          /\ app'.error = "ComparisonError"
      BY <2>5, CannotRenderFields
    <3>a. app'.phase = "Succeeded" =>
            /\ app'.on = app.on
            /\ \/ app.phase = "Succeeded"
               \/ app.phase = "Running" /\ app.step = "applied"
      BY <3>1
    <3>b. app'.phase = "Running" /\ app'.step = "applied" =>
            app'.on = app.on /\ app.phase = "Running" /\ app.step = "applied"
      BY <3>1
    <3>c. Alive' /\ app'.sync = "Unknown" /\ app'.error # "ComparisonError" =>
            deployment.template = 0 /\ app'.phase = "none"
      BY <3>1
    <3> QED
      BY <1>5, <1>11, <1>13, <2>1, <3>a, <3>b, <3>c
  <2>6. CASE StartSync
    <3>1. app'.phase = "Running" /\ app'.step = "begun" /\ app'.sync = "OutOfSync"
      BY <2>6, StartSyncFields
    <3>a. app'.phase = "Succeeded" =>
            /\ app'.on = app.on
            /\ \/ app.phase = "Succeeded"
               \/ app.phase = "Running" /\ app.step = "applied"
      BY <3>1
    <3>b. app'.phase = "Running" /\ app'.step = "applied" =>
            app'.on = app.on /\ app.phase = "Running" /\ app.step = "applied"
      BY <3>1
    <3>c. Alive' /\ app'.sync = "Unknown" /\ app'.error # "ComparisonError" =>
            deployment.template = 0 /\ app'.phase = "none"
      BY <3>1
    <3> QED
      BY <1>5, <1>11, <1>13, <2>1, <3>a, <3>b, <3>c
  <2>7. CASE CreateMigration
    <3>1. AppSame /\ app.phase = "Running" /\ app'.step = "migrating"
      BY <2>7, OperationFields
    <3>2. Alive' /\ app'.sync = "Unknown" /\ app'.error # "ComparisonError" =>
            deployment.template = 0 /\ app'.phase = "none"
      BY <3>1 DEF AppSame, RolloutOK, Alive
    <3>a. app'.phase = "Succeeded" =>
            /\ app'.on = app.on
            /\ \/ app.phase = "Succeeded"
               \/ app.phase = "Running" /\ app.step = "applied"
      BY <3>1, <3>2 DEF AppSame
    <3>b. app'.phase = "Running" /\ app'.step = "applied" =>
            app'.on = app.on /\ app.phase = "Running" /\ app.step = "applied"
      BY <3>1, <3>2 DEF AppSame
    <3>c. Alive' /\ app'.sync = "Unknown" /\ app'.error # "ComparisonError" =>
            deployment.template = 0 /\ app'.phase = "none"
      BY <3>1, <3>2 DEF AppSame
    <3> QED
      BY <1>5, <1>11, <1>13, <2>1, <3>a, <3>b, <3>c
  <2>8. CASE SyncSucceeds
    <3>1. /\ app.phase = "Running" /\ app.step = "applied" /\ app'.phase = "Succeeded" /\ app'.step = "none"
          /\ app'.on = app.on /\ app'.deleted = app.deleted /\ app'.error = app.error
          /\ app'.sync = app.sync \/ app'.sync = "Synced"
      BY <2>8, SyncSucceedsFields
    <3>2. ~(Alive' /\ app'.sync = "Unknown" /\ app'.error # "ComparisonError")
      BY <3>1 DEF RolloutOK, Alive
    <3>a. app'.phase = "Succeeded" =>
            /\ app'.on = app.on
            /\ \/ app.phase = "Succeeded"
               \/ app.phase = "Running" /\ app.step = "applied"
      BY <3>1, <3>2
    <3>b. app'.phase = "Running" /\ app'.step = "applied" =>
            app'.on = app.on /\ app.phase = "Running" /\ app.step = "applied"
      BY <3>1, <3>2
    <3>c. Alive' /\ app'.sync = "Unknown" /\ app'.error # "ComparisonError" =>
            deployment.template = 0 /\ app'.phase = "none"
      BY <3>1, <3>2
    <3> QED
      BY <1>5, <1>11, <1>13, <2>1, <3>a, <3>b, <3>c
  <2>9. CASE SyncFails
    <3>1. /\ app.phase = "Running" /\ app'.phase = "Failed"
          /\ app'.deleted = app.deleted /\ app'.error = app.error /\ app'.sync = app.sync
      BY <2>9, SyncFailsFields
    <3>2. ~(Alive' /\ app'.sync = "Unknown" /\ app'.error # "ComparisonError")
      BY <3>1 DEF RolloutOK, Alive
    <3>a. app'.phase = "Succeeded" =>
            /\ app'.on = app.on
            /\ \/ app.phase = "Succeeded"
               \/ app.phase = "Running" /\ app.step = "applied"
      BY <3>1, <3>2
    <3>b. app'.phase = "Running" /\ app'.step = "applied" =>
            app'.on = app.on /\ app.phase = "Running" /\ app.step = "applied"
      BY <3>1, <3>2
    <3>c. Alive' /\ app'.sync = "Unknown" /\ app'.error # "ComparisonError" =>
            deployment.template = 0 /\ app'.phase = "none"
      BY <3>1, <3>2
    <3> QED
      BY <1>5, <1>11, <1>13, <2>1, <3>a, <3>b, <3>c
  <2>10. CASE Delete \/ DeletionFails
    <3>1. app'.deleted /\ app'.phase = app.phase /\ app'.step = app.step /\ app'.on = app.on
      BY <2>10, DeletionFields
    <3>2. ~Alive'
      BY <3>1 DEF Alive
    <3>a. app'.phase = "Succeeded" =>
            /\ app'.on = app.on
            /\ \/ app.phase = "Succeeded"
               \/ app.phase = "Running" /\ app.step = "applied"
      BY <3>1, <3>2
    <3>b. app'.phase = "Running" /\ app'.step = "applied" =>
            app'.on = app.on /\ app.phase = "Running" /\ app.step = "applied"
      BY <3>1, <3>2
    <3>c. Alive' /\ app'.sync = "Unknown" /\ app'.error # "ComparisonError" =>
            deployment.template = 0 /\ app'.phase = "none"
      BY <3>1, <3>2
    <3> QED
      BY <1>5, <1>11, <1>13, <2>1, <3>a, <3>b, <3>c
  <2>11. Apply => RolloutOK'
    <3> SUFFICES ASSUME Apply PROVE RolloutOK'
      OBVIOUS
    <3>1. AppSame /\ app'.step = "applied" /\ app.phase = "Running" /\ commits' = commits
      BY OperationFields
    <3>2. app.on \in 1 .. n /\ (commits[app.on].tag = NoTag \/ Running' = commits[app.on].tag)
      BY ApplyRuns DEF n
    <3>3. Runs(app.on)'
      BY <3>1, <3>2 DEF AppSame, Runs
    <3>4. /\ deployment' \in [template : 0 .. m, progress : Progress]
          /\ deployment'.template <= app'.on
          /\ deployment'.template # 0 => Running' # NoTag
      BY <1>5, <1>10, <1>13, <2>1
    <3>5. ~(Alive' /\ app'.sync = "Unknown" /\ app'.error # "ComparisonError")
      BY <3>1 DEF AppSame, RolloutOK, Alive
    <3> QED
      BY <3>3, <3>4, <3>5 DEF RolloutOK, m
  <2> QED
    BY <2>2, <2>3, <2>4, <2>5, <2>6, <2>7, <2>8, <2>9, <2>10, <2>11, WhoChanges
<1>14. CASE Apply
  <2>1. AppSame /\ app'.step = "applied" /\ app.phase = "Running" /\ commits' = commits
    BY <1>14, OperationFields
  <2>2. /\ app.on \in 1 .. n
        /\ deployment' \in [template : 0 .. n, progress : Progress]
        /\ deployment'.template <= app.on
        /\ deployment'.template # 0 => Running' # NoTag
        /\ commits[app.on].tag = NoTag \/ Running' = commits[app.on].tag
    BY <1>14, ApplyRuns DEF n
  <2>3. Runs(app.on)'
    BY <2>1, <2>2 DEF AppSame, Runs
  <2>4. deployment' \in [template : 0 .. m, progress : Progress]
    BY <1>6, <2>2
  <2>5. ~(Alive' /\ app'.sync = "Unknown" /\ app'.error # "ComparisonError")
    BY <2>1 DEF AppSame, RolloutOK, Alive
  <2>6. deployment'.template <= app'.on
    BY <2>1, <2>2 DEF AppSame
  <2> QED
    BY <2>2, <2>3, <2>4, <2>5, <2>6 DEF RolloutOK, m
<1>15. CASE RolloutDone \/ RolloutDeadline
  <2>1. app' = app /\ \E p \in Progress : deployment' = [deployment EXCEPT !.progress = p]
    BY <1>15 DEF RolloutDone, RolloutDeadline
  <2>2. /\ deployment'.template = deployment.template /\ deployment'.progress \in Progress
        /\ deployment' \in [template : 0 .. n, progress : Progress]
    BY <1>5, <2>1
  <2> QED
    BY <1>12, <2>1, <2>2 DEF AppSame
<1> QED
  BY <1>13, <1>14, <1>15, WhoChanges

(* Only templates of commits have Pods, and only under a Deployment. *)
LEMMA PodsStep ==
  ASSUME CommitsOK, AppOK, RolloutOK, PodsOK, [EnvNext]_envVars
  PROVE  PodsOK'
<1> DEFINE n == Len(commits)
           m == Len(commits)'
<1>1. CommitsOK' /\ CommitsGrow
  BY CommitsStep
<1>2. n \in Nat /\ m \in Nat /\ n <= m /\ n <= MaxCommits
  BY <1>1, CommitsLen DEF CommitsOK
<1>3. \A i \in Commit : i <= n => i <= m
  BY <1>2 DEF Commit
<1>4. pods \in [Commit -> PodState] /\ \A i \in Commit : pods[i] # "none" => i <= n
  BY DEF PodsOK
<1> HIDE DEF n, m
<1>5. ASSUME pods' = pods, deployment'.template = deployment.template PROVE PodsOK'
  BY <1>3, <1>4, <1>5 DEF PodsOK, m
<1>6. CASE Apply
  <2> DEFINE t == TemplateOf(commits, app.on)
             new == IF pods[t] = "none" THEN "starting" ELSE pods[t]
  <2>1. app.on \in 1 .. n /\ commits' = commits
    BY <1>6, ApplyRuns DEF Apply, n
  <2>2. t \in 1 .. app.on
    BY <2>1, TemplateOfCommit DEF n
  <2>3. \/ deployment' = deployment /\ pods' = pods
        \/ deployment' = [template |-> t, progress |-> "progressing"] /\ pods' = [pods EXCEPT ![t] = new]
    BY <1>6 DEF Apply
  <2> HIDE DEF t
  <2>4. t \in Commit /\ t <= n /\ t # 0
    <3>1. \A o \in 1 .. n : \A x \in 1 .. o : x \in Commit /\ x <= n /\ x # 0
      BY <1>2, Constants DEF Commit
    <3> QED
      BY <2>1, <2>2, <3>1
  <2>5. new \in PodState
    BY <1>4, <2>4 DEF PodState
  <2> HIDE DEF new
  <2>6. CASE deployment' = [template |-> t, progress |-> "progressing"] /\ pods' = [pods EXCEPT ![t] = new]
    <3>1. deployment'.template # 0
      BY <2>4, <2>6
    <3>2. pods' \in [Commit -> PodState]
      BY <1>4, <2>4, <2>5, <2>6
    <3>3. \A i \in Commit : i # t => pods'[i] = pods[i]
      BY <1>4, <2>6
    <3>4. \A i \in Commit : pods'[i] # "none" => i <= n
      BY <1>4, <2>4, <3>3
    <3>5. \A i \in Commit : pods'[i] # "none" => i <= Len(commits')
      BY <2>1, <3>4 DEF n
    <3> QED
      BY <3>1, <3>2, <3>5 DEF PodsOK
  <2> QED
    BY <1>5, <2>3, <2>6
<1>7. CASE RolloutDone
  <2>1. /\ deployment.template \in Ready /\ deployment'.template = deployment.template /\ commits' = commits
        /\ pods' = [i \in Commit |-> IF i = deployment.template THEN pods[i] ELSE "none"]
    <3>1. deployment' = [deployment EXCEPT !.progress = "done"]
      BY <1>7 DEF RolloutDone
    <3>2. deployment'.template = deployment.template
      BY <3>1 DEF RolloutOK
    <3> QED
      BY <1>7, <3>2 DEF RolloutDone
  <2>2. pods' \in [Commit -> PodState] /\ \A i \in Commit : pods'[i] # "none" => pods[i] # "none"
    BY <1>4, <2>1 DEF PodState
  <2>3. \A i \in Commit : pods'[i] # "none" => i <= Len(commits')
    BY <1>4, <2>1, <2>2 DEF n
  <2>4. deployment'.template = 0 => \A i \in Commit : pods'[i] = "none"
    BY <2>1, <2>2 DEF PodsOK
  <2> QED
    BY <2>2, <2>3, <2>4 DEF PodsOK
<1>8. ASSUME NEW i \in Commit, NEW to \in PodState, PodMoves(i, to) PROVE PodsOK'
  <2>1. i \in Pods /\ pods' = [pods EXCEPT ![i] = to] /\ commits' = commits /\ deployment' = deployment
    BY <1>8 DEF PodMoves
  <2>2. pods[i] # "none"
    BY <2>1 DEF Pods
  <2>3. pods' \in [Commit -> PodState] /\ \A j \in Commit : j # i => pods'[j] = pods[j]
    BY <1>4, <2>1
  <2>4. \A j \in Commit : pods'[j] # "none" => j <= Len(commits')
    BY <1>4, <2>1, <2>2, <2>3 DEF n
  <2>5. deployment'.template # 0
    BY <2>1, <2>2 DEF PodsOK
  <2> QED
    BY <2>3, <2>4, <2>5 DEF PodsOK
<1>9. CASE RolloutDeadline
  <2>1. deployment' = [deployment EXCEPT !.progress = "deadline"] /\ pods' = pods
    BY <1>9 DEF RolloutDeadline
  <2>2. deployment'.template = deployment.template
    BY <2>1 DEF RolloutOK
  <2> QED
    BY <1>5, <2>1, <2>2
<1>10. CASE deployment' = deployment /\ pods' = pods
  BY <1>5, <1>10
<1> QED
  BY <1>6, <1>7, <1>8, <1>9, <1>10, WhoChanges

-----------------------------------------------------------------------------
(* The ages *)

LEMMA AgeReset ==
  ASSUME AgesOK, DOMAIN age' = DOMAIN age,
         age'.pod \in [Commit -> 0 .. Old.unavailable],
         \A m \in DOMAIN Old : age'[m] = age[m] \/ age'[m] = 0 \/ age'[m] = Old[m]
  PROVE  AgesOK'
<1>1. \A m \in DOMAIN Old : age'[m] \in 0 .. Old[m]
  BY OldType DEF AgesOK
<1> QED
  BY <1>1 DEF AgesOK

(* Each moment is one tick older, up to the age at which it stops counting. *)
LEMMA TickAges ==
  ASSUME AgesOK, Tick
  PROVE  AgesOK'
<1> DEFINE Older(m) == Min({age[m] + 1, Old[m]})
           un == IF deployment.template # 0 /\ Ready = {} THEN Older("unavailable") ELSE 0
           de == IF app.deleted THEN Older("deleted") ELSE 0
           po == [i \in Commit |-> IF i \in Pods \ Ready THEN Min({age.pod[i] + 1, Old.unavailable}) ELSE 0]
<1>1. age' = [age EXCEPT
       !.created = Older("created"), !.accepted = Older("accepted"),
       !.outOfSync = Older("outOfSync"), !.finished = Older("finished"),
       !.step = Older("step"), !.unavailable = un, !.deleted = de, !.pod = po]
  BY DEF Tick
<1>2. ASSUME NEW a \in Nat, NEW b \in Nat PROVE Min({a + 1, b}) \in 0 .. b
  BY MinOfTwo
<1>3. \A m \in DOMAIN Old : Older(m) \in 0 .. Old[m]
  <2> SUFFICES ASSUME NEW m \in DOMAIN Old PROVE Older(m) \in 0 .. Old[m]
    OBVIOUS
  <2>1. age[m] \in Nat /\ Old[m] \in Nat
    BY OldType DEF AgesOK
  <2> QED
    BY <1>2, <2>1
<1>4. po \in [Commit -> 0 .. Old.unavailable]
  <2>1. Old.unavailable \in Nat /\ \A i \in Commit : age.pod[i] \in Nat
    BY OldType DEF AgesOK
  <2>2. 0 \in 0 .. Old.unavailable
    BY <2>1
  <2>3. \A i \in Commit : Min({age.pod[i] + 1, Old.unavailable}) \in 0 .. Old.unavailable
    BY <1>2, <2>1
  <2> QED
    BY <2>2, <2>3
<1>5. un \in 0 .. Old["unavailable"] /\ de \in 0 .. Old["deleted"]
  <2>1. Older("unavailable") \in 0 .. Old["unavailable"] /\ Older("deleted") \in 0 .. Old["deleted"]
    BY <1>3, OldType
  <2>2. 0 \in 0 .. Old["unavailable"] /\ 0 \in 0 .. Old["deleted"]
    BY OldType
  <2> QED
    BY <2>1, <2>2
<1> HIDE DEF Older, un, de, po
<1>6. DOMAIN age = DOMAIN Old \cup {"pod"}
  BY DEF AgesOK
<1>7. DOMAIN age' = DOMAIN Old \cup {"pod"}
  BY <1>1, <1>6
<1>8. /\ age'["created"] = Older("created") /\ age'["accepted"] = Older("accepted")
      /\ age'["outOfSync"] = Older("outOfSync") /\ age'["finished"] = Older("finished")
      /\ age'["step"] = Older("step") /\ age'["unavailable"] = un /\ age'["deleted"] = de
      /\ age'["pod"] = po
  BY <1>1, <1>6, OldType
<1>9. \A m \in DOMAIN Old : age'[m] \in 0 .. Old[m]
  BY <1>3, <1>5, <1>8, OldType
<1> QED
  BY <1>4, <1>7, <1>8, <1>9 DEF AgesOK

(* Every other step sets moments to now or to past counting. *)
LEMMA AgesStep ==
  ASSUME AgesOK, [EnvNext]_envVars
  PROVE  AgesOK'
<1>1. DOMAIN age = DOMAIN Old \cup {"pod"} /\ "pod" \notin DOMAIN Old
  BY OldType DEF AgesOK
<1>2. age.pod \in [Commit -> 0 .. Old.unavailable]
  BY DEF AgesOK
<1>3. CASE age' = age
  BY <1>2, <1>3 DEF AgesOK
<1>4. ASSUME NEW k \in DOMAIN Old, NEW v, v \in {0, Old[k], age[k]}, age' = [age EXCEPT ![k] = v]
      PROVE  AgesOK'
  <2>1. DOMAIN age' = DOMAIN age /\ age'.pod = age.pod
    BY <1>1, <1>4
  <2>2. \A m \in DOMAIN Old : age'[m] = age[m] \/ age'[m] = 0 \/ age'[m] = Old[m]
    BY <1>1, <1>4
  <2> QED
    BY <1>2, <2>1, <2>2, AgeReset
<1>5. ASSUME NEW t \in Tag, NEW recorded \in BOOLEAN, Deploy(t, recorded) PROVE AgesOK'
  <2>1. age' = age \/ age' = [age EXCEPT !["accepted"] = 0]
    BY <1>5 DEF Deploy
  <2> QED
    BY <1>3, <1>4, <2>1, OldType
<1>6. CASE Look
  <2>1. PICK v : v \in {0, Old["outOfSync"], age["outOfSync"]} /\ age' = [age EXCEPT !["outOfSync"] = v]
    BY <1>6 DEF Look
  <2> QED
    BY <1>4, <2>1, OldType
<1>7. CASE CannotRender
  <2>1. age' = [age EXCEPT !["outOfSync"] = Old["outOfSync"]]
    BY <1>7 DEF CannotRender
  <2> QED
    BY <1>4, <2>1, OldType
<1>8. CASE StartSync
  <2>1. age' = [age EXCEPT !["step"] = 0, !["finished"] = Old["finished"]]
    BY <1>8 DEF StartSync
  <2>2. DOMAIN age' = DOMAIN age /\ age'.pod = age.pod
    BY <1>1, <2>1
  <2>3. \A m \in DOMAIN Old : age'[m] = age[m] \/ age'[m] = 0 \/ age'[m] = Old[m]
    BY <1>1, <2>1
  <2> QED
    BY <1>2, <2>2, <2>3, AgeReset
<1>9. CASE CreateMigration
  <2>1. age' = [age EXCEPT !["step"] = 0]
    BY <1>9 DEF CreateMigration
  <2> QED
    BY <1>4, <2>1, OldType
<1>10. CASE Apply
  <2>1. age' = age \/ \E v \in {0, age["step"]} : age' = [age EXCEPT !["step"] = v]
    BY <1>10 DEF Apply
  <2> QED
    BY <1>3, <1>4, <2>1, OldType
<1>11. CASE SyncSucceeds
  <2>1. PICK v : /\ v \in {0, Old["outOfSync"], age["outOfSync"]}
                 /\ age' = [age EXCEPT !["finished"] = 0, !["outOfSync"] = v]
    BY <1>11 DEF SyncSucceeds
  <2>2. DOMAIN age' = DOMAIN age /\ age'.pod = age.pod
    BY <1>1, <2>1
  <2>3. \A m \in DOMAIN Old : age'[m] = age[m] \/ age'[m] = 0 \/ age'[m] = Old[m]
    BY <1>1, <2>1
  <2> QED
    BY <1>2, <2>2, <2>3, AgeReset
<1>12. CASE SyncFails
  <2>1. age' = [age EXCEPT !["finished"] = 0]
    BY <1>12 DEF SyncFails
  <2> QED
    BY <1>4, <2>1, OldType
<1>13. CASE Delete
  <2>1. age' = [age EXCEPT !["deleted"] = 0]
    BY <1>13 DEF Delete
  <2> QED
    BY <1>4, <2>1, OldType
<1>14. ASSUME NEW i \in Commit, NEW to \in PodState, PodMoves(i, to) PROVE AgesOK'
  <2> DEFINE turned == {pods[i], to} \cap {"ready", "unknown"} # {} \/ to = "starting"
             a == IF turned THEN 0 ELSE age.pod[i]
             u == IF Ready \subseteq {i} THEN 0 ELSE age["unavailable"]
             p == [age.pod EXCEPT ![i] = a]
  <2>1. age' = [age EXCEPT !["pod"] = p, !["unavailable"] = u]
    BY <1>14 DEF PodMoves
  <2>2. a \in 0 .. Old.unavailable
    BY <1>2, OldType
  <2>3. u = 0 \/ u = age["unavailable"]
    OBVIOUS
  <2> HIDE DEF a, u
  <2>4. p \in [Commit -> 0 .. Old.unavailable]
    BY <1>2, <2>2
  <2> HIDE DEF p
  <2>5. DOMAIN age' = DOMAIN age /\ age'.pod = p
    BY <1>1, <2>1, OldType
  <2>6. \A m \in DOMAIN Old : age'[m] = age[m] \/ age'[m] = 0 \/ age'[m] = Old[m]
    BY <1>1, <2>1, <2>3
  <2> QED
    BY <2>4, <2>5, <2>6, AgeReset
<1>15. CASE RolloutDone
  <2> DEFINE p == [i \in Commit |-> 0]
  <2>1. age' = [age EXCEPT !["pod"] = p]
    BY <1>15 DEF RolloutDone
  <2>2. p \in [Commit -> 0 .. Old.unavailable]
    BY OldType
  <2> HIDE DEF p
  <2>3. DOMAIN age' = DOMAIN age /\ age'.pod = p
    BY <1>1, <2>1
  <2>4. \A m \in DOMAIN Old : age'[m] = age[m]
    BY <1>1, <2>1
  <2> QED
    BY <2>2, <2>3, <2>4, AgeReset
<1>16. CASE UNCHANGED envVars \/ Expire \/ MigrationDeadline \/ RolloutDeadline \/ DeletionFails
  BY <1>3, <1>16 DEF envVars, Expire, MigrationDeadline, RolloutDeadline, DeletionFails
<1>17. ASSUME NEW r \in BOOLEAN, Edit(r) PROVE AgesOK'
  BY <1>3, <1>17 DEF Edit
<1>18. ASSUME NEW t \in Tag, Refuse(t) PROVE AgesOK'
  BY <1>3, <1>18 DEF Refuse
<1>19. ASSUME NEW to \in JobState, MigrationMoves(to) \/ BackUp(to) PROVE AgesOK'
  BY <1>3, <1>19 DEF MigrationMoves, BackUp
<1>20. CASE Tick
  BY <1>20, TickAges
<1> QED
  BY <1>5, <1>6, <1>7, <1>8, <1>9, <1>10, <1>11, <1>12, <1>13, <1>14, <1>15, <1>16, <1>17,
     <1>18, <1>19, <1>20 DEF EnvNext

-----------------------------------------------------------------------------
(* The invariant *)

LEMMA EnvInvStep == EnvInv /\ [EnvNext]_envVars => EnvInv'
<1> SUFFICES ASSUME EnvInv, [EnvNext]_envVars PROVE EnvInv'
  OBVIOUS
<1> USE DEF EnvInv
<1>1. CommitsOK'
  BY CommitsStep
<1>2. EventsOK'
  BY EventsStep
<1>3. AppOK'
  BY AppStep
<1>4. JobsOK'
  BY JobsStep
<1>5. RolloutOK'
  BY RolloutStep
<1>6. PodsOK'
  BY PodsStep
<1>7. AgesOK'
  BY AgesStep
<1>8. FaultsOK'
  <2>1. ASSUME NEW wrong \in BOOLEAN, Fault(wrong) PROVE FaultsOK'
    <3> DEFINE more == IF wrong THEN 1 ELSE 0
    <3>1. faults' = faults + more /\ faults' <= MaxFaults /\ more \in 0 .. 1
      BY <2>1 DEF Fault
    <3> HIDE DEF more
    <3> QED
      BY <3>1, Constants DEF FaultsOK
  <2>2. CASE faults' = faults
    BY <2>2 DEF FaultsOK
  <2> QED
    BY <2>1, <2>2, WhoChanges
<1> QED
  BY <1>1, <1>2, <1>3, <1>4, <1>5, <1>6, <1>7, <1>8

LEMMA EnvInvAlways == EnvSpec => []EnvInv
BY EnvInvInit, EnvInvStep, PTL DEF EnvSpec

-----------------------------------------------------------------------------
(* The Deploys *)

LEMMA AcceptedEvents ==
  ASSUME EventsOK, Accepted # {}
  PROVE  /\ DOMAIN events = 1 .. Len(events) /\ Len(events) \in Nat
         /\ Accepted \subseteq 1 .. Len(events)
         /\ Max(Accepted) \in Accepted
         /\ \A i \in Accepted : i <= Max(Accepted)
<1>1. DOMAIN events = 1 .. Len(events) /\ Len(events) \in Nat
  BY LenProperties DEF EventsOK
<1>2. Accepted \subseteq 1 .. Len(events)
  BY <1>1 DEF Accepted
<1>3. Accepted \in SUBSET Nat /\ \A i \in Accepted : i <= Len(events)
  BY <1>1, <1>2
<1> QED
  BY <1>1, <1>2, <1>3, MaxOf

LEMMA MaxUnique ==
  ASSUME NEW S, NEW m \in S, \A x \in S : x \in Nat /\ x <= m
  PROVE  Max(S) = m
<1>1. m \in Nat /\ S \in SUBSET Nat /\ S # {}
  OBVIOUS
<1> DEFINE x == Max(S)
<1>2. x \in S /\ m <= x
  BY <1>1, MaxOf
<1> HIDE DEF x
<1>3. x = m
  BY <1>1, <1>2
<1> QED
  BY <1>3 DEF x

(* No Event accounts for at most one Deploy. *)
LEMMA UntracedForm == UntracedDeploy = <<>> \/ \E d : UntracedDeploy = <<d>>
<1>1. ASSUME NEW tag, NEW hop, NEW why PROVE \E d : ByTag(tag, hop, why) = <<d>>
  BY DEF ByTag
<1>2. ASSUME NEW want PROVE PreviewDeploy(want) = <<>> \/ \E d : PreviewDeploy(want) = <<d>>
  BY <1>1 DEF PreviewDeploy
<1> QED
  BY <1>1, <1>2 DEF UntracedDeploy

(* The newest Deploy the gate accepted is the one under way as long as it is under way. *)
LEMMA TracedUnderWay ==
  ASSUME EventsOK, Accepted # {}, UnderWay(Traced(Max(Accepted)))
  PROVE  CurrentOf(Deploys) # 0
<1> DEFINE k == Len(events)
           m == Max(Accepted)
           traced == [i \in DOMAIN events |-> Traced(i)]
           S == {traced[i] : i \in 1 .. k}
           newest == IF Accepted = {} THEN {} ELSE {traced[m]}
           known(d) == \E n \in newest : UnderWay(n) \/ n.tag = d.tag
           found == IF \E i \in DOMAIN UntracedDeploy : known(UntracedDeploy[i]) THEN <<>>
                    ELSE UntracedDeploy
<1>1. /\ DOMAIN events = 1 .. k /\ k \in Nat /\ Accepted \subseteq 1 .. k
      /\ m \in Accepted /\ \A i \in Accepted : i <= m
  BY AcceptedEvents
<1>2. Deploys = traced \o found
  BY DEF Deploys
<1> HIDE DEF m
<1>3. traced[m] = Traced(m)
  BY <1>1
<1>4. UnderWay(traced[m])
  BY <1>3 DEF m
<1>5. \A i \in 1 .. k : traced[i].refused = (events[i].commit = 0)
  BY <1>1 DEF Traced
<1>6. traced \in [1 .. k -> S]
  BY <1>1
<1>7. \A d : known(d)
  BY <1>4
<1> HIDE DEF traced, known
<1>8. found = <<>>
  BY <1>7, UntracedForm
<1> HIDE DEF found
<1>9. traced \in Seq(S)
  BY <1>1, <1>6, SeqDef
<1> HIDE DEF S
<1>10. Len(traced) = k /\ DOMAIN traced = 1 .. k
  BY <1>1, <1>6, <1>9, LenProperties
<1>11. traced \o <<>> = traced
  BY <1>9, ConcatEmptySeq
<1>12. Deploys = traced
  BY <1>2, <1>8, <1>11
<1>13. {i \in DOMAIN traced : ~traced[i].refused} = Accepted
  BY <1>1, <1>5, <1>10 DEF Accepted
<1>14. CurrentOf(traced) = m
  BY <1>4, <1>13 DEF CurrentOf, m
<1>15. m # 0
  BY <1>1
<1> QED
  BY <1>12, <1>14, <1>15

(* Without Events, the one Deploy found by its tag. *)
LEMMA UntracedUnderWay ==
  ASSUME events = <<>>, NEW d, UntracedDeploy = <<d>>, UnderWay(d)
  PROVE  CurrentOf(Deploys) # 0
<1> DEFINE traced == [i \in DOMAIN events |-> Traced(i)]
<1>1. Accepted = {} /\ DOMAIN events = {}
  BY DEF Accepted
<1>2. traced = <<>>
  BY <1>1
<1> HIDE DEF traced
<1>3. Deploys = traced \o UntracedDeploy
  BY <1>1 DEF Deploys, traced
<1> DEFINE s == <<d>>
<1>4. Deploys = s
  BY <1>2, <1>3
<1>5. DOMAIN s = {1} /\ s[1] = d
  OBVIOUS
<1> HIDE DEF s
<1>6. {i \in DOMAIN s : ~s[i].refused} = {1}
  BY <1>5 DEF UnderWay
<1>7. Max({1}) = 1
  BY MaxUnique
<1>8. CurrentOf(s) = 1
  BY <1>5, <1>6, <1>7 DEF CurrentOf
<1> QED
  BY <1>4, <1>8

-----------------------------------------------------------------------------
(* The Activity *)

LEMMA NoReason ==
  ASSUME NEW a, NEW b, NEW c, NEW d
  PROVE  FirstReason(<<a, b, c, d>>) = "" => a = ""
<1> DEFINE r == <<a, b, c, d>>
<1>1. DOMAIN r = 1 .. 4
  <2>1. r \in Seq({a, b, c, d}) /\ Len(r) = 4
    OBVIOUS
  <2> HIDE DEF r
  <2> QED
    BY <2>1, LenProperties
<1>5. r[1] = a
  OBVIOUS
<1> SUFFICES FirstReason(r) = "" => a = ""
  OBVIOUS
<1> HIDE DEF r
<1> DEFINE said == {i \in DOMAIN r : r[i] # ""}
<1>2. said \in SUBSET Nat
  <2>1. DOMAIN r \subseteq Nat
    BY <1>1
  <2> QED
    BY <2>1
<1>3. CASE said # {}
  <2>1. Min(said) \in said
    BY <1>2, <1>3, MinOf
  <2>2. r[Min(said)] # ""
    BY <2>1
  <2>3. FirstReason(r) = r[Min(said)]
    BY <1>3 DEF FirstReason
  <2> QED
    BY <2>2, <2>3
<1>4. CASE said = {}
  <2>1. 1 \in DOMAIN r
    <3>1. 1 \in 1 .. 4
      OBVIOUS
    <3> QED
      BY <1>1, <3>1
  <2> QED
    BY <1>4, <1>5, <2>1
<1> QED
  BY <1>3, <1>4

(* What it takes to say of an Environment that nothing changes. *)
LEMMA Quiet ==
  ASSUME Activity = NoActivity
  PROVE  /\ Alive /\ Served /\ CurrentOf(Deploys) = 0 /\ ~Changing
         /\ SyncStuck = ""
<1> DEFINE deploys == Deploys
           current == CurrentOf(deploys)
           stuck == IF current = 0 THEN ChangeStuck ELSE deploys[current].place.reason
           soon == current # 0 \/ deployment.template # 0 \/ age.created < UnreleasedAfter
           state ==
             CASE ~Served /\ soon -> "Arriving"
               [] ~Served /\ ~soon -> "Unreleased"
               [] Served /\ current # 0 -> "Deploying"
               [] Served /\ current = 0 -> IF Changing \/ stuck # "" THEN "Updating" ELSE "none"
           arriving ==
             IF state = "Arriving" /\ (current # 0 \/ deployment.template # 0)
             THEN ArrivingStuck(current # 0 /\ deploys[current].traced) ELSE ""
<1>1. Activity =
        CASE app.deleted -> [state |-> "Leaving", reason |-> LeavingStuck, deploy |-> 0]
          [] ~app.deleted /\ state = "none" -> NoActivity
          [] OTHER -> [state |-> state, reason |-> FirstReason(<<stuck, arriving>>), deploy |-> current]
  BY DEF Activity
<1>2. state = "none" => Served /\ current = 0 /\ ~Changing /\ stuck = ""
  <2> HIDE DEF current, stuck, soon
  <2> QED
    OBVIOUS
<1>3. current = 0 => stuck = ChangeStuck
  OBVIOUS
<1> HIDE DEF state, arriving, stuck, current
<1>4. NoActivity.state = "none"
  BY DEF NoActivity
<1>5. ~app.deleted /\ state = "none"
  BY <1>1, <1>4
<1>6. ChangeStuck = ""
  BY <1>2, <1>3, <1>5
<1>7. SyncStuck = ""
  BY <1>6, NoReason DEF ChangeStuck
<1> QED
  BY <1>2, <1>5, <1>7 DEF Alive, current

(* Since when the last commit's tag has been asked for. *)
LEMMA SinceTagIs ==
  ASSUME CommitsOK
  PROVE  /\ SinceTag \in 1 .. Len(commits)
         /\ \A j \in SinceTag .. Len(commits) : commits[j].tag = Last(commits).tag
<1> DEFINE n == Len(commits)
           S == {i \in DOMAIN commits : \A j \in i .. n : commits[j].tag = Last(commits).tag}
<1>1. n \in Nat /\ n \in 1 .. n /\ Last(commits) = commits[n]
  BY LastCommit
<1>2. DOMAIN commits = 1 .. n
  BY LenProperties DEF CommitsOK
<1> HIDE DEF n
<1>3. n .. n = {n}
  BY <1>1
<1>4. n \in S /\ S \in SUBSET Nat
  BY <1>1, <1>2, <1>3
<1>5. Min(S) \in S
  BY <1>4, MinOf
<1> QED
  BY <1>2, <1>5 DEF SinceTag, n

(* Quiet and alive, the Environment runs what ArgoCD last looked at. *)
LEMMA QuietRuns ==
  ASSUME EnvInv, Activity = NoActivity
  PROVE  /\ app.revision \in 1 .. Len(commits)
         /\ app.on = app.revision /\ app.phase = "Succeeded"
         /\ Running = commits[app.revision].tag /\ Running # NoTag
<1> USE DEF EnvInv
<1>1. Alive /\ Served /\ ~Changing /\ SyncStuck = ""
  BY Quiet
<1>2. app.phase # "Failed" /\ app.error # "ComparisonError"
  BY <1>1 DEF SyncStuck, OperationFailed
<1>3. app.sync # "OutOfSync" /\ app.phase # "Running"
  BY <1>1 DEF Changing, OperationRunning
<1>4. deployment.template # 0
  BY <1>1 DEF Served
<1>5. app.sync # "Unknown"
  BY <1>1, <1>2, <1>4 DEF RolloutOK
<1>6. app.sync \in {"Unknown", "Synced", "OutOfSync"} /\ app.phase \in {"none", "Running", "Succeeded", "Failed"}
  BY DEF AppOK, AppType
<1>7. app.sync = "Synced"
  BY <1>3, <1>5, <1>6
<1>8. app.revision \in app.history
  BY <1>7 DEF AppOK
<1>9. app.phase = "Succeeded"
  BY <1>2, <1>3, <1>6, <1>8 DEF AppOK
<1>10. app.revision <= app.on
  BY <1>8 DEF AppOK
<1>11. app.on = app.revision
  BY <1>10, AppNumbers
<1>12. app.revision \in 1 .. Len(commits)
  BY <1>8, AppNumbers
<1>13. Running # NoTag
  BY <1>4 DEF RolloutOK
<1>14. commits[app.on].tag # NoTag
  <2> DEFINE t == deployment.template
             o == app.on
  <2>1. t \in 1 .. Len(commits)
    BY <1>4, LastCommit DEF RolloutOK
  <2>2. commits[t].tag # NoTag
    BY <1>4, <1>13 DEF Running
  <2>3. o \in 1 .. Len(commits) /\ t <= o
    BY <1>11, <1>12 DEF RolloutOK
  <2> HIDE DEF t, o
  <2>4. t < o \/ t = o
    BY <2>1, <2>3
  <2>5. commits[o].tag # NoTag
    BY <2>1, <2>2, <2>3, <2>4 DEF CommitsOK
  <2> QED
    BY <2>5 DEF o
<1>15. Running = commits[app.on].tag
  BY <1>9, <1>14 DEF RolloutOK, Runs
<1> QED
  BY <1>9, <1>11, <1>12, <1>13, <1>15

(* An Environment of which nothing is said to change runs the tag its      *)
(* last commit asks for (condition.go, deploy.go): whatever ArgoCD,        *)
(* Kubernetes and the gate did before, the Platform does not fall silent   *)
(* over a change that did not land, unless the gate's Event of it is gone  *)
(* and ArgoCD has not looked at the Platform repository since.             *)
THEOREM QuietLands == EnvSpec => []QuietMeansLanded
<1>1. EnvInv => QuietMeansLanded
  <2> SUFFICES ASSUME EnvInv, Activity = NoActivity, Running # Last(commits).tag
               PROVE  /\ ~app.preview /\ app.revision < SinceTag
                      /\ ~\E i \in Accepted : events[i].commit >= SinceTag
    BY EnvInvType DEF QuietMeansLanded
  <2> USE DEF EnvInv
  <2> DEFINE n == Len(commits)
             r == app.revision
             tag == Last(commits).tag
  <2>1. /\ r \in 1 .. n /\ app.on = r /\ app.phase = "Succeeded"
        /\ Running = commits[r].tag /\ Running # NoTag
    BY QuietRuns
  <2>2. n \in Nat /\ n \in 1 .. n /\ tag = commits[n].tag
    BY LastCommit
  <2>3. SinceTag \in 1 .. n /\ \A j \in SinceTag .. n : commits[j].tag = tag
    BY SinceTagIs
  <2>4. CurrentOf(Deploys) = 0
    BY Quiet
  <2> HIDE DEF n, tag
  <2>5. Running # tag
    BY DEF tag
  <2>6. r < SinceTag
    <3>1. CASE r >= SinceTag
      <4>1. r \in SinceTag .. n
        BY <2>1, <2>3, <3>1
      <4> QED
        BY <2>1, <2>3, <2>5, <4>1
    <3> HIDE DEF r
    <3> QED
      BY <2>1, <2>3, <3>1
  <2>7. tag # NoTag
    <3> HIDE DEF r
    <3>1. r < n \/ r = n
      BY <2>1, <2>2
    <3>2. commits[n].tag # NoTag
      BY <2>1, <2>2, <3>1 DEF CommitsOK, n
    <3> QED
      BY <2>2, <3>2
  <2>8. ~app.preview
    <3> SUFFICES ASSUME app.preview PROVE FALSE
      OBVIOUS
    <3>1. events = <<>>
      BY DEF EventsOK
    <3>2. UntracedDeploy = PreviewDeploy(tag)
      BY <2>7 DEF UntracedDeploy, tag
    <3>3. \E why : PreviewDeploy(tag) = ByTag(tag, "Applying", why)
      BY <2>5 DEF PreviewDeploy
    <3>4. PICK why : UntracedDeploy = ByTag(tag, "Applying", why)
      BY <3>2, <3>3
    <3> DEFINE d == [tag |-> tag, refused |-> FALSE, commit |-> 0, traced |-> FALSE,
                     place |-> Under("Applying", why)]
    <3>5. UntracedDeploy = <<d>>
      BY <3>4 DEF ByTag
    <3>6. UnderWay(d)
      BY DEF UnderWay, Under, NoTag
    <3> HIDE DEF d
    <3> QED
      BY <2>4, <3>1, <3>5, <3>6, UntracedUnderWay
  <2>9. ASSUME NEW i \in Accepted, events[i].commit >= SinceTag PROVE FALSE
    <3> DEFINE m == Max(Accepted)
               c == events[m].commit
               was == events[i].commit
    <3>1. m \in Accepted /\ i <= m /\ i \in 1 .. Len(events) /\ m \in 1 .. Len(events)
      BY <2>9, AcceptedEvents
    <3>2. c # 0 /\ was # 0
      BY <3>1 DEF Accepted
    <3>3. c \in Nat /\ c <= n /\ was \in Nat
      BY <3>1, EventCommits DEF n
    <3> HIDE DEF m
    <3>4. was <= c
      <4>1. i < m \/ i = m
        BY <3>1
      <4>2. i < m => was < c
        BY <3>1, <3>2 DEF EventsOK
      <4> HIDE DEF was, c
      <4>3. CASE i = m
        BY <3>3, <4>3 DEF was, c
      <4> QED
        BY <3>3, <4>1, <4>2, <4>3
    <3>5. was >= SinceTag
      BY <2>9
    <3> HIDE DEF was
    <3>6. events[m].tag = commits[c].tag
      BY <3>1, <3>2 DEF EventsOK
    <3> HIDE DEF c
    <3>7. c \in SinceTag .. n
      BY <2>2, <2>3, <3>3, <3>4, <3>5
    <3>8. events[m].tag = tag
      BY <2>3, <3>6, <3>7
    <3> HIDE DEF r
    <3>9. c > r /\ c # r
      BY <2>1, <2>3, <2>6, <3>7
    <3>10. \A h \in app.history : h <= r
      BY <2>1 DEF AppOK
    <3>17. r \in Nat /\ c \in Nat /\ c > r
      BY <2>1, <2>2, <3>3, <3>9
    <3>18. ~(c <= r)
      BY <3>17
    <3>11. c \notin app.history
      BY <3>10, <3>18
    <3>12. ~OperationOn(c)
      BY <2>1, <3>9 DEF OperationOn
    <3>13. ~CommitSynced(c)
      BY <3>9, <3>11, <3>12 DEF CommitSynced, r
    <3>14. \E hop \in {"Applying", "WaitingForArgoCD", "Accepted"} : \E why :
             PlaceDeploy(tag, c) = Under(hop, why)
      BY <2>5, <3>12, <3>13 DEF PlaceDeploy
    <3>15. Traced(m).place = PlaceDeploy(tag, c) /\ Traced(m).refused = FALSE
      BY <3>2, <3>8 DEF Traced, m, c
    <3>16. UnderWay(Traced(m))
      BY <3>14, <3>15 DEF UnderWay, Under
    <3> QED
      BY <2>4, <3>1, <3>16, TracedUnderWay DEF m
  <2> QED
    BY <2>6, <2>8, <2>9
<1> QED
  BY <1>1, EnvInvAlways, PTL

-----------------------------------------------------------------------------
(* The hops of the newest Deploy *)

LEMMA HopNumbers ==
  /\ HopNumber("Accepted") = 1 /\ HopNumber("WaitingForArgoCD") = 2 /\ HopNumber("Applying") = 3
  /\ HopNumber("RollingOut") = 4 /\ HopNumber("Serving") = 5
<1>1. DOMAIN Hops = 1 .. 5
  BY DEF Hops
<1>2. /\ Hops[1] = "Accepted" /\ Hops[2] = "WaitingForArgoCD" /\ Hops[3] = "Applying"
      /\ Hops[4] = "RollingOut" /\ Hops[5] = "Serving"
  BY DEF Hops
<1>3. \A i \in DOMAIN Hops : i = 1 \/ i = 2 \/ i = 3 \/ i = 4 \/ i = 5
  BY <1>1
<1>4. 1 \in DOMAIN Hops /\ 2 \in DOMAIN Hops /\ 3 \in DOMAIN Hops /\ 4 \in DOMAIN Hops /\ 5 \in DOMAIN Hops
  BY <1>1
<1>5. ASSUME NEW hop, hop # "", NEW k \in DOMAIN Hops, \A i \in DOMAIN Hops : Hops[i] = hop <=> i = k
      PROVE  HopNumber(hop) = k
  BY <1>5 DEF HopNumber
<1>6. HopNumber("Accepted") = 1
  <2>1. \A i \in DOMAIN Hops : Hops[i] = "Accepted" <=> i = 1
    BY <1>2, <1>3
  <2> QED
    BY <1>4, <1>5, <2>1
<1>7. HopNumber("WaitingForArgoCD") = 2
  <2>1. \A i \in DOMAIN Hops : Hops[i] = "WaitingForArgoCD" <=> i = 2
    BY <1>2, <1>3
  <2> QED
    BY <1>4, <1>5, <2>1
<1>8. HopNumber("Applying") = 3
  <2>1. \A i \in DOMAIN Hops : Hops[i] = "Applying" <=> i = 3
    BY <1>2, <1>3
  <2> QED
    BY <1>4, <1>5, <2>1
<1>9. HopNumber("RollingOut") = 4
  <2>1. \A i \in DOMAIN Hops : Hops[i] = "RollingOut" <=> i = 4
    BY <1>2, <1>3
  <2> QED
    BY <1>4, <1>5, <2>1
<1>10. HopNumber("Serving") = 5
  <2>1. \A i \in DOMAIN Hops : Hops[i] = "Serving" <=> i = 5
    BY <1>2, <1>3
  <2> QED
    BY <1>4, <1>5, <2>1
<1> QED
  BY <1>6, <1>7, <1>8, <1>9, <1>10

(* Where the newest Deploy is when its tag is new and nothing was          *)
(* committed since: ArgoCD's last operation alone tells.                   *)
HopWhere ==
  EnvInv /\ Newest # 0 /\ Newest = Len(commits) /\ IsNewTag(Newest) =>
    /\ ~OperationOn(Newest) /\ ArgoCDLooked(Newest) => NewestHop = 2
    /\ ~OperationOn(Newest) /\ ~ArgoCDLooked(Newest) => NewestHop = 1
    /\ OperationOn(Newest) /\ app.phase = "Succeeded" => NewestHop \in {4, 5}
    /\ OperationOn(Newest) /\ app.phase # "Succeeded" => NewestHop = 3

LEMMA WhereTheNewestIs == HopWhere
<1> SUFFICES ASSUME EnvInv, Newest # 0, Newest = Len(commits), IsNewTag(Newest)
             PROVE  /\ ~OperationOn(Newest) /\ ArgoCDLooked(Newest) => NewestHop = 2
                    /\ ~OperationOn(Newest) /\ ~ArgoCDLooked(Newest) => NewestHop = 1
                    /\ OperationOn(Newest) /\ app.phase = "Succeeded" => NewestHop \in {4, 5}
                    /\ OperationOn(Newest) /\ app.phase # "Succeeded" => NewestHop = 3
  BY DEF HopWhere
<1> USE DEF EnvInv
<1> DEFINE n == Len(commits)
           m == Max(Accepted)
           tag == events[m].tag
<1>1. Accepted # {} /\ events[m].commit = n
  BY DEF Newest
<1>2. m \in Accepted /\ m \in 1 .. Len(events)
  BY <1>1, AcceptedEvents
<1>3. n # 0 /\ n \in Nat /\ n \in 1 .. n
  BY LastCommit
<1>4. commits[n].tag = tag
  BY <1>1, <1>2, <1>3 DEF EventsOK
<1>5. tag # NoTag
  <2>1. events[m] \in EventType
    BY <1>2, EventCommits
  <2> QED
    BY <2>1, Constants DEF EventType, Tag, NoTag
<1>6. \A i \in 1 .. n : commits[i].tag = tag => i = n
  <2>1. \A i \in 1 .. n - 1 : commits[i].tag # tag
    BY <1>4 DEF IsNewTag
  <2>2. \A i \in 1 .. n : i \in 1 .. n - 1 \/ i = n
    BY <1>3
  <2> QED
    BY <2>1, <2>2
<1>7. NewestHop = HopNumber(PlaceDeploy(tag, n).hop)
  BY <1>1, <1>3 DEF NewestHop, Traced
<1>8. app.on \in Nat /\ app.on <= n
  <2> DEFINE o == app.on
             r == app.revision
  <2>1. o \in Nat /\ r \in Nat /\ o <= r /\ r <= n
    BY AppNumbers
  <2> HIDE DEF o, r
  <2>2. o <= n
    BY <1>3, <2>1
  <2> QED
    BY <2>1, <2>2 DEF o
<1> HIDE DEF n, m, tag
<1>9. \A i \in 1 .. app.on : i = n => app.on = n
  BY <1>3, <1>8
(* Before an operation on it, nothing runs or migrates to the new tag. *)
<1>10. ASSUME app.on # n PROVE Running # tag /\ ~MigrationFor(tag) /\ ~CommitSynced(n)
  <2>1. Running # tag
    <3>1. CASE deployment.template = 0
      BY <1>5, <3>1 DEF Running
    <3>2. CASE deployment.template # 0
      <4>1. deployment.template \in 1 .. n /\ deployment.template <= app.on
        BY <1>3, <3>2 DEF RolloutOK, n
      <4>2. deployment.template \in 1 .. app.on
        BY <1>8, <4>1
      <4>3. deployment.template # n
        BY <1>9, <1>10, <4>2
      <4> QED
        BY <1>6, <3>2, <4>1, <4>3 DEF Running
    <3> QED
      BY <3>1, <3>2
  <2>2. migration.tag # tag
    <3> SUFFICES ASSUME migration.tag = tag PROVE FALSE
      OBVIOUS
    <3>1. PICK c \in 1 .. app.on : commits[c].tag = tag
      BY <1>5 DEF JobsOK
    <3>2. c \in 1 .. n
      BY <1>3, <1>8
    <3> QED
      BY <1>6, <1>9, <1>10, <3>1, <3>2
  <2>3. n \notin app.history
    <3> SUFFICES ASSUME n \in app.history PROVE FALSE
      OBVIOUS
    <3>1. n <= app.on
      BY DEF AppOK
    <3> QED
      BY <1>3, <1>8, <1>10, <3>1
  <2>4. ~CommitSynced(n)
    <3>1. app.sync = "Synced" => app.revision # n
      BY <2>3 DEF AppOK
    <3> QED
      BY <1>10, <2>3, <3>1 DEF CommitSynced, OperationOn
  <2> QED
    BY <2>1, <2>2, <2>4 DEF MigrationFor
<1>11. ASSUME app.on # n, ArgoCDLooked(n) PROVE NewestHop = 2
  <2>1. \E why : PlaceDeploy(tag, n) = Under("WaitingForArgoCD", why)
    BY <1>10, <1>11 DEF PlaceDeploy, OperationOn
  <2>2. PlaceDeploy(tag, n).hop = "WaitingForArgoCD"
    BY <2>1 DEF Under
  <2> QED
    BY <1>7, <2>2, HopNumbers
<1>12. ASSUME app.on # n, ~ArgoCDLooked(n) PROVE NewestHop = 1
  <2>1. \E why : PlaceDeploy(tag, n) = Under("Accepted", why)
    BY <1>10, <1>12 DEF PlaceDeploy, OperationOn
  <2>2. PlaceDeploy(tag, n).hop = "Accepted"
    BY <2>1 DEF Under
  <2> QED
    BY <1>7, <2>2, HopNumbers
<1>13. ASSUME app.on = n, app.phase = "Succeeded" PROVE NewestHop \in {4, 5}
  <2>1. Runs(n)
    BY <1>13 DEF RolloutOK
  <2>2. Running = tag
    BY <1>4, <1>5, <2>1 DEF Runs
  <2>3. CommitSynced(n) /\ ~OperationRunning /\ ~OperationFailed
    BY <1>13 DEF CommitSynced, OperationOn, OperationRunning, OperationFailed
  <2>4. PlaceDeploy(tag, n) = Serves \/ \E why : PlaceDeploy(tag, n) = Under("RollingOut", why)
    BY <2>2, <2>3 DEF PlaceDeploy
  <2>5. PlaceDeploy(tag, n).hop = "Serving" \/ PlaceDeploy(tag, n).hop = "RollingOut"
    <3>1. Serves.hop = "Serving" /\ \A why : Under("RollingOut", why).hop = "RollingOut"
      BY DEF Under, Serves
    <3> QED
      BY <2>4, <3>1
  <2>6. NewestHop = 4 \/ NewestHop = 5
    BY <1>7, <2>5, HopNumbers
  <2> QED
    BY <2>6
<1>14. ASSUME app.on = n, app.phase # "Succeeded" PROVE NewestHop = 3
  <2>1. app.phase \in {"none", "Running", "Succeeded", "Failed"}
    BY DEF AppOK, AppType
  <2>2. app.phase # "none"
    BY <1>3, <1>14 DEF AppOK
  <2>3. OperationRunning \/ OperationFailed
    BY <1>14, <2>1, <2>2 DEF OperationRunning, OperationFailed
  <2>4. \E why : PlaceDeploy(tag, n) = Under("Applying", why)
    BY <1>14, <2>3 DEF PlaceDeploy, OperationOn
  <2>5. PlaceDeploy(tag, n).hop = "Applying"
    BY <2>4 DEF Under
  <2> QED
    BY <1>7, <2>5, HopNumbers
<1> QED
  BY <1>11, <1>12, <1>13, <1>14 DEF OperationOn, n

(* What ArgoCD has looked at and what it has synced do not go back without a commit. *)
LEMMA ArgoCDMovesForward ==
  ASSUME EnvInv, [EnvNext]_envVars, commits' = commits
  PROVE  /\ app.looked => app'.looked
         /\ app'.revision = app.revision \/ app'.looked
         /\ app.on <= app'.on
         /\ app.phase = "Succeeded" /\ app.on = Len(commits) => app'.phase = "Succeeded"
<1> USE DEF EnvInv
<1>1. app.on <= app'.on
  BY AppStep
<1>2. CASE app' = app
  BY <1>1, <1>2
<1>3. ASSUME NEW t \in Tag, NEW recorded \in BOOLEAN, Deploy(t, recorded) PROVE FALSE
  <2>1. Len(commits') = Len(commits) + 1
    BY <1>3, DeployCommits
  <2> QED
    BY <2>1, LastCommit
<1>4. CASE Look
  BY <1>1, <1>4, LookFields
<1>5. CASE CannotRender
  BY <1>1, <1>5, CannotRenderFields
<1>6. CASE StartSync
  <2>1. /\ ~app.deleted /\ app.sync = "OutOfSync"
        /\ app'.on = app.revision /\ app'.revision = app.revision /\ app'.looked = app.looked
    BY <1>6, StartSyncFields
  <2>2. ASSUME app.phase = "Succeeded", app.on = Len(commits) PROVE FALSE
    <3>1. app.on \in app.history /\ app.revision \notin app.history
      BY <2>1, <2>2 DEF AppOK, Alive
    <3>2. app.on = app.revision
      BY <2>2, AppNumbers, LastCommit
    <3> QED
      BY <3>1, <3>2
  <2> QED
    BY <1>1, <2>1, <2>2
<1>7. CASE CreateMigration \/ Apply
  BY <1>1, <1>7, OperationFields DEF AppSame
<1>8. CASE SyncSucceeds
  BY <1>1, <1>8, SyncSucceedsFields
<1>9. CASE SyncFails
  BY <1>1, <1>9, SyncFailsFields
<1>10. CASE Delete \/ DeletionFails
  BY <1>1, <1>10, DeletionFields
<1> QED
  BY <1>2, <1>3, <1>4, <1>5, <1>6, <1>7, <1>8, <1>9, <1>10, WhoChanges

(* A Deploy of a tag the Environment has not had, the last thing asked of  *)
(* it, does not go back a hop before it serves (deploy.go): not when an    *)
(* operation fails and starts again, not when ArgoCD cannot render, not    *)
(* when an older Event expires.                                            *)
THEOREM HopsDoNotGoBack == EnvSpec => HopsMoveForward
<1> DEFINE Forward ==
      Newest # 0 /\ Newest' = Newest /\ Newest = Len(commits) /\ commits' = commits
      /\ IsNewTag(Newest) /\ NewestHop < 5 => NewestHop' >= NewestHop
<1>1. EnvInv /\ [EnvNext]_envVars => Forward
  <2> SUFFICES ASSUME EnvInv, [EnvNext]_envVars, Newest # 0, Newest' = Newest, Newest = Len(commits),
                      commits' = commits, IsNewTag(Newest), NewestHop < 5
               PROVE  NewestHop' >= NewestHop
    OBVIOUS
  <2> DEFINE n == Len(commits)
             h == NewestHop
             k == NewestHop'
  <2>1. EnvInv'
    BY EnvInvStep
  <2>2. HopWhere
    BY WhereTheNewestIs
  <2>3. HopWhere'
    BY WhereTheNewestIs, PTL
  <2>4. IsNewTag(Newest)'
    BY DEF IsNewTag
  <2>5. /\ app.on # n /\ ArgoCDLooked(n) => h = 2
        /\ app.on # n /\ ~ArgoCDLooked(n) => h = 1
        /\ app.on = n /\ app.phase = "Succeeded" => h \in {4, 5}
        /\ app.on = n /\ app.phase # "Succeeded" => h = 3
    BY <2>2 DEF HopWhere, OperationOn
  <2>6. /\ app'.on # n /\ (app'.revision = n \/ app'.looked) => k = 2
        /\ app'.on # n /\ ~(app'.revision = n \/ app'.looked) => k = 1
        /\ app'.on = n /\ app'.phase = "Succeeded" => k \in {4, 5}
        /\ app'.on = n /\ app'.phase # "Succeeded" => k = 3
    BY <2>1, <2>3, <2>4 DEF HopWhere, OperationOn, ArgoCDLooked
  <2>7. /\ app.looked => app'.looked
        /\ app'.revision = app.revision \/ app'.looked
        /\ app.on <= app'.on
        /\ app.phase = "Succeeded" /\ app.on = n => app'.phase = "Succeeded"
    BY ArgoCDMovesForward
  <2>8. app.on \in Nat /\ app.on <= n /\ app'.on \in Nat /\ app'.on <= n
    <3>1. \A o, r \in Nat : o <= r /\ r <= n => o <= n
      BY LastCommit DEF EnvInv
    <3>2. app.on \in Nat /\ app.on <= n
      BY <3>1, AppNumbers DEF EnvInv
    <3>3. app' \in AppType(n)
      BY <2>1 DEF EnvInv, AppOK
    <3>4. app'.on \in 0 .. n
      BY <3>3 DEF AppType
    <3>5. app'.on \in Nat /\ app'.on <= n
      BY <3>4, LastCommit DEF EnvInv
    <3> QED
      BY <3>2, <3>5
  <2>9. app.on = n => app'.on = n
    <3> DEFINE o == app.on
               p == app'.on
    <3>1. o \in Nat /\ o <= n /\ p \in Nat /\ p <= n /\ o <= p /\ n \in Nat
      BY <2>7, <2>8, LastCommit DEF EnvInv
    <3> HIDE DEF o, p, n
    <3>2. o = n => p = n
      BY <3>1
    <3> QED
      BY <3>2 DEF o, p
  <2>14. app'.on # n \/ app'.on = n
    OBVIOUS
  <2> HIDE DEF h, k, n
  <2>10. k \in 1 .. 5
    <3>1. k = 1 \/ k = 2 \/ k = 3 \/ k \in {4, 5}
      BY <2>6
    <3> QED
      BY <3>1
  <2>11. CASE app.on # n
    <3>1. CASE ArgoCDLooked(n)
      <4>1. h = 2
        BY <2>5, <2>11, <3>1
      <4>2. app'.revision = n \/ app'.looked
        BY <2>7, <3>1 DEF ArgoCDLooked
      <4>3. k # 1
        <5>1. k = 2 \/ k = 3 \/ k \in {4, 5}
          BY <2>6, <4>2
        <5> QED
          BY <5>1
      <4> QED
        BY <2>10, <4>1, <4>3 DEF h, k
    <3>2. CASE ~ArgoCDLooked(n)
      <4>1. h = 1
        BY <2>5, <2>11, <3>2
      <4> QED
        BY <2>10, <4>1 DEF h, k
    <3> QED
      BY <3>1, <3>2
  <2>12. CASE app.on = n /\ app.phase = "Succeeded"
    <3>1. k \in {4, 5}
      BY <2>6, <2>7, <2>9, <2>12
    <3>2. h \in {4, 5}
      BY <2>5, <2>12
    <3>3. h < 5
      BY DEF h
    <3>4. k >= h
      BY <3>1, <3>2, <3>3
    <3> QED
      BY <3>4 DEF h, k
  <2>13. CASE app.on = n /\ app.phase # "Succeeded"
    <3>1. h = 3
      BY <2>5, <2>13
    <3>2. k = 3 \/ k \in {4, 5}
      BY <2>6, <2>9, <2>13
    <3>3. k >= h
      BY <3>1, <3>2
    <3> QED
      BY <3>3 DEF h, k
  <2> QED
    BY <2>11, <2>12, <2>13
<1> QED
  BY <1>1, EnvInvAlways, PTL DEF EnvSpec, HopsMoveForward
=============================================================================
