----------------------------- MODULE DeployGate -----------------------------
(***************************************************************************)
(* The Deploy gate (internal/deploygate): the HTTP service through which   *)
(* the CI of an Application repository deploys.                            *)
(*                                                                         *)
(* Each call is one handler.  It checks the caller's token, queues on      *)
(* writeMu, mints an installation token, and then is a Writer of the       *)
(* Platform repository like any developer's CLI, with two more checks on   *)
(* every clone: the caller owns the Application (authorize) and the image  *)
(* exists (checkImage).  It asks ArgoCD to refresh what it committed,      *)
(* answers, and records an Event in the background.                        *)
(*                                                                         *)
(* A Writer is one CI run deploying one tag: it calls the gate up to       *)
(* MaxTries times, again when the answer was 503 or was lost on the way    *)
(* (internal/cli/ci.go, callDeployGate).  Developers do not queue behind   *)
(* the gate's mutex: their commands reach main whole, as PlatformLedger    *)
(* has it and PlatformWriter implements it.                                *)
(***************************************************************************)
EXTENDS PlatformWriter

CONSTANT MaxTries   \* how often a CI run calls the gate

Nobody == "free"

ASSUME GateAssumption == MaxTries \in Nat \ {0} /\ Nobody \notin Writer

VARIABLES
  step,         \* where each CI run's call is
  asked,        \* the deploy it asks for
  tries,        \* how many calls it has made
  writeMu,      \* the handler that holds Gate.writeMu
  environment,  \* the Environment its handler has resolved, or ""
  status,       \* how the handler answers
  event,        \* the Event its last handler recorded
  images        \* the tags the registry has

(* History variables: the Environment in which the last handler's commit   *)
(* reached main, and whether an earlier try of the same CI run reached it. *)
VARIABLES landed, took

gateVars == <<step, asked, tries, writeMu, environment, status, event, images,
              landed, took>>
allVars == <<vars, gateVars>>

StepName == {"idle", "waiting", "locked", "writing", "responding", "answered"}

(* 200 with and without a commit, 401 to 422, 404, 503, and other errors. *)
Status == {"none", "ok", "unchanged", "refused", "missing", "unavailable", "error", "lost"}

NoEvent == [reason |-> "none"]
EventType ==
  {NoEvent} \cup [ reason : {"DeployAccepted", "DeployRefused"},
                   environment : Environment, commit : BOOLEAN ]

GateTypeOK ==
  /\ TypeOK
  /\ step \in [Writer -> StepName]
  /\ asked \in [Writer -> (Command \cap DeployCommand) \cup {NoCommand}]
  /\ tries \in [Writer -> 0..MaxTries]
  /\ writeMu \in Writer \cup {Nobody}
  /\ environment \in [Writer -> Environment \cup {""}]
  /\ status \in [Writer -> Status]
  /\ event \in [Writer -> EventType]
  /\ images \subseteq Tag
  /\ landed \in [Writer -> Environment \cup {""}]
  /\ took \in [Writer -> BOOLEAN]

GateInit ==
  /\ Init
  /\ step = [r \in Writer |-> "idle"]
  /\ asked = [r \in Writer |-> NoCommand]
  /\ tries = [r \in Writer |-> 0]
  /\ writeMu = Nobody
  /\ environment = [r \in Writer |-> ""]
  /\ status = [r \in Writer |-> "none"]
  /\ event = [r \in Writer |-> NoEvent]
  /\ images = {}
  /\ landed = [r \in Writer |-> ""]
  /\ took = [r \in Writer |-> FALSE]

Goes(r, s) == step' = [step EXCEPT ![r] = s]

-----------------------------------------------------------------------------
(* A call arrives and queues *)

(* The token's owner and ref.  Only the org's repositories deploy, from    *)
(* main, or promote, from a v* tag.                                        *)
Caller == [owner : Owner, ref : {"main", "tag", "other"}]
Admitted(caller) == caller.owner = OrgID /\ caller.ref # "other"

Receive(r, c, caller) ==
  /\ step[r] = "idle"
  /\ c.op = "deploy"
  /\ c.promote <=> caller.ref = "tag"
  /\ tries' = [tries EXCEPT ![r] = 1]
  /\ IF Admitted(caller)
     THEN /\ asked' = [asked EXCEPT ![r] = c]
          /\ Goes(r, "waiting")
          /\ UNCHANGED status
     ELSE /\ Goes(r, "responding")
          /\ status' = [status EXCEPT ![r] = "refused"]
          /\ UNCHANGED asked
  /\ UNCHANGED <<vars, writeMu, environment, event, images, landed, took>>

(* The token has expired since an earlier try (401), GitHub's keys cannot  *)
(* be fetched (503), or the App's credentials cannot be read.              *)
TurnedAway(r) ==
  /\ step[r] = "waiting"
  /\ \E s \in {"refused", "unavailable", "error"} : status' = [status EXCEPT ![r] = s]
  /\ Goes(r, "responding")
  /\ UNCHANGED <<vars, asked, tries, writeMu, environment, event, images, landed, took>>

(* Mutant of Lock: writeMu does not exclude. *)
LockAnyway(r) ==
  /\ step[r] = "waiting"
  /\ writeMu' = r
  /\ Goes(r, "locked")
  /\ UNCHANGED <<vars, asked, tries, environment, status, event, images, landed, took>>

Lock(r) ==
  /\ step[r] = "waiting"
  /\ writeMu = Nobody
  /\ writeMu' = r
  /\ Goes(r, "locked")
  /\ UNCHANGED <<vars, asked, tries, environment, status, event, images, landed, took>>

(* The installation token and the bot's identity, and the call of SetImageTag. *)
Mint(r) ==
  /\ step[r] = "locked"
  /\ Call(r, asked[r])
  /\ Goes(r, "writing")
  /\ UNCHANGED <<asked, tries, writeMu, environment, status, event, images, landed, took>>

(* Mutant of MintFails: returns with writeMu held. *)
MintFailsLocked(r) ==
  /\ step[r] = "locked"
  /\ status' = [status EXCEPT ![r] = "error"]
  /\ Goes(r, "responding")
  /\ UNCHANGED <<vars, asked, tries, writeMu, environment, event, images, landed, took>>

MintFails(r) ==
  /\ step[r] = "locked"
  /\ writeMu' = Nobody
  /\ status' = [status EXCEPT ![r] = "error"]
  /\ Goes(r, "responding")
  /\ UNCHANGED <<vars, asked, tries, environment, event, images, landed, took>>

-----------------------------------------------------------------------------
(* SetImageTag, with the gate's own checks on each clone *)

(* Mutant of Resolve: the first attempt's Environment is kept. *)
ResolveOnce(r) ==
  LET c == command[r]  t == clone[r] IN
  environment' = [environment EXCEPT
    ![r] = IF @ # "" THEN @ ELSE IF Authorized(c, t) THEN Target(c, t) ELSE ""]

(* Mutant of Resolve: without the callback's *environment = "". *)
ResolveWithoutForgetting(r) ==
  LET c == command[r]  t == clone[r] IN
  environment' = [environment EXCEPT ![r] = IF Authorized(c, t) THEN Target(c, t) ELSE @]

(* The Environment of this attempt: the callback first forgets the last    *)
(* attempt's, and sets it once authorize has decided.  Without a directory *)
(* the callback is not reached.                                            *)
Resolve(r) ==
  LET c == command[r]  t == clone[r] IN
  environment' = [environment EXCEPT
    ![r] = IF ~HasDirectory(t) THEN @ ELSE IF Authorized(c, t) THEN Target(c, t) ELSE ""]

(* checkImage runs once the caller is authorised, and not for the tag the  *)
(* Environment already runs.                                               *)
ChecksImage(c, t) ==
  HasDirectory(t) /\ Authorized(c, t) /\ t.env[Target(c, t)].tag # c.tag

(* Mutant of ImageExists: the registry is not asked. *)
ImageAssumed(c, t) == TRUE

ImageExists(c, t) == ChecksImage(c, t) => c.tag \in images

Answered(r, s) == status' = [status EXCEPT ![r] = s]

DeployCommits(r) ==
  /\ ImageExists(command[r], clone[r])
  /\ Commit(r)
  /\ Resolve(r)
  /\ UNCHANGED status

(* ErrApplicationMissing and ErrEnvironmentMissing: 404, and no Event. *)
Missing(c, t) ==
  \/ ~HasDirectory(t)
  \/ /\ BoundToCaller(c, t)
     /\ ~t.env[IF c.environment = "auto" THEN Target(c, t) ELSE c.environment].live

DeployFindsNothing(r) ==
  /\ ImageExists(command[r], clone[r])
  /\ FindsNothingToCommit(r)
  /\ Resolve(r)
  /\ Answered(r, IF Outcome(command[r], clone[r]) = "unchanged" THEN "unchanged"
                 ELSE IF Missing(command[r], clone[r]) THEN "missing" ELSE "refused")

(* 422: the registry does not have the tag. *)
ImageMissing(r) ==
  /\ phase[r] = "checking"
  /\ ~ImageExists(command[r], clone[r])
  /\ Answers(r, "refused")
  /\ NothingLands(r)
  /\ Resolve(r)
  /\ Answered(r, "refused")

(* 503: the registry cannot be asked. *)
ImageUnchecked(r) ==
  /\ phase[r] = "checking"
  /\ ChecksImage(command[r], clone[r])
  /\ Answers(r, "failed")
  /\ NothingLands(r)
  /\ Resolve(r)
  /\ Answered(r, "unavailable")

DeployLands(r) ==
  /\ \/ PushAccepted(r) /\ Answered(r, "ok")
     \/ LandsButFails(r) /\ Answered(r, "error")
  /\ landed' = [landed EXCEPT ![r] = Target(command[r], main)]
  /\ UNCHANGED environment

(* An error of the Writer's own: on the clone before the callback, or later. *)
DeployFails(r) ==
  /\ \/ PushRejectedAgain(r) /\ UNCHANGED environment
     \/ Fails(r) /\ IF phase[r] = "checking" THEN Resolve(r) ELSE UNCHANGED environment
  /\ Answered(r, "error")

SetImageTag(r) ==
  /\ \/ /\ \/ DeployCommits(r) \/ DeployFindsNothing(r)
           \/ ImageMissing(r) \/ ImageUnchecked(r) \/ DeployFails(r)
           \/ (Clone(r) \/ PushRejected(r)) /\ UNCHANGED <<environment, status>>
        /\ UNCHANGED landed
     \/ DeployLands(r)
  /\ UNCHANGED <<step, asked, tries, writeMu, event, images, took>>

-----------------------------------------------------------------------------
(* The answer *)

(* deploy returns, which releases writeMu. *)
Unlock(r) ==
  /\ step[r] = "writing"
  /\ Return(r)
  /\ writeMu' = Nobody
  /\ Goes(r, "responding")
  /\ UNCHANGED <<asked, tries, environment, status, event, images, landed, took>>

(* What the handler records: every 200, and every refusal once the         *)
(* Environment is known, a missing one aside.                              *)
EventOf(r) ==
  LET e == environment[r] IN
  CASE status[r] \in {"ok", "unchanged"} ->
         [reason |-> "DeployAccepted", environment |-> e, commit |-> status[r] = "ok"]
    [] status[r] \in {"refused", "unavailable", "error"} /\ e # "" ->
         [reason |-> "DeployRefused", environment |-> e, commit |-> FALSE]
    [] OTHER -> NoEvent

(* serveDeploy after deploy: the answer and the Event.  The refresh it asks *)
(* of ArgoCD, and ignores the failure of, leaves nothing behind here.       *)
Respond(r) ==
  /\ step[r] = "responding"
  /\ event' = [event EXCEPT ![r] = EventOf(r)]
  /\ Goes(r, "answered")
  /\ UNCHANGED <<vars, asked, tries, writeMu, environment, status, images, landed, took>>

(* The CI run ends: it has its answer, gave up, or was cancelled. *)
Finish(r) ==
  /\ step[r] = "answered"
  /\ Goes(r, "idle")
  /\ asked' = [asked EXCEPT ![r] = NoCommand]
  /\ tries' = [tries EXCEPT ![r] = 0]
  /\ took' = [took EXCEPT ![r] = FALSE]
  /\ environment' = [environment EXCEPT ![r] = ""]
  /\ status' = [status EXCEPT ![r] = "none"]
  /\ event' = [event EXCEPT ![r] = NoEvent]
  /\ landed' = [landed EXCEPT ![r] = ""]
  /\ UNCHANGED <<vars, writeMu, images>>

(* A 503, or any answer that never arrived, is tried again; a call that    *)
(* was not admitted never will be.                                         *)
Retry(r) ==
  /\ step[r] = "answered"
  /\ asked[r] # NoCommand
  /\ tries[r] < MaxTries
  /\ Goes(r, "waiting")
  /\ tries' = [tries EXCEPT ![r] = @ + 1]
  /\ took' = [took EXCEPT ![r] = @ \/ landed[r] # ""]
  /\ environment' = [environment EXCEPT ![r] = ""]
  /\ status' = [status EXCEPT ![r] = "none"]
  /\ event' = [event EXCEPT ![r] = NoEvent]
  /\ landed' = [landed EXCEPT ![r] = ""]
  /\ UNCHANGED <<vars, asked, writeMu, images>>

-----------------------------------------------------------------------------
(* The rest of the world *)

(* The gate is killed: its handlers and its mutex are gone, and the CI     *)
(* runs they served see a 502.  What they had pushed stays on main.        *)
Restart ==
  LET gone == {r \in Writer : step[r] \in {"waiting", "locked", "writing", "responding"}}
      reset(f, value) == [r \in Writer |-> IF r \in gone THEN value ELSE f[r]]
  IN
  /\ gone # {}
  /\ step' = reset(step, "answered")
  /\ status' = reset(status, "lost")
  /\ writeMu' = Nobody
  /\ phase' = reset(phase, "idle")
  /\ command' = reset(command, NoCommand)
  /\ retry' = reset(retry, FALSE)
  /\ clone' = reset(clone, EmptyTree)
  /\ moved' = reset(moved, FALSE)
  /\ answer' = reset(answer, "none")
  /\ written' = reset(written, 0)
  /\ UNCHANGED <<main, asked, tries, environment, event, images, landed, took>>

(* CI builds and pushes an image. *)
PushImage(tag) ==
  /\ tag \notin images
  /\ images' = images \cup {tag}
  /\ UNCHANGED <<vars, step, asked, tries, writeMu, environment, status, event,
                 landed, took>>

Handle(r) ==
  TurnedAway(r) \/ Lock(r) \/ Mint(r) \/ MintFails(r) \/ SetImageTag(r) \/ Unlock(r) \/ Respond(r)

CallGate(r) ==
  \/ \E c \in Command, caller \in Caller : Receive(r, c, caller)
  \/ Retry(r)
  \/ Finish(r)

(* A developer's command, a commit to another Application, an admin's edit. *)
Develop ==
  /\ \/ /\ \E c \in Command \ DeployCommand : Apply(c)
        /\ FallBehind(Writer)
        /\ UNCHANGED <<phase, command, retry, clone, answer, written>>
     \/ OtherCommit
     \/ Configure
  /\ UNCHANGED gateVars

GateNext ==
  \/ \E r \in Writer : CallGate(r) \/ Handle(r)
  \/ \E tag \in Tag : PushImage(tag)
  \/ Develop
  \/ Restart

(* A handler keeps running: its calls to GitHub, git and the registry      *)
(* return, at worst with an error when the request's context ends.         *)
(* sync.Mutex hands itself to a waiter that has starved, so a handler that *)
(* waits while others come and go gets its turn: strong fairness.          *)
GateFairness ==
  \A r \in Writer :
    /\ SF_allVars(Lock(r))
    /\ WF_allVars(Mint(r) \/ SetImageTag(r) \/ Unlock(r) \/ Respond(r))

GateSpec == GateInit /\ [][GateNext]_allVars /\ GateFairness

-----------------------------------------------------------------------------
(* What the gate promises *)

(* A deploy that reaches main was authorised on the very tree it changes:  *)
(* whatever a rebind, a delete or a new staging did while it queued,       *)
(* cloned, or retried, the caller is the Application's repository there,   *)
(* the Environment is the one its ref may deploy, and the registry has the *)
(* image (gate.go, authorize; image.go, checkImage).                       *)
OnlyAuthorisedDeploysLand ==
  [][ \A r \in Writer : written'[r] > written[r] =>
        /\ Authorized(command[r], main)
        /\ command[r].tag \in images
        /\ main'.env = [main.env EXCEPT ![Target(command[r], main)] = main'.env[Target(command[r], main)]]
    ]_allVars

(* "Concurrent deploys queue instead of racing each other's pushes"        *)
(* (gate.go:183): what makes a handler's clone stale is never another      *)
(* handler's commit.                                                       *)
DeploysNeverRaceEachOther ==
  [][ \A r \in Writer : ~moved[r] /\ moved'[r] =>
        \A s \in Writer : written'[s] <= written[s] ]_allVars

(* A DeployAccepted Event names the Environment the deploy reached, and    *)
(* carries a commit exactly when there was one; none is recorded against   *)
(* an Environment an earlier attempt had resolved (gate.go:353-361).  And  *)
(* everything keeps its type.                                              *)
AcceptedEventsAreTrue ==
  /\ GateTypeOK
  /\ \A r \in Writer : event[r].reason = "DeployAccepted" =>
       landed[r] = IF event[r].commit THEN event[r].environment ELSE ""

(* A handler that is refused on a clone where its caller does not own the  *)
(* Application is not recorded against it, even when an earlier attempt's  *)
(* clone still had it bound to the caller (gate.go:353, *environment = "").*)
StrangersLeaveNoEvent ==
  [][ \A r \in Writer :
        phase[r] = "checking" /\ phase'[r] = "answered" /\ HasDirectory(clone[r])
          => (environment'[r] # "" => Authorized(command[r], clone[r])) ]_allVars

(* Every call is answered, or cut off by a restart: no path out of deploy  *)
(* leaves writeMu held, and queued handlers are not starved by new ones.   *)
DeploysAreAnswered ==
  \A r \in Writer : step[r] = "waiting" ~> step[r] = "answered"
=============================================================================
