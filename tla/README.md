# A verification of IIDP

IIDP is an internal developer platform: Applications are directories of a Git
repository, the *Platform repository*, which ArgoCD applies to a cluster. The
command line tool `iidp` and the in-cluster *Deploy gate* write that
repository; two more services (a database tunnel and Argus, a live view) read
the cluster. This directory specifies the parts of IIDP whose correctness
depends on order, concurrency and failure, checks them with TLC on small
instances, and proves about them with TLAPS.

Terms are those of `CONTEXT.md`; paths are relative to the repository's root.

## 1. The system

| Part | Where | State | Operations |
|---|---|---|---|
| Platform-repository Writer | `internal/platformrepo`, `internal/render`, `internal/git` | the tree at `main` of the Platform repository; a clone per command | create, add-capability, bind, delete, secret set, db access, SetImageTag; each with one retry |
| Deploy gate | `internal/deploygate`, `cmd/iidp-deploy-gate`, `iidp ci set-image` in `internal/cli/ci.go` | `writeMu`; the handler's environment, answer and Event | `POST /v1/deploy`, `GET /v1/status`; restarts; the CI run's three tries |
| OIDC verifier | `internal/oidc` | a cache of the issuer's keys under a mutex | verify a token, refetch keys |
| Registry and GitHub clients | `internal/registry`, `internal/githubapp`, `internal/github` | none of their own | does a tag exist; mint a token |
| Database tunnel | `internal/dbtunnel`, `internal/repoaccess`, `cmd/iidp-db-tunnel` | sessions, their timers, a WaitGroup | CONNECT, cancel, limits, Shutdown, audit Event |
| Argus | `internal/argus`, `cmd/iidp-argus` | a store of objects and notes, subscribers with a 256-message queue | put and delete, publish, subscribe, drop a slow client |
| Platform state | `internal/platformstate`, `platformrepo/history.go` | none: pure functions of what is read | an Environment's Condition and Activity, the hop of each Deploy |
| CLI and prompts | `internal/cli`, `internal/prompt` | none kept | flags and questions into a command of the Writer |
| Application repositories | `internal/apprepo`, `internal/templates`, `internal/migrate`, `internal/appconfig` | GitHub: a repository, a branch `iidp/adopt`, a pull request | create, adopt |
| Charts, wizard, infrastructure | `chart`, `bootstrap`, `scripts`, `infra` | rendered text; `platform.yaml`; what ArgoCD makes of the chart | Helm and Terraform; the wizard completes `platform.yaml`; ArgoCD syncs and deletes an Environment |

How they interact:

- Every change to the Platform goes through one Git branch. A command clones
  `main`, checks and edits the clone, commits and pushes. Nothing locks `main`;
  Git refuses a push when `main` has moved, and the command runs once more from
  a fresh clone.
- CI of an Application repository calls the Deploy gate with an OIDC token. The
  gate queues calls on a mutex, and each is then a Writer like a developer's
  CLI, with two more checks on each clone: the caller is the bound repository,
  and the registry has the image.
- ArgoCD, Argus and the database tunnel read what the Writer wrote: an
  Environment is alive while its `application.yaml` exists; its values name the
  Secrets its `sops/` directory holds; the previews ApplicationSet copies
  staging's sources.

What is hard here, and what correctness means:

- **Writer, concurrency.** No commit is lost, no command acts on a tree it has
  not checked, what it answers is true of `main`, and it always answers.
- **Writer, protocol.** An Application's tree is edited by seven commands over
  months, in any order. After any order: the previews render what staging
  renders, a live database finds its credentials, `ksops.yaml` lists exactly
  the files that are there, values name only Secrets that exist, a password is
  there while its access level admits someone, a developer's secret is not lost.
- **Deletion.** ArgoCD deletes an Environment minutes after the command that
  asked for it, and backs its database up from what `main` holds by then.
- **Gate.** What was authorised before a retry may not be after it; what an
  attempt found may outlive it in a variable; a lost answer is retried; a path
  that keeps the mutex would stop all deploys; an Event must name the
  Environment the deploy reached.
- **Tunnel.** A session may end in five ways at once, with a peer that does not
  read, a cancel on its way and the process stopping: it ends once, for the
  reason its Event gives, and holds nothing after. That it ends at all rests on
  the client: closing its connection waits for a write that is under way.
- **OIDC verifier.** Callers share a cache whose mutex is held over a fetch; it
  outlives the issuer's keys, and an unknown key may not make everybody fetch.
- **Argus.** A browser that falls behind, or loses its stream, must neither lose
  nor repeat a change; the feed is seeded from Events while new ones come in.
- **Platform state.** What is said of a Deploy is read off objects that others
  change in their own order: it may not go back, stall silently, or call an
  Environment Degraded that serves.
- **app create.** A GitHub repository or a pull request is made before the
  commit that names it, with no transaction over the two.

`PROJECT.json` lists each of these at its line under `hazards`, with the
properties that cover it or the reason none does yet.

## 2. The modules

```
ApplicationTree          one Application's tree; each command as a function on trees
  PlatformLedger         main changes by one whole command at a time   (the abstract specification)
    PlatformWriter       clones, pushes, rejections, retries, failures (implements PlatformLedger)
      DeployGate         the gate's handlers, its mutex, CI runs, restarts
    EnvironmentDeletion  ArgoCD following main, and its deletion of Environments
SessionAudit             what a session leaves in the audit trail   (the abstract specification)
  DatabaseTunnel         calls, sessions, copiers, limits, cancels, shutdown (implements SessionAudit)
SigningKeys              the gate's verifier and its key cache
ArgusStream              Argus' store, feed and streams, and the browsers
EnvironmentState         what the Platform says of an Environment, of objects that move
AppCreate                iidp app create over GitHub and the Platform repository
ShopCommands             the Application "shop" and its commands, for TLC
GateClaims, DeletionClaims       documented statements the code does not keep
MCLedger, MCDeletion, MCWriter, MCGate, MCGateClaims, MCTunnel,
MCArgus, MCSigningKeys, MCAppCreate, MCEnvironment   instances for TLC
PlatformLedger_proofs        what a command makes of a tree, and the invariants of main
  DeployGate_proofs          Writers and the gate implement the ledger, and keep them
  EnvironmentDeletion_proofs backups
ArgusStream_proofs, EnvironmentState_proofs,
DatabaseTunnel_proofs, SigningKeys_proofs, AppCreate_proofs
```

### ApplicationTree

A `Tree` holds what a command reads or writes of one Application: three facts
about `platform.yaml` (age key, backup bucket, credentials template), a record
per Environment, `repository.yaml` and the previews ApplicationSet.

| In the tree | In the repository |
|---|---|
| `env[e].dir` | `applications/<name>/<e>/values.yaml` |
| `env[e].live` | `<e>/application.yaml`; removing it is what deletes an Environment |
| `env[e].sopsSource` | `application.yaml` names `sops/` as a kustomize source |
| `env[e].files`, `registered` | the `*.enc.yaml` files of `sops/`, and the listing in `ksops.yaml` |
| `env[e].secrets`, `password` | the Secret names in `values.yaml`, as pairs of the Environment in the name and the slug |
| `env[e].level` | `postgres.access`, `"unset"` where the key is absent |
| `binding` | `repository.yaml`: absent, unusable, or complete |
| `previews` | `previews.yaml`: the repository it follows, and whether it has the `sops/` source |

Each command `c` has `...Allowed(c, t)`, the checks of its `attempt...()`
function, and `...Result(c, t)`, its edits. `Outcome(c, t)` is what an attempt
on a clone of `t` comes to: `refused`, `unchanged` (for the three commands that
compare before they commit), or `commit`. `Allowed`, `Result` and `CommandType`
only join the commands. Helpers of the code that several commands share are
shared here: `RegisterSops`, `CopyBackupsCredentials`, `WriteDatabaseAccess`,
`StagingFromProd`, `RefreshPreviews`.

Abstracted: YAML and its formatting, paths, encryption (a file is its content),
messages, and the chart. Re-encrypting a secret always changes its file, so
`secret set` always commits; the model's tree may be equal before and after,
and `OutcomesAreTrue` therefore leaves that one command out. Sign-in groups are
sets; the code compares lists, so it also treats a new order as a change.
`UnusableBinding` (a hand-edited `repository.yaml`) is in the type and in every
guard, and no action writes one yet.

### PlatformLedger

`main` and two actions: a command is applied whole to the tree `main` holds at
that moment, or an admin completes `platform.yaml`. The invariants of the tree
are stated and checked here, over every sequence of commands. They are
proved, and hold for `PlatformWriter` and `DeployGate` because both implement this
module, which is proved too.

### PlatformWriter

A Writer is one run of a command. Its `phase` follows `runWithRetry`
(`writer.go:241`): `cloning`, `checking` (the attempt), `pushing`, `answered`.
`clone` is the tree it works on; `moved` says whether `main` got a commit since,
which is exactly when Git rejects its push. A rejection on the first attempt
starts over from a new clone; a second is answered "moved twice". Any other
error ends the command: `Fails` at any step before the push lands, and
`LandsButFails` for the push that lands while its answer, or the reading of
`HEAD` after it, is lost. `OtherCommit` is everybody else: other Applications'
commits, hand edits. `written` is a history variable: how often the command
reached `main`.

### EnvironmentDeletion

`PlatformLedger`'s commands, with ArgoCD and the Application chart beside them.
ArgoCD is external: its actions are what `internal/render/render.go`,
`internal/platformrepo/delete.go` and the chart suppose of it.

| In the model | In the cluster |
|---|---|
| `argo[e]` | the ArgoCD Application of the Environment: absent, applied, being deleted, waiting for the PreDelete hook's Job, or blocked by a Job that failed |
| `database[e]` | the CloudNativePG Cluster |
| `cleared[e]` | history: `app create` cleared the directory while ArgoCD still had a use for it |

`Follow` is ArgoCD noticing that `application.yaml` came or went; `Sync` creates
the database when the chart renders one, which it does only after the first
image, and never prunes it (`Prune=false`). A deletion renders the hooks from
`main` as it is then: without `values.yaml` there is an error and no step
(`Renders`), with no image or no Postgres no hook (`NothingToBackUp`), else a
Job that completes or fails (`BackupCompletes`, `BackupFails`, which a half
hour's timeout makes one of the two). `TearDown` is the cascade of the resources
finalizer. Left out: Preview Environments, which have no backup; what else a
sync applies; and the ArgoCD race the chart works around by making the Job its
only hook (`final-backup-job.yaml:45-47`).

### DeployGate

Extends `PlatformWriter`; a Writer is now a CI run with one deploy, and its
`step` follows `serveDeploy` and `deploy` in `gate.go`: `waiting` for `writeMu`,
`locked`, `writing` (a Writer's phases), `responding`, `answered`. `Resolve` is
the callback of `SetImageTag` on each clone (`gate.go:353`), which forgets the
Environment of the attempt before, authorises the caller and sets the
Environment of this one. `EventOf` is `events.go`. `Retry` is `callDeployGate`
(`ci.go`): any answer may be lost on the way, so a CI run may call again after
any of them; asking again after a plain refusal is allowed too, which only adds
behaviours. `Restart` kills the gate with every handler in it; what was pushed
stays.

Simplifications, each on the safe side or without effect:

- Developers' commands are single steps here (`Develop`). `PlatformWriter`
  shows what such a command does to `main` is one step.
- A handler whose client went away runs with a cancelled context: it can only
  hold the mutex until its next call fails. So the tries of one CI run follow
  one another.
- The Event is written by a goroutine that may fail and is only logged; the
  model records it in `Respond`.
- The refresh of ArgoCD after a commit is a patch whose failure is ignored and
  which no state here depends on.
- The registry never loses a tag.

### SessionAudit and DatabaseTunnel

`SessionAudit` says what a reader of the Events may rely on: a call is refused,
or leaves without a word, or its session is recorded as started when it opens
and as ended when it is over; one that is open is cut off only by the end of the
process, which cuts off every open one and after which nothing is recorded.
`DatabaseTunnel` has what does it. Its state per call:

| In the model | In the code |
|---|---|
| `phase` | where `serveCheck`, `serveConnect` and `serve` are: `called` before the test of `stop`, `counted` after `sessions.Add`, then the startup, the check, the login, the greeting, `Relay`, `hanging` in its `client.Close()`, and `closing` while it waits for the other copier; `passing` is a cancel that waits for the database to close |
| `wire` | the two connections: open, open to a client that has stopped reading (`stalled`), closed by the peer (`gone`), or closed by the tunnel |
| `relay` | `Relay`'s locals: its two copiers, the channel `done`, the reason, and the time since the last traffic, since the start, and until the timer fires |
| `live` | `liveSessions` |
| `pending`, `trail` | the WaitGroup `events`, and a history of what was recorded |
| `server` | `run` in `main.go`: serving, draining the HTTP server, in `Tunnel.Shutdown`, ended |

A phase waits for somebody, and so has a step for the answer (`Answered`) and one
for the refusal, the deadline or the closed channel (`Obliged`). The timer is the
code's: it is set to the nearer limit, and when it fires the limits are looked at
again (`Wakes`), because traffic may have moved one. A client's connection is a
WebSocket: closing it writes a close frame under the lock that a `Write` holds, and
no deadline is left on either (`session.go:108`). So `HangUp`, the two calls to
`Close`, comes when the client's buffers have room and no copier is in a write to
it, and the connection to the database waits for it too. A cancel that was passed on reads
from the database with no deadline (`session.go:398`). `Drained` is
`server.Shutdown` returning, which waits for the calls a WebSocket has not taken
over (`Answering`); `DrainFails` is its 30 seconds running out over a check call.

The check is an answer here: it passes or refuses, and a refusal is recorded or
not as the developer and the Environment are known. The bytes, and the logs, are
left out. A call without a token is turned away before anything happens.

### SigningKeys

Callers are the gate's handlers. `call` follows `Verify` and `key`: waiting for
the mutex, then deciding from the cache (`FromCache`) or fetching under it
(`BeginFetch` to `FetchAnswered` or `FetchFailed`). The issuer publishes and
withdraws keys at any time and always has one (`Withdraw` keeps the last); its
clock differs from the gate's by all the leeway allows. An answer to a fetch
has the keys of a moment between request and answer. A signature is `sound` or
not, which also stands for audience and issuer; the JSON and the key formats
are left out. A fetch that fails leaves the old keys and the old time, so the
next caller fetches again at once.

### ArgusStream

| In the model | In the code |
|---|---|
| `objects`, `event`, `pod`, `brokenSince` | what the informers put into the `Store`, and the probe of the API server |
| `apps`, `cluster`, `feed`, `restartedAt` | the interpretation the streams were last sent |
| `seeding`, `held`, `dropped` | `Seed`'s two locked sections, and the failed probes held until their Pod settles |
| `stream[b].queue` | the snapshot, then the channel of `ClientBuffer` messages |
| `view[b]` | what the browser's page shows |

An object is the number of the change that made it, so a view may be compared
with an earlier one. `Put`, `Delete` and the two for Events publish notes in
the locked section that stores the object; `Recompute` is what `Run` does when
it is poked or its ticker fires. `Sent` closes a stream that has no room.
Simplifications: the poke is only latency; the hour over which Events are
seeded, and the feed's age limit, are left out; notes made at one moment come
in a fixed order; the Platform's own configuration is set once, before; an
Event's key does not come back once deleted, and two informers never hold the
same Event. Pods may have been listed before the first Event.

### EnvironmentState

Half of it is `condition.go` and `deploy.go`, definition by definition; the
other half moves what they read: the commits, the gate's Events, the ArgoCD
Application, the migration Job, the Deployment and its Pods, the backup Job.
Those actions are external, and take what the package's comments and the chart
say: a sync is of one commit, the migration is a hook every operation makes
again, Pods of the version before stay until the new one is ready. A moment is
its age, and stops counting past every timeout it is compared with. Left out:
self-healing, lost watches (`ArgusStream` has them), more than one replica, what
an Environment's Components, Capabilities, links and tasks say, and the wording
of reasons, which are names here. The package reads one consistent view.

### AppCreate

A run of `iidp app create` is a sequence of calls, one action each: the check
of the name, the repository of `Creator.Create` or the branch and pull request of
`Adopter.Adopt`, then the Writer's commit. GitHub is a set of repositories with
ids, so one that was deleted and made again is another. `Fail` ends a run at any
call, whose effect may still have happened. Other people make, transfer and delete
repositories, merge and close pull requests, and bind Applications that have no
repository. A Dockerfile is one of seven kinds; the detection of a framework or a
migration tool is a field of a repository's content. What GitHub will allow a token
(`workflowScope`) and whether it tells (`scopesKnown`) are two answers. A renamed
repository's redirects and `app bind --rebind` are left out, and neither a repository
nor a branch is deleted while a run that wrote to it goes on.

## 3. What TLC checks

Counts are of distinct states. The runs of the repository use one Application and
its two Environments, which is all an Application can have.

| Run | States | Properties |
|---|---|---|
| `application` | 371,398 | `PreviewsFollowStaging` `DatabaseFindsItsCredentials` `NamedSecretsExist` `PasswordsMatchLevels` `SecretsSurvive` `DatabasesCanBeBackedUp` `DeletionsEnd` |
| `edits` | 43,760 | `TasksFollowTag` `CapabilitiesAreUniform` `OutcomesAreTrue` |
| `writers` | 35,513 | `AnswersAreTrue` `PushesAreCurrent` `CommandsReturn` `ImplementsLedger` |
| `gate` | 392,779 (with symmetry) | `AcceptedEventsAreTrue` `OnlyAuthorisedDeploysLand` `DeploysNeverRaceEachOther` `StrangersLeaveNoEvent` |
| `gate_progress` | 30,728 | `DeploysAreAnswered` |
| `tunnel` | 127,342 | `ShutdownAccountsForAll` `EndedHoldsNothing` `CancelsStayWithTheirDeveloper` `ReasonsAreTrue` `ImplementsAudit` `SessionsEnd` `ShutdownReturns` |
| `signing_keys` | 258,224 | `AcceptedUnderLiveKeys` `GenuineTokensAreHeard` `EveryCallEnds` |
| `argus` | 624,718 | `StreamAddsUp` `EveryEventHasOneFate` `NeverBackwards` `ViewsCatchUp` |
| `environment` | 122,352 | `NotDegradedWhileServing` `QuietMeansLanded` `HopsMoveForward` `NothingStallsSilently` |
| `app_create` | 1,795,280 | `ApplicationsHaveTheirRepository` `RefusalsComeFirst` `ApplicationsFit` |

A module's type invariant is a conjunct of one of these properties; that of
`PlatformWriter`, `TypeOK`, is one of `GateTypeOK` and is proved besides.

- **application**: creating with and without Postgres, staging, a binding and
  previews; adding each later; binding; access levels of each role, admitting and
  not; secrets in both Environments: two KEYs of one slug, one whose slug is a
  database password's, and one whose slug is the backups credentials'; deploying; deleting; creating again. `platform.yaml` is completed at any
  moment, so Postgres is also enabled before there is an age key. ArgoCD follows
  each Environment at any later moment. TLC explores the reachable states whole:
  no bound on the number of commands. `DatabasesCanBeBackedUp` and `DeletionsEnd`
  except what a create over a leftover directory cleared, and nothing else: every
  other command, in any order, leaves a running database's values renderable,
  its hook included. `PasswordsMatchLevels` goes both ways: no password without
  a level that admits someone, and with an age key no command that writes the
  levels leaves such a level without its password. `SecretsSurvive` names the two
  replacements the code makes: `secret set` of a KEY with the same slug, and Postgres
  turned on over a KEY `BACKUPS_CREDENTIALS`.
- **edits**: without ArgoCD: two tags, one with a Scheduled task and a migration
  command and one without, deployed and promoted from the bound repository and from another,
  with the Application bound outside the org, or renamed, in between; and, in any order among
  them, the Capabilities that only edit values. The two tags have their tasks, as a
  commit fixes both, so an Environment runs the tasks of the tag it runs.
- **writers**: two Writers, five commands that create (twice, differently), bind,
  rebind and delete the Application, and commits of others between any two
  steps. Two
  Writers suffice for the races: from a Writer's side all others are "main
  moved", which `OtherCommit` also does, and the properties relate one Writer
  to `main`. The proofs cover any number.
- **gate**: two CI runs with two tags, one promoting, while developers create,
  extend, rebind and delete the Application and the gate restarts. `MaxTries`
  is 1 (the code: 3): a try starts where the one before left nothing but its
  commit, and `Restart`, `Finish` and a new call already give a second call
  after a lost first one. `SYMMETRY` exchanges the two CI runs; only safety is
  checked under it.
- **gate_progress**: the same handlers with `MaxTries` 2 and one deploy, no
  symmetry, liveness only.

- **tunnel**: one session, and next to it a check call, a cancel by the same
  developer or a cancel by another, with a SIGTERM at any moment. One session
  suffices for its own properties, since sessions share nothing but `live` and
  the shutdown; the second call is what these two need. The client may stop reading,
  for a time or for good, while its session is relayed or closed. `IdleLimit` 2 and
  `MaxSession` 3 ticks are the smallest limits with which the timer fires early,
  is set again, and then meets either limit; the code has 30 minutes and 8 hours.

`ImplementsLedger` is refinement: the ledger's `main` is the Writer's `main`,
and every step changes it by one command that is valid on it, or not at all.

- **signing_keys**: two callers, because a second one is what waits behind a
  fetch, and two keys, one of which replaces the other or was made up. The
  limits are 2, 1, 1 and 1 ticks (the code: an hour, 30 seconds, a minute, and
  GitHub's token lifetime), in the code's order where they are compared, and
  `MaxNow` 3 lets a key set grow too old once. Not only the smallest case of
  each limit happens but every order of them.
- **argus**: one Subject, one Event of each sort, one browser: browsers share
  nothing, and the feed's `FeedSize` 2 is exceeded by the notes of the two
  Events and of a lost watch. `ClientBuffer` 2 (the code: 256) fills at once;
  `MaxChanges` 3 is enough for a change before, in and after a snapshot, or a
  restart between two.
- **environment**: two tags in three commits, which is one Deploy overtaking, or
  undoing, another, or a Deploy with an edit before or after it; one thing that
  goes wrong at a time (`MaxFaults`), where a deadline that passes is none.
  Timeouts are 0 or 1 ticks: a rule compares an age with one limit, so only
  "within" and "past" differ. A Preview Environment is one of the initial states.
  Only an Environment that was never deployed to is deleted (`MaxCommitsDeleted`
  1): what is said of a deletion reads neither the Deploys nor the Pods.
- **app_create**: two runs of twelve kinds, among them the same one twice, some
  whose token may not push a workflow, with scopes that say so and without, one the
  Writer alone refuses, and one for another name on the same repository; three repositories, so that a name is taken,
  freed and taken again. A third run has nothing to meet that two, and the other
  people in the model, do not leave behind.

Deadlock is checked in every run but those of `tunnel`, `argus` and `app_create`,
whose models come to an end: the process exits, or a bound is reached.

### Fairness

`PlatformWriter`: weak fairness on the steps of a command under way. Between
two Git subprocesses a Writer only computes, and the subprocesses return.
Nobody has to call a command, and no failure is fair, so `CommandsReturn` does
not rest on errors.

`DeployGate`: weak fairness on a handler's own steps, whose network calls end at
the latest with the request's context; strong fairness on taking `writeMu`,
since a Go mutex goes over to a waiter that has waited for a millisecond.
`Receive`, `Retry`, `Finish`, `Restart`, `MintFails`, `TurnedAway` and the
developers are not fair. A restart answers a call with a 502, which is the
"answered" `DeploysAreAnswered` allows.

`DatabaseTunnel`: weak fairness on what a handler does by itself and on the
refusals and deadlines that end its waits (`Obliged`): the startup has a deadline
on its connection, the check and the login a context of a minute, the end a
timer of 5 seconds. A copier whose connection is closed is told so. Time passes,
and an Event is given up after 10 seconds. Strong fairness on a copier's write to
the client and on `HangUp`: either goes on once the client has read, and Go's mutex
between them starves nobody. Nobody has to call, to answer, to send, to read or to
close, so a session may be kept busy, or a database not read, for ever. What the code
does need of a peer is a premise of the property: `SessionsEnd` is of a session
whose client does not stop reading for good (`KeepsReading`), whatever its
database and its traffic do; `ShutdownReturns` asks that of every client, and that a
database does not keep a cancel's connection for good.

`EnvironmentDeletion`: weak fairness on ArgoCD noticing that an Environment's
`application.yaml` came or went, which it polls for and retries without limit
(`render.go:126-135`), and on the hook's next step, whose Job has its own limit.
Nobody has to unblock a deletion, and no sync has to happen.

`SigningKeys`: strong fairness on taking the mutex, as for the gate; weak
fairness on a fetch being given up, since the HTTP client has ten seconds.
An answer, and time passing, are not fair.

`ArgusStream`: weak fairness on the loop and on `Seed`, which only compute; on a
browser connecting, as `EventSource` does again, and on its reading. The changes
end at their bound, and what is left has to arrive (`ViewsCatchUp`).

`EnvironmentState`: weak fairness on the clock, on ArgoCD looking, which it does
every few minutes, on an operation carrying on, and on the deadlines of the Job
and the Deployment. Nothing makes ArgoCD start a sync, a Pod turn ready or a
deletion end: those are what the Platform has to say is stuck.

### Where the documents and the code disagree

Two runs expect a violation. Each names one statement of the documents:

| Run | Statement | What the code does |
|---|---|---|
| `claim_repeating_a_deploy_is_harmless` | "repeating a deploy is harmless" (`docs/platform-repository.md:482`) | the repeated call of a lost answer puts its tag back over a newer one deployed in between |
| `claim_final_backup_comes_first` | "a Job takes a final Backup of the database, kept 30 days, and the deletion waits for it to complete before anything is torn down" (`internal/cli/app_delete.go:32-34`) | `app create` clears the leftover directory (`writer.go:402`) whether or not ArgoCD has come to the deletion: the new values have no image, the chart renders no hook, and the old database goes without a backup |

More were met while modelling and have no run.

The repository:

- A create that lands before ArgoCD has noticed the delete at all keeps the old
  Environment's database: nothing is deleted, and the new Application gets it.
  A create without staging over a deletion that still waits for staging's values
  leaves that deletion in an error.
- "Every Application has a `prod` Environment" (`CONTEXT.md:16`): after a delete,
  `app add-capability --staging` is accepted on prod's leftover directory
  (`capability.go:102`).
- `app create` clears a leftover directory where
  `docs/platform-repository.md:467` says it refuses.
- The credentials file is "a byte-for-byte copy" of the Platform's
  (`docs/platform-repository.md:23`); `secret set BACKUPS_CREDENTIALS=...` has
  that file's slug and overwrites it (`secret.go:49-65` reserves the passwords'
  slugs only), as turning Postgres on later overwrites a developer's secret of that
  KEY (`backups.go:60-61`). `API_KEY` and `api_key` share one file, where line 22 has
  one document per KEY.
- A custom domain may not equal "a Platform address of either Environment"
  (`docs/platform-repository.md:250`); staging's may be taken while there is no
  staging, and staging be added after (`capability.go:155`).
- The previews' repository is the one `repository.yaml` names
  (`docs/platform-repository.md:345`, which excepts a rename); `app bind --rebind`
  to another repository leaves `previews.yaml` as it was too.
- "a refusal must never come after the pull request exists" (`app.go:342-343`):
  without the wizard, what only the Writer checks is refused after it. A token whose
  scopes GitHub does not tell is let through, as `scope.go:21-22` says, and when it
  may not write workflows the push is refused after the repository was made:
  `RefusalsComeFirst` excepts both.
- "Adopt never writes over an existing file" (`adopt.go:39-40`): a `.dockerignore`
  is replaced along with a Dockerfile that did not exist.

The gate and the verifier:

- A push whose answer is lost is recorded as `DeployRefused` and ArgoCD is not
  asked to refresh, although the Deploy is on `main` (`AnswersAreTrue` says so: a
  command that `failed` may have landed).
- "a stream of forged kids cannot make the gate hammer the issuer"
  (`oidc.go:41-43`): a fetch that fails is not counted, so while the issuer is
  down every such token makes one.

The tunnel:

- "When the tunnel stops, it ends every open session and records each end before
  it exits" (`docs/implementation-notes/159-database-tunnel.md:69`): draining
  the HTTP server has 30 seconds and a check call a minute, and when draining
  fails `run` returns without `tunnel.Shutdown` (`main.go:96`).
  `ShutdownAccountsForAll` is of the exits that were drained.
- `MaxSession` "ends a session however busy it is" (`session.go:24`), and `Shutdown`
  "ends every open session" (`tunnel.go:86`): a client that stops reading while the
  database sends keeps its copier in a write (`session.go:281`), and `client.Close()`
  (`session.go:320`) waits for that write. Neither connection is closed, no end is
  recorded, and `sessions.Wait` waits with it, for as long as the client neither
  reads nor goes. A database that neither answers nor closes a cancel's connection
  holds `sessions.Wait` too: the minute's context bounds the dial alone
  (`session.go:383`).
- A copier whose write fails reports the side it reads from, so an Event may say
  "the client closed it" of a database that did (`session.go:281-282`).
- The 503 of a stopping tunnel (`tunnel.go:149`) is never sent: by then the HTTP
  server has been drained, and it is that order, not the test, which makes
  `ShutdownAccountsForAll` hold.

What the Platform says:

- Arriving runs "until its first image is serving" (`condition.go:28-30`): an
  Environment that has served is Arriving again while it rolls out a restart of
  the same version and no Pod is ready.
- "HopServing ... Deploying ends here" (`deploy.go:22-23`): a Deploy that served
  is RollingOut again when its Pods turn unready.
- "A superseded Deploy is not stuck" (`deploy.go:104-105`): one overtaken by a
  Deploy whose own Event was lost keeps waiting for ArgoCD, since nothing names
  the other; `NothingStallsSilently` is of the newest tag for that reason.
- The migration has "no deadline of its own" (`condition.go:497-499`); the chart
  gives it one of 30 minutes (`migration-job.yaml:20-24`).
- Deploying a tag again whose migration failed shows it stuck at once, on the Job
  of the time before.

## 4. What TLAPS proves

For all values of the constants: any number of Writers, handlers, callers,
connections, runs and repositories, any set of commands, any limits. `(P)` marks
a theorem whose property a run of section 3 checks.

| Module | Theorem | Says |
|---|---|---|
| `PlatformLedger_proofs` | `ResultIsTree` | an allowed command turns a tree into a tree |
| | `ResultKeeps` | and keeps it `WellKept`; but for `create`, it `Extends` what was there; and with an age key it leaves the passwords that the levels it writes need (`StaysOpen`) |
| | `LedgerTypes` | `main` is a tree |
| | `PreviewsStayBehindStaging`, `DatabasesFindTheirCredentials`, `NamedSecretsStay`, `PasswordsFollowLevels`, `CapabilitiesStayUniform` | the invariants of the tree, after any commands in any order (P) |
| | `SecretsDoSurvive` | `SecretsSurvive`: no other replacement of a developer's secret than the two it names (P) |
| | `OutcomesStayTrue` | `OutcomesAreTrue`: a commit changes something, and repeating it would not (P) |
| | `TasksStayWithTag` | `TasksFollowTag`: one deploy brought an Environment's tag and its tasks (P) |
| `DeployGate_proofs` | `WriterTypes` | `[]TypeOK` |
| | `PushesStayCurrent` | a push Git accepts is the command applied to `main` as it is (P) |
| | `WriterImplementsLedger` | `Spec => ImplementsLedger` (P) |
| | `AnswersStayTrue` | `AnswersAreTrue` (P) |
| | `WriterKeepsTheTree` | the ledger's invariants and `SecretsSurvive`, of concurrent Writers |
| | `AcceptedEventsStayTrue`, `DeploysLandAuthorised`, `DeploysDoNotRace`, `StrangersStayUnrecorded` | the gate's four safety properties (P) |
| | `GateImplementsLedger` | handlers, retries, restarts and developers together implement the ledger, and keep its invariants |
| `EnvironmentDeletion_proofs` | `DatabasesStayBackedUp` | `DatabasesCanBeBackedUp` (P) |
| `SigningKeys_proofs` | `AcceptedKeysAreLive`, `GenuineTokensAreNotRefused` | the verifier accepts no more and refuses no more than it should (P) |
| `DatabaseTunnel_proofs` | `EndedCallsHoldNothing`, `ShutdownForgetsNothing`, `CancelsAreOnesOwn`, `ReasonsStayTrue` | the tunnel's four safety properties (P) |
| | `TunnelImplementsAudit` | the tunnel implements `SessionAudit` (P) |
| `ArgusStream_proofs` | `EveryEventIsToldOnce` | `EveryEventHasOneFate`: told, held or dropped, and told once (P) |
| | `StreamsAddUp` | `StreamAddsUp`: a view and what is on its way come to the picture (P) |
| | `NeverShownBackwards` | `NeverBackwards`, an action property (P) |
| `EnvironmentState_proofs` | `ServingIsNotDegraded` | `NotDegradedWhileServing` (P) |
| | `QuietLands` | `QuietMeansLanded`: silence means that what was asked for runs (P) |
| | `HopsDoNotGoBack` | `HopsMoveForward`, an action property (P) |
| `AppCreate_proofs` | `ApplicationsKeepTheirRepository`, `RefusalsDoComeFirst`, `ApplicationsDoFit` | the three safety properties of `app create` (P) |

### What they assume

The assumptions are those of the modules, which TLC evaluates on every instance;
most say that a constant has its type. Four say more:

- `CommandAssumption`: an `add-capability` asks for something
  (`AsksForSomething`). `app_add_capability.go:98` refuses one that does not,
  before there is a command. Without it `OutcomesAreTrue` is false: the command
  would be committed and change nothing. The proof found this; the instances never
  had such a command.
- `GateAssumption`: nobody, who holds `writeMu` when it is free, is no handler.
- `ContentsAssumption`: what others put into a repository is not marked as a
  migration command of one of the runs.
- `ArgusAssumption`: the keys of Subjects and Events, and the names of the notes
  that are of neither, are different values, and there are finitely many of each.

### The argument

1. **The tree.** `ResultIsTree` goes command by command, over lemmas that say what
   each editor does to an Environment's type. It needs the checks: previews are
   rendered from `binding.name`, which only a complete binding has, and `Allowed`
   is what guarantees it.
2. **The ledger.** None of the tree's invariants is inductive alone.
   `add-capability` judges by prod what staging lacks, so that staging's database
   has its credentials rests on the two having the same Capabilities; the previews
   can only be written again while staging lives and the binding is complete.
   `WellKept(t)` has the invariants together, also of Environments that were deleted
   and whose directory is left, since later commands read them. `ResultKeeps`
   proves it of every command, with `Extends`, the relation of the tree before to
   the one after that `SecretsSurvive` needs: names stay, and a file changes only to
   a KEY that is written or to the credentials of a database that is new. The half of
   `PasswordsMatchLevels` that brings passwords is a relation too, `StaysOpen`, since a
   tree may lack them for as long as there was no age key. `LedgerInv` is `main \in Tree /\ WellKept(main)`.
3. **Writers.** `TypeOK` is not inductive: a Writer that commits needs a command,
   and the bound on `written` needs that a command under way has not landed.
   `Coherent` adds both, and `TypeInv` is the two together. `PushesAreCurrent` needs
   to know, before the commit, that an unmoved Writer's clone is `main`:
   `ClonesAreCurrent`. `CurrentInv` is `TypeInv` with the two. Whoever lands a
   commit marks every clone then in use as behind, which is the whole reason the
   invariant survives a step of another Writer. A landing push is then `Apply` of
   the Writer's command, `Configure` is `CompleteSetting`, and every other step
   leaves `main` alone: that is the refinement.
4. **Deletion.** `DeletionInv` is `LedgerInv` with the property: an Environment whose
   database runs has a tag and a values file, and only `create` takes them away,
   which sets `cleared`. That a deploy never unsets a tag is `Extends` again.
   `TasksFollowTag` is of the ledger too: a command leaves an Environment without a
   tag, or its tag and its tasks as they were, or is the deploy that writes both
   (`TasksComeWithTag`).
5. **The gate.** `GateInv` adds to `CurrentInv` and `LedgerInv` what the handlers
   know: only one is past the mutex and it is the holder (`Exclusive`), who
   works on a deploy of its own (`Handling`); the Environment a handler resolved on
   a clone that is still current is the one on `main` (`Fates`); the registry
   has the image of every tag in every clone (`Built`). `DeploysLandAuthorised`
   needs `ClonesAreCurrent`: the caller was authorised on the clone, and an
   unmoved clone is `main`. `DeploysDoNotRace` is `Exclusive` alone.
6. **The verifier.** `KeysInv` relates the cache to the issuer's history: the cached
   keys are those of some moment no earlier than `fetched`. So none was withdrawn
   before `fetched` (`CacheIsRecent`), and each that was published before it and is
   not withdrawn is there (`CacheIsComplete`); a call under way carries a token of
   the past, and one that fetches knows since when (`Pending`).
7. **The tunnel.** `TunnelInv` is one predicate per call, of its phase, its two
   connections, its copiers, its trail and the server's state, and `Cancelling`:
   a cancel under way names a session that was let in for the same developer and
   Environment, which stays so after that session has ended. A side that reported
   while the session is relayed did so because a peer had gone (`Relayed`), which
   is what `ReasonsAreTrue` needs of the channel `done`. A session that hangs in its
   close is still open and live, and its end is not yet recorded. `Settled` says that
   no Event is on its way once `Shutdown` has returned. The trails make each step one of
   `SessionAudit` or none; the exit of the process, and no other step, is its
   `ProcessEnds`.
8. **app create.** `CreateInv` says where the repository of each run is while the run
   goes on (`Created`, `AdoptedIn`): nobody deletes what a run made and still
   works on, and the id it read belongs to no other repository, ever
   (`UniqueIds`, with ids never used again). `Planned` keeps what the checks
   established, `Told` what a run that ended left behind, `Migrates` whose
   migration command a branch holds. `Evolves` is all a step may do to the
   repositories; everything a step is not of survives it (`StepKeeps`).
9. **Argus.** What a queue makes of a view is a fold of its messages. `FoldIs` says
   that a fold is the last of the views it goes through, and from it come the laws
   the proofs use: of a queue with a message taken off its head (`FoldHead`), of two
   in a row (`FoldConcat`), of frames that are of Subjects or of notes alone
   (`FoldSubjects`, `FoldNotes`), and that to trim a feed as each note comes is to
   trim it when all have come (`TrimmedAppend`). `StreamAddsUp` is of open streams, and
   is inductive with `PictureOK` and `StreamsOK`: a stream that has not been closed
   has room in its queue, so what was sent on it was sent whole, and the snapshot and
   the channel are taken under one lock. For `NeverBackwards`, `InOrder` has the views on
   the way to a browser: each no older than the one before it, none ahead of the
   picture. This outlives the stream that is closed on them; the snapshot that
   follows is of a picture no older, because nothing is numbered ahead (`Counted`). For the
   Events, `FatesOK`: before the feed is seeded nothing is decided of any, and
   after, each has one fate; `Seed`'s two sections and the informers each move an
   Event from the first to the second, whichever comes to it first.
10. **Environment state.** `EnvInv` follows the commits through the cluster: what
   ArgoCD looked at, what it syncs and what it has synced are in the order of the
   commits (`AppOK`); the Deployment is that of a commit which was applied, and after a
   sync of the one that was synced (`RolloutOK`); the Events of accepted Deploys name
   commits in order (`EventsOK`). From there the two properties are about the
   package's operators. `QuietMeansLanded`: with no Activity ArgoCD is in sync with what
   it last looked at, and every accepted Deploy has served or was overtaken; so either
   ArgoCD looked after the last commit and the tag runs, or the newest Deploy has
   served, or its Event is gone, which is the exception the property names.
   `HopsMoveForward` goes hop by hop: what places a Deploy on a hop stays true until
   something moves it on, for a tag that no earlier commit asked for.
   `NotDegradedWhileServing` needs no invariant: it is a fact about the rules of
   `condition.go`, in whichever state they are asked.

### Only model-checked

- Liveness (`CommandsReturn`, `DeploysAreAnswered`, `SessionsEnd`,
  `ShutdownReturns`, `DeletionsEnd`, `EveryCallEnds`, `ViewsCatchUp`,
  `NothingStallsSilently`): it rests on fairness and so on `ENABLED`, which
  the prover does not support.

Every invariant and every action property of a run is proved, and both refinements.
What a fold or a least element comes to is proved where a property rests on it, by
induction over a *set* of natural numbers (`NaturalInduction`, `LeastNatural`), which
follows from `<` being well-founded on them: the library's induction theorems take an
operator and cannot be applied by the provers at hand.

## 5. Not modelled, and the plan

Not modelled for good: text (YAML, templates, messages, the Dockerfile edits of
`nonroot.go`, what a note of Argus says), Terraform, encryption, the browser half
of Argus beyond replaying its stream, the read-only endpoints, the CLI's flags
and questions.

Not modelled yet:

1. **The tree's edges.** Hand-edited bindings; two Applications, whose
   addresses may collide (`writer.go:350`); `TagDeployedAt` over a file's
   history.
2. **Answers taken whole.** The registry's paging and its kinds of failure, the
   tunnel's check and the role a developer gets, and the Capabilities and
   Components Platform state reports: pure functions, each against a reference
   definition.

## 6. Running it

```
tlc -workers 4 -config MCWriter.cfg MCWriter     # a run: the pairs are in PROJECT.json
tlapm PlatformLedger_proofs.tla                  # the proofs of a *_proofs module
```

Definitions commented "Mutant of X" are not part of any specification. Each is
X with a plausible bug; put in its place, the property `PROJECT.json` pairs it
with fails.
