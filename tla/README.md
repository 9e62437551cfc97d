# Verification of FleetHub

FleetHub is a remote monitoring and management server: a Next.js application
(`src/app`) with a Postgres database behind Prisma, agents on the managed
devices behind a WSS gateway, operators in front of a web UI and cron jobs that
call its routes. This directory holds TLA+ models of its core logic, TLC
configurations that check them on small instances, and TLAPS proofs about them
for every value of their constants.

## How the system runs

One container serves everything (`docker-compose.yml`, `restart:
unless-stopped`). What interleaves is request handlers: routes called by
operators, by agents (`POST /api/agent-ingest`, one envelope per call) and by
cron (`/api/cron/*`). A handler is a chain of awaited Prisma statements.
Between two of them any other handler may run; within one, Postgres is atomic
(READ COMMITTED). Nothing but `writeAudit` and the runbook evaluator uses a
transaction with a lock, the evaluator's lock ends with its check, and only the
network probe takes a lease: two firings of one cron may overlap. So the models have **one action per awaited statement** that matters, with the
synchronous JavaScript after it, and a handler's locals are state: they may be
stale when it writes. Prisma's `include` is two SELECTs, and is two actions
where the two can disagree (`BreakerRead`, `BreakerCount`). A row is written
either by a check-and-set (`updateMany ... where { id, state }`) or
unconditionally (`update ... where { id }`); most of what can go wrong is in
the difference.

## Inventory

Paths are under `src/app`. *State* is what the component keeps in the database.

| Component | State | Operations | Hard part | What makes it correct | Here |
|---|---|---|---|---|---|
| Approval gate (`lib/approval-gate.ts`, gated routes, hourly sweep) | `Fl_ActionApproval`: pending, approved, denied, expired, consumed | require, approve, deny, consume, sweep | racing decisions, double consume, payload swap, stale lazy expiry | one approval, one effect, of that very call, by a second person | `Approval` |
| Software deployments (`lib/deployments.ts`, `software.*` envelopes) | `Fl_Deployment`, `Fl_DeploymentTarget`, `Fl_Device.pendingReboot` | create, dispatch, progress, complete, pause, resume, abort, promote, retry, skip, simulate | reports racing dispatch, promotion and abort; stale snapshots; lost answers | stages in order, breaker trips, last target completes, no invented success | `Deployment` |
| Update rings (`lib/rings.ts`) | `Fl_DeployRing.stagesJson` | create, edit, archive, pick the default | edits under a running deployment | stages partition the devices | partly, in `Deployment` |
| Script runs (`lib/script-commands.ts`, `scripts.*` envelopes) | `Fl_ScriptRun` | run, output, complete, cancel, simulate | cancel against completion, lost dispatch answers, concurrent output chunks | a finished run stays finished; a report stands; what the agent sent is kept | `ScriptRun` |
| Runbooks (`lib/runbook-evaluator.ts`, fire and watcher crons, `runbooks/actions.ts`) | `Fl_Runbook`, `Fl_RunbookFire` | evaluate, fire, watch, promote dry run to real run, trip, untrip, disable | overlapping ticks, a lock let go too early, rows listed before they moved on | no real run without its dry run; a success had a run that was ok; failures trip | `Runbook`; deletion and edits left out |
| Alerts (`lib/alert-dispatch.ts`, escalator cron, `alerts/actions.ts`) | `Fl_Alert`, `Fl_AlertDispatch`, `Fl_AlertRoute.isActive` | write, dispatch, acknowledge one or many, escalate, force, resolve, suppress | overlapping firings, ack against escalation and against resolve, a firing that throws | no step notified more often than escalations overlap, silence after ack, a due step is sent | `Alerts`; matching of several routes left out |
| Keys and vault (`lib/crypto-key.ts`, `lib/credential-vault.ts`, `admin/crypto/rotate`) | `Fl_CryptoKey`, `Fl_Credential`, `Fl_CryptoRotation`, a cache in the process | seal, unseal, replace, delete, rotate, rewrap | cached keys, rotation against seal, restart in a rotation | one active key; no live secret left under a key that no rewrap reads | `Vault` |
| Audit chain (`lib/audit.ts`, `lib/audit-chain.ts`) | `Fl_AuditLog` hash chain | append, verify | two rows in one millisecond | the verifier accepts what writers wrote | not modelled, see below |
| Agents (`lib/agent-enroll.ts`, `lib/agent-dispatch.ts`, heartbeats, stale marking) | registrations, enrollment tokens, devices | enroll, heartbeat, revoke, mark offline | token use counted apart from registration, stale reads | token limits, no command after revocation | not modelled, see below |
| Patch installs (`lib/patch-deploy.ts`) | `Fl_PatchInstall`, shared per device and patch | dispatch, progress, complete | rows shared by deployments | a report lands on its own deployment | not modelled, see below |
| Sessions (shell, remote control) | `Fl_ShellSession`, remote sessions | open, exit, expire | watch against reports | an ended session stays ended | not modelled, see below |
| Maintenance (`lib/maintenance.ts`, `maintenance-window-eval`, `admin/maintenance-windows`) | maintenance columns of `Fl_Device`, `Fl_MaintenanceWindow` | switch on, switch off, enter, exit, deactivate, edit the scope | exit derived from the last start, firings that overlap or are cut short | a recorded entry holds its devices; an operator's switch is not undone; a window's end releases | `Maintenance`; cron edits left out; an input of `Deployment` and `ScriptRun` |
| Leases (`lib/evaluator-lease.ts`) | `Fl_EvaluatorLease` | acquire, steal, release | same process twice | one holder | not modelled, see below |
| Report schedules (`lib/report-schedule.ts`) | `Fl_ReportSchedule` | fire due | overlapping ticks | one report per due time | not modelled, see below |
| Step-up, MFA (`lib/step-up.ts`, `lib/mfa.ts`) | replay ledger | issue, consume | replay | one use per token, by a unique key | not modelled: one insert |
| Monitors, posture, probes, roll-ups | their own tables | one cron each | few | aggregation | not modelled |
| Webhooks, PSA, portal, on-call calendar, reports, PDF, packages, CVE, search, UI | | | | | not modelled: external systems, calendar arithmetic, rendering and single-row CRUD |

`PROJECT.json` lists these with their files, and under `hazards` each place
where a step of one handler can meet another in an order no test is written
for, with the property that watches it or the reason none does.

## Modules

| Module | Models |
|---|---|
| `OneShotPermit` | what the approval gate promises: asked by one person, judged once by another, used once; refused, spent and lapsed are final |
| `Approval` | the handlers, the sweep, the clock and restarts that implement it |
| `MCApproval` | calls that tell the gate's guards apart, for TLC |
| `ApprovalProofs` | theorems about `Approval`, and that it implements `OneShotPermit` |
| `Deployment` | one deployment, from creation to its last report |
| `MCDeployment` | two devices and two rings that use each kind of selector but `filter` |
| `DeploymentProofs` | theorems about `Deployment` |
| `ScriptStates` | the states of a script run and how an outcome becomes one, shared by the next two |
| `ScriptRun`, `ScriptRunProofs` | one script run: request, agent, output and completion handlers, cancel |
| `Runbook`, `MCRunbook`, `RunbookProofs` | one runbook: evaluator, fire cron, watcher cron, their fires and runs |
| `Vault`, `MCVault`, `VaultProofs` | the credential vault, its key, its cache and the rotation |
| `Alerts`, `AlertsProofs` | alerts of one route: notification, escalation, acknowledgement, resolution |
| `Maintenance`, `MCMaintenance`, `MaintenanceProofs` | maintenance mode, windows and their evaluator |

`ScriptRun` and `Runbook` are two views of `Fl_ScriptRun` and meet in
`ScriptStates`: `ScriptRun` has every statement that writes one run and is shown to
move as `RunMoves` says (`MovesAsARun`: model-checked, and proved); `Runbook` has several
runs per fire and lets each of them move so, in one step, to an end (`RunEnds`) or from
one end to another (`RunEndsAgain`). `Approval` is the gate
in front of the routes that `Deployment` and `Vault` start from, and `Maintenance`
decides which devices `CreateDeployment` and `runScript` leave out, an input there.

### Approval

`row` is the `Fl_ActionApproval` table, `req[h]` a handler: its program
counter `pc` (the next statement), the caller, the call, the id presented and
the state it has read. `sweepAt` is the time a running sweep took once and
uses in its WHERE clause. `uses` is a history variable.

* `ReceiveCall` is a gated route (the seven callers have one shape; the lines
  mapped are those of `POST /api/deployments`). Depending on
  `ApprovalRequired` and on the id in the body it creates a row, consumes one or
  goes ahead. `Calls` is a set of abstract calls: verb, target list, the other
  fields and the role of the device are all the gate looks at. `PayloadHash`
  keeps what the hash keeps: the order of the ids is lost (the routes sort
  them), their multiplicity is not.
* `ConsumeRead`, `ConsumeCheck`, then `ConsumeExpire` or `ConsumeSet`, then
  `Effect`; `ApproveRead`, `ApproveCheck`, then `ApproveExpire` or
  `ApproveSet`; `DenyRead`, `DenyCheck`, `DenySet`: the statements of the three
  functions in their order, the early returns in theirs. Of a row that was read
  only the state can go stale (the other columns a check looks at are written
  once, by the insert), so only the state is kept as a local.
* `ApproveExpire` is the one plain `update` of the file.
* `Crash` ends every handler and the sweep. A statement that throws ends its
  own handler before it changed anything; in this model that leaves the rows as
  if the request had not come, or, after `ConsumeSet`, as if the effect had
  failed, which `Effect` has.

Sessions, roles and the audit rows (written with `.catch(() => {})`) are left out.

### Deployment

`status`, `currentStage`, `target` and `pendingReboot` are columns; `bucket`
says which stage each target row belongs to; `worker[w]` is a handler with its
locals; `sent` is the devices whose agent got the command. `reports`,
`entered`, `unsettled` and `unchecked` are histories: they record what happened
and no guard reads them.

* `CreateDeployment` spreads the devices that are not in maintenance over the
  stages (`assignTargetsToStages`, with `resolveSelector` and
  `PercentileCounts`), inserts the rows and goes on to dispatch the first stage,
  or leaves a scheduled deployment queued.
* `DispatchList`, then `DispatchSend` and `DispatchWrite` for each target, is
  `dispatchStageTargets`. The gateway's answer and what the agent received are
  chosen apart, so that an answer can be lost; a device without an agent is a
  call that fails and was not received.
* `Progress` and `SoftwareComplete` are the agents' envelopes. They need only
  that the agent got the command, so a report may come late, twice, after a
  skip or an abort. `Simulate` is the administrators' route that plays an agent.
* After the status write: `RebootRead`, `RebootWrite` (`onTargetCompleted`),
  `RefreshRead`, `RefreshWrite` (`refreshDeploymentCounters`), `BreakerRead`,
  `BreakerCount`, `BreakerWrite` (`maybeAutoPause`).
* `Pause`, `Resume`, `Abort` with `AbortSkip`, `Promote` with `PromoteWrite`,
  `Retry` with `RetryWrite`, and `Skip` are the operators' routes, none of
  which looks at the deployment's status first.
* `Crash` ends some handlers: all when the container restarts, one when its
  statement throws (the audit insert of `handleSoftwareComplete` comes before
  `onTargetCompleted` and is not caught).

Left out: the counters (nothing reads them back), audit rows, progress text,
packages and their versions. Assumed: the stages of a ring have different
names, and the ring is not edited while the deployment runs (the hazards list
that). Thresholds and percentages are whole percents, the rounding is the
code's (`Math.ceil`, at least one, at most all).

### ScriptRun

`state`, `dryRun` and `output` are the row, `agent`, `sent` and `report` the
agent, `worker[w]` a handler with the chunk and the row it read.

* `Create` (or `RejectInMaintenance`) is `runScript` up to its insert. `Dispatch`
  is the call to the gateway: what the agent got and what the gateway answered are
  chosen apart. `Reject` is the update by id after a failed call.
* `SendChunk` and `SendReport` are the agent. A frame may be handled late, twice,
  beside another, or never; no cancel reaches the agent.
* `OutputRead`, `OutputBegin` (queued to running, the one check-and-set), then
  `OutputAppend`, which writes what was read plus the chunk, cut at the cap.
* `CompleteRead` and `CompleteWrite`; `CancelRead` and `CancelWrite`; `Simulate`
  is the administrators' route where there is no gateway.

The agent's outcomes and the row's states differ: a dry run ends as "dryrun"
whatever happened, and a run that was cancelled stays so unless it timed out or
was dry (`nextState` in `ScriptStates`). Audit rows, exit codes, sizes, times
and the second stream are left out.

### Runbook

`fires` and `runs` are the rows in the order they were made; `worker[w]` is an
evaluator or a tick of either cron, with the rows it listed and the one it is at.

* `Evaluate`, `CooldownGate`, `RateGate`, `Schedule`, and `TripRead`,
  `TripWrite`, `SkipTripped` when the hourly limit is reached:
  `evaluateRunbooksForAlert`, called by the writer of an alert. The cooldown
  gate is a transaction under an advisory lock; the insert comes after it.
* `FireTick` lists due fires; for each `FireCheck` (the alert), then `SkipCleared`, or
  `FireOpen` (the runbook) and `SkipOff`, or `FireRun` and `Fired`. `FireThrows` is the catch block.
* `WatchTick` lists what runs; for each `ReadRun`, then `Settle`, `DryRunFailed`, or, for a
  dry run that was ok, `Decide` (the runbook is read, the predicate evaluated) with
  `PredicateFailed`, or `EnqueueReal` and `Enqueued` (`EnqueueThrows` is its own catch
  block, `WatchThrows` that of the loop); then `checkConsecutiveFailures` and
  the trip. Ticks write rows by id, whatever another tick has made of them.
* `RunEnds`, `RunEndsAgain`, `CloseAlert`, `toggleActive`, `untripRunbook` and `Crash` are what
  the handlers meet.

Reads that commute with everything between them are one action. `edge` is time: the
last fire that was older than `cooldownMin` when an evaluator last started. It moves
forward by any number of fires as an evaluator starts, and an evaluator keeps the
edge it started from. `peak` is a history: the most evaluations for a (kind, device) that ever
stood past the gate at once, each with its fire still to write. Which fires are too old for the hourly rate
is left open, since an hour and `cooldownMin` may be in either order. The fire cron finds
due the pending fires among any number of the oldest: `scheduledAt` is the time of the
evaluation plus `graceMin`, so two fires change places only when `graceMin` is edited
between them, or when two evaluations overlap and write against the order of their
clocks. Neither is modelled (thresholds are not edited). Every end of a run the
watcher takes for a failure stands as "error". **The end of a run is not its last word**: a
dispatch that seemed to fail is followed by the agent's report, a cancel is written over a
report, an operator simulates. A watcher may so settle a fire by an end that another one
replaces, and two ticks may read two ends of one run. The properties therefore
speak of a run that *has been* ok (`wasOk`), which is all that the code can promise. Deleting a runbook, editing its
thresholds, malformed predicates and batch limits are left out.

### Vault

A ciphertext is the version of the key that sealed it. `key`, `cred` and
`rotation` are the tables, `cache` the key cached in the process.

* `Seal`, `Unseal` and `ReplaceRead` begin a request; `ReadActiveKey` is the part of
  `getActiveKey` before its await, `UseKey` what comes after it (it fills the
  cache), `Write` the insert, or the transaction that replaces.
* `RotateKey` checks for a rotation in progress; `ReadPrior`, `ReadNewest`,
  `CreateKey` (one transaction: insert under the unique index, retire the others),
  `DropCache`, `RecordRotation`; then `RewrapBatch`, `RewrapRow` and
  `RotationDone` in the background, after the answer.
* `Throw` ends one request where it stands, before or after its commit; `Crash`
  ends all and empties the cache.

While a rotation runs, rows that it has not reached cannot be opened: unseal
looks at the active key only, and nothing locks the rows although a comment of
the rotation speaks of `FOR UPDATE`. The model has the throw; the property asks
that each such row is reached. Step-up, approval, disclosure logs, tenants and
the other key purposes are left out.

### Alerts

`dispatches[a][s]` are the rows of step `s` of alert `a` (step 0 is the first
notification), each with its channel and what its `escalateAt` says: it waits, it is due,
or it does not escalate. `worker[w]` is a request or a firing of the cron. `peak` is a
history: the most escalations of an alert that were ever under way at once.

* `WriteAlert`, `Route`, `FanOut` (one channel at a time: send, then its row).
* `AckRead`, `AckWrite`, `Cascade` (acknowledge, then quiet the rows);
  `BulkRead`, `BulkWrite` (many alerts, no cascade); `ResolveRead`,
  `ResolveWrite`; `ForceEscalate` and `Unforce`; `Suppress` is a window's entry.
* `CronRead` reads the due rows of alerts neither acknowledged nor resolved,
  `CronRoutes` whether the route is on, `CronCounts` the steps already sent, `EscalateOne` begins a group's fan-out and
  `ClearDue` quiets every row that was read.
* `Due` is time passing, `Throw` a statement that throws, `Crash` a restart.

One route; its matching, the fallback webhook, channel adapters, audit rows and
the batch limit are left out. Whether an older row of the route is inside the
dedup window is left open.

### Maintenance

Time is a slot. `dev[d]` is the flag, its end and who set it; `win[w]` a window
with `lastFiredAt` and scope; `job[e]` a firing of the evaluator.

* `SwitchOn` and `SwitchOff` are `setMaintenance`; `ToggleWindow` and `EditScope`
  the administrators' route.
* `Tick` reads all windows and the clock once. For a window that was entered, `Flip` sets
  the devices of the scope and `Mark` records the start; `Exit` clears what a window
  has set, on every firing after the end until the next start.
* `Cut` ends a firing between two statements. `Advance` is time.

`prevStart` is what `windowBoundsAt` finds in a cron expression. Next dates, edits of
a window's cron or duration, and `drainExpiredMaintenance`, which nothing calls,
are left out; alerts suppressed by an entry are a step of `Alerts`.

## Runs

| Run | Result | Shows | Size |
|---|---|---|---|
| `approval` | passes | `AtMostOneEffect`, `EffectAuthorised`, `DecisionStands`, `PendingSettles`, `ImplementsPermit`, `TypeOK` | 562,824 states, about a minute |
| `deployment` | passes | `StagesPartition`, `NoStageSkipped`, `ReportedFailuresTrip`, `SettledIsNotRunning`, `NoFalseSuccess`, `RebootRemembered`, `TypeOK` | 1,447,120 states, over a minute |
| `deployment_dispatch` | violated | a report that comes before the dispatch loop writes its row is overwritten by "dispatched" | |
| `deployment_breaker` | violated | dispatch failures do not reach the circuit breaker | |
| `script_run` | passes | `MovesAsARun`, `ReportIsFinal`, `CancelHolds`, `OutputKept`, `ReportEndsRun`, `TypeOK` | 537,432 states, about a minute |
| `runbook` | passes | `RealRunFollowsDryRun`, `SucceededFireRan`, `RunsAreWanted`, `CooldownBound`, `FailureStreakTrips`, `TypeOK` | 2,474,389 states, about three minutes |
| `runbook_dry_run` | violated | a dry run that has ended is never settled: the watcher's list of terminal states leaves out "dryrun" | |
| `runbook_cooldown` | violated | two evaluations both pass the cooldown gate and double-fire, which the comment on its lock says cannot happen | |
| `vault` | passes | `OneActiveKey`, `NothingStranded`, `CacheFollowsRotation`, `ReplacedIsKept`, `TypeOK` | 1,202,168 states, under a minute |
| `alerts` | passes | `PagesWithinOverlap`, `ClosedIsSilent`, `ResolveHolds`, `DueEscalates`, `TypeOK` | 253,598 states, about a minute |
| `alerts_overlap` | violated | two firings of the escalator notify one step twice, which its header says cannot happen | |
| `maintenance` | passes | `EnteredMeansHeld`, `OperatorFlagStands`, `ReleaseIsDue`, `Released`, `TypeOK` | 253,743 states, a minute and a half |

The violated properties state a comment of the source; `PROJECT.json` quotes
it and the line that differs. Two more configurations stand beside the table,
each for a comment that only a label breaks: `MCApprovalFinal.cfg` (`DecidedIsFinal`:
the lazy expiry writes "expired" over a denied or a consumed row, which the header of
`lib/approval-gate.ts` calls one-way) and `MCDeploymentAborted.cfg`
(`AbortedIsNotCompleted`: a late refresh turns "aborted" into "completed"). TLC finds
both violated, too.

Many properties name their exceptions ("unless two rotations passed the check
together") or bound what an overlap can do (`CooldownBound`, `PagesWithinOverlap`). Those
are races the code really has; a history variable marks or counts them, so that the
property holds everywhere else and the exception cannot hide more than its name says. The
mutants show that the property still bites beside its exceptions. For most of
them neither the code nor its docs promise anything else. Where a comment does, it is
a finding:

* the cooldown's lock (`lib/runbook-evaluator.ts:68-71`, `docs/PHASE-7-DESIGN.md:39`):
  run `runbook_cooldown`, beside `CooldownBound`;
* the escalator's idempotence (`app/api/cron/alert-escalator/route.ts:18-20`, `:153`):
  run `alerts_overlap`, beside `PagesWithinOverlap`;
* the drain of expired maintenance dates (`lib/maintenance.ts:11-13`), which nothing
  calls: `Released` excepts the windows it would be needed for (deactivated, or a device
  taken out of the scope, while in force). No run is needed to see a function without
  a caller.

**Bounds, approval.** One row, two operators, two handlers, two ticks of life,
one restart. Every property is about one row, and rows share nothing but the
sweep's statement, so one is enough; each race of the code is between two
handlers, or a handler and the sweep, which is a process of its own; two
operators are the asker and the second person, and both asking and deciding are
open to both. `TTL = 1` and `MaxTime = 2` let every row live, lapse and be swept;
a row whose expiry the clock could not reach is not created, so the bound
on the clock hides no pending row from `PendingSettles`. The five calls
give, for each of verb, payload and policy, two calls that differ there only.
The theorems below have none of these bounds.

**Bounds, deployment.** Two devices, two handlers, four operators' requests or
final reports (the creation is one), one restart or error. Progress envelopes are
not bounded. One ring has a single stage for both devices, with a threshold one
failure of two does not exceed; the other has a pinned canary, a percentile stage that
rounds up, and a last stage that is empty unless maintenance holds the canary's device back,
so that three stages can be entered and skipped. `Outcomes` is "failed" and
"reboot-deferred": "succeeded" and "no-op" are treated by every statement like
"reboot-deferred" without the flag. Handlers are interchangeable, and no
liveness is checked in this run, so `Workers` is a symmetry set. The instance
does stop (four requests), so deadlock is not checked there; in `approval`
it is, and requests keep coming.

**Bounds, script run.** Two handlers, two chunks and a cap of two: two chunks can
race, and a chunk handled twice meets a full row. The agent may report a
success, a timeout or a cancel, the three that `nextState` treats
differently after a cancel; operators may simulate a failure.

**Bounds, runbook.** Two alerts of one kind and device, two handlers (two ticks of
one cron, one of each, or a tick and an evaluator), two fires, two runs, and one
fault: a toggle, a restart, a throw or a run that ends a second time. Two evaluations
past the gate together and one after the other both occur, and an edge that moves
between them. The hourly limit is one, the failure limit two, so that both
trip within the bounds. A runbook that runs at once and one that runs dry first.
Alerts and handlers are symmetric; there is no liveness in that run. `runbook_dry_run`
needs no more than one alert, one handler and no fault, and adds the script that can
only run dry; `runbook_cooldown` needs no fault and an hourly limit that is not in the way.

**Bounds, vault.** Two requests, two credentials, three versions (two rotations, one after
the other or overlapped), batches of one, so that a rewrap reads again, and one
error or crash. Requests and credentials are symmetric.

**Bounds, alerts.** One alert, two requests and two firings of the cron, so that
firings overlap each other and forced escalations; a chain of one step (a step that is
repeated, and the end of the chain); one channel each, one error or restart, one switch
of the route or window. `alerts_overlap` has a chain of two and one request. The theorems are for any
number of each.

**Bounds, maintenance.** One device in two windows, one of which comes twice with
the other between its occurrences, and a slot outside both; two overlapping
firings, one of them cut short, two operators' steps. Every property is about one
device, and windows that share a device are what can go wrong.

Systems whose rows are used up, or whose clock has run out, stop: deadlock is not
checked in these runs.

**Fairness.** `FairSpec` of `Approval` has weak fairness for the clock and for
the two statements of the sweep: cron calls the route every hour, and when the
container has died it calls again. Nothing is assumed of handlers, operators
or restarts. `Deployment` has no fairness and no liveness property because
nothing in the code schedules a step of it: there is no auto-promotion, no
start of a scheduled deployment and no redispatch, and a lost report is not
asked for again. In `ScriptRun` a handler goes on (weak) and a report that was
sent is handled in the end (strong, as handlers come free and are taken
again); a report that never comes leaves the run as it is, as nothing reaps it.
`Runbook` has weak fairness for each handler and for the two crons, which the
scheduler calls every minute. `Alerts` and `Maintenance` have it for the firings
of their crons only, not for requests, operators or time. `Vault` needs none.

**Mutants.** Each property of each passing run has one mutant of a mapped
definition that violates it (`PROJECT.json`, `mutants`); the mutated
definition stands before the real one in the module, with a comment.

## Proofs

For any rows, operators, calls, policy and handlers (`ApprovalProofs`), any
list of devices, rings and handlers (`DeploymentProofs`), any handlers, chunks
and cap (`ScriptRunProofs`), any alerts, modes, limits and handlers
(`RunbookProofs`), any requests, credentials and versions (`VaultProofs`), any
alerts, channels and chain (`AlertsProofs`) and any devices, windows, schedules and
firings (`MaintenanceProofs`). Each module's assumption on its constants only gives them
their types, keeps `None` and the like apart from the sets they are added to,
and, for a runbook and for alerts, says that finitely many handlers run at once. The bounds
on time, requests and crashes are constants too, so the theorems hold for each.

*Approval.* `IInv` adds to `TypeOK` what the columns of a row say together
(a consumed row has an approver other than its requester, a denied one a
reason and never a `consumedAt`, ...), that a handler past a check knows what
the check established, that **at most one handler per row stands between the
consuming update and the effect**, and that while it stands there the row was
not used. The last two are why one approval authorises one effect:
`AtMostOneEffect` alone is not inductive, as it does not say that a second
handler cannot be about to act. Every change of
a row is one of five moves (`Inserted`, `Granted`, `Refused`, `Consumed`,
`Expired`: `RowMove`), and every action is shown to make one or none; the
theorems about rows and the refinement of `OneShotPermit` are then about moves,
not about each statement. Theorems: `Invariance`, `TypeCorrect`, `OneEffect`, `Authorised`, `Decided`,
`Refinement` (each for `Spec`; `FairSpec` implies it).

*Deployment.* `IInv` is `TypeOK`, the locals of the handlers (a handler that
dispatches a stage does so for one that was entered, and its list is within
that stage's bucket; a promotion under way is to the successor of an entered
stage), `NoFalseSuccess`, and two facts that say who will repair what is not
yet right: if every target is settled and the deployment still runs, some
handler has yet to see it (`SettledOK`); if a target waits for a reboot and its
device is not flagged, some handler has yet to flag it (`RebootOK`). They are
the strengthening of `SettledIsNotRunning` and `RebootRemembered`, which only
speak of moments with no handler under way. `ReportedFailuresTrip` needs a third
(`BreakerOK`): while the current stage of a running deployment is beyond its threshold, some
handler has yet to look at the rate of that very stage, or has seen it exceeded. Its lemmas say how the
cardinalities of a stage's failed and settled targets move when one target does.
`StagesPartition` is proved of `assignTargetsToStages` itself, for any ring and device list:
each stage takes a set of positions from those that are left. The assignment is written
over positions for that reason: the prover has no definition of `SelectSeq`.
Theorems: `Invariance`, `TypeCorrect`, `StagesInOrder`, `OnlyReportedSuccess`,
`Settled`, `Reboots`, `FailuresTrip`, `Partition`.

*Script run.* `IInv` adds to `TypeOK` what a handler's locals say of the row;
that the run is dispatched once and the agent knows nothing before; that once a
report has settled the run, **the only completions still to be written are of that
same report and give the same state**; that nobody writes a run that is not there; that after a settled cancel none of the
writers left can turn it into anything but the three states; and which chunks the
row has or a handler is about to write. Theorems: `Invariance`, `TypeCorrect`,
`CancelKept`, `OutputLostOnlyInRaces`, `ReportStands`, `MovesAsRunsDo`.

*Runbook.* Ticks work from lists that may be stale, so `IInv` says what stays
true of a stale entry: the run listed with a row, or just made for it, is a run
of that fire, dry if it was listed as dry; a run that is ok has been ok, and that stays;
a row visited was never
skipped for its cooldown. With that a real run is only ever enqueued behind an ok dry run of
its own fire, by whatever tick. The rest: a fire that runs points to a run of its
own, evaluators under way have a row left, and a handler that has been off all along
is on its way to no run. `FailureStreakTrips` is inductive once it is known that only a
watcher owes a check and owes it until it has made it (`StreakOK`): the streak grows only by a
handler that goes on to owe one, and the check is made on the rows as they are then. It is
invariant given `IInv`, and proved beside it. So is `CooldownBound`: it is not inductive, as
it does not say how many fires are on their way. `CoolOK` does: **the fires inside the cooldown and
the evaluations past the gate are together at most the peak**. An evaluation that passes
the gate found no fire inside its own window, which is no shorter than the one that
`edge` ends, so only evaluations count at that moment, and they set the peak; one that writes its
fire moves from one part of the sum to the other; time only takes fires away. Theorems:
`Invariance`, `TypeCorrect`, `DryRunGate`, `SuccessRan`, `Wanted`, `CoolInvariance`,
`CooldownHolds`, `StreakTrips`.

*Vault.* `IInv` says which versions exist (those up to the newest, the newest active,
all others retired), that a sealed version exists, and, unless two
rotations passed the check together, that one rotation runs at a time, that its
row in progress keeps others out, and that from its commit to its end it stands
between the version before and the active one. `NothingStranded` follows only with
the last: a row under a retired version is either in the reach of that rotation or one of
the named exceptions. Theorems: `Invariance`, `TypeCorrect`, `OneKey`, `Reached`,
`CacheFresh`, `HistoryKept`.

*Alerts.* `PagesWithinOverlap` is not inductive: it does not say who is about to
send. `IInv` does: **the rows of a channel of a step and the handlers that have still to
use it are together at most the peak of the alert, and so are the handlers that escalate it**. A handler that begins counts
itself among those under way; one that reads the counts drops the steps that have rows, and
where a step has none, only handlers under way can use its channels; one that uses a
channel moves from one part of the sum to the other. The rest says that channels are left only to a fan-out, that a group to escalate has a next step, and
that a settled alert is resolved with no acknowledgement under way that could write it.
Theorems: `Invariance`, `TypeCorrect`, `Once`, `Resolved`, `Quietness`.

*Maintenance.* A firing acts on what it read, so `IInv` says what of that
cannot have changed: its time has come; the windows it enters hold that time and the
ones it exits do not; a flag that a window set ends with an occurrence that has
begun; the devices of an entry that is recorded, or about to be, are held unless
someone wrote them since. Two lemmas about `prevStart` (the last start up to a time
only moves to a later one) rest on the well-foundedness of `<`. Theorems: `Invariance`,
`TypeCorrect`, `Held`, `OperatorStands`, `DueRelease`.

**Only model-checked.** `PendingSettles`, `ReportEndsRun`, `DueEscalates` and
`Released`: liveness under fairness is out of the prover's reach. Every safety property of
the passing runs has a theorem.

## Not modelled

`PROJECT.json` says of each component why; what the survey met there, without a
model:

* *Patch installs* have the shape of deployments without stages. Their own
  race: one row per device and patch is shared by deployments, and a dispatch
  writes over a report (`lib/patch-deploy.ts:147`, `:176`).
* *Agents.* Each handler is a check and one write. A token's use is counted apart from
  the registration (`lib/agent-enroll.ts:149`), a revocation is looked at before the
  send (`lib/agent-dispatch.ts:38`), a device may be marked offline from a list older
  than its heartbeat (`app/api/cron/stale-agents/route.ts:34`), which the next one repairs.
* *Sessions.* A watch may expire a shell that has exited
  (`app/api/cron/shell-session-watch/route.ts:45`): a check, then a write by id, as in `ScriptRun`.
* *Leases.* Only the network probe takes one (`lib/evaluator-lease.ts:45`); what it writes is idempotent.
* *Report schedules.* Two overlapping ticks send a report twice
  (`app/api/cron/report-schedules/route.ts:25`); the rest is calendar arithmetic.
* *Audit chain.* Writers are serialised by a lock; what can go wrong is the order of
  equal timestamps (`lib/audit.ts:40`), inside the database.
* *Rings.* Stages are looked up by name in a list that may be edited meanwhile
  (`lib/rings.ts:109`).
* *Scheduled deployments* have no scheduler to model (`lib/deployments.ts:15`).
* *Step-up and MFA*: a unique insert. *Webhooks, PSA, portal*: the other side is not here.
  *On-call*: calendar arithmetic. *Monitors, posture, reports, packages, CVE, search,
  UI*: computations and rendering over rows written by one cron or one request.

Of the modelled components, the counters and rows that nothing reads back, audit
rows, texts, sizes and times are left out throughout, as each section says.

## Plan

1. `Approval`, `OneShotPermit`, `Deployment` and their proofs (done).
2. `ScriptRun`, `Runbook`, `Vault`, `Alerts`, `Maintenance` and their proofs (done).
3. Theorems for every safety property of the runs: `ReportedFailuresTrip`,
   `StagesPartition` and `FailureStreakTrips` came last (done).
4. `Patch`: patch installs, with a row shared by two deployments, reusing the shape of
   `Deployment`; ring edits under a running deployment.
5. The composition of `Runbook` with `ScriptRun`: `ScriptRun` moves as `RunMoves` says, and
   `Runbook` lets its runs do so (done).

## Running

`tlasany M.tla` parses a module, `tlc -config X.cfg M` checks a run of the
table in `PROJECT.json`, `tlapm M.tla` checks the proofs of a `*Proofs` module.
From nothing `AlertsProofs` and `RunbookProofs` take a few minutes each.
