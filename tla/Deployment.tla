----------------------------- MODULE Deployment -----------------------------
(***************************************************************************)
(* One software deployment: lib/deployments.ts, its routes, and the        *)
(* software.* half of lib/agent-ingest.ts.                                 *)
(*                                                                         *)
(* A deployment's targets are spread over the stages of an update ring and *)
(* dispatched stage by stage.  Operators' requests and agents' reports are *)
(* served by handlers that interleave between awaited statements, each     *)
(* statement being one action here.  A handler keeps what it read in its   *)
(* own locals, which may be stale when it writes.                          *)
(*                                                                         *)
(* Left out: audit rows, progress text, stderr tails, exit codes and the   *)
(* counters on the deployment row, which nothing in the code reads back.   *)
(***************************************************************************)
EXTENDS Integers, Sequences, FiniteSets

CONSTANTS
  Devices,           \* the devices asked for, in the order the caller lists them
  Rings,             \* the rings a deployment can use, see RingType
  Workers,           \* HTTP handlers in flight at once
  Outcomes,          \* what an agent may report
  GatewayConfigured, \* PCC2K_GATEWAY_URL is set
  MaxRequests,       \* bound on operators' requests and agents' final reports
  MaxCrashes,        \* bound on restarts and on requests that throw
  None               \* no device

VARIABLES
  status,        \* Fl_Deployment.status, "none" before it is created
  ring,          \* the ring it is asked to use: a sequence of stages
  currentStage,  \* index of Fl_Deployment.currentStage
  bucket,        \* the device ids of each stage's target rows
  target,        \* Fl_DeploymentTarget.status by device, "none" without a row
  pendingReboot, \* devices with Fl_Device.pendingReboot
  worker,        \* what each handler is doing, with its locals
  sent,          \* devices whose agent received the command
  requests, crashes,
  reports,       \* history: the outcomes reported for each device
  entered,       \* history: stages that have been current
  unsettled,     \* history: set running, or targets settled, outside the
                 \*   handlers that refresh, and none has refreshed since
  unchecked      \* history: set running, or failures raised, outside the
                 \*   handlers that check the breaker, and none has since

vars == <<status, ring, currentStage, bucket, target, pendingReboot, worker, sent,
          requests, crashes, reports, entered, unsettled, unchecked>>

DeviceSet == {Devices[i] : i \in DOMAIN Devices}

SelectorKinds == {"pinned", "filter", "percentile", "remaining"}

\* "pick" is what a pinned list names or a filter matches; percentages are
\* whole numbers.
StageType == [kind : SelectorKinds, pick : SUBSET DeviceSet, percent : 0..100,
              abortFailureRate : 0..100]

RingType == Seq(StageType) \ {<<>>}

ASSUME DeploymentAssumption ==
  /\ Devices \in Seq(STRING)
  /\ Rings \subseteq RingType
  /\ Outcomes \subseteq {"succeeded", "no-op", "failed", "reboot-deferred"}
  /\ GatewayConfigured \in BOOLEAN
  /\ MaxRequests \in Nat
  /\ MaxCrashes \in Nat
  /\ None \notin DeviceSet

-----------------------------------------------------------------------------
(* Stage assignment                                                        *)

\* The candidates of a stage are kept as their positions in the caller's list.
DevicesAt(at) == {Devices[n] : n \in at}

\* slice(0, n)
FirstOf(at, n) == {m \in at : Cardinality({k \in at : k <= m}) <= n}

\* Math.max(1, Math.ceil(percent / 100 * n)).  A product that is a whole number
\* may come out just above it, and round up, unless the fraction is binary:
\* 7 / 100 * 100 > 7.
PercentileCounts(percent, n) ==
  LET rounded == (percent * n + 99) \div 100
      inexact == percent % 25 # 0 /\ (percent * n) % 100 = 0
  IN  {IF rounded < 1 THEN 1 ELSE rounded} \cup IF inexact THEN {rounded + 1} ELSE {}

\* The candidates at these positions resolve to ids.
resolveSelector(stage, at, ids) ==
  CASE stage.kind \in {"pinned", "filter"} -> ids = DevicesAt(at) \cap stage.pick
    [] stage.kind = "percentile" ->
         \E n \in PercentileCounts(stage.percent, Cardinality(at)) : ids = DevicesAt(FirstOf(at, n))
    [] stage.kind = "remaining" -> ids = DevicesAt(at)

\* Mutant of candidates: claimed devices stay candidates.
candidatesNotRemoved(paused, b, i) == {n \in DOMAIN Devices : Devices[n] \notin paused}

\* The devices out of maintenance still unclaimed when stage i comes up.
candidates(paused, b, i) ==
  {n \in DOMAIN Devices : Devices[n] \notin paused \cup UNION {b[j] : j \in 1..(i - 1)}}

\* assignTargetsToStages returns a b for which this holds.  Whatever a
\* "remaining" stage meets it claims, so the code's second pass over the
\* leftovers finds none; without such a stage, leftovers get no target.
assignTargetsToStages(stages, paused, b) ==
  \A i \in 1..Len(stages) : resolveSelector(stages[i], candidates(paused, b, i), b[i])

-----------------------------------------------------------------------------
(* Rows and handlers                                                       *)

isTerminalStatus(s) == s \in {"succeeded", "failed", "no-op", "skipped", "reboot-deferred"}

Open == {"pending", "dispatched", "running"}

TargetStates == {"none", "pending", "dispatched", "running", "succeeded", "failed",
                 "no-op", "skipped", "reboot-deferred"}

DeploymentStates == {"none", "queued", "running", "paused", "auto-paused",
                     "completed", "aborted"}

\* refreshDeploymentCounters: no row is open.
allTerminal == \A d \in DeviceSet : target[d] \notin Open

\* summarizeStage(..).failureRate > abortFailureRate.
CountIn(ids, states) == Cardinality({d \in ids : target[d] \in states})

FailureRateExceeded(stage) ==
  LET ids == bucket[stage]
      decided == CountIn(ids, {s \in TargetStates : isTerminalStatus(s)})
  IN  CountIn(ids, {"failed"}) * 100 > ring[stage].abortFailureRate * decided

Steps == {"idle", "abort.skip", "promote.write", "retry.write", "dispatch.list",
          "dispatch.send", "dispatch.write", "reboot.read", "reboot.write",
          "refresh.read", "refresh.write", "breaker.read", "breaker.count", "breaker.write"}

\* device, stage: the target and the stage at hand; todo: targets still to
\* dispatch; flag: what the last read decided; complete: the handler ends with
\* maybeAutoPause.
IdleWorker == [pc |-> "idle", device |-> None, todo |-> {}, stage |-> 1,
               flag |-> FALSE, complete |-> FALSE]

Become(w, r) == worker' = [worker EXCEPT ![w] = r]
Finish(w) == Become(w, IdleWorker)

\* The handler goes on to refreshDeploymentCounters.
Refresh(w) == Become(w, [worker[w] EXCEPT !.pc = "refresh.read", !.device = None])

\* A handler takes up a request, or a report, as r.
Serve(w, r) ==
  /\ worker[w].pc = "idle"
  /\ requests < MaxRequests
  /\ requests' = requests + 1
  /\ Become(w, r)

deployment == <<status, ring, currentStage, bucket>>
agents == <<sent, reports>>
history == <<entered, unsettled, unchecked>>

-----------------------------------------------------------------------------
(* Creation and dispatch                                                   *)

\* createDeployment.  Devices in maintenance are dropped, a scheduled
\* deployment stays queued, an immediate one goes on to dispatch stage one.
CreateDeployment(w) ==
  /\ status = "none"
  /\ \E paused \in SUBSET DeviceSet, scheduled \in BOOLEAN,
        b \in [1..Len(ring) -> SUBSET DeviceSet] :
       /\ assignTargetsToStages(ring, paused, b)
       /\ bucket' = b
       /\ target' = [d \in DeviceSet |->
            IF \E i \in DOMAIN b : d \in b[i] THEN "pending" ELSE "none"]
       /\ status' = IF scheduled THEN "queued" ELSE "running"
       /\ Serve(w, IF scheduled THEN IdleWorker ELSE [IdleWorker EXCEPT !.pc = "dispatch.list"])
  /\ currentStage' = 1
  /\ entered' = {1}
  /\ UNCHANGED <<ring, pendingReboot, crashes, agents, unsettled, unchecked>>

\* dispatchStageTargets: the pending targets of the stage, read once.
DispatchList(w) ==
  LET pending == {d \in bucket[worker[w].stage] : target[d] = "pending"} IN
  /\ worker[w].pc = "dispatch.list"
  /\ IF GatewayConfigured /\ pending # {}
       THEN Become(w, [worker[w] EXCEPT !.pc = "dispatch.send", !.todo = pending])
       ELSE Finish(w)
  /\ UNCHANGED <<deployment, target, pendingReboot, agents, requests, crashes, history>>

\* dispatchToAgent for the next target.  The gateway's answer may be lost
\* after the agent was reached, so a failed call says nothing about "sent".
DispatchSend(w) ==
  /\ worker[w].pc = "dispatch.send"
  /\ \E d \in worker[w].todo, ok \in BOOLEAN, received \in BOOLEAN :
       /\ ok => received
       /\ sent' = IF received THEN sent \cup {d} ELSE sent
       /\ Become(w, [worker[w] EXCEPT !.pc = "dispatch.write", !.device = d, !.flag = ok,
                                      !.todo = @ \ {d}])
  /\ UNCHANGED <<deployment, target, pendingReboot, reports, requests, crashes, history>>

\* The outcome is written by id, whatever the target's status has become,
\* and neither the counters nor the breaker run: a failure written here may
\* settle the last target or push the failure rate up, unnoticed.
DispatchWrite(w) ==
  LET d == worker[w].device IN
  /\ worker[w].pc = "dispatch.write"
  /\ target' = [target EXCEPT ![d] = IF worker[w].flag THEN "dispatched" ELSE "failed"]
  /\ unsettled' = (unsettled \/ ~worker[w].flag)
  /\ unchecked' = (unchecked \/ ~worker[w].flag \/ isTerminalStatus(target[d]))
  /\ IF worker[w].todo = {}
       THEN Finish(w)
       ELSE Become(w, [worker[w] EXCEPT !.pc = "dispatch.send", !.device = None, !.flag = FALSE])
  /\ UNCHANGED <<deployment, pendingReboot, agents, requests, crashes, entered>>

-----------------------------------------------------------------------------
(* Reports of the agents                                                   *)

\* The device whose agent is heard, and what it says.
Reported(d, outcome) ==
  /\ target' = [target EXCEPT ![d] = outcome]
  /\ reports' = [reports EXCEPT ![d] = @ \cup {outcome}]

\* handleSoftwareProgress: a check-and-set, in one statement.
Progress(d) ==
  /\ d \in sent
  /\ target[d] \in {"pending", "dispatched"}
  /\ target' = [target EXCEPT ![d] = "running"]
  /\ UNCHANGED <<deployment, pendingReboot, worker, agents, requests, crashes, history>>

\* Mutant of SoftwareComplete: it does not go on to onTargetCompleted.
SoftwareCompleteOnly(w) ==
  /\ \E d \in sent, outcome \in Outcomes :
       /\ Reported(d, outcome)
       /\ Serve(w, IdleWorker)
  /\ UNCHANGED <<deployment, pendingReboot, sent, crashes, history>>

\* handleSoftwareComplete: the status is written by id; then onTargetCompleted.
SoftwareComplete(w) ==
  /\ \E d \in sent, outcome \in Outcomes :
       /\ Reported(d, outcome)
       /\ Serve(w, [IdleWorker EXCEPT !.pc = "reboot.read", !.device = d, !.complete = TRUE])
  /\ UNCHANGED <<deployment, pendingReboot, sent, crashes, history>>

\* simulateAgentResponse: the same from an administrator, for any target.
Simulate(w) ==
  /\ \E d \in DeviceSet, outcome \in Outcomes :
       /\ target[d] # "none"
       /\ Reported(d, outcome)
       /\ Serve(w, IF outcome = "reboot-deferred"
                     THEN [IdleWorker EXCEPT !.pc = "reboot.write", !.device = d, !.complete = TRUE]
                     ELSE [IdleWorker EXCEPT !.pc = "refresh.read", !.complete = TRUE])
  /\ UNCHANGED <<deployment, pendingReboot, sent, crashes, history>>

\* Mutant of RebootRead: the wrong status is looked for.
RebootReadSucceeded(w) ==
  /\ worker[w].pc = "reboot.read"
  /\ IF target[worker[w].device] = "succeeded"
       THEN Become(w, [worker[w] EXCEPT !.pc = "reboot.write"])
       ELSE Refresh(w)
  /\ UNCHANGED <<deployment, target, pendingReboot, agents, requests, crashes, history>>

\* onTargetCompleted reads the status again before it flags the device.
RebootRead(w) ==
  /\ worker[w].pc = "reboot.read"
  /\ IF target[worker[w].device] = "reboot-deferred"
       THEN Become(w, [worker[w] EXCEPT !.pc = "reboot.write"])
       ELSE Refresh(w)
  /\ UNCHANGED <<deployment, target, pendingReboot, agents, requests, crashes, history>>

RebootWrite(w) ==
  /\ worker[w].pc = "reboot.write"
  /\ pendingReboot' = pendingReboot \cup {worker[w].device}
  /\ Refresh(w)
  /\ UNCHANGED <<deployment, target, agents, requests, crashes, history>>

RefreshRead(w) ==
  /\ worker[w].pc = "refresh.read"
  /\ Become(w, [worker[w] EXCEPT !.pc = "refresh.write", !.flag = allTerminal])
  /\ unsettled' = FALSE
  /\ UNCHANGED <<deployment, target, pendingReboot, agents, requests, crashes, entered, unchecked>>

RefreshWrite(w) ==
  /\ worker[w].pc = "refresh.write"
  /\ status' = IF worker[w].flag THEN "completed" ELSE status
  /\ IF worker[w].complete
       THEN Become(w, [worker[w] EXCEPT !.pc = "breaker.read", !.flag = FALSE])
       ELSE Finish(w)
  /\ UNCHANGED <<ring, currentStage, bucket, target, pendingReboot, agents, requests, crashes, history>>

\* Mutant of BreakerRead: the rate of the first stage is looked at for ever.
BreakerReadFirstStage(w) ==
  /\ worker[w].pc = "breaker.read"
  /\ IF status \in {"queued", "running"}
       THEN Become(w, [worker[w] EXCEPT !.pc = "breaker.count", !.stage = 1])
       ELSE Finish(w)
  /\ unchecked' = FALSE
  /\ UNCHANGED <<deployment, target, pendingReboot, agents, requests, crashes, entered, unsettled>>

\* maybeAutoPause takes getDeploymentSnapshot, which is a SELECT of the
\* deployment and another one of its targets, ...
BreakerRead(w) ==
  /\ worker[w].pc = "breaker.read"
  /\ IF status \in {"queued", "running"}
       THEN Become(w, [worker[w] EXCEPT !.pc = "breaker.count", !.stage = currentStage])
       ELSE Finish(w)
  /\ unchecked' = FALSE
  /\ UNCHANGED <<deployment, target, pendingReboot, agents, requests, crashes, entered, unsettled>>

\* ... decides on what these found ...
BreakerCount(w) ==
  /\ worker[w].pc = "breaker.count"
  /\ IF FailureRateExceeded(worker[w].stage)
       THEN Become(w, [worker[w] EXCEPT !.pc = "breaker.write"])
       ELSE Finish(w)
  /\ UNCHANGED <<deployment, target, pendingReboot, agents, requests, crashes, history>>

\* ... and pauses whatever the deployment has become since.
BreakerWrite(w) ==
  /\ worker[w].pc = "breaker.write"
  /\ status' = "auto-paused"
  /\ Finish(w)
  /\ UNCHANGED <<ring, currentStage, bucket, target, pendingReboot, agents, requests, crashes, history>>

-----------------------------------------------------------------------------
(* Requests of the operators                                               *)

Pause(w) ==
  /\ status # "none"
  /\ status' = "paused"
  /\ Serve(w, IdleWorker)
  /\ UNCHANGED <<ring, currentStage, bucket, target, pendingReboot, agents, crashes, history>>

Resume(w) ==
  /\ status # "none"
  /\ status' = "running"
  /\ unsettled' = TRUE
  /\ unchecked' = TRUE
  /\ Serve(w, IdleWorker)
  /\ UNCHANGED <<ring, currentStage, bucket, target, pendingReboot, agents, crashes, entered>>

Abort(w) ==
  /\ status # "none"
  /\ status' = "aborted"
  /\ Serve(w, [IdleWorker EXCEPT !.pc = "abort.skip"])
  /\ UNCHANGED <<ring, currentStage, bucket, target, pendingReboot, agents, crashes, history>>

AbortSkip(w) ==
  /\ worker[w].pc = "abort.skip"
  /\ target' = [d \in DeviceSet |-> IF target[d] \in Open THEN "skipped" ELSE target[d]]
  /\ unsettled' = TRUE
  /\ Finish(w)
  /\ UNCHANGED <<deployment, pendingReboot, agents, requests, crashes, entered, unchecked>>

\* Mutant of Promote: the next stage is taken to be two ahead.
PromoteOffByOne(w) ==
  /\ status # "none"
  /\ currentStage + 1 < Len(ring)
  /\ Serve(w, [IdleWorker EXCEPT !.pc = "promote.write", !.stage = currentStage + 2])
  /\ UNCHANGED <<deployment, target, pendingReboot, agents, crashes, history>>

\* promoteToNextStage: the next stage is chosen from a snapshot ...
Promote(w) ==
  /\ status # "none"
  /\ currentStage < Len(ring)
  /\ Serve(w, [IdleWorker EXCEPT !.pc = "promote.write", !.stage = currentStage + 1])
  /\ UNCHANGED <<deployment, target, pendingReboot, agents, crashes, history>>

\* ... and made current whatever the deployment has become since.
PromoteWrite(w) ==
  /\ worker[w].pc = "promote.write"
  /\ status' = "running"
  /\ currentStage' = worker[w].stage
  /\ entered' = entered \cup {worker[w].stage}
  /\ unsettled' = TRUE
  /\ unchecked' = TRUE
  /\ Become(w, [worker[w] EXCEPT !.pc = "dispatch.list"])
  /\ UNCHANGED <<ring, bucket, target, pendingReboot, agents, requests, crashes>>

\* retryTarget checks for "failed", then writes by id and refreshes.
Retry(w) ==
  /\ \E d \in DeviceSet :
       /\ target[d] = "failed"
       /\ Serve(w, [IdleWorker EXCEPT !.pc = "retry.write", !.device = d])
  /\ UNCHANGED <<deployment, target, pendingReboot, agents, crashes, history>>

\* Mutant of RetryWrite: the status is not one of the enum.
RetryWriteMisspelt(w) ==
  /\ worker[w].pc = "retry.write"
  /\ target' = [target EXCEPT ![worker[w].device] = "retry"]
  /\ Refresh(w)
  /\ UNCHANGED <<deployment, pendingReboot, agents, requests, crashes, history>>

RetryWrite(w) ==
  /\ worker[w].pc = "retry.write"
  /\ target' = [target EXCEPT ![worker[w].device] = "pending"]
  /\ unchecked' = (unchecked \/ target[worker[w].device] # "failed")
  /\ Refresh(w)
  /\ UNCHANGED <<deployment, pendingReboot, agents, requests, crashes, entered, unsettled>>

\* Mutant of Skip: a skipped target is recorded as already installed.
SkipAsNoOp(w) ==
  /\ \E d \in DeviceSet :
       /\ target[d] # "none"
       /\ target' = [target EXCEPT ![d] = "no-op"]
       /\ Serve(w, [IdleWorker EXCEPT !.pc = "refresh.read"])
  /\ UNCHANGED <<deployment, pendingReboot, agents, crashes, history>>

\* skipTarget takes a target in any status.
Skip(w) ==
  /\ \E d \in DeviceSet :
       /\ target[d] # "none"
       /\ target' = [target EXCEPT ![d] = "skipped"]
       /\ Serve(w, [IdleWorker EXCEPT !.pc = "refresh.read"])
  /\ UNCHANGED <<deployment, pendingReboot, agents, crashes, history>>

\* Handlers die where they stand and rows stay: all of them when the container
\* restarts, one when a statement of its own throws, like the audit row that
\* handleSoftwareComplete inserts before it goes on to onTargetCompleted.
Crash ==
  /\ crashes < MaxCrashes
  /\ crashes' = crashes + 1
  /\ \E dead \in (SUBSET {w \in Workers : worker[w].pc # "idle"}) \ {{}} :
       worker' = [w \in Workers |-> IF w \in dead THEN IdleWorker ELSE worker[w]]
  /\ unsettled' = TRUE
  /\ unchecked' = TRUE
  /\ UNCHANGED <<deployment, target, pendingReboot, agents, requests, entered>>

-----------------------------------------------------------------------------
Init ==
  /\ status = "none"
  /\ ring \in Rings
  /\ currentStage = 1
  /\ bucket = [i \in 1..Len(ring) |-> {}]
  /\ target = [d \in DeviceSet |-> "none"]
  /\ pendingReboot = {}
  /\ worker = [w \in Workers |-> IdleWorker]
  /\ sent = {}
  /\ requests = 0
  /\ crashes = 0
  /\ reports = [d \in DeviceSet |-> {}]
  /\ entered = {}
  /\ unsettled = TRUE
  /\ unchecked = TRUE

Request(w) ==
  \/ CreateDeployment(w) \/ SoftwareComplete(w) \/ Simulate(w)
  \/ Pause(w) \/ Resume(w) \/ Abort(w) \/ Promote(w) \/ Retry(w) \/ Skip(w)

HandlerStep(w) ==
  \/ DispatchList(w) \/ DispatchSend(w) \/ DispatchWrite(w)
  \/ RebootRead(w) \/ RebootWrite(w) \/ RefreshRead(w) \/ RefreshWrite(w)
  \/ BreakerRead(w) \/ BreakerCount(w) \/ BreakerWrite(w)
  \/ AbortSkip(w) \/ PromoteWrite(w) \/ RetryWrite(w)

Next ==
  \/ \E w \in Workers : Request(w) \/ HandlerStep(w)
  \/ \E d \in DeviceSet : Progress(d)
  \/ Crash

Spec == Init /\ [][Next]_vars

-----------------------------------------------------------------------------
(* Properties                                                              *)

WorkerType ==
  [pc : Steps, device : DeviceSet \cup {None}, todo : SUBSET DeviceSet,
   stage : Nat \ {0}, flag : BOOLEAN, complete : BOOLEAN]

TypeOK ==
  /\ status \in DeploymentStates
  /\ ring \in Rings
  /\ currentStage \in 1..Len(ring)
  /\ bucket \in [1..Len(ring) -> SUBSET DeviceSet]
  /\ target \in [DeviceSet -> TargetStates]
  /\ pendingReboot \in SUBSET DeviceSet
  /\ worker \in [Workers -> WorkerType]
  /\ sent \in SUBSET DeviceSet
  /\ requests \in 0..MaxRequests
  /\ crashes \in 0..MaxCrashes
  /\ reports \in [DeviceSet -> SUBSET Outcomes]
  /\ entered \in SUBSET (1..Len(ring))
  /\ unsettled \in BOOLEAN
  /\ unchecked \in BOOLEAN

Quiescent == \A w \in Workers : worker[w].pc = "idle"

\* Stage assignment: no device is put in two stages (it would be commanded
\* twice), a percentile stage is never left empty while devices remain, and
\* nothing is left behind a "remaining" stage.
StagesPartition ==
  /\ \A i, j \in DOMAIN bucket : i # j => bucket[i] \cap bucket[j] = {}
  /\ \A i \in DOMAIN bucket :
       ring[i].kind = "remaining" \/ (ring[i].kind = "percentile" /\ bucket[i] = {}) =>
         \A j \in DOMAIN bucket : j > i => bucket[j] = {}

\* A command goes out only to a device of a stage the deployment has been
\* promoted to, and stages are entered without skipping one: promotions
\* racing on a stale snapshot never open a later wave early.
NoStageSkipped ==
  /\ \A i \in entered : i > 1 => i - 1 \in entered
  /\ \A d \in sent : \E i \in entered : d \in bucket[i]

\* The circuit breaker and the agents' reports: with no handler under way, a
\* running deployment's current stage is within its failure threshold, unless
\* an operator set it running, or a dispatch or a retry changed the targets,
\* after the last check.  Skips, aborts and retries of failed targets need no
\* check of their own: they never raise the rate.
ReportedFailuresTrip ==
  Quiescent /\ status = "running" /\ ~unchecked =>
    ~FailureRateExceeded(currentStage)

\* The last target to settle completes the deployment, even when two handlers
\* settle the last two at once, unless an operator set it running, an abort or
\* a failed dispatch settled targets, or a restart or an error cut a handler
\* short, after the last refresh.
SettledIsNotRunning ==
  Quiescent /\ allTerminal /\ ~unsettled => status # "running"

\* A target counts as installed only if its agent (or the simulator) said so:
\* no abort, skip, retry or dispatch racing with a report invents a success.
NoFalseSuccess ==
  \A d \in DeviceSet :
    target[d] \in {"succeeded", "no-op", "reboot-deferred"} => target[d] \in reports[d]

\* A device whose install waits for a reboot is flagged pendingReboot once the
\* handlers are done, although onTargetCompleted flags it from a second read.
RebootRemembered ==
  Quiescent /\ crashes = 0 =>
    \A d \in DeviceSet : target[d] = "reboot-deferred" => d \in pendingReboot

\* dispatchStageTargets: "Targets transition pending -> dispatched on success".
DispatchedOnlyFromPending ==
  [][\A d \in DeviceSet :
       target[d] # "dispatched" /\ target'[d] = "dispatched" => target[d] = "pending"]_vars

\* The header: "abortFailureRate is checked continuously; exceeding it flips
\* status to auto-paused".  Here nothing but the creation has been served.
BreakerTrips ==
  Quiescent /\ crashes = 0 /\ requests = 1 /\ status = "running" =>
    ~FailureRateExceeded(currentStage)

\* The header's lifecycle ends in "completed | aborted": an aborted deployment
\* is not completed later.
AbortedIsNotCompleted ==
  [][status = "aborted" => status' # "completed"]_vars
=============================================================================
