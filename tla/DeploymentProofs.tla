-------------------------- MODULE DeploymentProofs --------------------------
(***************************************************************************)
(* Proofs about one deployment, for any list of devices, any rings and any *)
(* number of handlers.                                                     *)
(***************************************************************************)
EXTENDS Deployment, FiniteSetTheorems, WellFoundedInduction, TLAPS

(* The inductive invariant.                                                *)

Dispatching == {"dispatch.list", "dispatch.send", "dispatch.write"}

\* Until the deployment is created nothing is under way.
Fresh ==
  status = "none" =>
    /\ \A w \in Workers : worker[w].pc = "idle"
    /\ sent = {} /\ entered = {} /\ unsettled /\ unchecked
    /\ \A d \in DeviceSet : target[d] = "none"

\* What a handler's locals say.
WorkerOK(r) ==
  /\ r.pc \in {"dispatch.write", "reboot.read", "reboot.write", "retry.write"} =>
       r.device \in DeviceSet
  /\ r.pc \in Dispatching => r.stage \in entered
  /\ r.pc \in {"dispatch.send", "dispatch.write"} => r.todo \subseteq bucket[r.stage]
  /\ r.pc = "promote.write" => r.stage \in 2..Len(ring) /\ r.stage - 1 \in entered

\* The current stage has been entered, and so has every one before it.
StageOK ==
  /\ status # "none" => currentStage \in entered
  /\ \A i \in entered : i > 1 => i - 1 \in entered

SentOK == \A d \in sent : \E i \in entered : d \in bucket[i]

\* A handler that will see that everything is settled, or has seen it.
Settling(r) ==
  \/ r.pc \in {"reboot.read", "reboot.write", "refresh.read"}
  \/ r.pc = "refresh.write" /\ r.flag

SettledOK ==
  allTerminal /\ status = "running" /\ ~unsettled => \E w \in Workers : Settling(worker[w])

\* A handler that will flag device d.
Flagging(r, d) == r.pc \in {"reboot.read", "reboot.write"} /\ r.device = d

RebootOK ==
  crashes = 0 =>
    \A d \in DeviceSet :
      target[d] = "reboot-deferred" /\ d \notin pendingReboot =>
        \E w \in Workers : Flagging(worker[w], d)

\* A handler that will look at the failure rate of this stage, or has seen it
\* exceeded.
Checking(r, stage) ==
  \/ r.complete /\ r.pc \in {"reboot.read", "reboot.write", "refresh.read", "refresh.write",
                             "breaker.read"}
  \/ r.pc = "breaker.count" /\ r.stage = stage
  \/ r.pc = "breaker.write"

BreakerOK ==
  status = "running" /\ ~unchecked /\ FailureRateExceeded(currentStage) =>
    \E w \in Workers : Checking(worker[w], currentStage)

\* How a handler that has written a report for device d goes on.
Completing(d) ==
  {[IdleWorker EXCEPT !.pc = "reboot.read", !.device = d, !.complete = TRUE],
   [IdleWorker EXCEPT !.pc = "reboot.write", !.device = d, !.complete = TRUE],
   [IdleWorker EXCEPT !.pc = "refresh.read", !.complete = TRUE]}

Locals ==
  /\ Fresh
  /\ \A w \in Workers : WorkerOK(worker[w])
  /\ StageOK
  /\ SentOK

IInv ==
  /\ TypeOK
  /\ Locals
  /\ NoFalseSuccess
  /\ SettledOK
  /\ RebootOK
  /\ BreakerOK
  /\ StagesPartition

\* What a report does at once: one target changes, and the handler goes on.
LEMMA ReportStep ==
  ASSUME TypeOK, NEW w \in Workers, SoftwareComplete(w) \/ Simulate(w)
  PROVE  \E d \in DeviceSet, outcome \in Outcomes : \E r \in Completing(d) :
           /\ Reported(d, outcome)
           /\ Serve(w, r)
           /\ outcome = "reboot-deferred" => r.pc \in {"reboot.read", "reboot.write"}
<1>1. CASE SoftwareComplete(w)
  <2>1. PICK d \in DeviceSet, outcome \in Outcomes :
          /\ Reported(d, outcome)
          /\ Serve(w, [IdleWorker EXCEPT !.pc = "reboot.read", !.device = d, !.complete = TRUE])
    BY <1>1 DEF SoftwareComplete, TypeOK
  <2> DEFINE r == [IdleWorker EXCEPT !.pc = "reboot.read", !.device = d, !.complete = TRUE]
  <2>2. r \in Completing(d) /\ r.pc = "reboot.read"
    BY DEF Completing, IdleWorker
  <2>3. Serve(w, r)
    BY <2>1
  <2> HIDE DEF r
  <2> QED
    BY <2>1, <2>2, <2>3
<1>2. CASE Simulate(w)
  <2>1. PICK d \in DeviceSet, outcome \in Outcomes :
          /\ Reported(d, outcome)
          /\ Serve(w, IF outcome = "reboot-deferred"
                        THEN [IdleWorker EXCEPT !.pc = "reboot.write", !.device = d, !.complete = TRUE]
                        ELSE [IdleWorker EXCEPT !.pc = "refresh.read", !.complete = TRUE])
    BY <1>2 DEF Simulate
  <2>2. CASE outcome = "reboot-deferred"
    <3> DEFINE r == [IdleWorker EXCEPT !.pc = "reboot.write", !.device = d, !.complete = TRUE]
    <3>1. r \in Completing(d) /\ r.pc = "reboot.write"
      BY DEF Completing, IdleWorker
    <3> QED
      BY <2>1, <2>2, <3>1
  <2>3. CASE outcome # "reboot-deferred"
    <3> DEFINE r == [IdleWorker EXCEPT !.pc = "refresh.read", !.complete = TRUE]
    <3>1. r \in Completing(d)
      BY DEF Completing
    <3> QED
      BY <2>1, <2>3, <3>1
  <2> QED
    BY <2>2, <2>3
<1> QED
  BY <1>1, <1>2

-----------------------------------------------------------------------------
(* Type correctness of a step.                                             *)

LEMMA TypeStep == IInv /\ [Next]_vars => TypeOK'
<1> SUFFICES ASSUME IInv, [Next]_vars PROVE TypeOK'
  OBVIOUS
<1>t. TypeOK /\ Fresh /\ \A w \in Workers : WorkerOK(worker[w])
  BY DEF IInv, Locals
<1>a. /\ Outcomes \subseteq TargetStates /\ Rings \subseteq RingType
      /\ MaxRequests \in Nat /\ MaxCrashes \in Nat
  BY DeploymentAssumption DEF TargetStates
<1>l. Len(ring) \in Nat \ {0}
  BY <1>t, <1>a DEF TypeOK, RingType
<1>i. IdleWorker \in WorkerType
  BY DEF IdleWorker, WorkerType, Steps
<1>b. ASSUME NEW w \in Workers, NEW r \in WorkerType, Become(w, r)
      PROVE  worker' \in [Workers -> WorkerType]
  BY <1>t, <1>b DEF Become, TypeOK
<1>s. ASSUME NEW w \in Workers, NEW r \in WorkerType, Serve(w, r)
      PROVE  worker' \in [Workers -> WorkerType] /\ requests' \in 0..MaxRequests
  BY <1>t, <1>a, <1>b, <1>s DEF Serve, TypeOK
<1>w. ASSUME NEW w \in Workers PROVE worker[w] \in WorkerType
  BY <1>t, <1>w DEF TypeOK
<1>1. ASSUME NEW w \in Workers, CreateDeployment(w) PROVE TypeOK'
  <2>1. PICK r \in {IdleWorker, [IdleWorker EXCEPT !.pc = "dispatch.list"]} : Serve(w, r)
    BY <1>1 DEF CreateDeployment
  <2>2. r \in WorkerType
    BY <1>i, <2>1 DEF IdleWorker, WorkerType, Steps
  <2>3. worker' \in [Workers -> WorkerType] /\ requests' \in 0..MaxRequests
    BY <1>s, <2>1, <2>2
  <2>4. bucket' \in [1..Len(ring) -> SUBSET DeviceSet]
    BY <1>1 DEF CreateDeployment
  <2>5. target' \in [DeviceSet -> TargetStates] /\ status' \in DeploymentStates
    BY <1>1 DEF CreateDeployment, TargetStates, DeploymentStates
  <2> QED
    BY <1>t, <1>l, <1>1, <2>3, <2>4, <2>5 DEF CreateDeployment, TypeOK, agents
<1>2. ASSUME NEW w \in Workers, DispatchList(w) PROVE TypeOK'
  <2>1. bucket[worker[w].stage] \subseteq DeviceSet
    <3>1. worker[w].stage \in 1..Len(ring)
      BY <1>t, <1>2 DEF DispatchList, WorkerOK, Dispatching, TypeOK
    <3> QED
      BY <1>t, <3>1 DEF TypeOK
  <2> DEFINE pending == {d \in bucket[worker[w].stage] : target[d] = "pending"}
  <2>2. [worker[w] EXCEPT !.pc = "dispatch.send", !.todo = pending] \in WorkerType
    BY <1>w, <2>1 DEF WorkerType, Steps
  <2>3. worker' \in [Workers -> WorkerType]
    BY <1>2, <1>i, <1>b, <2>2 DEF DispatchList, Finish
  <2> QED
    BY <1>t, <1>2, <2>3 DEF DispatchList, TypeOK, deployment, agents, history
<1>3. ASSUME NEW w \in Workers, DispatchSend(w) PROVE TypeOK'
  <2>1. PICK d \in worker[w].todo, ok \in BOOLEAN, received \in BOOLEAN :
          /\ sent' = IF received THEN sent \cup {d} ELSE sent
          /\ Become(w, [worker[w] EXCEPT !.pc = "dispatch.write", !.device = d, !.flag = ok,
                                         !.todo = @ \ {d}])
    BY <1>3 DEF DispatchSend
  <2>2. d \in DeviceSet
    BY <1>w DEF WorkerType
  <2>3. [worker[w] EXCEPT !.pc = "dispatch.write", !.device = d, !.flag = ok, !.todo = @ \ {d}]
          \in WorkerType
    BY <1>w, <2>2 DEF WorkerType, Steps
  <2>4. worker' \in [Workers -> WorkerType]
    BY <1>b, <2>1, <2>3
  <2>5. sent' \in SUBSET DeviceSet
    BY <1>t, <2>1, <2>2 DEF TypeOK
  <2> QED
    BY <1>t, <1>3, <2>4, <2>5 DEF DispatchSend, TypeOK, deployment, history
<1>4. ASSUME NEW w \in Workers, DispatchWrite(w) PROVE TypeOK'
  <2>1. [worker[w] EXCEPT !.pc = "dispatch.send", !.device = None, !.flag = FALSE] \in WorkerType
    BY <1>w DEF WorkerType, Steps
  <2>2. worker' \in [Workers -> WorkerType]
    BY <1>4, <1>i, <1>b, <2>1 DEF DispatchWrite, Finish
  <2>3. target' \in [DeviceSet -> TargetStates]
    BY <1>t, <1>4 DEF DispatchWrite, TypeOK, TargetStates
  <2>4. unsettled' \in BOOLEAN /\ unchecked' \in BOOLEAN
    BY <1>4 DEF DispatchWrite
  <2> QED
    BY <1>t, <1>4, <2>2, <2>3, <2>4 DEF DispatchWrite, TypeOK, deployment, agents
<1>5. ASSUME NEW d \in DeviceSet, Progress(d) PROVE TypeOK'
  BY <1>t, <1>5 DEF Progress, TypeOK, TargetStates, deployment, agents, history
<1>r. ASSUME NEW d \in DeviceSet, NEW outcome \in Outcomes, Reported(d, outcome)
      PROVE  target' \in [DeviceSet -> TargetStates] /\ reports' \in [DeviceSet -> SUBSET Outcomes]
  BY <1>t, <1>a, <1>r DEF Reported, TypeOK
<1>6. ASSUME NEW w \in Workers, SoftwareComplete(w) \/ Simulate(w) PROVE TypeOK'
  <2>1. PICK d \in DeviceSet, outcome \in Outcomes :
          Reported(d, outcome) /\ \E r \in Completing(d) : Serve(w, r)
    BY <1>t, <1>6, ReportStep
  <2>r. PICK r \in Completing(d) : Serve(w, r)
    BY <2>1
  <2>2. r \in WorkerType
    BY <1>i, ZenonT(60) DEF Completing, WorkerType, Steps
  <2>3. worker' \in [Workers -> WorkerType] /\ requests' \in 0..MaxRequests
    BY <1>s, <2>r, <2>2
  <2>4. target' \in [DeviceSet -> TargetStates] /\ reports' \in [DeviceSet -> SUBSET Outcomes]
    BY <1>r, <2>1
  <2> QED
    BY <1>t, <1>6, <2>3, <2>4 DEF SoftwareComplete, Simulate, TypeOK, deployment, history
<1>7. ASSUME NEW w \in Workers,
             RebootRead(w) \/ RebootWrite(w) \/ RefreshRead(w) \/ RefreshWrite(w)
             \/ BreakerRead(w) \/ BreakerCount(w) \/ BreakerWrite(w)
      PROVE  TypeOK'
  <2>1. \A pc \in Steps : [worker[w] EXCEPT !.pc = pc] \in WorkerType
    BY <1>w DEF WorkerType
  <2>r. [worker[w] EXCEPT !.pc = "refresh.read", !.device = None] \in WorkerType
    BY <1>w DEF WorkerType, Steps
  <2>2. \A pc \in Steps, b \in BOOLEAN : [worker[w] EXCEPT !.pc = pc, !.flag = b] \in WorkerType
    BY <1>w DEF WorkerType
  <2>3. allTerminal \in BOOLEAN
    BY DEF allTerminal
  <2>4. CASE RebootRead(w)
    <3>1. worker' \in [Workers -> WorkerType]
      BY <2>1, <2>r, <2>4, <1>b DEF RebootRead, Refresh, Steps
    <3> QED
      BY <1>t, <2>4, <3>1 DEF RebootRead, TypeOK, deployment, agents, history
  <2>5. CASE RebootWrite(w)
    <3>1. worker' \in [Workers -> WorkerType]
      BY <2>r, <2>5, <1>b DEF RebootWrite, Refresh
    <3>2. worker[w].device \in DeviceSet
      BY <1>t, <2>5 DEF RebootWrite, WorkerOK
    <3> QED
      BY <1>t, <2>5, <3>1, <3>2 DEF RebootWrite, TypeOK, deployment, agents, history
  <2>6. CASE RefreshRead(w)
    <3>1. worker' \in [Workers -> WorkerType]
      BY <2>2, <2>3, <2>6, <1>b DEF RefreshRead, Steps
    <3> QED
      BY <1>t, <2>6, <3>1 DEF RefreshRead, TypeOK, deployment, agents
  <2>7. CASE RefreshWrite(w)
    <3>1. worker' \in [Workers -> WorkerType]
      BY <1>i, <2>2, <2>7, <1>b DEF RefreshWrite, Finish, Steps
    <3> QED
      BY <1>t, <2>7, <3>1 DEF RefreshWrite, TypeOK, DeploymentStates, agents, history
  <2>8. CASE BreakerRead(w)
    <3>1. currentStage \in Nat \ {0}
      BY <1>t, DeploymentAssumption DEF TypeOK, RingType
    <3>2. [worker[w] EXCEPT !.pc = "breaker.count", !.stage = currentStage] \in WorkerType
      BY <1>w, <3>1 DEF WorkerType, Steps
    <3>3. worker' \in [Workers -> WorkerType]
      BY <1>i, <2>8, <3>2, <1>b DEF BreakerRead, Finish
    <3> QED
      BY <1>t, <2>8, <3>3 DEF BreakerRead, TypeOK, deployment, agents
  <2>9. CASE BreakerCount(w)
    <3>1. worker' \in [Workers -> WorkerType]
      BY <1>i, <2>1, <2>9, <1>b DEF BreakerCount, Finish, Steps
    <3> QED
      BY <1>t, <2>9, <3>1 DEF BreakerCount, TypeOK, deployment, agents, history
  <2>10. CASE BreakerWrite(w)
    <3>1. worker' \in [Workers -> WorkerType]
      BY <1>i, <2>10, <1>b DEF BreakerWrite, Finish
    <3> QED
      BY <1>t, <2>10, <3>1 DEF BreakerWrite, TypeOK, DeploymentStates, agents, history
  <2> QED
    BY <1>7, <2>4, <2>5, <2>6, <2>7, <2>8, <2>9, <2>10
<1>8. ASSUME NEW w \in Workers, Pause(w) \/ Resume(w) \/ Abort(w) PROVE TypeOK'
  <2>1. PICK r \in {IdleWorker, [IdleWorker EXCEPT !.pc = "abort.skip"]} : Serve(w, r)
    BY <1>8 DEF Pause, Resume, Abort
  <2>2. r \in WorkerType
    BY <1>i, <2>1 DEF IdleWorker, WorkerType, Steps
  <2>3. worker' \in [Workers -> WorkerType] /\ requests' \in 0..MaxRequests
    BY <1>s, <2>1, <2>2
  <2> QED
    BY <1>t, <1>8, <2>3 DEF Pause, Resume, Abort, TypeOK, DeploymentStates, agents, history
<1>9. ASSUME NEW w \in Workers, AbortSkip(w) PROVE TypeOK'
  <2>1. worker' \in [Workers -> WorkerType]
    BY <1>i, <1>9, <1>b DEF AbortSkip, Finish
  <2>2. target' \in [DeviceSet -> TargetStates]
    BY <1>t, <1>9 DEF AbortSkip, TypeOK, TargetStates
  <2> QED
    BY <1>t, <1>9, <2>1, <2>2 DEF AbortSkip, TypeOK, deployment, agents
<1>10. ASSUME NEW w \in Workers, Promote(w) PROVE TypeOK'
  <2>0. currentStage + 1 \in Nat \ {0}
    BY <1>t, <1>l DEF TypeOK
  <2>1. [IdleWorker EXCEPT !.pc = "promote.write", !.stage = currentStage + 1] \in WorkerType
    BY <1>i, <2>0 DEF WorkerType, Steps
  <2>2. worker' \in [Workers -> WorkerType] /\ requests' \in 0..MaxRequests
    BY <1>10, <1>s, <2>1 DEF Promote
  <2> QED
    BY <1>t, <1>10, <2>2 DEF Promote, TypeOK, deployment, agents, history
<1>11. ASSUME NEW w \in Workers, PromoteWrite(w) PROVE TypeOK'
  <2>1. [worker[w] EXCEPT !.pc = "dispatch.list"] \in WorkerType
    BY <1>w DEF WorkerType, Steps
  <2>2. worker' \in [Workers -> WorkerType]
    BY <1>11, <1>b, <2>1 DEF PromoteWrite
  <2>3. worker[w].stage \in 1..Len(ring)
    BY <1>t, <1>l, <1>11 DEF PromoteWrite, WorkerOK
  <2> QED
    BY <1>t, <1>11, <2>2, <2>3 DEF PromoteWrite, TypeOK, DeploymentStates, agents
<1>12. ASSUME NEW w \in Workers, Retry(w) PROVE TypeOK'
  <2>1. PICK d \in DeviceSet : Serve(w, [IdleWorker EXCEPT !.pc = "retry.write", !.device = d])
    BY <1>12 DEF Retry
  <2>2. [IdleWorker EXCEPT !.pc = "retry.write", !.device = d] \in WorkerType
    BY <1>i DEF WorkerType, Steps
  <2>3. worker' \in [Workers -> WorkerType] /\ requests' \in 0..MaxRequests
    BY <1>s, <2>1, <2>2
  <2> QED
    BY <1>t, <1>12, <2>3 DEF Retry, TypeOK, deployment, agents, history
<1>13. ASSUME NEW w \in Workers, RetryWrite(w) PROVE TypeOK'
  <2>1. [worker[w] EXCEPT !.pc = "refresh.read", !.device = None] \in WorkerType
    BY <1>w DEF WorkerType, Steps
  <2>2. worker' \in [Workers -> WorkerType]
    BY <1>13, <1>b, <2>1 DEF RetryWrite, Refresh
  <2>3. target' \in [DeviceSet -> TargetStates] /\ unchecked' \in BOOLEAN
    BY <1>t, <1>13 DEF RetryWrite, TypeOK, TargetStates
  <2> QED
    BY <1>t, <1>13, <2>2, <2>3 DEF RetryWrite, TypeOK, deployment, agents
<1>14. ASSUME NEW w \in Workers, Skip(w) PROVE TypeOK'
  <2>1. PICK d \in DeviceSet :
          /\ target' = [target EXCEPT ![d] = "skipped"]
          /\ Serve(w, [IdleWorker EXCEPT !.pc = "refresh.read"])
    BY <1>14 DEF Skip
  <2>2. [IdleWorker EXCEPT !.pc = "refresh.read"] \in WorkerType
    BY <1>i DEF WorkerType, Steps
  <2>3. worker' \in [Workers -> WorkerType] /\ requests' \in 0..MaxRequests
    BY <1>s, <2>1, <2>2
  <2>4. target' \in [DeviceSet -> TargetStates]
    BY <1>t, <2>1 DEF TypeOK, TargetStates
  <2> QED
    BY <1>t, <1>14, <2>3, <2>4 DEF Skip, TypeOK, deployment, agents, history
<1>15. CASE Crash
  <2>1. \A w \in Workers : worker[w] \in WorkerType
    BY <1>w
  <2>2. worker' \in [Workers -> WorkerType]
    BY <1>i, <1>15, <2>1 DEF Crash
  <2> QED
    BY <1>t, <1>a, <1>15, <2>2 DEF Crash, TypeOK, deployment, agents
<1>16. CASE UNCHANGED vars
  BY <1>t, <1>16 DEF vars, TypeOK
<1> QED
  BY <1>1, <1>2, <1>3, <1>4, <1>5, <1>6, <1>7, <1>8, <1>9, <1>10, <1>11, <1>12, <1>13, <1>14,
     <1>15, <1>16
  DEF Next, Request, HandlerStep

-----------------------------------------------------------------------------
(* The stages, the commands sent and the handlers' locals.                 *)

\* A step of one handler that leaves the stages and the commands alone.
LEMMA MoveKeeps ==
  ASSUME TypeOK, Locals, NEW w \in Workers, NEW r \in WorkerType, Become(w, r),
         status # "none", status' # "none",
         UNCHANGED <<ring, currentStage, bucket, sent, entered>>,
         r.pc \in {"dispatch.write", "reboot.read", "reboot.write", "retry.write"} =>
           r.device \in DeviceSet,
         r.pc \in Dispatching => r.stage \in entered,
         r.pc \in {"dispatch.send", "dispatch.write"} => r.todo \subseteq bucket[r.stage],
         r.pc = "promote.write" => r.stage \in 2..Len(ring) /\ r.stage - 1 \in entered
  PROVE  Locals'
<1>1. worker' = [worker EXCEPT ![w] = r] /\ worker \in [Workers -> WorkerType]
  BY DEF Become, TypeOK
<1>2. ASSUME NEW v \in Workers PROVE WorkerOK(worker[v])'
  <2>1. CASE v = w
    BY <1>1, <2>1 DEF WorkerOK
  <2>2. CASE v # w
    <3>1. worker'[v] = worker[v]
      BY <1>1, <2>2
    <3>2. WorkerOK(worker[v])
      BY DEF Locals
    <3> QED
      BY <3>1, <3>2 DEF WorkerOK
  <2> QED
    BY <2>1, <2>2
<1>3. Fresh' /\ StageOK' /\ SentOK'
  BY DEF Locals, Fresh, StageOK, SentOK
<1> QED
  BY <1>2, <1>3 DEF Locals

LEMMA LocalsStep == IInv /\ [Next]_vars => Locals'
<1> SUFFICES ASSUME IInv, [Next]_vars PROVE Locals'
  OBVIOUS
<1>t. TypeOK /\ Locals /\ TypeOK'
  BY TypeStep DEF IInv
<1>l. Len(ring) \in Nat \ {0} /\ currentStage \in 1..Len(ring) /\ entered \subseteq 1..Len(ring)
  BY <1>t, DeploymentAssumption DEF TypeOK, RingType
<1>i. IdleWorker \in WorkerType /\ IdleWorker.pc = "idle"
  BY DEF IdleWorker, WorkerType, Steps
<1>w. ASSUME NEW w \in Workers
      PROVE  worker[w] \in WorkerType /\ worker'[w] \in WorkerType /\ WorkerOK(worker[w])
  BY <1>t, <1>w DEF TypeOK, Locals
<1>b. ASSUME NEW w \in Workers, NEW r, Become(w, r) PROVE worker'[w] = r
  BY <1>t, <1>b DEF TypeOK, Become
<1>f. /\ status = "none" => \A w \in Workers : worker[w].pc = "idle"
      /\ status = "none" => sent = {} /\ entered = {} /\ unsettled
      /\ status = "none" => \A d \in DeviceSet : target[d] = "none"
      /\ status # "none" => currentStage \in entered
  BY <1>t DEF Locals, Fresh, StageOK
<1>1. ASSUME NEW w \in Workers, CreateDeployment(w) PROVE Locals'
  <2>1. PICK r \in {IdleWorker, [IdleWorker EXCEPT !.pc = "dispatch.list"]} : Serve(w, r)
    BY <1>1 DEF CreateDeployment
  <2>2. status = "none" /\ status' # "none"
    BY <1>1 DEF CreateDeployment
  <2>3. currentStage' = 1 /\ entered' = {1} /\ sent' = {} /\ ring' = ring
    BY <1>1, <1>f, <2>2 DEF CreateDeployment, agents
  <2>4. r.pc \in {"idle", "dispatch.list"} /\ r.stage = 1 /\ r.todo = {}
    BY <2>1 DEF IdleWorker
  <2>5. ASSUME NEW v \in Workers PROVE WorkerOK(worker[v])'
    <3>1. CASE v = w
      <4>1. worker'[v] = r
        BY <2>1, <1>b, <3>1 DEF Serve
      <4> QED
        BY <2>3, <2>4, <4>1 DEF WorkerOK, Dispatching
    <3>2. CASE v # w
      <4>1. worker'[v].pc = "idle"
        BY <1>t, <1>f, <2>1, <2>2, <3>2 DEF Serve, Become, TypeOK
      <4> QED
        BY <4>1 DEF WorkerOK, Dispatching
    <3> QED
      BY <3>1, <3>2
  <2> QED
    BY <2>2, <2>3, <2>5 DEF Locals, Fresh, StageOK, SentOK
<1>2. ASSUME NEW w \in Workers, DispatchList(w) PROVE Locals'
  <2> DEFINE pending == {d \in bucket[worker[w].stage] : target[d] = "pending"}
  <2>1. status # "none" /\ status' # "none"
    BY <1>f, <1>2 DEF DispatchList, deployment
  <2>2. worker[w].stage \in entered
    BY <1>2, <1>w DEF DispatchList, WorkerOK, Dispatching
  <2>3. CASE Become(w, [worker[w] EXCEPT !.pc = "dispatch.send", !.todo = pending])
    <3> DEFINE r == [worker[w] EXCEPT !.pc = "dispatch.send", !.todo = pending]
    <3>1. r \in WorkerType
      BY <1>w, <1>b, <2>3
    <3>2. r.pc = "dispatch.send" /\ r.stage = worker[w].stage /\ r.todo = pending
      BY <1>w DEF WorkerType
    <3> HIDE DEF r
    <3>3. Become(w, r)
      BY <2>3 DEF r
    <3> QED
      BY <1>t, <1>2, <2>1, <2>2, <3>1, <3>2, <3>3, MoveKeeps
      DEF DispatchList, deployment, agents, history, Dispatching
  <2>4. CASE Become(w, IdleWorker)
    BY <1>t, <1>i, <1>2, <2>1, <2>4, MoveKeeps
    DEF DispatchList, deployment, agents, history, Dispatching
  <2> QED
    BY <1>2, <2>3, <2>4 DEF DispatchList, Finish
<1>3. ASSUME NEW w \in Workers, DispatchSend(w) PROVE Locals'
  <2>1. PICK d \in worker[w].todo, ok \in BOOLEAN, received \in BOOLEAN :
          /\ sent' = IF received THEN sent \cup {d} ELSE sent
          /\ Become(w, [worker[w] EXCEPT !.pc = "dispatch.write", !.device = d, !.flag = ok,
                                         !.todo = @ \ {d}])
    BY <1>3 DEF DispatchSend
  <2> DEFINE stage == worker[w].stage
             r == [worker[w] EXCEPT !.pc = "dispatch.write", !.device = d, !.flag = ok,
                                    !.todo = @ \ {d}]
  <2>2. stage \in entered /\ worker[w].todo \subseteq bucket[stage] /\ d \in DeviceSet
    BY <1>3, <1>w DEF DispatchSend, WorkerOK, Dispatching, WorkerType
  <2>3. r.pc = "dispatch.write" /\ r.stage = stage /\ r.todo \subseteq worker[w].todo /\ r.device = d
    BY <1>w DEF WorkerType
  <2>4. status # "none" /\ UNCHANGED <<status, ring, currentStage, bucket, entered>>
    BY <1>f, <1>3 DEF DispatchSend, deployment, history
  <2>5. ASSUME NEW v \in Workers PROVE WorkerOK(worker[v])'
    <3>1. CASE v = w
      <4>1. worker'[v] = r
        BY <2>1, <1>b, <3>1
      <4> HIDE DEF r
      <4> QED
        BY <2>2, <2>3, <2>4, <4>1 DEF WorkerOK, Dispatching
    <3>2. CASE v # w
      <4>1. worker'[v] = worker[v]
        BY <1>t, <2>1, <3>2 DEF Become, TypeOK
      <4> QED
        BY <1>w, <2>4, <4>1 DEF WorkerOK
    <3> QED
      BY <3>1, <3>2
  <2>6. SentOK'
    BY <1>t, <2>1, <2>2, <2>4 DEF SentOK, Locals
  <2>7. Fresh' /\ StageOK'
    BY <1>t, <2>4 DEF Fresh, StageOK, Locals
  <2> QED
    BY <2>5, <2>6, <2>7 DEF Locals
<1>4. ASSUME NEW w \in Workers, DispatchWrite(w) PROVE Locals'
  <2>1. status # "none" /\ status' # "none"
    BY <1>f, <1>4 DEF DispatchWrite, deployment
  <2>2. CASE Become(w, [worker[w] EXCEPT !.pc = "dispatch.send", !.device = None, !.flag = FALSE])
    <3> DEFINE r == [worker[w] EXCEPT !.pc = "dispatch.send", !.device = None, !.flag = FALSE]
    <3>1. r \in WorkerType
      BY <1>w, <1>b, <2>2
    <3>2. r.pc = "dispatch.send" /\ r.stage = worker[w].stage /\ r.todo = worker[w].todo
      BY <1>w DEF WorkerType
    <3>3. worker[w].stage \in entered /\ worker[w].todo \subseteq bucket[worker[w].stage]
      BY <1>4, <1>w DEF DispatchWrite, WorkerOK, Dispatching
    <3> HIDE DEF r
    <3>4. Become(w, r)
      BY <2>2 DEF r
    <3> QED
      BY <1>t, <1>4, <2>1, <3>1, <3>2, <3>3, <3>4, MoveKeeps
      DEF DispatchWrite, deployment, agents, Dispatching
  <2>3. CASE Become(w, IdleWorker)
    BY <1>t, <1>i, <1>4, <2>1, <2>3, MoveKeeps DEF DispatchWrite, deployment, agents, Dispatching
  <2> QED
    BY <1>4, <2>2, <2>3 DEF DispatchWrite, Finish
<1>5. ASSUME NEW d \in DeviceSet, Progress(d) PROVE Locals'
  <2>1. status # "none" /\ status' # "none"
    BY <1>f, <1>5 DEF Progress, deployment
  <2>2. UNCHANGED <<status, ring, currentStage, bucket, sent, entered, worker>>
    BY <1>5 DEF Progress, deployment, agents, history
  <2> QED
    BY <1>t, <2>1, <2>2 DEF Locals, Fresh, WorkerOK, StageOK, SentOK
<1>6. ASSUME NEW w \in Workers, SoftwareComplete(w) \/ Simulate(w) PROVE Locals'
  <2>0. PICK d \in DeviceSet : \E r \in Completing(d) : Serve(w, r)
    BY <1>t, <1>6, ReportStep
  <2>1. PICK r \in Completing(d) : Serve(w, r)
    BY <2>0
  <2>2. r \in WorkerType
    BY <1>w, <1>b, <2>1 DEF Serve
  <2>3. \/ r.pc \in {"reboot.read", "reboot.write"} /\ r.device = d
        \/ r.pc = "refresh.read"
    BY DEF IdleWorker, Completing
  <2>4. status # "none" /\ status' # "none"
    <3>1. CASE SoftwareComplete(w)
      BY <1>f, <3>1 DEF SoftwareComplete, deployment
    <3>2. CASE Simulate(w)
      BY <1>f, <3>2 DEF Simulate, deployment
    <3> QED
      BY <1>6, <3>1, <3>2
  <2>5. Become(w, r)
    BY <2>1 DEF Serve
  <2>6. UNCHANGED <<ring, currentStage, bucket, sent, entered>>
    BY <1>6 DEF SoftwareComplete, Simulate, deployment, history
  <2> QED
    BY <1>t, <2>2, <2>3, <2>4, <2>5, <2>6, MoveKeeps DEF Dispatching
<1>m. ASSUME NEW w \in Workers, worker[w].pc # "idle",
             UNCHANGED <<ring, currentStage, bucket, sent, entered>>, status' # "none",
             NEW r, Become(w, r), r.pc \in Steps \ (Dispatching \cup {"promote.write"}),
             r.pc \in {"reboot.read", "reboot.write", "retry.write"} => r.device \in DeviceSet
      PROVE  Locals'
  <2>1. r \in WorkerType
    BY <1>m, <1>w, <1>b
  <2>2. status # "none"
    BY <1>f, <1>m
  <2> QED
    BY <1>t, <1>m, <2>1, <2>2, MoveKeeps DEF Dispatching
<1>7. ASSUME NEW w \in Workers,
             RebootRead(w) \/ RebootWrite(w) \/ RefreshRead(w) \/ RefreshWrite(w)
             \/ BreakerRead(w) \/ BreakerCount(w) \/ BreakerWrite(w)
      PROVE  Locals'
  <2>1. /\ UNCHANGED <<ring, currentStage, bucket, sent, entered>>
        /\ worker[w].pc # "idle"
        /\ status' = status \/ status' \in {"completed", "auto-paused"}
    BY <1>7 DEF RebootRead, RebootWrite, RefreshRead, RefreshWrite, BreakerRead,
                BreakerCount, BreakerWrite, deployment, agents, history
  <2>2. status' # "none"
    BY <1>f, <2>1
  <2>3. ASSUME NEW pc \in {"reboot.write", "refresh.write", "breaker.read", "breaker.write"},
               Become(w, [worker[w] EXCEPT !.pc = pc])
        PROVE  (pc = "reboot.write" /\ worker[w].device \notin DeviceSet) \/ Locals'
    <3> DEFINE r == [worker[w] EXCEPT !.pc = pc]
    <3>1. r.pc = pc /\ r.device = worker[w].device
      BY <1>w DEF WorkerType
    <3> HIDE DEF r
    <3>2. Become(w, r)
      BY <2>3 DEF r
    <3> QED
      BY <1>m, <2>1, <2>2, <3>1, <3>2 DEF Steps, Dispatching
  <2>r. Refresh(w) => Locals'
    <3> DEFINE r == [worker[w] EXCEPT !.pc = "refresh.read", !.device = None]
    <3>1. r.pc = "refresh.read"
      BY <1>w DEF WorkerType
    <3>2. Refresh(w) => Become(w, r)
      BY DEF Refresh
    <3> HIDE DEF r
    <3> QED
      BY <1>m, <2>1, <2>2, <3>1, <3>2 DEF Steps, Dispatching
  <2>4. ASSUME NEW pc \in {"refresh.write", "breaker.read"}, NEW flag,
               Become(w, [worker[w] EXCEPT !.pc = pc, !.flag = flag])
        PROVE  Locals'
    <3> DEFINE r == [worker[w] EXCEPT !.pc = pc, !.flag = flag]
    <3>1. r.pc = pc
      BY <1>w DEF WorkerType
    <3> HIDE DEF r
    <3>2. Become(w, r)
      BY <2>4 DEF r
    <3> QED
      BY <1>m, <2>1, <2>2, <3>1, <3>2 DEF Steps, Dispatching
  <2>5. Become(w, IdleWorker) => Locals'
    BY <1>i, <1>m, <2>1, <2>2 DEF Steps, Dispatching
  <2>6. CASE Become(w, [worker[w] EXCEPT !.pc = "breaker.count", !.stage = currentStage])
    <3> DEFINE r == [worker[w] EXCEPT !.pc = "breaker.count", !.stage = currentStage]
    <3>1. r.pc = "breaker.count"
      BY <1>w DEF WorkerType
    <3> HIDE DEF r
    <3>2. Become(w, r)
      BY <2>6 DEF r
    <3> QED
      BY <1>m, <2>1, <2>2, <3>1, <3>2 DEF Steps, Dispatching
  <2>7. CASE RebootRead(w)
    <3>1. worker[w].device \in DeviceSet
      BY <1>w, <2>7 DEF RebootRead, WorkerOK
    <3> QED
      BY <2>3, <2>r, <2>7, <3>1 DEF RebootRead
  <2> QED
    BY <1>7, <2>r, <2>3, <2>4, <2>5, <2>6, <2>7
    DEF RebootWrite, RefreshRead, RefreshWrite, BreakerRead, BreakerCount, BreakerWrite, Finish
<1>8. ASSUME NEW w \in Workers, Pause(w) \/ Resume(w) \/ Abort(w) PROVE Locals'
  <2>1. PICK r \in {IdleWorker, [IdleWorker EXCEPT !.pc = "abort.skip"]} : Serve(w, r)
    BY <1>8 DEF Pause, Resume, Abort
  <2>2. r.pc \in {"idle", "abort.skip"}
    BY <1>i, <2>1 DEF IdleWorker
  <2>3. r \in WorkerType /\ Become(w, r)
    BY <1>w, <1>b, <2>1 DEF Serve
  <2>4. /\ UNCHANGED <<ring, currentStage, bucket, sent, entered>>
        /\ status # "none" /\ status' # "none"
    BY <1>8 DEF Pause, Resume, Abort, agents, history
  <2> QED
    BY <1>t, <2>2, <2>3, <2>4, MoveKeeps DEF Dispatching
<1>9. ASSUME NEW w \in Workers, AbortSkip(w) PROVE Locals'
  <2>1. status # "none" /\ UNCHANGED <<status, ring, currentStage, bucket, sent, entered>>
    BY <1>f, <1>9 DEF AbortSkip, deployment, agents
  <2>2. Become(w, IdleWorker)
    BY <1>9 DEF AbortSkip, Finish
  <2> QED
    BY <1>t, <1>i, <2>1, <2>2, MoveKeeps DEF Dispatching
<1>10. ASSUME NEW w \in Workers, Promote(w) PROVE Locals'
  <2> DEFINE r == [IdleWorker EXCEPT !.pc = "promote.write", !.stage = currentStage + 1]
  <2>1. r.pc = "promote.write" /\ r.stage = currentStage + 1
    BY DEF IdleWorker
  <2> HIDE DEF r
  <2>2. Become(w, r)
    BY <1>10 DEF Promote, Serve, r
  <2>3. r \in WorkerType
    BY <1>w, <1>b, <2>2
  <2>4. /\ UNCHANGED <<status, ring, currentStage, bucket, sent, entered>>
        /\ status # "none" /\ currentStage < Len(ring)
    BY <1>10 DEF Promote, deployment, agents, history
  <2>5. r.stage \in 2..Len(ring) /\ r.stage - 1 \in entered
    BY <1>f, <1>l, <2>1, <2>4
  <2> QED
    BY <1>t, <2>1, <2>2, <2>3, <2>4, <2>5, MoveKeeps DEF Dispatching
<1>11. ASSUME NEW w \in Workers, PromoteWrite(w) PROVE Locals'
  <2> DEFINE stage == worker[w].stage
             r == [worker[w] EXCEPT !.pc = "dispatch.list"]
  <2>1. stage \in 2..Len(ring) /\ stage - 1 \in entered
    BY <1>11, <1>w DEF PromoteWrite, WorkerOK
  <2>2. /\ status' # "none" /\ status # "none"
        /\ currentStage' = stage /\ entered' = entered \cup {stage}
        /\ UNCHANGED <<ring, bucket, sent>>
        /\ Become(w, r)
    BY <1>f, <1>11 DEF PromoteWrite, agents
  <2>3. ASSUME NEW v \in Workers PROVE WorkerOK(worker[v])'
    <3>1. CASE v = w
      <4>1. worker'[v] = r /\ r.pc = "dispatch.list" /\ r.stage = stage
        BY <1>b, <1>w, <2>2, <3>1 DEF WorkerType
      <4> QED
        BY <2>2, <4>1 DEF WorkerOK, Dispatching
    <3>2. CASE v # w
      <4>1. worker'[v] = worker[v]
        BY <1>t, <2>2, <3>2 DEF Become, TypeOK
      <4> QED
        BY <1>w, <2>2, <4>1 DEF WorkerOK
    <3> QED
      BY <3>1, <3>2
  <2>4. Fresh' /\ SentOK'
    BY <1>t, <2>2 DEF Fresh, SentOK, Locals
  <2>5. StageOK'
    BY <1>t, <2>1, <2>2 DEF StageOK, Locals
  <2> QED
    BY <2>3, <2>4, <2>5 DEF Locals
<1>12. ASSUME NEW w \in Workers, Retry(w) PROVE Locals'
  <2>1. PICK d \in DeviceSet : /\ target[d] = "failed"
                               /\ Serve(w, [IdleWorker EXCEPT !.pc = "retry.write", !.device = d])
    BY <1>12 DEF Retry
  <2> DEFINE r == [IdleWorker EXCEPT !.pc = "retry.write", !.device = d]
  <2>2. r.pc = "retry.write" /\ r.device = d
    BY DEF IdleWorker
  <2> HIDE DEF r
  <2>3. Become(w, r)
    BY <2>1 DEF Serve, r
  <2>4. r \in WorkerType
    BY <1>w, <1>b, <2>3
  <2>5. status # "none" /\ UNCHANGED <<status, ring, currentStage, bucket, sent, entered>>
    BY <1>f, <1>12, <2>1 DEF Retry, deployment, agents, history
  <2> QED
    BY <1>t, <2>2, <2>3, <2>4, <2>5, MoveKeeps DEF Dispatching
<1>13. ASSUME NEW w \in Workers, RetryWrite(w) PROVE Locals'
  <2> DEFINE r == [worker[w] EXCEPT !.pc = "refresh.read", !.device = None]
  <2>1. r.pc = "refresh.read"
    BY <1>w DEF WorkerType
  <2> HIDE DEF r
  <2>2. Become(w, r)
    BY <1>13 DEF RetryWrite, Refresh, r
  <2>3. /\ worker[w].pc # "idle"
        /\ UNCHANGED <<status, ring, currentStage, bucket, sent, entered>>
    BY <1>13 DEF RetryWrite, deployment, agents
  <2>4. status # "none"
    BY <1>f, <2>3
  <2> QED
    BY <1>m, <2>1, <2>2, <2>3, <2>4 DEF Steps, Dispatching
<1>14. ASSUME NEW w \in Workers, Skip(w) PROVE Locals'
  <2>1. PICK d \in DeviceSet : /\ target[d] # "none"
                               /\ Serve(w, [IdleWorker EXCEPT !.pc = "refresh.read"])
    BY <1>14 DEF Skip
  <2> DEFINE r == [IdleWorker EXCEPT !.pc = "refresh.read"]
  <2>2. r.pc = "refresh.read"
    BY DEF IdleWorker
  <2> HIDE DEF r
  <2>3. Become(w, r)
    BY <2>1 DEF Serve, r
  <2>4. r \in WorkerType
    BY <1>w, <1>b, <2>3
  <2>5. status # "none" /\ UNCHANGED <<status, ring, currentStage, bucket, sent, entered>>
    BY <1>f, <1>14, <2>1 DEF Skip, deployment, agents, history
  <2> QED
    BY <1>t, <2>2, <2>3, <2>4, <2>5, MoveKeeps DEF Dispatching
<1>15. CASE Crash
  <2>1. /\ \A w \in Workers : worker'[w] \in {IdleWorker, worker[w]}
        /\ UNCHANGED <<status, ring, currentStage, bucket, target, sent, entered>>
        /\ unsettled' /\ unchecked'
    BY <1>15 DEF Crash, deployment, agents
  <2> QED
    BY <1>t, <1>i, <2>1 DEF Locals, Fresh, WorkerOK, StageOK, SentOK, Dispatching
<1>16. CASE UNCHANGED vars
  BY <1>t, <1>16 DEF vars, Locals, Fresh, WorkerOK, StageOK, SentOK
<1> QED
  BY <1>1, <1>2, <1>3, <1>4, <1>5, <1>6, <1>7, <1>8, <1>9, <1>10, <1>11, <1>12, <1>13, <1>14,
     <1>15, <1>16
  DEF Next, Request, HandlerStep

-----------------------------------------------------------------------------
(* No success that no agent reported.                                      *)

LEMMA NoFalseSuccessStep == IInv /\ [Next]_vars => NoFalseSuccess'
<1> DEFINE success == {"succeeded", "no-op", "reboot-deferred"}
<1> SUFFICES ASSUME IInv, [Next]_vars, NEW d \in DeviceSet, target'[d] \in success
             PROVE  target'[d] \in reports'[d]
  BY DEF NoFalseSuccess
<1>t. TypeOK /\ (target[d] \in success => target[d] \in reports[d])
  BY DEF IInv, NoFalseSuccess
<1>1. ASSUME target'[d] = target[d] \/ target'[d] \notin success, reports' = reports
      PROVE  target'[d] \in reports'[d]
  BY <1>t, <1>1
<1>2. ASSUME NEW e \in DeviceSet, NEW outcome \in Outcomes, Reported(e, outcome)
      PROVE  target'[d] \in reports'[d]
  BY <1>t, <1>2 DEF Reported, TypeOK
<1>3. ASSUME NEW w \in Workers, CreateDeployment(w) PROVE target'[d] \in reports'[d]
  BY <1>3 DEF CreateDeployment
<1>4. ASSUME NEW w \in Workers, Request(w), ~CreateDeployment(w) PROVE target'[d] \in reports'[d]
  <2>1. CASE SoftwareComplete(w) \/ Simulate(w)
    BY <1>t, <1>2, <2>1 DEF SoftwareComplete, Simulate, TypeOK
  <2>2. CASE Pause(w) \/ Resume(w) \/ Abort(w) \/ Promote(w) \/ Retry(w)
    BY <1>1, <2>2 DEF Pause, Resume, Abort, Promote, Retry, agents
  <2>3. CASE Skip(w)
    BY <1>t, <1>1, <2>3 DEF Skip, TypeOK, agents
  <2> QED
    BY <1>4, <2>1, <2>2, <2>3 DEF Request
<1>5. ASSUME NEW w \in Workers, HandlerStep(w) PROVE target'[d] \in reports'[d]
  <2>1. CASE DispatchWrite(w)
    BY <1>t, <1>1, <2>1 DEF DispatchWrite, TypeOK, agents
  <2>2. CASE AbortSkip(w)
    BY <1>1, <2>2 DEF AbortSkip, agents
  <2>3. CASE RetryWrite(w)
    BY <1>t, <1>1, <2>3 DEF RetryWrite, TypeOK, agents
  <2>4. CASE ~(DispatchWrite(w) \/ AbortSkip(w) \/ RetryWrite(w))
    BY <1>1, <1>5, <2>4
    DEF HandlerStep, DispatchList, DispatchSend, RebootRead, RebootWrite, RefreshRead,
        RefreshWrite, BreakerRead, BreakerCount, BreakerWrite, PromoteWrite, agents
  <2> QED
    BY <2>1, <2>2, <2>3, <2>4
<1>6. ASSUME NEW e \in DeviceSet, Progress(e) PROVE target'[d] \in reports'[d]
  BY <1>t, <1>1, <1>6 DEF Progress, TypeOK, agents
<1>7. CASE Crash \/ UNCHANGED vars
  BY <1>1, <1>7 DEF Crash, vars, agents
<1> QED
  BY <1>3, <1>4, <1>5, <1>6, <1>7 DEF Next

-----------------------------------------------------------------------------
(* The last target to settle.                                              *)

\* A step of a handler that was not about to settle the deployment.
LEMMA OthersSettle ==
  ASSUME TypeOK, SettledOK, NEW w \in Workers, NEW r, Become(w, r),
         Settling(r) \/ ~Settling(worker[w]), allTerminal, status = "running", ~unsettled
  PROVE  \E v \in Workers : Settling(worker'[v])
<1>1. PICK v \in Workers : Settling(worker[v])
  BY DEF SettledOK
<1>2. worker' = [worker EXCEPT ![w] = r] /\ worker \in [Workers -> WorkerType]
  BY DEF Become, TypeOK
<1>3. CASE v = w
  BY <1>1, <1>2, <1>3
<1>4. CASE v # w
  BY <1>1, <1>2, <1>4
<1> QED
  BY <1>3, <1>4

LEMMA SettledStep == IInv /\ [Next]_vars => SettledOK'
<1> SUFFICES ASSUME IInv, [Next]_vars, allTerminal', status' = "running", ~unsettled'
             PROVE  \E v \in Workers : Settling(worker'[v])
  BY DEF SettledOK, Settling
<1>t. TypeOK /\ SettledOK /\ Locals
  BY DEF IInv
<1>f. status = "none" => unsettled
  BY <1>t DEF Locals, Fresh
<1>w. ASSUME NEW w \in Workers PROVE worker[w] \in WorkerType
  BY <1>t, <1>w DEF TypeOK
<1>b. ASSUME NEW w \in Workers, NEW r, Become(w, r), Settling(r)
      PROVE  \E v \in Workers : Settling(worker'[v])
  <2>1. worker'[w] = r
    BY <1>t, <1>b DEF TypeOK, Become
  <2> QED
    BY <1>b, <2>1
<1>u. ASSUME UNCHANGED <<status, target, unsettled>>
      PROVE  allTerminal /\ status = "running" /\ ~unsettled
  BY <1>u DEF allTerminal
<1>k. ASSUME NEW w \in Workers, NEW r, Become(w, r), ~Settling(worker[w]),
             UNCHANGED <<status, target, unsettled>>
      PROVE  \E v \in Workers : Settling(worker'[v])
  BY <1>t, <1>u, <1>k, OthersSettle
<1>o. ASSUME NEW d \in DeviceSet, target'[d] \in Open PROVE FALSE
  BY <1>o DEF allTerminal
<1>1. ASSUME NEW w \in Workers, CreateDeployment(w) PROVE FALSE
  BY <1>f, <1>1 DEF CreateDeployment
<1>2. ASSUME NEW w \in Workers, DispatchList(w) \/ DispatchSend(w)
      PROVE  \E v \in Workers : Settling(worker'[v])
  <2>1. ~Settling(worker[w]) /\ UNCHANGED <<status, target, unsettled>>
    BY <1>2 DEF DispatchList, DispatchSend, Settling, deployment, history
  <2>2. \E r : Become(w, r)
    BY <1>2 DEF DispatchList, DispatchSend, Finish
  <2> QED
    BY <1>k, <2>1, <2>2
<1>3. ASSUME NEW w \in Workers, DispatchWrite(w) PROVE FALSE
  <2>1. worker[w].flag /\ worker[w].device \in DeviceSet
    BY <1>t, <1>w, <1>3 DEF DispatchWrite, WorkerOK, Locals, WorkerType
  <2>2. target'[worker[w].device] = "dispatched"
    BY <1>t, <1>3, <2>1 DEF DispatchWrite, TypeOK
  <2> QED
    BY <1>o, <2>1, <2>2 DEF Open
<1>4. ASSUME NEW d \in DeviceSet, Progress(d) PROVE FALSE
  <2>1. target'[d] = "running"
    BY <1>t, <1>4 DEF Progress, TypeOK
  <2> QED
    BY <1>o, <2>1 DEF Open
<1>5. ASSUME NEW w \in Workers, SoftwareComplete(w) \/ Simulate(w)
      PROVE  \E v \in Workers : Settling(worker'[v])
  <2>0. PICK d \in DeviceSet : \E r \in Completing(d) : Become(w, r)
    BY <1>t, <1>5, ReportStep DEF Serve
  <2>1. PICK r \in Completing(d) : Become(w, r)
    BY <2>0
  <2>2. Settling(r)
    BY DEF IdleWorker, Settling, Completing
  <2> QED
    BY <1>b, <2>1, <2>2
<1>6. ASSUME NEW w \in Workers, RebootRead(w) \/ RebootWrite(w) \/ RetryWrite(w)
      PROVE  \E v \in Workers : Settling(worker'[v])
  <2>1. PICK r \in {[worker[w] EXCEPT !.pc = "reboot.write"],
                   [worker[w] EXCEPT !.pc = "refresh.read", !.device = None]} : Become(w, r)
    BY <1>6 DEF RebootRead, RebootWrite, RetryWrite, Refresh
  <2>2. Settling(r)
    BY <1>w DEF WorkerType, Settling
  <2> QED
    BY <1>b, <2>1, <2>2
<1>7. ASSUME NEW w \in Workers, RefreshRead(w)
      PROVE  \E v \in Workers : Settling(worker'[v])
  <2>1. allTerminal
    BY <1>7 DEF RefreshRead, allTerminal
  <2>2. Settling([worker[w] EXCEPT !.pc = "refresh.write", !.flag = allTerminal])
    BY <1>w, <2>1 DEF WorkerType, Settling
  <2> QED
    BY <1>7, <1>b, <2>2 DEF RefreshRead
<1>8. ASSUME NEW w \in Workers, RefreshWrite(w)
      PROVE  \E v \in Workers : Settling(worker'[v])
  <2>1. ~worker[w].flag /\ UNCHANGED <<status, target, unsettled>>
    BY <1>8 DEF RefreshWrite, history
  <2>2. ~Settling(worker[w])
    BY <1>8, <2>1 DEF RefreshWrite, Settling
  <2>3. \E r : Become(w, r)
    BY <1>8 DEF RefreshWrite, Finish
  <2> QED
    BY <1>k, <2>1, <2>2, <2>3
<1>9. ASSUME NEW w \in Workers, BreakerRead(w) \/ BreakerCount(w)
      PROVE  \E v \in Workers : Settling(worker'[v])
  <2>1. ~Settling(worker[w]) /\ UNCHANGED <<status, target, unsettled>>
    BY <1>9 DEF BreakerRead, BreakerCount, Settling, deployment, history
  <2>2. \E r : Become(w, r)
    BY <1>9 DEF BreakerRead, BreakerCount, Finish
  <2> QED
    BY <1>k, <2>1, <2>2
<1>10. ASSUME NEW w \in Workers,
              BreakerWrite(w) \/ Pause(w) \/ Resume(w) \/ Abort(w) \/ AbortSkip(w) \/ PromoteWrite(w)
       PROVE  FALSE
  BY <1>10 DEF BreakerWrite, Pause, Resume, Abort, AbortSkip, PromoteWrite
<1>11. ASSUME NEW w \in Workers, Promote(w) \/ Retry(w)
       PROVE  \E v \in Workers : Settling(worker'[v])
  <2>1. ~Settling(worker[w]) /\ UNCHANGED <<status, target, unsettled>>
    BY <1>11 DEF Promote, Retry, Serve, Settling, deployment, history
  <2>2. \E r : Become(w, r)
    BY <1>11 DEF Promote, Retry, Serve
  <2> QED
    BY <1>k, <2>1, <2>2
<1>12. ASSUME NEW w \in Workers, Skip(w)
       PROVE  \E v \in Workers : Settling(worker'[v])
  <2>1. Become(w, [IdleWorker EXCEPT !.pc = "refresh.read"])
    BY <1>12 DEF Skip, Serve
  <2>2. Settling([IdleWorker EXCEPT !.pc = "refresh.read"])
    BY DEF IdleWorker, Settling
  <2> QED
    BY <1>b, <2>1, <2>2
<1>13. CASE Crash
  BY <1>13 DEF Crash
<1>14. CASE UNCHANGED vars
  <2>1. UNCHANGED <<status, target, unsettled, worker>>
    BY <1>14 DEF vars
  <2> QED
    BY <1>t, <1>u, <2>1 DEF SettledOK
<1> QED
  BY <1>1, <1>2, <1>3, <1>4, <1>5, <1>6, <1>7, <1>8, <1>9, <1>10, <1>11, <1>12, <1>13, <1>14
  DEF Next, Request, HandlerStep

-----------------------------------------------------------------------------
(* Pending reboots.                                                        *)

LEMMA RebootStep == IInv /\ [Next]_vars => RebootOK'
<1> SUFFICES ASSUME IInv, [Next]_vars, crashes' = 0, NEW d \in DeviceSet,
                    target'[d] = "reboot-deferred", d \notin pendingReboot'
             PROVE  \E v \in Workers : Flagging(worker'[v], d)
  BY DEF RebootOK, Flagging
<1>t. TypeOK /\ RebootOK /\ Locals
  BY DEF IInv
<1>w. ASSUME NEW w \in Workers PROVE worker[w] \in WorkerType /\ WorkerOK(worker[w])
  BY <1>t, <1>w DEF TypeOK, Locals
<1>c. CASE Crash
  BY <1>t, <1>c DEF Crash, TypeOK
<1>0. ~Crash => crashes = 0
  BY DEF Next, Request, HandlerStep, CreateDeployment, SoftwareComplete, Simulate, Pause, Resume,
         Abort, Promote, Retry, Skip, DispatchList, DispatchSend, DispatchWrite, RebootRead,
         RebootWrite, RefreshRead, RefreshWrite, BreakerRead, BreakerCount, BreakerWrite, AbortSkip,
         PromoteWrite, RetryWrite, Progress, vars
\* The target waited already, and the handler that moves does not flag it.
<1>k. ASSUME ~Crash, target[d] = "reboot-deferred", pendingReboot' = pendingReboot,
             NEW w \in Workers, NEW r, Become(w, r), ~Flagging(worker[w], d)
      PROVE  \E v \in Workers : Flagging(worker'[v], d)
  <2>1. PICK v \in Workers : Flagging(worker[v], d)
    BY <1>t, <1>0, <1>k DEF RebootOK
  <2>2. worker'[v] = worker[v]
    BY <1>t, <1>k, <2>1 DEF Become, TypeOK
  <2> QED
    BY <2>1, <2>2
<1>b. ASSUME NEW w \in Workers, NEW r, Become(w, r), Flagging(r, d)
      PROVE  \E v \in Workers : Flagging(worker'[v], d)
  <2>1. worker'[w] = r
    BY <1>t, <1>b DEF TypeOK, Become
  <2> QED
    BY <1>b, <2>1
<1>1. ASSUME NEW w \in Workers, CreateDeployment(w) PROVE FALSE
  BY <1>1 DEF CreateDeployment
<1>2. ASSUME ~Crash, NEW w \in Workers,
             DispatchList(w) \/ DispatchSend(w) \/ RefreshRead(w) \/ RefreshWrite(w)
             \/ BreakerRead(w) \/ BreakerCount(w) \/ BreakerWrite(w) \/ Pause(w) \/ Resume(w) \/ Abort(w)
             \/ Promote(w) \/ PromoteWrite(w) \/ Retry(w)
      PROVE  \E v \in Workers : Flagging(worker'[v], d)
  <2>1. UNCHANGED <<target, pendingReboot>> /\ ~Flagging(worker[w], d)
    BY <1>2 DEF DispatchList, DispatchSend, RefreshRead, RefreshWrite, BreakerRead,
                BreakerCount, BreakerWrite, Pause, Resume, Abort, Promote, PromoteWrite, Retry,
                Serve, Flagging
  <2>2. \E r : Become(w, r)
    BY <1>2 DEF DispatchList, DispatchSend, RefreshRead, RefreshWrite, BreakerRead,
                BreakerCount, BreakerWrite, Pause, Resume, Abort, Promote, PromoteWrite, Retry,
                Serve, Finish
  <2> QED
    BY <1>2, <1>k, <2>1, <2>2
<1>3. ASSUME ~Crash, NEW w \in Workers,
             DispatchWrite(w) \/ AbortSkip(w) \/ RetryWrite(w) \/ Skip(w)
      PROVE  \E v \in Workers : Flagging(worker'[v], d)
  <2>1. pendingReboot' = pendingReboot /\ ~Flagging(worker[w], d)
    BY <1>3 DEF DispatchWrite, AbortSkip, RetryWrite, Skip, Serve, Flagging
  <2>2. target[d] = "reboot-deferred"
    BY <1>t, <1>3 DEF DispatchWrite, AbortSkip, RetryWrite, Skip, TypeOK
  <2>3. \E r : Become(w, r)
    BY <1>3 DEF DispatchWrite, AbortSkip, RetryWrite, Skip, Serve, Finish, Refresh
  <2> QED
    BY <1>3, <1>k, <2>1, <2>2, <2>3
<1>4. ASSUME ~Crash, NEW w \in Workers, SoftwareComplete(w) \/ Simulate(w)
      PROVE  \E v \in Workers : Flagging(worker'[v], d)
  <2>0. PICK e \in DeviceSet, outcome \in Outcomes : \E r \in Completing(e) :
          /\ target' = [target EXCEPT ![e] = outcome]
          /\ outcome = "reboot-deferred" => r.pc \in {"reboot.read", "reboot.write"}
          /\ worker[w].pc = "idle"
          /\ Become(w, r)
    BY <1>t, <1>4, ReportStep DEF Serve, Reported
  <2>1. PICK r \in Completing(e) :
          /\ target' = [target EXCEPT ![e] = outcome]
          /\ outcome = "reboot-deferred" => r.pc \in {"reboot.read", "reboot.write"}
          /\ worker[w].pc = "idle"
          /\ Become(w, r)
    BY <2>0
  <2>2. CASE e = d
    <3>1. outcome = "reboot-deferred"
      BY <1>t, <2>1, <2>2 DEF TypeOK
    <3>2. Flagging(r, d)
      BY <2>1, <2>2, <3>1 DEF IdleWorker, Flagging, Completing
    <3> QED
      BY <1>b, <2>1, <3>2
  <2>3. CASE e # d
    <3>1. target[d] = "reboot-deferred"
      BY <1>t, <2>1, <2>3 DEF TypeOK
    <3>2. ~Flagging(worker[w], d) /\ pendingReboot' = pendingReboot
      BY <1>4, <2>1 DEF Flagging, SoftwareComplete, Simulate
    <3> QED
      BY <1>4, <1>k, <2>1, <3>1, <3>2
  <2> QED
    BY <2>2, <2>3
<1>5. ASSUME ~Crash, NEW w \in Workers, RebootRead(w)
      PROVE  \E v \in Workers : Flagging(worker'[v], d)
  <2>1. UNCHANGED <<target, pendingReboot>>
    BY <1>5 DEF RebootRead
  <2>2. CASE worker[w].device = d
    <3>1. Become(w, [worker[w] EXCEPT !.pc = "reboot.write"])
      BY <1>5, <2>1, <2>2 DEF RebootRead
    <3>2. Flagging([worker[w] EXCEPT !.pc = "reboot.write"], d)
      BY <1>w, <2>2 DEF WorkerType, Flagging
    <3> QED
      BY <1>b, <3>1, <3>2
  <2>3. CASE worker[w].device # d
    <3>1. ~Flagging(worker[w], d) /\ \E r : Become(w, r)
      BY <1>5, <2>3 DEF Flagging, RebootRead, Refresh
    <3> QED
      BY <1>5, <1>k, <2>1, <3>1
  <2> QED
    BY <2>2, <2>3
<1>6. ASSUME ~Crash, NEW w \in Workers, RebootWrite(w)
      PROVE  \E v \in Workers : Flagging(worker'[v], d)
  <2>1. /\ target' = target /\ d \notin pendingReboot /\ worker[w].device # d
        /\ \E r : Become(w, r)
    BY <1>6 DEF RebootWrite, Refresh
  <2>2. PICK v \in Workers : Flagging(worker[v], d)
    BY <1>t, <1>0, <1>6, <2>1 DEF RebootOK
  <2>3. v # w
    BY <2>1, <2>2 DEF Flagging
  <2>4. worker'[v] = worker[v]
    BY <1>t, <2>1, <2>3 DEF Become, TypeOK
  <2> QED
    BY <2>2, <2>4
<1>7. ASSUME ~Crash, NEW e \in DeviceSet, Progress(e)
      PROVE  \E v \in Workers : Flagging(worker'[v], d)
  <2>1. target[d] = "reboot-deferred" /\ UNCHANGED <<pendingReboot, worker>>
    BY <1>t, <1>7 DEF Progress, TypeOK
  <2> QED
    BY <1>t, <1>0, <1>7, <2>1 DEF RebootOK
<1>8. ASSUME ~Crash, UNCHANGED vars
      PROVE  \E v \in Workers : Flagging(worker'[v], d)
  <2>1. UNCHANGED <<target, pendingReboot, worker>>
    BY <1>8 DEF vars
  <2> QED
    BY <1>t, <1>0, <1>8, <2>1 DEF RebootOK
<1> QED
  BY <1>c, <1>1, <1>2, <1>3, <1>4, <1>5, <1>6, <1>7, <1>8 DEF Next, Request, HandlerStep

-----------------------------------------------------------------------------
(* The failure rate.                                                       *)

\* Fewer failures among at least as many decided targets: the rate is no
\* higher.
LEMMA RateFalls ==
  ASSUME NEW f \in Nat, NEW g \in Nat, NEW c \in Nat, NEW e \in Nat, NEW rate \in Nat,
         g <= f, c <= e, g * 100 > rate * e
  PROVE  f * 100 > rate * c
<1>1. PICK k \in Nat : e = c + k
  <2>1. e - c \in Nat /\ e = c + (e - c)
    OBVIOUS
  <2> QED
    BY <2>1
<1>2. rate * e = rate * c + rate * k /\ rate * k \in Nat /\ rate * c \in Nat
  BY <1>1
<1> QED
  BY <1>2

\* A failed target taken out of the count: the rate is no higher, because no
\* threshold is above one hundred per cent.
LEMMA RateFallsByOne ==
  ASSUME NEW f \in Nat \ {0}, NEW c \in Nat \ {0}, NEW rate \in 0..100,
         (f - 1) * 100 > rate * (c - 1)
  PROVE  f * 100 > rate * c
<1>1. rate * (c - 1) = rate * c - rate /\ rate * c \in Nat
  OBVIOUS
<1> QED
  BY <1>1

LEMMA DevicesFinite == IsFiniteSet(DeviceSet)
<1>1. DOMAIN Devices = 1..Len(Devices) /\ Len(Devices) \in Nat
  BY DeploymentAssumption
<1>2. IsFiniteSet(DOMAIN Devices)
  BY <1>1, FS_Interval
<1>3. Devices \in [DOMAIN Devices -> DeviceSet]
  BY DeploymentAssumption, <1>1 DEF DeviceSet
<1>4. Devices \in Surjection(DOMAIN Devices, DeviceSet)
  BY <1>3 DEF Surjection, DeviceSet
<1> QED
  BY <1>2, <1>4, FS_Surjection

\* The failed and the decided targets of a stage.
FailedIn(stage) == {d \in bucket[stage] : target[d] = "failed"}
DecidedIn(stage) == {d \in bucket[stage] : isTerminalStatus(target[d])}

\* What they say of the rate.
RateFacts ==
  /\ FailedIn(currentStage) \in SUBSET DeviceSet
  /\ DecidedIn(currentStage) \in SUBSET DeviceSet
  /\ FailedIn(currentStage) \subseteq DecidedIn(currentStage)
  /\ ring[currentStage].abortFailureRate \in 0..100
  /\ FailureRateExceeded(currentStage) <=>
       Cardinality(FailedIn(currentStage)) * 100 >
         ring[currentStage].abortFailureRate * Cardinality(DecidedIn(currentStage))

LEMMA Exceeded == TypeOK => RateFacts
<1> SUFFICES ASSUME TypeOK PROVE RateFacts
  OBVIOUS
<1>1. ring \in Seq(StageType) /\ currentStage \in 1..Len(ring)
  BY DeploymentAssumption DEF TypeOK, RingType
<1>2. ring[currentStage] \in StageType
  BY <1>1
<1>3. bucket[currentStage] \subseteq DeviceSet
  BY <1>1 DEF TypeOK
<1>4. FailedIn(currentStage) \subseteq DecidedIn(currentStage)
  BY DEF FailedIn, DecidedIn, isTerminalStatus
<1>5. CountIn(bucket[currentStage], {"failed"}) = Cardinality(FailedIn(currentStage))
  BY DEF CountIn, FailedIn
<1>6. CountIn(bucket[currentStage], {s \in TargetStates : isTerminalStatus(s)}) =
        Cardinality(DecidedIn(currentStage))
  <2>1. {d \in bucket[currentStage] : target[d] \in {s \in TargetStates : isTerminalStatus(s)}} =
          DecidedIn(currentStage)
    BY <1>3 DEF DecidedIn, TypeOK
  <2> QED
    BY <2>1 DEF CountIn
<1> QED
  BY <1>2, <1>3, <1>4, <1>5, <1>6 DEF RateFacts, FailureRateExceeded, FailedIn, DecidedIn, StageType

LEMMA ExceededNext == TypeOK' => RateFacts'
BY Exceeded, PTL

\* Targets that change so that none fails anew and none decided becomes
\* undecided: a rate that is exceeded now was exceeded before.
LEMMA NoneFailsAnew ==
  ASSUME TypeOK, TypeOK', UNCHANGED <<ring, currentStage, bucket>>,
         \A d \in DeviceSet : target'[d] = "failed" => target[d] = "failed",
         \A d \in DeviceSet : isTerminalStatus(target[d]) => isTerminalStatus(target'[d]),
         FailureRateExceeded(currentStage)'
  PROVE  FailureRateExceeded(currentStage)
<1>1. /\ FailedIn(currentStage) \in SUBSET DeviceSet
      /\ DecidedIn(currentStage) \in SUBSET DeviceSet
      /\ ring[currentStage].abortFailureRate \in 0..100
  BY Exceeded DEF RateFacts
<1> DEFINE F == FailedIn(currentStage)
           D == DecidedIn(currentStage)
           G == FailedIn(currentStage)'
           E == DecidedIn(currentStage)'
           rate == ring[currentStage].abortFailureRate
<1>2. /\ G \in SUBSET DeviceSet /\ E \in SUBSET DeviceSet
      /\ Cardinality(G) * 100 > rate * Cardinality(E)
  BY ExceededNext DEF RateFacts
<1>3. G \subseteq F /\ D \subseteq E
  <2>1. bucket'[currentStage'] = bucket[currentStage]
    OBVIOUS
  <2> QED
    BY <1>1, <1>2, <2>1 DEF FailedIn, DecidedIn
<1>4. IsFiniteSet(F) /\ IsFiniteSet(E) /\ IsFiniteSet(G) /\ IsFiniteSet(D)
  BY <1>1, <1>2, DevicesFinite, FS_Subset
<1>5. Cardinality(G) <= Cardinality(F) /\ Cardinality(D) <= Cardinality(E)
  BY <1>3, <1>4, FS_Subset
<1>6. /\ Cardinality(F) \in Nat /\ Cardinality(G) \in Nat
      /\ Cardinality(D) \in Nat /\ Cardinality(E) \in Nat
  BY <1>4, FS_CardinalityType
<1>7. Cardinality(F) * 100 > rate * Cardinality(D)
  <2> HIDE DEF F, G, D, E, rate
  <2>1. rate \in Nat
    BY <1>1 DEF rate
  <2> QED
    BY <1>2, <1>5, <1>6, <2>1, RateFalls
<1> QED
  BY <1>7, Exceeded DEF RateFacts

\* A failed target that is retried: the same.
LEMMA RetriedFailure ==
  ASSUME TypeOK, TypeOK', UNCHANGED <<ring, currentStage, bucket>>,
         NEW d \in DeviceSet, target[d] = "failed", target' = [target EXCEPT ![d] = "pending"],
         FailureRateExceeded(currentStage)'
  PROVE  FailureRateExceeded(currentStage)
<1> DEFINE F == FailedIn(currentStage)
           D == DecidedIn(currentStage)
           G == FailedIn(currentStage)'
           E == DecidedIn(currentStage)'
           rate == ring[currentStage].abortFailureRate
<1>1. F \in SUBSET DeviceSet /\ D \in SUBSET DeviceSet /\ F \subseteq D /\ rate \in 0..100
  BY Exceeded DEF RateFacts
<1>2. Cardinality(G) * 100 > rate * Cardinality(E)
  BY ExceededNext DEF RateFacts
<1>3. G = F \ {d} /\ E = D \ {d}
  <2>1. bucket'[currentStage'] = bucket[currentStage]
    OBVIOUS
  <2>2. \A e \in DeviceSet : target'[e] = IF e = d THEN "pending" ELSE target[e]
    BY DEF TypeOK
  <2>3. bucket[currentStage] \subseteq DeviceSet
    BY DeploymentAssumption DEF TypeOK, RingType
  <2>4. ~isTerminalStatus("pending")
    BY DEF isTerminalStatus
  <2>5. \A e : e \in G <=> e \in F \ {d}
    BY <2>1, <2>2, <2>3 DEF FailedIn
  <2>6. \A e : e \in E <=> e \in D \ {d}
    BY <2>1, <2>2, <2>3, <2>4 DEF DecidedIn
  <2> QED
    BY <2>5, <2>6
<1>4. IsFiniteSet(F) /\ IsFiniteSet(D)
  BY <1>1, DevicesFinite, FS_Subset
<1>5. Cardinality(F) \in Nat /\ Cardinality(D) \in Nat
  BY <1>4, FS_CardinalityType
<1>6. CASE d \in F
  <2>1. Cardinality(G) = Cardinality(F) - 1 /\ Cardinality(E) = Cardinality(D) - 1
    <3>1. d \in D
      BY <1>1, <1>6
    <3> HIDE DEF F, D, G, E
    <3>2. Cardinality(F \ {d}) = Cardinality(F) - 1
      BY <1>4, <1>6, FS_RemoveElement
    <3>3. Cardinality(D \ {d}) = Cardinality(D) - 1
      BY <1>4, <3>1, FS_RemoveElement
    <3> QED
      BY <1>3, <3>2, <3>3
  <2>2. Cardinality(F) # 0 /\ Cardinality(D) # 0
    BY <1>1, <1>4, <1>6, FS_EmptySet
  <2>3. Cardinality(F) * 100 > rate * Cardinality(D)
    <3> HIDE DEF F, D, G, E, rate
    <3> QED
      BY <1>1, <1>2, <1>5, <2>1, <2>2, RateFallsByOne
  <2> QED
    BY <2>3, Exceeded DEF RateFacts
<1>7. CASE d \notin F
  <2>1. d \notin D
    BY <1>7 DEF FailedIn, DecidedIn
  <2>2. G = F /\ E = D
    BY <1>3, <1>7, <2>1
  <2> QED
    BY <1>2, <2>2, Exceeded DEF RateFacts
<1> QED
  BY <1>6, <1>7

-----------------------------------------------------------------------------
(* The circuit breaker.                                                    *)

\* A step of a handler that was not about to look at the rate.
LEMMA OthersCheck ==
  ASSUME TypeOK, BreakerOK, NEW w \in Workers, NEW r, Become(w, r),
         Checking(r, currentStage) \/ ~Checking(worker[w], currentStage),
         status = "running", ~unchecked, FailureRateExceeded(currentStage)
  PROVE  \E v \in Workers : Checking(worker'[v], currentStage)
<1>1. PICK v \in Workers : Checking(worker[v], currentStage)
  BY DEF BreakerOK
<1>2. worker' = [worker EXCEPT ![w] = r] /\ worker \in [Workers -> WorkerType]
  BY DEF Become, TypeOK
<1>3. CASE v = w
  BY <1>1, <1>2, <1>3
<1>4. CASE v # w
  BY <1>1, <1>2, <1>4
<1> QED
  BY <1>3, <1>4

LEMMA BreakerStep == IInv /\ [Next]_vars => BreakerOK'
<1> SUFFICES ASSUME IInv, [Next]_vars, status' = "running", ~unchecked',
                    FailureRateExceeded(currentStage)'
             PROVE  \E v \in Workers : Checking(worker'[v], currentStage')
  BY DEF BreakerOK, Checking
<1>t. TypeOK /\ TypeOK' /\ BreakerOK /\ Locals
  BY TypeStep DEF IInv
<1>f. status = "none" => unchecked
  BY <1>t DEF Locals, Fresh
<1>w. ASSUME NEW w \in Workers PROVE worker[w] \in WorkerType
  BY <1>t, <1>w DEF TypeOK
<1>b. ASSUME NEW w \in Workers, NEW r, Become(w, r), Checking(r, currentStage')
      PROVE  \E v \in Workers : Checking(worker'[v], currentStage')
  <2>1. worker'[w] = r
    BY <1>t, <1>b DEF TypeOK, Become
  <2> QED
    BY <1>b, <2>1
<1>e. ASSUME UNCHANGED <<ring, currentStage, bucket, target>>
      PROVE  FailureRateExceeded(currentStage)
  BY <1>t, <1>e, NoneFailsAnew
<1>k. ASSUME NEW w \in Workers, NEW r, Become(w, r),
             Checking(r, currentStage) \/ ~Checking(worker[w], currentStage),
             UNCHANGED <<status, currentStage, unchecked>>, FailureRateExceeded(currentStage)
      PROVE  \E v \in Workers : Checking(worker'[v], currentStage')
  <2>1. \E v \in Workers : Checking(worker'[v], currentStage)
    BY <1>t, <1>k, OthersCheck
  <2> QED
    BY <1>k, <2>1
<1>1. ASSUME NEW w \in Workers, CreateDeployment(w) PROVE FALSE
  BY <1>f, <1>1 DEF CreateDeployment
<1>2. ASSUME NEW w \in Workers, DispatchList(w) \/ DispatchSend(w) \/ Promote(w) \/ Retry(w)
      PROVE  \E v \in Workers : Checking(worker'[v], currentStage')
  <2>1. ~Checking(worker[w], currentStage)
    BY <1>2 DEF DispatchList, DispatchSend, Promote, Retry, Serve, Checking
  <2>2. UNCHANGED <<status, ring, currentStage, bucket, target, unchecked>>
    BY <1>2 DEF DispatchList, DispatchSend, Promote, Retry, deployment, history
  <2>3. \E r : Become(w, r)
    BY <1>2 DEF DispatchList, DispatchSend, Promote, Retry, Finish, Serve
  <2> QED
    BY <1>e, <1>k, <2>1, <2>2, <2>3
<1>3. ASSUME NEW w \in Workers, DispatchWrite(w)
      PROVE  \E v \in Workers : Checking(worker'[v], currentStage')
  <2> DEFINE d == worker[w].device
  <2>1. worker[w].flag /\ ~unchecked /\ ~isTerminalStatus(target[d])
    BY <1>t, <1>w, <1>3 DEF DispatchWrite, WorkerType, TypeOK
  <2>2. d \in DeviceSet
    BY <1>t, <1>3 DEF DispatchWrite, Locals, WorkerOK
  <2>3. \A e \in DeviceSet : target'[e] = IF e = d THEN "dispatched" ELSE target[e]
    BY <1>t, <1>3, <2>1 DEF DispatchWrite, TypeOK
  <2>4. UNCHANGED <<status, ring, currentStage, bucket, unchecked>>
    <3>1. unchecked \in BOOLEAN /\ unchecked' \in BOOLEAN
      BY <1>t DEF TypeOK
    <3> QED
      BY <1>3, <2>1, <3>1 DEF DispatchWrite, deployment
  <2>5. FailureRateExceeded(currentStage)
    BY <1>t, <2>1, <2>2, <2>3, <2>4, NoneFailsAnew
  <2>6. \E r : Become(w, r)
    BY <1>3 DEF DispatchWrite, Finish
  <2>7. ~Checking(worker[w], currentStage)
    BY <1>3 DEF DispatchWrite, Checking
  <2> QED
    BY <1>k, <2>4, <2>5, <2>6, <2>7
<1>4. ASSUME NEW d \in DeviceSet, Progress(d)
      PROVE  \E v \in Workers : Checking(worker'[v], currentStage')
  <2>1. /\ UNCHANGED <<status, ring, currentStage, bucket, worker, unchecked>>
        /\ ~isTerminalStatus(target[d])
        /\ \A e \in DeviceSet : target'[e] = IF e = d THEN "running" ELSE target[e]
    BY <1>t, <1>4 DEF Progress, TypeOK, deployment, history, isTerminalStatus
  <2>2. FailureRateExceeded(currentStage)
    BY <1>t, <2>1, NoneFailsAnew
  <2> QED
    BY <1>t, <2>1, <2>2 DEF BreakerOK
<1>5. ASSUME NEW w \in Workers, SoftwareComplete(w) \/ Simulate(w)
      PROVE  \E v \in Workers : Checking(worker'[v], currentStage')
  <2>0. PICK d \in DeviceSet : \E r \in Completing(d) : Become(w, r)
    BY <1>t, <1>5, ReportStep DEF Serve
  <2>1. PICK r \in Completing(d) : Become(w, r)
    BY <2>0
  <2>2. Checking(r, currentStage')
    BY DEF IdleWorker, Checking, Completing
  <2> QED
    BY <1>b, <2>1, <2>2
<1>6. ASSUME NEW w \in Workers, RebootRead(w) \/ RebootWrite(w) \/ RefreshRead(w)
      PROVE  \E v \in Workers : Checking(worker'[v], currentStage')
  <2>1. PICK r \in {[worker[w] EXCEPT !.pc = "reboot.write"],
                   [worker[w] EXCEPT !.pc = "refresh.read", !.device = None],
                   [worker[w] EXCEPT !.pc = "refresh.write", !.flag = allTerminal]} : Become(w, r)
    BY <1>6 DEF RebootRead, RebootWrite, RefreshRead, Refresh
  <2>2. r.pc \in {"reboot.write", "refresh.read", "refresh.write"} /\ r.complete = worker[w].complete
    BY <1>w DEF WorkerType
  <2>3. worker[w].pc \in {"reboot.read", "reboot.write", "refresh.read"}
    BY <1>6 DEF RebootRead, RebootWrite, RefreshRead
  <2>4. Checking(r, currentStage) \/ ~Checking(worker[w], currentStage)
    BY <2>2, <2>3 DEF Checking
  <2>5. UNCHANGED <<status, ring, currentStage, bucket, target, unchecked>>
    BY <1>6 DEF RebootRead, RebootWrite, RefreshRead, deployment, history
  <2> QED
    BY <1>e, <1>k, <2>1, <2>4, <2>5
<1>7. ASSUME NEW w \in Workers, RefreshWrite(w)
      PROVE  \E v \in Workers : Checking(worker'[v], currentStage')
  <2>1. UNCHANGED <<status, ring, currentStage, bucket, target, unchecked>>
    BY <1>7 DEF RefreshWrite, history
  <2>2. CASE worker[w].complete
    <3> DEFINE r == [worker[w] EXCEPT !.pc = "breaker.read", !.flag = FALSE]
    <3>1. r.complete /\ r.pc = "breaker.read"
      BY <1>w, <2>2 DEF WorkerType
    <3>2. Checking(r, currentStage')
      BY <3>1 DEF Checking
    <3> QED
      BY <1>7, <1>b, <2>2, <3>2 DEF RefreshWrite
  <2>3. CASE ~worker[w].complete
    <3>1. ~Checking(worker[w], currentStage)
      BY <1>7, <2>3 DEF RefreshWrite, Checking
    <3>2. Become(w, IdleWorker)
      BY <1>7, <2>3 DEF RefreshWrite, Finish
    <3> QED
      BY <1>e, <1>k, <2>1, <3>1, <3>2
  <2> QED
    BY <2>2, <2>3
<1>8. ASSUME NEW w \in Workers, BreakerRead(w)
      PROVE  \E v \in Workers : Checking(worker'[v], currentStage')
  <2> DEFINE r == [worker[w] EXCEPT !.pc = "breaker.count", !.stage = currentStage]
  <2>1. status = "running" /\ currentStage' = currentStage
    BY <1>8 DEF BreakerRead, deployment
  <2>2. r.pc = "breaker.count" /\ r.stage = currentStage
    BY <1>w DEF WorkerType
  <2>3. Checking(r, currentStage')
    BY <2>1, <2>2 DEF Checking
  <2>4. Become(w, r)
    BY <1>8, <2>1 DEF BreakerRead
  <2> QED
    BY <1>b, <2>3, <2>4
<1>9. ASSUME NEW w \in Workers, BreakerCount(w)
      PROVE  \E v \in Workers : Checking(worker'[v], currentStage')
  <2>1. UNCHANGED <<status, ring, currentStage, bucket, target, unchecked>>
    BY <1>9 DEF BreakerCount, deployment, history
  <2>2. CASE FailureRateExceeded(worker[w].stage)
    <3> DEFINE r == [worker[w] EXCEPT !.pc = "breaker.write"]
    <3>1. Checking(r, currentStage')
      BY <1>w DEF WorkerType, Checking
    <3> QED
      BY <1>9, <1>b, <2>2, <3>1 DEF BreakerCount
  <2>3. CASE ~FailureRateExceeded(worker[w].stage)
    <3>1. ~Checking(worker[w], currentStage)
      BY <1>9, <1>e, <2>1, <2>3 DEF BreakerCount, Checking
    <3>2. Become(w, IdleWorker)
      BY <1>9, <2>3 DEF BreakerCount, Finish
    <3> QED
      BY <1>e, <1>k, <2>1, <3>1, <3>2
  <2> QED
    BY <2>2, <2>3
<1>10. ASSUME NEW w \in Workers,
              BreakerWrite(w) \/ Pause(w) \/ Resume(w) \/ Abort(w) \/ PromoteWrite(w)
       PROVE  FALSE
  BY <1>10 DEF BreakerWrite, Pause, Resume, Abort, PromoteWrite
<1>11. ASSUME NEW w \in Workers, AbortSkip(w)
       PROVE  \E v \in Workers : Checking(worker'[v], currentStage')
  <2>1. \A e \in DeviceSet : target'[e] = IF target[e] \in Open THEN "skipped" ELSE target[e]
    BY <1>11 DEF AbortSkip
  <2>2. UNCHANGED <<status, ring, currentStage, bucket, unchecked>>
    BY <1>11 DEF AbortSkip, deployment
  <2>3. FailureRateExceeded(currentStage)
    <3>1. \A e \in DeviceSet : target'[e] = "failed" => target[e] = "failed"
      BY <2>1
    <3>2. \A e \in DeviceSet : isTerminalStatus(target[e]) => isTerminalStatus(target'[e])
      BY <2>1 DEF isTerminalStatus
    <3> QED
      BY <1>t, <2>2, <3>1, <3>2, NoneFailsAnew
  <2>4. ~Checking(worker[w], currentStage) /\ Become(w, IdleWorker)
    BY <1>11 DEF AbortSkip, Checking, Finish
  <2> QED
    BY <1>k, <2>2, <2>3, <2>4
<1>12. ASSUME NEW w \in Workers, RetryWrite(w)
       PROVE  \E v \in Workers : Checking(worker'[v], currentStage')
  <2> DEFINE d == worker[w].device
  <2>1. d \in DeviceSet
    BY <1>t, <1>12 DEF RetryWrite, Locals, WorkerOK
  <2>2. ~unchecked /\ target[d] = "failed" /\ target' = [target EXCEPT ![d] = "pending"]
    BY <1>t, <1>12 DEF RetryWrite, TypeOK
  <2>3. UNCHANGED <<status, ring, currentStage, bucket, unchecked>>
    <3>1. unchecked \in BOOLEAN /\ unchecked' \in BOOLEAN
      BY <1>t DEF TypeOK
    <3> QED
      BY <1>12, <2>2, <3>1 DEF RetryWrite, deployment
  <2>4. FailureRateExceeded(currentStage)
    BY <1>t, <2>1, <2>2, <2>3, RetriedFailure
  <2>5. ~Checking(worker[w], currentStage) /\ \E r : Become(w, r)
    BY <1>12 DEF RetryWrite, Checking, Refresh
  <2> QED
    BY <1>k, <2>3, <2>4, <2>5
<1>13. ASSUME NEW w \in Workers, Skip(w)
       PROVE  \E v \in Workers : Checking(worker'[v], currentStage')
  <2>1. PICK d \in DeviceSet : target' = [target EXCEPT ![d] = "skipped"]
    BY <1>13 DEF Skip
  <2>2. UNCHANGED <<status, ring, currentStage, bucket, unchecked>>
    BY <1>13 DEF Skip, deployment, history
  <2>3. FailureRateExceeded(currentStage)
    <3>1. \A e \in DeviceSet : target'[e] = IF e = d THEN "skipped" ELSE target[e]
      BY <1>t, <2>1 DEF TypeOK
    <3>2. \A e \in DeviceSet : isTerminalStatus(target[e]) => isTerminalStatus(target'[e])
      BY <3>1 DEF isTerminalStatus
    <3> QED
      BY <1>t, <2>2, <3>1, <3>2, NoneFailsAnew
  <2>4. ~Checking(worker[w], currentStage) /\ \E r : Become(w, r)
    BY <1>13 DEF Skip, Serve, Checking
  <2> QED
    BY <1>k, <2>2, <2>3, <2>4
<1>14. CASE Crash
  BY <1>14 DEF Crash
<1>15. CASE UNCHANGED vars
  <2>1. UNCHANGED <<status, ring, currentStage, bucket, target, unchecked, worker>>
    BY <1>15 DEF vars
  <2> QED
    BY <1>t, <1>e, <2>1 DEF BreakerOK
<1> QED
  BY <1>1, <1>2, <1>3, <1>4, <1>5, <1>6, <1>7, <1>8, <1>9, <1>10, <1>11, <1>12, <1>13, <1>14,
     <1>15
  DEF Next, Request, HandlerStep

-----------------------------------------------------------------------------
(* Stage assignment.                                                       *)

\* A set of naturals has a least element.
LEMMA Least == ASSUME NEW T \in SUBSET Nat, T # {} PROVE \E x \in T : \A y \in T : x <= y
<1>1. PICK x \in T : \A y \in T : ~(<<y, x>> \in OpToRel(<, Nat))
  BY NatLessThanWellFounded, WFMin, Zenon
<1>2. \A y \in T : ~(y < x)
  BY <1>1 DEF OpToRel
<1> QED
  BY <1>2

\* The first of some candidates is always taken.
LEMMA FirstTaken ==
  ASSUME NEW at \in SUBSET (DOMAIN Devices), at # {}, NEW n \in Nat \ {0}
  PROVE  FirstOf(at, n) # {}
<1>1. at \subseteq Nat
  BY DeploymentAssumption
<1>2. PICK m \in at : \A k \in at : m <= k
  BY <1>1, Least
<1>3. {k \in at : k <= m} = {m}
  BY <1>1, <1>2
<1>4. Cardinality({m}) = 1
  BY FS_Singleton
<1> QED
  BY <1>2, <1>3, <1>4 DEF FirstOf

\* A percentile stage takes one candidate at least.
LEMMA AtLeastOne ==
  ASSUME NEW percent \in 0..100, NEW size \in Nat, NEW n \in PercentileCounts(percent, size)
  PROVE  n \in Nat \ {0}
<1>1. (percent * size + 99) \div 100 \in Nat
  <2>1. percent * size \in Nat
    OBVIOUS
  <2> QED
    BY <2>1
<1> QED
  BY <1>1 DEF PercentileCounts

\* What a stage resolves to are candidates: all of them for "remaining", one at
\* least for "percentile".
LEMMA Resolved ==
  ASSUME NEW stage \in StageType, NEW at \in SUBSET (DOMAIN Devices), NEW ids,
         resolveSelector(stage, at, ids)
  PROVE  /\ ids \subseteq DevicesAt(at)
         /\ stage.kind = "remaining" => ids = DevicesAt(at)
         /\ stage.kind = "percentile" /\ ids = {} => at = {}
<1>1. CASE stage.kind \in {"pinned", "filter"}
  BY <1>1 DEF resolveSelector
<1>2. CASE stage.kind = "percentile"
  <2>1. PICK n \in PercentileCounts(stage.percent, Cardinality(at)) :
          ids = DevicesAt(FirstOf(at, n))
    BY <1>2 DEF resolveSelector
  <2>2. IsFiniteSet(at)
    <3>1. DOMAIN Devices = 1..Len(Devices) /\ Len(Devices) \in Nat
      BY DeploymentAssumption
    <3>2. IsFiniteSet(DOMAIN Devices)
      BY <3>1, FS_Interval
    <3> QED
      BY <3>2, FS_Subset
  <2>3. n \in Nat \ {0}
    BY <2>1, <2>2, FS_CardinalityType, AtLeastOne DEF StageType
  <2>4. FirstOf(at, n) \subseteq at
    BY DEF FirstOf
  <2>5. at # {} => FirstOf(at, n) # {}
    BY <2>3, FirstTaken
  <2> QED
    BY <1>2, <2>1, <2>4, <2>5 DEF DevicesAt
<1>3. CASE stage.kind = "remaining"
  BY <1>3 DEF resolveSelector
<1> QED
  BY <1>1, <1>2, <1>3 DEF StageType, SelectorKinds

\* The candidates of a stage: none was claimed, and none is lost on the way.
LEMMA CandidatesShrink ==
  ASSUME NEW paused, NEW b, NEW i \in Nat, NEW j \in Nat, i < j
  PROVE  /\ candidates(paused, b, j) \subseteq candidates(paused, b, i)
         /\ DevicesAt(candidates(paused, b, j)) \subseteq DevicesAt(candidates(paused, b, i))
         /\ i > 0 => DevicesAt(candidates(paused, b, j)) \cap b[i] = {}
<1>1. UNION {b[k] : k \in 1..(i - 1)} \subseteq UNION {b[k] : k \in 1..(j - 1)}
  <2>1. 1..(i - 1) \subseteq 1..(j - 1)
    OBVIOUS
  <2> QED
    BY <2>1
<1>2. candidates(paused, b, j) \subseteq candidates(paused, b, i)
  BY <1>1 DEF candidates
<1>3. ASSUME i > 0 PROVE DevicesAt(candidates(paused, b, j)) \cap b[i] = {}
  <2>1. i \in 1..(j - 1)
    BY <1>3
  <2>2. b[i] \subseteq UNION {b[k] : k \in 1..(j - 1)}
    BY <2>1
  <2> QED
    BY <2>2 DEF candidates, DevicesAt
<1> QED
  BY <1>2, <1>3 DEF DevicesAt

\* What StagesPartition says of an assignment.
PartitionOf(stages, b) ==
  /\ \A i, j \in DOMAIN b : i # j => b[i] \cap b[j] = {}
  /\ \A i \in DOMAIN b :
       stages[i].kind = "remaining" \/ (stages[i].kind = "percentile" /\ b[i] = {}) =>
         \A j \in DOMAIN b : j > i => b[j] = {}

LEMMA Assigned ==
  ASSUME NEW stages \in Seq(StageType), NEW paused, NEW b, DOMAIN b = 1..Len(stages),
         assignTargetsToStages(stages, paused, b)
  PROVE  PartitionOf(stages, b)
<1> DEFINE at(i) == candidates(paused, b, i)
<1>0. DOMAIN b \subseteq Nat \ {0}
  OBVIOUS
<1>1. ASSUME NEW i \in DOMAIN b
      PROVE  /\ b[i] \subseteq DevicesAt(at(i))
             /\ stages[i].kind = "remaining" => b[i] = DevicesAt(at(i))
             /\ stages[i].kind = "percentile" /\ b[i] = {} => at(i) = {}
  <2>1. stages[i] \in StageType
    BY <1>1
  <2>2. at(i) \in SUBSET (DOMAIN Devices)
    BY DEF candidates
  <2>3. resolveSelector(stages[i], at(i), b[i])
    BY <1>1 DEF assignTargetsToStages
  <2> HIDE DEF at
  <2> QED
    BY <2>1, <2>2, <2>3, Resolved
<1>2. ASSUME NEW i \in DOMAIN b, NEW j \in DOMAIN b, i < j
      PROVE  /\ at(j) \subseteq at(i)
             /\ b[j] \subseteq DevicesAt(at(i))
             /\ b[i] \cap b[j] = {}
  <2>1. i \in Nat /\ j \in Nat /\ i > 0
    BY <1>0
  <2>2. /\ at(j) \subseteq at(i)
        /\ DevicesAt(at(j)) \subseteq DevicesAt(at(i))
        /\ DevicesAt(at(j)) \cap b[i] = {}
    BY <1>2, <2>1, CandidatesShrink
  <2>3. b[j] \subseteq DevicesAt(at(j))
    BY <1>1
  <2> QED
    BY <2>2, <2>3
<1> HIDE DEF at
<1>3. ASSUME NEW i \in DOMAIN b, NEW j \in DOMAIN b, i # j PROVE b[i] \cap b[j] = {}
  <2>1. CASE i < j
    BY <1>2, <2>1
  <2>2. CASE j < i
    BY <1>2, <2>2
  <2> QED
    BY <1>0, <1>3, <2>1, <2>2
<1>4. ASSUME NEW i \in DOMAIN b, NEW j \in DOMAIN b, j > i,
             stages[i].kind = "remaining" \/ (stages[i].kind = "percentile" /\ b[i] = {})
      PROVE  b[j] = {}
  <2>0. i < j
    BY <1>0, <1>4
  <2>1. b[j] \subseteq DevicesAt(at(i)) /\ b[i] \cap b[j] = {}
    BY <1>2, <2>0
  <2>2. CASE stages[i].kind = "remaining"
    BY <1>1, <2>1, <2>2
  <2>3. CASE stages[i].kind = "percentile" /\ b[i] = {}
    <3>1. at(i) = {}
      BY <1>1, <2>3
    <3> QED
      BY <2>1, <3>1 DEF DevicesAt
  <2> QED
    BY <1>4, <2>2, <2>3
<1> QED
  BY <1>3, <1>4 DEF PartitionOf

LEMMA PartitionStep == IInv /\ [Next]_vars => StagesPartition'
<1> SUFFICES ASSUME IInv, [Next]_vars PROVE StagesPartition'
  OBVIOUS
<1>1. CASE \E w \in Workers : CreateDeployment(w)
  <2>1. PICK paused \in SUBSET DeviceSet, b \in [1..Len(ring) -> SUBSET DeviceSet] :
          assignTargetsToStages(ring, paused, b) /\ bucket' = b
    BY <1>1 DEF CreateDeployment
  <2>2. ring \in Seq(StageType) /\ ring' = ring
    BY <1>1, DeploymentAssumption DEF CreateDeployment, IInv, TypeOK, RingType
  <2>3. PartitionOf(ring, b)
    BY <2>1, <2>2, Assigned
  <2> QED
    BY <2>1, <2>2, <2>3 DEF PartitionOf, StagesPartition
<1>2. CASE UNCHANGED <<ring, bucket>>
  BY <1>2 DEF IInv, StagesPartition
<1> QED
  BY <1>1, <1>2
  DEF Next, Request, HandlerStep, vars, deployment, SoftwareComplete, Simulate, Pause, Resume,
      Abort, Promote, Retry, Skip, DispatchList, DispatchSend, DispatchWrite, RebootRead,
      RebootWrite, RefreshRead, RefreshWrite, BreakerRead, BreakerCount, BreakerWrite, AbortSkip,
      PromoteWrite, RetryWrite, Progress, Crash

-----------------------------------------------------------------------------
(* The theorems.                                                           *)

LEMMA InitIInv == Init => IInv
<1> SUFFICES ASSUME Init PROVE IInv
  OBVIOUS
<1>1. ring \in RingType /\ Len(ring) \in Nat \ {0}
  BY DeploymentAssumption DEF Init, RingType
<1>2. IdleWorker \in WorkerType /\ IdleWorker.pc = "idle" /\ ~IdleWorker.flag
  BY DEF IdleWorker, WorkerType, Steps
<1>3. TypeOK
  BY <1>1, <1>2, DeploymentAssumption DEF Init, TypeOK, TargetStates, DeploymentStates
<1>4. Locals
  BY <1>2 DEF Init, Locals, Fresh, WorkerOK, StageOK, SentOK, Dispatching
<1>5. NoFalseSuccess /\ SettledOK /\ RebootOK /\ BreakerOK
  BY DEF Init, NoFalseSuccess, SettledOK, RebootOK, BreakerOK
<1>6. StagesPartition
  BY DEF Init, StagesPartition
<1> QED
  BY <1>3, <1>4, <1>5, <1>6 DEF IInv

\* Every reachable state satisfies the inductive invariant.
THEOREM Invariance == Spec => []IInv
<1>1. IInv /\ [Next]_vars => IInv'
  BY TypeStep, LocalsStep, NoFalseSuccessStep, SettledStep, RebootStep, BreakerStep,
     PartitionStep
  DEF IInv
<1> QED
  BY InitIInv, <1>1, PTL DEF Spec

\* The rows and the handlers' locals keep their types.
THEOREM TypeCorrect == Spec => []TypeOK
<1>1. IInv => TypeOK
  BY DEF IInv
<1> QED
  BY Invariance, <1>1, PTL

\* Promotions on stale snapshots, dispatches that outlive their stage, pauses,
\* aborts and restarts never enter a stage before its predecessor, nor command
\* a device of a stage that was not entered.
THEOREM StagesInOrder == Spec => []NoStageSkipped
<1>1. IInv => NoStageSkipped
  BY DEF IInv, Locals, StageOK, SentOK, NoStageSkipped
<1> QED
  BY Invariance, <1>1, PTL

\* No interleaving of handlers invents a success.
THEOREM OnlyReportedSuccess == Spec => []NoFalseSuccess
<1>1. IInv => NoFalseSuccess
  BY DEF IInv
<1> QED
  BY Invariance, <1>1, PTL

\* The last of any number of racing reports completes the deployment.
THEOREM Settled == Spec => []SettledIsNotRunning
<1>1. IInv => SettledIsNotRunning
  BY DEF IInv, SettledOK, Settling, SettledIsNotRunning, Quiescent
<1> QED
  BY Invariance, <1>1, PTL

\* No install that waits for a reboot is forgotten.
THEOREM Reboots == Spec => []RebootRemembered
<1>1. IInv => RebootRemembered
  BY DEF IInv, RebootOK, Flagging, RebootRemembered, Quiescent
<1> QED
  BY Invariance, <1>1, PTL

\* No interleaving of reports, skips, aborts and retries leaves the current
\* stage of a running deployment above its failure threshold unnoticed: only
\* what sets "unchecked" does.
THEOREM FailuresTrip == Spec => []ReportedFailuresTrip
<1>1. IInv => ReportedFailuresTrip
  BY DEF IInv, BreakerOK, Checking, ReportedFailuresTrip, Quiescent
<1> QED
  BY Invariance, <1>1, PTL

\* Whatever the ring, the devices asked for and those in maintenance, no device
\* is put in two stages, and neither a percentile nor a "remaining" stage
\* leaves behind what it should have claimed.
THEOREM Partition == Spec => []StagesPartition
<1>1. IInv => StagesPartition
  BY DEF IInv
<1> QED
  BY Invariance, <1>1, PTL
=============================================================================
