--------------------------- MODULE ScriptRunProofs ---------------------------
(***************************************************************************)
(* Proofs about one script run, for any number of handlers and chunks, any *)
(* cap, and whatever agents report and operators simulate: the safety      *)
(* properties of ScriptRun.tla.                                            *)
(***************************************************************************)
EXTENDS ScriptRun, TLAPS

(* The inductive invariant.                                                *)

WorkerType == [pc : Steps, chunk : 0..MaxChunks, read : Seq(Chunks), cancelled : BOOLEAN]

\* What a handler holds between two statements.
HandlersOK ==
  /\ worker \in [Workers -> WorkerType]
  /\ \A w \in Workers : Len(worker[w].read) <= RUN_OUTPUT_CAP

\* Nobody writes the state but handlers of the report.
OnlyCompletions ==
  \A w \in Workers : worker[w].pc \notin {"dispatch", "reject", "cancel"}

\* The run is dispatched once: whoever dispatches it created it, and its agent
\* does not know of it before; nobody writes a run that is not there yet.
DispatchOK ==
  /\ \A w \in Workers : worker[w].pc = "dispatch" => state # "none" /\ agent = "unaware"
  /\ \A v, w \in Workers : worker[v].pc = "dispatch" /\ worker[w].pc = "dispatch" => v = w
  /\ state = "none" => agent = "unaware" /\ OnlyCompletions
  /\ agent # "done" => report = "none"

\* A completion is of a report that was sent, and a report does not change.
CompletionOK ==
  \A w \in Workers : worker[w].pc = "complete" => report # "none"

\* A report that settled the run gives the state it has, whoever reads it.
ReportedOK ==
  settled = "reported" /\ ~simulated =>
    /\ report # "none"
    /\ state \in Finished
    /\ OnlyCompletions
    /\ nextState(dryRun, state = "cancelled", report) = state
    /\ \A w \in Workers : worker[w].pc = "complete" =>
         nextState(dryRun, worker[w].cancelled, report) = state

\* After a cancel that settled the run a report can only say so, or that the
\* run was dry or out of time.
Kept == {"cancelled", "timeout", "dryrun"}

CancelledOK ==
  settled = "cancelled" /\ ~simulated =>
    /\ state \in Kept
    /\ state = "timeout" => report = "timeout"
    /\ state = "dryrun" => dryRun
    /\ OnlyCompletions
    /\ \A w \in Workers : worker[w].pc = "complete" =>
         nextState(dryRun, worker[w].cancelled, report) \in Kept

IInv ==
  /\ TypeOK
  /\ HandlersOK
  /\ DispatchOK
  /\ CompletionOK
  /\ ReportedOK
  /\ CancelledOK
  /\ OutputKept

-----------------------------------------------------------------------------
(* Operators.                                                              *)

\* A report ends a run.
LEMMA ReportsEnd ==
  ASSUME NEW c \in BOOLEAN, dryRun \in BOOLEAN, report \in Reports
  PROVE  nextState(dryRun, c, report) \in Finished
  BY DEF nextState, Reports, Finished

\* A report read again gives the state it gave before.
LEMMA Again ==
  ASSUME NEW c \in BOOLEAN, dryRun \in BOOLEAN, report \in Reports
  PROVE  LET s == nextState(dryRun, c, report) IN
           nextState(dryRun, s = "cancelled", report) = s
  BY DEF nextState, Reports

\* What a handler appends is within the cap and keeps what it read.
LEMMA Appended ==
  ASSUME ScriptRunAssumption, NEW w \in Workers, HandlersOK, worker[w].chunk \in Chunks
  PROVE  /\ appended(w) \in Seq(Chunks)
         /\ Len(appended(w)) <= RUN_OUTPUT_CAP
         /\ Len(worker[w].read) < RUN_OUTPUT_CAP =>
              {appended(w)[i] : i \in DOMAIN appended(w)} =
                {worker[w].read[i] : i \in DOMAIN worker[w].read} \cup {worker[w].chunk}
         /\ ~(Len(worker[w].read) < RUN_OUTPUT_CAP) => appended(w) = worker[w].read
<1> DEFINE s == worker[w].read
           c == worker[w].chunk
<1>1. s \in Seq(Chunks) /\ Len(s) <= RUN_OUTPUT_CAP /\ Len(s) \in Nat /\ RUN_OUTPUT_CAP \in Nat
  BY DEF HandlersOK, WorkerType, ScriptRunAssumption
<1>2. Append(s, c) \in Seq(Chunks) /\ Len(Append(s, c)) = Len(s) + 1
  BY <1>1
<1>3. {Append(s, c)[i] : i \in DOMAIN Append(s, c)} = {s[i] : i \in DOMAIN s} \cup {c}
  <2>1. DOMAIN Append(s, c) = 1..(Len(s) + 1) /\ DOMAIN s = 1..Len(s)
    BY <1>1, <1>2
  <2>2. \A i \in 1..Len(s) : Append(s, c)[i] = s[i]
    BY <1>1
  <2>3. Append(s, c)[Len(s) + 1] = c
    BY <1>1
  <2>4. 1..(Len(s) + 1) = 1..Len(s) \cup {Len(s) + 1}
    BY <1>1
  <2>. QED
    BY <2>1, <2>2, <2>3, <2>4
<1>4. CASE Len(s) < RUN_OUTPUT_CAP
  <2>1. appended(w) = Append(s, c)
    BY <1>4 DEF appended
  <2>2. Len(s) + 1 <= RUN_OUTPUT_CAP
    BY <1>1, <1>4
  <2>. QED
    BY <2>1, <2>2, <1>2, <1>3, <1>4
<1>5. CASE ~(Len(s) < RUN_OUTPUT_CAP)
  <2>1. appended(w) = s
    BY <1>5 DEF appended
  <2>. QED
    BY <2>1, <1>1, <1>5
<1>. QED
  BY <1>4, <1>5

-----------------------------------------------------------------------------
(* Every step keeps the invariant: first the parts a step leaves alone.    *)

LEMMA Initially == ScriptRunAssumption /\ Init => IInv
<1> SUFFICES ASSUME ScriptRunAssumption, Init PROVE IInv
  OBVIOUS
<1>1. TypeOK
  <2>1. \A w \in Workers : worker[w] = Idle
    BY DEF Init
  <2>2. output = <<>> /\ output \in Seq(Chunks) /\ Len(output) <= RUN_OUTPUT_CAP
    BY DEF Init, ScriptRunAssumption
  <2>3. \A w \in Workers :
          /\ worker[w].pc = "idle" /\ worker[w].pc \in Steps
          /\ worker[w].chunk \in 0..MaxChunks
          /\ worker[w].read \in Seq(Chunks)
          /\ worker[w].cancelled \in BOOLEAN
    <3>1. Idle.pc = "idle" /\ Idle.chunk = 0 /\ Idle.read = <<>> /\ Idle.cancelled = FALSE
      BY DEF Idle
    <3>2. <<>> \in Seq(Chunks)
      OBVIOUS
    <3>3. 0 \in 0..MaxChunks /\ "idle" \in Steps
      BY DEF Steps, ScriptRunAssumption
    <3>. QED
      BY <2>1, <3>1, <3>2, <3>3
  <2>4. sent = 0 /\ sent \in 0..MaxChunks
    BY DEF Init, ScriptRunAssumption
  <2>. QED
    BY <2>2, <2>3, <2>4 DEF Init, TypeOK, ScriptRunAssumption, ScriptState
<1>2. HandlersOK
  BY DEF Init, HandlersOK, WorkerType, ScriptRunAssumption, Steps, Idle, Chunks
<1>3. DispatchOK /\ CompletionOK
  BY DEF Init, DispatchOK, CompletionOK, OnlyCompletions, Idle
<1>4. ReportedOK /\ CancelledOK /\ OutputKept
  BY DEF Init, ReportedOK, CancelledOK, OutputKept
<1>. QED
  BY <1>1, <1>2, <1>3, <1>4 DEF IInv

\* TypeOK and HandlersOK together type everything.
LEMMA TypeStep ==
  ASSUME ScriptRunAssumption, TypeOK, HandlersOK, CompletionOK, [Next]_vars
  PROVE  TypeOK' /\ HandlersOK'
<1> USE DEF WorkerType
<1>a. \A w \in Workers : worker[w] \in WorkerType
  BY DEF HandlersOK
<1>b. Idle \in WorkerType /\ Len(Idle.read) = 0 /\ RUN_OUTPUT_CAP >= 0
  BY DEF Idle, Steps, Chunks, ScriptRunAssumption
<1>c. ASSUME NEW w \in Workers, NEW rec \in WorkerType, Len(rec.read) <= RUN_OUTPUT_CAP,
             rec.pc \in {"begin", "append"} => rec.chunk \in Chunks, Become(w, rec)
      PROVE  /\ HandlersOK'
             /\ \A v \in Workers :
                  /\ worker'[v].pc \in Steps
                  /\ worker'[v].chunk \in 0..MaxChunks
                  /\ worker'[v].pc \in {"begin", "append"} => worker'[v].chunk \in Chunks
                  /\ worker'[v].read \in Seq(Chunks)
                  /\ worker'[v].cancelled \in BOOLEAN
  <2>1. worker' \in [Workers -> WorkerType]
    BY <1>c DEF HandlersOK, Become
  <2>2. \A v \in Workers : worker'[v] = IF v = w THEN rec ELSE worker[v]
    BY <1>c DEF HandlersOK, Become
  <2>3. \A v \in Workers : Len(worker'[v].read) <= RUN_OUTPUT_CAP
    BY <1>c, <2>2 DEF HandlersOK
  <2>4. \A v \in Workers : worker'[v].pc \in {"begin", "append"} => worker'[v].chunk \in Chunks
    BY <1>c, <2>2 DEF TypeOK
  <2>. QED
    BY <2>1, <2>3, <2>4 DEF HandlersOK
<1>1. CASE RejectInMaintenance
  BY <1>1 DEF RejectInMaintenance, TypeOK, HandlersOK, Agent, History, ScriptState, Finished
<1>2. ASSUME NEW w \in Workers, Create(w) PROVE TypeOK' /\ HandlersOK'
  <2>1. [Idle EXCEPT !.pc = "dispatch"] \in WorkerType
    BY <1>b DEF Steps
  <2>2. CASE GatewayConfigured
    BY <1>2, <1>b, <1>c, <2>1, <2>2 DEF Create, TypeOK, Agent, History, ScriptState, Idle
  <2>3. CASE ~GatewayConfigured
    BY <1>2, <2>3 DEF Create, TypeOK, HandlersOK, Agent, History, ScriptState
  <2>. QED
    BY <2>2, <2>3
<1>3. ASSUME NEW w \in Workers, Dispatch(w) PROVE TypeOK' /\ HandlersOK'
  <2>1. [Idle EXCEPT !.pc = "reject"] \in WorkerType
    BY <1>b DEF Steps
  <2>2. agent' \in {"unaware", "running"}
    BY <1>3 DEF Dispatch
  <2>3. CASE Become(w, Idle)
    BY <1>3, <1>b, <1>c, <2>2, <2>3 DEF Dispatch, TypeOK, History, Idle
  <2>4. CASE Become(w, [Idle EXCEPT !.pc = "reject"])
    BY <1>3, <1>b, <1>c, <2>1, <2>2, <2>4 DEF Dispatch, TypeOK, History, Idle
  <2>. QED
    BY <1>3, <2>3, <2>4 DEF Dispatch
<1>4. ASSUME NEW w \in Workers, Reject(w) PROVE TypeOK' /\ HandlersOK'
  BY <1>4, <1>b, <1>c DEF Reject, TypeOK, Agent, History, ScriptState, Finished, Idle
<1>5. CASE SendChunk
  BY <1>5 DEF SendChunk, TypeOK, HandlersOK, History, ScriptRunAssumption
<1>6. ASSUME NEW r \in AgentReports, SendReport(r) PROVE TypeOK' /\ HandlersOK'
  BY <1>6 DEF SendReport, TypeOK, HandlersOK, History
<1>7. ASSUME NEW w \in Workers, NEW c \in Chunks, OutputRead(w, c) PROVE TypeOK' /\ HandlersOK'
  <2>1. [Idle EXCEPT !.pc = "begin", !.chunk = c, !.read = output] \in WorkerType
    <3>1. c \in 0..MaxChunks
      BY DEF Chunks, ScriptRunAssumption
    <3>2. output \in Seq(Chunks)
      BY DEF TypeOK
    <3>. QED
      BY <1>b, <3>1, <3>2 DEF Steps
  <2>. QED
    BY <1>7, <1>c, <2>1 DEF OutputRead, TypeOK, Agent, History, Idle
<1>8. ASSUME NEW w \in Workers, OutputBegin(w) PROVE TypeOK' /\ HandlersOK'
  <2>1. [worker[w] EXCEPT !.pc = "append"] \in WorkerType
    BY <1>a DEF Steps
  <2>2. worker[w].chunk \in Chunks /\ Len(worker[w].read) <= RUN_OUTPUT_CAP
    BY <1>8 DEF OutputBegin, TypeOK, HandlersOK
  <2>3. state' \in ScriptState \cup {"none"}
    BY <1>8 DEF OutputBegin, TypeOK, ScriptState
  <2>4. Become(w, [worker[w] EXCEPT !.pc = "append"])
    BY <1>8 DEF OutputBegin
  <2>5. HandlersOK' /\ \A v \in Workers :
                  /\ worker'[v].pc \in Steps
                  /\ worker'[v].chunk \in 0..MaxChunks
                  /\ worker'[v].pc \in {"begin", "append"} => worker'[v].chunk \in Chunks
                  /\ worker'[v].read \in Seq(Chunks)
                  /\ worker'[v].cancelled \in BOOLEAN
    BY <1>a, <1>c, <2>1, <2>2, <2>4
  <2>. QED
    BY <1>8, <2>3, <2>5 DEF OutputBegin, TypeOK, Agent, History
<1>9. ASSUME NEW w \in Workers, OutputAppend(w) PROVE TypeOK' /\ HandlersOK'
  <2>1. worker[w].chunk \in Chunks
    BY <1>9 DEF OutputAppend, TypeOK
  <2>2. output' \in Seq(Chunks) /\ Len(output') <= RUN_OUTPUT_CAP
    BY <1>9, <2>1, Appended DEF OutputAppend
  <2>3. written' \subseteq Chunks /\ raced' \in BOOLEAN
    BY <1>9, <2>1 DEF OutputAppend, TypeOK
  <2>. QED
    BY <1>9, <1>b, <1>c, <2>2, <2>3 DEF OutputAppend, TypeOK, Agent, Idle
<1>10. ASSUME NEW w \in Workers, CompleteRead(w) PROVE TypeOK' /\ HandlersOK'
  <2>1. [Idle EXCEPT !.pc = "complete", !.cancelled = (state = "cancelled")] \in WorkerType
    BY <1>b DEF Steps
  <2>. QED
    BY <1>10, <1>b, <1>c, <2>1 DEF CompleteRead, TypeOK, Agent, History, Idle
<1>11. ASSUME NEW w \in Workers, CompleteWrite(w) PROVE TypeOK' /\ HandlersOK'
  <2>1. report \in Reports
    BY <1>11 DEF CompleteWrite, CompletionOK, TypeOK, ScriptRunAssumption
  <2>2. state' \in Finished
    BY <1>11, <1>a, <2>1, ReportsEnd DEF CompleteWrite, TypeOK
  <2>3. settled' \in {"no", "cancelled", "reported"}
    BY <1>11 DEF CompleteWrite, TypeOK
  <2>. QED
    BY <1>11, <1>b, <1>c, <2>2, <2>3 DEF CompleteWrite, TypeOK, Agent, Idle, ScriptState
<1>12. ASSUME NEW w \in Workers, CancelRead(w) PROVE TypeOK' /\ HandlersOK'
  <2>1. [Idle EXCEPT !.pc = "cancel"] \in WorkerType
    BY <1>b DEF Steps
  <2>. QED
    BY <1>12, <1>b, <1>c, <2>1 DEF CancelRead, TypeOK, Agent, History, Idle
<1>13. ASSUME NEW w \in Workers, CancelWrite(w) PROVE TypeOK' /\ HandlersOK'
  <2>1. settled' \in {"no", "cancelled", "reported"}
    BY <1>13 DEF CancelWrite, TypeOK
  <2>. QED
    BY <1>13, <1>b, <1>c, <2>1 DEF CancelWrite, TypeOK, Agent, Idle, ScriptState, Finished
<1>14. ASSUME NEW o \in Simulations, Simulate(o) PROVE TypeOK' /\ HandlersOK'
  BY <1>14 DEF Simulate, TypeOK, HandlersOK, Agent, ScriptRunAssumption, ScriptState,
               Finished, SimulatedOutcomes
<1>15. CASE UNCHANGED vars
  BY <1>15 DEF vars, TypeOK, HandlersOK
<1>. QED
  BY <1>1, <1>2, <1>3, <1>4, <1>5, <1>6, <1>7, <1>8, <1>9, <1>10, <1>11, <1>12, <1>13,
     <1>14, <1>15 DEF Next, Step

-----------------------------------------------------------------------------
(* The parts about who does what.                                          *)

\* What the write of a completion makes of the row.
LEMMA Ended ==
  ASSUME ScriptRunAssumption, TypeOK, HandlersOK, CompletionOK, NEW w \in Workers,
         CompleteWrite(w)
  PROVE  /\ report \in Reports /\ dryRun \in BOOLEAN /\ worker[w].cancelled \in BOOLEAN
         /\ state' = nextState(dryRun, worker[w].cancelled, report)
         /\ state' \in Finished
<1>1. report \in Reports
  BY DEF CompleteWrite, CompletionOK, TypeOK, ScriptRunAssumption
<1>2. dryRun \in BOOLEAN
  BY DEF TypeOK
<1>3. worker[w].cancelled \in BOOLEAN
  BY DEF HandlersOK, WorkerType
<1>4. state' = nextState(dryRun, worker[w].cancelled, report)
  BY DEF CompleteWrite
<1>. QED
  BY <1>1, <1>2, <1>3, <1>4, ReportsEnd

\* Only one handler changes in a step.
LEMMA Becoming ==
  ASSUME HandlersOK, NEW w \in Workers, NEW rec, Become(w, rec)
  PROVE  \A v \in Workers : worker'[v] = IF v = w THEN rec ELSE worker[v]
  BY DEF HandlersOK, Become

LEMMA IdlePc == Idle.pc = "idle" /\ \A p \in Steps : [Idle EXCEPT !.pc = p].pc = p
  BY DEF Idle

LEMMA DispatchStep ==
  ASSUME ScriptRunAssumption, IInv, [Next]_vars
  PROVE  DispatchOK' /\ CompletionOK'
<1> USE DEF IInv, DispatchOK, CompletionOK, OnlyCompletions
<1>a. ASSUME NEW w \in Workers, NEW rec, Become(w, rec), rec.pc \notin {"dispatch", "complete"},
             agent' = agent, report' = report,
             state' # "none" \/ (state' = state /\ rec.pc \notin {"reject", "cancel"})
      PROVE  DispatchOK' /\ CompletionOK'
  <2>1. \A v \in Workers : worker'[v] = IF v = w THEN rec ELSE worker[v]
    BY <1>a, Becoming
  <2>. QED
    BY <1>a, <2>1
<1>i. Idle.pc = "idle"
  BY DEF Idle
<1>1. CASE RejectInMaintenance
  BY <1>1 DEF RejectInMaintenance, Agent, History
<1>2. ASSUME NEW w \in Workers, Create(w) PROVE DispatchOK' /\ CompletionOK'
  <2>1. CASE GatewayConfigured
    <3>1. \A v \in Workers : worker'[v] = IF v = w THEN [Idle EXCEPT !.pc = "dispatch"]
                                                   ELSE worker[v]
      BY <1>2, <2>1, Becoming DEF Create
    <3>2. worker'[w].pc = "dispatch"
      BY <3>1, IdlePc DEF Steps
    <3>3. \A v \in Workers : v # w => worker'[v].pc = worker[v].pc /\ worker[v].pc # "dispatch"
      BY <1>2, <3>1 DEF Create
    <3>. QED
      BY <1>2, <3>2, <3>3 DEF Create, Agent
  <2>2. CASE ~GatewayConfigured
    BY <1>2, <2>2 DEF Create, Agent
  <2>. QED
    BY <2>1, <2>2
<1>3. ASSUME NEW w \in Workers, Dispatch(w) PROVE DispatchOK' /\ CompletionOK'
  <2>1. PICK rec \in {Idle, [Idle EXCEPT !.pc = "reject"]} : Become(w, rec)
    BY <1>3 DEF Dispatch
  <2>2. rec.pc \in {"idle", "reject"}
    BY <1>i, IdlePc DEF Steps
  <2>3. \A v \in Workers : worker'[v] = IF v = w THEN rec ELSE worker[v]
    BY <2>1, Becoming
  <2>4. agent = "unaware" /\ agent' \in {"running", "unaware"} /\ report' = report /\ state' = state
    BY <1>3 DEF Dispatch
  <2>5. \A v \in Workers : worker'[v].pc # "dispatch"
    BY <1>3, <2>2, <2>3 DEF Dispatch
  <2>. QED
    BY <1>3, <2>2, <2>3, <2>4, <2>5 DEF Dispatch
<1>4. ASSUME NEW w \in Workers, Reject(w) PROVE DispatchOK' /\ CompletionOK'
  BY <1>4, <1>a, <1>i DEF Reject, Agent
<1>5. CASE SendChunk
  BY <1>5 DEF SendChunk
<1>6. ASSUME NEW r \in AgentReports, SendReport(r) PROVE DispatchOK' /\ CompletionOK'
  <2>1. r # "none"
    BY DEF ScriptRunAssumption, Reports
  <2>. QED
    BY <1>6, <2>1 DEF SendReport
<1>7. ASSUME NEW w \in Workers, NEW c \in Chunks, OutputRead(w, c)
      PROVE  DispatchOK' /\ CompletionOK'
  <2>1. [Idle EXCEPT !.pc = "begin", !.chunk = c, !.read = output].pc = "begin"
    BY DEF Idle
  <2>. QED
    BY <1>7, <1>a, <2>1 DEF OutputRead, Agent
<1>8. ASSUME NEW w \in Workers, OutputBegin(w) PROVE DispatchOK' /\ CompletionOK'
  <2>1. [worker[w] EXCEPT !.pc = "append"].pc = "append"
    BY DEF HandlersOK, WorkerType
  <2>2. state' # "none" \/ state' = state
    BY <1>8 DEF OutputBegin
  <2>. QED
    BY <1>8, <1>a, <2>1, <2>2 DEF OutputBegin, Agent
<1>9. ASSUME NEW w \in Workers, OutputAppend(w) PROVE DispatchOK' /\ CompletionOK'
  BY <1>9, <1>a, <1>i DEF OutputAppend, Agent
<1>10. ASSUME NEW w \in Workers, CompleteRead(w) PROVE DispatchOK' /\ CompletionOK'
  <2> DEFINE rec == [Idle EXCEPT !.pc = "complete", !.cancelled = (state = "cancelled")]
  <2>1. rec.pc = "complete"
    BY DEF Idle
  <2>b. Become(w, rec)
    BY <1>10 DEF CompleteRead
  <2> HIDE DEF rec
  <2>c. \A v \in Workers : worker'[v] = IF v = w THEN rec ELSE worker[v]
    BY <2>b, Becoming
  <2>2. \A v \in Workers : worker'[v].pc = IF v = w THEN "complete" ELSE worker[v].pc
    BY <2>1, <2>c
  <2>. QED
    BY <1>10, <2>2 DEF CompleteRead, Agent
<1>11. ASSUME NEW w \in Workers, CompleteWrite(w) PROVE DispatchOK' /\ CompletionOK'
  <2>1. state' # "none"
    BY <1>11, Ended DEF Finished
  <2>. QED
    BY <1>11, <1>a, <1>i, <2>1 DEF CompleteWrite, Agent
<1>12. ASSUME NEW w \in Workers, CancelRead(w) PROVE DispatchOK' /\ CompletionOK'
  <2>. DEFINE rec == [Idle EXCEPT !.pc = "cancel"]
  <2>1. rec.pc \notin {"dispatch", "complete"}
    BY DEF Idle
  <2>2. Become(w, rec)
    BY <1>12 DEF CancelRead
  <2>. HIDE DEF rec
  <2>3. agent' = agent /\ report' = report /\ state' = state /\ state # "none"
    BY <1>12 DEF CancelRead, Agent
  <2>4. \A v \in Workers : worker'[v] = IF v = w THEN rec ELSE worker[v]
    BY <2>2, Becoming
  <2>. QED
    BY <2>1, <2>3, <2>4
<1>13. ASSUME NEW w \in Workers, CancelWrite(w) PROVE DispatchOK' /\ CompletionOK'
  BY <1>13, <1>a, <1>i DEF CancelWrite, Agent
<1>14. ASSUME NEW o \in Simulations, Simulate(o) PROVE DispatchOK' /\ CompletionOK'
  <2>1. o # "none"
    BY DEF ScriptRunAssumption, SimulatedOutcomes
  <2>. QED
    BY <1>14, <2>1 DEF Simulate, Agent
<1>15. CASE UNCHANGED vars
  BY <1>15 DEF vars
<1>. QED
  BY <1>1, <1>2, <1>3, <1>4, <1>5, <1>6, <1>7, <1>8, <1>9, <1>10, <1>11, <1>12, <1>13,
     <1>14, <1>15 DEF Next, Step

-----------------------------------------------------------------------------
(* What settles the run.                                                   *)

LEMMA ReportedStep ==
  ASSUME ScriptRunAssumption, IInv, [Next]_vars
  PROVE  ReportedOK'
<1> SUFFICES ASSUME settled' = "reported", ~simulated'
             PROVE  /\ report' # "none"
                    /\ state' \in Finished
                    /\ OnlyCompletions'
                    /\ nextState(dryRun', state' = "cancelled", report') = state'
                    /\ \A w \in Workers : worker'[w].pc = "complete" =>
                         nextState(dryRun', worker'[w].cancelled, report') = state'
  BY DEF ReportedOK
<1> DEFINE Before == settled = "reported" /\ ~simulated
<1>t. HandlersOK /\ TypeOK /\ CompletionOK
  BY DEF IInv
<1>b. Before => /\ report # "none"
                /\ state \in Finished
                /\ OnlyCompletions
                /\ nextState(dryRun, state = "cancelled", report) = state
                /\ \A w \in Workers : worker[w].pc = "complete" =>
                     nextState(dryRun, worker[w].cancelled, report) = state
  BY DEF IInv, ReportedOK
<1> HIDE DEF Before
<1>i. Idle.pc = "idle"
  BY DEF Idle
<1>a. ASSUME NEW w \in Workers, NEW rec, Become(w, rec),
             rec.pc \notin {"dispatch", "reject", "cancel", "complete"},
             Before, state' = state, dryRun' = dryRun, report' = report
      PROVE  /\ report' # "none"
             /\ state' \in Finished
             /\ OnlyCompletions'
             /\ nextState(dryRun', state' = "cancelled", report') = state'
             /\ \A v \in Workers : worker'[v].pc = "complete" =>
                  nextState(dryRun', worker'[v].cancelled, report') = state'
  <2>1. \A v \in Workers : worker'[v] = IF v = w THEN rec ELSE worker[v]
    BY <1>t, <1>a, Becoming
  <2>2. OnlyCompletions'
    BY <1>a, <1>b, <2>1 DEF OnlyCompletions
  <2>3. \A v \in Workers : worker'[v].pc = "complete" =>
          worker[v].pc = "complete" /\ worker'[v] = worker[v]
    BY <1>a, <2>1
  <2>. QED
    BY <1>a, <1>b, <2>2, <2>3
<1>1. CASE RejectInMaintenance
  BY <1>1, <1>b DEF RejectInMaintenance, History, Before, Finished
<1>2. ASSUME NEW w \in Workers, Create(w) PROVE FALSE
  BY <1>2, <1>b DEF Create, History, Before, Finished
<1>3. ASSUME NEW w \in Workers, Dispatch(w) PROVE FALSE
  BY <1>3, <1>b DEF Dispatch, History, Before, OnlyCompletions
<1>4. ASSUME NEW w \in Workers, Reject(w) PROVE FALSE
  BY <1>4, <1>b DEF Reject, History, Before, OnlyCompletions
<1>5. CASE SendChunk
  BY <1>5, <1>b DEF SendChunk, History, Before, OnlyCompletions
<1>6. ASSUME NEW r \in AgentReports, SendReport(r) PROVE FALSE
  BY <1>6, <1>b DEF SendReport, History, Before, IInv, DispatchOK
<1>7. ASSUME NEW w \in Workers, NEW c \in Chunks, OutputRead(w, c) PROVE ReportedOK'
  <2>1. [Idle EXCEPT !.pc = "begin", !.chunk = c, !.read = output].pc = "begin"
    BY DEF Idle
  <2>2. Before /\ Become(w, [Idle EXCEPT !.pc = "begin", !.chunk = c, !.read = output])
        /\ state' = state /\ dryRun' = dryRun /\ report' = report
    BY <1>7 DEF OutputRead, History, Agent, Before
  <2>. QED
    BY <1>a, <2>1, <2>2 DEF ReportedOK
<1>8. ASSUME NEW w \in Workers, OutputBegin(w) PROVE ReportedOK'
  <2>1. [worker[w] EXCEPT !.pc = "append"].pc = "append"
    BY <1>t DEF HandlersOK, WorkerType
  <2>2. Before /\ Become(w, [worker[w] EXCEPT !.pc = "append"])
        /\ state' = state /\ dryRun' = dryRun /\ report' = report
    BY <1>8, <1>b DEF OutputBegin, History, Agent, Before, Finished
  <2>. QED
    BY <1>a, <2>1, <2>2 DEF ReportedOK
<1>9. ASSUME NEW w \in Workers, OutputAppend(w) PROVE ReportedOK'
  <2>1. Before /\ Become(w, Idle) /\ state' = state /\ dryRun' = dryRun /\ report' = report
    BY <1>9 DEF OutputAppend, Agent, Before
  <2>. QED
    BY <1>a, <1>i, <2>1 DEF ReportedOK
<1>10. ASSUME NEW w \in Workers, CompleteRead(w) PROVE ReportedOK'
  <2> DEFINE rec == [Idle EXCEPT !.pc = "complete", !.cancelled = (state = "cancelled")]
  <2>1. rec.pc = "complete" /\ rec.cancelled = (state = "cancelled")
    BY DEF Idle
  <2>2. \A v \in Workers : worker'[v] = IF v = w THEN rec ELSE worker[v]
    BY <1>10, <1>t, Becoming DEF CompleteRead
  <2>3. Before /\ state' = state /\ dryRun' = dryRun /\ report' = report
    BY <1>10 DEF CompleteRead, Agent, History, Before
  <2>4. OnlyCompletions'
    BY <1>b, <2>1, <2>2, <2>3 DEF OnlyCompletions
  <2>5. \A v \in Workers : worker'[v].pc = "complete" =>
          nextState(dryRun', worker'[v].cancelled, report') = state'
    BY <1>b, <2>1, <2>2, <2>3
  <2>. QED
    BY <1>b, <2>3, <2>4, <2>5 DEF ReportedOK
<1>11. ASSUME NEW w \in Workers, CompleteWrite(w) PROVE ReportedOK'
  <2>1. report \in Reports /\ dryRun \in BOOLEAN /\ worker[w].cancelled \in BOOLEAN
        /\ state' = nextState(dryRun, worker[w].cancelled, report) /\ state' \in Finished
    BY <1>11, <1>t, Ended
  <2>2. Become(w, Idle) /\ dryRun' = dryRun /\ report' = report /\ simulated' = simulated
    BY <1>11 DEF CompleteWrite, Agent
  <2>3. \A v \in Workers : worker'[v] = IF v = w THEN Idle ELSE worker[v]
    BY <1>t, <2>2, Becoming
  <2>4. CASE settled = "reported"
    <3>1. Before /\ state' = state
      BY <1>11, <1>b, <2>1, <2>2, <2>4 DEF CompleteWrite, Before
    <3>. QED
      BY <1>a, <1>i, <2>2, <3>1 DEF ReportedOK
  <2>5. CASE settled # "reported"
    <3>1. Writers(w) = {}
      BY <1>11, <2>5 DEF CompleteWrite
    <3>2. \A v \in Workers : worker'[v].pc \notin {"dispatch", "reject", "complete", "cancel"}
      BY <1>i, <2>3, <3>1 DEF Writers
    <3>3. nextState(dryRun, state' = "cancelled", report) = state'
      BY <2>1, Again
    <3>4. report # "none"
      BY <2>1 DEF Reports
    <3>. QED
      BY <2>1, <2>2, <3>2, <3>3, <3>4 DEF ReportedOK, OnlyCompletions
  <2>. QED
    BY <2>4, <2>5
<1>12. ASSUME NEW w \in Workers, CancelRead(w) PROVE FALSE
  BY <1>12, <1>b DEF CancelRead, History, Before
<1>13. ASSUME NEW w \in Workers, CancelWrite(w) PROVE FALSE
  BY <1>13, <1>b DEF CancelWrite, Before, OnlyCompletions
<1>14. ASSUME NEW o \in Simulations, Simulate(o) PROVE FALSE
  BY <1>14 DEF Simulate
<1>15. CASE UNCHANGED vars
  BY <1>15, <1>b DEF vars, Before, OnlyCompletions
<1>. QED
  BY <1>1, <1>2, <1>3, <1>4, <1>5, <1>6, <1>7, <1>8, <1>9, <1>10, <1>11, <1>12, <1>13,
     <1>14, <1>15 DEF Next, Step, ReportedOK

\* What a report gives where a cancel settled the run: the outcomes are those
\* the kept states stand for.
LEMMA KeptAgain ==
  ASSUME NEW c \in BOOLEAN, dryRun \in BOOLEAN, report \in Reports,
         c \/ dryRun \/ report = "timeout"
  PROVE  LET s == nextState(dryRun, c, report) IN
           /\ s \in Kept
           /\ s = "timeout" => report = "timeout"
           /\ s = "dryrun" => dryRun
  BY DEF nextState, Reports, Kept

LEMMA CancelledStep ==
  ASSUME ScriptRunAssumption, IInv, [Next]_vars
  PROVE  CancelledOK'
<1> SUFFICES ASSUME settled' = "cancelled", ~simulated' PROVE CancelledOK'
  BY DEF CancelledOK
<1> DEFINE Before == settled = "cancelled" /\ ~simulated
           Row == state' = state /\ dryRun' = dryRun /\ report' = report
           Holds == /\ state \in Kept
                    /\ state = "timeout" => report = "timeout"
                    /\ state = "dryrun" => dryRun
                    /\ OnlyCompletions
                    /\ \A w \in Workers : worker[w].pc = "complete" =>
                         nextState(dryRun, worker[w].cancelled, report) \in Kept
<1>t. HandlersOK /\ TypeOK /\ CompletionOK
  BY DEF IInv
<1>b. Before => Holds
  BY DEF IInv, CancelledOK
<1>h. (Holds)' => CancelledOK'
  BY DEF CancelledOK
<1>k. Kept \subseteq Finished
  BY DEF Kept, Finished
<1> HIDE DEF Before
<1>i. Idle.pc = "idle"
  BY DEF Idle
<1>a. ASSUME NEW w \in Workers, NEW rec, Become(w, rec), Before, Row,
             rec.pc \notin {"dispatch", "reject", "cancel", "complete"}
      PROVE  CancelledOK'
  <2>1. \A v \in Workers : worker'[v] = IF v = w THEN rec ELSE worker[v]
    BY <1>t, <1>a, Becoming
  <2>2. OnlyCompletions'
    BY <1>a, <1>b, <2>1 DEF OnlyCompletions
  <2>3. \A v \in Workers : worker'[v].pc = "complete" =>
          worker[v].pc = "complete" /\ worker'[v] = worker[v]
    BY <1>a, <2>1
  <2>. QED
    BY <1>a, <1>b, <2>2, <2>3 DEF CancelledOK
<1>1. ASSUME RejectInMaintenance PROVE FALSE
  BY <1>1, <1>b DEF RejectInMaintenance, History, Before, Kept
<1>2. ASSUME NEW w \in Workers, Create(w) PROVE FALSE
  BY <1>2, <1>b DEF Create, History, Before, Kept
<1>3. ASSUME NEW w \in Workers, Dispatch(w) PROVE FALSE
  BY <1>3, <1>b DEF Dispatch, History, Before, OnlyCompletions
<1>4. ASSUME NEW w \in Workers, Reject(w) PROVE FALSE
  BY <1>4, <1>b DEF Reject, History, Before, OnlyCompletions
<1>5. CASE SendChunk
  BY <1>5, <1>b DEF SendChunk, History, Before, OnlyCompletions, CancelledOK
<1>6. ASSUME NEW r \in AgentReports, SendReport(r) PROVE CancelledOK'
  <2>1. Before /\ state' = state /\ dryRun' = dryRun /\ worker' = worker /\ report = "none"
    BY <1>6 DEF SendReport, History, Before, IInv, DispatchOK
  <2>2. state # "timeout" /\ \A w \in Workers : worker[w].pc # "complete"
    BY <1>b, <1>t, <2>1 DEF CompletionOK
  <2>. QED
    BY <1>b, <2>1, <2>2 DEF CancelledOK, OnlyCompletions
<1>7. ASSUME NEW w \in Workers, NEW c \in Chunks, OutputRead(w, c) PROVE CancelledOK'
  <2>1. [Idle EXCEPT !.pc = "begin", !.chunk = c, !.read = output].pc = "begin"
    BY DEF Idle
  <2>2. Before /\ Become(w, [Idle EXCEPT !.pc = "begin", !.chunk = c, !.read = output]) /\ Row
    BY <1>7 DEF OutputRead, History, Agent, Before
  <2>. QED
    BY <1>a, <2>1, <2>2
<1>8. ASSUME NEW w \in Workers, OutputBegin(w) PROVE CancelledOK'
  <2>1. [worker[w] EXCEPT !.pc = "append"].pc = "append"
    BY <1>t DEF HandlersOK, WorkerType
  <2>2. Before /\ Become(w, [worker[w] EXCEPT !.pc = "append"]) /\ Row
    BY <1>8, <1>b DEF OutputBegin, History, Agent, Before, Kept
  <2>. QED
    BY <1>a, <2>1, <2>2
<1>9. ASSUME NEW w \in Workers, OutputAppend(w) PROVE CancelledOK'
  <2>1. Before /\ Become(w, Idle) /\ Row
    BY <1>9 DEF OutputAppend, Agent, Before
  <2>. QED
    BY <1>a, <1>i, <2>1
<1>10. ASSUME NEW w \in Workers, CompleteRead(w) PROVE CancelledOK'
  <2> DEFINE c == (state = "cancelled")
             rec == [Idle EXCEPT !.pc = "complete", !.cancelled = c]
  <2>1. rec.pc = "complete" /\ rec.cancelled = c /\ c \in BOOLEAN
    BY DEF Idle
  <2>2. Become(w, rec) /\ Before /\ Row /\ report # "none"
    BY <1>10 DEF CompleteRead, Agent, History, Before
  <2> HIDE DEF rec
  <2>3. \A v \in Workers : worker'[v] = IF v = w THEN rec ELSE worker[v]
    BY <1>t, <2>2, Becoming
  <2>4. OnlyCompletions'
    BY <1>b, <2>1, <2>2, <2>3 DEF OnlyCompletions
  <2>5. nextState(dryRun, c, report) \in Kept
    <3>1. dryRun \in BOOLEAN /\ report \in Reports
      BY <1>t, <2>2 DEF TypeOK, ScriptRunAssumption
    <3>2. c \/ dryRun \/ report = "timeout"
      BY <1>b, <2>2 DEF Kept
    <3>. QED
      BY <2>1, <3>1, <3>2, KeptAgain
  <2>6. \A v \in Workers : worker'[v].pc = "complete" =>
          nextState(dryRun', worker'[v].cancelled, report') \in Kept
    BY <1>b, <2>1, <2>2, <2>3, <2>5
  <2>. QED
    BY <1>b, <2>2, <2>4, <2>6 DEF CancelledOK
<1>11. ASSUME NEW w \in Workers, CompleteWrite(w) PROVE CancelledOK'
  <2>1. report \in Reports /\ dryRun \in BOOLEAN /\ worker[w].cancelled \in BOOLEAN
        /\ state' = nextState(dryRun, worker[w].cancelled, report)
    BY <1>11, <1>t, Ended
  <2>2. Become(w, Idle) /\ dryRun' = dryRun /\ report' = report /\ Before
    BY <1>11 DEF CompleteWrite, Agent, Before
  <2>3. \A v \in Workers : worker'[v] = IF v = w THEN Idle ELSE worker[v]
    BY <1>t, <2>2, Becoming
  <2>4. state' \in Kept
    BY <1>11, <1>b, <2>1, <2>2 DEF CompleteWrite
  <2>5. /\ state' = "timeout" => report = "timeout"
        /\ state' = "dryrun" => dryRun
    BY <2>1 DEF nextState, Reports
  <2>6. OnlyCompletions'
    BY <1>b, <1>i, <2>2, <2>3 DEF OnlyCompletions
  <2>7. \A v \in Workers : worker'[v].pc = "complete" =>
          nextState(dryRun', worker'[v].cancelled, report') \in Kept
    BY <1>b, <1>i, <2>2, <2>3
  <2>. QED
    BY <2>2, <2>4, <2>5, <2>6, <2>7 DEF CancelledOK
<1>12. ASSUME NEW w \in Workers, CancelRead(w) PROVE FALSE
  BY <1>12, <1>b, <1>k DEF CancelRead, History, Before
<1>13. ASSUME NEW w \in Workers, CancelWrite(w) PROVE CancelledOK'
  <2>1. Become(w, Idle) /\ state' = "cancelled" /\ simulated' = simulated
    BY <1>13 DEF CancelWrite
  <2>2. \A v \in Workers : worker'[v] = IF v = w THEN Idle ELSE worker[v]
    BY <1>t, <2>1, Becoming
  <2>3. settled # "cancelled"
    BY <1>13, <1>b, <2>1 DEF CancelWrite, Before, OnlyCompletions
  <2>4. Writers(w) = {}
    BY <1>13, <2>3 DEF CancelWrite
  <2>5. \A v \in Workers : worker'[v].pc \notin {"dispatch", "reject", "complete", "cancel"}
    BY <1>i, <2>2, <2>4 DEF Writers
  <2>. QED
    BY <2>1, <2>5 DEF CancelledOK, OnlyCompletions, Kept
<1>14. ASSUME NEW o \in Simulations, Simulate(o) PROVE FALSE
  BY <1>14 DEF Simulate
<1>15. CASE UNCHANGED vars
  BY <1>15, <1>b DEF vars, Before, OnlyCompletions, CancelledOK
<1>. QED
  BY <1>1, <1>2, <1>3, <1>4, <1>5, <1>6, <1>7, <1>8, <1>9, <1>10, <1>11, <1>12, <1>13,
     <1>14, <1>15 DEF Next, Step

-----------------------------------------------------------------------------
(* The theorems.                                                           *)

LEMMA OutputStep ==
  ASSUME ScriptRunAssumption, IInv, [Next]_vars
  PROVE  OutputKept'
<1> SUFFICES ASSUME ~raced', ~simulated' PROVE OutputKept'
  BY DEF OutputKept
<1>1. CASE UNCHANGED <<output, written, raced, simulated>>
  BY <1>1 DEF IInv, OutputKept
<1>2. ASSUME NEW w \in Workers, OutputAppend(w) PROVE OutputKept'
  <2>1. worker[w].chunk \in Chunks /\ HandlersOK
    BY <1>2 DEF OutputAppend, IInv, TypeOK
  <2>2. ~raced /\ ~simulated /\ worker[w].read = output /\ output' = appended(w)
    BY <1>2 DEF OutputAppend
  <2>3. written \subseteq {output[i] : i \in DOMAIN output}
    BY <2>2 DEF IInv, OutputKept
  <2>4. CASE Len(worker[w].read) < RUN_OUTPUT_CAP
    <3>1. {appended(w)[i] : i \in DOMAIN appended(w)} =
            {output[i] : i \in DOMAIN output} \cup {worker[w].chunk}
      BY <2>1, <2>2, <2>4, Appended
    <3>2. written' = written \cup {worker[w].chunk}
      BY <1>2, <2>4 DEF OutputAppend
    <3>3. written' \subseteq {appended(w)[i] : i \in DOMAIN appended(w)}
      BY <2>3, <3>1, <3>2
    <3>4. {appended(w)[i] : i \in DOMAIN appended(w)} = {output'[i] : i \in DOMAIN output'}
      BY <2>2
    <3>. QED
      BY <3>3, <3>4 DEF OutputKept
  <2>5. CASE ~(Len(worker[w].read) < RUN_OUTPUT_CAP)
    <3>1. output' = output
      BY <2>1, <2>2, <2>5, Appended
    <3>2. written' = written
      BY <1>2, <2>5 DEF OutputAppend
    <3>. QED
      BY <2>3, <3>1, <3>2 DEF OutputKept
  <2>. QED
    BY <2>4, <2>5
<1>3. ASSUME NEW o \in Simulations, Simulate(o) PROVE FALSE
  BY <1>3 DEF Simulate
<1>4. ASSUME NEW w \in Workers, Step(w) \/ Create(w) \/ CompleteRead(w) \/ CancelRead(w),
             ~OutputAppend(w)
      PROVE  OutputKept'
  BY <1>1, <1>4 DEF Step, Create, Dispatch, Reject, OutputBegin, CompleteWrite, CancelWrite,
                    CompleteRead, CancelRead, History
<1>5. ASSUME NEW w \in Workers, NEW c \in Chunks, OutputRead(w, c) PROVE OutputKept'
  BY <1>1, <1>5 DEF OutputRead, History
<1>6. ASSUME NEW r \in AgentReports, SendReport(r) PROVE OutputKept'
  BY <1>1, <1>6 DEF SendReport, History
<1>7. CASE RejectInMaintenance \/ SendChunk \/ UNCHANGED vars
  BY <1>1, <1>7 DEF RejectInMaintenance, SendChunk, History, vars
<1>. QED
  BY <1>2, <1>3, <1>4, <1>5, <1>6, <1>7 DEF Next, Step

\* The strengthened invariant holds in every reachable state.
THEOREM Invariance == ScriptRunAssumption /\ Spec => []IInv
<1>1. ScriptRunAssumption /\ Init => IInv
  BY Initially
<1>2. ScriptRunAssumption /\ IInv /\ [Next]_vars => IInv'
  <2> SUFFICES ASSUME ScriptRunAssumption, IInv, [Next]_vars PROVE IInv'
    OBVIOUS
  <2>1. TypeOK' /\ HandlersOK'
    BY TypeStep DEF IInv
  <2>2. DispatchOK' /\ CompletionOK'
    BY DispatchStep
  <2>3. ReportedOK' /\ CancelledOK' /\ OutputKept'
    BY ReportedStep, CancelledStep, OutputStep
  <2>. QED
    BY <2>1, <2>2, <2>3 DEF IInv
<1>. QED
  BY <1>1, <1>2, ScriptRunAssumption, PTL DEF Spec

\* Type correctness and the output cap (TypeOK), for any number of handlers.
THEOREM TypeCorrect == ScriptRunAssumption /\ Spec => []TypeOK
  BY Invariance, PTL DEF IInv

\* A settled cancel is not turned into an outcome by the agent (CancelHolds).
THEOREM CancelKept == ScriptRunAssumption /\ Spec => []CancelHolds
<1>1. IInv => CancelHolds
  BY DEF IInv, CancelledOK, CancelHolds, Kept
<1>. QED
  BY <1>1, Invariance, PTL

\* Output is lost only where two handlers of it race (OutputKept).
THEOREM OutputLostOnlyInRaces == ScriptRunAssumption /\ Spec => []OutputKept
  BY Invariance, PTL DEF IInv

\* A settled report is the last word (ReportIsFinal).
THEOREM ReportStands == ScriptRunAssumption /\ Spec => ReportIsFinal
<1>1. ScriptRunAssumption /\ IInv /\ [Next]_vars
        => [settled = "reported" /\ ~simulated' => state' = state]_vars
  <2> SUFFICES ASSUME ScriptRunAssumption, IInv, [Next]_vars, settled = "reported", ~simulated'
               PROVE  state' = state
    OBVIOUS
  <2>1. ~simulated
    BY DEF Next, Step, RejectInMaintenance, Create, Dispatch, Reject, OutputBegin, OutputAppend,
           CompleteWrite, CancelWrite, CompleteRead, CancelRead, OutputRead, SendChunk,
           SendReport, Simulate, History, vars
  <2>2. /\ state \in Finished
        /\ OnlyCompletions
        /\ \A w \in Workers : worker[w].pc = "complete" =>
             nextState(dryRun, worker[w].cancelled, report) = state
    BY <2>1 DEF IInv, ReportedOK
  <2>. QED
    BY <2>2, ZenonT(60) DEF Next, Step, RejectInMaintenance, Create, Dispatch, Reject, OutputBegin,
           OutputAppend, CompleteWrite, CancelWrite, CompleteRead, CancelRead, OutputRead,
           SendChunk, SendReport, Simulate, History, vars, OnlyCompletions, Finished
<1>. QED
  BY <1>1, Invariance, ScriptRunAssumption, PTL DEF Spec, ReportIsFinal

\* What Runbook.tla relies on: whatever its handlers do, and however late, a run
\* moves only as RunMoves says; no late frame reopens it (MovesAsARun).
THEOREM MovesAsRunsDo == ScriptRunAssumption /\ Spec => MovesAsARun
<1>1. ScriptRunAssumption /\ IInv /\ [Next]_vars
        => [RunMoves(dryRun, state, state') /\ dryRun' = dryRun]_<<state, dryRun>>
  <2> SUFFICES ASSUME ScriptRunAssumption, IInv, [Next]_vars
               PROVE  dryRun' = dryRun /\ (RunMoves(dryRun, state, state') \/ state' = state)
    OBVIOUS
  <2>a. dryRun \in BOOLEAN /\ report \in Reports \cup {"none"}
    BY DEF IInv, TypeOK, ScriptRunAssumption
  <2>b. state = "none" => /\ report = "none"
                          /\ \A w \in Workers : worker[w].pc \notin {"reject", "cancel", "complete"}
    BY DEF IInv, DispatchOK, CompletionOK, OnlyCompletions
  <2>1. ASSUME NEW w \in Workers, CompleteWrite(w)
        PROVE  dryRun' = dryRun /\ RunMoves(dryRun, state, state')
    <3>1. /\ worker[w].pc = "complete" /\ worker[w].cancelled \in BOOLEAN /\ report \in Reports
          /\ dryRun' = dryRun /\ state' = nextState(dryRun, worker[w].cancelled, report)
      BY <2>1, <2>a DEF CompleteWrite, IInv, HandlersOK, WorkerType, CompletionOK
    <3>2. state' \in Ends(dryRun)
      BY <3>1 DEF Ends
    <3>. QED
      BY <2>b, <3>1, <3>2 DEF RunMoves
  <2>2. ASSUME NEW w \in Workers, Create(w)
        PROVE  dryRun' = dryRun /\ RunMoves(dryRun, state, state')
    BY <2>2 DEF Create, RunMoves
  <2>3. ASSUME NEW w \in Workers, OutputBegin(w)
        PROVE  dryRun' = dryRun /\ (RunMoves(dryRun, state, state') \/ state' = state)
    BY <2>3 DEF OutputBegin, RunMoves
  <2>4. ASSUME NEW w \in Workers, Reject(w) \/ CancelWrite(w)
        PROVE  dryRun' = dryRun /\ RunMoves(dryRun, state, state')
    BY <2>4, <2>b DEF Reject, CancelWrite, RunMoves, Ends
  <2>5. ASSUME NEW o \in Simulations, Simulate(o)
        PROVE  dryRun' = dryRun /\ RunMoves(dryRun, state, state')
    BY <2>5 DEF Simulate, ScriptRunAssumption, RunMoves, Ends
  <2>6. CASE RejectInMaintenance
    BY <2>6 DEF RejectInMaintenance, RunMoves
  <2>7. ASSUME NEW w \in Workers, Dispatch(w) \/ OutputAppend(w) \/ CompleteRead(w) \/ CancelRead(w)
                                    \/ \E c \in Chunks : OutputRead(w, c)
        PROVE  dryRun' = dryRun /\ state' = state
    BY <2>7 DEF Dispatch, OutputAppend, CompleteRead, CancelRead, OutputRead
  <2>8. CASE SendChunk \/ (\E r \in AgentReports : SendReport(r)) \/ UNCHANGED vars
    BY <2>8 DEF SendChunk, SendReport, vars
  <2>. QED
    BY <2>1, <2>2, <2>3, <2>4, <2>5, <2>6, <2>7, <2>8 DEF Next, Step
<1>. QED
  BY <1>1, Invariance, ScriptRunAssumption, PTL DEF Spec, MovesAsARun

=============================================================================
