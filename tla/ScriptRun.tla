------------------------------ MODULE ScriptRun ------------------------------
(***************************************************************************)
(* One script run: lib/script-commands.ts and the scripts.* handlers of    *)
(* lib/agent-ingest.ts, one awaited statement per action.                  *)
(*                                                                         *)
(* The dispatching request, the agent's output and completion frames, and  *)
(* operators' cancel and simulate requests are served by handlers that     *)
(* share the Fl_ScriptRun row.  Frames travel over the gateway: each may   *)
(* be handled late, more than once, beside another, or never.  A cancel    *)
(* does not reach the agent.                                               *)
(*                                                                         *)
(* Left out: audit rows, exit codes beyond success, sizes, hashes, times,  *)
(* and the second stream.  A chunk of output is one unit of the row's cap. *)
(***************************************************************************)
EXTENDS Integers, Sequences, FiniteSets, ScriptStates

CONSTANTS
  Workers,            \* handlers in flight at once
  MaxChunks,          \* chunks of output the agent sends
  RUN_OUTPUT_CAP,     \* chunks the row keeps
  AgentReports,       \* what the agent may report
  Simulations,        \* what operators may simulate
  GatewayConfigured   \* PCC2K_GATEWAY_URL is set and the device has an agent

VARIABLES
  state,      \* Fl_ScriptRun.state, "none" before the row is created
  dryRun,     \* Fl_ScriptRun.dryRun
  output,     \* the chunks in Fl_ScriptRun.output
  agent,      \* "unaware", "running" or "done"
  sent,       \* chunks sent by the agent
  report,     \* the agent's report, "none" before it sends it
  worker,     \* what each handler is doing, with its locals
  written,    \* history: the chunks handled
  raced,      \* history: a chunk was written over a row read before it
  simulated,  \* history: an operator simulated a report
  settled     \* history: cancelled while no other handler was on the row, or
              \*   reported after the dispatch was over

vars == <<state, dryRun, output, agent, sent, report, worker,
          written, raced, simulated, settled>>

ASSUME ScriptRunAssumption ==
  /\ MaxChunks \in Nat
  /\ RUN_OUTPUT_CAP \in Nat
  /\ AgentReports \subseteq Reports
  /\ Simulations \subseteq SimulatedOutcomes
  /\ GatewayConfigured \in BOOLEAN

Chunks == 1..MaxChunks

\* What a handler is at: the statement it is about to make.
Steps == {"idle", "dispatch", "reject", "begin", "append", "complete", "cancel"}

\* The locals: the chunk and the output read; whether the row read was
\* cancelled.
Idle == [pc |-> "idle", chunk |-> 0, read |-> <<>>, cancelled |-> FALSE]

Busy(w) == worker[w].pc # "idle"

Become(w, rec) == worker' = [worker EXCEPT ![w] = rec]

Agent == <<agent, sent, report>>
History == <<written, raced, simulated, settled>>

\* Handlers other than w that are going to write the row's state.
Writers(w) ==
  {v \in Workers \ {w} : worker[v].pc \in {"dispatch", "reject", "complete", "cancel"}}

\* The caller's dryRun, forced where the script cannot run dry.
Init ==
  /\ state = "none"
  /\ dryRun \in BOOLEAN
  /\ output = <<>>
  /\ agent = "unaware"
  /\ sent = 0
  /\ report = "none"
  /\ worker = [w \in Workers |-> Idle]
  /\ written = {}
  /\ raced = FALSE
  /\ simulated = FALSE
  /\ settled = "no"

-----------------------------------------------------------------------------
(* runScript                                                               *)

\* A device in maintenance gets a row that is rejected from the start.
RejectInMaintenance ==
  /\ state = "none"
  /\ state' = "rejected"
  /\ UNCHANGED <<dryRun, output, Agent, worker, History>>

Create(w) ==
  /\ ~Busy(w)
  /\ state = "none"
  /\ state' = "queued"
  /\ IF GatewayConfigured THEN Become(w, [Idle EXCEPT !.pc = "dispatch"])
                          ELSE UNCHANGED worker
  /\ UNCHANGED <<dryRun, output, Agent, History>>

\* dispatchToAgent.  An error, a timeout among them, does not mean that the
\* agent did not get the command.
Dispatch(w) ==
  /\ worker[w].pc = "dispatch"
  /\ \/ agent' = "running" /\ Become(w, Idle)
     \/ agent' \in {"running", "unaware"} /\ Become(w, [Idle EXCEPT !.pc = "reject"])
  /\ UNCHANGED <<state, dryRun, output, sent, report, History>>

\* The dispatch failed: by id, whatever the run has become meanwhile.
Reject(w) ==
  /\ worker[w].pc = "reject"
  /\ state' = "rejected"
  /\ Become(w, Idle)
  /\ UNCHANGED <<dryRun, output, Agent, History>>

-----------------------------------------------------------------------------
(* The agent                                                               *)

SendChunk ==
  /\ agent = "running"
  /\ sent < MaxChunks
  /\ sent' = sent + 1
  /\ UNCHANGED <<state, dryRun, output, agent, report, worker, History>>

SendReport(r) ==
  /\ agent = "running"
  /\ agent' = "done"
  /\ report' = r
  /\ UNCHANGED <<state, dryRun, output, sent, worker, History>>

-----------------------------------------------------------------------------
(* scripts.output: read, queued -> running, write                          *)

OutputRead(w, c) ==
  /\ ~Busy(w)
  /\ c <= sent
  /\ Become(w, [Idle EXCEPT !.pc = "begin", !.chunk = c, !.read = output])
  /\ UNCHANGED <<state, dryRun, output, Agent, History>>

\* Mutant of OutputBegin: the transition without its check.
OutputBeginUnchecked(w) ==
  /\ worker[w].pc = "begin"
  /\ state' = "running"
  /\ Become(w, [worker[w] EXCEPT !.pc = "append"])
  /\ UNCHANGED <<dryRun, output, Agent, History>>

OutputBegin(w) ==
  /\ worker[w].pc = "begin"
  /\ IF state = "queued" THEN state' = "running"
                         ELSE UNCHANGED state
  /\ Become(w, [worker[w] EXCEPT !.pc = "append"])
  /\ UNCHANGED <<dryRun, output, Agent, History>>

\* Mutant of appended: the chunk replaces what is there.
appendedOver(w) == <<worker[w].chunk>>

\* Mutant of appended: the cap is not kept.
appendedUncapped(w) == Append(worker[w].read, worker[w].chunk)

appended(w) ==
  IF Len(worker[w].read) < RUN_OUTPUT_CAP
    THEN Append(worker[w].read, worker[w].chunk)
    ELSE worker[w].read

OutputAppend(w) ==
  /\ worker[w].pc = "append"
  /\ output' = appended(w)
  /\ written' = IF Len(worker[w].read) < RUN_OUTPUT_CAP
                  THEN written \cup {worker[w].chunk} ELSE written
  /\ raced' = (raced \/ worker[w].read # output)
  /\ Become(w, Idle)
  /\ UNCHANGED <<state, dryRun, Agent, simulated, settled>>

-----------------------------------------------------------------------------
(* scripts.complete: read, write                                           *)

\* Mutant of CompleteRead: the row's state is not read.
CompleteReadBlind(w) ==
  /\ ~Busy(w)
  /\ report # "none"
  /\ Become(w, [Idle EXCEPT !.pc = "complete"])
  /\ UNCHANGED <<state, dryRun, output, Agent, History>>

CompleteRead(w) ==
  /\ ~Busy(w)
  /\ report # "none"
  /\ Become(w, [Idle EXCEPT !.pc = "complete", !.cancelled = (state = "cancelled")])
  /\ UNCHANGED <<state, dryRun, output, Agent, History>>

\* Mutant of CompleteWrite: only a running run is completed.
CompleteWriteRunning(w) ==
  /\ worker[w].pc = "complete"
  /\ state' = IF state = "running" THEN nextState(dryRun, worker[w].cancelled, report)
              ELSE state
  /\ settled' = IF settled = "no" /\ Writers(w) = {} THEN "reported" ELSE settled
  /\ Become(w, Idle)
  /\ UNCHANGED <<dryRun, output, Agent, written, raced, simulated>>

CompleteWrite(w) ==
  /\ worker[w].pc = "complete"
  /\ state' = nextState(dryRun, worker[w].cancelled, report)
  /\ settled' = IF settled = "no" /\ Writers(w) = {} THEN "reported" ELSE settled
  /\ Become(w, Idle)
  /\ UNCHANGED <<dryRun, output, Agent, written, raced, simulated>>

-----------------------------------------------------------------------------
(* Operators                                                               *)

\* Mutant of CancelRead: dry runs and rejected runs are not taken for finished.
CancelReadSome(w) ==
  /\ ~Busy(w)
  /\ state \notin {"ok", "error", "cancelled", "timeout", "none"}
  /\ Become(w, [Idle EXCEPT !.pc = "cancel"])
  /\ UNCHANGED <<state, dryRun, output, Agent, History>>

\* cancelScriptRun throws on a finished run.
CancelRead(w) ==
  /\ ~Busy(w)
  /\ state \notin Finished \cup {"none"}
  /\ Become(w, [Idle EXCEPT !.pc = "cancel"])
  /\ UNCHANGED <<state, dryRun, output, Agent, History>>

\* By id: a report handled since the read is written over.
CancelWrite(w) ==
  /\ worker[w].pc = "cancel"
  /\ state' = "cancelled"
  /\ settled' = IF settled = "no" /\ Writers(w) = {} THEN "cancelled" ELSE settled
  /\ Become(w, Idle)
  /\ UNCHANGED <<dryRun, output, Agent, written, raced, simulated>>

\* simulateScriptResult: one write, which replaces the output as well.
Simulate(outcome) ==
  /\ state # "none"
  /\ state' = outcome
  /\ output' = <<>>
  /\ simulated' = TRUE
  /\ UNCHANGED <<dryRun, Agent, worker, written, raced, settled>>

Step(w) == \/ Dispatch(w) \/ Reject(w) \/ OutputBegin(w) \/ OutputAppend(w)
           \/ CompleteWrite(w) \/ CancelWrite(w)

Next ==
  \/ RejectInMaintenance
  \/ \E w \in Workers :
       \/ Create(w) \/ Step(w) \/ CompleteRead(w) \/ CancelRead(w)
       \/ \E c \in Chunks : OutputRead(w, c)
  \/ SendChunk
  \/ \E r \in AgentReports : SendReport(r)
  \/ \E o \in Simulations : Simulate(o)

Spec == Init /\ [][Next]_vars

\* A handler under way goes on, and a report that was sent is handled in the
\* end: the gateway does not give it up while other requests are served.
FairSpec ==
  /\ Spec
  /\ \A w \in Workers : WF_vars(Step(w))
  /\ SF_vars(\E w \in Workers : CompleteRead(w))

-----------------------------------------------------------------------------
(* Properties                                                              *)

\* The type invariant; the row never keeps more output than its cap.
TypeOK ==
  /\ state \in ScriptState \cup {"none"}
  /\ {dryRun, raced, simulated} \subseteq BOOLEAN
  /\ output \in Seq(Chunks)
  /\ Len(output) <= RUN_OUTPUT_CAP
  /\ agent \in {"unaware", "running", "done"}
  /\ sent \in 0..MaxChunks
  /\ report \in AgentReports \cup {"none"}
  /\ \A w \in Workers :
       /\ worker[w].pc \in Steps
       /\ worker[w].chunk \in 0..MaxChunks
       /\ worker[w].pc \in {"begin", "append"} => worker[w].chunk \in Chunks
       /\ worker[w].read \in Seq(Chunks)
       /\ worker[w].cancelled \in BOOLEAN
  /\ written \subseteq Chunks
  /\ settled \in {"no", "cancelled", "reported"}

\* What those who read the run rely on (Runbook.tla): it moves only as RunMoves
\* says.  By the check-and-set of the output handler (lib/agent-ingest.ts:688) no
\* late chunk, and nothing else, takes a finished run back to queued or running;
\* no handler writes a run before it exists; and a real run never ends as "dryrun".
MovesAsARun ==
  [][/\ RunMoves(dryRun, state, state')
     /\ dryRun' = dryRun]_<<state, dryRun>>

\* A report written while nobody else was about to write the row is the last
\* word: not a late chunk, a frame handled again, a cancel or the end of the
\* dispatch changes the outcome; only an operator's simulation does.
ReportIsFinal ==
  [][settled = "reported" /\ ~simulated' => state' = state]_vars

\* A cancel written while nobody else was about to write the row is not turned
\* into a success or a failure by the agent, which goes on unaware of it.
CancelHolds ==
  settled = "cancelled" /\ ~simulated => state \in {"cancelled", "timeout", "dryrun"}

\* A handled chunk that fitted is in the row, unless two output handlers had
\* the row at once and the second wrote what it had read before the first.
OutputKept ==
  ~raced /\ ~simulated => written \subseteq {output[i] : i \in DOMAIN output}

\* A report that was sent ends the run, in whatever state it finds it.
ReportEndsRun == report # "none" ~> state \in Finished
=============================================================================
