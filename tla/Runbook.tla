------------------------------- MODULE Runbook -------------------------------
(***************************************************************************)
(* One runbook: lib/runbook-evaluator.ts, the fire cron                    *)
(* (api/cron/runbook-fire), the watcher cron (api/cron/runbook-watcher)    *)
(* and the operators' toggles (runbooks/actions.ts).                       *)
(*                                                                         *)
(* An alert makes the evaluator schedule a fire.  The fire cron turns a    *)
(* due fire into a script run, first a dry run where the runbook asks for  *)
(* one; the watcher follows the runs and settles the fire.  Each cron is   *)
(* an HTTP handler, so two ticks of one cron may overlap: a tick works     *)
(* from the rows it listed, one awaited statement per action.              *)
(*                                                                         *)
(* Left out: deleting the runbook or editing its thresholds, a runbook     *)
(* without a cooldown (its alerts pass no gate), malformed predicates,     *)
(* audit rows, the batch limits, and the statements of a script run.       *)
(* ScriptRun.tla has those; here a run moves by itself, as RunMoves says   *)
(* that it may.                                                            *)
(***************************************************************************)
EXTENDS Integers, Sequences, FiniteSets, ScriptStates

CONSTANTS
  Alerts,                 \* the alerts that can be raised
  AlertKey,               \* their (kind, device)
  Workers,                \* handlers in flight at once
  Modes,                  \* the runbooks to consider, see Mode
  MaxFiresPerHour, MaxConsecutiveFailures,
  MaxFires, MaxRuns,      \* bounds on rows created
  MaxFaults,              \* bound on operators' toggles, restarts, throws and second
                          \*   ends of runs together
  None                    \* no alert

VARIABLES
  mode,          \* what the runbook and its script say of dry runs
  isActive, isTripped,
  alertState,    \* Fl_Alert.state: "none", "open" or "closed" (ack or resolved)
  fires,         \* Fl_RunbookFire rows in the order of createdAt
  edge,          \* time: the last fire that was older than cooldownMin when
                 \*   an evaluator last started
  runs,          \* Fl_ScriptRun rows made for the runbook, and whether they
                 \*   have ever been "ok"
  worker,        \* what each handler is doing, with its locals
  faults,
  off,           \* history: busy handlers during all of whose life the runbook
                 \*   was inactive or tripped
  peak,          \* history: key -> the most evaluations for it ever past the
                 \*   cooldown gate at once, with the fire still to be written
  unchecked      \* history: the failure streak may have grown since the last
                 \*   check other than by a handler that is going to check

vars == <<mode, isActive, isTripped, alertState, fires, edge, runs, worker, faults,
           off, peak, unchecked>>

\* dryRunFirst and dryRunCapable: "plain" is a capable script that the runbook
\* runs at once, "incapable" one that runScript only ever runs dry.
Mode == {"plain", "dryFirst", "incapable"}

ASSUME RunbookAssumption ==
  /\ AlertKey \in [Alerts -> STRING]
  /\ Modes \subseteq Mode
  /\ {MaxFiresPerHour, MaxConsecutiveFailures} \subseteq Nat \ {0}
  /\ {MaxFires, MaxRuns, MaxFaults} \subseteq Nat
  /\ IsFiniteSet(Workers)
  /\ None \notin Alerts

Skipped == {"skipped-cooldown", "skipped-cleared", "skipped-tripped"}

FireStates == {"pending", "dry-run", "running", "succeeded", "failed",
               "predicate-failed"} \cup Skipped

\* dry and real are indices into runs, 0 for null.
FireType == [alert : Alerts, state : FireStates, dry : 0..MaxRuns, real : 0..MaxRuns]

RunType == [fire : 1..MaxFires, dry : BOOLEAN, state : ScriptState, wasOk : BOOLEAN]

Steps == {"idle", "cooldown", "count", "schedule", "skip", "tripRead", "tripWrite",
          "fire", "open", "clear", "bar", "run", "fired",
          "watch", "decide", "dryFailed", "reject", "enqueue", "enqueued", "settle", "check"}

\* The locals of a handler.  The evaluator's: the alert, and the last fires
\* that are too old for the cooldown and for the rate.  A cron's: the rows it
\* has still to visit, the run that each of them pointed to when the watcher
\* listed it, the row it is at, the run it made, and what it read there.
\* History: the alerts of its rows that were closed when it began.
Idle == [pc |-> "idle", alert |-> None, edge |-> 0, hour |-> 0, todo |-> {},
         listed |-> <<>>, row |-> 0, run |-> 0, ok |-> FALSE, check |-> FALSE,
         closed |-> {}]

Busy(w) == worker[w].pc # "idle"

Off == ~isActive \/ isTripped

Become(w, rec) == worker' = [worker EXCEPT ![w] = rec]
Goto(w, pc) == Become(w, [worker[w] EXCEPT !.pc = pc])

\* A handler's locals start as Idle's and go back to it.
Finish(w) ==
  /\ Become(w, Idle)
  /\ off' = off \ {w}

Begin(w, rec) ==
  /\ Become(w, rec)
  /\ off' = IF Off THEN off \cup {w} ELSE off

Settings == <<mode, isActive, isTripped>>
Cooldown == <<edge, peak>>
History == <<off, unchecked>>

SameKey(a, b) == AlertKey[a] = AlertKey[b]
Keys == {AlertKey[a] : a \in Alerts}

Init ==
  /\ mode \in Modes
  /\ isActive = TRUE
  /\ isTripped = FALSE
  /\ alertState = [a \in Alerts |-> "none"]
  /\ fires = <<>>
  /\ edge = 0
  /\ runs = <<>>
  /\ worker = [w \in Workers |-> Idle]
  /\ faults = 0
  /\ off = {}
  /\ peak = [k \in Keys |-> 0]
  /\ unchecked = FALSE

-----------------------------------------------------------------------------
(* The evaluator: writeAlert creates the alert and evaluates it            *)

\* The windows are computed once, from the time the evaluator starts; time has
\* passed, so that more fires may be older than cooldownMin.  Which are too old
\* for the rate is left open: an hour and cooldownMin may be in either order.
Evaluate(w, a) ==
  /\ ~Busy(w)
  /\ alertState[a] = "none"
  /\ Len(fires) + Cardinality({v \in Workers : worker[v].alert # None}) < MaxFires
  /\ alertState' = [alertState EXCEPT ![a] = "open"]
  /\ IF Off
       THEN UNCHANGED <<worker, off, edge>>
       ELSE \E hour \in 0..Len(fires) :
              /\ edge' \in edge..Len(fires)
              /\ Begin(w, [Idle EXCEPT !.pc = "cooldown", !.alert = a,
                                       !.edge = edge', !.hour = hour])
  /\ UNCHANGED <<Settings, peak, fires, runs, faults, unchecked>>

NewFire(w, state) ==
  fires' = Append(fires,
    [alert |-> worker[w].alert, state |-> state, dry |-> 0, real |-> 0])

\* Mutant of InCooldown: fires of the same alert only.
InCooldownSameAlert(a, since) ==
  \E f \in (since + 1)..Len(fires) :
    fires[f].alert = a /\ fires[f].state # "skipped-cooldown"

InCooldown(a, since) ==
  \E f \in (since + 1)..Len(fires) :
    SameKey(fires[f].alert, a) /\ fires[f].state # "skipped-cooldown"

\* Evaluations for a key that have passed the gate, with the fire, pending or
\* skipped-tripped, still to be written.
PastGate(k) == {v \in Workers : /\ worker[v].alert # None
                                /\ AlertKey[worker[v].alert] = k
                                /\ worker[v].pc # "cooldown"}

\* The transaction under the advisory lock; the lock goes with it.
CooldownGate(w) ==
  LET k == AlertKey[worker[w].alert]
      n == Cardinality(PastGate(k)) + 1 IN
  /\ worker[w].pc = "cooldown"
  /\ IF InCooldown(worker[w].alert, worker[w].edge)
       THEN NewFire(w, "skipped-cooldown") /\ Finish(w) /\ UNCHANGED peak
       ELSE /\ Become(w, [worker[w] EXCEPT !.pc = "count", !.edge = 0])
            /\ peak' = [peak EXCEPT ![k] = IF n > @ THEN n ELSE @]
            /\ UNCHANGED <<fires, off>>
  /\ UNCHANGED <<Settings, edge, alertState, runs, faults, unchecked>>

firesLastHour(since) ==
  Cardinality({f \in (since + 1)..Len(fires) : fires[f].state \notin Skipped})

RateGate(w) ==
  /\ worker[w].pc = "count"
  /\ IF firesLastHour(worker[w].hour) >= MaxFiresPerHour
       THEN Become(w, [Idle EXCEPT !.pc = "tripRead", !.alert = worker[w].alert])
       ELSE Become(w, [worker[w] EXCEPT !.pc = "schedule", !.hour = 0])
  /\ UNCHANGED <<Settings, Cooldown, alertState, fires, runs, faults, History>>

\* Mutant of Schedule: a state that no cron lists.
ScheduleQueued(w) ==
  /\ worker[w].pc = "schedule"
  /\ NewFire(w, "queued")
  /\ Finish(w)
  /\ UNCHANGED <<Settings, Cooldown, alertState, runs, faults, unchecked>>

Schedule(w) ==
  /\ worker[w].pc = "schedule"
  /\ NewFire(w, "pending")
  /\ Finish(w)
  /\ UNCHANGED <<Settings, Cooldown, alertState, runs, faults, unchecked>>

SkipTripped(w) ==
  /\ worker[w].pc = "skip"
  /\ NewFire(w, "skipped-tripped")
  /\ Finish(w)
  /\ UNCHANGED <<Settings, Cooldown, alertState, runs, faults, unchecked>>

-----------------------------------------------------------------------------
(* tripRunbook, called by the evaluator and by the watcher; the alert it   *)
(* raises is of a kind the evaluator returns early for                     *)

AfterTrip(w) ==
  IF worker[w].alert # None THEN Goto(w, "skip") /\ UNCHANGED off ELSE Finish(w)

TripRead(w) ==
  /\ worker[w].pc = "tripRead"
  /\ IF isTripped THEN AfterTrip(w) ELSE Goto(w, "tripWrite") /\ UNCHANGED off
  /\ UNCHANGED <<Settings, Cooldown, alertState, fires, runs, faults,
                 unchecked>>

TripWrite(w) ==
  /\ worker[w].pc = "tripWrite"
  /\ isTripped' = TRUE
  /\ AfterTrip(w)
  /\ UNCHANGED <<mode, Cooldown, isActive, alertState, fires, runs, faults,
                 unchecked>>

-----------------------------------------------------------------------------
(* Rows, for both crons                                                    *)

First(S) == CHOOSE f \in S : \A g \in S : f <= g

\* On to the next row of the list, then to the trip check, then done.
NextRow(w, rec, loop) ==
  IF rec.todo # {} THEN Become(w, [rec EXCEPT !.pc = loop, !.row = 0, !.run = 0,
                                              !.ok = FALSE]) /\ UNCHANGED off
  ELSE IF rec.check THEN Become(w, [rec EXCEPT !.pc = "check", !.row = 0, !.run = 0,
                                               !.ok = FALSE]) /\ UNCHANGED off
  ELSE Finish(w)

\* Writes are by id, whatever the row has become since it was listed.
WriteFire(w, rec) ==
  LET f == worker[w].row IN
  /\ fires' = [fires EXCEPT ![f] = rec]
  /\ unchecked' = (unchecked \/ (fires[f].state = "succeeded" /\ rec.state # "succeeded"))

\* runScript: rejected, as the device is in maintenance or the dispatch fails,
\* or not; a script that cannot run dry is only ever run dry.  (A row rejected
\* in maintenance keeps the dryRun it was asked for, and never runs.)
NewRun(w, dry) ==
  /\ Len(runs) < MaxRuns
  /\ \E state \in {"queued", "error"} :
       runs' = Append(runs, [fire |-> worker[w].row, state |-> state,
                             dry |-> (dry \/ mode = "incapable"), wasOk |-> FALSE])

-----------------------------------------------------------------------------
(* The fire cron                                                           *)

willDryRun == mode = "dryFirst"

\* Lists the pending fires whose grace is over.  scheduledAt is the time of the
\* evaluation plus graceMin, so these are the pending ones among the first
\* `last` fires.  That takes graceMin as not edited between two fires and two
\* overlapping evaluations as writing in the order of their clocks.
FireTick(w) ==
  /\ ~Busy(w)
  /\ \E last \in DOMAIN fires :
       LET due == {f \in 1..last : fires[f].state = "pending"} IN
       /\ due # {}
       /\ Begin(w, [Idle EXCEPT !.pc = "fire", !.todo = due,
                               !.closed = {a \in {fires[f].alert : f \in due} : alertState[a] = "closed"}])
  /\ UNCHANGED <<Settings, Cooldown, alertState, fires, runs, faults,
                 unchecked>>

\* Mutant of FireCheck: the alert is not looked at again.
FireCheckNoAlert(w) ==
  LET f == First(worker[w].todo) IN
  /\ worker[w].pc = "fire"
  /\ Become(w, [worker[w] EXCEPT !.row = f, !.todo = @ \ {f}, !.pc = "open"])
  /\ UNCHANGED <<Settings, Cooldown, alertState, fires, runs, faults, History>>

\* The alert is read, then the runbook.
FireCheck(w) ==
  LET f == First(worker[w].todo) IN
  /\ worker[w].pc = "fire"
  /\ Become(w, [worker[w] EXCEPT !.row = f, !.todo = @ \ {f},
       !.pc = IF alertState[fires[f].alert] = "open" THEN "open" ELSE "clear"])
  /\ UNCHANGED <<Settings, Cooldown, alertState, fires, runs, faults, History>>

FireOpen(w) ==
  /\ worker[w].pc = "open"
  /\ Goto(w, IF Off THEN "bar" ELSE "run")
  /\ UNCHANGED <<Settings, Cooldown, alertState, fires, runs, faults, History>>

SkipCleared(w) ==
  /\ worker[w].pc = "clear"
  /\ WriteFire(w, [fires[worker[w].row] EXCEPT !.state = "skipped-cleared"])
  /\ NextRow(w, worker[w], "fire")
  /\ UNCHANGED <<Settings, Cooldown, alertState, runs, faults>>

SkipOff(w) ==
  /\ worker[w].pc = "bar"
  /\ WriteFire(w, [fires[worker[w].row] EXCEPT !.state = "skipped-tripped"])
  /\ NextRow(w, worker[w], "fire")
  /\ UNCHANGED <<Settings, Cooldown, alertState, runs, faults>>

\* Mutant of FireRun: a first run is never dry.
FireRunReal(w) ==
  /\ worker[w].pc = "run"
  /\ NewRun(w, FALSE)
  /\ Become(w, [worker[w] EXCEPT !.pc = "fired", !.run = Len(runs) + 1])
  /\ UNCHANGED <<Settings, Cooldown, alertState, fires, faults, History>>

FireRun(w) ==
  /\ worker[w].pc = "run"
  /\ NewRun(w, willDryRun)
  /\ Become(w, [worker[w] EXCEPT !.pc = "fired", !.run = Len(runs) + 1])
  /\ UNCHANGED <<Settings, Cooldown, alertState, fires, faults, History>>

Fired(w) ==
  LET row == fires[worker[w].row]
      run == worker[w].run IN
  /\ worker[w].pc = "fired"
  /\ WriteFire(w, IF willDryRun THEN [row EXCEPT !.state = "dry-run", !.dry = run]
                                ELSE [row EXCEPT !.state = "running", !.real = run])
  /\ NextRow(w, worker[w], "fire")
  /\ UNCHANGED <<Settings, Cooldown, alertState, runs, faults>>

\* runScript throws before it has made a run, or a statement of the loop does,
\* and the catch block records it; no trip check sees this failure.
FireThrows(w) ==
  /\ worker[w].pc \in {"open", "clear", "bar", "run", "fired"}
  /\ faults < MaxFaults
  /\ faults' = faults + 1
  /\ fires' = [fires EXCEPT ![worker[w].row].state = "failed"]
  /\ unchecked' = TRUE
  /\ NextRow(w, worker[w], "fire")
  /\ UNCHANGED <<Settings, Cooldown, alertState, runs>>

-----------------------------------------------------------------------------
(* The watcher cron                                                        *)

SCRIPT_TERMINAL_STATES == {"ok", "error", "timeout", "cancelled", "rejected"}

\* Which run a row has the watcher look at.
RunOf(row) == IF row.state = "dry-run" THEN row.dry ELSE row.real

WatchTick(w) ==
  LET started == {f \in DOMAIN fires : fires[f].state \in {"dry-run", "running"}} IN
  /\ ~Busy(w)
  /\ started # {}
  /\ Begin(w, [Idle EXCEPT !.pc = "watch", !.todo = started,
       !.listed = [f \in started |-> [run |-> RunOf(fires[f]),
                                       dry |-> fires[f].state = "dry-run"]]])
  /\ UNCHANGED <<Settings, Cooldown, alertState, fires, runs, faults, unchecked>>

\* The run, as it stands by now.
ReadRun(w) ==
  LET f     == First(worker[w].todo)
      row   == worker[w].listed[f]
      state == runs[row.run].state
      left  == worker[w].todo \ {f}
      rec   == [worker[w] EXCEPT !.row = f, !.todo = left, !.ok = (state = "ok"),
                                 !.listed = [g \in left |-> @[g]]]
  IN
  /\ worker[w].pc = "watch"
  /\ IF state \notin SCRIPT_TERMINAL_STATES
       THEN NextRow(w, rec, "watch")
       ELSE /\ Become(w, [rec EXCEPT !.pc = IF ~row.dry THEN "settle"
                                            ELSE IF rec.ok THEN "decide"
                                            ELSE "dryFailed"])
            /\ UNCHANGED off
  /\ UNCHANGED <<Settings, Cooldown, alertState, fires, runs, faults,
                 unchecked>>

\* The dry run was ok: the runbook is read.  evaluatePredicate reads the dry
\* run's output, so either answer is possible.
Decide(w) ==
  /\ worker[w].pc = "decide"
  /\ \E pass \in BOOLEAN : Goto(w, IF pass /\ ~Off THEN "enqueue" ELSE "reject")
  /\ UNCHANGED <<Settings, Cooldown, alertState, fires, runs, faults, History>>

\* Mutant of Settle: a failed run does not ask for the trip check.
SettleUnchecked(w) ==
  /\ worker[w].pc = "settle"
  /\ WriteFire(w, [fires[worker[w].row] EXCEPT
                     !.state = IF worker[w].ok THEN "succeeded" ELSE "failed"])
  /\ NextRow(w, worker[w], "watch")
  /\ UNCHANGED <<Settings, Cooldown, alertState, runs, faults>>

\* Mutant of Settle: any run that ended counts as a success.
SettleAnyEnd(w) ==
  /\ worker[w].pc = "settle"
  /\ WriteFire(w, [fires[worker[w].row] EXCEPT !.state = "succeeded"])
  /\ NextRow(w, worker[w], "watch")
  /\ UNCHANGED <<Settings, Cooldown, alertState, runs, faults>>

Settle(w) ==
  /\ worker[w].pc = "settle"
  /\ WriteFire(w, [fires[worker[w].row] EXCEPT
                     !.state = IF worker[w].ok THEN "succeeded" ELSE "failed"])
  /\ NextRow(w, [worker[w] EXCEPT !.check = @ \/ ~worker[w].ok], "watch")
  /\ UNCHANGED <<Settings, Cooldown, alertState, runs, faults>>

DryRunFailed(w) ==
  /\ worker[w].pc = "dryFailed"
  /\ WriteFire(w, [fires[worker[w].row] EXCEPT !.state = "failed"])
  /\ NextRow(w, [worker[w] EXCEPT !.check = TRUE], "watch")
  /\ UNCHANGED <<Settings, Cooldown, alertState, runs, faults>>

PredicateFailed(w) ==
  /\ worker[w].pc = "reject"
  /\ WriteFire(w, [fires[worker[w].row] EXCEPT !.state = "predicate-failed"])
  /\ NextRow(w, worker[w], "watch")
  /\ UNCHANGED <<Settings, Cooldown, alertState, runs, faults>>

EnqueueReal(w) ==
  /\ worker[w].pc = "enqueue"
  /\ NewRun(w, FALSE)
  /\ Become(w, [worker[w] EXCEPT !.pc = "enqueued", !.run = Len(runs) + 1])
  /\ UNCHANGED <<Settings, Cooldown, alertState, fires, faults, History>>

Enqueued(w) ==
  /\ worker[w].pc = "enqueued"
  /\ WriteFire(w, [fires[worker[w].row] EXCEPT !.state = "running",
                                               !.real = worker[w].run])
  /\ NextRow(w, worker[w], "watch")
  /\ UNCHANGED <<Settings, Cooldown, alertState, runs, faults>>

\* A statement throws and the row is given up for this tick.
WatchThrows(w) ==
  /\ worker[w].pc \in {"decide", "settle", "dryFailed", "reject"}
  /\ faults < MaxFaults
  /\ faults' = faults + 1
  /\ NextRow(w, worker[w], "watch")
  /\ UNCHANGED <<Settings, Cooldown, alertState, fires, runs, unchecked>>

\* The enqueueing of the real run has a try block of its own.
EnqueueThrows(w) ==
  /\ worker[w].pc \in {"enqueue", "enqueued"}
  /\ faults < MaxFaults
  /\ faults' = faults + 1
  /\ WriteFire(w, [fires[worker[w].row] EXCEPT !.state = "failed"])
  /\ NextRow(w, [worker[w] EXCEPT !.check = TRUE], "watch")
  /\ UNCHANGED <<Settings, Cooldown, alertState, runs>>

\* Walked from the newest by createdAt, n fires or more failed before one that
\* succeeded; those in other states do not count.
FailedInARow(n) ==
  n <= Cardinality({f \in DOMAIN fires :
         /\ fires[f].state = "failed"
         /\ \A g \in DOMAIN fires : g > f => fires[g].state # "succeeded"})

checkConsecutiveFailures(w) ==
  /\ worker[w].pc = "check"
  /\ unchecked' = FALSE
  /\ IF ~isTripped /\ FailedInARow(MaxConsecutiveFailures)
       THEN Goto(w, "tripRead") /\ UNCHANGED off
       ELSE Finish(w)
  /\ UNCHANGED <<Settings, Cooldown, alertState, fires, runs, faults>>

-----------------------------------------------------------------------------
(* What the handlers meet                                                  *)

\* Every end that the watcher takes for an error stands as "error" here.
Seen(state) == IF state \in {"timeout", "cancelled", "rejected"} THEN "error" ELSE state

\* The run gets one of the ends that ScriptRun.tla may give it (RunMoves).
GetsAnEnd(r) ==
  \E state \in {Seen(end) : end \in Ends(runs[r].dry)} :
    runs' = [runs EXCEPT ![r].state = state, ![r].wasOk = @ \/ state = "ok"]

\* The agent reports, or an operator simulates or cancels.  A run that has
\* started is "queued" still, as its readers here make no difference.
RunEnds(r) ==
  /\ r \in DOMAIN runs
  /\ runs[r].state = "queued"
  /\ GetsAnEnd(r)
  /\ UNCHANGED <<Settings, Cooldown, alertState, fires, worker, faults, History>>

\* It ends again: a report after a dispatch that seemed to fail, a cancel whose
\* check came before the report, a simulation.
RunEndsAgain(r) ==
  /\ r \in DOMAIN runs
  /\ runs[r].state # "queued"
  /\ faults < MaxFaults
  /\ faults' = faults + 1
  /\ GetsAnEnd(r)
  /\ UNCHANGED <<Settings, Cooldown, alertState, fires, worker, History>>

\* An operator acks or resolves the alert.
CloseAlert(a) ==
  /\ alertState[a] = "open"
  /\ alertState' = [alertState EXCEPT ![a] = "closed"]
  /\ UNCHANGED <<Settings, Cooldown, fires, runs, worker, faults, History>>

toggleActive ==
  /\ faults < MaxFaults
  /\ faults' = faults + 1
  /\ isActive' = ~isActive
  /\ off' = IF ~isActive /\ ~isTripped THEN {} ELSE off
  /\ UNCHANGED <<mode, Cooldown, isTripped, alertState, fires, runs, worker,
                 unchecked>>

\* Untripping leaves the streak that tripped the runbook where it was.
untripRunbook ==
  /\ isTripped
  /\ faults < MaxFaults
  /\ faults' = faults + 1
  /\ isTripped' = FALSE
  /\ unchecked' = TRUE
  /\ off' = IF isActive THEN {} ELSE off
  /\ UNCHANGED <<mode, Cooldown, isActive, alertState, fires, runs, worker>>

\* A restart kills handlers; a trip check one of them owed is not made up for.
Crash ==
  /\ faults < MaxFaults
  /\ faults' = faults + 1
  /\ \E K \in (SUBSET {w \in Workers : Busy(w)}) \ {{}} :
       /\ worker' = [w \in Workers |-> IF w \in K THEN Idle ELSE worker[w]]
       /\ off' = off \ K
       /\ unchecked' = (unchecked \/ \E w \in K :
                          \/ worker[w].check
                          \/ worker[w].pc \in {"tripRead", "tripWrite"})
  /\ UNCHANGED <<Settings, Cooldown, alertState, fires, runs>>

Step(w) ==
  \/ CooldownGate(w) \/ RateGate(w) \/ Schedule(w) \/ SkipTripped(w)
  \/ TripRead(w) \/ TripWrite(w)
  \/ FireCheck(w) \/ FireOpen(w) \/ SkipCleared(w) \/ SkipOff(w) \/ FireRun(w) \/ Fired(w)
  \/ ReadRun(w) \/ Decide(w) \/ Settle(w) \/ DryRunFailed(w) \/ PredicateFailed(w)
  \/ EnqueueReal(w) \/ Enqueued(w) \/ checkConsecutiveFailures(w)

Next ==
  \/ \E w \in Workers :
       \/ Step(w) \/ FireTick(w) \/ WatchTick(w) \/ FireThrows(w) \/ WatchThrows(w)
       \/ EnqueueThrows(w)
       \/ \E a \in Alerts : Evaluate(w, a)
  \/ \E r \in 1..MaxRuns : RunEnds(r) \/ RunEndsAgain(r)
  \/ \E a \in Alerts : CloseAlert(a)
  \/ toggleActive \/ untripRunbook
  \/ Crash

Spec == Init /\ [][Next]_vars

\* A handler that is under way goes on, and the scheduler starts the crons
\* every minute.
FairSpec ==
  /\ Spec
  /\ \A w \in Workers : WF_vars(Step(w))
  /\ WF_vars(\E w \in Workers : WatchTick(w))
  /\ WF_vars(\E w \in Workers : FireTick(w))

-----------------------------------------------------------------------------
(* Properties                                                              *)

\* The type invariant.
TypeOK ==
  /\ mode \in Mode
  /\ {isActive, isTripped, unchecked} \subseteq BOOLEAN
  /\ alertState \in [Alerts -> {"none", "open", "closed"}]
  /\ fires \in Seq(FireType)
  /\ Len(fires) <= MaxFires
  /\ edge \in 0..Len(fires)
  /\ runs \in Seq(RunType)
  /\ Len(runs) <= MaxRuns
  /\ \A w \in Workers : /\ worker[w].pc \in Steps
                        /\ worker[w].alert \in Alerts \cup {None}
                        /\ worker[w].todo \cup ({worker[w].row} \ {0}) \subseteq DOMAIN fires
                        /\ worker[w].run \in 0..Len(runs)
  /\ faults \in 0..MaxFaults
  /\ off \subseteq Workers
  /\ peak \in [Keys -> Nat]

\* The dry-run gate: where the runbook asks for a dry run first, no run of a
\* fire is real unless a dry run of that fire has been ok before, however the
\* ticks of the two crons overlap; and a script that cannot run dry is never
\* run for real without having been asked to.
RealRunFollowsDryRun ==
  \A r \in DOMAIN runs : ~runs[r].dry =>
    \/ mode = "plain"
    \/ /\ mode = "dryFirst"
       /\ \E d \in 1..(r - 1) :
            runs[d].wasOk /\ runs[d].dry /\ runs[d].fire = runs[r].fire

\* A fire is only recorded as succeeded after some run made for it was ok,
\* whichever of several runs the row points to, and whatever became of them.
SucceededFireRan ==
  \A f \in DOMAIN fires : fires[f].state = "succeeded" =>
    \E r \in DOMAIN runs : runs[r].fire = f /\ runs[r].wasOk

\* A handler about to make a first run never does it for an alert that had
\* been acked or resolved when its tick began, nor, like the watcher and the
\* evaluator, for a runbook that has been tripped or disabled ever since.
RunsAreWanted ==
  \A w \in Workers : worker[w].pc \in {"run", "enqueue", "schedule"} =>
    /\ w \notin off
    /\ worker[w].row # 0 => fires[worker[w].row].alert \notin worker[w].closed

\* The fires for a key inside the cooldown are never more than the evaluations
\* for it that had once passed the gate together: one, where evaluations came
\* one after another, however the rows have moved since; more only through the
\* gap between the gate, whose advisory lock goes with its transaction, and the
\* write of the fire.
CooldownBound ==
  \A k \in Keys :
    Cardinality({f \in (edge + 1)..Len(fires) :
                   AlertKey[fires[f].alert] = k /\ fires[f].state # "skipped-cooldown"}) <= peak[k]

\* What the evaluator's comment says of the lock (lib/runbook-evaluator.ts:68-71):
\* "two concurrent ticks can't both pass the gate and double-fire".  No two
\* fires for one key inside the cooldown were both let through.
NoDoubleFire ==
  \A f, g \in (edge + 1)..Len(fires) :
    SameKey(fires[f].alert, fires[g].alert) /\ {fires[f].state, fires[g].state} \cap Skipped = {}
      => f = g

CheckPending ==
  \E w \in Workers : \/ worker[w].check
                     \/ worker[w].pc = "check"
                     \/ worker[w].alert = None /\ worker[w].pc \in {"tripRead", "tripWrite"}

\* A runbook whose last fires all failed is tripped, once the watcher ticks
\* that recorded the failures are over: unless an operator untripped it, a
\* tick was killed, the fire cron recorded the failure, or an overlapped tick
\* took back a success in between.
FailureStreakTrips ==
  FailedInARow(MaxConsecutiveFailures) => isTripped \/ unchecked \/ CheckPending

Ended(f, states) ==
  /\ f \in DOMAIN fires
  /\ fires[f].state \in {"dry-run", "running"}
  /\ runs[RunOf(fires[f])].state \in states

\* What the watcher's comment promises (api/cron/runbook-watcher/route.ts:137):
\* a fire is advanced once its run is in a terminal state, and those are the
\* states in which cancelScriptRun refuses because the run has finished.
FinishedRunsSettle ==
  \A f \in 1..MaxFires : Ended(f, Finished) ~> ~Ended(f, Finished)
=============================================================================
