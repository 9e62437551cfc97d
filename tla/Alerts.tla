------------------------------- MODULE Alerts -------------------------------
(***************************************************************************)
(* Alerts: their notification, escalation, acknowledgement and resolution. *)
(* lib/alert-dispatch.ts, app/api/cron/alert-escalator/route.ts and the    *)
(* actions of app/(protected)/alerts/actions.ts, one awaited statement per *)
(* action.                                                                 *)
(*                                                                         *)
(* Requests write alerts and act on them while firings of the escalation   *)
(* cron, which may overlap, work through the dispatch rows that are due.   *)
(* The alerts match one route, which operators switch on and off.          *)
(*                                                                         *)
(* Left out: matching, the fallback webhook, channel adapters (a send      *)
(* works or fails, and leaves its row at once), audit rows, the batch      *)
(* limit of the cron.  A dispatch row has a channel of its step, numbered, *)
(* and its escalateAt says that it waits, that it is due, or that it does  *)
(* not escalate; a row is acked by the update that clears its escalateAt,  *)
(* so ackedAt says no more.                                                *)
(* Whether another row of the route is within its dedup window is open.    *)
(***************************************************************************)
EXTENDS Integers, Sequences, FiniteSets

CONSTANTS
  Requests,         \* requests in flight at once
  Crons,            \* firings of the escalation cron in flight at once
  Alerts,           \* ids of alerts
  PrimaryChannels,  \* channels of the route
  StepChannels,     \* channels of an escalation step
  ChainLength,      \* steps of the route's escalation chain
  MaxFaults,        \* bound: thrown database errors and crashes
  MaxSwitches       \* bound: switches of the route and windows that begin

VARIABLES
  alertState,   \* Fl_Alert.state, "none" before it is written
  dispatches,   \* alert -> step -> its Fl_AlertDispatch rows: channel, escalateAt
  routed,       \* alerts whose rows name the route
  routeActive,  \* Fl_AlertRoute.isActive
  worker,       \* what each request and firing is doing, with its locals
  faults,       \* errors and crashes so far
  switches,     \* switches of the route and windows that began
  peak,         \* history: alert -> the most escalations of it ever under way at once
  settled       \* history: alerts resolved with no acknowledgement under way

vars == <<alertState, dispatches, routed, routeActive, worker, faults, switches,
          peak, settled>>

ASSUME AlertsAssumption ==
  /\ Requests \cap Crons = {}
  /\ IsFiniteSet(Requests) /\ IsFiniteSet(Crons)
  /\ PrimaryChannels \in Nat \ {0}
  /\ StepChannels \in Nat \ {0}
  /\ ChainLength \in Nat
  /\ MaxFaults \in Nat
  /\ MaxSwitches \in Nat

Workers == Requests \union Crons

States == {"none", "open", "suppressed", "ack", "resolved"}
Unsettled == {"open", "suppressed"}   \* neither acknowledged nor resolved
EscalateAts == {"none", "waiting", "due"}

\* Channel 0 is that of an alert that nobody is told of.
DispatchRow == [channel : 0..(PrimaryChannels + StepChannels), escalateAt : EscalateAts]

\* The locals: the alerts concerned; the fan-out under way (its alert, its
\* step and the channels left); and, for a firing, the rows it read, the
\* groups it still has to escalate.
Idle == [pc |-> "idle", alerts |-> {}, step |-> 0, left |-> 0, due |-> {}, groups |-> {}]

Steps == {"idle", "route", "fan", "ack", "cascade", "bulk", "resolve",
          "unforce", "routes", "counts", "groups"}

Become(w, rec) == worker' = [worker EXCEPT ![w] = rec]

\* The rows of an alert's step that escalate as x says, named by their place.
RowsAt(a, s, x) == {[alert |-> a, step |-> s, at |-> i] :
                      i \in {j \in DOMAIN dispatches[a][s] : dispatches[a][s][j].escalateAt = x}}

\* The rows R of an alert's step escalate as x says, the others as before.
Set(a, s, R, x) == [i \in DOMAIN dispatches[a][s] |->
  IF [alert |-> a, step |-> s, at |-> i] \in R
    THEN [dispatches[a][s][i] EXCEPT !.escalateAt = x]
    ELSE dispatches[a][s][i]]

\* What becomes of a sequence of rows that do not escalate any more.
Quiet(rows) == [i \in DOMAIN rows |-> [rows[i] EXCEPT !.escalateAt = "none"]]

\* escalateAt of a row of step s: when the chain has a further step.
EscalateAt(s) == IF s < ChainLength THEN "waiting" ELSE "none"

AddRow(a, s, channel, x) ==
  dispatches' = [dispatches EXCEPT ![a][s] = Append(@, [channel |-> channel, escalateAt |-> x])]

History == <<peak, settled>>
Bounded == <<faults, switches>>

\* Workers that escalate a, or are about to.
Escalating(a) ==
  {w \in Workers : \/ a \in worker[w].alerts /\ worker[w].pc \in {"fan", "unforce"} /\ worker[w].step > 0
                   \/ \E g \in worker[w].groups : g.alert = a}

\* One more worker escalates each alert of S.
Joins(S) ==
  peak' = [a \in Alerts |->
    LET n == Cardinality(Escalating(a)) + 1 IN
    IF a \in S /\ n > peak[a] THEN n ELSE peak[a]]

\* Workers on their way to a notification about a.
Notifying(a) ==
  Escalating(a) \union
  {w \in Workers : a \in worker[w].alerts /\ worker[w].pc \in {"route", "fan"}}

Init ==
  /\ alertState = [a \in Alerts |-> "none"]
  /\ dispatches = [a \in Alerts |-> [s \in 0..ChainLength |-> <<>>]]
  /\ routed = {}
  /\ routeActive = TRUE
  /\ worker = [w \in Workers |-> Idle]
  /\ faults = 0
  /\ switches = 0
  /\ peak = [a \in Alerts |-> 0]
  /\ settled = {}

-----------------------------------------------------------------------------
(* Writing and dispatching an alert                                        *)

WriteAlert(w, a) ==
  /\ worker[w] = Idle
  /\ alertState[a] = "none"
  /\ alertState' = [alertState EXCEPT ![a] = "open"]
  /\ Become(w, [Idle EXCEPT !.pc = "route", !.alerts = {a}])
  /\ UNCHANGED <<dispatches, routed, routeActive, Bounded, History>>

\* dispatchAlert up to its first channel: no route, suppressed, or fanned out.
Route(w) ==
  /\ worker[w].pc = "route"
  /\ \E a \in worker[w].alerts :
       /\ \/ /\ ~routeActive
             /\ AddRow(a, 0, 0, "none")
             /\ Become(w, Idle)
             /\ UNCHANGED routed
          \/ /\ routeActive
             /\ AddRow(a, 0, 0, "none")
             /\ routed' = routed \union {a}
             /\ Become(w, Idle)
          \/ /\ routeActive
             /\ Become(w, [worker[w] EXCEPT !.pc = "fan", !.left = PrimaryChannels])
             /\ UNCHANGED <<dispatches, routed>>
  /\ UNCHANGED <<alertState, routeActive, Bounded, History>>

\* Where a fan-out goes when its last channel is done: the firing to its
\* next group, forceEscalate to its update, dispatchAlert back.
AfterFan(w) ==
  CASE w \in Crons -> [worker[w] EXCEPT !.pc = "groups", !.left = 0, !.step = 0, !.alerts = {}]
    [] w \in Requests /\ worker[w].step > 0 -> [worker[w] EXCEPT !.pc = "unforce", !.left = 0]
    [] OTHER -> Idle

\* dispatchOneChannel for the next channel: a row "sent", or, if the send or
\* its insert threw, a row "failed", which escalate alike.
FanOut(w) ==
  /\ worker[w].pc = "fan"
  /\ \E a \in worker[w].alerts :
       /\ AddRow(a, worker[w].step, worker[w].left, EscalateAt(worker[w].step))
       /\ routed' = routed \union {a}
  /\ Become(w, IF worker[w].left > 1 THEN [worker[w] EXCEPT !.left = @ - 1] ELSE AfterFan(w))
  /\ UNCHANGED <<alertState, routeActive, Bounded, History>>

-----------------------------------------------------------------------------
(* Operators                                                               *)

\* Mutant of AckRead: only an acknowledged alert counts as already acked.
AckReadResolved(w, a) ==
  /\ worker[w] = Idle
  /\ alertState[a] # "none"
  /\ Become(w, [Idle EXCEPT !.alerts = {a},
                            !.pc = IF alertState[a] # "ack" THEN "ack" ELSE "cascade"])
  /\ UNCHANGED <<alertState, dispatches, routed, routeActive, Bounded, History>>

\* markAlertAcked
AckRead(w, a) ==
  /\ worker[w] = Idle
  /\ alertState[a] # "none"
  /\ Become(w, [Idle EXCEPT !.alerts = {a},
                            !.pc = IF alertState[a] = "open" THEN "ack" ELSE "cascade"])
  /\ UNCHANGED <<alertState, dispatches, routed, routeActive, Bounded, History>>

AckWrite(w) ==
  /\ worker[w].pc = "ack"
  /\ alertState' = [a \in Alerts |-> IF a \in worker[w].alerts THEN "ack" ELSE alertState[a]]
  /\ Become(w, [worker[w] EXCEPT !.pc = "cascade"])
  /\ UNCHANGED <<dispatches, routed, routeActive, Bounded, History>>

Cascade(w) ==
  /\ worker[w].pc = "cascade"
  /\ dispatches' = [a \in Alerts |-> [s \in 0..ChainLength |->
       IF a \in worker[w].alerts THEN Quiet(dispatches[a][s]) ELSE dispatches[a][s]]]
  /\ Become(w, Idle)
  /\ UNCHANGED <<alertState, routed, routeActive, Bounded, History>>

\* bulkAckAlerts: the open ones among those picked, one by one; no cascade.
BulkRead(w, picked) ==
  /\ worker[w] = Idle
  /\ \E a \in picked : alertState[a] = "open"
  /\ Become(w, [Idle EXCEPT !.pc = "bulk",
                            !.alerts = {a \in picked : alertState[a] = "open"}])
  /\ UNCHANGED <<alertState, dispatches, routed, routeActive, Bounded, History>>

BulkWrite(w) ==
  /\ worker[w].pc = "bulk"
  /\ \E a \in worker[w].alerts :
       /\ alertState' = [alertState EXCEPT ![a] = "ack"]
       /\ Become(w, IF worker[w].alerts = {a} THEN Idle
                    ELSE [worker[w] EXCEPT !.alerts = @ \ {a}])
  /\ UNCHANGED <<dispatches, routed, routeActive, Bounded, History>>

\* resolveAlert; no cascade.
ResolveRead(w, a) ==
  /\ worker[w] = Idle
  /\ alertState[a] \in Unsettled \union {"ack"}
  /\ Become(w, [Idle EXCEPT !.pc = "resolve", !.alerts = {a}])
  /\ UNCHANGED <<alertState, dispatches, routed, routeActive, Bounded, History>>

\* Mutant of ResolveWrite: a state the alert does not have.
ResolveWriteClosed(w) ==
  /\ worker[w].pc = "resolve"
  /\ alertState' = [a \in Alerts |-> IF a \in worker[w].alerts THEN "closed" ELSE alertState[a]]
  /\ Become(w, Idle)
  /\ UNCHANGED <<dispatches, routed, routeActive, Bounded, History>>

ResolveWrite(w) ==
  /\ worker[w].pc = "resolve"
  /\ \E a \in worker[w].alerts :
       /\ alertState' = [alertState EXCEPT ![a] = "resolved"]
       /\ settled' = IF \E v \in Workers \ {w} :
                          a \in worker[v].alerts /\ worker[v].pc \in {"ack", "bulk"}
                     THEN settled ELSE settled \union {a}
  /\ Become(w, Idle)
  /\ UNCHANGED <<dispatches, routed, routeActive, Bounded, peak>>

\* forceEscalate, which reads the last row, the route and the alert.  An
\* alert that is unsettled when it is read was unsettled when the row was.
ForceEscalate(w, a) ==
  /\ worker[w] = Idle
  /\ alertState[a] \in Unsettled
  /\ routeActive
  /\ a \in routed
  /\ LET last == CHOOSE s \in 0..ChainLength :
                   /\ dispatches[a][s] # <<>>
                   /\ \A u \in s + 1..ChainLength : dispatches[a][u] = <<>> IN
       /\ last < ChainLength
       /\ Become(w, [Idle EXCEPT !.pc = "fan", !.alerts = {a},
                                 !.step = last + 1, !.left = StepChannels])
  /\ Joins({a})
  /\ UNCHANGED <<alertState, dispatches, routed, routeActive, Bounded, settled>>

\* The step before the one forced is not escalated again.
Unforce(w) ==
  /\ worker[w].pc = "unforce"
  /\ \E a \in worker[w].alerts :
       dispatches' = [dispatches EXCEPT ![a][worker[w].step - 1] = Quiet(@)]
  /\ Become(w, Idle)
  /\ UNCHANGED <<alertState, routed, routeActive, Bounded, History>>

\* A maintenance window begins: the open alerts of its devices are marked.
Suppress(a) ==
  /\ switches < MaxSwitches
  /\ switches' = switches + 1
  /\ alertState[a] = "open"
  /\ alertState' = [alertState EXCEPT ![a] = "suppressed"]
  /\ UNCHANGED <<dispatches, routed, routeActive, worker, faults, History>>

SwitchRoute ==
  /\ switches < MaxSwitches
  /\ switches' = switches + 1
  /\ routeActive' = ~routeActive
  /\ UNCHANGED <<alertState, dispatches, routed, worker, faults, History>>

-----------------------------------------------------------------------------
(* The escalation cron                                                     *)

\* Mutant of DueRows: the state of the alert is not asked for.
DueRowsOfAny == UNION {RowsAt(a, s, "due") : a \in Alerts, s \in 0..ChainLength}

DueRows == UNION {RowsAt(a, s, "due") : a \in {b \in Alerts : alertState[b] \in Unsettled},
                                         s \in 0..ChainLength}

Group(r) == [alert |-> r.alert, step |-> r.step]

\* The rows of a group escalate together.
CronRead(w) ==
  /\ worker[w] = Idle
  /\ DueRows # {}
  /\ Become(w, [Idle EXCEPT !.pc = "routes", !.due = DueRows,
                            !.groups = {Group(r) : r \in DueRows}])
  /\ Joins({r.alert : r \in DueRows})
  /\ UNCHANGED <<alertState, dispatches, routed, routeActive, Bounded, settled>>

\* The route is read once for all groups: escalateOne stops if it is off.
CronRoutes(w) ==
  /\ worker[w].pc = "routes"
  /\ Become(w, [worker[w] EXCEPT !.pc = "counts", !.groups = {g \in @ : routeActive}])
  /\ UNCHANGED <<alertState, dispatches, routed, routeActive, Bounded, History>>

\* Mutant of CronCounts: the next step may have rows already.
CronCountsUnguarded(w) ==
  /\ worker[w].pc = "counts"
  /\ Become(w, [worker[w] EXCEPT !.pc = "groups",
                   !.groups = {g \in @ : g.step < ChainLength}])
  /\ UNCHANGED <<alertState, dispatches, routed, routeActive, Bounded, History>>

\* Mutant of CronCounts: the last step of the chain is taken for its end.
CronCountsShort(w) ==
  /\ worker[w].pc = "counts"
  /\ Become(w, [worker[w] EXCEPT !.pc = "groups",
       !.groups = {g \in @ : /\ g.step + 1 < ChainLength
                             /\ dispatches[g.alert][g.step + 1] = <<>>}])
  /\ UNCHANGED <<alertState, dispatches, routed, routeActive, Bounded, History>>

\* The steps that have rows are, too: escalateOne is exhausted, or stops, or
\* fans the next step out.
CronCounts(w) ==
  /\ worker[w].pc = "counts"
  /\ Become(w, [worker[w] EXCEPT !.pc = "groups",
       !.groups = {g \in @ : /\ g.step < ChainLength
                             /\ dispatches[g.alert][g.step + 1] = <<>>}])
  /\ UNCHANGED <<alertState, dispatches, routed, routeActive, Bounded, History>>

EscalateOne(w) ==
  /\ worker[w].pc = "groups"
  /\ \E g \in worker[w].groups :
       Become(w, [worker[w] EXCEPT !.pc = "fan", !.alerts = {g.alert},
                    !.step = g.step + 1, !.left = StepChannels, !.groups = @ \ {g}])
  /\ UNCHANGED <<alertState, dispatches, routed, routeActive, Bounded, History>>

\* Every row read is cleared, escalated or not.
ClearDue(w) ==
  /\ worker[w].pc = "groups"
  /\ worker[w].groups = {}
  /\ dispatches' = [a \in Alerts |-> [s \in 0..ChainLength |->
                      Set(a, s, worker[w].due, "none")]]
  /\ Become(w, Idle)
  /\ UNCHANGED <<alertState, routed, routeActive, Bounded, History>>

-----------------------------------------------------------------------------
(* Time and faults                                                         *)

\* The rows of one fan-out have one escalateAt.
Due(a, s) ==
  /\ RowsAt(a, s, "waiting") # {}
  /\ dispatches' = [dispatches EXCEPT ![a][s] = Set(a, s, RowsAt(a, s, "waiting"), "due")]
  /\ UNCHANGED <<alertState, routed, routeActive, worker, Bounded, History>>

\* A statement throws: a firing goes on with its next group, others end.
Throw(w) ==
  /\ worker[w] # Idle
  /\ faults < MaxFaults
  /\ faults' = faults + 1
  /\ Become(w, IF w \in Crons /\ worker[w].pc = "fan" THEN AfterFan(w) ELSE Idle)
  /\ UNCHANGED <<alertState, dispatches, routed, routeActive, switches, History>>

Crash ==
  /\ faults < MaxFaults
  /\ faults' = faults + 1
  /\ worker' = [w \in Workers |-> Idle]
  /\ UNCHANGED <<alertState, dispatches, routed, routeActive, switches, History>>

-----------------------------------------------------------------------------
\* A handler under way goes on with its next statement.
Step(w) ==
  \/ Route(w) \/ FanOut(w) \/ AckWrite(w) \/ Cascade(w) \/ BulkWrite(w)
  \/ ResolveWrite(w) \/ Unforce(w)
  \/ CronRoutes(w) \/ CronCounts(w) \/ EscalateOne(w) \/ ClearDue(w)

Request(w) ==
  \/ \E a \in Alerts :
       WriteAlert(w, a) \/ AckRead(w, a) \/ ResolveRead(w, a) \/ ForceEscalate(w, a)
  \/ \E picked \in SUBSET Alerts : BulkRead(w, picked)

Next ==
  \/ \E w \in Requests : Request(w)
  \/ \E w \in Crons : CronRead(w)
  \/ \E w \in Workers : Step(w) \/ Throw(w)
  \/ \E a \in Alerts, s \in 0..ChainLength : Due(a, s)
  \/ \E a \in Alerts : Suppress(a)
  \/ SwitchRoute
  \/ Crash

Spec == Init /\ [][Next]_vars

\* The cron fires every minute, and a firing runs on while the process does.
\* Nothing is asked of the requests.
FairSpec == Spec /\ \A w \in Crons : WF_vars(CronRead(w) \/ Step(w))

-----------------------------------------------------------------------------
(* Properties                                                              *)

RowType == [alert : Alerts, step : 0..ChainLength, at : Nat \ {0}]
GroupType == [alert : Alerts, step : 0..ChainLength]

TypeOK ==
  /\ alertState \in [Alerts -> States]
  /\ dispatches \in [Alerts -> [0..ChainLength -> Seq(DispatchRow)]]
  /\ routed \in SUBSET Alerts
  /\ routeActive \in BOOLEAN
  /\ worker \in [Workers -> [pc : Steps, alerts : SUBSET Alerts, step : 0..ChainLength,
                             left : 0..(PrimaryChannels + StepChannels),
                             due : SUBSET RowType, groups : SUBSET GroupType]]
  /\ faults \in 0..MaxFaults
  /\ switches \in 0..MaxSwitches
  /\ peak \in [Alerts -> Nat]
  /\ settled \in SUBSET Alerts

\* A channel of a step is used at most once per escalation of the alert that
\* was under way at the same time: once, where firings and forced escalations
\* came one after another, however often they threw, died or were repeated;
\* twice, where two overlapped, which the guard on counts read beforehand does
\* not prevent (route.ts:155); and never more.
PagesWithinOverlap ==
  \A a \in Alerts, s \in 1..ChainLength, c \in 1..StepChannels :
    Cardinality({i \in DOMAIN dispatches[a][s] : dispatches[a][s][i].channel = c}) <= peak[a]

\* What the escalator's header says (alert-escalator/route.ts:18-20): "two
\* overlapping cron firings don't double-escalate the same row".  No two
\* firings fan one step of one alert out at the same time.
NoDoubleEscalation ==
  \A v, w \in Crons : worker[v].pc = "fan" /\ worker[w].pc = "fan" /\ v # w =>
    worker[v].step # worker[w].step \/ worker[v].alerts \cap worker[w].alerts = {}

\* An alert that is acknowledged or resolved, with nobody on the way to a
\* notification about it, is silent for ever: rows that still escalate, inserted
\* beside the cascade or left by an acknowledgement without one, wake nobody.
ClosedIsSilent ==
  [][\A a \in Alerts :
       alertState[a] \in {"ack", "resolved"} /\ Notifying(a) = {} =>
         /\ Notifying(a)' = {}
         /\ \A s \in 0..ChainLength : Len(dispatches'[a][s]) = Len(dispatches[a][s])]_vars

\* A resolved alert stays resolved, unless it was resolved while an
\* acknowledgement that had read it as open was under way.
ResolveHolds == \A a \in settled : alertState[a] = "resolved"

\* What is due is escalated: as long as the alert is neither acknowledged nor
\* resolved and the route is active, an escalation that is due is sent, unless
\* something fails.  (Acknowledging a suppressed alert stops its rows and leaves
\* its state, alert-dispatch.ts:314-341.)  A maintenance window that suppresses
\* the alert meanwhile does not stop it: the cron leaves out ack and resolved
\* only (route.ts:38).
DueEscalates ==
  \A a \in Alerts, s \in 0..ChainLength - 1 :
    RowsAt(a, s, "due") # {}
      ~> \/ dispatches[a][s + 1] # <<>>
         \/ alertState[a] \notin Unsettled
         \/ \E w \in Requests : a \in worker[w].alerts /\ worker[w].pc = "cascade"
         \/ ~routeActive
         \/ faults > 0
=============================================================================
