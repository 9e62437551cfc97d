---------------------------- MODULE Maintenance ----------------------------
(***************************************************************************)
(* Maintenance mode of devices, and the recurring maintenance windows that  *)
(* set and clear it.                                                        *)
(*                                                                          *)
(* An operator switches one device on or off (lib/maintenance.ts).  A cron  *)
(* route (api/cron/maintenance-window-eval) compares every active window    *)
(* with the clock: on entry it flips the devices of the window's scope and  *)
(* then records the start it has fired for; after the end it flips back     *)
(* what a window set, on EVERY firing until the next start, because the     *)
(* recorded start is not reset.  Nothing keeps two firings apart, and a     *)
(* firing reads all windows and the clock once, at its beginning.           *)
(*                                                                          *)
(* Time is a slot number: slot t holds the instants from the start of t to  *)
(* that of t + 1, so a time equal to the current slot has passed.  Left     *)
(* out: nextStart and nextEnd (shown to the operator only), editing a       *)
(* window's cron or duration, and the alerts an entry suppresses (a step    *)
(* of module Alerts).                                                       *)
(***************************************************************************)
EXTENDS Integers, FiniteSets

CONSTANTS
    Windows,      \* rows of Fl_MaintenanceWindow
    Devices,      \* devices of the tenant
    Evaluators,   \* firings of the cron route that may overlap
    Starts,       \* Starts[w]: the slots at which w's cron expression fires
    Length,       \* Length[w]: durationMin, in slots
    MaxTime,      \* bound: the last slot
    MaxSwitches,  \* bound: what operators do to devices and windows
    MaxFaults     \* bound: firings cut short by an error or a restart

ASSUME MaintenanceAssumption ==
    /\ MaxTime \in Nat /\ MaxSwitches \in Nat /\ MaxFaults \in Nat
    /\ Starts \in [Windows -> SUBSET (1..MaxTime)]
    /\ Length \in [Windows -> Nat \ {0}]
    /\ {"none", "operator", "idle", "next"} \cap Windows = {}

VARIABLES
    clock,      \* the current slot
    dev,        \* Fl_Device: maintenanceMode, -Until and -SetBy
    win,        \* Fl_MaintenanceWindow: isActive, lastFiredAt, scope
    job,        \* what each firing of the evaluator has read and has left to do
    switches,   \* operators' steps so far
    faults,     \* firings cut short so far
    undone,     \* history: devices whose last write was a clear or a flip too late
    edited      \* history: windows whose scope is not the one they entered with

vars == <<clock, dev, win, job, switches, faults, undone, edited>>

Never == 0                     \* a null date: no slot of Starts is 0
Slots == Never..(MaxTime + 1)
Off == [mode |-> FALSE, until |-> Never, by |-> "none"]

\* setBy is the constant "maintenance-window-eval" for every window and the
\* reason names the window: `by` stands for the two.
ByWindow(d) == dev[d].by \in Windows

-----------------------------------------------------------------------------
(* windowBoundsAt *)

prevStart == [w \in Windows |-> [t \in 0..MaxTime |->
                LET past == {s \in Starts[w] : s <= t}
                IN  IF past = {} THEN Never
                    ELSE CHOOSE s \in past : \A r \in past : r <= s]]
PrevStart(w, t) == prevStart[w][t]
PrevEnd(w, t) == PrevStart(w, t) + Length[w]
Inside(w, t) == PrevStart(w, t) # Never /\ t < PrevEnd(w, t)

\* `until` of a window may lie past the last slot; both mean "not over here".
Clip(t) == IF t > MaxTime THEN MaxTime + 1 ELSE t

FiredFor(w, t) == win[w].lastFired # Never /\ win[w].lastFired = PrevStart(w, t)
Entering(t) == {w \in Windows : win[w].active /\ Inside(w, t) /\ ~FiredFor(w, t)}

ExitingOnce(t) ==    \* mutant: only the firing right at the end flips back
    {w \in Windows : win[w].active /\ FiredFor(w, t) /\ t = PrevEnd(w, t)}

ExitingEarly(t) ==    \* mutant: off by one at the end of the window
    {w \in Windows : win[w].active /\ FiredFor(w, t) /\ t + 1 >= PrevEnd(w, t)}

Exiting(t) == {w \in Windows : win[w].active /\ ~Inside(w, t) /\ FiredFor(w, t)}

\* isInMaintenance: the flag, unless its date has passed.
isInMaintenance(d) ==
    dev[d].mode /\ (dev[d].until # Never => clock < dev[d].until)

-----------------------------------------------------------------------------
Idle == [at |-> "idle", now |-> 0, enter |-> {}, exit |-> {},
         scope |-> [w \in Windows |-> {}]]

Init ==
    /\ clock = 0
    /\ dev = [d \in Devices |-> Off]
    /\ win \in [Windows -> [active : {TRUE}, lastFired : {Never},
                            scope : (SUBSET Devices) \ {{}}]]
    /\ job = [e \in Evaluators |-> Idle]
    /\ switches = 0
    /\ faults = 0
    /\ undone = {}
    /\ edited = {}

TickClaims(e) ==    \* mutant: the start is recorded before the devices are flipped
    /\ job[e].at = "idle"
    /\ Entering(clock) \cup Exiting(clock) # {}
    /\ win' = [w \in Windows |-> IF w \in Entering(clock)
                                THEN [win[w] EXCEPT !.lastFired = PrevStart(w, clock)]
                                ELSE win[w]]
    /\ job' = [job EXCEPT ![e] =
                 [at |-> "next", now |-> clock, enter |-> Entering(clock),
                  exit |-> Exiting(clock), scope |-> [w \in Windows |-> win[w].scope]]]
    /\ UNCHANGED <<clock, dev, switches, faults, undone, edited>>

\* The cron route begins: the clock and the active windows, with their scopes,
\* are read once.  Which devices a scope stands for is looked up again at each
\* window's turn; the devices are the same throughout, so that is no step here.
Tick(e) ==
    /\ job[e].at = "idle"
    /\ Entering(clock) \cup Exiting(clock) # {}
    /\ job' = [job EXCEPT ![e] =
                 [at |-> "next", now |-> clock, enter |-> Entering(clock),
                  exit |-> Exiting(clock),
                  scope |-> [w \in Windows |->
                               IF w \in Entering(clock) \cup Exiting(clock)
                               THEN win[w].scope ELSE {}]]]
    /\ UNCHANGED <<clock, dev, win, switches, faults, undone, edited>>

Left(e, w) ==
    LET j == [job[e] EXCEPT !.enter = @ \ {w}, !.exit = @ \ {w}, !.scope[w] = {}, !.at = "next"]
    IN  job' = [job EXCEPT ![e] = IF j.enter \cup j.exit = {} THEN Idle ELSE j]

AfterFlip(e, w) ==    \* too late when the occurrence it flips for is over
    IF PrevStart(w, job[e].now) = PrevStart(w, clock)
    THEN undone \ job[e].scope[w] ELSE undone \cup job[e].scope[w]

\* Entry, first write: the devices, whatever their flag says.
Flip(e, w) ==
    /\ job[e].at = "next"
    /\ w \in job[e].enter
    /\ dev' = [d \in Devices |->
                 IF d \in job[e].scope[w]
                 THEN [mode |-> TRUE, until |-> Clip(PrevEnd(w, job[e].now)), by |-> w]
                 ELSE dev[d]]
    /\ undone' = AfterFlip(e, w)
    /\ job' = [job EXCEPT ![e].at = w]
    /\ UNCHANGED <<clock, win, switches, faults, edited>>

\* Entry, last write: the start this entry was for.
Mark(e, w) ==
    /\ job[e].at = w
    /\ win' = [win EXCEPT ![w].lastFired = PrevStart(w, job[e].now)]
    /\ edited' = IF win[w].scope = job[e].scope[w] THEN edited \ {w} ELSE edited \cup {w}
    /\ Left(e, w)
    /\ UNCHANGED <<clock, dev, switches, faults, undone>>

ExitAll(e, w) ==    \* mutant: flips back whoever set the flag
    /\ job[e].at = "next"
    /\ w \in job[e].exit
    /\ dev' = [d \in Devices |-> IF d \in job[e].scope[w] THEN Off ELSE dev[d]]
    /\ undone' = undone \cup job[e].scope[w]
    /\ Left(e, w)
    /\ UNCHANGED <<clock, win, switches, faults, edited>>

\* Exit: the devices of the scope whose flag was set by a window - any window.
Exit(e, w) ==
    LET back == {d \in job[e].scope[w] : ByWindow(d)}
    IN  /\ job[e].at = "next"
        /\ w \in job[e].exit
        /\ dev' = [d \in Devices |-> IF d \in back THEN Off ELSE dev[d]]
        /\ undone' = undone \cup back
        /\ Left(e, w)
        /\ UNCHANGED <<clock, win, switches, faults, edited>>

\* A write throws, or the server stops: what is left of the pass is dropped.
Cut(e) ==
    /\ job[e].at # "idle"
    /\ faults < MaxFaults
    /\ faults' = faults + 1
    /\ job' = [job EXCEPT ![e] = Idle]
    /\ UNCHANGED <<clock, dev, win, switches, undone, edited>>

-----------------------------------------------------------------------------
(* Operators *)

Switch == switches < MaxSwitches /\ switches' = switches + 1

SwitchOn(d, until) ==
    /\ Switch
    /\ dev' = [dev EXCEPT ![d] = [mode |-> TRUE, until |-> until, by |-> "operator"]]
    /\ undone' = undone \ {d}
    /\ UNCHANGED <<clock, win, job, faults, edited>>

SwitchOffKept(d) ==    \* mutant: who set the flag is not cleared with it
    /\ Switch
    /\ dev[d].mode
    /\ dev' = [dev EXCEPT ![d].mode = FALSE]
    /\ undone' = undone \cup {d}
    /\ UNCHANGED <<clock, win, job, faults, edited>>

SwitchOff(d) ==
    /\ Switch
    /\ dev' = [dev EXCEPT ![d] = Off]
    /\ undone' = undone \cup {d}
    /\ UNCHANGED <<clock, win, job, faults, edited>>

setMaintenance(d) == SwitchOff(d) \/ \E until \in {Never, clock + 1} : SwitchOn(d, until)

\* PATCH and DELETE: isActive and the scope are written with no look at the
\* devices the window holds.
ToggleWindow(w) ==
    /\ Switch
    /\ win' = [win EXCEPT ![w].active = ~@]
    /\ UNCHANGED <<clock, dev, job, faults, undone, edited>>

EditScope(w, s) ==
    /\ Switch
    /\ s # win[w].scope
    /\ win' = [win EXCEPT ![w].scope = s]
    /\ edited' = edited \cup {w}
    /\ UNCHANGED <<clock, dev, job, faults, undone>>

Advance ==
    /\ clock < MaxTime
    /\ clock' = clock + 1
    /\ UNCHANGED <<dev, win, job, switches, faults, undone, edited>>

-----------------------------------------------------------------------------
Firing(e) == Tick(e) \/ \E w \in Windows : Flip(e, w) \/ Mark(e, w) \/ Exit(e, w)

Next ==
    \/ \E e \in Evaluators : Firing(e) \/ Cut(e)
    \/ \E d \in Devices : setMaintenance(d)
    \/ \E w \in Windows : ToggleWindow(w) \/ \E s \in SUBSET Devices : EditScope(w, s)
    \/ Advance

\* The crontab fires the route every minute, and a firing that is not cut
\* short runs to its end.  Neither operators nor the clock owe us a step.
Spec ==
    /\ Init /\ [][Next]_vars
    /\ \A e \in Evaluators : WF_vars(Firing(e))

-----------------------------------------------------------------------------
(* Properties *)

\* The flag, its date and its setter are written and cleared together, by two
\* kinds of writers and in any order (lib/maintenance.ts:30, route.ts:63,119),
\* and a firing only ever holds windows it may still act on.
TypeOK ==
    /\ clock \in 0..MaxTime
    /\ dev \in [Devices -> [mode : BOOLEAN, until : Slots,
                            by : {"none", "operator"} \cup Windows]]
    /\ \A d \in Devices : /\ dev[d].mode <=> dev[d].by # "none"
                          /\ ~dev[d].mode => dev[d].until = Never
    /\ win \in [Windows -> [active : BOOLEAN, lastFired : 0..MaxTime,
                            scope : SUBSET Devices]]
    /\ job \in [Evaluators -> [at : {"idle", "next"} \cup Windows, now : 0..MaxTime,
                               enter : SUBSET Windows, exit : SUBSET Windows,
                               scope : [Windows -> SUBSET Devices]]]
    /\ \A e \in Evaluators : job[e].at \in Windows => job[e].at \in job[e].enter
    /\ switches \in 0..MaxSwitches
    /\ faults \in 0..MaxFaults
    /\ undone \subseteq Devices
    /\ edited \subseteq Windows

\* A window that has recorded an entry holds its devices for as long as it
\* lasts: unless someone else has written the device since, the gate of
\* runScript and createDeployment is closed, even when firings overlap or are
\* cut short between the two writes of an entry (route.ts:61-91).
EnteredMeansHeld ==
    \A w \in Windows : \A d \in win[w].scope :
        (Inside(w, clock) /\ FiredFor(w, clock) /\ w \notin edited) =>
            \/ dev[d].by = w /\ isInMaintenance(d)
            \/ dev[d].by \notin {w, "none"}
            \/ d \in undone

\* A flag an operator has set is cleared by an operator only: an exit leaves it
\* alone, however late it comes (route.ts:122); an entry may take it over.
OperatorFlagStands ==
    [][\A d \in Devices :
          (dev[d].by = "operator" /\ dev'[d].by # "operator") =>
             \/ switches' # switches
             \/ dev'[d].by \in Windows]_vars

\* What a window has set is not flipped back before the window is over, except
\* by an operator, by the exit of another window, or by a firing that decided
\* to flip back in an earlier slot (route.ts:114-131).
ReleaseIsDue ==
    [][\A d \in Devices :
          (ByWindow(d) /\ ~dev'[d].mode) =>
             \/ switches' # switches
             \/ dev[d].until <= clock
             \/ \E e \in Evaluators : job[e].now < clock /\ job'[e] # job[e]
             \/ \E e \in Evaluators : job[e].exit \ job'[e].exit \notin {{}, {dev[d].by}}]_vars

\* A device does not stay flagged after its window: once the window is over,
\* is recorded as entered, is still active and still has the device in scope,
\* the device is flipped back whatever firings are lost, since every later
\* firing tries again (route.ts:114).
Released ==
    \A w \in Windows, d \in Devices :
        LET held == /\ dev[d].by = w
                    /\ ~Inside(w, clock)
                    /\ win[w].active
                    /\ FiredFor(w, clock)
                    /\ d \in win[w].scope
        IN  held ~> ~held

=============================================================================
