-------------------------- MODULE MaintenanceProofs --------------------------
(***************************************************************************)
(* Proofs about maintenance mode, for any windows, devices, firings of the *)
(* evaluator, start times, lengths and faults: the safety properties of    *)
(* Maintenance.tla.                                                        *)
(***************************************************************************)
EXTENDS Maintenance, WellFoundedInduction, TLAPS

(* The inductive invariant.                                                *)

DevType == [mode : BOOLEAN, until : Slots, by : {"none", "operator"} \cup Windows]
WinType == [active : BOOLEAN, lastFired : 0..MaxTime, scope : SUBSET Devices]
JobType == [at : {"idle", "next"} \cup Windows, now : 0..MaxTime,
            enter : SUBSET Windows, exit : SUBSET Windows,
            scope : [Windows -> SUBSET Devices]]

\* What a firing has read: a time that has come, windows that hold it, and
\* windows that do not.
JobsOK ==
  \A e \in Evaluators :
    /\ job[e].now <= clock
    /\ \A w \in job[e].enter : Inside(w, job[e].now)
    /\ \A w \in job[e].exit : ~Inside(w, job[e].now)

\* A flag that a window has set ends with an occurrence that has begun.
FlagsOK ==
  \A d \in Devices : ByWindow(d) =>
    \E t \in 0..clock : Inside(dev[d].by, t) /\ dev[d].until = Clip(PrevEnd(dev[d].by, t))

\* An entry that is recorded was due.
EntriesOK == \A w \in Windows : win[w].lastFired <= clock

\* Device d is in the hands of window w until the end of its occurrence,
\* unless someone else has written it.
Claimed(d, w) ==
  \/ dev[d].by = w /\ dev[d].until = Clip(PrevEnd(w, clock))
  \/ dev[d].by \notin {w, "none"}
  \/ d \in undone

\* So are the devices of an entry that is recorded, and those of one that is
\* about to be.
RecordedOK ==
  \A w \in Windows : \A d \in win[w].scope :
    FiredFor(w, clock) /\ w \notin edited => Claimed(d, w)

PendingOK ==
  \A e \in Evaluators, w \in Windows : \A d \in job[e].scope[w] :
    job[e].at = w /\ PrevStart(w, job[e].now) = PrevStart(w, clock) => Claimed(d, w)

IInv ==
  /\ TypeOK
  /\ JobsOK
  /\ FlagsOK
  /\ EntriesOK
  /\ RecordedOK
  /\ PendingOK

-----------------------------------------------------------------------------
(* windowBoundsAt.                                                         *)

LEMMA Constants ==
  ASSUME MaintenanceAssumption
  PROVE  /\ MaxTime \in Nat /\ MaxSwitches \in Nat /\ MaxFaults \in Nat
         /\ \A w \in Windows : Starts[w] \subseteq 1..MaxTime
         /\ \A w \in Windows : Length[w] \in Nat /\ Length[w] # 0
         /\ "none" \notin Windows /\ "operator" \notin Windows
         /\ "idle" \notin Windows /\ "next" \notin Windows
<1>1. MaxTime \in Nat /\ MaxSwitches \in Nat /\ MaxFaults \in Nat
  BY DEF MaintenanceAssumption
<1>2. Starts \in [Windows -> SUBSET (1..MaxTime)] /\ Length \in [Windows -> Nat \ {0}]
  BY DEF MaintenanceAssumption
<1>3. {"none", "operator", "idle", "next"} \cap Windows = {}
  BY DEF MaintenanceAssumption
<1>4. \A w \in Windows : Starts[w] \subseteq 1..MaxTime
  BY <1>2
<1>. QED
  BY <1>1, <1>2, <1>3, <1>4

LEMMA Least == ASSUME NEW T \in SUBSET Nat, T # {} PROVE \E x \in T : \A y \in T : x <= y
<1>1. PICK x \in T : \A y \in T : ~(<<y, x>> \in OpToRel(<, Nat))
  BY NatLessThanWellFounded, WFMin, Zenon
<1>2. \A y \in T : ~(y < x)
  BY <1>1 DEF OpToRel
<1>. QED
  BY <1>2

\* A set of slots that is not empty has a last one.
LEMMA Latest ==
  ASSUME MaintenanceAssumption, NEW S \in SUBSET (1..MaxTime), S # {}
  PROVE  \E x \in S : \A y \in S : y <= x
<1>. DEFINE T == {MaxTime - s : s \in S}
<1>a. MaxTime \in Nat
  BY Constants
<1>b. \A s \in S : MaxTime - s \in Nat
  BY <1>a
<1>1. T \in SUBSET Nat /\ T # {}
  <2>1. PICK s \in S : TRUE
    OBVIOUS
  <2>2. MaxTime - s \in T
    OBVIOUS
  <2>. QED
    BY <1>b, <2>2
<1>2. PICK m \in T : \A y \in T : m <= y
  BY <1>1, Least
<1>3. PICK x \in S : m = MaxTime - x
  BY <1>2
<1>4. \A y \in S : MaxTime - x <= MaxTime - y
  BY <1>2, <1>3
<1>. QED
  BY <1>a, <1>3, <1>4

\* The last start at or before t.
LEMMA Previous ==
  ASSUME MaintenanceAssumption, NEW w \in Windows, NEW t \in 0..MaxTime
  PROVE  /\ PrevStart(w, t) \in 0..t
         /\ PrevStart(w, t) # Never => PrevStart(w, t) \in Starts[w]
         /\ \A r \in Starts[w] : r <= t => r <= PrevStart(w, t)
<1>. DEFINE past == {s \in Starts[w] : s <= t}
<1>1. Starts[w] \in SUBSET (1..MaxTime) /\ MaxTime \in Nat
  BY Constants
<1>2. PrevStart(w, t) = IF past = {} THEN Never
                        ELSE CHOOSE s \in past : \A r \in past : r <= s
  <2>1. prevStart[w][t] = IF {s \in Starts[w] : s <= t} = {} THEN Never
                          ELSE CHOOSE s \in {q \in Starts[w] : q <= t} :
                                 \A r \in {q \in Starts[w] : q <= t} : r <= s
    BY DEF prevStart
  <2>. QED
    BY <2>1 DEF PrevStart
<1>3. CASE past = {}
  BY <1>1, <1>2, <1>3 DEF Never
<1>4. CASE past # {}
  <2>1. \E s \in past : \A r \in past : r <= s
    BY <1>1, <1>4, Latest
  <2>2. PrevStart(w, t) \in past /\ \A r \in past : r <= PrevStart(w, t)
    BY <1>2, <1>4, <2>1
  <2>. QED
    BY <1>1, <2>2
<1>. QED
  BY <1>3, <1>4

LEMMA Later ==
  ASSUME MaintenanceAssumption, NEW w \in Windows, NEW t \in 0..MaxTime, NEW u \in 0..MaxTime,
         t <= u
  PROVE  /\ PrevStart(w, t) <= PrevStart(w, u)
         /\ PrevStart(w, u) <= t => PrevStart(w, u) = PrevStart(w, t)
<1>1. /\ PrevStart(w, t) \in 0..t /\ PrevStart(w, u) \in 0..u
      /\ PrevStart(w, t) # Never => PrevStart(w, t) \in Starts[w]
      /\ PrevStart(w, u) # Never => PrevStart(w, u) \in Starts[w]
      /\ \A r \in Starts[w] : r <= t => r <= PrevStart(w, t)
      /\ \A r \in Starts[w] : r <= u => r <= PrevStart(w, u)
  BY Previous
<1>. QED
  BY <1>1 DEF Never, MaintenanceAssumption

LEMMA Ends ==
  ASSUME MaintenanceAssumption, NEW w \in Windows, NEW t \in 0..MaxTime
  PROVE  /\ PrevEnd(w, t) = PrevStart(w, t) + Length[w]
         /\ PrevEnd(w, t) \in Nat \ {0}
         /\ Clip(PrevEnd(w, t)) \in Slots \ {Never}
         /\ Clip(PrevEnd(w, t)) <= PrevEnd(w, t)
         /\ t < PrevEnd(w, t) => t < Clip(PrevEnd(w, t))
  BY Previous DEF PrevEnd, Clip, Slots, Never, MaintenanceAssumption

-----------------------------------------------------------------------------
LEMMA Initially == MaintenanceAssumption /\ Init => IInv
<1> SUFFICES ASSUME MaintenanceAssumption, Init PROVE IInv
  OBVIOUS
<1>1. TypeOK
  <2>1. Off \in DevType /\ Off.mode = FALSE /\ Off.by = "none" /\ Off.until = Never
    BY DEF Off, DevType, Slots, Never, MaintenanceAssumption
  <2>2. dev \in [Devices -> DevType]
    BY <2>1 DEF Init
  <2>3. \A d \in Devices : dev[d] = Off
    BY DEF Init
  <2>4. Idle \in JobType /\ Idle.at = "idle"
    BY DEF Idle, JobType, MaintenanceAssumption
  <2>5. job \in [Evaluators -> JobType] /\ \A e \in Evaluators : job[e].at = "idle"
    BY <2>4 DEF Init
  <2>6. win \in [Windows -> WinType]
    <3>1. Never \in 0..MaxTime
      BY Constants DEF Never
    <3>2. win \in [Windows -> [active : {TRUE}, lastFired : {Never},
                              scope : (SUBSET Devices) \ {{}}]]
      BY DEF Init
    <3>. QED
      BY <3>1, <3>2 DEF WinType
  <2>7. clock \in 0..MaxTime /\ switches \in 0..MaxSwitches /\ faults \in 0..MaxFaults
    BY Constants DEF Init
  <2>8. \A e \in Evaluators : job[e].at \notin Windows \/ job[e].at \in job[e].enter
    BY <2>5, Constants
  <2>9. undone = {} /\ edited = {}
    BY DEF Init
  <2>. QED
    BY <2>1, <2>2, <2>3, <2>5, <2>6, <2>7, <2>8, <2>9
       DEF TypeOK, DevType, WinType, JobType
<1>2. JobsOK
  BY DEF Init, JobsOK, Idle
<1>3. FlagsOK /\ PendingOK
  <2>1. Off.by = "none" /\ \A w \in Windows : Idle.scope[w] = {}
    BY DEF Off, Idle
  <2>. QED
    BY <2>1, Constants DEF Init, FlagsOK, ByWindow, PendingOK
<1>4. EntriesOK /\ RecordedOK
  <2>1. \A w \in Windows : win[w].lastFired = Never
    BY DEF Init
  <2>. QED
    BY <2>1 DEF Init, EntriesOK, RecordedOK, FiredFor, Never
<1>. QED
  BY <1>1, <1>2, <1>3, <1>4 DEF IInv

\* What a firing has left to do when it is done with a window.
LEMMA Leaving ==
  ASSUME MaintenanceAssumption, TypeOK, NEW e \in Evaluators, NEW w \in Windows, Left(e, w)
  PROVE  /\ job' \in [Evaluators -> JobType]
         /\ \A f \in Evaluators : f # e => job'[f] = job[f]
         /\ job'[e].at \in {"idle", "next"}
         /\ job'[e].now \in {0, job[e].now}
         /\ job'[e] = Idle \/ job'[e].now = job[e].now
         /\ job'[e].enter = job[e].enter \ {w}
         /\ job'[e].exit = job[e].exit \ {w}
<1>. DEFINE j == [job[e] EXCEPT !.enter = @ \ {w}, !.exit = @ \ {w}, !.scope[w] = {}, !.at = "next"]
<1>1. job[e] \in JobType /\ job \in [Evaluators -> JobType]
  BY DEF TypeOK, JobType
<1>2. /\ j \in JobType /\ j.at = "next" /\ j.now = job[e].now
      /\ j.enter = job[e].enter \ {w} /\ j.exit = job[e].exit \ {w}
  BY <1>1 DEF JobType
<1>3. /\ Idle \in JobType /\ Idle.at = "idle" /\ Idle.now = 0
      /\ Idle.enter = {} /\ Idle.exit = {}
  BY Constants DEF Idle, JobType
<1>4. job' = [job EXCEPT ![e] = IF j.enter \cup j.exit = {} THEN Idle ELSE j]
  BY DEF Left
<1>. HIDE DEF j
<1>5. /\ job' \in [Evaluators -> JobType]
      /\ \A f \in Evaluators : f # e => job'[f] = job[f]
      /\ job'[e] = IF j.enter \cup j.exit = {} THEN Idle ELSE j
  BY <1>1, <1>2, <1>3, <1>4
<1>6. CASE j.enter \cup j.exit = {}
  BY <1>2, <1>3, <1>5, <1>6
<1>7. CASE j.enter \cup j.exit # {}
  BY <1>2, <1>5, <1>7
<1>. QED
  BY <1>6, <1>7

LEMMA TypeStep ==
  ASSUME MaintenanceAssumption, TypeOK, JobsOK, [Next]_vars
  PROVE  TypeOK'
<1>a. /\ dev \in [Devices -> DevType] /\ win \in [Windows -> WinType]
      /\ job \in [Evaluators -> JobType] /\ clock \in 0..MaxTime
      /\ \A d \in Devices : /\ dev[d].mode <=> dev[d].by # "none"
                            /\ ~dev[d].mode => dev[d].until = Never
      /\ \A e \in Evaluators : job[e].at \in Windows => job[e].at \in job[e].enter
  BY DEF TypeOK, DevType, WinType, JobType
<1>b. /\ Off \in DevType /\ Off.mode = FALSE /\ Off.by = "none" /\ Off.until = Never
      /\ Idle \in JobType /\ Idle.at = "idle"
  BY Constants DEF Off, DevType, Slots, Never, Idle, JobType
<1>c. /\ "none" \notin Windows /\ "operator" \notin Windows
      /\ "idle" \notin Windows /\ "next" \notin Windows
  BY Constants
<1>d. ASSUME dev' \in [Devices -> DevType],
             \A d \in Devices : /\ dev'[d].mode <=> dev'[d].by # "none"
                                /\ ~dev'[d].mode => dev'[d].until = Never,
             win' \in [Windows -> WinType], job' \in [Evaluators -> JobType],
             \A e \in Evaluators : job'[e].at \in Windows => job'[e].at \in job'[e].enter,
             clock' \in 0..MaxTime, switches' \in 0..MaxSwitches, faults' \in 0..MaxFaults,
             undone' \subseteq Devices, edited' \subseteq Windows
      PROVE  TypeOK'
  BY <1>d DEF TypeOK, DevType, WinType, JobType
<1>w. switches \in 0..MaxSwitches /\ faults \in 0..MaxFaults
      /\ undone \subseteq Devices /\ edited \subseteq Windows
  BY DEF TypeOK
<1>s. Switch => switches' \in 0..MaxSwitches
  BY <1>w, Constants DEF Switch
<1>1. ASSUME NEW e \in Evaluators, Tick(e) PROVE TypeOK'
  <2>. DEFINE r == [at |-> "next", now |-> clock, enter |-> Entering(clock),
                    exit |-> Exiting(clock),
                    scope |-> [w \in Windows |->
                               IF w \in Entering(clock) \cup Exiting(clock)
                               THEN win[w].scope ELSE {}]]
  <2>1. r \in JobType /\ r.at = "next"
    BY <1>a DEF JobType, WinType, Entering, Exiting
  <2>2. job' = [job EXCEPT ![e] = r]
    BY <1>1 DEF Tick
  <2>. HIDE DEF r
  <2>3. job' \in [Evaluators -> JobType]
        /\ \A f \in Evaluators : job'[f].at \in Windows => job'[f].at \in job'[f].enter
    BY <1>a, <1>c, <2>1, <2>2
  <2>. QED
    BY <1>1, <1>a, <1>d, <1>w, <2>3 DEF Tick
<1>2. ASSUME NEW e \in Evaluators, NEW w \in Windows, Flip(e, w) PROVE TypeOK'
  <2>1. w \in job[e].enter /\ job[e].now \in 0..MaxTime /\ job[e].scope[w] \subseteq Devices
    BY <1>2, <1>a DEF Flip, JobType
  <2>2. [mode |-> TRUE, until |-> Clip(PrevEnd(w, job[e].now)), by |-> w] \in DevType
    BY <2>1, Ends DEF DevType
  <2>3. dev' \in [Devices -> DevType]
        /\ \A d \in Devices : /\ dev'[d].mode <=> dev'[d].by # "none"
                              /\ ~dev'[d].mode => dev'[d].until = Never
    BY <1>2, <1>a, <1>c, <2>2 DEF Flip
  <2>4. [job[e] EXCEPT !.at = w] \in JobType /\ [job[e] EXCEPT !.at = w].at = w
        /\ [job[e] EXCEPT !.at = w].enter = job[e].enter
    BY <1>a DEF JobType
  <2>5. job' \in [Evaluators -> JobType]
        /\ \A f \in Evaluators : job'[f].at \in Windows => job'[f].at \in job'[f].enter
    BY <1>2, <1>a, <2>1, <2>4 DEF Flip
  <2>6. undone' \subseteq Devices
    BY <1>2, <1>w, <2>1 DEF Flip, AfterFlip
  <2>. QED
    BY <1>2, <1>a, <1>d, <1>w, <2>3, <2>5, <2>6 DEF Flip
<1>3. ASSUME NEW e \in Evaluators, NEW w \in Windows, Mark(e, w) PROVE TypeOK'
  <2>1. PrevStart(w, job[e].now) \in 0..MaxTime
    <3>1. job[e].now \in 0..MaxTime
      BY <1>a DEF JobType
    <3>. QED
      BY <3>1, Previous, Constants
  <2>2. win' \in [Windows -> WinType]
    BY <1>3, <1>a, <2>1 DEF Mark, WinType
  <2>3. job' \in [Evaluators -> JobType]
        /\ \A f \in Evaluators : job'[f].at \in Windows => job'[f].at \in job'[f].enter
    BY <1>3, <1>a, <1>c, Leaving DEF Mark
  <2>4. edited' \subseteq Windows
    BY <1>3, <1>w DEF Mark
  <2>. QED
    BY <1>3, <1>a, <1>d, <1>w, <2>2, <2>3, <2>4 DEF Mark
<1>4. ASSUME NEW e \in Evaluators, NEW w \in Windows, Exit(e, w) PROVE TypeOK'
  <2>1. dev' \in [Devices -> DevType]
        /\ \A d \in Devices : /\ dev'[d].mode <=> dev'[d].by # "none"
                              /\ ~dev'[d].mode => dev'[d].until = Never
    BY <1>4, <1>a, <1>b DEF Exit
  <2>2. job' \in [Evaluators -> JobType]
        /\ \A f \in Evaluators : job'[f].at \in Windows => job'[f].at \in job'[f].enter
    BY <1>4, <1>a, <1>c, Leaving DEF Exit
  <2>3. job[e].scope[w] \subseteq Devices
    BY <1>a DEF JobType
  <2>4. undone' \subseteq Devices
    BY <1>4, <1>w, <2>3 DEF Exit
  <2>. QED
    BY <1>4, <1>a, <1>d, <1>w, <2>1, <2>2, <2>4 DEF Exit
<1>5. ASSUME NEW e \in Evaluators, Cut(e) PROVE TypeOK'
  <2>1. job' \in [Evaluators -> JobType]
        /\ \A f \in Evaluators : job'[f].at \in Windows => job'[f].at \in job'[f].enter
    BY <1>5, <1>a, <1>b, <1>c DEF Cut
  <2>2. faults' \in 0..MaxFaults
    BY <1>5, <1>w, Constants DEF Cut
  <2>. QED
    BY <1>5, <1>a, <1>d, <1>w, <2>1, <2>2 DEF Cut
<1>6. ASSUME NEW d \in Devices, setMaintenance(d) PROVE TypeOK'
  <2>1. CASE SwitchOff(d)
    <3>1. dev' \in [Devices -> DevType]
          /\ \A x \in Devices : /\ dev'[x].mode <=> dev'[x].by # "none"
                                /\ ~dev'[x].mode => dev'[x].until = Never
      BY <1>a, <1>b, <2>1 DEF SwitchOff
    <3>. QED
      BY <1>a, <1>d, <1>s, <1>w, <2>1, <3>1 DEF SwitchOff
  <2>2. ASSUME NEW until \in {Never, clock + 1}, SwitchOn(d, until) PROVE TypeOK'
    <3>1. until \in Slots
      BY <1>a, <2>2, Constants DEF Slots, Never
    <3>2. [mode |-> TRUE, until |-> until, by |-> "operator"] \in DevType
      BY <3>1 DEF DevType
    <3>3. dev' \in [Devices -> DevType]
          /\ \A x \in Devices : /\ dev'[x].mode <=> dev'[x].by # "none"
                                /\ ~dev'[x].mode => dev'[x].until = Never
      BY <1>a, <2>2, <3>2 DEF SwitchOn
    <3>. QED
      BY <1>a, <1>d, <1>s, <1>w, <2>2, <3>3 DEF SwitchOn
  <2>. QED
    BY <1>6, <2>1, <2>2 DEF setMaintenance
<1>7. ASSUME NEW w \in Windows, ToggleWindow(w) PROVE TypeOK'
  <2>1. win' \in [Windows -> WinType]
    BY <1>7, <1>a, ZenonT(60) DEF ToggleWindow, WinType
  <2>. QED
    BY <1>7, <1>a, <1>d, <1>s, <1>w, <2>1 DEF ToggleWindow
<1>8. ASSUME NEW w \in Windows, NEW s \in SUBSET Devices, EditScope(w, s) PROVE TypeOK'
  <2>1. win' \in [Windows -> WinType]
    BY <1>8, <1>a DEF EditScope, WinType
  <2>2. edited' \subseteq Windows
    BY <1>8, <1>w DEF EditScope
  <2>. QED
    BY <1>8, <1>a, <1>d, <1>s, <1>w, <2>1, <2>2 DEF EditScope
<1>9. CASE Advance
  <2>1. clock' \in 0..MaxTime
    BY <1>9, <1>a, Constants DEF Advance
  <2>. QED
    BY <1>9, <1>a, <1>d, <1>w, <2>1 DEF Advance
<1>10. CASE UNCHANGED vars
  BY <1>10 DEF vars, TypeOK
<1>. QED
  BY <1>1, <1>2, <1>3, <1>4, <1>5, <1>6, <1>7, <1>8, <1>9, <1>10 DEF Next, Firing

\* Jobs, flags and records hold on to what the clock has shown.
LEMMA TimesStep ==
  ASSUME MaintenanceAssumption, IInv, [Next]_vars
  PROVE  JobsOK' /\ FlagsOK' /\ EntriesOK'
<1> USE DEF IInv
<1>a. /\ clock \in 0..MaxTime /\ clock \in Nat /\ MaxTime \in Nat
      /\ job \in [Evaluators -> JobType]
      /\ \A e \in Evaluators : job[e].now \in 0..MaxTime /\ job[e].now \in 0..clock
      /\ dev \in [Devices -> DevType] /\ win \in [Windows -> WinType]
      /\ "none" \notin Windows /\ "operator" \notin Windows
  BY Constants DEF TypeOK, JobType, DevType, WinType, JobsOK
<1>i. Idle.now = 0 /\ Idle.enter = {} /\ Idle.exit = {}
  BY DEF Idle
\* Firings that keep or drop what they have read.
<1>j. ASSUME clock <= clock',
             \A e \in Evaluators :
               /\ job'[e].enter \subseteq job[e].enter /\ job'[e].exit \subseteq job[e].exit
               /\ job'[e].now = job[e].now
                  \/ (job'[e].enter = {} /\ job'[e].exit = {} /\ job'[e].now = 0),
             clock' \in Nat
      PROVE  JobsOK'
  BY <1>a, <1>j DEF JobsOK, Inside
<1>f. ASSUME clock' \in Nat, clock <= clock',
             \A d \in Devices : dev'[d].by \in Windows =>
               \/ dev'[d] = dev[d]
               \/ \E t \in 0..clock : Inside(dev'[d].by, t)
                                      /\ dev'[d].until = Clip(PrevEnd(dev'[d].by, t))
      PROVE  FlagsOK'
  BY <1>a, <1>f DEF FlagsOK, ByWindow
<1>e. ASSUME clock' \in Nat, clock <= clock',
             \A w \in Windows : \/ win'[w].lastFired = win[w].lastFired
                               \/ win'[w].lastFired \in 0..clock
      PROVE  EntriesOK'
  <2>1. \A w \in Windows : win[w].lastFired \in Nat
    BY <1>a DEF WinType
  <2>. QED
    BY <1>a, <1>e, <2>1 DEF EntriesOK
<1>l. ASSUME NEW e \in Evaluators, NEW w \in Windows, Left(e, w), clock' = clock PROVE JobsOK'
  <2>1. \A f \in Evaluators :
          /\ job'[f].enter \subseteq job[f].enter /\ job'[f].exit \subseteq job[f].exit
          /\ job'[f].now = job[f].now
             \/ (job'[f].enter = {} /\ job'[f].exit = {} /\ job'[f].now = 0)
    BY <1>l, <1>i, Leaving
  <2>. QED
    BY <1>a, <1>j, <1>l, <2>1
<1>1. ASSUME NEW e \in Evaluators, Tick(e) PROVE JobsOK' /\ FlagsOK' /\ EntriesOK'
  <2>. DEFINE r == [at |-> "next", now |-> clock, enter |-> Entering(clock),
                    exit |-> Exiting(clock),
                    scope |-> [w \in Windows |->
                               IF w \in Entering(clock) \cup Exiting(clock)
                               THEN win[w].scope ELSE {}]]
  <2>1. r.now = clock /\ r.enter = Entering(clock) /\ r.exit = Exiting(clock)
    OBVIOUS
  <2>2. job' = [job EXCEPT ![e] = r] /\ clock' = clock /\ dev' = dev /\ win' = win
    BY <1>1 DEF Tick
  <2>. HIDE DEF r
  <2>3. (\A w \in Entering(clock) : Inside(w, clock)) /\ (\A w \in Exiting(clock) : ~Inside(w, clock))
    BY DEF Entering, Exiting
  <2>4. JobsOK'
    BY <1>a, <2>1, <2>2, <2>3 DEF JobsOK, Inside
  <2>. QED
    BY <1>a, <1>e, <1>f, <2>2, <2>4
<1>2. ASSUME NEW e \in Evaluators, NEW w \in Windows, Flip(e, w)
      PROVE  JobsOK' /\ FlagsOK' /\ EntriesOK'
  <2>1. LET r == [job[e] EXCEPT !.at = w] IN
          r.now = job[e].now /\ r.enter = job[e].enter /\ r.exit = job[e].exit
    BY <1>a DEF JobType
  <2>2. \A f \in Evaluators : /\ job'[f].now = job[f].now /\ job'[f].enter = job[f].enter
                              /\ job'[f].exit = job[f].exit
    BY <1>2, <1>a, <2>1 DEF Flip
  <2>3. clock' = clock /\ win' = win
    BY <1>2 DEF Flip
  <2>4. JobsOK'
    BY <1>a, <1>j, <2>2, <2>3
  <2>5. Inside(w, job[e].now)
    BY <1>2 DEF Flip, JobsOK
  <2>6. ASSUME NEW d \in Devices, dev'[d] # dev[d]
        PROVE  dev'[d].by = w /\ dev'[d].until = Clip(PrevEnd(w, job[e].now))
    BY <1>2, <2>6 DEF Flip
  <2>7. FlagsOK'
    BY <1>a, <1>f, <2>3, <2>5, <2>6
  <2>. QED
    BY <1>a, <1>e, <2>3, <2>4, <2>7
<1>3. ASSUME NEW e \in Evaluators, NEW w \in Windows, Mark(e, w)
      PROVE  JobsOK' /\ FlagsOK' /\ EntriesOK'
  <2>1. clock' = clock /\ dev' = dev /\ Left(e, w)
    BY <1>3 DEF Mark
  <2>2. PrevStart(w, job[e].now) \in 0..clock
    BY <1>a, Previous
  <2>3. \A v \in Windows : win'[v].lastFired = win[v].lastFired
                           \/ win'[v].lastFired = PrevStart(w, job[e].now)
    BY <1>3, <1>a DEF Mark, WinType
  <2>4. EntriesOK'
    BY <1>a, <1>e, <2>1, <2>2, <2>3
  <2>. QED
    BY <1>a, <1>f, <1>l, <2>1, <2>4
<1>4. ASSUME NEW e \in Evaluators, NEW w \in Windows, Exit(e, w)
      PROVE  JobsOK' /\ FlagsOK' /\ EntriesOK'
  <2>1. clock' = clock /\ win' = win /\ Left(e, w)
    BY <1>4 DEF Exit
  <2>2. \A d \in Devices : dev'[d] = dev[d] \/ dev'[d].by = "none"
    BY <1>4 DEF Exit, Off
  <2>. QED
    BY <1>a, <1>e, <1>f, <1>l, <2>1, <2>2
<1>5. ASSUME NEW e \in Evaluators, Cut(e) PROVE JobsOK' /\ FlagsOK' /\ EntriesOK'
  <2>1. \A f \in Evaluators : job'[f] = job[f] \/ job'[f] = Idle
    BY <1>5, <1>a DEF Cut
  <2>2. clock' = clock /\ dev' = dev /\ win' = win
    BY <1>5 DEF Cut
  <2>3. JobsOK'
    BY <1>a, <1>i, <1>j, <2>1, <2>2
  <2>. QED
    BY <1>a, <1>e, <1>f, <2>2, <2>3
<1>6. ASSUME NEW d \in Devices, setMaintenance(d) PROVE JobsOK' /\ FlagsOK' /\ EntriesOK'
  <2>1. clock' = clock /\ win' = win /\ job' = job
    BY <1>6 DEF setMaintenance, SwitchOff, SwitchOn
  <2>2. \A x \in Devices : dev'[x] = dev[x] \/ dev'[x].by \in {"none", "operator"}
    BY <1>6, <1>a DEF setMaintenance, SwitchOff, SwitchOn, Off
  <2>3. JobsOK'
    BY <1>a, <1>j, <2>1
  <2>. QED
    BY <1>a, <1>e, <1>f, <2>1, <2>2, <2>3
<1>7. ASSUME NEW w \in Windows, ToggleWindow(w) \/ \E s \in SUBSET Devices : EditScope(w, s)
      PROVE JobsOK' /\ FlagsOK' /\ EntriesOK'
  <2>1. clock' = clock /\ dev' = dev /\ job' = job
    BY <1>7 DEF ToggleWindow, EditScope
  <2>2. \A v \in Windows : win'[v].lastFired = win[v].lastFired
    BY <1>7, <1>a DEF ToggleWindow, EditScope, WinType
  <2>3. JobsOK'
    BY <1>a, <1>j, <2>1
  <2>. QED
    BY <1>a, <1>e, <1>f, <2>1, <2>2, <2>3
<1>8. CASE Advance
  <2>1. clock' = clock + 1 /\ dev' = dev /\ job' = job /\ win' = win
    BY <1>8 DEF Advance
  <2>2. JobsOK'
    BY <1>a, <1>j, <2>1
  <2>. QED
    BY <1>a, <1>e, <1>f, <2>1, <2>2
<1>9. CASE UNCHANGED vars
  BY <1>9 DEF vars, JobsOK, FlagsOK, EntriesOK, ByWindow, Inside
<1>. QED
  BY <1>1, <1>2, <1>3, <1>4, <1>5, <1>6, <1>7, <1>8, <1>9 DEF Next, Firing

\* A claim outlives every step that does not touch its device, and the clock.
LEMMA ClaimsStay ==
  ASSUME MaintenanceAssumption, IInv, [Next]_vars, NEW d \in Devices, NEW w \in Windows,
         Claimed(d, w), PrevStart(w, clock') = PrevStart(w, clock)
  PROVE  Claimed(d, w)'
<1> USE DEF IInv
<1>a. /\ dev \in [Devices -> DevType] /\ job \in [Evaluators -> JobType]
      /\ "none" \notin Windows /\ "operator" \notin Windows
  BY Constants DEF TypeOK, DevType, JobType
<1>e. PrevEnd(w, clock') = PrevEnd(w, clock)
  BY DEF PrevEnd
<1>s. ASSUME dev'[d] = dev[d], d \in undone => d \in undone' PROVE Claimed(d, w)'
  BY <1>e, <1>s DEF Claimed
<1>1. ASSUME NEW e \in Evaluators, NEW v \in Windows, Flip(e, v) PROVE Claimed(d, w)'
  <2>1. CASE d \notin job[e].scope[v]
    <3>1. dev'[d] = dev[d] /\ (d \in undone => d \in undone')
      BY <1>1, <2>1 DEF Flip, AfterFlip
    <3>. QED
      BY <1>s, <3>1
  <2>2. CASE d \in job[e].scope[v]
    <3>1. dev'[d].by = v /\ dev'[d].until = Clip(PrevEnd(v, job[e].now)) /\ clock' = clock
      BY <1>1, <2>2 DEF Flip
    <3>2. CASE v # w
      BY <1>a, <3>1, <3>2 DEF Claimed
    <3>3. CASE v = w /\ PrevStart(v, job[e].now) # PrevStart(v, clock)
      <4>1. d \in undone'
        BY <1>1, <2>2, <3>3 DEF Flip, AfterFlip
      <4>. QED
        BY <4>1 DEF Claimed
    <3>4. CASE v = w /\ PrevStart(v, job[e].now) = PrevStart(v, clock)
      BY <3>1, <3>4 DEF Claimed, PrevEnd
    <3>. QED
      BY <3>2, <3>3, <3>4
  <2>. QED
    BY <2>1, <2>2
<1>2. ASSUME NEW e \in Evaluators, NEW v \in Windows, Exit(e, v) PROVE Claimed(d, w)'
  <2>1. \/ d \in undone'
        \/ dev'[d] = dev[d] /\ (d \in undone => d \in undone')
    BY <1>2 DEF Exit
  <2>2. CASE d \in undone'
    BY <2>2 DEF Claimed
  <2>. QED
    BY <1>s, <2>1, <2>2
<1>3. ASSUME NEW x \in Devices, setMaintenance(x) PROVE Claimed(d, w)'
  <2>1. CASE x # d
    <3>1. dev'[d] = dev[d] /\ (d \in undone => d \in undone')
      BY <1>3, <1>a, <2>1 DEF setMaintenance, SwitchOn, SwitchOff
    <3>. QED
      BY <1>s, <3>1
  <2>2. CASE x = d
    <3>1. d \in undone' \/ dev'[d].by = "operator"
      BY <1>3, <1>a, <2>2 DEF setMaintenance, SwitchOn, SwitchOff
    <3>. QED
      BY <1>a, <3>1 DEF Claimed
  <2>. QED
    BY <2>1, <2>2
<1>4. ASSUME dev' = dev, undone' = undone PROVE Claimed(d, w)'
  BY <1>4, <1>s
<1>5. ASSUME NEW e \in Evaluators, Tick(e) \/ Cut(e) \/ \E v \in Windows : Mark(e, v)
      PROVE  Claimed(d, w)'
  BY <1>4, <1>5 DEF Tick, Cut, Mark
<1>6. ASSUME NEW v \in Windows, ToggleWindow(v) \/ \E s \in SUBSET Devices : EditScope(v, s)
      PROVE  Claimed(d, w)'
  BY <1>4, <1>6 DEF ToggleWindow, EditScope
<1>7. CASE Advance \/ UNCHANGED vars
  BY <1>4, <1>7 DEF Advance, vars
<1>. QED
  BY <1>1, <1>2, <1>3, <1>5, <1>6, <1>7 DEF Next, Firing

\* The clock's steps.
LEMMA Ticking ==
  ASSUME [Next]_vars
  PROVE  clock' = clock \/ Advance
<1>1. ASSUME NEW e \in Evaluators, Firing(e) \/ Cut(e) PROVE clock' = clock
  BY <1>1 DEF Firing, Tick, Flip, Mark, Exit, Cut
<1>2. ASSUME NEW d \in Devices, setMaintenance(d) PROVE clock' = clock
  BY <1>2 DEF setMaintenance, SwitchOn, SwitchOff
<1>. QED
  BY <1>1, <1>2 DEF Next, ToggleWindow, EditScope, vars

LEMMA PendingStep ==
  ASSUME MaintenanceAssumption, IInv, [Next]_vars
  PROVE  PendingOK'
<1> USE DEF IInv
<1>a. /\ clock \in 0..MaxTime /\ MaxTime \in Nat
      /\ job \in [Evaluators -> JobType]
      /\ \A e \in Evaluators : job[e].now \in 0..clock /\ job[e].now \in 0..MaxTime
      /\ "idle" \notin Windows /\ "next" \notin Windows
  BY Constants DEF TypeOK, JobType, JobsOK
\* A firing that was about to record the entry, in a slot of the same occurrence.
<1>o. ASSUME NEW e \in Evaluators, NEW w \in Windows, NEW d \in job[e].scope[w],
             job[e].at = w, PrevStart(w, job[e].now) = PrevStart(w, clock')
      PROVE  Claimed(d, w)'
  <2>1. d \in Devices
    BY <1>a, <1>o DEF JobType
  <2>2. PrevStart(w, clock) = PrevStart(w, clock')
    <3>1. CASE clock' = clock
      BY <3>1
    <3>2. CASE Advance
      <4>1. clock' \in 0..MaxTime /\ clock <= clock' /\ job[e].now <= clock
        BY <1>a, <3>2 DEF Advance
      <4>2. PrevStart(w, clock') <= clock
        BY <1>a, <1>o, <4>1, Previous
      <4>. QED
        BY <1>a, <4>1, <4>2, Later
    <3>. QED
      BY <3>1, <3>2, Ticking
  <2>3. Claimed(d, w)
    BY <1>o, <2>2 DEF PendingOK
  <2>. QED
    BY <2>1, <2>2, <2>3, ClaimsStay
<1>p. ASSUME NEW e \in Evaluators, job'[e] = job[e]
      PROVE  \A w \in Windows : \A d \in job'[e].scope[w] :
               job'[e].at = w /\ PrevStart(w, job'[e].now) = PrevStart(w, clock')
                 => Claimed(d, w)'
  BY <1>o, <1>p
<1>q. ASSUME \A e \in Evaluators : job'[e] = job[e] \/ job'[e].at \in {"idle", "next"}
      PROVE  PendingOK'
  BY <1>a, <1>p, <1>q DEF PendingOK
<1>1. ASSUME NEW e \in Evaluators, NEW w \in Windows, Flip(e, w) PROVE PendingOK'
  <2>1. LET r == [job[e] EXCEPT !.at = w] IN
          r.at = w /\ r.now = job[e].now /\ r.scope = job[e].scope
    BY <1>a DEF JobType
  <2>2. /\ job'[e].at = w /\ job'[e].now = job[e].now /\ job'[e].scope = job[e].scope
        /\ \A f \in Evaluators : f # e => job'[f] = job[f]
        /\ clock' = clock
    BY <1>1, <1>a, <2>1 DEF Flip
  <2>3. ASSUME NEW d \in job[e].scope[w], PrevStart(w, job[e].now) = PrevStart(w, clock)
        PROVE  Claimed(d, w)'
    <3>1. d \in Devices
      BY <1>a, <2>3 DEF JobType
    <3>2. dev'[d].by = w /\ dev'[d].until = Clip(PrevEnd(w, job[e].now))
      BY <1>1, <2>3, <3>1 DEF Flip
    <3>. QED
      BY <2>2, <2>3, <3>2 DEF Claimed, PrevEnd
  <2>4. \A v \in Windows : \A d \in job'[e].scope[v] :
          job'[e].at = v /\ PrevStart(v, job'[e].now) = PrevStart(v, clock')
            => Claimed(d, v)'
    BY <2>2, <2>3
  <2>. QED
    BY <1>p, <2>2, <2>4 DEF PendingOK
<1>2. ASSUME NEW e \in Evaluators, NEW w \in Windows, Mark(e, w) \/ Exit(e, w) PROVE PendingOK'
  <2>1. Left(e, w)
    BY <1>2 DEF Mark, Exit
  <2>. QED
    BY <1>q, <2>1, Leaving
<1>3. ASSUME NEW e \in Evaluators, Tick(e) PROVE PendingOK'
  BY <1>3, <1>a, <1>q DEF Tick
<1>4. ASSUME NEW e \in Evaluators, Cut(e) PROVE PendingOK'
  <2>1. Idle.at = "idle"
    BY DEF Idle
  <2>. QED
    BY <1>4, <1>a, <1>q, <2>1 DEF Cut
<1>5. ASSUME job' = job PROVE PendingOK'
  BY <1>5, <1>q
<1>6. ASSUME NEW d \in Devices, setMaintenance(d) PROVE PendingOK'
  BY <1>5, <1>6 DEF setMaintenance, SwitchOn, SwitchOff
<1>. QED
  BY <1>1, <1>2, <1>3, <1>4, <1>5, <1>6 DEF Next, Firing, ToggleWindow, EditScope, Advance, vars

LEMMA RecordedStep ==
  ASSUME MaintenanceAssumption, IInv, [Next]_vars
  PROVE  RecordedOK'
<1> USE DEF IInv
<1>a. /\ clock \in 0..MaxTime /\ MaxTime \in Nat
      /\ win \in [Windows -> WinType] /\ job \in [Evaluators -> JobType]
      /\ \A e \in Evaluators : job[e].now \in 0..clock /\ job[e].now \in 0..MaxTime
      /\ \A w \in Windows : win[w].lastFired \in Nat /\ win[w].lastFired <= clock
                            /\ win[w].scope \subseteq Devices
  BY Constants DEF TypeOK, WinType, JobType, JobsOK, EntriesOK
\* A window that keeps its record and its scope.
<1>o. ASSUME NEW w \in Windows, win'[w].lastFired = win[w].lastFired,
             win'[w].scope = win[w].scope, w \in edited => w \in edited'
      PROVE  \A d \in win'[w].scope : FiredFor(w, clock)' /\ w \notin edited' => Claimed(d, w)'
  <2>. SUFFICES ASSUME NEW d \in win[w].scope, FiredFor(w, clock)', w \notin edited'
                PROVE  Claimed(d, w)'
    BY <1>o
  <2>1. d \in Devices
    BY <1>a
  <2>2. win[w].lastFired # Never /\ win[w].lastFired = PrevStart(w, clock')
    BY <1>o DEF FiredFor
  <2>3. PrevStart(w, clock') = PrevStart(w, clock)
    <3>1. CASE clock' = clock
      BY <3>1
    <3>2. CASE Advance
      <4>1. clock' \in 0..MaxTime /\ clock <= clock'
        BY <1>a, <3>2 DEF Advance
      <4>2. PrevStart(w, clock') <= clock
        BY <1>a, <2>2
      <4>. QED
        BY <1>a, <4>1, <4>2, Later
    <3>. QED
      BY <3>1, <3>2, Ticking
  <2>4. FiredFor(w, clock) /\ w \notin edited
    BY <1>o, <2>2, <2>3 DEF FiredFor
  <2>5. Claimed(d, w)
    BY <2>4 DEF RecordedOK
  <2>. QED
    BY <2>1, <2>3, <2>5, ClaimsStay
<1>q. ASSUME win' = win, edited' = edited PROVE RecordedOK'
  <2>1. ASSUME NEW w \in Windows
        PROVE  \A d \in win'[w].scope : FiredFor(w, clock)' /\ w \notin edited' => Claimed(d, w)'
    BY <1>o, <1>q
  <2>. QED
    BY <2>1 DEF RecordedOK
<1>1. ASSUME NEW e \in Evaluators, NEW w \in Windows, Mark(e, w) PROVE RecordedOK'
  <2>1. /\ win'[w].lastFired = PrevStart(w, job[e].now) /\ win'[w].scope = win[w].scope
        /\ \A v \in Windows : v # w => win'[v] = win[v] /\ (v \in edited => v \in edited')
        /\ edited' = IF win[w].scope = job[e].scope[w] THEN edited \ {w} ELSE edited \cup {w}
        /\ job[e].at = w /\ clock' = clock
    BY <1>1, <1>a DEF Mark, WinType
  <2>2. ASSUME NEW d \in win'[w].scope, FiredFor(w, clock)', w \notin edited'
        PROVE  Claimed(d, w)'
    <3>1. win[w].scope = job[e].scope[w] /\ d \in job[e].scope[w] /\ d \in Devices
      BY <1>a, <2>1, <2>2
    <3>2. PrevStart(w, job[e].now) = PrevStart(w, clock)
      BY <2>1, <2>2 DEF FiredFor
    <3>3. Claimed(d, w)
      BY <2>1, <3>1, <3>2 DEF PendingOK
    <3>. QED
      BY <2>1, <3>1, <3>3, ClaimsStay
  <2>3. ASSUME NEW v \in Windows, v # w
        PROVE  \A d \in win'[v].scope : FiredFor(v, clock)' /\ v \notin edited' => Claimed(d, v)'
    BY <1>o, <2>1, <2>3
  <2>. QED
    BY <2>2, <2>3 DEF RecordedOK
<1>2. ASSUME NEW w \in Windows, ToggleWindow(w) PROVE RecordedOK'
  <2>1. \A v \in Windows : win'[v].lastFired = win[v].lastFired /\ win'[v].scope = win[v].scope
    BY <1>2, <1>a DEF ToggleWindow, WinType
  <2>2. edited' = edited
    BY <1>2 DEF ToggleWindow
  <2>. QED
    BY <1>o, <2>1, <2>2 DEF RecordedOK
<1>3. ASSUME NEW w \in Windows, NEW s \in SUBSET Devices, EditScope(w, s) PROVE RecordedOK'
  <2>1. \A v \in Windows : v # w => win'[v] = win[v]
    BY <1>3, <1>a DEF EditScope
  <2>2. edited' = edited \cup {w}
    BY <1>3 DEF EditScope
  <2>3. ASSUME NEW v \in Windows
        PROVE  \A d \in win'[v].scope : FiredFor(v, clock)' /\ v \notin edited' => Claimed(d, v)'
    <3>1. CASE v = w
      BY <2>2, <3>1
    <3>2. CASE v # w
      BY <1>o, <2>1, <2>2, <3>2
    <3>. QED
      BY <3>1, <3>2
  <2>. QED
    BY <2>3 DEF RecordedOK
<1>4. ASSUME NEW e \in Evaluators, Tick(e) \/ Cut(e) \/ \E w \in Windows : Flip(e, w) \/ Exit(e, w)
      PROVE  RecordedOK'
  BY <1>4, <1>q DEF Tick, Cut, Flip, Exit
<1>5. ASSUME NEW d \in Devices, setMaintenance(d) PROVE RecordedOK'
  BY <1>5, <1>q DEF setMaintenance, SwitchOn, SwitchOff
<1>6. CASE Advance \/ UNCHANGED vars
  BY <1>6, <1>q DEF Advance, vars
<1>. QED
  BY <1>1, <1>2, <1>3, <1>4, <1>5, <1>6 DEF Next, Firing

LEMMA Inductive == MaintenanceAssumption /\ IInv /\ [Next]_vars => IInv'
<1> SUFFICES ASSUME MaintenanceAssumption, IInv, [Next]_vars PROVE IInv'
  OBVIOUS
<1>1. TypeOK'
  BY TypeStep DEF IInv
<1>2. JobsOK' /\ FlagsOK' /\ EntriesOK'
  BY TimesStep
<1>3. RecordedOK' /\ PendingOK'
  BY RecordedStep, PendingStep
<1>. QED
  BY <1>1, <1>2, <1>3 DEF IInv

-----------------------------------------------------------------------------
(* The theorems.                                                           *)

\* Every reachable state satisfies the strengthened invariant: flags, windows
\* and what firings of the evaluator remember fit together.
THEOREM Invariance == ASSUME MaintenanceAssumption PROVE Spec => []IInv
<1>1. Init => IInv
  BY Initially
<1>2. IInv /\ [Next]_vars => IInv'
  BY Inductive
<1>. QED
  BY <1>1, <1>2, PTL DEF Spec

\* Type correctness: in particular the flag, its date and its setter are always
\* written and cleared together (lib/maintenance.ts:30, route.ts:63,119).
THEOREM TypeCorrect == ASSUME MaintenanceAssumption PROVE Spec => []TypeOK
<1>1. IInv => TypeOK
  BY DEF IInv
<1>. QED
  BY <1>1, Invariance, PTL

\* A window that has recorded an entry holds its devices while it lasts,
\* unless someone else has written them since, however firings overlap or are
\* cut short (app/api/cron/maintenance-window-eval/route.ts:61-91).
THEOREM Held == ASSUME MaintenanceAssumption PROVE Spec => []EnteredMeansHeld
<1>1. IInv => EnteredMeansHeld
  <2>. SUFFICES ASSUME IInv, NEW w \in Windows, NEW d \in win[w].scope,
                       Inside(w, clock), FiredFor(w, clock), w \notin edited,
                       dev[d].by \in {w, "none"}, d \notin undone
                PROVE  dev[d].by = w /\ isInMaintenance(d)
    BY DEF EnteredMeansHeld
  <2>1. dev[d].by = w /\ dev[d].until = Clip(PrevEnd(w, clock))
    BY DEF IInv, RecordedOK, Claimed
  <2>2. d \in Devices /\ clock \in 0..MaxTime
    BY DEF IInv, TypeOK
  <2>3. dev[d].mode
    BY <2>1, <2>2, Constants DEF IInv, TypeOK
  <2>4. clock < dev[d].until
    BY <2>1, <2>2, Ends DEF Inside
  <2>. QED
    BY <2>1, <2>3, <2>4 DEF isInMaintenance
<1>. QED
  BY <1>1, Invariance, PTL

\* A flag an operator has set is cleared by an operator only (route.ts:122).
THEOREM OperatorStands == ASSUME MaintenanceAssumption PROVE Spec => OperatorFlagStands
<1>1. IInv /\ [Next]_vars =>
        [\A d \in Devices :
           (dev[d].by = "operator" /\ dev'[d].by # "operator") =>
              \/ switches' # switches
              \/ dev'[d].by \in Windows]_vars
  <2>. SUFFICES ASSUME IInv, Next, NEW d \in Devices,
                       dev[d].by = "operator", dev'[d].by # "operator"
                PROVE  switches' # switches \/ dev'[d].by \in Windows
    OBVIOUS
  <2>a. dev \in [Devices -> DevType] /\ switches \in Nat /\ "operator" \notin Windows
    BY Constants DEF IInv, TypeOK, DevType
  <2>1. ASSUME NEW e \in Evaluators, NEW w \in Windows, Flip(e, w)
        PROVE  dev'[d].by \in Windows
    BY <2>1 DEF Flip
  <2>2. ASSUME NEW e \in Evaluators, NEW w \in Windows, Exit(e, w)
        PROVE  FALSE
    BY <2>2, <2>a DEF Exit, ByWindow
  <2>3. ASSUME NEW x \in Devices, setMaintenance(x) PROVE switches' # switches
    BY <2>3, <2>a DEF setMaintenance, SwitchOn, SwitchOff, Switch
  <2>. QED
    BY <2>1, <2>2, <2>3
       DEF Next, Firing, Tick, Mark, Cut, ToggleWindow, EditScope, Advance
<1>. QED
  BY <1>1, Invariance, PTL DEF Spec, OperatorFlagStands

\* What a window has set is not flipped back before its end, but by an
\* operator, by another window, or by a firing that is late (route.ts:114-131).
THEOREM DueRelease == ASSUME MaintenanceAssumption PROVE Spec => ReleaseIsDue
<1>. DEFINE Due(d) ==
       \/ switches' # switches
       \/ dev[d].until <= clock
       \/ \E e \in Evaluators : job[e].now < clock /\ job'[e] # job[e]
       \/ \E e \in Evaluators : job[e].exit \ job'[e].exit \notin {{}, {dev[d].by}}
<1>1. IInv /\ [Next]_vars => [\A d \in Devices : (ByWindow(d) /\ ~dev'[d].mode) => Due(d)]_vars
  <2>. SUFFICES ASSUME IInv, Next, NEW d \in Devices, ByWindow(d), ~dev'[d].mode
                PROVE  Due(d)
    OBVIOUS
  <2>a. /\ dev \in [Devices -> DevType] /\ switches \in Nat /\ "none" \notin Windows
        /\ clock \in 0..MaxTime /\ MaxTime \in Nat
        /\ \A e \in Evaluators : job[e].now \in 0..clock
        /\ job \in [Evaluators -> JobType]
    BY Constants DEF IInv, TypeOK, DevType, JobType, JobsOK
  <2>b. dev[d].mode
    BY <2>a DEF IInv, TypeOK, ByWindow
  <2>1. ASSUME NEW e \in Evaluators, NEW w \in Windows, Flip(e, w) PROVE FALSE
    BY <2>1, <2>b DEF Flip
  <2>2. ASSUME NEW e \in Evaluators, NEW w \in Windows, Exit(e, w) PROVE Due(d)
    <3>1. w \in job[e].exit /\ job'[e].exit = job[e].exit \ {w} /\ job'[e] # job[e]
      BY <2>2, Leaving DEF Exit, IInv
    <3>2. job[e].exit \ job'[e].exit = {w}
      BY <3>1
    <3>3. CASE w # dev[d].by
      BY <3>2, <3>3
    <3>4. CASE w = dev[d].by /\ job[e].now < clock
      BY <3>1, <3>4
    <3>5. CASE w = dev[d].by /\ job[e].now = clock
      <4>1. ~Inside(w, clock)
        BY <3>1, <3>5 DEF IInv, JobsOK
      <4>2. PICK t \in 0..clock : Inside(w, t) /\ dev[d].until = Clip(PrevEnd(w, t))
        BY <3>5 DEF IInv, FlagsOK
      <4>3. t \in 0..MaxTime /\ clock \in 0..MaxTime /\ t <= clock
        BY <2>a
      <4>4. PrevStart(w, t) # Never /\ PrevStart(w, t) <= PrevStart(w, clock)
        BY <4>2, <4>3, Later DEF Inside
      <4>5. PrevStart(w, clock) \in Nat /\ PrevStart(w, t) \in Nat /\ Length[w] \in Nat
        BY <4>3, Previous, Constants
      <4>6. PrevStart(w, clock) # Never
        BY <4>4, <4>5 DEF Never
      <4>7. PrevEnd(w, clock) <= clock /\ PrevEnd(w, t) <= PrevEnd(w, clock)
        BY <2>a, <4>1, <4>4, <4>5, <4>6 DEF Inside, PrevEnd
      <4>8. dev[d].until <= PrevEnd(w, t) /\ dev[d].until \in Nat /\ PrevEnd(w, t) \in Nat
            /\ PrevEnd(w, clock) \in Nat
        BY <2>a, <4>2, <4>3, Ends DEF Slots, Never
      <4>9. dev[d].until <= clock
        BY <2>a, <4>7, <4>8
      <4>. QED
        BY <4>9
    <3>. QED
      BY <2>a, <3>3, <3>4, <3>5
  <2>3. ASSUME NEW x \in Devices, setMaintenance(x) PROVE Due(d)
    BY <2>3, <2>a DEF setMaintenance, SwitchOn, SwitchOff, Switch
  <2>4. dev' # dev
    BY <2>b
  <2>. QED
    BY <2>1, <2>2, <2>3, <2>4
       DEF Next, Firing, Tick, Mark, Cut, ToggleWindow, EditScope, Advance
<1>. QED
  BY <1>1, Invariance, PTL DEF Spec, ReleaseIsDue
=============================================================================
