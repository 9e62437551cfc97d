----------------------------- MODULE RunbookProofs -----------------------------
(***************************************************************************)
(* Proofs about a runbook, for any alerts, modes, handlers, limits, rows   *)
(* and faults: every safety property of Runbook.tla.                       *)
(***************************************************************************)
EXTENDS Runbook, FiniteSetTheorems, SequenceTheorems, WellFoundedInduction, TLAPS

(* The inductive invariant.                                                *)

\* Where a handler stands: in the evaluator, at the rows of the fire cron, at
\* the rows of the watcher.
EvaluatorSteps == {"cooldown", "count", "schedule", "skip"}
FireSteps == {"open", "clear", "bar", "run", "fired"}
WatchSteps == {"decide", "dryFailed", "reject", "enqueue", "enqueued", "settle"}

ListingType == UNION {[D -> [run : 0..MaxRuns, dry : BOOLEAN]] : D \in SUBSET (1..MaxFires)}

WorkerType == [pc : Steps, alert : Alerts \cup {None}, edge : Nat, hour : Nat,
               todo : SUBSET (1..MaxFires), listed : ListingType, row : 0..MaxFires,
               run : 0..MaxRuns, ok : BOOLEAN, check : BOOLEAN, closed : SUBSET Alerts]

\* A run that is ok is one that has been.
KnownRunType == {run \in RunType : run.state = "ok" => run.wasOk}

\* Run n of rs is one that was made for fire f, dry if it should be.
MadeFor(rs, n, f, dry) == n \in DOMAIN rs /\ rs[n].fire = f /\ (dry => rs[n].dry)

WasOk(rs, f) == \E n \in DOMAIN rs : rs[n].fire = f /\ rs[n].wasOk
DryWasOk(rs, f) == \E n \in DOMAIN rs : rs[n].fire = f /\ rs[n].wasOk /\ rs[n].dry

\* The rows a handler still visits, and the one it is at.
Rows(r) == r.todo \cup ({r.row} \ {0})

\* Each row the watcher still visits was listed with a run of its own.
ListedOK(r, rs) ==
  \A f \in r.todo : /\ f \in DOMAIN r.listed
                    /\ MadeFor(rs, r.listed[f].run, f, r.listed[f].dry)

\* What the locals r of a handler say of the fires fs and the runs rs.
LocalOK(r, fs, rs) ==
  /\ r \in WorkerType
  /\ \A f \in Rows(r) : f \in DOMAIN fs /\ fs[f].state # "skipped-cooldown"
  /\ r.run \in 0..Len(rs)
  /\ r.pc = "idle" => r = Idle
  /\ r.pc \in EvaluatorSteps => r.alert \in Alerts
  /\ r.pc \in FireSteps \cup WatchSteps \cup {"fire", "watch", "check"} => r.alert = None
  /\ r.pc \notin FireSteps \cup WatchSteps => r.row = 0
  /\ r.pc \in FireSteps \cup WatchSteps => r.row # 0
  /\ r.pc \in {"fire", "watch"} => r.todo # {}
  /\ r.pc = "fired" => MadeFor(rs, r.run, r.row, willDryRun)
  /\ r.pc = "enqueued" => MadeFor(rs, r.run, r.row, FALSE)
  /\ r.pc \in WatchSteps \cup {"watch"} => ListedOK(r, rs) /\ r.closed = {}
  /\ r.pc \in {"decide", "enqueue"} => DryWasOk(rs, r.row)
  /\ r.pc = "settle" /\ r.ok => WasOk(rs, r.row)
  /\ r.pc \in {"open", "run"} => fs[r.row].alert \notin r.closed

LocalsOK == \A w \in Workers : LocalOK(worker[w], fires, runs)

\* A fire that runs points to a run of its own, a dry one for a dry run; one that
\* succeeded had a run that was ok.
FireOK(row, f, rs) ==
  /\ row.state = "dry-run" => MadeFor(rs, row.dry, f, TRUE)
  /\ row.state = "running" => MadeFor(rs, row.real, f, FALSE)
  /\ row.state = "succeeded" => WasOk(rs, f)

FiresOK == \A f \in DOMAIN fires : FireOK(fires[f], f, runs)

\* Every evaluator under way has a row left for the fire it will write.
Evaluating == {v \in Workers : worker[v].alert # None}
RoomOK == Len(fires) + Cardinality(Evaluating) <= MaxFires

\* A handler that has been off all along is no evaluator and on its way to
\* no run.
MayBeOff(r) == r.alert = None /\ r.pc \notin {"idle", "run", "enqueue"}

\* While there is such a handler the runbook is off; and the alerts that
\* were closed when a handler began still are.
OffOK ==
  /\ off # {} => Off
  /\ \A w \in off : MayBeOff(worker[w])
  /\ \A w \in Workers : \A a \in worker[w].closed : alertState[a] = "closed"

ScalarsOK ==
  /\ mode \in Mode
  /\ isActive \in BOOLEAN /\ isTripped \in BOOLEAN /\ unchecked \in BOOLEAN
  /\ alertState \in [Alerts -> {"none", "open", "closed"}]
  /\ fires \in Seq(FireType) /\ runs \in Seq(KnownRunType) /\ Len(runs) <= MaxRuns
  /\ worker \in [Workers -> WorkerType]
  /\ faults \in 0..MaxFaults
  /\ off \in SUBSET Workers

IInv ==
  /\ ScalarsOK
  /\ LocalsOK
  /\ FiresOK
  /\ RealRunFollowsDryRun
  /\ RoomOK
  /\ OffOK

-----------------------------------------------------------------------------
(* Constants, and what the locals keep when rows are added and written.    *)

LEMMA Constants ==
  ASSUME RunbookAssumption
  PROVE  /\ MaxFires \in Nat /\ MaxRuns \in Nat /\ MaxFaults \in Nat
         /\ MaxFiresPerHour \in Nat /\ MaxConsecutiveFailures \in Nat
         /\ IsFiniteSet(Workers) /\ None \notin Alerts /\ Modes \subseteq Mode
BY DEF RunbookAssumption

LEMMA IdleType == ASSUME RunbookAssumption PROVE Idle \in WorkerType
<1>1. <<>> \in [{} -> [run : 0..MaxRuns, dry : BOOLEAN]]
  OBVIOUS
<1>2. <<>> \in ListingType
  BY <1>1 DEF ListingType
<1>. QED
  BY <1>2, Constants DEF Idle, WorkerType, Steps

\* fs2 has the fires of fs, for the same alerts, and no other of them was
\* skipped for the cooldown.
Keeps(fs, fs2) ==
  /\ DOMAIN fs \subseteq DOMAIN fs2
  /\ \A f \in DOMAIN fs :
       /\ fs2[f].alert = fs[f].alert
       /\ (fs2[f].state = "skipped-cooldown") <=> (fs[f].state = "skipped-cooldown")

\* rs2 has the runs of rs, for the same fires, and what was ok still is.
Extends(rs, rs2) ==
  /\ DOMAIN rs \subseteq DOMAIN rs2 /\ Len(rs) \in Nat /\ Len(rs2) \in Nat /\ Len(rs) <= Len(rs2)
  /\ \A n \in DOMAIN rs :
       /\ rs2[n].fire = rs[n].fire /\ rs2[n].dry = rs[n].dry
       /\ rs[n].wasOk => rs2[n].wasOk

LEMMA RunsKept ==
  ASSUME NEW rs, NEW rs2, Extends(rs, rs2)
  PROVE  /\ \A n, f, dry : MadeFor(rs, n, f, dry) => MadeFor(rs2, n, f, dry)
         /\ \A f : WasOk(rs, f) => WasOk(rs2, f)
         /\ \A f : DryWasOk(rs, f) => DryWasOk(rs2, f)
<1>1. \A n, f, dry : MadeFor(rs, n, f, dry) => MadeFor(rs2, n, f, dry)
  BY DEF MadeFor, Extends
<1>2. \A f : WasOk(rs, f) => WasOk(rs2, f)
  BY DEF WasOk, Extends
<1>3. \A f : DryWasOk(rs, f) => DryWasOk(rs2, f)
  BY DEF DryWasOk, Extends
<1>. QED
  BY <1>1, <1>2, <1>3

LEMMA LocalKept ==
  ASSUME NEW r, NEW fs, NEW fs2, NEW rs, NEW rs2, Keeps(fs, fs2), Extends(rs, rs2),
         LocalOK(r, fs, rs)
  PROVE  LocalOK(r, fs2, rs2)
<1>1. r \in WorkerType /\ (r.pc = "idle" => r = Idle)
  BY DEF LocalOK
<1>2. \A f \in Rows(r) : f \in DOMAIN fs2 /\ fs2[f].state # "skipped-cooldown"
  BY DEF LocalOK, Keeps
<1>3. r.run \in 0..Len(rs2)
  BY DEF LocalOK, Extends
<1>4. /\ r.pc \in EvaluatorSteps => r.alert \in Alerts
      /\ r.pc \in FireSteps \cup WatchSteps \cup {"fire", "watch", "check"} => r.alert = None
      /\ r.pc \notin FireSteps \cup WatchSteps => r.row = 0
      /\ r.pc \in FireSteps \cup WatchSteps => r.row # 0
      /\ r.pc \in {"fire", "watch"} => r.todo # {}
  BY DEF LocalOK
<1>5. /\ r.pc = "fired" => MadeFor(rs2, r.run, r.row, willDryRun)
      /\ r.pc = "enqueued" => MadeFor(rs2, r.run, r.row, FALSE)
      /\ r.pc \in {"decide", "enqueue"} => DryWasOk(rs2, r.row)
      /\ r.pc = "settle" /\ r.ok => WasOk(rs2, r.row)
  BY RunsKept DEF LocalOK
<1>6. r.pc \in WatchSteps \cup {"watch"} => ListedOK(r, rs2) /\ r.closed = {}
  BY RunsKept DEF LocalOK, ListedOK
<1>7. r.pc \in {"open", "run"} => fs2[r.row].alert \notin r.closed
  <2>. SUFFICES ASSUME r.pc \in {"open", "run"} PROVE fs2[r.row].alert \notin r.closed
    OBVIOUS
  <2>1. r.row \in Rows(r) /\ fs[r.row].alert \notin r.closed
    BY DEF LocalOK, FireSteps, Rows
  <2>2. r.row \in DOMAIN fs
    BY <2>1 DEF LocalOK
  <2>. QED
    BY <2>1, <2>2 DEF Keeps
<1>. QED
  BY <1>1, <1>2, <1>3, <1>4, <1>5, <1>6, <1>7 DEF LocalOK

-----------------------------------------------------------------------------
(* One handler moves.                                                      *)

\* Room is left when an evaluator ends as it adds its fire, and when none begins.
LEMMA RoomKept ==
  ASSUME RunbookAssumption, IInv, NEW w \in Workers, NEW r \in WorkerType, Become(w, r),
         Len(fires') \in Nat,
         \/ Len(fires') = Len(fires) /\ (r.alert # None => worker[w].alert # None)
         \/ Len(fires') = Len(fires) + 1 /\ r.alert = None /\ worker[w].alert # None
         \/ /\ Len(fires') = Len(fires) /\ worker[w].alert = None
            /\ Len(fires) + Cardinality(Evaluating) < MaxFires
  PROVE  RoomOK'
<1>. DEFINE now == {v \in Workers : worker'[v].alert # None}
<1>0. /\ IsFiniteSet(Workers) /\ MaxFires \in Nat /\ worker \in [Workers -> WorkerType]
      /\ Len(fires) \in Nat /\ fires \in Seq(FireType)
  BY Constants DEF IInv, ScalarsOK
<1>1. worker'[w] = r /\ \A v \in Workers : v # w => worker'[v] = worker[v]
  BY <1>0 DEF Become
<1>2. now \subseteq Evaluating \cup {w} /\ now \ {w} = Evaluating \ {w}
  BY <1>1 DEF Evaluating
<1>3. IsFiniteSet(Evaluating) /\ IsFiniteSet(now) /\ IsFiniteSet(Evaluating \cup {w})
  BY <1>0, FS_Subset DEF Evaluating
<1>4. Cardinality(Evaluating) \in Nat /\ Cardinality(now) \in Nat
  BY <1>3, FS_CardinalityType
<1>5. RoomOK
  BY DEF IInv
<1>6. CASE Len(fires') = Len(fires) /\ (r.alert # None => worker[w].alert # None)
  <2>1. now \subseteq Evaluating
    BY <1>1, <1>6 DEF Evaluating
  <2>2. Cardinality(now) <= Cardinality(Evaluating)
    BY <1>3, <2>1, FS_Subset
  <2>3. Len(fires') + Cardinality(now) <= MaxFires
    BY <1>0, <1>4, <1>5, <1>6, <2>2 DEF RoomOK
  <2>. QED
    BY <2>3 DEF RoomOK, Evaluating
<1>7. CASE Len(fires') = Len(fires) + 1 /\ r.alert = None /\ worker[w].alert # None
  <2>1. now = Evaluating \ {w} /\ w \in Evaluating
    BY <1>1, <1>2, <1>7 DEF Evaluating
  <2>2. Cardinality(now) = Cardinality(Evaluating) - 1
    BY <1>3, <2>1, FS_RemoveElement
  <2>3. Len(fires') + Cardinality(now) <= MaxFires
    BY <1>0, <1>4, <1>5, <1>7, <2>2 DEF RoomOK
  <2>. QED
    BY <2>3 DEF RoomOK, Evaluating
<1>8. CASE /\ Len(fires') = Len(fires) /\ worker[w].alert = None
           /\ Len(fires) + Cardinality(Evaluating) < MaxFires
  <2>1. w \notin Evaluating
    BY <1>8 DEF Evaluating
  <2>2. Cardinality(Evaluating \cup {w}) = Cardinality(Evaluating) + 1
    BY <1>3, <2>1, FS_AddElement
  <2>3. Cardinality(now) <= Cardinality(Evaluating \cup {w})
    BY <1>2, <1>3, FS_Subset
  <2>4. Len(fires') + Cardinality(now) <= MaxFires
    BY <1>0, <1>4, <1>8, <2>2, <2>3
  <2>. QED
    BY <2>4 DEF RoomOK, Evaluating
<1>. QED
  BY <1>6, <1>7, <1>8

\* What a step of handler w to r has to keep.
LEMMA Moved ==
  ASSUME RunbookAssumption, IInv, NEW w \in Workers, NEW r \in WorkerType, Become(w, r),
         fires' \in Seq(FireType), Keeps(fires, fires'), FiresOK',
         runs' \in Seq(KnownRunType), Extends(runs, runs'), Len(runs') <= MaxRuns,
         RealRunFollowsDryRun', LocalOK(r, fires', runs'), RoomOK',
         mode' = mode, isActive' = isActive, isTripped' \in {isTripped, TRUE}, unchecked' \in BOOLEAN,
         alertState' \in [Alerts -> {"none", "open", "closed"}],
         \A a \in Alerts : alertState[a] = "closed" => alertState'[a] = "closed",
         faults' \in 0..MaxFaults, off' \in SUBSET Workers, off' \ {w} \subseteq off,
         w \in off' => Off /\ MayBeOff(r),
         \A a \in r.closed : alertState[a] = "closed"
  PROVE  IInv'
<1>0. ScalarsOK /\ worker \in [Workers -> WorkerType] /\ OffOK
  BY DEF IInv, ScalarsOK
<1>1. worker'[w] = r /\ (\A v \in Workers : v # w => worker'[v] = worker[v])
      /\ worker' \in [Workers -> WorkerType]
  BY <1>0 DEF Become
<1>2. ScalarsOK'
  <2>1. isTripped' \in BOOLEAN
    BY <1>0 DEF ScalarsOK
  <2>. QED
    BY <1>0, <1>1, <2>1 DEF ScalarsOK
<1>3. LocalsOK'
  <2>. SUFFICES ASSUME NEW v \in Workers PROVE LocalOK(worker'[v], fires', runs')
    BY ZenonT(60) DEF LocalsOK, LocalOK, willDryRun
  <2>1. CASE v = w
    BY <1>1, <2>1
  <2>2. CASE v # w
    <3>1. LocalOK(worker[v], fires, runs)
      BY DEF IInv, LocalsOK
    <3>2. LocalOK(worker[v], fires', runs')
      BY <3>1, LocalKept
    <3>. QED
      BY <1>1, <2>2, <3>2
  <2>. QED
    BY <2>1, <2>2
<1>4. OffOK'
  <2>1. off' # {} => Off'
    <3>1. off' # {} => Off
      BY <1>0 DEF OffOK
    <3>2. isTripped' = isTripped \/ isTripped' = TRUE
      OBVIOUS
    <3>3. Off => Off'
      BY <3>2 DEF Off
    <3>. QED
      BY <3>1, <3>3
  <2>2. \A v \in off' : MayBeOff(worker'[v])
    <3>. TAKE v \in off'
    <3>1. CASE v = w
      BY <1>1, <3>1
    <3>2. CASE v # w
      BY <1>0, <1>1, <3>2 DEF OffOK
    <3>. QED
      BY <3>1, <3>2
  <2>3. \A v \in Workers : \A a \in worker'[v].closed : alertState'[a] = "closed"
    <3>. TAKE v \in Workers
    <3>1. \A a \in worker'[v].closed : a \in Alerts
      BY <1>1 DEF WorkerType
    <3>2. CASE v = w
      BY <1>1, <3>1, <3>2
    <3>3. CASE v # w
      BY <1>0, <1>1, <3>1, <3>3 DEF OffOK
    <3>. QED
      BY <3>2, <3>3
  <2>. QED
    BY <2>1, <2>2, <2>3 DEF OffOK
<1>. QED
  BY <1>2, <1>3, <1>4 DEF IInv

LEMMA Facts ==
  ASSUME RunbookAssumption, IInv, NEW w \in Workers
  PROVE  /\ LocalOK(worker[w], fires, runs) /\ worker[w] \in WorkerType
         /\ fires \in Seq(FireType) /\ runs \in Seq(KnownRunType) /\ Len(runs) <= MaxRuns
         /\ Len(fires) \in Nat /\ Len(runs) \in Nat
         /\ DOMAIN fires = 1..Len(fires) /\ DOMAIN runs = 1..Len(runs)
         /\ unchecked \in BOOLEAN /\ off \in SUBSET Workers /\ faults \in 0..MaxFaults
         /\ alertState \in [Alerts -> {"none", "open", "closed"}]
         /\ w \in off => Off /\ MayBeOff(worker[w])
         /\ \A a \in worker[w].closed : alertState[a] = "closed"
         /\ FiresOK /\ RealRunFollowsDryRun
<1>1. ScalarsOK /\ LocalsOK /\ OffOK /\ FiresOK /\ RealRunFollowsDryRun
  BY DEF IInv
<1>2. /\ fires \in Seq(FireType) /\ runs \in Seq(KnownRunType) /\ Len(runs) <= MaxRuns
      /\ unchecked \in BOOLEAN /\ off \in SUBSET Workers /\ faults \in 0..MaxFaults
      /\ alertState \in [Alerts -> {"none", "open", "closed"}]
      /\ worker \in [Workers -> WorkerType]
  BY <1>1 DEF ScalarsOK
<1>3. LocalOK(worker[w], fires, runs)
  BY <1>1 DEF LocalsOK
<1>4. /\ w \in off => Off /\ MayBeOff(worker[w])
      /\ \A a \in worker[w].closed : alertState[a] = "closed"
  BY <1>1 DEF OffOK
<1>. QED
  BY <1>1, <1>2, <1>3, <1>4

LEMMA Unmoved ==
  ASSUME RunbookAssumption, IInv, UNCHANGED <<fires, runs>>
  PROVE  /\ fires' \in Seq(FireType) /\ Keeps(fires, fires')
         /\ runs' \in Seq(KnownRunType) /\ Extends(runs, runs') /\ Len(runs') <= MaxRuns
<1>1. fires \in Seq(FireType) /\ runs \in Seq(KnownRunType) /\ Len(runs) <= MaxRuns
  BY DEF IInv, ScalarsOK
<1>. QED
  BY <1>1 DEF Keeps, Extends

\* A step that adds and writes no row.
LEMMA MovedOnly ==
  ASSUME RunbookAssumption, IInv, NEW w \in Workers, NEW r \in WorkerType, Become(w, r),
         UNCHANGED <<mode, isActive, fires, runs>>, isTripped' \in {isTripped, TRUE}, LocalOK(r, fires, runs),
         r.alert # None => worker[w].alert # None,
         unchecked' \in BOOLEAN, alertState' = alertState, faults' \in 0..MaxFaults,
         off' \in SUBSET Workers, off' \ {w} \subseteq off,
         w \in off' => Off /\ MayBeOff(r),
         \A a \in r.closed : alertState[a] = "closed"
  PROVE  IInv'
<1>1. /\ fires' \in Seq(FireType) /\ Keeps(fires, fires')
      /\ runs' \in Seq(KnownRunType) /\ Extends(runs, runs') /\ Len(runs') <= MaxRuns
  BY Unmoved
<1>2. FiresOK' /\ RealRunFollowsDryRun' /\ LocalOK(r, fires', runs')
  <2>1. FiresOK /\ RealRunFollowsDryRun
    BY Facts
  <2>. QED
    BY <2>1 DEF FiresOK, FireOK, RealRunFollowsDryRun
<1>3. RoomOK'
  BY Facts, RoomKept
<1>. QED
  BY <1>1, <1>2, <1>3, Facts, Moved

\* The rows that rec has still to visit, in the loop it goes on with.
Visits(rec, loop, fs, rs) ==
  /\ rec \in WorkerType /\ rec.alert = None
  /\ \A f \in rec.todo : f \in DOMAIN fs /\ fs[f].state # "skipped-cooldown"
  /\ loop = "watch" => ListedOK(rec, rs) /\ rec.closed = {}

LEMMA NextRowFacts ==
  ASSUME RunbookAssumption, IInv, NEW w \in Workers, NEW rec, NEW loop \in {"fire", "watch"},
         NEW fs, NEW rs, Len(rs) \in Nat, Visits(rec, loop, fs, rs), NextRow(w, rec, loop)
  PROVE  \E r \in WorkerType :
           /\ Become(w, r) /\ LocalOK(r, fs, rs) /\ r.alert = None
           /\ r.closed \subseteq rec.closed
           /\ off' \in SUBSET Workers /\ off' \ {w} \subseteq off
           /\ w \in off' => Off /\ MayBeOff(r)
<1>0. rec \in WorkerType /\ 0 \in 0..MaxFires /\ 0 \in 0..MaxRuns
  BY Constants DEF Visits
<1>1. CASE rec.todo # {}
  <2>. DEFINE r == [rec EXCEPT !.pc = loop, !.row = 0, !.run = 0, !.ok = FALSE]
  <2>1. /\ r \in WorkerType /\ r.pc = loop /\ r.row = 0 /\ r.run = 0 /\ r.todo = rec.todo
        /\ r.listed = rec.listed /\ r.closed = rec.closed /\ r.alert = None
    BY <1>0 DEF WorkerType, Steps, Visits
  <2>2. Become(w, r) /\ off' = off
    BY <1>1 DEF NextRow
  <2>. HIDE DEF r
  <2>3. LocalOK(r, fs, rs)
    <3>1. r.pc \notin FireSteps \cup WatchSteps \cup EvaluatorSteps
      BY <2>1 DEF EvaluatorSteps, FireSteps, WatchSteps
    <3>2. r.pc \notin {"idle", "fired", "enqueued", "decide", "enqueue", "settle", "open", "run"}
      BY <2>1
    <3>3. \A f \in Rows(r) : f \in DOMAIN fs /\ fs[f].state # "skipped-cooldown"
      BY <2>1 DEF Rows, Visits
    <3>4. r.pc = "watch" => ListedOK(r, rs) /\ r.closed = {}
      BY <2>1 DEF Visits, ListedOK
    <3>5. r.pc \in WatchSteps \cup {"watch"} => r.pc = "watch"
      BY <3>1
    <3>6. /\ r.run \in 0..Len(rs) /\ r.alert = None /\ r.row = 0
          /\ r.pc \in {"fire", "watch"} => r.todo # {}
      BY <1>1, <2>1
    <3>. HIDE <1>1
    <3>. QED
      BY <2>1, <3>1, <3>2, <3>3, <3>4, <3>5, <3>6, Zenon DEF LocalOK
  <2>4. MayBeOff(r)
    BY <2>1 DEF MayBeOff
  <2>. QED
    BY <2>1, <2>2, <2>3, <2>4, Facts
<1>2. CASE rec.todo = {} /\ rec.check
  <2>. DEFINE r == [rec EXCEPT !.pc = "check", !.row = 0, !.run = 0, !.ok = FALSE]
  <2>1. /\ r \in WorkerType /\ r.pc = "check" /\ r.row = 0 /\ r.run = 0 /\ r.todo = {}
        /\ r.closed = rec.closed /\ r.alert = None
    BY <1>0, <1>2 DEF WorkerType, Steps, Visits
  <2>2. Become(w, r) /\ off' = off
    BY <1>2 DEF NextRow
  <2>. HIDE DEF r
  <2>3. LocalOK(r, fs, rs)
    BY <2>1 DEF LocalOK, Rows, EvaluatorSteps, FireSteps, WatchSteps
  <2>4. MayBeOff(r)
    BY <2>1 DEF MayBeOff
  <2>. QED
    BY <2>1, <2>2, <2>3, <2>4, Facts
<1>3. CASE rec.todo = {} /\ ~rec.check
  <2>1. Become(w, Idle) /\ off' = off \ {w}
    BY <1>3 DEF NextRow, Finish
  <2>2. /\ Idle.pc = "idle" /\ Idle.row = 0 /\ Idle.run = 0 /\ Idle.todo = {} /\ Idle.closed = {}
        /\ Idle.alert = None
    BY DEF Idle
  <2>3. LocalOK(Idle, fs, rs)
    BY <2>2, IdleType DEF LocalOK, Rows, EvaluatorSteps, FireSteps, WatchSteps
  <2>. QED
    BY <2>1, <2>2, <2>3, IdleType, Facts
<1>. QED
  BY <1>1, <1>2, <1>3

\* A handler ends.
LEMMA IdleOK ==
  ASSUME RunbookAssumption, NEW fs, NEW rs, Len(rs) \in Nat
  PROVE  /\ LocalOK(Idle, fs, rs) /\ Idle.alert = None /\ Idle.closed = {} /\ Idle.pc = "idle"
         /\ Idle \in WorkerType
<1>1. /\ Idle.pc = "idle" /\ Idle.row = 0 /\ Idle.run = 0 /\ Idle.todo = {} /\ Idle.closed = {}
      /\ Idle.alert = None
  BY DEF Idle
<1>. QED
  BY <1>1, IdleType DEF LocalOK, Rows, EvaluatorSteps, FireSteps, WatchSteps

-----------------------------------------------------------------------------
(* The evaluator.                                                          *)

\* A fire that runs nothing is added, and its evaluator ends.
LEMMA Recorded ==
  ASSUME RunbookAssumption, IInv, NEW w \in Workers, NEW state, NewFire(w, state), Finish(w),
         state \in {"skipped-cooldown", "pending", "skipped-tripped"},
         worker[w].alert \in Alerts,
         UNCHANGED <<Settings, alertState, runs, faults, unchecked>>
  PROVE  IInv'
<1>0. /\ fires \in Seq(FireType) /\ Len(fires) \in Nat /\ DOMAIN fires = 1..Len(fires)
      /\ runs \in Seq(KnownRunType) /\ Len(runs) \in Nat /\ 0 \in 0..MaxRuns
      /\ None \notin Alerts /\ FiresOK /\ RealRunFollowsDryRun
  BY Facts, Constants
<1>. DEFINE new == [alert |-> worker[w].alert, state |-> state, dry |-> 0, real |-> 0]
<1>1. new \in FireType /\ new.state = state
  BY <1>0 DEF FireType, FireStates, Skipped
<1>. HIDE DEF new
<1>2. fires' = Append(fires, new)
  BY DEF NewFire, new
<1>3. /\ fires' \in Seq(FireType) /\ Len(fires') = Len(fires) + 1
      /\ DOMAIN fires' = 1..(Len(fires) + 1) /\ fires'[Len(fires) + 1] = new
      /\ \A f \in DOMAIN fires : fires'[f] = fires[f]
  BY <1>0, <1>1, <1>2
<1>4. Keeps(fires, fires') /\ Extends(runs, runs')
  BY <1>0, <1>3 DEF Keeps, Extends
<1>5. FiresOK'
  <2>. SUFFICES ASSUME NEW f \in DOMAIN fires' PROVE FireOK(fires'[f], f, runs')
    BY DEF FiresOK, FireOK
  <2>1. CASE f \in DOMAIN fires
    BY <1>0, <1>3, <2>1 DEF FiresOK
  <2>2. CASE f = Len(fires) + 1
    BY <1>1, <1>3, <2>2 DEF FireOK
  <2>. QED
    BY <1>0, <1>3, <2>1, <2>2
<1>6. Become(w, Idle) /\ off' = off \ {w}
  BY DEF Finish
<1>7. RoomOK'
  <2>1. Idle \in WorkerType /\ Idle.alert = None
    BY <1>0, IdleOK
  <2>2. worker[w].alert # None
    BY <1>0
  <2>3. Len(fires') \in Nat
    BY <1>0, <1>3
  <2>. QED
    BY <1>3, <1>6, <2>1, <2>2, <2>3, RoomKept
<1>8. mode' = mode /\ isActive' = isActive /\ isTripped' = isTripped
  BY DEF Settings
<1>9. RealRunFollowsDryRun' /\ Len(runs') <= MaxRuns
  BY <1>0, <1>8, Facts DEF RealRunFollowsDryRun
<1>10. Len(runs') \in Nat
  BY <1>0
<1>11. LocalOK(Idle, fires', runs') /\ Idle \in WorkerType /\ Idle.closed = {}
  BY <1>10, IdleOK
<1>. QED
  BY <1>0, <1>3, <1>4, <1>5, <1>6, <1>7, <1>8, <1>9, <1>11, Facts, Moved

LEMMA EvaluateKeeps ==
  ASSUME RunbookAssumption, IInv, edge \in Nat, NEW w \in Workers, NEW a \in Alerts,
         Evaluate(w, a)
  PROVE  IInv'
<1>0. worker[w] = Idle /\ w \notin off /\ Len(fires) \in Nat /\ Len(runs) \in Nat
      /\ runs \in Seq(KnownRunType)
  BY Facts DEF Evaluate, Busy, LocalOK, MayBeOff
<1>1. /\ alertState' \in [Alerts -> {"none", "open", "closed"}]
      /\ \A b \in Alerts : alertState[b] = "closed" => alertState'[b] = "closed"
  BY Facts DEF Evaluate
<1>2. UNCHANGED <<mode, isActive, isTripped, fires, runs, faults, unchecked>>
  BY DEF Evaluate, Settings
<1>3. FiresOK' /\ RealRunFollowsDryRun'
  BY <1>2, Facts DEF FiresOK, FireOK, RealRunFollowsDryRun
<1>4. \E r \in WorkerType :
        /\ Become(w, r) /\ r.closed = {} /\ LocalOK(r, fires', runs')
        /\ off' = off
  <2>1. CASE Off
    <3>1. worker' = worker /\ off' = off
      BY <2>1 DEF Evaluate
    <3>2. Become(w, Idle)
      <4>1. worker = [worker EXCEPT ![w] = worker[w]]
        BY DEF IInv, ScalarsOK
      <4>. QED
        BY <1>0, <3>1, <4>1 DEF Become
    <3>. QED
      BY <1>0, <1>2, <3>1, <3>2, IdleOK
  <2>2. CASE ~Off
    <3>1. PICK hour \in 0..Len(fires) :
            /\ edge' \in edge..Len(fires)
            /\ Begin(w, [Idle EXCEPT !.pc = "cooldown", !.alert = a, !.edge = edge', !.hour = hour])
      BY <2>2 DEF Evaluate
    <3>. DEFINE r == [Idle EXCEPT !.pc = "cooldown", !.alert = a, !.edge = edge', !.hour = hour]
    <3>2. r \in WorkerType
      <4>1. edge' \in Nat /\ hour \in Nat /\ Idle \in WorkerType
        BY <1>0, <3>1, IdleType
      <4>. QED
        BY <4>1 DEF WorkerType, Steps
    <3>3. /\ r.pc = "cooldown" /\ r.alert = a /\ r.todo = {} /\ r.row = 0 /\ r.run = 0
          /\ r.closed = {}
      BY DEF Idle
    <3>4. Become(w, r) /\ off' = off
      BY <2>2, <3>1 DEF Begin
    <3>. HIDE DEF r
    <3>5. LocalOK(r, fires', runs')
      BY <1>0, <1>2, <3>2, <3>3 DEF LocalOK, Rows, EvaluatorSteps, FireSteps, WatchSteps
    <3>. QED
      BY <3>2, <3>3, <3>4, <3>5
  <2>. QED
    BY <2>1, <2>2
<1>5. PICK r \in WorkerType :
        /\ Become(w, r) /\ r.closed = {} /\ LocalOK(r, fires', runs')
        /\ off' = off
  BY <1>4
<1>6. RoomOK'
  <2>1. Len(fires) + Cardinality(Evaluating) < MaxFires
    BY DEF Evaluate, Evaluating
  <2>2. worker[w].alert = None
    BY <1>0, IdleOK
  <2>. QED
    BY <1>0, <1>2, <1>5, <2>1, <2>2, RoomKept
<1>7. /\ fires' \in Seq(FireType) /\ Keeps(fires, fires')
      /\ runs' \in Seq(KnownRunType) /\ Extends(runs, runs') /\ Len(runs') <= MaxRuns
  BY <1>2, Unmoved
<1>. QED
  BY <1>0, <1>1, <1>2, <1>3, <1>5, <1>6, <1>7, Facts, Moved

LEMMA CooldownGateKeeps ==
  ASSUME RunbookAssumption, IInv, NEW w \in Workers, CooldownGate(w)
  PROVE  IInv'
<1>0. /\ worker[w].pc = "cooldown" /\ worker[w] \in WorkerType /\ worker[w].alert \in Alerts
      /\ LocalOK(worker[w], fires, runs) /\ None \notin Alerts
      /\ Len(fires) \in Nat /\ DOMAIN fires = 1..Len(fires) /\ Len(runs) \in Nat
  BY Facts, Constants DEF CooldownGate, LocalOK, EvaluatorSteps
<1>1. UNCHANGED <<Settings, mode, isActive, isTripped, alertState, runs, faults, unchecked>>
  BY DEF CooldownGate, Settings
<1>2. CASE InCooldown(worker[w].alert, worker[w].edge)
  BY <1>0, <1>1, <1>2, Recorded DEF CooldownGate
<1>3. CASE ~InCooldown(worker[w].alert, worker[w].edge)
  <2>. DEFINE r == [worker[w] EXCEPT !.pc = "count", !.edge = 0]
  <2>1. r \in WorkerType
    BY <1>0 DEF WorkerType, Steps
  <2>2. /\ r.pc = "count" /\ r.alert = worker[w].alert /\ r.row = worker[w].row
        /\ r.todo = worker[w].todo /\ r.run = worker[w].run /\ r.closed = worker[w].closed
    BY <1>0 DEF WorkerType
  <2>3. Become(w, r) /\ fires' = fires /\ off' = off
    BY <1>3 DEF CooldownGate
  <2>. HIDE DEF r
  <2>4. LocalOK(r, fires, runs)
    BY <1>0, <2>1, <2>2 DEF LocalOK, Rows, EvaluatorSteps, FireSteps, WatchSteps
  <2>5. w \notin off
    BY <1>0, Facts DEF MayBeOff
  <2>. QED
    BY <1>0, <1>1, <2>1, <2>2, <2>3, <2>4, <2>5, Facts, MovedOnly
<1>. QED
  BY <1>2, <1>3

LEMMA RateGateKeeps ==
  ASSUME RunbookAssumption, IInv, NEW w \in Workers, RateGate(w)
  PROVE  IInv'
<1>0. /\ worker[w].pc = "count" /\ worker[w] \in WorkerType /\ worker[w].alert \in Alerts
      /\ LocalOK(worker[w], fires, runs) /\ w \notin off /\ Len(runs) \in Nat
      /\ None \notin Alerts
  BY Facts, Constants DEF RateGate, LocalOK, EvaluatorSteps, MayBeOff
<1>1. UNCHANGED <<mode, isActive, isTripped, alertState, fires, runs, faults, off, unchecked>>
  BY DEF RateGate, Settings, History
<1>2. CASE firesLastHour(worker[w].hour) >= MaxFiresPerHour
  <2>. DEFINE r == [Idle EXCEPT !.pc = "tripRead", !.alert = worker[w].alert]
  <2>1. r \in WorkerType
    BY <1>0, IdleType DEF WorkerType, Steps
  <2>2. /\ r.pc = "tripRead" /\ r.alert = worker[w].alert /\ r.todo = {} /\ r.row = 0
        /\ r.run = 0 /\ r.closed = {}
    BY DEF Idle
  <2>3. Become(w, r)
    BY <1>2 DEF RateGate
  <2>. HIDE DEF r
  <2>4. LocalOK(r, fires, runs)
    BY <1>0, <2>1, <2>2 DEF LocalOK, Rows, EvaluatorSteps, FireSteps, WatchSteps
  <2>. QED
    BY <1>0, <1>1, <2>1, <2>2, <2>3, <2>4, Facts, MovedOnly
<1>3. CASE ~(firesLastHour(worker[w].hour) >= MaxFiresPerHour)
  <2>. DEFINE r == [worker[w] EXCEPT !.pc = "schedule", !.hour = 0]
  <2>1. r \in WorkerType
    BY <1>0 DEF WorkerType, Steps
  <2>2. /\ r.pc = "schedule"
        /\ r.alert = worker[w].alert /\ r.row = worker[w].row /\ r.todo = worker[w].todo
        /\ r.run = worker[w].run /\ r.closed = worker[w].closed
    BY <1>0 DEF WorkerType
  <2>3. Become(w, r)
    BY <1>3 DEF RateGate
  <2>. HIDE DEF r
  <2>4. LocalOK(r, fires, runs)
    BY <1>0, <2>1, <2>2 DEF LocalOK, Rows, EvaluatorSteps, FireSteps, WatchSteps
  <2>. QED
    BY <1>0, <1>1, <2>1, <2>2, <2>3, <2>4, Facts, MovedOnly
<1>. QED
  BY <1>2, <1>3

LEMMA ScheduleKeeps ==
  ASSUME RunbookAssumption, IInv, NEW w \in Workers, Schedule(w) \/ SkipTripped(w)
  PROVE  IInv'
<1>1. worker[w].alert \in Alerts
  BY Facts DEF Schedule, SkipTripped, LocalOK, EvaluatorSteps
<1>. QED
  BY <1>1, Recorded DEF Schedule, SkipTripped

\* A handler goes to a step of the trip, where its other locals play no part.
LEMMA TripStep ==
  ASSUME RunbookAssumption, IInv, NEW w \in Workers, NEW pc \in {"skip", "tripRead", "tripWrite"},
         worker[w].pc \in {"tripRead", "tripWrite", "check"}, Goto(w, pc),
         pc = "skip" => worker[w].alert # None,
         UNCHANGED <<mode, isActive, alertState, fires, runs, faults, off>>,
         isTripped' \in {isTripped, TRUE}, unchecked' \in BOOLEAN,
         worker[w].pc = "check" => pc = "tripRead"
  PROVE  IInv'
<1>0. /\ worker[w] \in WorkerType /\ LocalOK(worker[w], fires, runs) /\ Len(runs) \in Nat
  BY Facts
<1>. DEFINE r == [worker[w] EXCEPT !.pc = pc]
<1>1. r \in WorkerType
  BY <1>0 DEF WorkerType, Steps
<1>2. /\ r.pc = pc /\ r.alert = worker[w].alert /\ r.row = worker[w].row
      /\ r.todo = worker[w].todo /\ r.run = worker[w].run /\ r.closed = worker[w].closed
      /\ r.alert \in Alerts \cup {None}
  BY <1>0 DEF WorkerType
<1>3. Become(w, r)
  BY DEF Goto
<1>. HIDE DEF r
<1>4. LocalOK(r, fires, runs)
  BY <1>0, <1>1, <1>2 DEF LocalOK, Rows, EvaluatorSteps, FireSteps, WatchSteps
<1>5. w \in off => Off /\ MayBeOff(r)
  BY <1>2, Facts DEF MayBeOff
<1>. QED
  BY <1>0, <1>1, <1>2, <1>3, <1>4, <1>5, Facts, MovedOnly

LEMMA Ending ==
  ASSUME RunbookAssumption, IInv, NEW w \in Workers, Finish(w),
         UNCHANGED <<mode, isActive, alertState, fires, runs>>, faults' \in 0..MaxFaults,
         isTripped' \in {isTripped, TRUE}, unchecked' \in BOOLEAN
  PROVE  IInv'
<1>1. Become(w, Idle) /\ off' = off \ {w}
  BY DEF Finish
<1>2. /\ LocalOK(Idle, fires, runs) /\ Idle.alert = None /\ Idle.closed = {}
      /\ Idle \in WorkerType
  BY Facts, IdleOK
<1>. QED
  BY <1>1, <1>2, Facts, MovedOnly

LEMMA TripKeeps ==
  ASSUME RunbookAssumption, IInv, NEW w \in Workers,
         TripRead(w) \/ TripWrite(w) \/ checkConsecutiveFailures(w)
  PROVE  IInv'
<1>1. CASE TripRead(w)
  <2>1. /\ worker[w].pc = "tripRead" /\ faults' \in 0..MaxFaults /\ unchecked' \in BOOLEAN
        /\ UNCHANGED <<mode, isActive, isTripped, alertState, fires, runs, faults>>
    BY <1>1, Facts DEF TripRead, Settings
  <2>2. CASE isTripped /\ worker[w].alert # None
    BY <1>1, <2>1, <2>2, TripStep DEF TripRead, AfterTrip
  <2>3. CASE isTripped /\ worker[w].alert = None
    BY <1>1, <2>1, <2>3, Ending DEF TripRead, AfterTrip
  <2>4. CASE ~isTripped
    BY <1>1, <2>1, <2>4, TripStep DEF TripRead
  <2>. QED
    BY <2>2, <2>3, <2>4
<1>2. CASE TripWrite(w)
  <2>1. /\ worker[w].pc = "tripWrite" /\ faults' \in 0..MaxFaults /\ unchecked' \in BOOLEAN
        /\ UNCHANGED <<mode, isActive, alertState, fires, runs, faults>> /\ isTripped' = TRUE
    BY <1>2, Facts DEF TripWrite
  <2>2. CASE worker[w].alert # None
    BY <1>2, <2>1, <2>2, TripStep DEF TripWrite, AfterTrip
  <2>3. CASE worker[w].alert = None
    BY <1>2, <2>1, <2>3, Ending DEF TripWrite, AfterTrip
  <2>. QED
    BY <2>2, <2>3
<1>3. CASE checkConsecutiveFailures(w)
  <2>1. /\ worker[w].pc = "check" /\ faults' \in 0..MaxFaults /\ unchecked' \in BOOLEAN
        /\ UNCHANGED <<mode, isActive, isTripped, alertState, fires, runs, faults>>
    BY <1>3, Facts DEF checkConsecutiveFailures, Settings
  <2>2. CASE ~isTripped /\ FailedInARow(MaxConsecutiveFailures)
    BY <1>3, <2>1, <2>2, TripStep DEF checkConsecutiveFailures
  <2>3. CASE ~(~isTripped /\ FailedInARow(MaxConsecutiveFailures))
    BY <1>3, <2>1, <2>3, Ending DEF checkConsecutiveFailures
  <2>. QED
    BY <2>2, <2>3
<1>. QED
  BY <1>1, <1>2, <1>3

-----------------------------------------------------------------------------
(* Rows that the crons write.                                              *)

\* The row that handler w is at becomes row, which is still of the same alert.
Writes(w, row) ==
  /\ worker[w].row \in Rows(worker[w])
  /\ fires' = [fires EXCEPT ![worker[w].row] = row]
  /\ row \in FireType /\ row.alert = fires[worker[w].row].alert
  /\ row.state # "skipped-cooldown"
  /\ FireOK(row, worker[w].row, runs)

\* The handler writes the row it is at, and goes on with the next.
LEMMA Written ==
  ASSUME RunbookAssumption, IInv, NEW w \in Workers, NEW row, Writes(w, row), NEW rec,
         NEW loop \in {"fire", "watch"},
         Visits(rec, loop, fires, runs), NextRow(w, rec, loop),
         \A a \in rec.closed : alertState[a] = "closed",
         UNCHANGED <<Settings, alertState, runs>>, faults' \in 0..MaxFaults, unchecked' \in BOOLEAN
  PROVE  IInv'
<1>. DEFINE f == worker[w].row
<1>w. /\ worker[w].row \in Rows(worker[w])
      /\ fires' = [fires EXCEPT ![worker[w].row] = row]
      /\ row \in FireType /\ row.alert = fires[worker[w].row].alert
      /\ row.state # "skipped-cooldown"
      /\ FireOK(row, worker[w].row, runs)
  BY DEF Writes
<1>0. /\ fires \in Seq(FireType) /\ runs \in Seq(KnownRunType) /\ Len(runs) \in Nat /\ Len(fires) \in Nat
      /\ FiresOK /\ RealRunFollowsDryRun /\ f \in DOMAIN fires /\ fires[f].state # "skipped-cooldown"
      /\ Len(runs) <= MaxRuns
  BY <1>w, Facts DEF LocalOK
<1>1. /\ fires' \in Seq(FireType) /\ Len(fires') = Len(fires) /\ DOMAIN fires' = DOMAIN fires
      /\ fires'[f] = row /\ \A g \in DOMAIN fires : g # f => fires'[g] = fires[g]
  BY <1>0, <1>w
<1>2. Keeps(fires, fires') /\ Extends(runs, runs')
  BY <1>0, <1>1, <1>w DEF Keeps, Extends
<1>3. FiresOK'
  <2>. SUFFICES ASSUME NEW g \in DOMAIN fires' PROVE FireOK(fires'[g], g, runs')
    BY DEF FiresOK, FireOK
  <2>1. CASE g = f
    BY <1>1, <1>w, <2>1
  <2>2. CASE g # f
    BY <1>0, <1>1, <2>2 DEF FiresOK
  <2>. QED
    BY <2>1, <2>2
<1>4. PICK r \in WorkerType :
        /\ Become(w, r) /\ LocalOK(r, fires, runs) /\ r.alert = None
        /\ r.closed \subseteq rec.closed
        /\ off' \in SUBSET Workers /\ off' \ {w} \subseteq off
        /\ w \in off' => Off /\ MayBeOff(r)
  BY <1>0, NextRowFacts
<1>5. LocalOK(r, fires', runs')
  BY <1>2, <1>4, LocalKept
<1>6. RoomOK'
  BY <1>0, <1>1, <1>4, RoomKept
<1>7. mode' = mode /\ isActive' = isActive /\ isTripped' = isTripped
  BY DEF Settings
<1>8. RealRunFollowsDryRun'
  BY <1>0, <1>7 DEF RealRunFollowsDryRun
<1>. HIDE DEF f
<1>. QED
  BY <1>0, <1>1, <1>2, <1>3, <1>4, <1>5, <1>6, <1>7, <1>8, Facts, Moved

LEMMA Least == ASSUME NEW T \in SUBSET Nat, T # {} PROVE \E x \in T : \A y \in T : x <= y
<1>1. PICK x \in T : \A y \in T : ~(<<y, x>> \in OpToRel(<, Nat))
  BY NatLessThanWellFounded, WFMin, Zenon
<1>2. \A y \in T : ~(y < x)
  BY <1>1 DEF OpToRel
<1>. QED
  BY <1>2

LEMMA FirstIn == ASSUME NEW S \in SUBSET (1..MaxFires), S # {} PROVE First(S) \in S
<1>1. S \in SUBSET Nat
  OBVIOUS
<1>2. \E x \in S : \A y \in S : x <= y
  BY <1>1, Least
<1>. QED
  BY <1>2 DEF First

\* The locals of a handler at a row.
LEMMA AtRow ==
  ASSUME RunbookAssumption, IInv, NEW w \in Workers, worker[w].pc \in FireSteps \cup WatchSteps,
         NEW loop \in {"fire", "watch"}, loop = "watch" => worker[w].pc \in WatchSteps
  PROVE  /\ worker[w].row \in Rows(worker[w]) /\ worker[w].row \in 1..MaxFires
         /\ worker[w].row \in DOMAIN fires /\ fires[worker[w].row] \in FireType
         /\ fires[worker[w].row].state # "skipped-cooldown"
         /\ Visits(worker[w], loop, fires, runs)
         /\ \A a \in worker[w].closed : alertState[a] = "closed"
         /\ worker[w] \in WorkerType /\ worker[w].run \in 0..Len(runs)
<1>1. /\ LocalOK(worker[w], fires, runs) /\ worker[w] \in WorkerType /\ fires \in Seq(FireType)
      /\ \A a \in worker[w].closed : alertState[a] = "closed"
  BY Facts
<1>2. worker[w].row \in Rows(worker[w]) /\ worker[w].row \in 1..MaxFires /\ worker[w].alert = None
      /\ worker[w].run \in 0..Len(runs)
  <2>1. worker[w].row # 0 /\ worker[w].alert = None /\ worker[w].run \in 0..Len(runs)
    BY <1>1 DEF LocalOK
  <2>2. worker[w].row \in 0..MaxFires /\ MaxFires \in Nat
    BY <1>1, Constants DEF WorkerType
  <2>. QED
    BY <2>1, <2>2 DEF Rows
<1>3. worker[w].row \in DOMAIN fires /\ fires[worker[w].row].state # "skipped-cooldown"
  BY <1>1, <1>2 DEF LocalOK
<1>4. Visits(worker[w], loop, fires, runs)
  <2>1. \A f \in worker[w].todo : f \in DOMAIN fires /\ fires[f].state # "skipped-cooldown"
    BY <1>1 DEF LocalOK, Rows
  <2>2. loop = "watch" => ListedOK(worker[w], runs) /\ worker[w].closed = {}
    BY <1>1 DEF LocalOK
  <2>. QED
    BY <1>1, <1>2, <2>1, <2>2 DEF Visits
<1>. QED
  BY <1>1, <1>2, <1>3, <1>4

\* The row is given a state that ends it.
LEMMA Settled ==
  ASSUME RunbookAssumption, IInv, NEW w \in Workers, worker[w].pc \in FireSteps \cup WatchSteps,
         NEW loop \in {"fire", "watch"}, loop = "watch" => worker[w].pc \in WatchSteps,
         NEW state \in {"skipped-cleared", "skipped-tripped", "failed", "predicate-failed", "succeeded"},
         state = "succeeded" => WasOk(runs, worker[w].row),
         fires' = [fires EXCEPT ![worker[w].row] = [fires[worker[w].row] EXCEPT !.state = state]],
         NEW rec \in WorkerType, rec.todo = worker[w].todo, rec.alert = worker[w].alert,
         rec.listed = worker[w].listed, rec.closed = worker[w].closed, NextRow(w, rec, loop),
         UNCHANGED <<Settings, alertState, runs>>, faults' \in 0..MaxFaults, unchecked' \in BOOLEAN
  PROVE  IInv'
<1>0. PICK row : row = [fires[worker[w].row] EXCEPT !.state = state]
  OBVIOUS
<1>1. /\ worker[w].row \in Rows(worker[w]) /\ fires[worker[w].row] \in FireType
      /\ Visits(worker[w], loop, fires, runs) /\ worker[w] \in WorkerType
      /\ \A a \in worker[w].closed : alertState[a] = "closed"
  BY AtRow
<1>2. row \in FireType /\ row.alert = fires[worker[w].row].alert /\ row.state = state
  BY <1>0, <1>1 DEF FireType, FireStates, Skipped
<1>3. row.state # "skipped-cooldown" /\ FireOK(row, worker[w].row, runs)
  BY <1>2 DEF FireOK
<1>5. Visits(rec, loop, fires, runs)
  BY <1>1 DEF Visits, ListedOK
<1>6. Writes(w, row)
  BY <1>0, <1>1, <1>2, <1>3 DEF Writes
<1>7. \A a \in rec.closed : alertState[a] = "closed"
  BY <1>1
<1>. QED
  BY <1>5, <1>6, <1>7, Written

-----------------------------------------------------------------------------
(* The fire cron.                                                          *)

LEMMA FiresFit ==
  ASSUME RunbookAssumption, IInv
  PROVE  /\ DOMAIN fires = 1..Len(fires) /\ Len(fires) \in Nat /\ Len(fires) <= MaxFires
         /\ MaxFires \in Nat /\ DOMAIN fires \subseteq 1..MaxFires
<1>1. IsFiniteSet(Evaluating) /\ Cardinality(Evaluating) \in Nat
  <2>1. IsFiniteSet(Evaluating)
    BY Constants, FS_Subset DEF Evaluating
  <2>. QED
    BY <2>1, FS_CardinalityType
<1>2. fires \in Seq(FireType)
  BY DEF IInv, ScalarsOK
<1>3. Len(fires) + Cardinality(Evaluating) <= MaxFires
  BY DEF IInv, RoomOK
<1>. QED
  BY <1>1, <1>2, <1>3, Constants

LEMMA FireTickKeeps ==
  ASSUME RunbookAssumption, IInv, NEW w \in Workers, FireTick(w)
  PROVE  IInv'
<1>0. /\ DOMAIN fires = 1..Len(fires) /\ Len(fires) \in Nat /\ Len(runs) \in Nat
      /\ Len(fires) <= MaxFires /\ MaxFires \in Nat
  BY Facts, FiresFit
<1>1. PICK last \in DOMAIN fires :
        LET due == {f \in 1..last : fires[f].state = "pending"} IN
        /\ due # {}
        /\ Begin(w, [Idle EXCEPT !.pc = "fire", !.todo = due,
                                !.closed = {a \in {fires[f].alert : f \in due} : alertState[a] = "closed"}])
  BY DEF FireTick
<1>. DEFINE due == {f \in 1..last : fires[f].state = "pending"}
<1>. DEFINE r == [Idle EXCEPT !.pc = "fire", !.todo = due,
                              !.closed = {a \in {fires[f].alert : f \in due} : alertState[a] = "closed"}]
<1>2. due \subseteq 1..MaxFires /\ due # {}
  <2>1. due # {}
    BY <1>1
  <2>2. due \subseteq DOMAIN fires
    BY <1>0
  <2>. QED
    BY <1>0, <2>1, <2>2
<1>3. r \in WorkerType
  <2>1. \A f \in due : fires[f].alert \in Alerts
    <3>1. fires \in Seq(FireType)
      BY Facts
    <3>2. \A f \in due : fires[f] \in FireType
      BY <3>1
    <3>. QED
      BY <3>2 DEF FireType
  <2>2. {a \in {fires[f].alert : f \in due} : alertState[a] = "closed"} \in SUBSET Alerts
    BY <2>1
  <2>. QED
    BY <1>2, <2>2, IdleType DEF WorkerType, Steps
<1>4. /\ r.pc = "fire" /\ r.todo = due /\ r.row = 0 /\ r.run = 0 /\ r.alert = None
      /\ \A a \in r.closed : alertState[a] = "closed"
  BY DEF Idle
<1>5. Become(w, r) /\ off' = (IF Off THEN off \cup {w} ELSE off)
  BY <1>1 DEF Begin
<1>6. UNCHANGED <<mode, isActive, isTripped, alertState, fires, runs, faults, unchecked>>
  BY DEF FireTick, Settings
<1>. HIDE DEF r
<1>7. LocalOK(r, fires, runs)
  BY <1>0, <1>1, <1>2, <1>3, <1>4 DEF LocalOK, Rows, EvaluatorSteps, FireSteps, WatchSteps
<1>8. off' \in SUBSET Workers /\ off' \ {w} \subseteq off
      /\ (w \in off' => Off /\ MayBeOff(r))
  BY <1>4, <1>5, Facts DEF MayBeOff
<1>. QED
  BY <1>3, <1>4, <1>5, <1>6, <1>7, <1>8, Facts, MovedOnly

LEMMA FireCheckKeeps ==
  ASSUME RunbookAssumption, IInv, NEW w \in Workers, FireCheck(w)
  PROVE  IInv'
<1>. DEFINE f == First(worker[w].todo)
            pc == IF alertState[fires[f].alert] = "open" THEN "open" ELSE "clear"
            r == [worker[w] EXCEPT !.row = f, !.todo = @ \ {f}, !.pc = pc]
<1>0. /\ worker[w].pc = "fire" /\ worker[w] \in WorkerType /\ LocalOK(worker[w], fires, runs)
      /\ \A a \in worker[w].closed : alertState[a] = "closed"
      /\ Len(runs) \in Nat /\ worker[w].row = 0
      /\ worker[w].todo # {} /\ worker[w].todo \in SUBSET (1..MaxFires)
  BY Facts DEF FireCheck, LocalOK, WorkerType, FireSteps, WatchSteps
<1>1. f \in worker[w].todo /\ f \in 1..MaxFires
  BY <1>0, FirstIn
<1>2. Become(w, r)
  BY DEF FireCheck
<1>. HIDE DEF f
<1>3. pc \in {"open", "clear"} /\ (pc = "open" => fires[f].alert \notin worker[w].closed)
  BY <1>0
<1>. HIDE DEF pc
<1>4. r \in WorkerType
  <2>1. worker[w].todo \ {f} \in SUBSET (1..MaxFires) /\ f \in 0..MaxFires /\ pc \in Steps
    BY <1>0, <1>1, <1>3 DEF Steps
  <2>. QED
    BY <1>0, <2>1 DEF WorkerType
<1>5. /\ r.pc = pc /\ r.row = f /\ r.todo = worker[w].todo \ {f} /\ r.alert = worker[w].alert
      /\ r.run = worker[w].run /\ r.closed = worker[w].closed
  BY <1>0 DEF WorkerType
<1>7. UNCHANGED <<mode, isActive, isTripped, alertState, fires, runs, faults, off, unchecked>>
  BY DEF FireCheck, Settings, History
<1>. HIDE DEF r
<1>8. LocalOK(r, fires, runs)
  <2>1. r.pc \in FireSteps /\ r.pc \notin EvaluatorSteps \cup WatchSteps
        /\ r.pc \notin {"idle", "fired", "enqueued", "decide", "enqueue", "settle", "run", "watch", "fire"}
    BY <1>3, <1>5 DEF EvaluatorSteps, FireSteps, WatchSteps
  <2>2. worker[w].alert = None /\ r.run \in 0..Len(runs)
        /\ \A g \in worker[w].todo : g \in DOMAIN fires /\ fires[g].state # "skipped-cooldown"
    BY <1>0, <1>5 DEF LocalOK, Rows
  <2>3. \A g \in Rows(r) : g \in DOMAIN fires /\ fires[g].state # "skipped-cooldown"
    BY <1>1, <1>5, <2>2 DEF Rows
  <2>4. r.row # 0
    BY <1>1, <1>5
  <2>. QED
    BY <1>3, <1>4, <1>5, <2>1, <2>2, <2>3, <2>4 DEF LocalOK
<1>9. w \in off => Off /\ MayBeOff(r)
  BY <1>3, <1>5, Facts DEF MayBeOff
<1>. QED
  BY <1>0, <1>2, <1>4, <1>5, <1>7, <1>8, <1>9, Facts, MovedOnly

LEMMA FireOpenKeeps ==
  ASSUME RunbookAssumption, IInv, NEW w \in Workers, FireOpen(w)
  PROVE  IInv'
<1>. DEFINE pc == IF Off THEN "bar" ELSE "run"
            r == [worker[w] EXCEPT !.pc = pc]
<1>0. /\ worker[w].pc = "open" /\ worker[w] \in WorkerType /\ LocalOK(worker[w], fires, runs)
      /\ UNCHANGED <<mode, isActive, isTripped, alertState, fires, runs, faults, off, unchecked>>
  BY Facts DEF FireOpen, Settings, History
<1>1. Become(w, r) /\ pc \in {"bar", "run"} /\ (pc = "run" => ~Off)
  BY DEF FireOpen, Goto
<1>. HIDE DEF pc
<1>2. /\ r \in WorkerType /\ r.pc = pc /\ r.row = worker[w].row /\ r.todo = worker[w].todo
      /\ r.run = worker[w].run /\ r.alert = worker[w].alert /\ r.closed = worker[w].closed
  BY <1>0, <1>1 DEF WorkerType, Steps
<1>. HIDE DEF r
<1>3. /\ worker[w].pc \in FireSteps /\ r.pc \in FireSteps
      /\ r.pc \notin WatchSteps \cup EvaluatorSteps
      /\ r.pc \notin {"idle", "fired", "enqueued", "decide", "enqueue", "settle", "watch", "fire"}
  BY <1>0, <1>1, <1>2 DEF FireSteps, WatchSteps, EvaluatorSteps
<1>4. LocalOK(r, fires, runs)
  BY <1>0, <1>2, <1>3 DEF LocalOK, Rows
<1>5. w \in off => Off /\ MayBeOff(r)
  BY <1>1, <1>2, Facts DEF MayBeOff
<1>. QED
  BY <1>0, <1>1, <1>2, <1>4, <1>5, Facts, MovedOnly

\* A write gives the streak a boolean.
LEMMA WriteBoolean ==
  ASSUME RunbookAssumption, IInv, NEW w \in Workers, NEW row, WriteFire(w, row)
  PROVE  fires' = [fires EXCEPT ![worker[w].row] = row] /\ unchecked' \in BOOLEAN
<1>1. unchecked \in BOOLEAN
  BY Facts
<1>2. unchecked' = (unchecked \/ (fires[worker[w].row].state = "succeeded" /\ row.state # "succeeded"))
  BY DEF WriteFire
<1>3. unchecked' \in BOOLEAN
  BY <1>1, <1>2
<1>. QED
  BY <1>3 DEF WriteFire

LEMMA FireWrites ==
  ASSUME RunbookAssumption, IInv, NEW w \in Workers,
         SkipCleared(w) \/ SkipOff(w) \/ FireThrows(w)
  PROVE  IInv'
<1>1. /\ worker[w].pc \in FireSteps /\ UNCHANGED <<Settings, alertState, runs>>
      /\ faults' \in 0..MaxFaults
  BY Facts, Constants DEF SkipCleared, SkipOff, FireThrows, FireSteps
<1>2. worker[w] \in WorkerType /\ NextRow(w, worker[w], "fire")
  BY Facts DEF SkipCleared, SkipOff, FireThrows
<1>3. \E state \in {"skipped-cleared", "skipped-tripped", "failed"} :
        /\ fires' = [fires EXCEPT ![worker[w].row] = [fires[worker[w].row] EXCEPT !.state = state]]
        /\ unchecked' \in BOOLEAN
  <2>1. CASE SkipCleared(w)
    BY <2>1, WriteBoolean DEF SkipCleared
  <2>2. CASE SkipOff(w)
    BY <2>2, WriteBoolean DEF SkipOff
  <2>3. CASE FireThrows(w)
    BY <2>3 DEF FireThrows
  <2>. QED
    BY <2>1, <2>2, <2>3
<1>4. PICK state \in {"skipped-cleared", "skipped-tripped", "failed"} :
        /\ fires' = [fires EXCEPT ![worker[w].row] = [fires[worker[w].row] EXCEPT !.state = state]]
        /\ unchecked' \in BOOLEAN
  BY <1>3
<1>. QED
  BY <1>1, <1>2, <1>4, Settled

-----------------------------------------------------------------------------
(* The watcher cron.                                                       *)

LEMMA WatchWrites ==
  ASSUME RunbookAssumption, IInv, NEW w \in Workers,
         Settle(w) \/ DryRunFailed(w) \/ PredicateFailed(w) \/ EnqueueThrows(w)
  PROVE  IInv'
<1>1. /\ worker[w].pc \in WatchSteps /\ UNCHANGED <<Settings, alertState, runs>>
      /\ faults' \in 0..MaxFaults
  BY Facts, Constants DEF Settle, DryRunFailed, PredicateFailed, EnqueueThrows, WatchSteps
<1>2. worker[w] \in WorkerType /\ worker[w].check \in BOOLEAN /\ worker[w].ok \in BOOLEAN
  BY Facts DEF WorkerType
<1>3. \E c \in BOOLEAN : NextRow(w, [worker[w] EXCEPT !.check = c], "watch")
  <2>1. CASE Settle(w)
    <3>1. (worker[w].check \/ ~worker[w].ok) \in BOOLEAN
      OBVIOUS
    <3>2. NextRow(w, [worker[w] EXCEPT !.check = (worker[w].check \/ ~worker[w].ok)], "watch")
      BY <2>1 DEF Settle
    <3>. QED
      BY <3>1, <3>2
  <2>2. CASE DryRunFailed(w) \/ EnqueueThrows(w)
    BY <2>2 DEF DryRunFailed, EnqueueThrows
  <2>3. CASE PredicateFailed(w)
    <3>1. worker[w] = [worker[w] EXCEPT !.check = worker[w].check]
      BY <1>2 DEF WorkerType
    <3>2. NextRow(w, worker[w], "watch")
      BY <2>3 DEF PredicateFailed
    <3>. QED
      BY <1>2, <3>1, <3>2
  <2>. QED
    BY <2>1, <2>2, <2>3
<1>4. PICK c \in BOOLEAN : NextRow(w, [worker[w] EXCEPT !.check = c], "watch")
  BY <1>3
<1>5. \E state \in {"failed", "predicate-failed", "succeeded"} :
        /\ fires' = [fires EXCEPT ![worker[w].row] = [fires[worker[w].row] EXCEPT !.state = state]]
        /\ unchecked' \in BOOLEAN
        /\ state = "succeeded" => WasOk(runs, worker[w].row)
  <2>1. CASE Settle(w)
    <3>1. worker[w].pc = "settle" /\ (worker[w].ok => WasOk(runs, worker[w].row))
      BY <2>1, Facts DEF Settle, LocalOK
    <3>2. CASE worker[w].ok
      BY <2>1, <3>1, <3>2, WriteBoolean DEF Settle
    <3>3. CASE ~worker[w].ok
      BY <2>1, <3>1, <3>3, WriteBoolean DEF Settle
    <3>. QED
      BY <3>2, <3>3
  <2>2. CASE DryRunFailed(w) \/ EnqueueThrows(w)
    BY <2>2, WriteBoolean DEF DryRunFailed, EnqueueThrows
  <2>3. CASE PredicateFailed(w)
    BY <2>3, WriteBoolean DEF PredicateFailed
  <2>. QED
    BY <2>1, <2>2, <2>3
<1>6. PICK state \in {"failed", "predicate-failed", "succeeded"} :
        /\ fires' = [fires EXCEPT ![worker[w].row] = [fires[worker[w].row] EXCEPT !.state = state]]
        /\ unchecked' \in BOOLEAN
        /\ state = "succeeded" => WasOk(runs, worker[w].row)
  BY <1>5
<1>7. /\ [worker[w] EXCEPT !.check = c] \in WorkerType
      /\ [worker[w] EXCEPT !.check = c].todo = worker[w].todo
      /\ [worker[w] EXCEPT !.check = c].alert = worker[w].alert
      /\ [worker[w] EXCEPT !.check = c].listed = worker[w].listed
      /\ [worker[w] EXCEPT !.check = c].closed = worker[w].closed
  BY <1>2 DEF WorkerType
<1>8. PICK rec \in WorkerType :
        /\ rec.todo = worker[w].todo /\ rec.alert = worker[w].alert
        /\ rec.listed = worker[w].listed /\ rec.closed = worker[w].closed
        /\ NextRow(w, rec, "watch")
  BY <1>4, <1>7
<1>. QED
  BY <1>1, <1>6, <1>8, Settled

-----------------------------------------------------------------------------
(* A run is made, and the row points to it.                                *)

LEMMA Pointed ==
  ASSUME RunbookAssumption, IInv, NEW w \in Workers, NEW loop \in {"fire", "watch"},
         \/ worker[w].pc = "fired" /\ loop = "fire"
         \/ worker[w].pc = "enqueued" /\ loop = "watch",
         NEW dry \in BOOLEAN, MadeFor(runs, worker[w].run, worker[w].row, dry),
         WriteFire(w, IF dry
           THEN [fires[worker[w].row] EXCEPT !.state = "dry-run", !.dry = worker[w].run]
           ELSE [fires[worker[w].row] EXCEPT !.state = "running", !.real = worker[w].run]),
         NextRow(w, worker[w], loop), UNCHANGED <<Settings, alertState, runs, faults>>
  PROVE  IInv'
<1>. DEFINE row == IF dry
       THEN [fires[worker[w].row] EXCEPT !.state = "dry-run", !.dry = worker[w].run]
       ELSE [fires[worker[w].row] EXCEPT !.state = "running", !.real = worker[w].run]
<1>1. /\ worker[w].row \in Rows(worker[w]) /\ fires[worker[w].row] \in FireType
      /\ Visits(worker[w], loop, fires, runs) /\ worker[w] \in WorkerType
      /\ \A a \in worker[w].closed : alertState[a] = "closed"
  BY AtRow DEF FireSteps, WatchSteps
<1>2. worker[w].run \in 0..MaxRuns
  BY <1>1 DEF WorkerType
<1>3. /\ row \in FireType /\ row.alert = fires[worker[w].row].alert
      /\ IF dry THEN row.state = "dry-run" /\ row.dry = worker[w].run
                ELSE row.state = "running" /\ row.real = worker[w].run
  BY <1>1, <1>2 DEF FireType, FireStates
<1>4. WriteFire(w, row)
  OBVIOUS
<1>. HIDE DEF row
<1>5. FireOK(row, worker[w].row, runs)
  BY <1>3 DEF FireOK, MadeFor
<1>6. fires' = [fires EXCEPT ![worker[w].row] = row] /\ unchecked' \in BOOLEAN
  BY <1>4, WriteBoolean
<1>7. Writes(w, row)
  BY <1>1, <1>3, <1>5, <1>6 DEF Writes
<1>8. faults' \in 0..MaxFaults
  BY Facts
<1>. QED
  BY <1>1, <1>6, <1>7, <1>8, Written

LEMMA PointsKeep ==
  ASSUME RunbookAssumption, IInv, NEW w \in Workers, Fired(w) \/ Enqueued(w)
  PROVE  IInv'
<1>1. CASE Fired(w)
  <2>1. worker[w].pc = "fired" /\ MadeFor(runs, worker[w].run, worker[w].row, willDryRun)
    BY <1>1, Facts DEF Fired, LocalOK
  <2>2. willDryRun \in BOOLEAN
    BY DEF willDryRun
  <2>. QED
    BY <1>1, <2>1, <2>2, Pointed DEF Fired
<1>2. CASE Enqueued(w)
  <2>1. worker[w].pc = "enqueued" /\ MadeFor(runs, worker[w].run, worker[w].row, FALSE)
    BY <1>2, Facts DEF Enqueued, LocalOK
  <2>. QED
    BY <1>2, <2>1, Pointed DEF Enqueued
<1>. QED
  BY <1>1, <1>2

\* A run is made for the row a handler is at, dry where it has to be.
LEMMA Made ==
  ASSUME RunbookAssumption, IInv, NEW w \in Workers, NEW dry \in BOOLEAN, NewRun(w, dry),
         NEW pc \in {"fired", "enqueued"},
         Become(w, [worker[w] EXCEPT !.pc = pc, !.run = Len(runs) + 1]),
         \/ worker[w].pc = "run" /\ pc = "fired" /\ dry = willDryRun
         \/ worker[w].pc = "enqueue" /\ pc = "enqueued" /\ DryWasOk(runs, worker[w].row),
         UNCHANGED <<Settings, alertState, fires, faults, History>>
  PROVE  IInv'
<1>0. /\ worker[w] \in WorkerType /\ LocalOK(worker[w], fires, runs) /\ Len(runs) \in Nat
      /\ runs \in Seq(KnownRunType) /\ DOMAIN runs = 1..Len(runs) /\ RealRunFollowsDryRun /\ FiresOK
      /\ worker[w].row \in 1..MaxFires /\ mode \in Mode /\ w \notin off
      /\ \A a \in worker[w].closed : alertState[a] = "closed"
  BY Facts, AtRow DEF FireSteps, WatchSteps, IInv, ScalarsOK, MayBeOff
<1>1. PICK state \in {"queued", "error"} :
        runs' = Append(runs, [fire |-> worker[w].row, state |-> state,
                              dry |-> (dry \/ mode = "incapable"), wasOk |-> FALSE])
  BY DEF NewRun
<1>. DEFINE new == [fire |-> worker[w].row, state |-> state, dry |-> (dry \/ mode = "incapable"),
                    wasOk |-> FALSE]
<1>2. /\ new \in KnownRunType /\ new.fire = worker[w].row /\ (dry => new.dry)
      /\ (~new.dry => ~dry /\ mode # "incapable")
  <2>1. (dry \/ mode = "incapable") \in BOOLEAN /\ state \in ScriptState
    BY DEF ScriptState, Finished
  <2>. QED
    BY <1>0, <2>1 DEF RunType, KnownRunType
<1>. HIDE DEF new
<1>3. runs' = Append(runs, new)
  BY <1>1 DEF new
<1>4. /\ runs' \in Seq(KnownRunType) /\ Len(runs') = Len(runs) + 1 /\ Len(runs') \in Nat
      /\ DOMAIN runs' = 1..(Len(runs) + 1) /\ runs'[Len(runs) + 1] = new
      /\ \A n \in DOMAIN runs : runs'[n] = runs[n]
  BY <1>0, <1>2, <1>3
<1>5. Len(runs') <= MaxRuns
  BY <1>0, <1>4, Constants DEF NewRun
<1>6. Extends(runs, runs')
  BY <1>0, <1>4 DEF Extends
<1>7. UNCHANGED <<mode, isActive, isTripped, alertState, fires, faults, off, unchecked>>
  BY DEF Settings, History
<1>8. Keeps(fires, fires') /\ fires' \in Seq(FireType)
  BY <1>7, Facts DEF Keeps
<1>9. FiresOK'
  BY <1>0, <1>6, <1>7, RunsKept DEF FiresOK, FireOK
<1>10. RealRunFollowsDryRun'
  <2>. SUFFICES ASSUME NEW n \in DOMAIN runs', ~runs'[n].dry
                PROVE  \/ mode = "plain"
                       \/ /\ mode = "dryFirst"
                          /\ \E d \in 1..(n - 1) : /\ runs'[d].wasOk /\ runs'[d].dry
                                                   /\ runs'[d].fire = runs'[n].fire
    BY <1>7 DEF RealRunFollowsDryRun
  <2>1. CASE n \in DOMAIN runs
    <3>1. runs'[n] = runs[n]
      BY <1>4, <2>1
    <3>2. CASE mode = "plain"
      BY <3>2
    <3>3. CASE mode # "plain"
      <4>1. PICK d \in 1..(n - 1) : runs[d].wasOk /\ runs[d].dry /\ runs[d].fire = runs[n].fire
        BY <1>0, <2>1, <3>1, <3>3 DEF RealRunFollowsDryRun
      <4>2. mode = "dryFirst"
        BY <1>0, <2>1, <3>1, <3>3 DEF RealRunFollowsDryRun
      <4>3. runs'[d] = runs[d]
        BY <1>0, <1>4, <2>1
      <4>. QED
        BY <3>1, <4>1, <4>2, <4>3
    <3>. QED
      BY <3>2, <3>3
  <2>2. CASE n = Len(runs) + 1
    <3>1. ~dry /\ mode # "incapable"
      BY <1>2, <1>4, <2>2
    <3>2. CASE mode = "plain"
      BY <3>2
    <3>3. CASE mode = "dryFirst"
      <4>1. DryWasOk(runs, worker[w].row)
        BY <3>1, <3>3 DEF willDryRun
      <4>2. PICK d \in DOMAIN runs : runs[d].fire = worker[w].row /\ runs[d].wasOk /\ runs[d].dry
        BY <4>1 DEF DryWasOk
      <4>. QED
        BY <1>0, <1>2, <1>4, <2>2, <3>3, <4>2
    <3>. QED
      BY <1>0, <3>1, <3>2, <3>3 DEF Mode
  <2>. QED
    BY <1>0, <1>4, <2>1, <2>2
<1>. DEFINE r == [worker[w] EXCEPT !.pc = pc, !.run = Len(runs) + 1]
<1>11. Become(w, r)
  OBVIOUS
<1>12. /\ r \in WorkerType /\ r.pc = pc /\ r.run = Len(runs) + 1 /\ r.row = worker[w].row
       /\ r.todo = worker[w].todo /\ r.alert = worker[w].alert /\ r.listed = worker[w].listed
       /\ r.closed = worker[w].closed
  <2>1. Len(runs) + 1 \in 0..MaxRuns /\ pc \in Steps
    BY <1>0, <1>4, <1>5, Constants DEF Steps
  <2>. QED
    BY <1>0, <2>1 DEF WorkerType
<1>. HIDE DEF r
<1>13. MadeFor(runs', Len(runs) + 1, worker[w].row, dry)
  BY <1>0, <1>2, <1>4 DEF MadeFor
<1>14. LocalOK(r, fires', runs')
  <2>1. LocalOK(worker[w], fires', runs')
    BY <1>0, <1>6, <1>8, LocalKept
  <2>2. r.run \in 0..Len(runs')
    BY <1>0, <1>4, <1>12
  <2>3. /\ r.pc = "fired" => MadeFor(runs', r.run, r.row, willDryRun)
        /\ r.pc = "enqueued" => MadeFor(runs', r.run, r.row, FALSE)
    BY <1>12, <1>13 DEF MadeFor
  <2>4. /\ r.pc \in WatchSteps \cup {"watch"} => worker[w].pc \in WatchSteps
        /\ r.pc \in FireSteps \cup WatchSteps /\ worker[w].pc \in FireSteps \cup WatchSteps
        /\ r.pc \notin EvaluatorSteps /\ r.pc \in {"fired", "enqueued"}
    BY <1>12 DEF FireSteps, WatchSteps, EvaluatorSteps
  <2>. QED
    BY <1>12, <2>1, <2>2, <2>3, <2>4 DEF LocalOK, Rows, ListedOK
<1>15. RoomOK'
  BY <1>7, <1>11, <1>12, Facts, RoomKept
<1>. QED
  BY <1>0, <1>4, <1>5, <1>6, <1>7, <1>8, <1>9, <1>10, <1>11, <1>12, <1>14, <1>15, Facts, Moved

LEMMA MakesKeep ==
  ASSUME RunbookAssumption, IInv, NEW w \in Workers, FireRun(w) \/ EnqueueReal(w)
  PROVE  IInv'
<1>1. CASE FireRun(w)
  <2>1. willDryRun \in BOOLEAN
    BY DEF willDryRun
  <2>. QED
    BY <1>1, <2>1, Made DEF FireRun
<1>2. CASE EnqueueReal(w)
  <2>1. worker[w].pc = "enqueue" /\ DryWasOk(runs, worker[w].row)
    BY <1>2, Facts DEF EnqueueReal, LocalOK
  <2>. QED
    BY <1>2, <2>1, Made DEF EnqueueReal
<1>. QED
  BY <1>1, <1>2

-----------------------------------------------------------------------------
(* The watcher lists rows and reads their runs.                            *)

LEMMA WatchTickKeeps ==
  ASSUME RunbookAssumption, IInv, NEW w \in Workers, WatchTick(w)
  PROVE  IInv'
<1>. DEFINE started == {f \in DOMAIN fires : fires[f].state \in {"dry-run", "running"}}
            listed == [f \in started |-> [run |-> RunOf(fires[f]),
                                          dry |-> fires[f].state = "dry-run"]]
            r == [Idle EXCEPT !.pc = "watch", !.todo = started, !.listed = listed]
<1>0. /\ fires \in Seq(FireType) /\ Len(runs) \in Nat /\ FiresOK
      /\ started \subseteq DOMAIN fires /\ started # {} /\ Begin(w, r)
      /\ DOMAIN fires \subseteq 1..MaxFires
  BY Facts, FiresFit DEF WatchTick
<1>1. started \in SUBSET (1..MaxFires)
  BY <1>0
<1>2. \A f \in started : /\ fires[f] \in FireType
                         /\ RunOf(fires[f]) \in 0..MaxRuns
  <2>1. \A f \in started : fires[f] \in FireType
    BY <1>0
  <2>2. \A row \in FireType : RunOf(row) \in 0..MaxRuns
    BY DEF FireType, RunOf
  <2>. QED
    BY <2>1, <2>2
<1>3. \A f \in started : MadeFor(runs, listed[f].run, f, listed[f].dry)
  <2>. TAKE f \in started
  <2>1. FireOK(fires[f], f, runs) /\ fires[f].state \in {"dry-run", "running"}
    BY <1>0 DEF FiresOK
  <2>2. listed[f].run = RunOf(fires[f]) /\ listed[f].dry = (fires[f].state = "dry-run")
    OBVIOUS
  <2>. QED
    BY <2>1, <2>2 DEF FireOK, RunOf, MadeFor
<1>4. listed \in [started -> [run : 0..MaxRuns, dry : BOOLEAN]]
  BY <1>2
<1>5. Become(w, r) /\ off' = (IF Off THEN off \cup {w} ELSE off)
  BY <1>0 DEF Begin
<1>6. UNCHANGED <<mode, isActive, isTripped, alertState, fires, runs, faults, unchecked>>
  BY DEF WatchTick, Settings
<1>7. \A f \in started : fires[f].state # "skipped-cooldown"
  OBVIOUS
<1>. HIDE DEF started, listed
<1>8. listed \in ListingType
  BY <1>1, <1>4 DEF ListingType
<1>9. /\ r \in WorkerType /\ r.pc = "watch" /\ r.todo = started /\ r.listed = listed
      /\ r.row = 0 /\ r.run = 0 /\ r.alert = None /\ r.closed = {}
  BY <1>1, <1>8, IdleType DEF WorkerType, Steps, Idle
<1>. HIDE DEF r
<1>10. LocalOK(r, fires, runs)
  <2>1. \A f \in Rows(r) : f \in DOMAIN fires /\ fires[f].state # "skipped-cooldown"
    BY <1>0, <1>7, <1>9 DEF Rows
  <2>2. r.pc \notin FireSteps \cup WatchSteps \cup EvaluatorSteps
    BY <1>9 DEF EvaluatorSteps, FireSteps, WatchSteps
  <2>3. ListedOK(r, runs)
    BY <1>3, <1>4, <1>9 DEF ListedOK
  <2>. QED
    BY <1>0, <1>9, <2>1, <2>2, <2>3 DEF LocalOK, EvaluatorSteps, FireSteps, WatchSteps
<1>11. off' \in SUBSET Workers /\ off' \ {w} \subseteq off
       /\ (w \in off' => Off /\ MayBeOff(r))
  BY <1>5, <1>9, Facts DEF MayBeOff
<1>. QED
  BY <1>5, <1>6, <1>9, <1>10, <1>11, Facts, MovedOnly

\* A handler goes on with the next row and has written none.
LEMMA WentOn ==
  ASSUME RunbookAssumption, IInv, NEW w \in Workers, NEW rec, NEW loop \in {"fire", "watch"},
         Visits(rec, loop, fires, runs), NextRow(w, rec, loop),
         \A a \in rec.closed : alertState[a] = "closed",
         UNCHANGED <<mode, isActive, isTripped, alertState, fires, runs, unchecked>>,
         faults' \in 0..MaxFaults
  PROVE  IInv'
<1>1. Len(runs) \in Nat
  BY Facts
<1>2. PICK r \in WorkerType :
        /\ Become(w, r) /\ LocalOK(r, fires, runs) /\ r.alert = None
        /\ r.closed \subseteq rec.closed
        /\ off' \in SUBSET Workers /\ off' \ {w} \subseteq off
        /\ w \in off' => Off /\ MayBeOff(r)
  BY <1>1, NextRowFacts
<1>3. \A a \in r.closed : alertState[a] = "closed"
  BY <1>2
<1>. QED
  BY <1>2, <1>3, Facts, MovedOnly

LEMMA WatchThrowsKeeps ==
  ASSUME RunbookAssumption, IInv, NEW w \in Workers, WatchThrows(w)
  PROVE  IInv'
<1>1. /\ worker[w].pc \in WatchSteps /\ NextRow(w, worker[w], "watch")
      /\ UNCHANGED <<mode, isActive, isTripped, alertState, fires, runs, unchecked>>
  BY DEF WatchThrows, WatchSteps, Settings
<1>2. faults' \in 0..MaxFaults
  BY Facts, Constants DEF WatchThrows
<1>3. Visits(worker[w], "watch", fires, runs)
  BY <1>1, AtRow
<1>4. worker[w].closed = {}
  BY <1>3 DEF Visits
<1>. QED
  BY <1>1, <1>2, <1>3, <1>4, WentOn

\* The list is cut to the rows still to visit.
LEMMA Unlisted ==
  ASSUME NEW r \in WorkerType, ListedOK(r, runs), NEW left \in SUBSET r.todo
  PROVE  /\ [g \in left |-> r.listed[g]] \in ListingType
         /\ \A g \in left : MadeFor(runs, r.listed[g].run, g, r.listed[g].dry)
<1>1. left \subseteq DOMAIN r.listed /\ left \in SUBSET (1..MaxFires)
  BY DEF ListedOK, WorkerType
<1>2. PICK D \in SUBSET (1..MaxFires) : r.listed \in [D -> [run : 0..MaxRuns, dry : BOOLEAN]]
  BY DEF WorkerType, ListingType
<1>3. [g \in left |-> r.listed[g]] \in [left -> [run : 0..MaxRuns, dry : BOOLEAN]]
  BY <1>1, <1>2
<1>4. [g \in left |-> r.listed[g]] \in ListingType
  BY <1>1, <1>3 DEF ListingType
<1>. QED
  BY <1>4 DEF ListedOK

LEMMA ReadRunKeeps ==
  ASSUME RunbookAssumption, IInv, NEW w \in Workers, ReadRun(w)
  PROVE  IInv'
<1>. DEFINE f == First(worker[w].todo)
            row == worker[w].listed[f]
            state == runs[row.run].state
            left == worker[w].todo \ {f}
            listed == [g \in left |-> worker[w].listed[g]]
            rec == [worker[w] EXCEPT !.row = f, !.todo = left, !.ok = (state = "ok"),
                                     !.listed = listed]
<1>0. /\ worker[w].pc = "watch" /\ worker[w] \in WorkerType /\ LocalOK(worker[w], fires, runs)
      /\ Len(runs) \in Nat /\ worker[w].todo # {} /\ worker[w].todo \in SUBSET (1..MaxFires)
      /\ worker[w].closed = {} /\ worker[w].alert = None /\ worker[w].row = 0
  BY Facts DEF ReadRun, LocalOK, WorkerType, FireSteps, WatchSteps
<1>1. f \in worker[w].todo /\ f \in 1..MaxFires
  BY <1>0, FirstIn
<1>2. MadeFor(runs, row.run, f, row.dry)
  BY <1>0, <1>1 DEF LocalOK, ListedOK
<1>3. /\ UNCHANGED <<mode, isActive, isTripped, alertState, fires, runs, faults, unchecked>>
      /\ IF state \notin SCRIPT_TERMINAL_STATES
           THEN NextRow(w, rec, "watch")
           ELSE /\ Become(w, [rec EXCEPT !.pc = IF ~row.dry THEN "settle"
                                                ELSE IF rec.ok THEN "decide"
                                                ELSE "dryFailed"])
                /\ UNCHANGED off
  BY Zenon DEF ReadRun, Settings
<1>. HIDE DEF f, row, state
<1>l. left \in SUBSET worker[w].todo /\ left \in SUBSET (1..MaxFires)
  BY <1>0
<1>m. /\ listed \in ListingType
      /\ \A g \in left : g \in DOMAIN listed /\ MadeFor(runs, listed[g].run, g, listed[g].dry)
  <2>. HIDE DEF left
  <2>1. ListedOK(worker[w], runs)
    BY <1>0 DEF LocalOK
  <2>. QED
    BY <1>0, <1>l, <2>1, Unlisted
<1>. HIDE DEF listed
<1>4. /\ rec \in WorkerType /\ rec.row = f /\ rec.todo = left
      /\ rec.ok = (state = "ok") /\ rec.listed = listed /\ rec.run = worker[w].run
      /\ rec.alert = None /\ rec.closed = {}
  <2>. HIDE DEF left
  <2>1. left \in SUBSET (1..MaxFires) /\ f \in 0..MaxFires /\ (state = "ok") \in BOOLEAN
    BY <1>1, <1>l
  <2>. QED
    BY <1>0, <1>m, <2>1 DEF WorkerType
<1>. HIDE DEF rec, left
<1>5. \A g \in left \cup {f} : g \in DOMAIN fires /\ fires[g].state # "skipped-cooldown"
  BY <1>0, <1>1, <1>l DEF LocalOK, Rows
<1>n. ListedOK(rec, runs)
  BY <1>m, <1>4 DEF ListedOK
<1>6. CASE state \notin SCRIPT_TERMINAL_STATES
  <2>1. Visits(rec, "watch", fires, runs)
    BY <1>4, <1>5, <1>n DEF Visits
  <2>2. faults' \in 0..MaxFaults
    BY <1>3, Facts
  <2>. QED
    BY <1>3, <1>4, <1>6, <2>1, <2>2, WentOn
<1>7. CASE state \in SCRIPT_TERMINAL_STATES
  <2>1. PICK pc \in {"settle", "dryFailed", "decide"} :
          /\ Become(w, [rec EXCEPT !.pc = pc])
          /\ pc = "decide" => row.dry /\ rec.ok
    BY <1>3, <1>7
  <2>2. off' = off
    BY <1>3, <1>7
  <2>. DEFINE r == [rec EXCEPT !.pc = pc]
  <2>3. Become(w, r)
    BY <2>1
  <2>4. /\ r \in WorkerType /\ r.pc = pc /\ r.row = f /\ r.todo = left
        /\ r.ok = (state = "ok") /\ r.listed = listed /\ r.run = worker[w].run
        /\ r.alert = None /\ r.closed = {}
    BY <1>4 DEF WorkerType, Steps
  <2>. HIDE DEF r
  <2>12. state = "ok" => runs[row.run].wasOk
    <3>1. runs \in Seq(KnownRunType) /\ row.run \in DOMAIN runs
      BY <1>2 DEF MadeFor, IInv, ScalarsOK
    <3>2. runs[row.run] \in KnownRunType
      BY <3>1
    <3>. QED
      BY <3>2 DEF KnownRunType, state
  <2>5. r.pc \in {"decide", "enqueue"} => DryWasOk(runs, r.row)
    BY <1>2, <1>4, <2>1, <2>4, <2>12 DEF MadeFor, DryWasOk
  <2>6. r.pc = "settle" /\ r.ok => WasOk(runs, r.row)
    BY <1>2, <2>4, <2>12 DEF MadeFor, WasOk
  <2>7. \A g \in Rows(r) : g \in DOMAIN fires /\ fires[g].state # "skipped-cooldown"
    BY <1>1, <1>5, <2>4 DEF Rows
  <2>8. /\ r.pc \in WatchSteps /\ r.pc \notin FireSteps \cup EvaluatorSteps
        /\ r.pc \notin {"idle", "fired", "enqueued", "open", "run", "watch", "fire"}
    BY <2>1, <2>4 DEF FireSteps, WatchSteps, EvaluatorSteps
  <2>9. /\ r.run \in 0..Len(runs) /\ r.row # 0
        /\ ListedOK(r, runs)
    BY <1>0, <1>1, <1>4, <1>n, <2>4 DEF LocalOK, ListedOK
  <2>10. LocalOK(r, fires, runs)
    BY <2>4, <2>5, <2>6, <2>7, <2>8, <2>9 DEF LocalOK
  <2>11. w \in off' => Off /\ MayBeOff(r)
    BY <2>1, <2>2, <2>4, Facts DEF MayBeOff
  <2>. QED
    BY <1>3, <2>2, <2>3, <2>4, <2>10, <2>11, Facts, MovedOnly
<1>. QED
  BY <1>6, <1>7

\* Where a watcher goes once it has read a run.
LEMMA ReadRunMoves ==
  ASSUME RunbookAssumption, NEW w \in Workers, ReadRun(w), worker[w] \in WorkerType,
         LocalOK(worker[w], fires, runs)
  PROVE  \E rec \in WorkerType :
           /\ rec.alert = None /\ rec.check = worker[w].check
           /\ NextRow(w, rec, "watch") \/ \E pc \in WatchSteps : Become(w, [rec EXCEPT !.pc = pc])
<1>. DEFINE f == First(worker[w].todo)
            row == worker[w].listed[f]
            state == runs[row.run].state
            left == worker[w].todo \ {f}
            listed == [g \in left |-> worker[w].listed[g]]
            rec == [worker[w] EXCEPT !.row = f, !.todo = left, !.ok = (state = "ok"),
                                     !.listed = listed]
<1>0. worker[w].pc = "watch" /\ worker[w].alert = None
  BY DEF ReadRun, LocalOK
<1>1. f \in worker[w].todo
  <2>1. worker[w].todo # {} /\ worker[w].todo \in SUBSET (1..MaxFires)
    BY <1>0 DEF LocalOK, WorkerType
  <2>. QED
    BY <2>1, FirstIn
<1>2. rec \in WorkerType
  <2>1. f \in 0..MaxFires /\ left \in SUBSET worker[w].todo /\ left \in SUBSET (1..MaxFires)
    BY <1>0, <1>1, Constants DEF WorkerType
  <2>2. (state = "ok") \in BOOLEAN
    OBVIOUS
  <2>. HIDE DEF state, left, f
  <2>3. ListedOK(worker[w], runs)
    BY <1>0 DEF LocalOK
  <2>4. listed \in ListingType
    BY <1>0, <2>1, <2>3, Unlisted
  <2>. HIDE DEF listed
  <2>. QED
    BY <1>0, <2>1, <2>2, <2>4 DEF WorkerType
<1>3. rec.alert = None /\ rec.check = worker[w].check
  BY <1>0 DEF WorkerType
<1>4. NextRow(w, rec, "watch") \/ \E pc \in WatchSteps : Become(w, [rec EXCEPT !.pc = pc])
  <2>1. CASE state \notin SCRIPT_TERMINAL_STATES
    BY <2>1 DEF ReadRun
  <2>2. CASE state \in SCRIPT_TERMINAL_STATES
    <3>1. Become(w, [rec EXCEPT !.pc = IF ~row.dry THEN "settle"
                                       ELSE IF rec.ok THEN "decide"
                                       ELSE "dryFailed"])
      BY <2>2 DEF ReadRun
    <3>. HIDE DEF rec, row
    <3>. QED
      BY <3>1 DEF WatchSteps
  <2>. QED
    BY <2>1, <2>2
<1>. HIDE DEF rec
<1>. QED
  BY <1>2, <1>3, <1>4

LEMMA DecideKeeps ==
  ASSUME RunbookAssumption, IInv, NEW w \in Workers, Decide(w)
  PROVE  IInv'
<1>0. /\ worker[w].pc = "decide" /\ worker[w] \in WorkerType /\ LocalOK(worker[w], fires, runs)
      /\ UNCHANGED <<mode, isActive, isTripped, alertState, fires, runs, faults, off, unchecked>>
  BY Facts DEF Decide, Settings, History
<1>1. PICK pc \in {"enqueue", "reject"} : Goto(w, pc) /\ (pc = "enqueue" => ~Off)
  BY DEF Decide
<1>. DEFINE r == [worker[w] EXCEPT !.pc = pc]
<1>2. Become(w, r)
  BY <1>1 DEF Goto
<1>3. /\ r \in WorkerType /\ r.pc = pc /\ r.row = worker[w].row /\ r.todo = worker[w].todo
      /\ r.ok = worker[w].ok /\ r.listed = worker[w].listed /\ r.run = worker[w].run
      /\ r.alert = worker[w].alert /\ r.closed = worker[w].closed
  BY <1>0 DEF WorkerType, Steps
<1>. HIDE DEF r
<1>4. /\ worker[w].pc \in WatchSteps /\ r.pc \in WatchSteps
      /\ r.pc \notin FireSteps \cup EvaluatorSteps
      /\ r.pc \notin {"idle", "fired", "enqueued", "open", "run", "watch", "fire", "settle"}
  BY <1>0, <1>1, <1>3 DEF FireSteps, WatchSteps, EvaluatorSteps
<1>5. LocalOK(r, fires, runs)
  BY <1>0, <1>3, <1>4 DEF LocalOK, Rows, ListedOK
<1>6. w \in off => Off /\ MayBeOff(r)
  BY <1>0, <1>1, <1>3, Facts DEF MayBeOff
<1>. QED
  BY <1>0, <1>2, <1>3, <1>5, <1>6, Facts, MovedOnly

-----------------------------------------------------------------------------
(* What the handlers meet.                                                 *)

\* The handlers stay where they are.
LEMMA Stayed ==
  ASSUME RunbookAssumption, IInv, UNCHANGED <<mode, fires, worker>>,
         isActive' \in BOOLEAN, isTripped' \in BOOLEAN, unchecked' \in BOOLEAN,
         alertState' \in [Alerts -> {"none", "open", "closed"}],
         \A a \in Alerts : alertState[a] = "closed" => alertState'[a] = "closed",
         runs' \in Seq(KnownRunType), Extends(runs, runs'), Len(runs') <= MaxRuns,
         RealRunFollowsDryRun', faults' \in 0..MaxFaults,
         off' \subseteq off, off' # {} => Off'
  PROVE  IInv'
<1>0. ScalarsOK /\ LocalsOK /\ FiresOK /\ RoomOK /\ OffOK
  BY DEF IInv
<1>1. ScalarsOK'
  BY <1>0 DEF ScalarsOK
<1>2. Keeps(fires, fires')
  BY DEF Keeps
<1>3. LocalsOK'
  <2>. SUFFICES ASSUME NEW v \in Workers PROVE LocalOK(worker[v], fires', runs')
    BY ZenonT(60) DEF LocalsOK, LocalOK, willDryRun
  <2>1. LocalOK(worker[v], fires, runs)
    BY <1>0 DEF LocalsOK
  <2>. QED
    BY <1>2, <2>1, LocalKept
<1>4. FiresOK'
  BY <1>0, RunsKept DEF FiresOK, FireOK
<1>5. RoomOK'
  BY <1>0 DEF RoomOK, Evaluating
<1>6. OffOK'
  <2>1. \A v \in off' : MayBeOff(worker'[v])
    BY <1>0 DEF OffOK
  <2>2. \A v \in Workers : worker[v].closed \subseteq Alerts
    BY <1>0 DEF ScalarsOK, WorkerType
  <2>3. \A v \in Workers : \A a \in worker'[v].closed : alertState'[a] = "closed"
    BY <1>0, <2>2 DEF OffOK
  <2>. QED
    BY <2>1, <2>3 DEF OffOK
<1>. QED
  BY <1>1, <1>3, <1>4, <1>5, <1>6 DEF IInv

LEMMA RunsSame ==
  ASSUME RunbookAssumption, IInv, UNCHANGED <<mode, runs>>
  PROVE  /\ runs' \in Seq(KnownRunType) /\ Extends(runs, runs') /\ Len(runs') <= MaxRuns
         /\ RealRunFollowsDryRun'
<1>1. runs \in Seq(KnownRunType) /\ Len(runs) <= MaxRuns /\ RealRunFollowsDryRun
  BY DEF IInv, ScalarsOK
<1>. QED
  BY <1>1 DEF Extends, RealRunFollowsDryRun

LEMMA EndsAreStates == ASSUME NEW dry PROVE Ends(dry) \subseteq ScriptState
BY DEF Ends, nextState, Reports, SimulatedOutcomes, ScriptState, Finished

LEMMA RunEndsKeeps ==
  ASSUME RunbookAssumption, IInv, NEW r \in 1..MaxRuns, RunEnds(r) \/ RunEndsAgain(r)
  PROVE  IInv'
<1>0. /\ runs \in Seq(KnownRunType) /\ Len(runs) \in Nat /\ Len(runs) <= MaxRuns
      /\ DOMAIN runs = 1..Len(runs) /\ RealRunFollowsDryRun
      /\ r \in DOMAIN runs /\ runs[r] \in KnownRunType
  BY DEF IInv, ScalarsOK, RunEnds, RunEndsAgain
<1>1. PICK state \in {Seen(end) : end \in Ends(runs[r].dry)} :
        runs' = [runs EXCEPT ![r].state = state, ![r].wasOk = @ \/ state = "ok"]
  BY DEF RunEnds, RunEndsAgain, GetsAnEnd
<1>2. state \in ScriptState
  BY EndsAreStates DEF Seen, ScriptState, Finished
<1>. DEFINE new == [runs[r] EXCEPT !.state = state, !.wasOk = @ \/ state = "ok"]
<1>3. /\ new \in KnownRunType /\ new.fire = runs[r].fire /\ new.dry = runs[r].dry
      /\ runs[r].wasOk => new.wasOk
  <2>1. (runs[r].wasOk \/ state = "ok") \in BOOLEAN
    OBVIOUS
  <2>. QED
    BY <1>0, <1>2, <2>1 DEF RunType, KnownRunType
<1>4. runs' = [runs EXCEPT ![r] = new]
  BY <1>1
<1>. HIDE DEF new
<1>5. /\ runs' \in Seq(KnownRunType) /\ Len(runs') = Len(runs) /\ DOMAIN runs' = DOMAIN runs
      /\ runs'[r] = new /\ \A n \in DOMAIN runs : n # r => runs'[n] = runs[n]
  BY <1>0, <1>3, <1>4
<1>6. /\ \A n \in DOMAIN runs : /\ runs'[n].fire = runs[n].fire /\ runs'[n].dry = runs[n].dry
                                /\ runs[n].wasOk => runs'[n].wasOk
  BY <1>0, <1>3, <1>5
<1>7. Extends(runs, runs')
  BY <1>0, <1>5, <1>6 DEF Extends
<1>8. UNCHANGED <<mode, isActive, isTripped, alertState, fires, worker, off, unchecked>>
  BY DEF RunEnds, RunEndsAgain, Settings, History
<1>12. faults' \in 0..MaxFaults
  BY Constants DEF IInv, ScalarsOK, RunEnds, RunEndsAgain
<1>9. RealRunFollowsDryRun'
  <2>. SUFFICES ASSUME NEW n \in DOMAIN runs', ~runs'[n].dry
                PROVE  \/ mode = "plain"
                       \/ /\ mode = "dryFirst"
                          /\ \E d \in 1..(n - 1) : /\ runs'[d].wasOk /\ runs'[d].dry
                                                   /\ runs'[d].fire = runs'[n].fire
    BY <1>8 DEF RealRunFollowsDryRun
  <2>1. n \in DOMAIN runs /\ ~runs[n].dry /\ runs'[n].fire = runs[n].fire
    BY <1>5, <1>6
  <2>2. CASE mode = "plain"
    BY <2>2
  <2>3. CASE mode # "plain"
    <3>1. /\ mode = "dryFirst"
          /\ \E d \in 1..(n - 1) : runs[d].wasOk /\ runs[d].dry /\ runs[d].fire = runs[n].fire
      BY <1>0, <2>1, <2>3 DEF RealRunFollowsDryRun
    <3>2. \A d \in 1..(n - 1) : d \in DOMAIN runs
      BY <1>0, <2>1
    <3>. QED
      BY <1>6, <2>1, <3>1, <3>2
  <2>. QED
    BY <2>2, <2>3
<1>10. ScalarsOK /\ OffOK
  BY DEF IInv
<1>11. /\ isActive' \in BOOLEAN /\ isTripped' \in BOOLEAN /\ unchecked' \in BOOLEAN
       /\ alertState' \in [Alerts -> {"none", "open", "closed"}] /\ faults' \in 0..MaxFaults
       /\ off' # {} => Off'
  BY <1>8, <1>10, <1>12 DEF ScalarsOK, OffOK, Off
<1>. QED
  BY <1>0, <1>5, <1>7, <1>8, <1>9, <1>11, Stayed

LEMMA CloseAlertKeeps ==
  ASSUME RunbookAssumption, IInv, NEW a \in Alerts, CloseAlert(a)
  PROVE  IInv'
<1>1. ScalarsOK /\ OffOK
  BY DEF IInv
<1>2. UNCHANGED <<mode, isActive, isTripped, fires, runs, worker, faults, off, unchecked>>
  BY DEF CloseAlert, Settings, History
<1>3. /\ alertState' \in [Alerts -> {"none", "open", "closed"}]
      /\ \A b \in Alerts : alertState[b] = "closed" => alertState'[b] = "closed"
  BY <1>1 DEF CloseAlert, ScalarsOK
<1>4. /\ isActive' \in BOOLEAN /\ isTripped' \in BOOLEAN /\ unchecked' \in BOOLEAN
      /\ faults' \in 0..MaxFaults /\ (off' # {} => Off')
  BY <1>1, <1>2 DEF ScalarsOK, OffOK, Off
<1>. QED
  BY <1>2, <1>3, <1>4, RunsSame, Stayed

LEMMA ToggleKeeps ==
  ASSUME RunbookAssumption, IInv, toggleActive \/ untripRunbook
  PROVE  IInv'
<1>1. ScalarsOK /\ OffOK /\ MaxFaults \in Nat
  BY Constants DEF IInv
<1>2. UNCHANGED <<mode, alertState, fires, runs, worker>>
  BY DEF toggleActive, untripRunbook
<1>3. isActive' \in BOOLEAN /\ isTripped' \in BOOLEAN /\ unchecked' \in BOOLEAN
  BY <1>1 DEF ScalarsOK, toggleActive, untripRunbook
<1>4. faults' \in 0..MaxFaults
  BY <1>1 DEF ScalarsOK, toggleActive, untripRunbook
<1>5. off' \subseteq off /\ (off' # {} => Off')
  <2>1. CASE toggleActive
    BY <1>1, <2>1 DEF toggleActive, OffOK, Off, ScalarsOK
  <2>2. CASE untripRunbook
    BY <1>1, <2>2 DEF untripRunbook, OffOK, Off, ScalarsOK
  <2>. QED
    BY <2>1, <2>2
<1>6. alertState' \in [Alerts -> {"none", "open", "closed"}]
  BY <1>1, <1>2 DEF ScalarsOK
<1>. QED
  BY <1>2, <1>3, <1>4, <1>5, <1>6, RunsSame, Stayed

LEMMA CrashKeeps ==
  ASSUME RunbookAssumption, IInv, Crash
  PROVE  IInv'
<1>0. /\ ScalarsOK /\ LocalsOK /\ FiresOK /\ RealRunFollowsDryRun /\ RoomOK /\ OffOK
      /\ MaxFaults \in Nat /\ MaxFires \in Nat /\ IsFiniteSet(Workers)
  BY Constants DEF IInv
<1>1. PICK K \in (SUBSET {w \in Workers : Busy(w)}) \ {{}} :
        /\ worker' = [w \in Workers |-> IF w \in K THEN Idle ELSE worker[w]]
        /\ off' = off \ K
        /\ unchecked' = (unchecked \/ \E w \in K :
                           worker[w].check \/ worker[w].pc \in {"tripRead", "tripWrite"})
  BY DEF Crash
<1>2. UNCHANGED <<mode, isActive, isTripped, alertState, fires, runs>> /\ faults' \in 0..MaxFaults
  BY <1>0 DEF Crash, Settings, ScalarsOK
<1>3. /\ worker' \in [Workers -> WorkerType] /\ off' \in SUBSET Workers /\ unchecked' \in BOOLEAN
  <2>1. worker' \in [Workers -> WorkerType]
    BY <1>0, <1>1, IdleType DEF ScalarsOK
  <2>2. off' \in SUBSET Workers
    BY <1>0, <1>1 DEF ScalarsOK
  <2>3. unchecked' \in BOOLEAN
    BY <1>0, <1>1 DEF ScalarsOK
  <2>. QED
    BY <2>1, <2>2, <2>3
<1>4. ScalarsOK'
  BY <1>0, <1>2, <1>3 DEF ScalarsOK
<1>5. Idle.alert = None /\ Idle.closed = {} /\ Len(runs) \in Nat /\ LocalOK(Idle, fires, runs)
  <2>1. runs \in Seq(KnownRunType)
    BY <1>0 DEF ScalarsOK
  <2>2. Len(runs) \in Nat
    BY <2>1
  <2>. QED
    BY <2>2, IdleOK
<1>6. \A v \in Workers : worker'[v] = Idle \/ worker'[v] = worker[v]
  BY <1>1
<1>7. LocalsOK'
  <2>. SUFFICES ASSUME NEW v \in Workers PROVE LocalOK(worker'[v], fires, runs)
    BY <1>2, ZenonT(60) DEF LocalsOK, LocalOK, willDryRun
  <2>. QED
    BY <1>0, <1>5, <1>6 DEF LocalsOK
<1>8. RoomOK'
  <2>. DEFINE now == {v \in Workers : worker'[v].alert # None}
  <2>1. now \subseteq Evaluating /\ IsFiniteSet(Evaluating)
    BY <1>0, <1>5, <1>6, FS_Subset DEF Evaluating
  <2>2. Cardinality(now) <= Cardinality(Evaluating) /\ Cardinality(now) \in Nat
        /\ Cardinality(Evaluating) \in Nat
    BY <2>1, FS_Subset, FS_CardinalityType
  <2>3. fires \in Seq(FireType)
    BY <1>0 DEF ScalarsOK
  <2>4. Len(fires) \in Nat
    BY <2>3
  <2>5. Len(fires) + Cardinality(now) <= MaxFires
    BY <1>0, <2>2, <2>4 DEF RoomOK
  <2>. QED
    BY <1>2, <2>5 DEF RoomOK, Evaluating
<1>9. OffOK'
  <2>1. off' # {} => Off'
    BY <1>0, <1>1, <1>2 DEF OffOK, Off
  <2>2. \A v \in off' : MayBeOff(worker'[v])
    BY <1>0, <1>1, <1>3 DEF OffOK
  <2>3. \A v \in Workers : \A a \in worker'[v].closed : alertState'[a] = "closed"
    BY <1>0, <1>2, <1>5, <1>6 DEF OffOK
  <2>. QED
    BY <2>1, <2>2, <2>3 DEF OffOK
<1>10. FiresOK' /\ RealRunFollowsDryRun'
  BY <1>0, <1>2 DEF FiresOK, FireOK, RealRunFollowsDryRun
<1>. QED
  BY <1>4, <1>7, <1>8, <1>9, <1>10 DEF IInv

LEMMA Stutters ==
  ASSUME RunbookAssumption, IInv, UNCHANGED vars
  PROVE  IInv'
<1>1. ScalarsOK /\ OffOK
  BY DEF IInv
<1>2. UNCHANGED <<mode, isActive, isTripped, alertState, fires, runs, worker, faults, off, unchecked>>
  BY DEF vars
<1>3. /\ isActive' \in BOOLEAN /\ isTripped' \in BOOLEAN /\ unchecked' \in BOOLEAN
      /\ alertState' \in [Alerts -> {"none", "open", "closed"}] /\ faults' \in 0..MaxFaults
      /\ off' # {} => Off'
  BY <1>1, <1>2 DEF ScalarsOK, OffOK, Off
<1>. QED
  BY <1>2, <1>3, RunsSame, Stayed

-----------------------------------------------------------------------------
(* The invariant holds, and what follows from it.                          *)

LEMMA Initial == ASSUME RunbookAssumption, Init PROVE IInv
<1>0. /\ fires = <<>> /\ runs = <<>> /\ worker = [w \in Workers |-> Idle] /\ off = {}
      /\ mode \in Mode /\ MaxFires \in Nat /\ MaxRuns \in Nat /\ MaxFaults \in Nat
  BY Constants DEF Init
<1>1. Idle.alert = None /\ Idle.closed = {} /\ LocalOK(Idle, fires, runs)
  BY <1>0, IdleOK
<1>2. ScalarsOK
  <2>1. /\ isActive \in BOOLEAN /\ isTripped \in BOOLEAN /\ unchecked \in BOOLEAN
        /\ alertState \in [Alerts -> {"none", "open", "closed"}] /\ faults \in 0..MaxFaults
    <3>1. isActive = TRUE /\ isTripped = FALSE /\ unchecked = FALSE /\ faults = 0
      BY DEF Init
    <3>2. alertState = [a \in Alerts |-> "none"]
      BY DEF Init
    <3>3. alertState \in [Alerts -> {"none", "open", "closed"}]
      BY <3>2
    <3>4. faults \in 0..MaxFaults
      BY <1>0, <3>1
    <3>. QED
      BY <3>1, <3>3, <3>4
  <2>2. fires \in Seq(FireType) /\ runs \in Seq(KnownRunType) /\ Len(runs) <= MaxRuns
    BY <1>0
  <2>3. worker \in [Workers -> WorkerType] /\ off \in SUBSET Workers
    BY <1>0, IdleType
  <2>. QED
    BY <1>0, <2>1, <2>2, <2>3 DEF ScalarsOK
<1>3. LocalsOK
  BY <1>0, <1>1 DEF LocalsOK
<1>4. FiresOK /\ RealRunFollowsDryRun
  BY <1>0 DEF FiresOK, RealRunFollowsDryRun
<1>5. RoomOK
  <2>1. Evaluating = {}
    BY <1>0, <1>1 DEF Evaluating
  <2>2. Cardinality(Evaluating) = 0
    BY <2>1, FS_EmptySet
  <2>. QED
    BY <1>0, <2>2 DEF RoomOK
<1>6. OffOK
  BY <1>0, <1>1 DEF OffOK
<1>. QED
  BY <1>2, <1>3, <1>4, <1>5, <1>6 DEF IInv

LEMMA StepKeeps ==
  ASSUME RunbookAssumption, IInv, NEW w \in Workers, Step(w)
  PROVE  IInv'
<1>1. \/ CooldownGate(w) \/ RateGate(w) \/ Schedule(w) \/ SkipTripped(w)
      \/ TripRead(w) \/ TripWrite(w) \/ checkConsecutiveFailures(w)
      \/ FireCheck(w) \/ FireOpen(w) \/ SkipCleared(w) \/ SkipOff(w) \/ FireRun(w) \/ Fired(w)
      \/ ReadRun(w) \/ Decide(w) \/ Settle(w) \/ DryRunFailed(w) \/ PredicateFailed(w)
      \/ EnqueueReal(w) \/ Enqueued(w)
  BY Zenon DEF Step
<1>2. CASE CooldownGate(w)
  BY <1>2, CooldownGateKeeps
<1>3. CASE RateGate(w)
  BY <1>3, RateGateKeeps
<1>4. CASE Schedule(w) \/ SkipTripped(w)
  BY <1>4, ScheduleKeeps
<1>5. CASE TripRead(w) \/ TripWrite(w) \/ checkConsecutiveFailures(w)
  BY <1>5, TripKeeps
<1>6. CASE FireCheck(w) \/ FireOpen(w)
  BY <1>6, FireCheckKeeps, FireOpenKeeps
<1>7. CASE SkipCleared(w) \/ SkipOff(w)
  BY <1>7, FireWrites
<1>8. CASE FireRun(w) \/ EnqueueReal(w)
  BY <1>8, MakesKeep
<1>9. CASE Fired(w) \/ Enqueued(w)
  BY <1>9, PointsKeep
<1>10. CASE ReadRun(w) \/ Decide(w)
  BY <1>10, ReadRunKeeps, DecideKeeps
<1>11. CASE Settle(w) \/ DryRunFailed(w) \/ PredicateFailed(w)
  BY <1>11, WatchWrites
<1>. QED
  BY <1>1, <1>2, <1>3, <1>4, <1>5, <1>6, <1>7, <1>8, <1>9, <1>10, <1>11

\* Time goes on: the edge of the cooldown only moves with an evaluation, and forward.
EdgeOK == edge \in Nat

LEMMA EdgeKept == ASSUME EdgeOK, [Next]_vars PROVE EdgeOK'
<1>0. edge \in Nat
  BY DEF EdgeOK
<1>1. CASE \E w \in Workers, a \in Alerts : Evaluate(w, a)
  <2>1. edge' = edge \/ \E n : edge' \in edge..n
    BY <1>1 DEF Evaluate
  <2>. QED
    BY <1>0, <2>1 DEF EdgeOK
<1>2. CASE edge' = edge
  BY <1>0, <1>2 DEF EdgeOK
<1>3. ASSUME NEW w \in Workers, Step(w) PROVE edge' = edge
  <2>1. CASE CooldownGate(w) \/ RateGate(w) \/ Schedule(w) \/ SkipTripped(w)
    BY <2>1 DEF CooldownGate, RateGate, Schedule, SkipTripped, Cooldown
  <2>2. CASE TripRead(w) \/ TripWrite(w) \/ checkConsecutiveFailures(w)
    BY <2>2 DEF TripRead, TripWrite, checkConsecutiveFailures, Cooldown
  <2>3. CASE \/ FireCheck(w) \/ FireOpen(w) \/ SkipCleared(w) \/ SkipOff(w) \/ FireRun(w)
             \/ Fired(w)
    BY <2>3 DEF FireCheck, FireOpen, SkipCleared, SkipOff, FireRun, Fired, Cooldown
  <2>4. CASE \/ ReadRun(w) \/ Decide(w) \/ Settle(w) \/ DryRunFailed(w) \/ PredicateFailed(w)
             \/ EnqueueReal(w) \/ Enqueued(w)
    BY <2>4 DEF ReadRun, Decide, Settle, DryRunFailed, PredicateFailed, EnqueueReal, Enqueued,
         Cooldown
  <2>. QED
    BY <1>3, <2>1, <2>2, <2>3, <2>4, Zenon DEF Step
<1>4. CASE \E w \in Workers : \/ FireTick(w) \/ WatchTick(w) \/ FireThrows(w) \/ WatchThrows(w)
                             \/ EnqueueThrows(w)
  BY <1>4, <1>2 DEF FireTick, WatchTick, FireThrows, WatchThrows, EnqueueThrows, Cooldown
<1>5. CASE \/ \E r \in 1..MaxRuns : RunEnds(r) \/ RunEndsAgain(r)
           \/ \E a \in Alerts : CloseAlert(a)
           \/ toggleActive \/ untripRunbook \/ Crash \/ UNCHANGED vars
  BY <1>5, <1>2 DEF RunEnds, RunEndsAgain, CloseAlert, toggleActive, untripRunbook, Crash, vars,
         Cooldown
<1>. QED
  BY <1>1, <1>2, <1>3, <1>4, <1>5 DEF Next

LEMMA Preserved == ASSUME RunbookAssumption, IInv, EdgeOK, [Next]_vars PROVE IInv'
<1>1. CASE \E w \in Workers : Step(w)
  BY <1>1, StepKeeps
<1>2. CASE \E w \in Workers : FireTick(w)
  BY <1>2, FireTickKeeps
<1>3. CASE \E w \in Workers : WatchTick(w)
  BY <1>3, WatchTickKeeps
<1>4. CASE \E w \in Workers : FireThrows(w)
  BY <1>4, FireWrites
<1>5. CASE \E w \in Workers : WatchThrows(w)
  BY <1>5, WatchThrowsKeeps
<1>6. CASE \E w \in Workers : EnqueueThrows(w)
  BY <1>6, WatchWrites
<1>7. CASE \E w \in Workers, a \in Alerts : Evaluate(w, a)
  BY <1>7, EvaluateKeeps DEF EdgeOK
<1>8. CASE \E r \in 1..MaxRuns : RunEnds(r) \/ RunEndsAgain(r)
  BY <1>8, RunEndsKeeps
<1>9. CASE \E a \in Alerts : CloseAlert(a)
  BY <1>9, CloseAlertKeeps
<1>10. CASE toggleActive \/ untripRunbook
  BY <1>10, ToggleKeeps
<1>11. CASE Crash
  BY <1>11, CrashKeeps
<1>12. CASE UNCHANGED vars
  BY <1>12, Stutters
<1>. QED
  BY <1>1, <1>2, <1>3, <1>4, <1>5, <1>6, <1>7, <1>8, <1>9, <1>10, <1>11, <1>12 DEF Next

\* The inductive invariant holds in every state of the system.
THEOREM Invariance == ASSUME RunbookAssumption PROVE Spec => []IInv
<1>1. Init => IInv
  BY Initial
<1>2. Init => EdgeOK
  BY DEF Init, EdgeOK
<1>3. IInv /\ EdgeOK /\ [Next]_vars => IInv'
  BY Preserved
<1>4. EdgeOK /\ [Next]_vars => EdgeOK'
  BY EdgeKept
<1>. QED
  BY <1>1, <1>2, <1>3, <1>4, PTL DEF Spec

\* However the ticks of the two crons overlap, a runbook that asks for a dry
\* run makes no real run of a fire before a dry run of it was ok, and a script
\* that cannot run dry is only ever run dry.
THEOREM DryRunGate == ASSUME RunbookAssumption PROVE Spec => []RealRunFollowsDryRun
<1>1. IInv => RealRunFollowsDryRun
  BY DEF IInv
<1>. QED
  BY <1>1, Invariance, PTL

\* A fire is only recorded as succeeded after some run made for it was ok.
THEOREM SuccessRan == ASSUME RunbookAssumption PROVE Spec => []SucceededFireRan
<1>1. IInv => SucceededFireRan
  BY DEF IInv, FiresOK, FireOK, WasOk, SucceededFireRan
<1>. QED
  BY <1>1, Invariance, PTL

\* No first run is about to be made for an alert that was closed when the tick
\* began, and none at all for a runbook that has been off ever since.
THEOREM Wanted == ASSUME RunbookAssumption PROVE Spec => []RunsAreWanted
<1>1. IInv => RunsAreWanted
  <2>. SUFFICES ASSUME IInv, NEW w \in Workers, worker[w].pc \in {"run", "enqueue", "schedule"}
                PROVE  /\ w \notin off
                       /\ worker[w].row # 0 => fires[worker[w].row].alert \notin worker[w].closed
    BY DEF RunsAreWanted
  <2>1. LocalOK(worker[w], fires, runs) /\ (w \in off => MayBeOff(worker[w])) /\ None \notin Alerts
    BY Facts, Constants
  <2>2. w \notin off
    BY <2>1 DEF LocalOK, MayBeOff, EvaluatorSteps
  <2>3. CASE worker[w].pc = "run"
    BY <2>1, <2>2, <2>3 DEF LocalOK
  <2>4. CASE worker[w].pc = "enqueue"
    BY <2>1, <2>2, <2>4 DEF LocalOK, WatchSteps
  <2>5. CASE worker[w].pc = "schedule"
    BY <2>1, <2>2, <2>5 DEF LocalOK, FireSteps, WatchSteps
  <2>. QED
    BY <2>3, <2>4, <2>5
<1>. QED
  BY <1>1, Invariance, PTL

-----------------------------------------------------------------------------
(* The cooldown.  The fires inside it and the evaluations past the gate,   *)
(* which have a fire to add, are together no more than the peak.           *)

\* The fires for key k after the first e that the cooldown gate counts.
Within(fs, e, k) ==
  {f \in (e + 1)..Len(fs) : AlertKey[fs[f].alert] = k /\ fs[f].state # "skipped-cooldown"}

CoolOK ==
  /\ edge \in 0..Len(fires)
  /\ peak \in [Keys -> Nat]
  /\ \A w \in Workers :
       worker[w].alert # None /\ worker[w].pc = "cooldown" => worker[w].edge <= edge
  /\ \A k \in Keys :
       Cardinality(Within(fires, edge, k)) + Cardinality(PastGate(k)) <= peak[k]

LEMMA WithinFinite ==
  ASSUME NEW fs, Len(fs) \in Nat, NEW e \in Nat, NEW k
  PROVE  IsFiniteSet(Within(fs, e, k)) /\ Cardinality(Within(fs, e, k)) \in Nat
<1>1. IsFiniteSet((e + 1)..Len(fs))
  BY FS_Interval
<1>2. Within(fs, e, k) \subseteq (e + 1)..Len(fs)
  BY DEF Within
<1>3. IsFiniteSet(Within(fs, e, k))
  BY <1>1, <1>2, FS_Subset
<1>. QED
  BY <1>3, FS_CardinalityType

LEMMA PastGateFinite ==
  ASSUME RunbookAssumption, NEW k
  PROVE  IsFiniteSet(PastGate(k)) /\ Cardinality(PastGate(k)) \in Nat
<1>1. PastGate(k) \subseteq Workers /\ IsFiniteSet(Workers)
  BY Constants DEF PastGate
<1>2. IsFiniteSet(PastGate(k))
  BY <1>1, FS_Subset
<1>. QED
  BY <1>2, FS_CardinalityType

LEMMA Later ==
  ASSUME NEW d \in Nat, NEW e \in Nat, d <= e, NEW m \in Nat, NEW n \in Nat
  PROVE  \A f \in (e + 1)..n : f \in 1..n /\ (f \in 1..m => f \in (d + 1)..m)
OBVIOUS

\* What handler v may do in a step that lets no evaluation through the gate.
Lingers(v) ==
  /\ worker'[v].alert # None /\ worker'[v].pc # "cooldown" =>
       worker'[v].alert = worker[v].alert /\ worker[v].pc # "cooldown"
  /\ worker'[v].alert # None /\ worker'[v].pc = "cooldown" => worker'[v].edge <= edge'

\* No evaluation passes the gate, and no fire that counts is added.
LEMMA CoolKept ==
  ASSUME RunbookAssumption, CoolOK, Len(fires) \in Nat, DOMAIN fires = 1..Len(fires),
         Len(fires') \in Nat, edge' \in edge..Len(fires'), peak' = peak,
         \A f \in 1..Len(fires') : fires'[f].state # "skipped-cooldown" =>
           /\ f \in DOMAIN fires /\ fires[f].state # "skipped-cooldown"
           /\ fires'[f].alert = fires[f].alert,
         \A v \in Workers : Lingers(v)
  PROVE  CoolOK'
<1>0. edge \in Nat /\ edge' \in Nat /\ edge' \in 0..Len(fires') /\ edge <= edge'
      /\ peak \in [Keys -> Nat]
  BY DEF CoolOK
<1>. DEFINE past(k) == {v \in Workers : /\ worker'[v].alert # None
                                         /\ AlertKey[worker'[v].alert] = k
                                         /\ worker'[v].pc # "cooldown"}
<1>1. ASSUME NEW k \in Keys
      PROVE  Cardinality(Within(fires', edge', k)) + Cardinality(past(k)) <= peak[k]
  <2>1. Within(fires', edge', k) \subseteq Within(fires, edge, k)
    <3>. SUFFICES ASSUME NEW f \in Within(fires', edge', k) PROVE f \in Within(fires, edge, k)
      OBVIOUS
    <3>1. f \in (edge' + 1)..Len(fires') /\ AlertKey[fires'[f].alert] = k
          /\ fires'[f].state # "skipped-cooldown"
      BY DEF Within
    <3>2. f \in 1..Len(fires') /\ (f \in 1..Len(fires) => f \in (edge + 1)..Len(fires))
      BY <1>0, <3>1, Later
    <3>3. /\ f \in 1..Len(fires) /\ fires[f].state # "skipped-cooldown"
          /\ fires'[f].alert = fires[f].alert
      BY <3>1, <3>2
    <3>4. f \in (edge + 1)..Len(fires)
      BY <3>2, <3>3
    <3>. QED
      BY <3>1, <3>3, <3>4 DEF Within
  <2>2. past(k) \subseteq PastGate(k)
    BY DEF PastGate, Lingers
  <2>3. /\ Cardinality(Within(fires', edge', k)) <= Cardinality(Within(fires, edge, k))
        /\ Cardinality(Within(fires', edge', k)) \in Nat /\ Cardinality(Within(fires, edge, k)) \in Nat
    <3>1. IsFiniteSet(Within(fires, edge, k)) /\ Cardinality(Within(fires, edge, k)) \in Nat
      BY <1>0, WithinFinite
    <3>2. Cardinality(Within(fires', edge', k)) \in Nat
      BY <1>0, WithinFinite
    <3>. QED
      BY <2>1, <3>1, <3>2, FS_Subset
  <2>4. IsFiniteSet(PastGate(k)) /\ Cardinality(PastGate(k)) \in Nat
    BY PastGateFinite
  <2>. HIDE DEF past
  <2>5. Cardinality(past(k)) <= Cardinality(PastGate(k)) /\ Cardinality(past(k)) \in Nat
    BY <2>2, <2>4, FS_Subset, FS_CardinalityType
  <2>6. Cardinality(Within(fires, edge, k)) + Cardinality(PastGate(k)) <= peak[k] /\ peak[k] \in Nat
    BY <1>0 DEF CoolOK
  <2>. QED
    BY <2>3, <2>4, <2>5, <2>6
<1>2. \A k \in Keys' : Cardinality(Within(fires', edge', k)) + Cardinality(PastGate(k)') <= peak'[k]
  BY <1>1 DEF PastGate, Keys
<1>3. \A w \in Workers :
        worker'[w].alert # None /\ worker'[w].pc = "cooldown" => worker'[w].edge <= edge'
  BY DEF Lingers
<1>4. peak' \in [Keys -> Nat]
  BY <1>0
<1>. QED
  BY <1>0, <1>2, <1>3, <1>4 DEF CoolOK, Within, Keys

\* A handler moves otherwise than through the gate.
LEMMA CoolMoves ==
  ASSUME RunbookAssumption, IInv, CoolOK, NEW w \in Workers, NEW r, Become(w, r),
         r.alert # None =>
           r.alert = worker[w].alert /\ r.pc # "cooldown" /\ worker[w].pc # "cooldown",
         UNCHANGED <<edge, peak>>
  PROVE  \A v \in Workers : Lingers(v)
<1>0. worker \in [Workers -> WorkerType]
  BY DEF IInv, ScalarsOK
<1>1. worker'[w] = r /\ \A v \in Workers : v # w => worker'[v] = worker[v]
  BY <1>0 DEF Become
<1>2. Lingers(w)
  BY <1>1 DEF Lingers
<1>3. ASSUME NEW v \in Workers, v # w PROVE Lingers(v)
  BY <1>1, <1>3 DEF Lingers, CoolOK
<1>. QED
  BY <1>2, <1>3

\* A handler moves so and adds no row.
LEMMA CoolSame ==
  ASSUME RunbookAssumption, IInv, CoolOK, UNCHANGED <<fires, edge, peak>>,
         \A v \in Workers : Lingers(v)
  PROVE  CoolOK'
<1>1. fires \in Seq(FireType)
  BY DEF IInv, ScalarsOK
<1>2. Len(fires) \in Nat /\ DOMAIN fires = 1..Len(fires)
  BY <1>1
<1>3. edge' \in edge..Len(fires')
  BY <1>2 DEF CoolOK
<1>. QED
  BY <1>2, <1>3, CoolKept

\* A cron writes the row it is at and goes on.
LEMMA CoolWrites ==
  ASSUME RunbookAssumption, IInv, CoolOK, NEW w \in Workers,
         worker[w].pc \in FireSteps \cup WatchSteps,
         NEW row, fires' = [fires EXCEPT ![worker[w].row] = row],
         row.alert = fires[worker[w].row].alert,
         NEW r, Become(w, r), r.alert = None, UNCHANGED <<edge, peak>>
  PROVE  CoolOK'
<1>. DEFINE g == worker[w].row
<1>1. g \in DOMAIN fires /\ fires[g].state # "skipped-cooldown" /\ fires \in Seq(FireType)
  BY AtRow, Facts
<1>2. /\ Len(fires) \in Nat /\ DOMAIN fires = 1..Len(fires) /\ Len(fires') = Len(fires)
      /\ fires'[g] = row /\ \A f \in DOMAIN fires : f # g => fires'[f] = fires[f]
  BY <1>1
<1>. HIDE DEF g
<1>3. \A f \in 1..Len(fires') : fires'[f].state # "skipped-cooldown" =>
        /\ f \in DOMAIN fires /\ fires[f].state # "skipped-cooldown"
        /\ fires'[f].alert = fires[f].alert
  BY <1>1, <1>2 DEF g
<1>4. \A v \in Workers : Lingers(v)
  BY CoolMoves
<1>5. edge' \in edge..Len(fires')
  BY <1>2 DEF CoolOK
<1>6. Len(fires') \in Nat
  BY <1>2
<1>. QED
  BY <1>2, <1>3, <1>4, <1>5, <1>6, CoolKept

\* An evaluation begins, at a time no earlier than the others.
LEMMA CoolEvaluate ==
  ASSUME RunbookAssumption, IInv, CoolOK, NEW w \in Workers, NEW a \in Alerts, Evaluate(w, a)
  PROVE  CoolOK'
<1>1. fires \in Seq(FireType) /\ worker \in [Workers -> WorkerType] /\ fires' = fires /\ peak' = peak
  BY DEF IInv, ScalarsOK, Evaluate
<1>2. Len(fires) \in Nat /\ DOMAIN fires = 1..Len(fires)
  BY <1>1
<1>3. CASE Off
  <2>1. worker' = worker /\ edge' = edge
    BY <1>3 DEF Evaluate
  <2>2. \A v \in Workers : Lingers(v)
    BY <2>1 DEF Lingers, CoolOK
  <2>. QED
    BY <1>1, <2>1, <2>2, CoolSame
<1>4. CASE ~Off
  <2>1. PICK hour \in 0..Len(fires) :
          /\ edge' \in edge..Len(fires)
          /\ Begin(w, [Idle EXCEPT !.pc = "cooldown", !.alert = a, !.edge = edge', !.hour = hour])
    BY <1>4 DEF Evaluate
  <2>. DEFINE r == [Idle EXCEPT !.pc = "cooldown", !.alert = a, !.edge = edge', !.hour = hour]
  <2>2. r.pc = "cooldown" /\ r.edge = edge'
    BY DEF Idle
  <2>3. worker' = [worker EXCEPT ![w] = r]
    BY <2>1 DEF Begin, Become
  <2>. HIDE DEF r
  <2>4. worker'[w] = r /\ \A v \in Workers : v # w => worker'[v] = worker[v]
    BY <1>1, <2>3
  <2>5. edge \in Nat /\ edge' \in Nat /\ edge <= edge'
    BY <1>2, <2>1 DEF CoolOK
  <2>6. Lingers(w)
    BY <2>2, <2>4, <2>5 DEF Lingers
  <2>7. ASSUME NEW v \in Workers, v # w PROVE Lingers(v)
    <3>1. worker'[v] = worker[v] /\ worker[v].edge \in Nat
      BY <1>1, <2>4, <2>7 DEF WorkerType
    <3>2. worker[v].alert # None /\ worker[v].pc = "cooldown" => worker[v].edge <= edge
      BY DEF CoolOK
    <3>. QED
      BY <2>5, <3>1, <3>2 DEF Lingers
  <2>8. \A v \in Workers : Lingers(v)
    BY <2>6, <2>7
  <2>9. edge' \in edge..Len(fires')
    BY <1>1, <2>1
  <2>. QED
    BY <1>1, <1>2, <2>8, <2>9, CoolKept
<1>. QED
  BY <1>3, <1>4

\* The fire that the gate skips does not count.
LEMMA CoolSkips ==
  ASSUME RunbookAssumption, IInv, CoolOK, NEW w \in Workers, NewFire(w, "skipped-cooldown"),
         Finish(w), UNCHANGED <<edge, peak>>
  PROVE  CoolOK'
<1>. DEFINE new == [alert |-> worker[w].alert, state |-> "skipped-cooldown", dry |-> 0, real |-> 0]
<1>1. fires \in Seq(FireType) /\ fires' = Append(fires, new) /\ new.state = "skipped-cooldown"
  BY DEF IInv, ScalarsOK, NewFire
<1>. HIDE DEF new
<1>2. /\ Len(fires) \in Nat /\ DOMAIN fires = 1..Len(fires) /\ Len(fires') = Len(fires) + 1
      /\ fires'[Len(fires) + 1] = new /\ \A f \in DOMAIN fires : fires'[f] = fires[f]
  BY <1>1
<1>3. \A f \in 1..Len(fires') : fires'[f].state # "skipped-cooldown" =>
        /\ f \in DOMAIN fires /\ fires[f].state # "skipped-cooldown"
        /\ fires'[f].alert = fires[f].alert
  BY <1>1, <1>2
<1>4. Become(w, Idle) /\ Idle.alert = None
  BY DEF Finish, Idle
<1>5. \A v \in Workers : Lingers(v)
  BY <1>4, CoolMoves
<1>6. edge' \in edge..Len(fires') /\ Len(fires') \in Nat
  BY <1>2 DEF CoolOK
<1>. QED
  BY <1>2, <1>3, <1>5, <1>6, CoolKept

\* An evaluation passes the gate: nothing for its key counts by then, and the
\* peak counts it.
LEMMA CoolPasses ==
  ASSUME RunbookAssumption, IInv, CoolOK, NEW w \in Workers, CooldownGate(w),
         ~InCooldown(worker[w].alert, worker[w].edge)
  PROVE  CoolOK'
<1>. DEFINE a == worker[w].alert
            key == AlertKey[a]
            n == Cardinality(PastGate(key)) + 1
            past(k) == {v \in Workers : /\ worker'[v].alert # None
                                         /\ AlertKey[worker'[v].alert] = k
                                         /\ worker'[v].pc # "cooldown"}
            r == [worker[w] EXCEPT !.pc = "count", !.edge = 0]
<1>0. /\ worker[w].pc = "cooldown" /\ worker[w] \in WorkerType /\ a \in Alerts
      /\ a # None /\ Len(fires) \in Nat /\ worker \in [Workers -> WorkerType]
      /\ worker[w].edge \in Nat
  BY Facts, Constants DEF CooldownGate, LocalOK, EvaluatorSteps, IInv, ScalarsOK, WorkerType
<1>1. /\ fires' = fires /\ edge' = edge /\ Become(w, r)
      /\ peak' = [peak EXCEPT ![key] = IF n > @ THEN n ELSE @]
  BY DEF CooldownGate
<1>2. r.alert = a /\ r.pc = "count"
  BY <1>0 DEF WorkerType
<1>. HIDE DEF r
<1>3. worker'[w] = r /\ \A v \in Workers : v # w => worker'[v] = worker[v]
  BY <1>0, <1>1 DEF Become
<1>4. key \in Keys /\ edge \in Nat /\ peak \in [Keys -> Nat] /\ worker[w].edge <= edge
  BY <1>0 DEF Keys, CoolOK
<1>5. n \in Nat /\ Cardinality(PastGate(key)) \in Nat
  BY PastGateFinite
<1>6. /\ peak' \in [Keys -> Nat] /\ n <= peak'[key]
      /\ \A k \in Keys : k # key => peak'[k] = peak[k]
  <2>. HIDE DEF n
  <2>1. peak[key] \in Nat
    BY <1>4
  <2>. QED
    BY <1>1, <1>4, <1>5, <2>1
<1>7. Within(fires, edge, key) = {}
  <2>. SUFFICES ASSUME NEW f \in Within(fires, edge, key) PROVE FALSE
    OBVIOUS
  <2>1. f \in (edge + 1)..Len(fires) /\ AlertKey[fires[f].alert] = key
        /\ fires[f].state # "skipped-cooldown"
    BY DEF Within
  <2>2. f \in (worker[w].edge + 1)..Len(fires)
    BY <1>0, <1>4, <2>1
  <2>. QED
    BY <2>1, <2>2 DEF InCooldown, SameKey
<1>8. ASSUME NEW k \in Keys
      PROVE  Cardinality(Within(fires, edge, k)) + Cardinality(past(k)) <= peak'[k]
  <2>1. CASE k = key
    <3>1. past(k) \subseteq PastGate(key) \cup {w}
      BY <1>3, <2>1 DEF PastGate
    <3>2. IsFiniteSet(PastGate(key)) /\ w \notin PastGate(key)
      BY <1>0, PastGateFinite DEF PastGate
    <3>. HIDE DEF past
    <3>3. IsFiniteSet(PastGate(key) \cup {w}) /\ Cardinality(PastGate(key) \cup {w}) = n
      BY <3>2, FS_AddElement
    <3>4. Cardinality(past(k)) <= n /\ Cardinality(past(k)) \in Nat
      BY <3>1, <3>3, FS_Subset, FS_CardinalityType
    <3>5. Cardinality(Within(fires, edge, k)) = 0
      BY <1>7, <2>1, FS_EmptySet
    <3>6. peak'[k] \in Nat /\ n <= peak'[k]
      BY <1>6, <2>1
    <3>. HIDE DEF n
    <3>. QED
      BY <1>5, <3>4, <3>5, <3>6
  <2>2. CASE k # key
    <3>1. past(k) = PastGate(k)
      BY <1>2, <1>3, <1>0, <2>2 DEF PastGate
    <3>2. Cardinality(Within(fires, edge, k)) + Cardinality(PastGate(k)) <= peak[k]
      BY DEF CoolOK
    <3>3. peak'[k] = peak[k]
      BY <1>6, <2>2
    <3>. HIDE DEF past
    <3>. QED
      BY <3>1, <3>2, <3>3
  <2>. QED
    BY <2>1, <2>2
<1>9. \A k \in Keys' : Cardinality(Within(fires', edge', k)) + Cardinality(PastGate(k)') <= peak'[k]
  BY <1>1, <1>8 DEF PastGate, Keys
<1>10. \A v \in Workers :
         worker'[v].alert # None /\ worker'[v].pc = "cooldown" => worker'[v].edge <= edge'
  BY <1>1, <1>2, <1>3 DEF CoolOK
<1>11. edge' \in 0..Len(fires')
  BY <1>1 DEF CoolOK
<1>. QED
  BY <1>6, <1>9, <1>10, <1>11 DEF CoolOK, Within, Keys

\* An evaluation past the gate adds its fire, which takes its place in the sum.
LEMMA CoolAdds ==
  ASSUME RunbookAssumption, IInv, CoolOK, NEW w \in Workers, NEW state, NewFire(w, state),
         Finish(w), worker[w].alert \in Alerts, worker[w].pc # "cooldown",
         UNCHANGED <<edge, peak>>
  PROVE  CoolOK'
<1>. DEFINE new == [alert |-> worker[w].alert, state |-> state, dry |-> 0, real |-> 0]
            key == AlertKey[worker[w].alert]
            past(k) == {v \in Workers : /\ worker'[v].alert # None
                                         /\ AlertKey[worker'[v].alert] = k
                                         /\ worker'[v].pc # "cooldown"}
<1>1. /\ fires \in Seq(FireType) /\ fires' = Append(fires, new)
      /\ new.alert = worker[w].alert
      /\ worker \in [Workers -> WorkerType] /\ None \notin Alerts
  BY Constants DEF IInv, ScalarsOK, NewFire
<1>. HIDE DEF new
<1>2. /\ Len(fires) \in Nat /\ Len(fires') = Len(fires) + 1
      /\ fires'[Len(fires) + 1] = new /\ \A f \in 1..Len(fires) : fires'[f] = fires[f]
  BY <1>1
<1>3. /\ worker'[w] = Idle /\ Idle.alert = None
      /\ \A v \in Workers : v # w => worker'[v] = worker[v]
  BY <1>1 DEF Finish, Become, Idle
<1>4. edge \in Nat /\ edge \in 0..Len(fires) /\ edge' = edge /\ peak' = peak /\ peak \in [Keys -> Nat]
  BY DEF CoolOK
<1>5. ASSUME NEW k \in Keys
      PROVE  Cardinality(Within(fires', edge, k)) + Cardinality(past(k)) <= peak[k]
  <2>0. /\ Cardinality(Within(fires, edge, k)) + Cardinality(PastGate(k)) <= peak[k]
        /\ peak[k] \in Nat
    BY <1>4 DEF CoolOK
  <2>1. IsFiniteSet(Within(fires, edge, k)) /\ Cardinality(Within(fires, edge, k)) \in Nat
    BY <1>2, <1>4, WithinFinite
  <2>2. IsFiniteSet(PastGate(k)) /\ Cardinality(PastGate(k)) \in Nat
    BY PastGateFinite
  <2>3. IsFiniteSet(Within(fires', edge, k)) /\ Cardinality(Within(fires', edge, k)) \in Nat
    <3>1. Len(fires') \in Nat
      BY <1>2
    <3>. QED
      BY <1>4, <3>1, WithinFinite
  <2>4. CASE k = key
    <3>1. Within(fires', edge, k) \subseteq Within(fires, edge, k) \cup {Len(fires) + 1}
      BY <1>2, <1>4 DEF Within
    <3>2. past(k) = PastGate(k) \ {w} /\ w \in PastGate(k)
      <4>1. w \in PastGate(k) /\ w \notin past(k)
        BY <1>1, <1>3, <2>4 DEF PastGate
      <4>2. \A v \in Workers : v # w => (v \in past(k) <=> v \in PastGate(k))
        BY <1>3 DEF PastGate
      <4>3. past(k) \subseteq Workers /\ PastGate(k) \subseteq Workers
        BY DEF PastGate
      <4>. HIDE DEF past
      <4>. QED
        BY <4>1, <4>2, <4>3
    <3>3. Cardinality(past(k)) = Cardinality(PastGate(k)) - 1
      <4>1. IsFiniteSet(PastGate(k)) /\ w \in PastGate(k)
        BY <2>2, <3>2
      <4>. HIDE DEF past, key
      <4>2. Cardinality(PastGate(k) \ {w}) = Cardinality(PastGate(k)) - 1
        BY <4>1, FS_RemoveElement
      <4>. QED
        BY <3>2, <4>2, Zenon
    <3>4. Len(fires) + 1 \notin Within(fires, edge, k)
      BY <1>2, <1>4 DEF Within
    <3>5. /\ IsFiniteSet(Within(fires, edge, k) \cup {Len(fires) + 1})
          /\ Cardinality(Within(fires, edge, k) \cup {Len(fires) + 1})
               = Cardinality(Within(fires, edge, k)) + 1
      BY <2>1, <3>4, FS_AddElement
    <3>6. Cardinality(Within(fires', edge, k)) <= Cardinality(Within(fires, edge, k)) + 1
      BY <3>1, <3>5, FS_Subset
    <3>. HIDE DEF past, key
    <3>. QED
      BY <2>0, <2>1, <2>2, <2>3, <3>3, <3>6
  <2>5. CASE k # key
    <3>1. Within(fires', edge, k) \subseteq Within(fires, edge, k)
      BY <1>1, <1>2, <1>4, <2>5 DEF Within
    <3>2. past(k) = PastGate(k)
      <4>1. w \notin PastGate(k) /\ w \notin past(k)
        BY <1>1, <1>3, <2>5 DEF PastGate
      <4>2. \A v \in Workers : v # w => (v \in past(k) <=> v \in PastGate(k))
        BY <1>3 DEF PastGate
      <4>3. past(k) \subseteq Workers /\ PastGate(k) \subseteq Workers
        BY DEF PastGate
      <4>. HIDE DEF past
      <4>. QED
        BY <4>1, <4>2, <4>3
    <3>3. Cardinality(Within(fires', edge, k)) <= Cardinality(Within(fires, edge, k))
      BY <2>1, <3>1, FS_Subset
    <3>. HIDE DEF past, key
    <3>. QED
      BY <2>0, <2>1, <2>2, <2>3, <3>2, <3>3
  <2>. QED
    BY <2>4, <2>5
<1>6. \A k \in Keys' : Cardinality(Within(fires', edge', k)) + Cardinality(PastGate(k)') <= peak'[k]
  BY <1>4, <1>5 DEF PastGate, Keys
<1>7. \A v \in Workers :
        worker'[v].alert # None /\ worker'[v].pc = "cooldown" => worker'[v].edge <= edge'
  BY <1>3, <1>4 DEF CoolOK
<1>8. edge' \in 0..Len(fires') /\ peak' \in [Keys -> Nat]
  BY <1>2, <1>4
<1>. QED
  BY <1>6, <1>7, <1>8 DEF CoolOK, Within, Keys

LEMMA CoolEvaluator ==
  ASSUME RunbookAssumption, IInv, CoolOK, NEW w \in Workers,
         CooldownGate(w) \/ RateGate(w) \/ Schedule(w) \/ SkipTripped(w)
  PROVE  CoolOK'
<1>0. /\ worker[w].pc \in EvaluatorSteps /\ worker[w].alert \in Alerts /\ worker[w] \in WorkerType
  BY Facts DEF CooldownGate, RateGate, Schedule, SkipTripped, LocalOK, EvaluatorSteps
<1>1. CASE CooldownGate(w)
  <2>1. CASE InCooldown(worker[w].alert, worker[w].edge)
    BY <1>1, <2>1, CoolSkips DEF CooldownGate
  <2>2. CASE ~InCooldown(worker[w].alert, worker[w].edge)
    BY <1>1, <2>2, CoolPasses
  <2>. QED
    BY <2>1, <2>2
<1>2. CASE RateGate(w)
  <2>0. worker[w].pc = "count" /\ UNCHANGED <<fires, edge, peak>>
    BY <1>2 DEF RateGate, Cooldown
  <2>1. \E r : Become(w, r) /\ r.alert = worker[w].alert /\ r.pc # "cooldown"
    <3>1. /\ [Idle EXCEPT !.pc = "tripRead", !.alert = worker[w].alert].alert = worker[w].alert
          /\ [Idle EXCEPT !.pc = "tripRead", !.alert = worker[w].alert].pc = "tripRead"
      BY DEF Idle
    <3>2. /\ [worker[w] EXCEPT !.pc = "schedule", !.hour = 0].alert = worker[w].alert
          /\ [worker[w] EXCEPT !.pc = "schedule", !.hour = 0].pc = "schedule"
      BY <1>0 DEF WorkerType
    <3>3. CASE firesLastHour(worker[w].hour) >= MaxFiresPerHour
      BY <1>2, <3>1, <3>3 DEF RateGate
    <3>4. CASE ~(firesLastHour(worker[w].hour) >= MaxFiresPerHour)
      BY <1>2, <3>2, <3>4 DEF RateGate
    <3>. QED
      BY <3>3, <3>4
  <2>2. \A v \in Workers : Lingers(v)
    BY <2>0, <2>1, CoolMoves
  <2>. QED
    BY <2>0, <2>2, CoolSame
<1>3. CASE Schedule(w)
  BY <1>0, <1>3, CoolAdds DEF Schedule, Cooldown
<1>4. CASE SkipTripped(w)
  BY <1>0, <1>4, CoolAdds DEF SkipTripped, Cooldown
<1>. QED
  BY <1>1, <1>2, <1>3, <1>4

LEMMA CoolTrip ==
  ASSUME RunbookAssumption, IInv, CoolOK, NEW w \in Workers,
         TripRead(w) \/ TripWrite(w) \/ checkConsecutiveFailures(w)
  PROVE  CoolOK'
<1>0. /\ worker[w].pc \in {"tripRead", "tripWrite", "check"} /\ worker[w] \in WorkerType
      /\ UNCHANGED <<fires, edge, peak>>
  BY Facts DEF TripRead, TripWrite, checkConsecutiveFailures, Cooldown
<1>1. Finish(w) \/ \E pc \in {"skip", "tripRead", "tripWrite"} : Goto(w, pc)
  BY DEF TripRead, TripWrite, checkConsecutiveFailures, AfterTrip
<1>2. \E r : Become(w, r) /\ (r.alert # None => r.alert = worker[w].alert /\ r.pc # "cooldown")
  <2>1. Idle.alert = None
    BY DEF Idle
  <2>2. \A pc \in {"skip", "tripRead", "tripWrite"} :
          /\ [worker[w] EXCEPT !.pc = pc].alert = worker[w].alert
          /\ [worker[w] EXCEPT !.pc = pc].pc = pc
    BY <1>0 DEF WorkerType
  <2>. QED
    BY <1>1, <2>1, <2>2 DEF Finish, Goto
<1>3. \A v \in Workers : Lingers(v)
  BY <1>0, <1>2, CoolMoves
<1>. QED
  BY <1>0, <1>3, CoolSame

\* The crons are no evaluations.
LEMMA NextRowNone ==
  ASSUME NEW w \in Workers, NEW rec \in WorkerType, rec.alert = None, NEW loop, NextRow(w, rec, loop)
  PROVE  \E r : Become(w, r) /\ r.alert = None
<1>1. \A pc : [rec EXCEPT !.pc = pc, !.row = 0, !.run = 0, !.ok = FALSE].alert = None
  BY DEF WorkerType
<1>2. Idle.alert = None
  BY DEF Idle
<1>. QED
  BY <1>1, <1>2 DEF NextRow, Finish

LEMMA CoolReads ==
  ASSUME RunbookAssumption, NEW w \in Workers, ReadRun(w), worker[w] \in WorkerType,
         LocalOK(worker[w], fires, runs)
  PROVE  \E r : Become(w, r) /\ r.alert = None
<1>1. PICK rec \in WorkerType :
        /\ rec.alert = None
        /\ NextRow(w, rec, "watch") \/ \E pc \in WatchSteps : Become(w, [rec EXCEPT !.pc = pc])
  BY ReadRunMoves
<1>2. CASE NextRow(w, rec, "watch")
  BY <1>1, <1>2, NextRowNone
<1>3. ASSUME NEW pc \in WatchSteps, Become(w, [rec EXCEPT !.pc = pc])
      PROVE  \E r : Become(w, r) /\ r.alert = None
  <2>1. [rec EXCEPT !.pc = pc].alert = None
    BY <1>1 DEF WorkerType
  <2>. QED
    BY <1>3, <2>1
<1>. QED
  BY <1>1, <1>2, <1>3

LEMMA CoolCron ==
  ASSUME RunbookAssumption, IInv, CoolOK, NEW w \in Workers,
         \/ FireTick(w) \/ WatchTick(w) \/ FireCheck(w) \/ FireOpen(w) \/ ReadRun(w)
         \/ Decide(w) \/ FireRun(w) \/ EnqueueReal(w) \/ WatchThrows(w)
  PROVE  CoolOK'
<1>0. /\ worker[w] \in WorkerType /\ LocalOK(worker[w], fires, runs)
      /\ UNCHANGED <<fires, edge, peak>>
  BY Facts DEF FireTick, WatchTick, FireCheck, FireOpen, ReadRun, Decide, FireRun, EnqueueReal,
         WatchThrows, Cooldown
<1>1. \E r : Become(w, r) /\ r.alert = None
  <2>1. CASE FireTick(w) \/ WatchTick(w)
    <3>1. \A todo, closed, listed :
            /\ [Idle EXCEPT !.pc = "fire", !.todo = todo, !.closed = closed].alert = None
            /\ [Idle EXCEPT !.pc = "watch", !.todo = todo, !.listed = listed].alert = None
      BY DEF Idle
    <3>. QED
      BY <2>1, <3>1 DEF FireTick, WatchTick, Begin
  <2>2. CASE ~(FireTick(w) \/ WatchTick(w))
    <3>1. worker[w].pc \in FireSteps \cup WatchSteps \cup {"fire", "watch"}
      BY <2>2 DEF FireCheck, FireOpen, ReadRun, Decide, FireRun, EnqueueReal, WatchThrows,
             FireSteps, WatchSteps
    <3>2. worker[w].alert = None
      BY <1>0, <3>1 DEF LocalOK
    <3>3. CASE WatchThrows(w)
      BY <1>0, <3>2, <3>3, NextRowNone DEF WatchThrows
    <3>4. CASE FireCheck(w)
      <4>. DEFINE f == First(worker[w].todo)
                  pc == IF alertState[fires[f].alert] = "open" THEN "open" ELSE "clear"
                  r == [worker[w] EXCEPT !.row = f, !.todo = @ \ {f}, !.pc = pc]
      <4>1. Become(w, r)
        BY <3>4 DEF FireCheck
      <4>. HIDE DEF f, pc
      <4>2. r.alert = None
        BY <1>0, <3>2 DEF WorkerType
      <4>. QED
        BY <4>1, <4>2
    <3>5. CASE FireOpen(w) \/ Decide(w)
      <4>1. \A pc : [worker[w] EXCEPT !.pc = pc].alert = None
        BY <1>0, <3>2 DEF WorkerType
      <4>. QED
        BY <3>5, <4>1 DEF FireOpen, Decide, Goto
    <3>6. CASE FireRun(w) \/ EnqueueReal(w)
      <4>1. \A pc, run : [worker[w] EXCEPT !.pc = pc, !.run = run].alert = None
        BY <1>0, <3>2 DEF WorkerType
      <4>. QED
        BY <3>6, <4>1 DEF FireRun, EnqueueReal
    <3>7. CASE ReadRun(w)
      BY <1>0, <3>2, <3>7, CoolReads
    <3>. QED
      BY <2>2, <3>3, <3>4, <3>5, <3>6, <3>7
  <2>. QED
    BY <2>1, <2>2
<1>2. \A v \in Workers : Lingers(v)
  BY <1>0, <1>1, CoolMoves
<1>. QED
  BY <1>0, <1>2, CoolSame

LEMMA CoolCronWrites ==
  ASSUME RunbookAssumption, IInv, CoolOK, NEW w \in Workers,
         \/ SkipCleared(w) \/ SkipOff(w) \/ Fired(w) \/ FireThrows(w)
         \/ Settle(w) \/ DryRunFailed(w) \/ PredicateFailed(w) \/ Enqueued(w) \/ EnqueueThrows(w)
  PROVE  CoolOK'
<1>. DEFINE f == worker[w].row
<1>0. worker[w] \in WorkerType /\ LocalOK(worker[w], fires, runs)
  BY Facts
<1>1. worker[w].pc \in FireSteps \cup WatchSteps /\ UNCHANGED <<edge, peak>>
  BY DEF SkipCleared, SkipOff, Fired, FireThrows, Settle, DryRunFailed, PredicateFailed, Enqueued,
         EnqueueThrows, Cooldown, FireSteps, WatchSteps
<1>2. worker[w].alert = None /\ fires[f] \in FireType
  BY <1>0, <1>1, AtRow DEF LocalOK
<1>3. \E r : Become(w, r) /\ r.alert = None
  <2>1. \A c \in BOOLEAN : /\ [worker[w] EXCEPT !.check = c] \in WorkerType
                           /\ [worker[w] EXCEPT !.check = c].alert = None
    BY <1>0, <1>2 DEF WorkerType
  <2>2. (worker[w].check \/ ~worker[w].ok) \in BOOLEAN
    OBVIOUS
  <2>3. \E loop : \E rec \in WorkerType : rec.alert = None /\ NextRow(w, rec, loop)
    <3>1. CASE SkipCleared(w) \/ SkipOff(w) \/ Fired(w) \/ FireThrows(w) \/ PredicateFailed(w)
               \/ Enqueued(w)
      BY <1>0, <1>2, <3>1 DEF SkipCleared, SkipOff, Fired, FireThrows, PredicateFailed, Enqueued
    <3>2. CASE DryRunFailed(w) \/ EnqueueThrows(w)
      BY <2>1, <3>2 DEF DryRunFailed, EnqueueThrows
    <3>3. CASE Settle(w)
      <4>1. NextRow(w, [worker[w] EXCEPT !.check = (worker[w].check \/ ~worker[w].ok)], "watch")
        BY <3>3 DEF Settle
      <4>. QED
        BY <2>1, <2>2, <4>1
    <3>. QED
      BY <3>1, <3>2, <3>3
  <2>. QED
    BY <2>3, NextRowNone
<1>4. \E row : fires' = [fires EXCEPT ![f] = row] /\ row.alert = fires[f].alert
  <2>1. \A state : [fires[f] EXCEPT !.state = state].alert = fires[f].alert
    BY <1>2 DEF FireType
  <2>2. \A state, run : /\ [fires[f] EXCEPT !.state = state, !.dry = run].alert = fires[f].alert
                        /\ [fires[f] EXCEPT !.state = state, !.real = run].alert = fires[f].alert
    BY <1>2 DEF FireType
  <2>3. CASE FireThrows(w)
    <3>1. fires' = [fires EXCEPT ![f] = [fires[f] EXCEPT !.state = "failed"]]
      BY <2>3 DEF FireThrows
    <3>. QED
      BY <2>1, <3>1
  <2>4. CASE \/ SkipCleared(w) \/ SkipOff(w) \/ Settle(w) \/ DryRunFailed(w) \/ PredicateFailed(w)
             \/ EnqueueThrows(w)
    <3>1. \E state : WriteFire(w, [fires[f] EXCEPT !.state = state])
      BY <2>4 DEF SkipCleared, SkipOff, Settle, DryRunFailed, PredicateFailed, EnqueueThrows
    <3>. QED
      BY <2>1, <3>1 DEF WriteFire
  <2>5. CASE Fired(w) \/ Enqueued(w)
    <3>. DEFINE run == worker[w].run
                dry == [fires[f] EXCEPT !.state = "dry-run", !.dry = run]
                real == [fires[f] EXCEPT !.state = "running", !.real = run]
    <3>1. WriteFire(w, dry) \/ WriteFire(w, real)
      BY <2>5 DEF Fired, Enqueued
    <3>2. dry.alert = fires[f].alert /\ real.alert = fires[f].alert
      BY <2>2
    <3>. HIDE DEF dry, real
    <3>. QED
      BY <3>1, <3>2 DEF WriteFire
  <2>. QED
    BY <2>3, <2>4, <2>5
<1>. QED
  BY <1>1, <1>3, <1>4, CoolWrites

LEMMA CoolPreserved ==
  ASSUME RunbookAssumption, IInv, CoolOK, [Next]_vars
  PROVE  CoolOK'
<1>1. ASSUME NEW w \in Workers, Step(w) PROVE CoolOK'
  <2>1. \/ CooldownGate(w) \/ RateGate(w) \/ Schedule(w) \/ SkipTripped(w)
        \/ TripRead(w) \/ TripWrite(w) \/ checkConsecutiveFailures(w)
        \/ FireCheck(w) \/ FireOpen(w) \/ FireRun(w) \/ ReadRun(w) \/ Decide(w)
        \/ EnqueueReal(w)
        \/ SkipCleared(w) \/ SkipOff(w) \/ Fired(w)
        \/ Settle(w) \/ DryRunFailed(w) \/ PredicateFailed(w) \/ Enqueued(w)
    BY <1>1, Zenon DEF Step
  <2>2. CASE CooldownGate(w) \/ RateGate(w) \/ Schedule(w) \/ SkipTripped(w)
    BY <2>2, CoolEvaluator
  <2>3. CASE TripRead(w) \/ TripWrite(w) \/ checkConsecutiveFailures(w)
    BY <2>3, CoolTrip
  <2>4. CASE \/ FireCheck(w) \/ FireOpen(w) \/ FireRun(w) \/ ReadRun(w) \/ Decide(w)
             \/ EnqueueReal(w)
    BY <2>4, CoolCron
  <2>5. CASE \/ SkipCleared(w) \/ SkipOff(w) \/ Fired(w)
             \/ Settle(w) \/ DryRunFailed(w) \/ PredicateFailed(w) \/ Enqueued(w)
    BY <2>5, CoolCronWrites
  <2>. QED
    BY <2>1, <2>2, <2>3, <2>4, <2>5
<1>2. CASE \E w \in Workers : FireTick(w) \/ WatchTick(w) \/ WatchThrows(w)
  BY <1>2, CoolCron
<1>3. CASE \E w \in Workers : FireThrows(w) \/ EnqueueThrows(w)
  BY <1>3, CoolCronWrites
<1>4. CASE \E w \in Workers : \E a \in Alerts : Evaluate(w, a)
  BY <1>4, CoolEvaluate
<1>5. CASE Crash
  <2>1. UNCHANGED <<fires, edge, peak>> /\ \A v \in Workers : worker'[v] \in {Idle, worker[v]}
    BY <1>5 DEF Crash, Cooldown
  <2>2. Idle.alert = None
    BY DEF Idle
  <2>3. \A v \in Workers : Lingers(v)
    BY <2>1, <2>2 DEF Lingers, CoolOK
  <2>. QED
    BY <2>1, <2>3, CoolSame
<1>6. CASE \/ \E r \in 1..MaxRuns : RunEnds(r) \/ RunEndsAgain(r)
           \/ \E a \in Alerts : CloseAlert(a)
           \/ toggleActive \/ untripRunbook \/ UNCHANGED vars
  <2>1. UNCHANGED <<fires, edge, peak, worker>>
    BY <1>6 DEF RunEnds, RunEndsAgain, CloseAlert, toggleActive, untripRunbook, vars, Cooldown
  <2>2. \A v \in Workers : Lingers(v)
    BY <2>1 DEF Lingers, CoolOK
  <2>. QED
    BY <2>1, <2>2, CoolSame
<1>. QED
  BY <1>1, <1>2, <1>3, <1>4, <1>5, <1>6 DEF Next

LEMMA CoolInitial == ASSUME RunbookAssumption, Init PROVE CoolOK
<1>1. /\ fires = <<>> /\ edge = 0 /\ peak = [k \in Keys |-> 0]
      /\ worker = [w \in Workers |-> Idle] /\ Idle.alert = None
  BY DEF Init, Idle
<1>l. Len(fires) = 0
  BY <1>1
<1>p. \A w \in Workers : worker[w].alert = None
  BY <1>1
<1>2. \A k \in Keys : Within(fires, edge, k) = {} /\ PastGate(k) = {} /\ peak[k] = 0
  <2>1. (edge + 1)..Len(fires) = {}
    BY <1>1, <1>l
  <2>2. \A k : Within(fires, edge, k) = {}
    BY <2>1 DEF Within
  <2>3. \A k : PastGate(k) = {}
    BY <1>p DEF PastGate
  <2>. QED
    BY <1>1, <2>2, <2>3
<1>e. Cardinality({}) = 0
  BY FS_EmptySet
<1>3. \A k \in Keys : Cardinality(Within(fires, edge, k)) + Cardinality(PastGate(k)) <= peak[k]
  <2>. TAKE k \in Keys
  <2>1. Within(fires, edge, k) = {} /\ PastGate(k) = {} /\ peak[k] = 0
    BY <1>2
  <2>2. Cardinality(Within(fires, edge, k)) = 0 /\ Cardinality(PastGate(k)) = 0
    BY <1>e, <2>1
  <2>. QED
    BY <2>1, <2>2
<1>4. peak \in [Keys -> Nat] /\ edge \in 0..Len(fires)
  BY <1>1, <1>l
<1>. QED
  BY <1>p, <1>3, <1>4 DEF CoolOK

\* The two parts of the invariant hold together in every state of the system.
THEOREM CoolInvariance == ASSUME RunbookAssumption PROVE Spec => [](IInv /\ CoolOK)
<1>1. Init => CoolOK
  BY CoolInitial
<1>2. IInv /\ CoolOK /\ [Next]_vars => CoolOK'
  BY CoolPreserved
<1>. QED
  BY <1>1, <1>2, Invariance, PTL DEF Spec

\* Every variable keeps its type, and the rows a handler works at exist.
THEOREM TypeCorrect == ASSUME RunbookAssumption PROVE Spec => []TypeOK
<1>1. IInv /\ CoolOK => TypeOK
  <2>. SUFFICES ASSUME IInv, CoolOK PROVE TypeOK
    OBVIOUS
  <2>1. ScalarsOK /\ LocalsOK
    BY DEF IInv
  <2>2. fires \in Seq(FireType) /\ Len(fires) <= MaxFires
    BY <2>1, FiresFit DEF ScalarsOK
  <2>3. \A w \in Workers : /\ worker[w].pc \in Steps
                           /\ worker[w].alert \in Alerts \cup {None}
                           /\ worker[w].todo \cup ({worker[w].row} \ {0}) \subseteq DOMAIN fires
                           /\ worker[w].run \in 0..Len(runs)
    <3>. TAKE w \in Workers
    <3>1. LocalOK(worker[w], fires, runs)
      BY <2>1 DEF LocalsOK
    <3>2. worker[w] \in WorkerType
      BY <3>1 DEF LocalOK
    <3>3. worker[w].pc \in Steps /\ worker[w].alert \in Alerts \cup {None}
      BY <3>2 DEF WorkerType
    <3>. QED
      BY <3>1, <3>3 DEF LocalOK, Rows
  <2>4. runs \in Seq(RunType)
    <3>1. runs \in Seq(KnownRunType) /\ KnownRunType \subseteq RunType
      BY <2>1 DEF ScalarsOK, KnownRunType
    <3>. QED
      BY <3>1
  <2>. QED
    BY <2>1, <2>2, <2>3, <2>4 DEF TypeOK, ScalarsOK, CoolOK
<1>. QED
  BY <1>1, CoolInvariance, PTL

\* Inside the cooldown there are never more fires for a kind and device than
\* evaluations for them that were once past the gate together, however many
\* alerts are raised and whatever the crons make of the rows: a second fire
\* takes an evaluation that passed the gate before the first was written.
THEOREM CooldownHolds == ASSUME RunbookAssumption PROVE Spec => []CooldownBound
<1>1. IInv /\ CoolOK => CooldownBound
  <2>. SUFFICES ASSUME IInv, CoolOK, NEW k \in Keys
                PROVE  Cardinality(Within(fires, edge, k)) <= peak[k]
    BY DEF CooldownBound, Within
  <2>1. fires \in Seq(FireType) /\ edge \in 0..Len(fires) /\ peak[k] \in Nat
        /\ Cardinality(Within(fires, edge, k)) + Cardinality(PastGate(k)) <= peak[k]
    BY DEF IInv, ScalarsOK, CoolOK
  <2>2. Len(fires) \in Nat /\ edge \in Nat
    BY <2>1
  <2>3. Cardinality(Within(fires, edge, k)) \in Nat /\ Cardinality(PastGate(k)) \in Nat
    BY <2>2, WithinFinite, PastGateFinite
  <2>. QED
    BY <2>1, <2>3
<1>. QED
  BY <1>1, CoolInvariance, PTL

-----------------------------------------------------------------------------
(* The streak of failures.                                                 *)

\* A handler that will look at the streak, or has seen it too long.
Pending(r) ==
  \/ r.check
  \/ r.pc = "check"
  \/ r.alert = None /\ r.pc \in {"tripRead", "tripWrite"}

\* Only a watcher owes a check, and what it does ends with it.
CheckOK(r) ==
  /\ r.pc = "check" => r.check
  /\ r.check => /\ r.alert = None
                /\ r.pc \in WatchSteps \cup {"watch", "check", "tripRead", "tripWrite"}

StreakOK ==
  /\ \A w \in Workers : CheckOK(worker[w])
  /\ FailureStreakTrips

\* The failures that no success follows.
Trailing ==
  {f \in DOMAIN fires : /\ fires[f].state = "failed"
                        /\ \A g \in DOMAIN fires : g > f => fires[g].state # "succeeded"}

TooMany == FailedInARow(MaxConsecutiveFailures)

LEMMA StreakShrinks ==
  ASSUME RunbookAssumption, IInv, Trailing' \subseteq Trailing, TooMany', DOMAIN fires' \subseteq Nat
  PROVE  TooMany
<1>1. MaxConsecutiveFailures \in Nat /\ DOMAIN fires = 1..Len(fires) /\ Len(fires) \in Nat
  BY Constants, FiresFit
<1>2. IsFiniteSet(Trailing)
  <2>1. IsFiniteSet(DOMAIN fires)
    BY <1>1, FS_Interval
  <2>. QED
    BY <2>1, FS_Subset DEF Trailing
<1>3. IsFiniteSet(Trailing') /\ Cardinality(Trailing') <= Cardinality(Trailing)
  BY <1>2, FS_Subset
<1>4. Cardinality(Trailing) \in Nat /\ Cardinality(Trailing') \in Nat
  BY <1>2, <1>3, FS_CardinalityType
<1>5. MaxConsecutiveFailures <= Cardinality(Trailing')
  BY DEF TooMany, FailedInARow, Trailing
<1>. QED
  BY <1>1, <1>3, <1>4, <1>5 DEF TooMany, FailedInARow, Trailing

\* A row that is written so that it does not fail anew and no success is taken
\* back: no failure is added to the streak.
LEMMA WriteShrinks ==
  ASSUME RunbookAssumption, IInv, NEW f \in DOMAIN fires, NEW row,
         fires' = [fires EXCEPT ![f] = row], row.state # "failed",
         fires[f].state = "succeeded" => row.state = "succeeded"
  PROVE  TooMany' => TooMany
<1>1. fires \in Seq(FireType) /\ DOMAIN fires \subseteq Nat
  BY Facts DEF IInv, ScalarsOK
<1>2. /\ DOMAIN fires' = DOMAIN fires /\ fires'[f] = row
      /\ \A g \in DOMAIN fires : g # f => fires'[g] = fires[g]
  BY <1>1
<1>3. Trailing' \subseteq Trailing
  BY <1>2 DEF Trailing
<1>. QED
  BY <1>1, <1>2, <1>3, StreakShrinks

\* A fire that has not run is added.
LEMMA NewFireShrinks ==
  ASSUME RunbookAssumption, IInv, NEW w \in Workers, NEW state, NewFire(w, state),
         state \notin {"succeeded", "failed"}
  PROVE  TooMany' => TooMany
<1>. DEFINE new == [alert |-> worker[w].alert, state |-> state, dry |-> 0, real |-> 0]
<1>1. fires \in Seq(FireType) /\ Len(fires) \in Nat /\ DOMAIN fires = 1..Len(fires)
  BY FiresFit DEF IInv, ScalarsOK
<1>2. fires' = Append(fires, new) /\ new.state = state
  BY DEF NewFire
<1>. HIDE DEF new
<1>3. /\ DOMAIN fires' = 1..(Len(fires) + 1) /\ fires'[Len(fires) + 1] = new
      /\ \A f \in DOMAIN fires : fires'[f] = fires[f]
  BY <1>1, <1>2
<1>4. DOMAIN fires \subseteq DOMAIN fires' /\ \A f \in DOMAIN fires' : f \in DOMAIN fires \/ fires'[f] = new
  BY <1>1, <1>3
<1>5. Trailing' \subseteq Trailing
  BY <1>2, <1>3, <1>4 DEF Trailing
<1>6. DOMAIN fires' \subseteq Nat
  BY <1>1, <1>3
<1>. QED
  BY <1>5, <1>6, StreakShrinks

LEMMA SameFires == ASSUME fires' = fires PROVE TooMany' <=> TooMany
BY DEF TooMany, FailedInARow

\* FailureStreakTrips, with the handlers that will look named.
LEMMA TripsWhen ==
  /\ FailureStreakTrips <=>
       (TooMany => isTripped \/ unchecked \/ \E w \in Workers : Pending(worker[w]))
  /\ FailureStreakTrips' <=>
       (TooMany' => isTripped' \/ unchecked' \/ \E w \in Workers : Pending(worker'[w]))
BY DEF FailureStreakTrips, TooMany, CheckPending, Pending

\* What a step of handler w to r has to keep, unless it looks at the streak.
LEMMA StreakMoved ==
  ASSUME IInv, StreakOK, NEW w \in Workers, NEW r, Become(w, r), CheckOK(r),
         \/ Pending(r) \/ isTripped' = TRUE \/ unchecked' = TRUE \/ ~TooMany'
         \/ /\ isTripped' = isTripped
            /\ unchecked => unchecked'
            /\ TooMany' => TooMany
            /\ ~Pending(worker[w])
  PROVE  StreakOK'
<1>0. worker \in [Workers -> WorkerType]
  BY DEF IInv, ScalarsOK
<1>1. worker'[w] = r /\ \A v \in Workers : v # w => worker'[v] = worker[v]
  BY <1>0 DEF Become
<1>2. ASSUME NEW v \in Workers PROVE CheckOK(worker'[v])
  BY <1>1, <1>2 DEF StreakOK
<1>3. TooMany' => isTripped' \/ unchecked' \/ \E v \in Workers : Pending(worker'[v])
  <2>1. CASE Pending(r)
    BY <1>1, <2>1
  <2>2. CASE isTripped' = TRUE \/ unchecked' = TRUE \/ ~TooMany'
    BY <2>2
  <2>3. CASE /\ isTripped' = isTripped
             /\ unchecked => unchecked'
             /\ TooMany' => TooMany
             /\ ~Pending(worker[w])
    <3>. SUFFICES ASSUME TooMany', ~isTripped', ~unchecked'
                  PROVE  \E v \in Workers : Pending(worker'[v])
      OBVIOUS
    <3>1. TooMany /\ ~isTripped /\ ~unchecked
      BY <2>3
    <3>2. PICK v \in Workers : Pending(worker[v])
      BY <3>1, TripsWhen DEF StreakOK
    <3>3. v # w
      BY <2>3, <3>2
    <3>. QED
      BY <1>1, <3>2, <3>3
  <2>. QED
    BY <2>1, <2>2, <2>3
<1>4. FailureStreakTrips'
  BY <1>3, TripsWhen
<1>. QED
  BY <1>2, <1>4, Zenon DEF StreakOK, CheckOK

\* A step of the environment.
LEMMA StreakStays ==
  ASSUME StreakOK, UNCHANGED <<fires, worker, unchecked, isTripped>>
  PROVE  StreakOK'
BY SameFires, TripsWhen DEF StreakOK, CheckOK

\* A cron goes on with rec: a check it owes is still owed.
LEMMA NextRowChecks ==
  ASSUME RunbookAssumption, NEW w \in Workers, NEW rec \in WorkerType, NEW loop \in {"fire", "watch"},
         rec.check => loop = "watch" /\ rec.alert = None, NextRow(w, rec, loop)
  PROVE  \E r : Become(w, r) /\ CheckOK(r) /\ (rec.check => Pending(r))
<1>1. CASE rec.todo # {}
  <2>. DEFINE r == [rec EXCEPT !.pc = loop, !.row = 0, !.run = 0, !.ok = FALSE]
  <2>1. r.pc = loop /\ r.alert = rec.alert /\ r.check = rec.check
    BY DEF WorkerType
  <2>2. Become(w, r)
    BY <1>1 DEF NextRow
  <2>. HIDE DEF r
  <2>3. CheckOK(r) /\ (rec.check => Pending(r))
    BY <2>1 DEF CheckOK, Pending
  <2>. QED
    BY <2>2, <2>3
<1>2. CASE rec.todo = {} /\ rec.check
  <2>. DEFINE r == [rec EXCEPT !.pc = "check", !.row = 0, !.run = 0, !.ok = FALSE]
  <2>1. r.pc = "check" /\ r.alert = rec.alert /\ r.check = rec.check
    BY DEF WorkerType
  <2>2. Become(w, r)
    BY <1>2 DEF NextRow
  <2>. HIDE DEF r
  <2>3. CheckOK(r) /\ Pending(r)
    BY <1>2, <2>1 DEF CheckOK, Pending
  <2>. QED
    BY <2>2, <2>3
<1>3. CASE rec.todo = {} /\ ~rec.check
  <2>1. Become(w, Idle) /\ CheckOK(Idle)
    BY <1>3 DEF NextRow, Finish, CheckOK, Idle
  <2>. QED
    BY <1>3, <2>1
<1>. QED
  BY <1>1, <1>2, <1>3

LEMMA StreakFacts ==
  ASSUME RunbookAssumption, IInv, StreakOK, NEW w \in Workers
  PROVE  /\ worker[w] \in WorkerType /\ LocalOK(worker[w], fires, runs) /\ CheckOK(worker[w])
         /\ isTripped \in BOOLEAN /\ unchecked \in BOOLEAN
BY Facts DEF StreakOK, IInv, ScalarsOK

\* The evaluator and the fire cron owe no check.
LEMMA EvaluatorStreak ==
  ASSUME RunbookAssumption, IInv, StreakOK, NEW w \in Workers,
         \/ \E a \in Alerts : Evaluate(w, a)
         \/ CooldownGate(w) \/ RateGate(w) \/ Schedule(w) \/ SkipTripped(w)
  PROVE  StreakOK'
<1>0. worker[w] \in WorkerType /\ LocalOK(worker[w], fires, runs) /\ CheckOK(worker[w])
  BY StreakFacts
<1>i. CheckOK(Idle) /\ ~Pending(Idle)
  BY DEF CheckOK, Pending, Idle
<1>1. UNCHANGED <<isTripped, unchecked>>
  BY DEF Evaluate, CooldownGate, RateGate, Schedule, SkipTripped, Settings, History
<1>2. ~Pending(worker[w]) /\ ~worker[w].check
  <2>1. CASE \E a \in Alerts : Evaluate(w, a)
    <3>1. worker[w].pc = "idle"
      BY <2>1 DEF Evaluate, Busy
    <3>2. worker[w] = Idle
      BY <1>0, <3>1 DEF LocalOK
    <3>3. ~Idle.check
      BY DEF Idle
    <3>. QED
      BY <1>i, <3>2, <3>3
  <2>2. CASE CooldownGate(w) \/ RateGate(w) \/ Schedule(w) \/ SkipTripped(w)
    BY <1>0, <2>2 DEF CooldownGate, RateGate, Schedule, SkipTripped, CheckOK, Pending, WatchSteps
  <2>. QED
    BY <2>1, <2>2
<1>3. TooMany' => TooMany
  <2>1. CASE fires' = fires
    BY <2>1, SameFires
  <2>2. CASE \E state \in {"skipped-cooldown", "pending", "skipped-tripped"} : NewFire(w, state)
    BY <2>2, NewFireShrinks
  <2>. QED
    BY <2>1, <2>2 DEF Evaluate, CooldownGate, RateGate, Schedule, SkipTripped
<1>4. ASSUME NEW r, Become(w, r), CheckOK(r) PROVE StreakOK'
  BY <1>1, <1>2, <1>3, <1>4, StreakMoved
<1>5. CASE \E a \in Alerts : Evaluate(w, a)
  <2>1. CASE Off
    <3>1. UNCHANGED <<fires, worker>>
      BY <1>5, <2>1 DEF Evaluate
    <3>. QED
      BY <1>1, <3>1, StreakStays
  <2>2. CASE ~Off
    <3>1. PICK a \in Alerts, hour \in 0..Len(fires) :
            Become(w, [Idle EXCEPT !.pc = "cooldown", !.alert = a, !.edge = edge', !.hour = hour])
      BY <1>5, <2>2 DEF Evaluate, Begin
    <3>2. CheckOK([Idle EXCEPT !.pc = "cooldown", !.alert = a, !.edge = edge', !.hour = hour])
      BY DEF CheckOK, Idle
    <3>. QED
      BY <1>4, <3>1, <3>2
  <2>. QED
    BY <2>1, <2>2
<1>6. CASE Become(w, Idle)
  BY <1>4, <1>6, <1>i
<1>7. CASE Become(w, [worker[w] EXCEPT !.pc = "count", !.edge = 0])
  <2>1. CheckOK([worker[w] EXCEPT !.pc = "count", !.edge = 0])
    BY <1>0, <1>2 DEF CheckOK, WorkerType
  <2>. QED
    BY <1>4, <1>7, <2>1
<1>8. CASE Become(w, [Idle EXCEPT !.pc = "tripRead", !.alert = worker[w].alert])
  <2>1. CheckOK([Idle EXCEPT !.pc = "tripRead", !.alert = worker[w].alert])
    BY DEF CheckOK, Idle
  <2>. QED
    BY <1>4, <1>8, <2>1
<1>9. CASE Become(w, [worker[w] EXCEPT !.pc = "schedule", !.hour = 0])
  <2>1. CheckOK([worker[w] EXCEPT !.pc = "schedule", !.hour = 0])
    BY <1>0, <1>2 DEF CheckOK, WorkerType
  <2>. QED
    BY <1>4, <1>9, <2>1
<1>. QED
  BY <1>5, <1>6, <1>7, <1>8, <1>9 DEF CooldownGate, RateGate, Schedule, SkipTripped, Finish

LEMMA TripStreak ==
  ASSUME RunbookAssumption, IInv, StreakOK, NEW w \in Workers,
         TripRead(w) \/ TripWrite(w) \/ checkConsecutiveFailures(w)
  PROVE  StreakOK'
<1>0. /\ worker[w] \in WorkerType /\ LocalOK(worker[w], fires, runs) /\ CheckOK(worker[w])
      /\ isTripped \in BOOLEAN
  BY StreakFacts
<1>i. CheckOK(Idle)
  BY DEF CheckOK, Idle
<1>1. ASSUME NEW pc \in {"skip", "tripRead", "tripWrite"}, Goto(w, pc),
             pc = "skip" => worker[w].alert # None,
             worker[w].pc \in {"tripRead", "tripWrite", "check"}
      PROVE  /\ \E r : /\ Become(w, r) /\ CheckOK(r)
                       /\ worker[w].alert = None /\ pc # "skip" => Pending(r)
  <2>. DEFINE r == [worker[w] EXCEPT !.pc = pc]
  <2>1. r.pc = pc /\ r.alert = worker[w].alert /\ r.check = worker[w].check
    BY <1>0 DEF WorkerType
  <2>2. Become(w, r)
    BY <1>1 DEF Goto
  <2>. HIDE DEF r
  <2>3. CheckOK(r) /\ (worker[w].alert = None /\ pc # "skip" => Pending(r))
    BY <1>0, <1>1, <2>1 DEF CheckOK, Pending
  <2>. QED
    BY <2>2, <2>3
<1>2. ASSUME AfterTrip(w), worker[w].pc \in {"tripRead", "tripWrite"}, isTripped' = TRUE
      PROVE  StreakOK'
  <2>1. \E r : Become(w, r) /\ CheckOK(r)
    BY <1>1, <1>2, <1>i DEF AfterTrip, Finish
  <2>. QED
    BY <1>2, <2>1, StreakMoved
<1>3. CASE TripRead(w)
  <2>0. worker[w].pc = "tripRead" /\ UNCHANGED <<isTripped, fires, unchecked>>
    BY <1>3 DEF TripRead, Settings
  <2>1. CASE isTripped
    BY <1>0, <1>2, <1>3, <2>0, <2>1 DEF TripRead
  <2>2. CASE ~isTripped
    <3>1. PICK r : Become(w, r) /\ CheckOK(r) /\ (worker[w].alert = None => Pending(r))
      BY <1>1, <1>3, <2>0, <2>2 DEF TripRead
    <3>2. Pending(worker[w]) => worker[w].alert = None
      BY <1>0, <2>0 DEF CheckOK, Pending
    <3>3. TooMany' <=> TooMany
      BY <2>0, SameFires
    <3>. QED
      BY <2>0, <3>1, <3>2, <3>3, StreakMoved
  <2>. QED
    BY <2>1, <2>2
<1>4. CASE TripWrite(w)
  BY <1>2, <1>4 DEF TripWrite
<1>5. CASE checkConsecutiveFailures(w)
  <2>0. worker[w].pc = "check" /\ UNCHANGED <<isTripped, fires>> /\ worker[w].alert = None
    BY <1>0, <1>5 DEF checkConsecutiveFailures, Settings, LocalOK
  <2>1. TooMany' <=> TooMany
    BY <2>0, SameFires
  <2>2. CASE ~isTripped /\ TooMany
    <3>1. \E r : Become(w, r) /\ CheckOK(r) /\ Pending(r)
      BY <1>1, <1>5, <2>0, <2>2 DEF checkConsecutiveFailures, TooMany
    <3>. QED
      BY <3>1, StreakMoved
  <2>3. CASE ~(~isTripped /\ TooMany)
    <3>1. Become(w, Idle)
      BY <1>5, <2>3 DEF checkConsecutiveFailures, TooMany, Finish
    <3>2. isTripped' = TRUE \/ ~TooMany'
      BY <1>0, <2>0, <2>1, <2>3
    <3>. QED
      BY <1>i, <3>1, <3>2, StreakMoved
  <2>. QED
    BY <2>2, <2>3
<1>. QED
  BY <1>3, <1>4, <1>5

\* The crons begin, look at a row or make a run: no row is written.
LEMMA CronStreak ==
  ASSUME RunbookAssumption, IInv, StreakOK, NEW w \in Workers,
         \/ FireTick(w) \/ WatchTick(w) \/ FireCheck(w) \/ FireOpen(w) \/ ReadRun(w) \/ Decide(w) \/ FireRun(w)
         \/ EnqueueReal(w) \/ WatchThrows(w)
  PROVE  StreakOK'
<1>0. worker[w] \in WorkerType /\ LocalOK(worker[w], fires, runs) /\ CheckOK(worker[w])
  BY StreakFacts
<1>1. UNCHANGED <<isTripped, fires, unchecked>>
  BY DEF FireTick, WatchTick, FireCheck, FireOpen, ReadRun, Decide, FireRun, EnqueueReal, WatchThrows, Settings,
         History
<1>2. TooMany' <=> TooMany
  BY <1>1, SameFires
<1>3. ASSUME NEW r, Become(w, r), CheckOK(r), worker[w].check => Pending(r),
             worker[w].pc \notin {"check", "tripRead", "tripWrite"}
      PROVE  StreakOK'
  <2>1. Pending(r) \/ ~Pending(worker[w])
    BY <1>3 DEF Pending
  <2>. QED
    BY <1>1, <1>2, <1>3, <2>1, StreakMoved
<1>4. CASE FireTick(w) \/ WatchTick(w)
  <2>1. worker[w] = Idle /\ ~Idle.check /\ Idle.pc = "idle"
    BY <1>0, <1>4 DEF FireTick, WatchTick, Busy, LocalOK, Idle
  <2>2. \E r : Become(w, r) /\ CheckOK(r)
    <3>1. CASE FireTick(w)
      <4>1. PICK due : Become(w, [Idle EXCEPT !.pc = "fire", !.todo = due,
                                    !.closed = {a \in {fires[f].alert : f \in due} : alertState[a] = "closed"}])
        BY <3>1 DEF FireTick, Begin
      <4>2. CheckOK([Idle EXCEPT !.pc = "fire", !.todo = due,
                                 !.closed = {a \in {fires[f].alert : f \in due} : alertState[a] = "closed"}])
        BY DEF CheckOK, Idle
      <4>. QED
        BY <4>1, <4>2
    <3>2. CASE WatchTick(w)
      <4>1. PICK started, listed : Become(w, [Idle EXCEPT !.pc = "watch", !.todo = started,
                                                          !.listed = listed])
        BY <3>2 DEF WatchTick, Begin
      <4>2. CheckOK([Idle EXCEPT !.pc = "watch", !.todo = started, !.listed = listed])
        BY DEF CheckOK, Idle
      <4>. QED
        BY <4>1, <4>2
    <3>. QED
      BY <1>4, <3>1, <3>2
  <2>. QED
    BY <1>3, <2>1, <2>2
<1>5. CASE FireCheck(w)
  <2>1. worker[w].pc = "fire" /\ ~worker[w].check
    BY <1>0, <1>5 DEF FireCheck, CheckOK, WatchSteps
  <2>. DEFINE f == First(worker[w].todo)
              pc == IF alertState[fires[f].alert] = "open" THEN "open" ELSE "clear"
              r == [worker[w] EXCEPT !.row = f, !.todo = @ \ {f}, !.pc = pc]
  <2>2. Become(w, r)
    BY <1>5 DEF FireCheck
  <2>3. pc \in {"open", "clear"}
    OBVIOUS
  <2>. HIDE DEF f, pc
  <2>4. r.pc = pc /\ r.check = worker[w].check
    BY <1>0 DEF WorkerType
  <2>. HIDE DEF r
  <2>5. CheckOK(r)
    BY <2>1, <2>3, <2>4 DEF CheckOK
  <2>. QED
    BY <1>3, <2>1, <2>2, <2>5
<1>6. CASE FireRun(w) \/ EnqueueReal(w)
  <2>1. PICK pc \in {"fired", "enqueued"} :
          /\ Become(w, [worker[w] EXCEPT !.pc = pc, !.run = Len(runs) + 1])
          /\ worker[w].pc = IF pc = "fired" THEN "run" ELSE "enqueue"
    BY <1>6 DEF FireRun, EnqueueReal
  <2>. DEFINE r == [worker[w] EXCEPT !.pc = pc, !.run = Len(runs) + 1]
  <2>2. r.pc = pc /\ r.alert = worker[w].alert /\ r.check = worker[w].check
    BY <1>0 DEF WorkerType
  <2>3. Become(w, r)
    BY <2>1
  <2>. HIDE DEF r
  <2>4. CheckOK(r) /\ (worker[w].check => Pending(r))
    BY <1>0, <2>1, <2>2 DEF CheckOK, Pending, WatchSteps
  <2>. QED
    BY <1>3, <2>1, <2>3, <2>4
<1>7. CASE WatchThrows(w)
  <2>1. worker[w].pc \in WatchSteps /\ NextRow(w, worker[w], "watch")
    BY <1>7 DEF WatchThrows, WatchSteps
  <2>2. \E r : Become(w, r) /\ CheckOK(r) /\ (worker[w].check => Pending(r))
    BY <1>0, <2>1, NextRowChecks DEF CheckOK
  <2>. QED
    BY <1>3, <2>1, <2>2 DEF WatchSteps
<1>8. CASE ReadRun(w)
  <2>0. worker[w].pc = "watch"
    BY <1>8 DEF ReadRun
  <2>1. PICK rec \in WorkerType :
          /\ rec.alert = None /\ rec.check = worker[w].check
          /\ NextRow(w, rec, "watch") \/ \E pc \in WatchSteps : Become(w, [rec EXCEPT !.pc = pc])
    BY <1>0, <1>8, ReadRunMoves
  <2>2. CASE NextRow(w, rec, "watch")
    <3>1. \E r : Become(w, r) /\ CheckOK(r) /\ (rec.check => Pending(r))
      BY <2>1, <2>2, NextRowChecks
    <3>. QED
      BY <1>3, <2>0, <2>1, <3>1
  <2>3. CASE \E pc \in WatchSteps : Become(w, [rec EXCEPT !.pc = pc])
    <3>1. PICK pc \in WatchSteps : Become(w, [rec EXCEPT !.pc = pc])
      BY <2>3
    <3>2. CheckOK([rec EXCEPT !.pc = pc]) /\ (worker[w].check => Pending([rec EXCEPT !.pc = pc]))
      BY <2>1, <3>1 DEF CheckOK, Pending, WatchSteps, WorkerType
    <3>. QED
      BY <1>3, <2>0, <3>1, <3>2
  <2>. QED
    BY <2>1, <2>2, <2>3
<1>9. CASE Decide(w)
  <2>1. PICK pc \in {"enqueue", "reject"} : Goto(w, pc)
    BY <1>9 DEF Decide
  <2>. DEFINE r == [worker[w] EXCEPT !.pc = pc]
  <2>2. r.pc = pc /\ r.alert = worker[w].alert /\ r.check = worker[w].check
    BY <1>0 DEF WorkerType
  <2>3. Become(w, r) /\ worker[w].pc = "decide"
    BY <1>9, <2>1 DEF Goto, Decide
  <2>. HIDE DEF r
  <2>4. CheckOK(r) /\ (worker[w].check => Pending(r))
    BY <1>0, <2>1, <2>2, <2>3 DEF CheckOK, Pending, WatchSteps
  <2>. QED
    BY <1>3, <2>3, <2>4
<1>10. CASE FireOpen(w)
  <2>1. PICK pc \in {"bar", "run"} : Goto(w, pc)
    BY <1>10 DEF FireOpen
  <2>. DEFINE r == [worker[w] EXCEPT !.pc = pc]
  <2>2. r.pc = pc /\ r.check = worker[w].check
    BY <1>0 DEF WorkerType
  <2>3. Become(w, r) /\ worker[w].pc = "open" /\ ~worker[w].check
    BY <1>0, <1>10, <2>1 DEF Goto, FireOpen, CheckOK, WatchSteps
  <2>. HIDE DEF r
  <2>4. CheckOK(r)
    BY <2>1, <2>2, <2>3 DEF CheckOK
  <2>. QED
    BY <1>3, <2>3, <2>4
<1>. QED
  BY <1>4, <1>5, <1>6, <1>7, <1>8, <1>9, <1>10

\* A row is written, and whoever makes it fail owes a check or says that the
\* streak is unchecked.
LEMMA WritesStreak ==
  ASSUME RunbookAssumption, IInv, StreakOK, NEW w \in Workers,
         \/ SkipCleared(w) \/ SkipOff(w) \/ Fired(w) \/ FireThrows(w)
         \/ Settle(w) \/ DryRunFailed(w) \/ PredicateFailed(w) \/ Enqueued(w) \/ EnqueueThrows(w)
  PROVE  StreakOK'
<1>. DEFINE f == worker[w].row
<1>0. /\ worker[w] \in WorkerType /\ LocalOK(worker[w], fires, runs) /\ CheckOK(worker[w])
      /\ unchecked \in BOOLEAN /\ isTripped \in BOOLEAN
  BY StreakFacts
<1>1. worker[w].pc \in FireSteps \cup WatchSteps /\ isTripped' = isTripped
  BY DEF SkipCleared, SkipOff, Fired, FireThrows, Settle, DryRunFailed, PredicateFailed, Enqueued,
         EnqueueThrows, Settings, FireSteps, WatchSteps
<1>2. f \in DOMAIN fires /\ fires[f] \in FireType
  BY <1>1, AtRow
<1>3. worker[w].alert = None /\ (worker[w].pc \in FireSteps => ~worker[w].check)
  BY <1>0, <1>1 DEF LocalOK, CheckOK, FireSteps, WatchSteps
<1>4. Pending(worker[w]) => worker[w].check
  BY <1>1 DEF Pending, FireSteps, WatchSteps
<1>5. ASSUME NEW rec \in WorkerType, NEW loop \in {"fire", "watch"}, NextRow(w, rec, loop),
             rec.alert = None, rec.check => loop = "watch", worker[w].check => rec.check,
             \/ rec.check
             \/ unchecked' = TRUE
             \/ (unchecked => unchecked') /\ (TooMany' => TooMany)
      PROVE  StreakOK'
  <2>1. PICK r : Become(w, r) /\ CheckOK(r) /\ (rec.check => Pending(r))
    BY <1>5, NextRowChecks
  <2>. QED
    BY <1>1, <1>4, <1>5, <2>1, StreakMoved
<1>6. ASSUME NEW row, WriteFire(w, row), row.state # "failed"
      PROVE  \/ unchecked' = TRUE
             \/ (unchecked => unchecked') /\ (TooMany' => TooMany)
  <2>1. /\ fires' = [fires EXCEPT ![f] = row]
        /\ unchecked' = (unchecked \/ (fires[f].state = "succeeded" /\ row.state # "succeeded"))
    BY <1>6 DEF WriteFire
  <2>. HIDE DEF f
  <2>2. CASE fires[f].state = "succeeded" /\ row.state # "succeeded"
    BY <2>1, <2>2
  <2>3. CASE fires[f].state = "succeeded" => row.state = "succeeded"
    <3>1. TooMany' => TooMany
      BY <1>2, <1>6, <2>1, <2>3, WriteShrinks
    <3>2. unchecked => unchecked'
      BY <1>0, <2>1
    <3>. QED
      BY <3>1, <3>2
  <2>. QED
    BY <2>2, <2>3
<1>7. ASSUME NEW loop \in {"fire", "watch"}, NextRow(w, worker[w], loop),
             worker[w].check => loop = "watch",
             \E row : WriteFire(w, row) /\ row.state # "failed"
      PROVE  StreakOK'
  BY <1>0, <1>3, <1>5, <1>6, <1>7
<1>8. CASE SkipCleared(w) \/ SkipOff(w) \/ Fired(w)
  <2>1. worker[w].pc \in FireSteps /\ NextRow(w, worker[w], "fire")
    BY <1>8 DEF SkipCleared, SkipOff, Fired, FireSteps
  <2>2. \E row : WriteFire(w, row) /\ row.state # "failed"
    <3>1. \A state \in FireStates : [fires[f] EXCEPT !.state = state].state = state
      BY <1>2 DEF FireType
    <3>2. \A run : /\ [fires[f] EXCEPT !.state = "dry-run", !.dry = run].state = "dry-run"
                   /\ [fires[f] EXCEPT !.state = "running", !.real = run].state = "running"
      BY <1>2 DEF FireType
    <3>3. CASE SkipCleared(w)
      <4>1. [fires[f] EXCEPT !.state = "skipped-cleared"].state # "failed"
        BY <3>1 DEF FireStates, Skipped
      <4>. QED
        BY <3>3, <4>1 DEF SkipCleared
    <3>4. CASE SkipOff(w)
      <4>1. [fires[f] EXCEPT !.state = "skipped-tripped"].state # "failed"
        BY <3>1 DEF FireStates, Skipped
      <4>. QED
        BY <3>4, <4>1 DEF SkipOff
    <3>5. CASE Fired(w)
      <4>1. CASE willDryRun
        BY <3>2, <3>5, <4>1 DEF Fired
      <4>2. CASE ~willDryRun
        BY <3>2, <3>5, <4>2 DEF Fired
      <4>. QED
        BY <4>1, <4>2
    <3>. QED
      BY <1>8, <3>3, <3>4, <3>5
  <2>. QED
    BY <1>3, <1>7, <2>1, <2>2
<1>9. CASE FireThrows(w)
  <2>1. worker[w].pc \in FireSteps /\ NextRow(w, worker[w], "fire") /\ unchecked' = TRUE
    BY <1>9 DEF FireThrows, FireSteps
  <2>. QED
    BY <1>0, <1>3, <1>5, <2>1
<1>10. CASE PredicateFailed(w) \/ Enqueued(w)
  <2>1. NextRow(w, worker[w], "watch")
    BY <1>10 DEF PredicateFailed, Enqueued
  <2>2. \E row : WriteFire(w, row) /\ row.state # "failed"
    <3>1. CASE PredicateFailed(w)
      <4>1. [fires[f] EXCEPT !.state = "predicate-failed"].state = "predicate-failed"
        BY <1>2 DEF FireType
      <4>. QED
        BY <3>1, <4>1 DEF PredicateFailed
    <3>2. CASE Enqueued(w)
      <4>1. [fires[f] EXCEPT !.state = "running", !.real = worker[w].run].state = "running"
        BY <1>2 DEF FireType
      <4>. QED
        BY <3>2, <4>1 DEF Enqueued
    <3>. QED
      BY <1>10, <3>1, <3>2
  <2>. QED
    BY <1>7, <2>1, <2>2
<1>11. CASE DryRunFailed(w) \/ EnqueueThrows(w)
  <2>. DEFINE rec == [worker[w] EXCEPT !.check = TRUE]
  <2>1. rec \in WorkerType /\ rec.alert = worker[w].alert /\ rec.check
    BY <1>0 DEF WorkerType
  <2>2. NextRow(w, rec, "watch")
    BY <1>11 DEF DryRunFailed, EnqueueThrows
  <2>. HIDE DEF rec
  <2>. QED
    BY <1>3, <1>5, <2>1, <2>2
<1>12. CASE Settle(w)
  <2>. DEFINE rec == [worker[w] EXCEPT !.check = @ \/ ~worker[w].ok]
  <2>1. worker[w].check \in BOOLEAN /\ worker[w].ok \in BOOLEAN
    BY <1>0 DEF WorkerType
  <2>2. (worker[w].check \/ ~worker[w].ok) \in BOOLEAN
    BY <2>1
  <2>3. /\ rec \in WorkerType /\ rec.alert = worker[w].alert
        /\ rec.check = (worker[w].check \/ ~worker[w].ok)
    BY <1>0, <2>2 DEF WorkerType
  <2>4. NextRow(w, rec, "watch")
    BY <1>12 DEF Settle
  <2>. HIDE DEF rec
  <2>5. CASE worker[w].ok
    <3>1. WriteFire(w, [fires[f] EXCEPT !.state = "succeeded"])
      BY <1>12, <2>5 DEF Settle
    <3>2. [fires[f] EXCEPT !.state = "succeeded"].state = "succeeded"
      BY <1>2 DEF FireType
    <3>3. \/ unchecked' = TRUE
          \/ (unchecked => unchecked') /\ (TooMany' => TooMany)
      BY <1>6, <3>1, <3>2
    <3>. QED
      BY <1>3, <1>5, <2>3, <2>4, <3>3
  <2>6. CASE ~worker[w].ok
    BY <1>3, <1>5, <2>3, <2>4, <2>6
  <2>. QED
    BY <2>5, <2>6
<1>. QED
  BY <1>8, <1>9, <1>10, <1>11, <1>12

\* A handler that is killed on its way to a check leaves the streak unchecked.
LEMMA CrashStreak ==
  ASSUME RunbookAssumption, IInv, StreakOK, Crash
  PROVE  StreakOK'
<1>1. PICK K \in (SUBSET {w \in Workers : Busy(w)}) \ {{}} :
        /\ worker' = [w \in Workers |-> IF w \in K THEN Idle ELSE worker[w]]
        /\ unchecked' = (unchecked \/ \E w \in K :
                           worker[w].check \/ worker[w].pc \in {"tripRead", "tripWrite"})
  BY DEF Crash
<1>2. fires' = fires /\ isTripped' = isTripped /\ unchecked \in BOOLEAN
  BY DEF Crash, Settings, IInv, ScalarsOK
<1>3. CheckOK(Idle)
  BY DEF CheckOK, Idle
<1>4. ASSUME NEW v \in Workers PROVE CheckOK(worker'[v])
  <2>1. worker'[v] = Idle \/ worker'[v] = worker[v]
    BY <1>1
  <2>. QED
    BY <1>3, <2>1 DEF StreakOK
<1>5. TooMany' => isTripped' \/ unchecked' \/ \E v \in Workers : Pending(worker'[v])
  <2>. SUFFICES ASSUME TooMany', ~isTripped', ~unchecked'
                PROVE  \E v \in Workers : Pending(worker'[v])
    OBVIOUS
  <2>1. TooMany /\ ~isTripped /\ ~unchecked
    BY <1>1, <1>2, SameFires
  <2>2. PICK v \in Workers : Pending(worker[v])
    BY <2>1, TripsWhen DEF StreakOK
  <2>3. v \notin K
    <3>1. worker[v].check \/ worker[v].pc \in {"tripRead", "tripWrite"}
      BY <2>2 DEF Pending, StreakOK, CheckOK
    <3>. QED
      BY <1>1, <3>1
  <2>4. worker'[v] = worker[v]
    BY <1>1, <2>3
  <2>. QED
    BY <2>2, <2>4
<1>6. FailureStreakTrips'
  BY <1>5, TripsWhen
<1>. QED
  BY <1>4, <1>6, Zenon DEF StreakOK, CheckOK

LEMMA UntripStreak == ASSUME StreakOK, untripRunbook PROVE StreakOK'
<1>1. worker' = worker /\ unchecked' = TRUE
  BY DEF untripRunbook
<1>2. FailureStreakTrips'
  BY <1>1, TripsWhen
<1>. QED
  BY <1>1, <1>2, Zenon DEF StreakOK, CheckOK

LEMMA InitialStreak == ASSUME RunbookAssumption, Init PROVE StreakOK
<1>1. worker = [w \in Workers |-> Idle] /\ fires = <<>> /\ MaxConsecutiveFailures \in Nat \ {0}
  BY DEF Init, RunbookAssumption
<1>2. \A w \in Workers : CheckOK(worker[w])
  BY <1>1 DEF CheckOK, Idle
<1>3. ~TooMany
  <2>1. Trailing = {}
    BY <1>1 DEF Trailing
  <2>2. Cardinality(Trailing) = 0
    BY <2>1, FS_EmptySet
  <2>3. ~(MaxConsecutiveFailures <= Cardinality(Trailing))
    BY <1>1, <2>2
  <2>. QED
    BY <2>3 DEF TooMany, FailedInARow, Trailing
<1>. QED
  BY <1>2, <1>3, TripsWhen DEF StreakOK

LEMMA StreakPreserved ==
  ASSUME RunbookAssumption, IInv, StreakOK, [Next]_vars
  PROVE  StreakOK'
<1>1. ASSUME NEW w \in Workers, Step(w) PROVE StreakOK'
  <2>1. \/ CooldownGate(w) \/ RateGate(w) \/ Schedule(w) \/ SkipTripped(w)
        \/ TripRead(w) \/ TripWrite(w) \/ checkConsecutiveFailures(w)
        \/ FireCheck(w) \/ FireOpen(w) \/ FireRun(w) \/ ReadRun(w) \/ Decide(w)
        \/ EnqueueReal(w)
        \/ SkipCleared(w) \/ SkipOff(w) \/ Fired(w)
        \/ Settle(w) \/ DryRunFailed(w) \/ PredicateFailed(w) \/ Enqueued(w)
    BY <1>1, Zenon DEF Step
  <2>2. CASE CooldownGate(w) \/ RateGate(w) \/ Schedule(w) \/ SkipTripped(w)
    BY <2>2, EvaluatorStreak
  <2>3. CASE TripRead(w) \/ TripWrite(w) \/ checkConsecutiveFailures(w)
    BY <2>3, TripStreak
  <2>4. CASE \/ FireCheck(w) \/ FireOpen(w) \/ FireRun(w) \/ ReadRun(w) \/ Decide(w)
             \/ EnqueueReal(w)
    BY <2>4, CronStreak
  <2>5. CASE \/ SkipCleared(w) \/ SkipOff(w) \/ Fired(w)
             \/ Settle(w) \/ DryRunFailed(w) \/ PredicateFailed(w) \/ Enqueued(w)
    BY <2>5, WritesStreak
  <2>. QED
    BY <2>1, <2>2, <2>3, <2>4, <2>5
<1>2. CASE \E w \in Workers : FireTick(w) \/ WatchTick(w) \/ WatchThrows(w)
  BY <1>2, CronStreak
<1>3. CASE \E w \in Workers : FireThrows(w) \/ EnqueueThrows(w)
  BY <1>3, WritesStreak
<1>4. CASE \E w \in Workers : \E a \in Alerts : Evaluate(w, a)
  BY <1>4, EvaluatorStreak
<1>5. CASE \E r \in 1..MaxRuns : RunEnds(r) \/ RunEndsAgain(r)
  <2>1. UNCHANGED <<fires, worker, unchecked, isTripped>>
    BY <1>5 DEF RunEnds, RunEndsAgain, Settings, History
  <2>. QED
    BY <2>1, StreakStays
<1>6. CASE (\E a \in Alerts : CloseAlert(a)) \/ toggleActive
  <2>1. UNCHANGED <<fires, worker, unchecked, isTripped>>
    BY <1>6 DEF CloseAlert, toggleActive, Settings, History
  <2>. QED
    BY <2>1, StreakStays
<1>7. CASE untripRunbook
  BY <1>7, UntripStreak
<1>8. CASE Crash
  BY <1>8, CrashStreak
<1>9. CASE UNCHANGED vars
  <2>1. UNCHANGED <<fires, worker, unchecked, isTripped>>
    BY <1>9 DEF vars
  <2>. QED
    BY <2>1, StreakStays
<1>. QED
  BY <1>1, <1>2, <1>3, <1>4, <1>5, <1>6, <1>7, <1>8, <1>9 DEF Next

\* A runbook whose last fires all failed is tripped, once the watcher ticks
\* that recorded the failures are over: unless an operator untripped it, a tick
\* was killed, the fire cron recorded the failure, or an overlapped tick took
\* back a success in between.
THEOREM StreakTrips == ASSUME RunbookAssumption PROVE Spec => []FailureStreakTrips
<1>1. Init => StreakOK
  BY InitialStreak
<1>2. IInv /\ StreakOK /\ [Next]_vars => StreakOK'
  BY StreakPreserved
<1>3. StreakOK => FailureStreakTrips
  BY DEF StreakOK
<1>. QED
  BY <1>1, <1>2, <1>3, Invariance, PTL DEF Spec
=============================================================================
