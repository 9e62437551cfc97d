---------------------------- MODULE ScriptStates ----------------------------
(***************************************************************************)
(* The states of an Fl_ScriptRun that lib/script-commands.ts and the       *)
(* scripts.* handlers of lib/agent-ingest.ts write, how a report ends a    *)
(* run, and what others may rely on: ScriptRun.tla is shown to move as     *)
(* RunMoves says, and Runbook.tla, which reads runs, lets them move so.    *)
(***************************************************************************)

\* The states cancelScriptRun takes for finished.
Finished == {"ok", "error", "cancelled", "timeout", "dryrun", "rejected"}

ScriptState == {"queued", "running"} \cup Finished

\* handleScriptsComplete: the state a report gives the run, from the row's
\* dryRun and from whether it was read as cancelled.
nextState(dryRun, cancelled, report) ==
  CASE dryRun                                     -> "dryrun"
    [] ~dryRun /\ report = "timeout"              -> "timeout"
    [] ~dryRun /\ report # "timeout"
       /\ (cancelled \/ report = "cancelled")     -> "cancelled"
    [] OTHER                                      -> report

\* What an agent can report: an exit message, or else exit code 0 or another.
Reports == {"timeout", "cancelled", "ok", "error"}

\* simulateScriptResult writes its outcome whatever the row says.
SimulatedOutcomes == {"ok", "error", "timeout"}

\* What a run can end as: a report, an operator's simulation or cancel, a
\* device in maintenance or a dispatch that failed.
Ends(dryRun) ==
  {nextState(dryRun, cancelled, report) : cancelled \in BOOLEAN, report \in Reports}
    \cup SimulatedOutcomes \cup {"cancelled", "rejected"}

\* From one state to another: a run is created queued or rejected, starts when
\* its first output comes, and ends.  An end may be followed by another one, as
\* a run whose dispatch seemed to fail is still reported, but never by a start.
RunMoves(dryRun, from, to) ==
  \/ from = "none" /\ to \in {"queued", "rejected"}
  \/ from = "queued" /\ to = "running"
  \/ from # "none" /\ to \in Ends(dryRun)
=============================================================================
