------------------------------ MODULE MCRunbook ------------------------------
(* Runbook.tla with two alerts of one kind on one device. *)
EXTENDS Runbook, TLC

MCAlertKey == [a \in Alerts |-> "disk.full on d1"]

Symmetry == Permutations(Workers) \cup Permutations(Alerts)
=============================================================================
