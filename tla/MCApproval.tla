----------------------------- MODULE MCApproval -----------------------------
(* Approval.tla with the calls that tell its guards apart. *)
EXTENDS Approval

Call(verb, fields, targets) ==
  [verb |-> verb, fields |-> fields, targets |-> targets, role |-> "workstation"]

MCCalls == {
  \* over the threshold, and the same action with another payload
  Call("bulk.dispatch", "install", <<"d1", "d2">>),
  Call("bulk.dispatch", "uninstall", <<"d1">>),
  \* the same payload under two actions
  Call("alert-route.delete", "id", <<"d1">>),
  Call("oncall-schedule.delete", "id", <<"d1">>),
  \* a power verb the policy lets through
  Call("device.power", "reboot", <<"d1">>)}
=============================================================================
