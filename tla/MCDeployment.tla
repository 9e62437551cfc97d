---------------------------- MODULE MCDeployment ----------------------------
(* Deployment.tla with small rings that exercise each selector. *)
EXTENDS Deployment, TLC

MCDevices == <<"d1", "d2">>

Stage(kind, pick, percent, rate) ==
  [kind |-> kind, pick |-> pick, percent |-> percent, abortFailureRate |-> rate]

MCRings == {
  \* one stage of two devices that tolerates one failure of the two
  <<Stage("remaining", {}, 0, 50)>>,
  \* a canary pinned to one device, a wave that rounds up to the other, and
  \* a last stage left empty unless the canary's device is in maintenance
  <<Stage("pinned", {"d2"}, 0, 0), Stage("percentile", {}, 25, 34),
    Stage("remaining", {}, 0, 10)>>}

WorkerSymmetry == Permutations(Workers)
=============================================================================
