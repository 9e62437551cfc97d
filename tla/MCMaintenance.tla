--------------------------- MODULE MCMaintenance ---------------------------
\* Two windows that share devices, one of them twice within the run: w1 holds
\* slots 1 and 4, w2 holds slot 2: each is flipped back while the other is in
\* force, and slot 3 is outside both.
EXTENDS Maintenance, TLC

CONSTANTS w1, w2

MCStarts == w1 :> {1, 4} @@ w2 :> {2}
MCLength == w1 :> 1 @@ w2 :> 1
=============================================================================
