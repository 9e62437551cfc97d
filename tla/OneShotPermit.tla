--------------------------- MODULE OneShotPermit ---------------------------
(***************************************************************************)
(* What FleetHub's 4-eyes approval gate promises its callers, with nothing *)
(* of how it is kept: a permit is asked for by one person, judged at most  *)
(* once by a different one, and authorises at most one use.  A permit that *)
(* is refused, spent or lapsed stays so for ever.                          *)
(*                                                                         *)
(* Approval.tla is the request handlers that implement this; the mapping   *)
(* from an Fl_ActionApproval row to a permit is there.                     *)
(***************************************************************************)
EXTENDS Naturals

CONSTANTS Permits, People, Nobody

VARIABLES
  phase,   \* [Permits -> Phases]
  asker,   \* who asked for the permit
  judge,   \* who granted or refused it
  uses     \* how many effects the permit has authorised

permitVars == <<phase, asker, judge, uses>>

Phases == {"unasked", "asked", "granted", "refused", "spent", "lapsed"}

PermitInit ==
  /\ phase = [p \in Permits |-> "unasked"]
  /\ asker = [p \in Permits |-> Nobody]
  /\ judge = [p \in Permits |-> Nobody]
  /\ uses  = [p \in Permits |-> 0]

Ask(p) ==
  /\ phase[p] = "unasked"
  /\ \E someone \in People :
       /\ phase' = [phase EXCEPT ![p] = "asked"]
       /\ asker' = [asker EXCEPT ![p] = someone]
  /\ UNCHANGED <<judge, uses>>

\* Granting and refusing are the two judgements; both need a second person.
Judge(p, verdict) ==
  /\ phase[p] = "asked"
  /\ \E someone \in People \ {asker[p]} :
       /\ judge' = [judge EXCEPT ![p] = someone]
       /\ phase' = [phase EXCEPT ![p] = verdict]
  /\ UNCHANGED <<asker, uses>>

Spend(p) ==
  /\ phase[p] = "granted"
  /\ phase' = [phase EXCEPT ![p] = "spent"]
  /\ UNCHANGED <<asker, judge, uses>>

Use(p) ==
  /\ phase[p] = "spent"
  /\ uses[p] = 0
  /\ uses' = [uses EXCEPT ![p] = 1]
  /\ UNCHANGED <<phase, asker, judge>>

\* The sweep lapses any number of permits in one statement.
Lapse ==
  /\ \E P \in SUBSET {p \in Permits : phase[p] \in {"asked", "granted"}} :
       phase' = [p \in Permits |-> IF p \in P THEN "lapsed" ELSE phase[p]]
  /\ UNCHANGED <<asker, judge, uses>>

PermitNext ==
  \/ \E p \in Permits :
       Ask(p) \/ Judge(p, "granted") \/ Judge(p, "refused") \/ Spend(p) \/ Use(p)
  \/ Lapse

PermitSpec == PermitInit /\ [][PermitNext]_permitVars
=============================================================================
