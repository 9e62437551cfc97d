------------------------------ MODULE Approval ------------------------------
(***************************************************************************)
(* The 4-eyes approval gate: lib/approval-gate.ts, the routes that call it *)
(* and the hourly sweep.  An Fl_ActionApproval row is shared by every      *)
(* request handler; each handler is a chain of awaited statements, so one  *)
(* action here is one statement (or one synchronous stretch of JavaScript  *)
(* between two of them), and a row read by findUnique may have changed     *)
(* before the handler acts on it.                                          *)
(*                                                                         *)
(* Left out: the audit rows the handlers write, sessions and roles, and    *)
(* the step-up ledger the sweep also purges.                               *)
(***************************************************************************)
EXTENDS Naturals, Sequences, FiniteSets

CONSTANTS
  Approvals,      \* ids of Fl_ActionApproval rows
  Operators,      \* signed-in administrators, by e-mail
  Handlers,       \* request handlers in flight at once
  Calls,          \* the calls a gated route can receive, see CallType
  BulkApprovalThreshold, DisclosureRequiresApproval, ShellApprovalTags,
                  \* the tenant's approval policy
  TTL,            \* lifetime of an approval, in ticks
  MaxTime,        \* bound on the clock
  MaxCrashes,     \* bound on restarts of the app container
  None            \* no approval id, no approver

VARIABLES
  row,       \* the Fl_ActionApproval table
  req,       \* what each handler is doing
  sweepAt,   \* the time the running sweep captured, or None
  now,       \* the clock
  crashes,   \* restarts so far
  uses       \* history: how many effects each approval authorised

vars == <<row, req, sweepAt, now, crashes, uses>>

-----------------------------------------------------------------------------
(* Data                                                                    *)

Verbs == {"bulk.dispatch", "shell.open", "device.power", "credential.disclose",
          "credential.update", "alert-route.delete", "oncall-schedule.delete"}

\* The part of a request body the gate looks at.  "targets" is the list of
\* ids in the hashed payload, "fields" stands for its other fields (the power
\* verb, the deployment action ...), "role" is the role of the target device.
CallType == [verb : Verbs, targets : Seq(STRING), fields : STRING, role : STRING]

ASSUME ApprovalAssumption ==
  /\ Calls \subseteq CallType
  /\ TTL \in Nat
  /\ MaxTime \in Nat
  /\ MaxCrashes \in Nat
  /\ None \notin Approvals
  /\ None \notin Operators

\* hashPayload over the payload with its ids sorted: the order they were
\* picked in is lost, how often each occurs is not.  SHA-256 is taken to be
\* injective.
PayloadHash(call) ==
  LET Places(id) == {i \in DOMAIN call.targets : call.targets[i] = id}
  IN  [fields |-> call.fields,
       ids |-> [id \in {call.targets[i] : i \in DOMAIN call.targets} |->
                  Cardinality(Places(id))]]

\* shouldRequireApproval, and the uninstall rule of POST /api/deployments.  The
\* tenant is taken to be known: for an unknown one shouldRequireApproval asks
\* for nothing, which only takes calls out of the gate.
ApprovalRequired(call) ==
  \/ /\ call.verb = "bulk.dispatch"
     /\ call.fields = "uninstall" \/ Len(call.targets) > BulkApprovalThreshold
  \/ call.verb = "shell.open" /\ call.role \in ShellApprovalTags
  \/ call.verb \in {"credential.disclose", "credential.update"} /\ DisclosureRequiresApproval
  \/ call.verb \in {"alert-route.delete", "oncall-schedule.delete"}
  \/ call.verb = "device.power" /\ call.fields \in {"shutdown", "logoff"}

States == {"absent", "pending", "approved", "denied", "expired", "consumed"}

Hashes == {PayloadHash(c) : c \in Calls}

RowType ==
  [state : States, action : Verbs \cup {None}, payloadHash : Hashes \cup {None},
   requestedBy : Operators \cup {None}, approverEmail : Operators \cup {None},
   denyReason : BOOLEAN, consumedAt : BOOLEAN, expiresAt : Nat]

AbsentRow ==
  [state |-> "absent", action |-> None, payloadHash |-> None, requestedBy |-> None,
   approverEmail |-> None, denyReason |-> FALSE, consumedAt |-> FALSE, expiresAt |-> 0]

Steps == {"idle", "create", "consume.read", "consume.check", "consume.expire",
          "consume.set", "effect", "approve.read", "approve.check", "approve.expire",
          "approve.set", "deny.read", "deny.check", "deny.set"}

ReqType == [pc : Steps, who : Operators \cup {None}, call : Calls \cup {None},
            id : Approvals \cup {None}, seen : States]

IdleReq == [pc |-> "idle", who |-> None, call |-> None, id |-> None, seen |-> "absent"]

-----------------------------------------------------------------------------
(* Steps of a handler                                                      *)

Become(h, r) == req' = [req EXCEPT ![h] = r]
Goto(h, pc) == Become(h, [req[h] EXCEPT !.pc = pc, !.seen = "absent"])
Finish(h) == Become(h, IdleReq)

Keep == UNCHANGED <<sweepAt, now, crashes>>
Silent == Keep /\ UNCHANGED <<row, uses>>

Lapsed(id, t) == row[id].expiresAt < t

\* findUnique.  Only "state" of a row that exists ever matters again as read:
\* the columns requireApproval wrote are never updated.
Read(h, from, to) ==
  /\ req[h].pc = from
  /\ IF row[req[h].id].state = "absent"
       THEN Finish(h)
       ELSE Become(h, [req[h] EXCEPT !.pc = to, !.seen = row[req[h].id].state])
  /\ Silent

\* updateMany ... where { id, state: from }: the check-and-set of the gate.
\* The request answers on a miss; on a hit it becomes "then".
CompareAndSet(h, from, new, then) ==
  LET id == req[h].id IN
  /\ IF row[id].state = from
       THEN row' = [row EXCEPT ![id] = new] /\ Become(h, then)
       ELSE Finish(h) /\ UNCHANGED row
  /\ Keep /\ UNCHANGED uses

\* A gated route is called, with or without the id of an approval.
ReceiveCall(h) ==
  /\ req[h].pc = "idle"
  /\ \E who \in Operators \cup {None}, call \in Calls, id \in Approvals \cup {None} :
       LET pc == CASE ~ApprovalRequired(call) -> "effect"
                   [] ApprovalRequired(call) /\ id = None -> "create"
                   [] OTHER -> "consume.read"
       IN  \* who calls matters to requireApproval only, the id to consumeApproval
           /\ (who = None) <=> (pc # "create")
           /\ pc # "consume.read" => id = None
           /\ Become(h, [pc |-> pc, who |-> who, call |-> call, id |-> id, seen |-> "absent"])
  /\ Silent

\* requireApproval: the row is inserted and the route answers 202, or the
\* insert throws.  Rows whose expiry would fall beyond the bound on the clock
\* are not created.
CreateApproval(h) ==
  /\ req[h].pc = "create"
  /\ \/ UNCHANGED row
     \/ \E a \in Approvals :
       /\ row[a].state = "absent"
       /\ now + TTL < MaxTime
       /\ row' = [row EXCEPT ![a] =
            [AbsentRow EXCEPT !.state = "pending", !.action = req[h].call.verb,
               !.payloadHash = PayloadHash(req[h].call), !.requestedBy = req[h].who,
               !.expiresAt = now + TTL]]
  /\ Finish(h)
  /\ Keep /\ UNCHANGED uses

ConsumeRead(h) == Read(h, "consume.read", "consume.check")

\* Mutant of ConsumeCheck: the payload is not compared.
ConsumeCheckAnyPayload(h) ==
  LET r == row[req[h].id] IN
  /\ req[h].pc = "consume.check"
  /\ IF req[h].seen # "approved" \/ r.action # req[h].call.verb
       THEN Finish(h)
       ELSE Goto(h, IF Lapsed(req[h].id, now) THEN "consume.expire" ELSE "consume.set")
  /\ Silent

\* The early returns of consumeApproval, in their order.
ConsumeCheck(h) ==
  LET r == row[req[h].id] IN
  /\ req[h].pc = "consume.check"
  /\ IF \/ req[h].seen # "approved"
        \/ r.action # req[h].call.verb
        \/ r.payloadHash # PayloadHash(req[h].call)
       THEN Finish(h)
       ELSE Goto(h, IF Lapsed(req[h].id, now) THEN "consume.expire" ELSE "consume.set")
  /\ Silent

ConsumeExpire(h) ==
  /\ req[h].pc = "consume.expire"
  /\ CompareAndSet(h, "approved", [row[req[h].id] EXCEPT !.state = "expired"], IdleReq)

\* Mutant of ConsumeSet: an update by id, trusting the state read earlier.
ConsumeSetByIdOnly(h) ==
  /\ req[h].pc = "consume.set"
  /\ CompareAndSet(h, row[req[h].id].state,
       [row[req[h].id] EXCEPT !.state = "consumed", !.consumedAt = TRUE],
       [req[h] EXCEPT !.pc = "effect"])

ConsumeSet(h) ==
  /\ req[h].pc = "consume.set"
  /\ CompareAndSet(h, "approved",
       [row[req[h].id] EXCEPT !.state = "consumed", !.consumedAt = TRUE],
       [req[h] EXCEPT !.pc = "effect"])

\* What the route then does: dispatch, rotate, disclose, delete.  It may
\* fail (agent offline, schedule still referenced), and the approval is gone.
Effect(h) ==
  /\ req[h].pc = "effect"
  /\ \/ uses' = [a \in Approvals |-> IF a = req[h].id THEN uses[a] + 1 ELSE uses[a]]
     \/ UNCHANGED uses
  /\ Finish(h)
  /\ Keep /\ UNCHANGED row

\* POST /api/approvals/[id]/decide.
ReceiveDecision(h) ==
  /\ req[h].pc = "idle"
  /\ \E who \in Operators, id \in Approvals, pc \in {"approve.read", "deny.read"} :
       Become(h, [IdleReq EXCEPT !.pc = pc, !.who = who, !.id = id])
  /\ Silent

ApproveRead(h) == Read(h, "approve.read", "approve.check")
DenyRead(h) == Read(h, "deny.read", "deny.check")

\* Mutant of SelfDecision: the 4-eyes comparison is lost.
NeverSelfDecision(h) == FALSE

SelfDecision(h) == row[req[h].id].requestedBy = req[h].who

ApproveCheck(h) ==
  /\ req[h].pc = "approve.check"
  /\ CASE req[h].seen # "pending" -> Finish(h)
       [] req[h].seen = "pending" /\ Lapsed(req[h].id, now) -> Goto(h, "approve.expire")
       [] req[h].seen = "pending" /\ ~Lapsed(req[h].id, now) ->
            IF SelfDecision(h) THEN Finish(h) ELSE Goto(h, "approve.set")
  /\ Silent

\* The lazy expiry of approveAction is a plain update: whatever the state of
\* the row has become since it was read, it is now "expired".
ApproveExpire(h) ==
  /\ req[h].pc = "approve.expire"
  /\ row' = [row EXCEPT ![req[h].id].state = "expired"]
  /\ Finish(h)
  /\ Keep /\ UNCHANGED uses

\* Mutant of ApproveSet: the state is misspelt.
ApproveSetMisspelt(h) ==
  /\ req[h].pc = "approve.set"
  /\ CompareAndSet(h, "pending",
       [row[req[h].id] EXCEPT !.state = "aproved", !.approverEmail = req[h].who], IdleReq)

ApproveSet(h) ==
  /\ req[h].pc = "approve.set"
  /\ CompareAndSet(h, "pending",
       [row[req[h].id] EXCEPT !.state = "approved", !.approverEmail = req[h].who], IdleReq)

\* denyAction does not look at expiresAt.
DenyCheck(h) ==
  /\ req[h].pc = "deny.check"
  /\ IF req[h].seen # "pending" \/ SelfDecision(h) THEN Finish(h) ELSE Goto(h, "deny.set")
  /\ Silent

\* Mutant of DenySet: an update by id, trusting the state read earlier.
DenySetByIdOnly(h) ==
  /\ req[h].pc = "deny.set"
  /\ CompareAndSet(h, row[req[h].id].state,
       [row[req[h].id] EXCEPT !.state = "denied", !.approverEmail = req[h].who,
                              !.denyReason = TRUE], IdleReq)

DenySet(h) ==
  /\ req[h].pc = "deny.set"
  /\ CompareAndSet(h, "pending",
       [row[req[h].id] EXCEPT !.state = "denied", !.approverEmail = req[h].who,
                              !.denyReason = TRUE], IdleReq)

-----------------------------------------------------------------------------
(* The sweep, the clock and restarts                                       *)

\* The cron handler takes the time once and uses it in its WHERE clauses.  A
\* tick that finds nothing to expire changes nothing and is not modelled.
SweepStart ==
  /\ sweepAt = None
  /\ \E a \in Approvals : row[a].state = "pending" /\ Lapsed(a, now)
  /\ sweepAt' = now
  /\ UNCHANGED <<row, req, now, crashes, uses>>

\* Mutant of SweepUpdate: the comparison is the wrong way round.
SweepUpdateBackwards ==
  /\ sweepAt # None
  /\ row' = [a \in Approvals |->
       IF row[a].state = "pending" /\ row[a].expiresAt > sweepAt
         THEN [row[a] EXCEPT !.state = "expired"] ELSE row[a]]
  /\ sweepAt' = None
  /\ UNCHANGED <<req, now, crashes, uses>>

SweepUpdate ==
  /\ sweepAt # None
  /\ row' = [a \in Approvals |->
       IF row[a].state = "pending" /\ Lapsed(a, sweepAt)
         THEN [row[a] EXCEPT !.state = "expired"] ELSE row[a]]
  /\ sweepAt' = None
  /\ UNCHANGED <<req, now, crashes, uses>>

Tick ==
  /\ now < MaxTime
  /\ now' = now + 1
  /\ UNCHANGED <<row, req, sweepAt, crashes, uses>>

\* The container restarts: handlers die where they stand, rows stay.
Crash ==
  /\ crashes < MaxCrashes
  /\ crashes' = crashes + 1
  /\ req' = [h \in Handlers |-> IdleReq]
  /\ sweepAt' = None
  /\ UNCHANGED <<row, now, uses>>

-----------------------------------------------------------------------------
Init ==
  /\ row = [a \in Approvals |-> AbsentRow]
  /\ req = [h \in Handlers |-> IdleReq]
  /\ sweepAt = None
  /\ now = 0
  /\ crashes = 0
  /\ uses = [a \in Approvals |-> 0]

\* One statement of a request that is under way.
HandlerStep(h) ==
  \/ CreateApproval(h)
  \/ ConsumeRead(h) \/ ConsumeCheck(h) \/ ConsumeExpire(h) \/ ConsumeSet(h)
  \/ Effect(h)
  \/ ApproveRead(h) \/ ApproveCheck(h) \/ ApproveExpire(h) \/ ApproveSet(h)
  \/ DenyRead(h) \/ DenyCheck(h) \/ DenySet(h)

Next ==
  \/ \E h \in Handlers : ReceiveCall(h) \/ ReceiveDecision(h) \/ HandlerStep(h)
  \/ SweepStart \/ SweepUpdate \/ Tick \/ Crash

Spec == Init /\ [][Next]_vars

\* Time passes, and the hourly cron keeps calling the sweep route.
Fairness == WF_vars(Tick) /\ WF_vars(SweepStart) /\ WF_vars(SweepUpdate)

FairSpec == Spec /\ Fairness

-----------------------------------------------------------------------------
(* Properties                                                              *)

TypeOK ==
  /\ row \in [Approvals -> RowType]
  /\ req \in [Handlers -> ReqType]
  /\ sweepAt \in Nat \cup {None}
  /\ now \in 0..MaxTime
  /\ crashes \in 0..MaxCrashes
  /\ uses \in [Approvals -> Nat]

\* One approval authorises one effect, however many handlers carry its id
\* and whatever dies on the way: the 'approved' -> 'consumed' update of
\* consumeApproval lets a single request through.
AtMostOneEffect == \A a \in Approvals : uses[a] <= 1

\* A handler that is about to dispatch, disclose, rotate or delete something
\* the policy gates holds an approval that was given by a second person,
\* not denied, for this very action and this very payload.
Authorises(a, call) ==
  /\ row[a].consumedAt
  /\ ~row[a].denyReason
  /\ row[a].approverEmail \notin {None, row[a].requestedBy}
  /\ row[a].action = call.verb
  /\ row[a].payloadHash = PayloadHash(call)

EffectAuthorised ==
  \A h \in Handlers :
    req[h].pc = "effect" /\ ApprovalRequired(req[h].call) =>
      req[h].id \in Approvals /\ Authorises(req[h].id, req[h].call)

\* The first decision stands: once an approver is recorded, no later approve,
\* deny, lazy expiry or sweep replaces the approver or reverses the verdict,
\* and a denied row never comes to authorise anything.
DecisionStands ==
  [][\A a \in Approvals :
       /\ row[a].approverEmail # None =>
            /\ row'[a].approverEmail = row[a].approverEmail
            /\ row'[a].denyReason = row[a].denyReason
       /\ row[a].denyReason => ~row'[a].consumedAt]_vars

\* What is asked for does not stay open for ever: somebody decides or the
\* sweep (or a late approver) expires it.
PendingSettles ==
  \A a \in Approvals : row[a].state = "pending" ~> row[a].state # "pending"

\* The header of approval-gate.ts: a denied or a consumed approval is final.
DecidedIsFinal ==
  [][\A a \in Approvals :
       row[a].state \in {"denied", "consumed"} => row'[a].state = row[a].state]_vars

(* Refinement: a row is a permit.  "expired" may be written over a decided *)
(* row, so the phase is read off the columns that record what happened.    *)
PhaseOf(r) ==
  CASE r.consumedAt -> "spent"
    [] ~r.consumedAt /\ r.denyReason -> "refused"
    [] ~r.consumedAt /\ ~r.denyReason /\ r.state = "expired" -> "lapsed"
    [] ~r.consumedAt /\ ~r.denyReason /\ r.state = "approved" -> "granted"
    [] ~r.consumedAt /\ ~r.denyReason /\ r.state = "pending" -> "asked"
    [] OTHER -> "unasked"

Permit == INSTANCE OneShotPermit WITH
  Permits <- Approvals, People <- Operators, Nobody <- None,
  phase <- [a \in Approvals |-> PhaseOf(row[a])],
  asker <- [a \in Approvals |-> row[a].requestedBy],
  judge <- [a \in Approvals |-> row[a].approverEmail],
  uses <- uses

\* The handlers implement the one-shot permit.
ImplementsPermit == Permit!PermitSpec
=============================================================================
