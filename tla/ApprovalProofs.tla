--------------------------- MODULE ApprovalProofs ---------------------------
(***************************************************************************)
(* Proofs about the approval gate, for any number of approvals, operators  *)
(* and handlers: the safety properties of Approval.tla, and that it        *)
(* implements OneShotPermit.                                               *)
(***************************************************************************)
EXTENDS Approval, TLAPS

(* The inductive invariant.                                                *)

\* The columns of a row agree with its state.  "expired" may have been
\* written over any decision, so it promises nothing about the others.
RowOK(r) ==
  /\ r.state = "absent" => r = AbsentRow
  /\ r.state # "absent" => r.requestedBy \in Operators /\ r.requestedBy # r.approverEmail
  /\ r.state = "pending" => r.approverEmail = None
  /\ r.state = "approved" => r.approverEmail # None /\ ~r.denyReason
  /\ r.state \in {"pending", "approved", "denied"} => ~r.consumedAt
  /\ r.denyReason \/ r.consumedAt => r.approverEmail # None
  /\ r.state = "denied" => r.denyReason
  /\ r.state = "consumed" => r.consumedAt
  /\ ~(r.denyReason /\ r.consumedAt)

\* What a handler knows between two statements.  Only columns that never
\* change once the row is inserted may be relied on.
Matches(r, call) == r.action = call.verb /\ r.payloadHash = PayloadHash(call)

Consuming == {"consume.read", "consume.check", "consume.expire", "consume.set"}
Deciding == {"approve.read", "approve.check", "approve.expire", "approve.set",
             "deny.read", "deny.check", "deny.set"}
Reading == {"consume.read", "approve.read", "deny.read"}

ReqOK(r) ==
  /\ r.pc = "create" => r.who \in Operators /\ r.call \in Calls
  /\ r.pc \in Consuming => r.id \in Approvals /\ r.call \in Calls
  /\ r.pc \in Deciding => r.id \in Approvals /\ r.who \in Operators
  /\ r.pc \in (Consuming \cup Deciding) \ Reading => row[r.id].state # "absent"
  /\ r.pc = "consume.set" => Matches(row[r.id], r.call)
  /\ r.pc \in {"approve.set", "deny.set"} => r.who # row[r.id].requestedBy
  /\ r.pc = "effect" /\ r.id = None => ~ApprovalRequired(r.call)
  /\ r.pc = "effect" /\ r.id # None =>
       Matches(row[r.id], r.call) /\ row[r.id].consumedAt /\ uses[r.id] = 0

\* Two handlers never hold the same consumed approval.
Exclusive ==
  \A g, h \in Handlers :
    req[g].pc = "effect" /\ req[h].pc = "effect" /\ g # h /\ req[g].id = req[h].id
      => req[g].id = None

UsesOK == \A a \in Approvals : uses[a] = 0 \/ (uses[a] = 1 /\ row[a].consumedAt)

IInv ==
  /\ TypeOK
  /\ \A a \in Approvals : RowOK(row[a])
  /\ \A h \in Handlers : ReqOK(req[h])
  /\ Exclusive
  /\ UsesOK

-----------------------------------------------------------------------------
(* Type correctness of a step.                                             *)

\* Every action keeps the types, given that a handler at "create" has a
\* requester and a call, and one past a check has an approval.
LEMMA TypeStep == IInv /\ [Next]_vars => TypeOK'
<1> SUFFICES ASSUME IInv, [Next]_vars PROVE TypeOK'
  OBVIOUS
<1>t. TypeOK /\ \A h \in Handlers : ReqOK(req[h])
  BY DEF IInv
<1>i. IdleReq \in ReqType
  BY DEF IdleReq, ReqType, Steps, States
<1>n. TTL \in Nat /\ MaxTime \in Nat /\ MaxCrashes \in Nat
  BY ApprovalAssumption
<1>g. ASSUME NEW h \in Handlers, NEW pc \in Steps, Goto(h, pc)
      PROVE  req' \in [Handlers -> ReqType]
  BY <1>t, <1>g, ZenonT(60) DEF Goto, Become, TypeOK, ReqType, States
<1>f. ASSUME NEW h \in Handlers, Finish(h)
      PROVE  req' \in [Handlers -> ReqType]
  BY <1>t, <1>i, <1>f DEF Finish, Become, TypeOK
<1>k. ASSUME Silent, req' \in [Handlers -> ReqType]
      PROVE  TypeOK'
  BY <1>t, <1>k DEF Silent, Keep, TypeOK
<1>r. ASSUME NEW h \in Handlers, NEW from, NEW to \in Steps, Read(h, from, to),
             req[h].id \in Approvals
      PROVE  TypeOK'
  <2>1. row[req[h].id].state \in States
    BY <1>t, <1>r DEF TypeOK, RowType
  <2>2. req' \in [Handlers -> ReqType]
    BY <1>t, <1>r, <1>f, <2>1, ZenonT(60) DEF Read, Become, TypeOK, ReqType
  <2> QED
    BY <2>2, <1>k, <1>r DEF Read
<1>c. ASSUME NEW h \in Handlers, NEW from, NEW new \in RowType, NEW then \in ReqType,
             CompareAndSet(h, from, new, then)
      PROVE  TypeOK'
  <2>1. row' \in [Approvals -> RowType]
    BY <1>t, <1>c DEF CompareAndSet, TypeOK
  <2>2. req' \in [Handlers -> ReqType]
    BY <1>t, <1>c, <1>f DEF CompareAndSet, Become, TypeOK
  <2> QED
    BY <1>t, <1>c, <2>1, <2>2 DEF CompareAndSet, Keep, TypeOK
<1>1. ASSUME NEW h \in Handlers, ReceiveCall(h) PROVE TypeOK'
  <2>1. PICK who \in Operators \cup {None}, call \in Calls, id \in Approvals \cup {None},
             pc \in Steps :
          Become(h, [pc |-> pc, who |-> who, call |-> call, id |-> id, seen |-> "absent"])
    BY <1>1, ZenonT(60) DEF ReceiveCall, Steps
  <2>2. req' \in [Handlers -> ReqType]
    BY <1>t, <2>1 DEF Become, TypeOK, ReqType, States
  <2> QED
    BY <2>2, <1>k, <1>1 DEF ReceiveCall
<1>2. ASSUME NEW h \in Handlers, CreateApproval(h) PROVE TypeOK'
  <2>1. req[h].who \in Operators /\ req[h].call \in Calls
    BY <1>t, <1>2 DEF CreateApproval, ReqOK
  <2>2. req[h].call.verb \in Verbs
    BY <2>1, ApprovalAssumption DEF CallType
  <2>3. PayloadHash(req[h].call) \in Hashes
    BY <2>1 DEF Hashes
  <2>4. now + TTL \in Nat
    BY <1>t, <1>n DEF TypeOK
  <2>5. [AbsentRow EXCEPT !.state = "pending", !.action = req[h].call.verb,
               !.payloadHash = PayloadHash(req[h].call), !.requestedBy = req[h].who,
               !.expiresAt = now + TTL] \in RowType
    BY <2>1, <2>2, <2>3, <2>4 DEF AbsentRow, RowType, States
  <2>6. row' \in [Approvals -> RowType]
    BY <1>t, <1>2, <2>5 DEF CreateApproval, TypeOK
  <2> QED
    BY <1>t, <1>2, <1>f, <2>6 DEF CreateApproval, Keep, TypeOK
<1>3. ASSUME NEW h \in Handlers, ConsumeRead(h) \/ ApproveRead(h) \/ DenyRead(h) PROVE TypeOK'
  <2>1. req[h].id \in Approvals
    BY <1>t, <1>3 DEF ReqOK, ConsumeRead, ApproveRead, DenyRead, Read, Consuming, Deciding
  <2> QED
    BY <1>3, <1>r, <2>1 DEF ConsumeRead, ApproveRead, DenyRead, Steps
<1>4. ASSUME NEW h \in Handlers, ConsumeCheck(h) \/ ApproveCheck(h) \/ DenyCheck(h) PROVE TypeOK'
  <2>1. (\E pc \in Steps : Goto(h, pc)) \/ Finish(h)
    BY <1>4 DEF ConsumeCheck, ApproveCheck, DenyCheck, Steps
  <2> QED
    BY <1>4, <1>g, <1>f, <1>k, <2>1 DEF ConsumeCheck, ApproveCheck, DenyCheck
<1>5. ASSUME NEW h \in Handlers,
             ConsumeExpire(h) \/ ConsumeSet(h) \/ ApproveSet(h) \/ DenySet(h)
      PROVE  TypeOK'
  <2>1. req[h].id \in Approvals /\ req[h].who \in Operators \cup {None} /\ req[h] \in ReqType
    BY <1>t, <1>5 DEF ConsumeExpire, ConsumeSet, ApproveSet, DenySet, ReqOK, Consuming, Deciding,
                      TypeOK, ReqType
  <2>2. row[req[h].id] \in RowType
    BY <1>t, <2>1 DEF TypeOK
  <2>3. [req[h] EXCEPT !.pc = "effect"] \in ReqType
    BY <2>1 DEF ReqType, Steps
  <2>4. CASE ConsumeExpire(h)
    BY <2>2, <2>4, <1>i, <1>c DEF ConsumeExpire, RowType, States
  <2>5. CASE ConsumeSet(h)
    BY <2>2, <2>3, <2>5, <1>c DEF ConsumeSet, RowType, States
  <2>6. CASE ApproveSet(h)
    BY <2>1, <2>2, <2>6, <1>i, <1>c DEF ApproveSet, RowType, States
  <2>7. CASE DenySet(h)
    BY <2>1, <2>2, <2>7, <1>i, <1>c DEF DenySet, RowType, States
  <2> QED
    BY <1>5, <2>4, <2>5, <2>6, <2>7
<1>6. ASSUME NEW h \in Handlers, Effect(h) PROVE TypeOK'
  <2>1. uses' \in [Approvals -> Nat]
    BY <1>t, <1>6 DEF Effect, TypeOK
  <2> QED
    BY <1>t, <1>6, <1>f, <2>1 DEF Effect, Keep, TypeOK
<1>7. ASSUME NEW h \in Handlers, ReceiveDecision(h) PROVE TypeOK'
  <2>1. PICK who \in Operators, id \in Approvals, pc \in Steps :
          Become(h, [IdleReq EXCEPT !.pc = pc, !.who = who, !.id = id])
    BY <1>7 DEF ReceiveDecision, Steps
  <2>2. [IdleReq EXCEPT !.pc = pc, !.who = who, !.id = id] \in ReqType
    BY DEF IdleReq, ReqType, States
  <2>3. req' \in [Handlers -> ReqType]
    BY <1>t, <2>1, <2>2 DEF Become, TypeOK
  <2> QED
    BY <2>3, <1>k, <1>7 DEF ReceiveDecision
<1>8. ASSUME NEW h \in Handlers, ApproveExpire(h) PROVE TypeOK'
  <2>1. req[h].id \in Approvals
    BY <1>t, <1>8 DEF ApproveExpire, ReqOK, Deciding
  <2>2. [row[req[h].id] EXCEPT !.state = "expired"] \in RowType
    BY <1>t, <2>1 DEF TypeOK, RowType, States
  <2>3. row' = [row EXCEPT ![req[h].id] = [row[req[h].id] EXCEPT !.state = "expired"]]
    BY <1>8 DEF ApproveExpire
  <2>4. row' \in [Approvals -> RowType]
    BY <1>t, <2>2, <2>3 DEF TypeOK
  <2> QED
    BY <1>t, <1>8, <1>f, <2>4 DEF ApproveExpire, Keep, TypeOK
<1>9. CASE SweepStart
  BY <1>t, <1>n, <1>9 DEF SweepStart, TypeOK
<1>10. CASE SweepUpdate
  <2>1. row' \in [Approvals -> RowType]
    BY <1>t, <1>10 DEF SweepUpdate, TypeOK, RowType, States
  <2> QED
    BY <1>t, <1>10, <2>1 DEF SweepUpdate, TypeOK
<1>11. CASE Tick
  BY <1>t, <1>n, <1>11 DEF Tick, TypeOK
<1>12. CASE Crash
  BY <1>t, <1>n, <1>i, <1>12 DEF Crash, TypeOK
<1>13. CASE UNCHANGED vars
  BY <1>t, <1>13 DEF vars, TypeOK
<1> QED
  BY <1>1, <1>2, <1>3, <1>4, <1>5, <1>6, <1>7, <1>8, <1>9, <1>10, <1>11, <1>12, <1>13
  DEF Next, HandlerStep

-----------------------------------------------------------------------------
(* What can happen to a row in one step.                                   *)

Inserted(r, s) ==
  /\ r = AbsentRow
  /\ \E who \in Operators, call \in Calls, t \in Nat :
       s = [AbsentRow EXCEPT !.state = "pending", !.action = call.verb,
              !.payloadHash = PayloadHash(call), !.requestedBy = who, !.expiresAt = t]

Granted(r, s) ==
  /\ r.state = "pending"
  /\ \E who \in Operators \ {r.requestedBy} :
       s = [r EXCEPT !.state = "approved", !.approverEmail = who]

Refused(r, s) ==
  /\ r.state = "pending"
  /\ \E who \in Operators \ {r.requestedBy} :
       s = [r EXCEPT !.state = "denied", !.approverEmail = who, !.denyReason = TRUE]

Consumed(r, s) ==
  /\ r.state = "approved"
  /\ s = [r EXCEPT !.state = "consumed", !.consumedAt = TRUE]

Expired(r, s) ==
  /\ r.state # "absent"
  /\ s = [r EXCEPT !.state = "expired"]

RowMove(r, s) ==
  s = r \/ Inserted(r, s) \/ Granted(r, s) \/ Refused(r, s) \/ Consumed(r, s) \/ Expired(r, s)

\* What is never taken back from a row.
RowStable(r, s) ==
  /\ r.state # "absent" =>
       /\ s.state # "absent"
       /\ s.action = r.action
       /\ s.payloadHash = r.payloadHash
       /\ s.requestedBy = r.requestedBy
  /\ r.consumedAt => s.consumedAt
  /\ r.approverEmail # None =>
       s.approverEmail = r.approverEmail /\ s.denyReason = r.denyReason

\* The moves keep a row's columns in agreement and take nothing back.
LEMMA MoveKeeps ==
  ASSUME NEW r \in RowType, NEW s \in RowType, RowOK(r), RowMove(r, s)
  PROVE  RowOK(s) /\ RowStable(r, s)
<1>n. None \notin Operators
  BY ApprovalAssumption
<1>1. CASE s = r
  BY <1>1 DEF RowStable
<1>2. CASE Inserted(r, s)
  BY <1>n, <1>2 DEF Inserted, RowOK, RowStable, AbsentRow
<1>3. CASE Granted(r, s)
  BY <1>n, <1>3 DEF Granted, RowOK, RowStable, RowType
<1>4. CASE Refused(r, s)
  BY <1>n, <1>4, ZenonT(60) DEF Refused, RowOK, RowStable, RowType
<1>5. CASE Consumed(r, s)
  BY <1>n, <1>5 DEF Consumed, RowOK, RowStable, RowType
<1>6. CASE Expired(r, s)
  BY <1>n, <1>6 DEF Expired, RowOK, RowStable, RowType
<1> QED
  BY <1>1, <1>2, <1>3, <1>4, <1>5, <1>6 DEF RowMove

\* A handler's step makes a move on the row it holds, or on a fresh one.
LEMMA HandlerMove ==
  ASSUME IInv, NEW h \in Handlers, HandlerStep(h)
  PROVE  \/ row' = row
         \/ \E a \in Approvals, new \in RowType :
              row' = [row EXCEPT ![a] = new] /\ RowMove(row[a], new) /\ uses' = uses
<1>t. TypeOK /\ ReqOK(req[h])
  BY DEF IInv
<1>w. ASSUME req[h].id \in Approvals PROVE row[req[h].id] \in RowType
  BY <1>t, <1>w DEF TypeOK
<1>1. CASE CreateApproval(h)
  <2>1. req[h].who \in Operators /\ req[h].call \in Calls
    BY <1>t, <1>1 DEF CreateApproval, ReqOK
  <2>2. now + TTL \in Nat
    BY <1>t, ApprovalAssumption DEF TypeOK
  <2>3. req[h].call.verb \in Verbs /\ PayloadHash(req[h].call) \in Hashes
    BY <2>1, ApprovalAssumption DEF CallType, Hashes
  <2> DEFINE new == [AbsentRow EXCEPT !.state = "pending", !.action = req[h].call.verb,
                       !.payloadHash = PayloadHash(req[h].call), !.requestedBy = req[h].who,
                       !.expiresAt = now + TTL]
  <2>4. new \in RowType
    BY <2>1, <2>2, <2>3 DEF AbsentRow, RowType, States
  <2>5. SUFFICES ASSUME row' # row PROVE \E a \in Approvals :
          row' = [row EXCEPT ![a] = new] /\ RowMove(row[a], new) /\ uses' = uses
    BY <2>4
  <2>6. PICK a \in Approvals : row[a].state = "absent" /\ row' = [row EXCEPT ![a] = new]
    BY <1>1, <2>5 DEF CreateApproval
  <2>7. row[a] = AbsentRow
    BY <2>6 DEF IInv, RowOK
  <2>8. Inserted(row[a], new)
    BY <2>1, <2>2, <2>7 DEF Inserted
  <2> QED
    BY <1>1, <2>6, <2>8 DEF RowMove, CreateApproval
<1>2. CASE ConsumeRead(h) \/ ConsumeCheck(h) \/ Effect(h) \/ ApproveRead(h) \/ ApproveCheck(h)
           \/ DenyRead(h) \/ DenyCheck(h)
  BY <1>2 DEF ConsumeRead, ConsumeCheck, Effect, ApproveRead, ApproveCheck, DenyRead, DenyCheck,
              Read, Silent
<1>3. CASE ConsumeExpire(h)
  <2>1. req[h].id \in Approvals
    BY <1>t, <1>3 DEF ConsumeExpire, ReqOK, Consuming
  <2> DEFINE new == [row[req[h].id] EXCEPT !.state = "expired"]
  <2>2. new \in RowType
    BY <1>w, <2>1 DEF RowType, States
  <2>3. row[req[h].id].state = "approved" => Expired(row[req[h].id], new)
    BY DEF Expired
  <2> QED
    BY <1>3, <2>1, <2>2, <2>3 DEF ConsumeExpire, CompareAndSet, RowMove
<1>4. CASE ConsumeSet(h)
  <2>1. req[h].id \in Approvals
    BY <1>t, <1>4 DEF ConsumeSet, ReqOK, Consuming
  <2> DEFINE new == [row[req[h].id] EXCEPT !.state = "consumed", !.consumedAt = TRUE]
  <2>2. new \in RowType
    BY <1>w, <2>1 DEF RowType, States
  <2>3. row[req[h].id].state = "approved" => Consumed(row[req[h].id], new)
    BY DEF Consumed
  <2> QED
    BY <1>4, <2>1, <2>2, <2>3 DEF ConsumeSet, CompareAndSet, RowMove
<1>5. CASE ApproveExpire(h)
  <2>1. req[h].id \in Approvals /\ row[req[h].id].state # "absent"
    BY <1>t, <1>5 DEF ApproveExpire, ReqOK, Consuming, Deciding, Reading
  <2> DEFINE new == [row[req[h].id] EXCEPT !.state = "expired"]
  <2>2. new \in RowType
    BY <1>w, <2>1 DEF RowType, States
  <2>3. Expired(row[req[h].id], new)
    BY <2>1 DEF Expired
  <2>4. row' = [row EXCEPT ![req[h].id] = new]
    BY <1>5 DEF ApproveExpire
  <2> QED
    BY <1>5, <2>1, <2>2, <2>3, <2>4 DEF ApproveExpire, RowMove
<1>6. CASE ApproveSet(h)
  <2>1. req[h].id \in Approvals /\ req[h].who \in Operators \ {row[req[h].id].requestedBy}
    BY <1>t, <1>6 DEF ApproveSet, ReqOK, Deciding
  <2> DEFINE new == [row[req[h].id] EXCEPT !.state = "approved", !.approverEmail = req[h].who]
  <2>2. new \in RowType
    BY <1>w, <2>1 DEF RowType, States
  <2>3. row[req[h].id].state = "pending" => Granted(row[req[h].id], new)
    BY <2>1 DEF Granted
  <2> QED
    BY <1>6, <2>1, <2>2, <2>3 DEF ApproveSet, CompareAndSet, RowMove
<1>7. CASE DenySet(h)
  <2>1. req[h].id \in Approvals /\ req[h].who \in Operators \ {row[req[h].id].requestedBy}
    BY <1>t, <1>7 DEF DenySet, ReqOK, Deciding
  <2> DEFINE new == [row[req[h].id] EXCEPT !.state = "denied", !.approverEmail = req[h].who,
                                           !.denyReason = TRUE]
  <2>2. new \in RowType
    BY <1>w, <2>1 DEF RowType, States
  <2>3. row[req[h].id].state = "pending" => Refused(row[req[h].id], new)
    BY <2>1 DEF Refused
  <2> QED
    BY <1>7, <2>1, <2>2, <2>3 DEF DenySet, CompareAndSet, RowMove
<1> QED
  BY <1>1, <1>2, <1>3, <1>4, <1>5, <1>6, <1>7 DEF HandlerStep

\* Whatever the step, every row makes a move (or stays).
LEMMA EveryMove == IInv /\ [Next]_vars => \A a \in Approvals : RowMove(row[a], row'[a])
<1> SUFFICES ASSUME IInv, [Next]_vars, NEW a \in Approvals PROVE RowMove(row[a], row'[a])
  OBVIOUS
<1>t. row \in [Approvals -> RowType]
  BY DEF IInv, TypeOK
<1>1. ASSUME row' = row PROVE RowMove(row[a], row'[a])
  BY <1>1 DEF RowMove
<1>2. ASSUME NEW h \in Handlers, HandlerStep(h) PROVE RowMove(row[a], row'[a])
  BY <1>t, <1>1, <1>2, HandlerMove DEF RowMove
<1>3. CASE SweepUpdate
  BY <1>3 DEF SweepUpdate, RowMove, Expired
<1>4. ASSUME NEW h \in Handlers, ReceiveCall(h) \/ ReceiveDecision(h)
      PROVE  RowMove(row[a], row'[a])
  BY <1>1, <1>4 DEF ReceiveCall, ReceiveDecision, Silent
<1>5. CASE SweepStart \/ Tick \/ Crash \/ UNCHANGED vars
  BY <1>1, <1>5 DEF SweepStart, Tick, Crash, vars
<1> QED
  BY <1>2, <1>3, <1>4, <1>5 DEF Next

\* The rows stay well formed, and nothing recorded in them is taken back.
LEMMA RowsStep ==
  IInv /\ [Next]_vars => \A a \in Approvals : RowOK(row'[a]) /\ RowStable(row[a], row'[a])
<1> SUFFICES ASSUME IInv, [Next]_vars, NEW a \in Approvals
             PROVE  RowOK(row'[a]) /\ RowStable(row[a], row'[a])
  OBVIOUS
<1>1. row[a] \in RowType /\ row'[a] \in RowType
  BY TypeStep DEF IInv, TypeOK
<1>2. RowOK(row[a]) /\ RowMove(row[a], row'[a])
  BY EveryMove DEF IInv
<1> QED
  BY <1>1, <1>2, MoveKeeps

-----------------------------------------------------------------------------
(* What handlers know, and who holds what.                                 *)

\* What a handler knows survives a step in which it does not move, provided
\* nobody uses the approval it holds.
LEMMA OthersKnow ==
  ASSUME IInv, [Next]_vars, NEW g \in Handlers, req'[g] = req[g],
         req[g].pc = "effect" /\ req[g].id # None => uses'[req[g].id] = uses[req[g].id]
  PROVE  ReqOK(req[g])'
<1>1. ReqOK(req[g]) /\ req[g] \in ReqType
  BY DEF IInv, TypeOK
<1>2. \A a \in Approvals : RowStable(row[a], row'[a])
  BY RowsStep
<1>3. req[g].id \in Approvals \cup {None}
  BY <1>1 DEF ReqType
<1>4. CASE req[g].id = None
  BY <1>1, <1>4, ApprovalAssumption DEF ReqOK, Consuming, Deciding
<1>5. CASE req[g].id \in Approvals
  <2>1. RowStable(row[req[g].id], row'[req[g].id])
    BY <1>2, <1>5
  <2>2. row[req[g].id].state = "absent" => row[req[g].id] = AbsentRow
    BY <1>5 DEF IInv, RowOK
  <2>3. req[g].pc \in {"consume.set", "approve.set", "deny.set"} => row[req[g].id].state # "absent"
    BY <1>1 DEF ReqOK, Consuming, Deciding, Reading
  <2>4. req[g].pc = "effect" /\ req[g].id # None => row[req[g].id].state # "absent"
    BY <1>1, <2>2 DEF ReqOK, AbsentRow
  <2> QED
    BY <1>1, <2>1, <2>3, <2>4 DEF ReqOK, RowStable, Matches
<1> QED
  BY <1>3, <1>4, <1>5

\* Only the effect of a handler counts a use, of the approval it holds.
LEMMA UsesFrame ==
  ASSUME IInv, [Next]_vars
  PROVE  \/ uses' = uses
         \/ \E h \in Handlers :
              /\ Effect(h)
              /\ uses' = [a \in Approvals |-> IF a = req[h].id THEN uses[a] + 1 ELSE uses[a]]
<1>1. ASSUME NEW h \in Handlers, HandlerStep(h), ~Effect(h) PROVE uses' = uses
  BY <1>1 DEF HandlerStep, CreateApproval, ConsumeRead, ConsumeCheck, ConsumeExpire, ConsumeSet,
     ApproveRead, ApproveCheck, ApproveExpire, ApproveSet, DenyRead, DenyCheck, DenySet, Read,
     CompareAndSet, Silent
<1>2. ASSUME NEW h \in Handlers, Effect(h)
      PROVE  \/ uses' = uses
             \/ uses' = [a \in Approvals |-> IF a = req[h].id THEN uses[a] + 1 ELSE uses[a]]
  BY <1>2 DEF Effect
<1>3. ASSUME NEW h \in Handlers, ReceiveCall(h) \/ ReceiveDecision(h) PROVE uses' = uses
  BY <1>3 DEF ReceiveCall, ReceiveDecision, Silent
<1>4. CASE SweepStart \/ SweepUpdate \/ Tick \/ Crash \/ UNCHANGED vars
  BY <1>4 DEF SweepStart, SweepUpdate, Tick, Crash, vars
<1> QED
  BY <1>1, <1>2, <1>3, <1>4 DEF Next

\* A step moves one handler at most, or a restart idles them all.
LEMMA ReqFrame ==
  ASSUME IInv, [Next]_vars
  PROVE  \/ req' = req
         \/ Crash
         \/ \E h \in Handlers :
              /\ ReceiveCall(h) \/ ReceiveDecision(h) \/ HandlerStep(h)
              /\ \A g \in Handlers : g # h => req'[g] = req[g]
<1>t. req \in [Handlers -> ReqType]
  BY DEF IInv, TypeOK
<1>1. ASSUME NEW h \in Handlers, \E r : Become(h, r) PROVE \A g \in Handlers : g # h => req'[g] = req[g]
  BY <1>t, <1>1 DEF Become
<1>2. ASSUME NEW h \in Handlers, ReceiveCall(h) \/ ReceiveDecision(h) \/ HandlerStep(h)
      PROVE  \E r : Become(h, r)
  <2>1. ASSUME ReceiveCall(h) \/ ReceiveDecision(h) PROVE \E r : Become(h, r)
    BY <2>1 DEF ReceiveCall, ReceiveDecision
  <2>2. ASSUME Finish(h) \/ \E pc : Goto(h, pc) PROVE \E r : Become(h, r)
    BY <2>2 DEF Finish, Goto
  <2>3. ASSUME CreateApproval(h) \/ Effect(h) \/ ApproveExpire(h) PROVE Finish(h)
    BY <2>3 DEF CreateApproval, Effect, ApproveExpire
  <2>4. ASSUME ConsumeCheck(h) \/ ApproveCheck(h) \/ DenyCheck(h)
        PROVE  Finish(h) \/ \E pc : Goto(h, pc)
    BY <2>4 DEF ConsumeCheck, ApproveCheck, DenyCheck
  <2>5. ASSUME ConsumeRead(h) \/ ApproveRead(h) \/ DenyRead(h) PROVE \E r : Become(h, r)
    BY <2>2, <2>5 DEF ConsumeRead, ApproveRead, DenyRead, Read
  <2>6. ASSUME ConsumeExpire(h) \/ ConsumeSet(h) \/ ApproveSet(h) \/ DenySet(h)
        PROVE  \E r : Become(h, r)
    BY <2>2, <2>6 DEF ConsumeExpire, ConsumeSet, ApproveSet, DenySet, CompareAndSet
  <2> QED
    BY <1>2, <2>1, <2>2, <2>3, <2>4, <2>5, <2>6 DEF HandlerStep
<1>3. CASE SweepStart \/ SweepUpdate \/ Tick \/ UNCHANGED vars
  BY <1>3 DEF SweepStart, SweepUpdate, Tick, vars
<1> QED
  BY <1>1, <1>2, <1>3 DEF Next

\* The statement a handler runs leaves it knowing what the next one relies on.
LEMMA MoverKnows ==
  ASSUME IInv, [Next]_vars, NEW h \in Handlers,
         ReceiveCall(h) \/ ReceiveDecision(h) \/ HandlerStep(h)
  PROVE  ReqOK(req[h])'
<1>t. req \in [Handlers -> ReqType] /\ ReqOK(req[h])
  BY DEF IInv, TypeOK
<1>n. None \notin Approvals
  BY ApprovalAssumption
<1>f. ASSUME Finish(h) PROVE ReqOK(req[h])'
  <2>1. req'[h] = IdleReq
    BY <1>t, <1>f DEF Finish, Become
  <2> QED
    BY <2>1 DEF IdleReq, ReqOK, Consuming, Deciding
<1>1. CASE ReceiveCall(h)
  <2>1. PICK who \in Operators \cup {None}, call \in Calls, id \in Approvals \cup {None},
             pc \in Steps :
          /\ Become(h, [pc |-> pc, who |-> who, call |-> call, id |-> id, seen |-> "absent"])
          /\ (who = None) <=> (pc # "create")
          /\ \/ pc = "effect" /\ ~ApprovalRequired(call) /\ id = None
             \/ pc = "create"
             \/ pc = "consume.read" /\ id # None
    BY <1>1 DEF ReceiveCall, Steps
  <2>2. req'[h] = [pc |-> pc, who |-> who, call |-> call, id |-> id, seen |-> "absent"]
    BY <1>t, <2>1 DEF Become
  <2> QED
    BY <2>1, <2>2 DEF ReqOK, Consuming, Deciding, Reading
<1>2. CASE ReceiveDecision(h)
  <2>1. PICK who \in Operators, id \in Approvals, pc \in {"approve.read", "deny.read"} :
          Become(h, [IdleReq EXCEPT !.pc = pc, !.who = who, !.id = id])
    BY <1>2 DEF ReceiveDecision
  <2>2. req'[h] = [IdleReq EXCEPT !.pc = pc, !.who = who, !.id = id]
    BY <1>t, <2>1 DEF Become
  <2> QED
    BY <2>2 DEF IdleReq, ReqOK, Consuming, Deciding, Reading
<1>3. CASE CreateApproval(h) \/ Effect(h) \/ ApproveExpire(h)
  BY <1>3, <1>f DEF CreateApproval, Effect, ApproveExpire
<1>r. ASSUME NEW from \in Reading, NEW to, Read(h, from, to),
             \/ from = "consume.read" /\ to = "consume.check"
             \/ from = "approve.read" /\ to = "approve.check"
             \/ from = "deny.read" /\ to = "deny.check"
      PROVE  ReqOK(req[h])'
  <2>1. SUFFICES ASSUME ~Finish(h) PROVE ReqOK(req[h])'
    BY <1>f
  <2>2. /\ row' = row
        /\ row[req[h].id].state # "absent"
        /\ req'[h] = [req[h] EXCEPT !.pc = to, !.seen = row[req[h].id].state]
    BY <1>t, <1>r, <2>1 DEF Read, Become, Silent
  <2> QED
    BY <1>t, <1>r, <2>2 DEF ReqOK, Read, Consuming, Deciding, Reading, ReqType
<1>4. CASE ConsumeRead(h) \/ ApproveRead(h) \/ DenyRead(h)
  BY <1>4, <1>r DEF ConsumeRead, ApproveRead, DenyRead, Reading
<1>5. CASE ConsumeCheck(h)
  <2>1. SUFFICES ASSUME ~Finish(h) PROVE ReqOK(req[h])'
    BY <1>f
  <2>2. PICK pc \in {"consume.expire", "consume.set"} : Goto(h, pc)
    BY <1>5, <2>1 DEF ConsumeCheck
  <2>3. row' = row /\ Matches(row[req[h].id], req[h].call) /\ req[h].pc = "consume.check"
    BY <1>5, <2>1 DEF ConsumeCheck, Silent, Matches
  <2>4. req'[h] = [req[h] EXCEPT !.pc = pc, !.seen = "absent"]
    BY <1>t, <2>2 DEF Goto, Become
  <2> QED
    BY <1>t, <2>3, <2>4 DEF ReqOK, Consuming, Deciding, Reading, Matches, ReqType
<1>6. CASE ApproveCheck(h) \/ DenyCheck(h)
  <2>1. SUFFICES ASSUME ~Finish(h) PROVE ReqOK(req[h])'
    BY <1>f
  <2>2. PICK pc \in {"approve.expire", "approve.set", "deny.set"} :
          /\ Goto(h, pc)
          /\ pc # "approve.expire" => row[req[h].id].requestedBy # req[h].who
    BY <1>6, <2>1 DEF ApproveCheck, DenyCheck, SelfDecision
  <2>3. row' = row /\ req[h].pc \in {"approve.check", "deny.check"}
    BY <1>6 DEF ApproveCheck, DenyCheck, Silent
  <2>4. req'[h] = [req[h] EXCEPT !.pc = pc, !.seen = "absent"]
    BY <1>t, <2>2 DEF Goto, Become
  <2> QED
    BY <1>t, <2>2, <2>3, <2>4 DEF ReqOK, Consuming, Deciding, Reading, ReqType
<1>7. CASE ConsumeExpire(h) \/ ApproveSet(h) \/ DenySet(h)
  BY <1>7, <1>f DEF ConsumeExpire, ApproveSet, DenySet, CompareAndSet, Finish
<1>8. CASE ConsumeSet(h)
  <2>1. SUFFICES ASSUME ~Finish(h) PROVE ReqOK(req[h])'
    BY <1>f
  <2> DEFINE id == req[h].id
  <2>2. id \in Approvals /\ Matches(row[id], req[h].call)
    BY <1>t, <1>8 DEF ConsumeSet, ReqOK, Consuming
  <2>3. /\ row[id].state = "approved"
        /\ row' = [row EXCEPT ![id] = [row[id] EXCEPT !.state = "consumed", !.consumedAt = TRUE]]
        /\ uses' = uses
        /\ req'[h] = [req[h] EXCEPT !.pc = "effect"]
    BY <1>t, <1>8, <2>1 DEF ConsumeSet, CompareAndSet, Become
  <2>4. row[id] \in RowType /\ row'[id] = [row[id] EXCEPT !.state = "consumed", !.consumedAt = TRUE]
    BY <2>2, <2>3 DEF IInv, TypeOK
  <2>5. row'[id].consumedAt /\ Matches(row'[id], req[h].call)
    BY <2>2, <2>4 DEF Matches, RowType
  <2>6. row[id].consumedAt = FALSE
    BY <2>2, <2>3, <2>4 DEF IInv, RowOK, RowType
  <2>7. uses'[id] = 0
    BY <2>2, <2>3, <2>6 DEF IInv, UsesOK
  <2>8. req'[h].pc = "effect" /\ req'[h].id = id /\ req'[h].call = req[h].call
    BY <1>t, <2>3 DEF ReqType
  <2> QED
    BY <1>n, <2>2, <2>5, <2>7, <2>8 DEF ReqOK, Consuming, Deciding, Matches
<1> QED
  BY <1>1, <1>2, <1>3, <1>4, <1>5, <1>6, <1>7, <1>8 DEF HandlerStep

\* Every handler goes on knowing it.
LEMMA ReqsStep == IInv /\ [Next]_vars => \A g \in Handlers : ReqOK(req[g])'
<1> SUFFICES ASSUME IInv, [Next]_vars, NEW g \in Handlers PROVE ReqOK(req[g])'
  OBVIOUS
<1>t. uses \in [Approvals -> Nat] /\ req[g] \in ReqType
  BY DEF IInv, TypeOK
<1>1. CASE Crash
  BY <1>1 DEF Crash, IdleReq, ReqOK, Consuming, Deciding
<1>2. ASSUME NEW h \in Handlers, ReceiveCall(h) \/ ReceiveDecision(h) \/ HandlerStep(h), g = h
      PROVE  ReqOK(req[g])'
  BY <1>2, MoverKnows
<1>3. ASSUME req'[g] = req[g], ~\E h \in Handlers : h = g /\ Effect(h)
      PROVE  ReqOK(req[g])'
  <2>1. ASSUME req[g].pc = "effect", req[g].id # None PROVE uses'[req[g].id] = uses[req[g].id]
    <3>1. req[g].id \in Approvals
      BY <1>t, <2>1 DEF ReqType
    <3>2. ASSUME NEW h \in Handlers, Effect(h) PROVE req[h].id # req[g].id
      BY <1>3, <2>1, <3>2 DEF IInv, Exclusive, Effect
    <3> QED
      BY <1>t, <3>1, <3>2, UsesFrame
  <2> QED
    BY <1>3, <2>1, OthersKnow
<1>4. CASE req' = req
  <2>1. ~\E h \in Handlers : h = g /\ Effect(h)
    <3> SUFFICES ASSUME Effect(g) PROVE FALSE
      OBVIOUS
    <3>1. req'[g] = IdleReq /\ req[g].pc = "effect"
      BY DEF Effect, Finish, Become, IInv, TypeOK
    <3> QED
      BY <1>4, <3>1 DEF IdleReq
  <2> QED
    BY <1>3, <1>4, <2>1
<1>5. ASSUME NEW h \in Handlers, ReceiveCall(h) \/ ReceiveDecision(h) \/ HandlerStep(h), g # h,
             req'[g] = req[g]
      PROVE  ReqOK(req[g])'
  <2>1. ~Effect(g)
    <3> SUFFICES ASSUME Effect(g) PROVE FALSE
      OBVIOUS
    <3>1. req'[g] = IdleReq /\ req[g].pc = "effect"
      BY DEF Effect, Finish, Become, IInv, TypeOK
    <3> QED
      BY <1>5, <3>1 DEF IdleReq
  <2> QED
    BY <1>3, <1>5, <2>1
<1> QED
  BY <1>1, <1>2, <1>4, <1>5, ReqFrame

\* consumeApproval's check-and-set lets through one request per approval.
LEMMA ExclusiveStep == IInv /\ [Next]_vars => Exclusive'
<1> SUFFICES ASSUME IInv, [Next]_vars PROVE Exclusive'
  OBVIOUS
<1>t. req \in [Handlers -> ReqType] /\ row \in [Approvals -> RowType]
  BY DEF IInv, TypeOK
\* A handler that reaches "effect" in this step comes from ReceiveCall with
\* no approval, or from a hit in ConsumeSet.
<1>1. ASSUME NEW h \in Handlers, ReceiveCall(h) \/ ReceiveDecision(h) \/ HandlerStep(h),
             req'[h].pc = "effect", req'[h].id # None
      PROVE  /\ req'[h].id \in Approvals
             /\ row[req'[h].id].state = "approved"
  <2>f. ~Finish(h)
    BY <1>t, <1>1 DEF Finish, Become, IdleReq
  <2>g. \A pc : Goto(h, pc) => pc = "effect"
    BY <1>t, <1>1 DEF Goto, Become, ReqType
  <2>1. ~ReceiveCall(h)
    <3> SUFFICES ASSUME ReceiveCall(h) PROVE FALSE
      OBVIOUS
    <3>1. PICK who, call, id, pc :
            /\ Become(h, [pc |-> pc, who |-> who, call |-> call, id |-> id, seen |-> "absent"])
            /\ pc # "consume.read" => id = None
      BY DEF ReceiveCall
    <3>2. req'[h] = [pc |-> pc, who |-> who, call |-> call, id |-> id, seen |-> "absent"]
      BY <1>t, <3>1 DEF Become
    <3> QED
      BY <1>1, <3>1, <3>2
  <2>2. ~ReceiveDecision(h)
    <3> SUFFICES ASSUME ReceiveDecision(h) PROVE FALSE
      OBVIOUS
    <3>1. PICK who \in Operators, id \in Approvals, pc \in {"approve.read", "deny.read"} :
            Become(h, [IdleReq EXCEPT !.pc = pc, !.who = who, !.id = id])
      BY DEF ReceiveDecision
    <3>2. req'[h].pc = pc
      BY <1>t, <3>1 DEF Become, IdleReq
    <3> QED
      BY <1>1, <3>2
  <2>3. ~CreateApproval(h) /\ ~Effect(h) /\ ~ApproveExpire(h)
    BY <2>f DEF CreateApproval, Effect, ApproveExpire
  <2>4. ~ConsumeCheck(h) /\ ~ApproveCheck(h) /\ ~DenyCheck(h)
    BY <2>f, <2>g DEF ConsumeCheck, ApproveCheck, DenyCheck
  <2>5. ~ConsumeExpire(h) /\ ~ApproveSet(h) /\ ~DenySet(h)
    BY <2>f DEF ConsumeExpire, ApproveSet, DenySet, CompareAndSet, Finish
  <2>6. ASSUME NEW to \in {"consume.check", "approve.check", "deny.check"}, NEW from, Read(h, from, to)
        PROVE  FALSE
    <3>1. req'[h] = [req[h] EXCEPT !.pc = to, !.seen = row[req[h].id].state]
      BY <1>t, <2>f, <2>6 DEF Read, Become
    <3> QED
      BY <1>t, <1>1, <3>1, <2>6 DEF ReqType
  <2>7. ConsumeSet(h)
    BY <1>1, <2>1, <2>2, <2>3, <2>4, <2>5, <2>6 DEF HandlerStep, ConsumeRead, ApproveRead, DenyRead
  <2>8. req[h].id \in Approvals
    BY <2>7 DEF IInv, ReqOK, Consuming, ConsumeSet
  <2>9. req'[h] = [req[h] EXCEPT !.pc = "effect"] /\ row[req[h].id].state = "approved"
    BY <1>t, <2>f, <2>7 DEF ConsumeSet, CompareAndSet, Become
  <2>10. req'[h].id = req[h].id
    BY <1>t, <2>9 DEF ReqType
  <2> QED
    BY <2>8, <2>9, <2>10
\* A handler that already was at "effect" holds a consumed approval.
<1>2. ASSUME NEW g \in Handlers, req[g].pc = "effect", req[g].id \in Approvals
      PROVE  row[req[g].id].state # "approved"
  <2>1. row[req[g].id].consumedAt
    BY <1>2, ApprovalAssumption DEF IInv, ReqOK
  <2>2. row[req[g].id] \in RowType /\ RowOK(row[req[g].id])
    BY <1>t, <1>2 DEF IInv
  <2> QED
    BY <2>1, <2>2 DEF RowOK
<1>3. CASE Crash
  BY <1>3 DEF Crash, IdleReq, Exclusive
<1>4. CASE req' = req
  BY <1>4 DEF IInv, Exclusive
<1>5. ASSUME NEW m \in Handlers, ReceiveCall(m) \/ ReceiveDecision(m) \/ HandlerStep(m),
             \A g \in Handlers : g # m => req'[g] = req[g]
      PROVE  Exclusive'
  <2> SUFFICES ASSUME NEW g \in Handlers, NEW h \in Handlers, g # h,
                      req'[g].pc = "effect", req'[h].pc = "effect", req'[g].id = req'[h].id,
                      req'[g].id # None
               PROVE  FALSE
    BY DEF Exclusive
  <2>1. CASE g # m /\ h # m
    BY <1>5, <2>1 DEF IInv, Exclusive
  <2>2. CASE g = m
    BY <1>1, <1>2, <1>5, <2>2
  <2>3. CASE h = m
    BY <1>1, <1>2, <1>5, <2>3
  <2> QED
    BY <2>1, <2>2, <2>3
<1> QED
  BY <1>3, <1>4, <1>5, ReqFrame

\* A use is counted once, and only for a consumed approval.
LEMMA UsesStep == IInv /\ [Next]_vars => UsesOK'
<1> SUFFICES ASSUME IInv, [Next]_vars, NEW a \in Approvals
             PROVE  uses'[a] = 0 \/ (uses'[a] = 1 /\ row'[a].consumedAt)
  BY DEF UsesOK
<1>1. uses[a] = 0 \/ (uses[a] = 1 /\ row[a].consumedAt)
  BY DEF IInv, UsesOK
<1>2. row[a].consumedAt => row'[a].consumedAt
  BY RowsStep DEF RowStable
<1>3. CASE uses' = uses
  BY <1>1, <1>2, <1>3
<1>4. ASSUME NEW h \in Handlers, Effect(h),
             uses' = [b \in Approvals |-> IF b = req[h].id THEN uses[b] + 1 ELSE uses[b]]
      PROVE  uses'[a] = 0 \/ (uses'[a] = 1 /\ row'[a].consumedAt)
  <2>1. CASE a = req[h].id
    <3>1. row[a].consumedAt /\ uses[a] = 0
      BY <1>4, <2>1, ApprovalAssumption DEF IInv, ReqOK, Effect
    <3> QED
      BY <1>2, <1>4, <2>1, <3>1
  <2>2. CASE a # req[h].id
    BY <1>1, <1>2, <1>4, <2>2
  <2> QED
    BY <2>1, <2>2
<1> QED
  BY <1>3, <1>4, UsesFrame

-----------------------------------------------------------------------------
(* The theorems.                                                           *)

LEMMA InitIInv == Init => IInv
<1> SUFFICES ASSUME Init PROVE IInv
  OBVIOUS
<1>1. AbsentRow \in RowType /\ RowOK(AbsentRow)
  BY DEF AbsentRow, RowType, RowOK, States
<1>2. IdleReq \in ReqType
  BY DEF IdleReq, ReqType, Steps, States
<1>3. TypeOK
  BY <1>1, <1>2, ApprovalAssumption DEF Init, TypeOK
<1>4. \A h \in Handlers : ReqOK(req[h])
  BY DEF Init, IdleReq, ReqOK, Consuming, Deciding
<1> QED
  BY <1>1, <1>3, <1>4 DEF Init, IInv, IdleReq, Exclusive, UsesOK

LEMMA NextIInv == IInv /\ [Next]_vars => IInv'
<1> SUFFICES ASSUME IInv, [Next]_vars PROVE IInv'
  OBVIOUS
<1>1. TypeOK' /\ Exclusive' /\ UsesOK'
  BY TypeStep, ExclusiveStep, UsesStep
<1>2. \A a \in Approvals : RowOK(row[a])'
  BY RowsStep DEF RowOK
<1>3. \A h \in Handlers : ReqOK(req[h])'
  BY ReqsStep
<1> QED
  BY <1>1, <1>2, <1>3 DEF IInv

\* The inductive invariant holds in every reachable state.
THEOREM Invariance == Spec => []IInv
  BY InitIInv, NextIInv, PTL DEF Spec

\* The tables and the handlers keep their types.
THEOREM TypeCorrect == Spec => []TypeOK
<1>1. IInv => TypeOK
  BY DEF IInv
<1> QED
  BY <1>1, Invariance, PTL

\* However many requests carry an approval's id, it authorises one effect.
THEOREM OneEffect == Spec => []AtMostOneEffect
<1>1. IInv => AtMostOneEffect
  BY DEF IInv, UsesOK, AtMostOneEffect
<1> QED
  BY <1>1, Invariance, PTL

\* No gated effect without a second person's approval of that very payload.
THEOREM Authorised == Spec => []EffectAuthorised
<1>1. IInv => EffectAuthorised
  <2> SUFFICES ASSUME IInv, NEW h \in Handlers, req[h].pc = "effect",
                      ApprovalRequired(req[h].call)
               PROVE  req[h].id \in Approvals /\ Authorises(req[h].id, req[h].call)
    BY DEF EffectAuthorised
  <2>1. req[h].id \in Approvals
    BY DEF IInv, ReqOK, TypeOK, ReqType
  <2> DEFINE r == row[req[h].id]
  <2>2. r \in RowType /\ RowOK(r) /\ Matches(r, req[h].call) /\ r.consumedAt
    BY <2>1, ApprovalAssumption DEF IInv, ReqOK, TypeOK
  <2>3. r.state # "absent"
    BY <2>2 DEF RowOK, AbsentRow
  <2>4. ~r.denyReason /\ r.approverEmail \notin {None, r.requestedBy}
    BY <2>2, <2>3 DEF RowOK
  <2> QED
    BY <2>1, <2>2, <2>4 DEF Authorises, Matches
<1> QED
  BY <1>1, Invariance, PTL

\* The first decision is never replaced, and a denial never authorises.
THEOREM Decided == Spec => DecisionStands
<1> DEFINE Stands ==
      \A a \in Approvals :
        /\ row[a].approverEmail # None =>
             /\ row'[a].approverEmail = row[a].approverEmail
             /\ row'[a].denyReason = row[a].denyReason
        /\ row[a].denyReason => ~row'[a].consumedAt
<1>1. IInv /\ [Next]_vars => Stands
  <2> SUFFICES ASSUME IInv, [Next]_vars, NEW a \in Approvals
      PROVE  /\ row[a].approverEmail # None =>
                  /\ row'[a].approverEmail = row[a].approverEmail
                  /\ row'[a].denyReason = row[a].denyReason
             /\ row[a].denyReason => ~row'[a].consumedAt
    OBVIOUS
  <2>1. RowOK(row[a]) /\ RowOK(row'[a]) /\ RowStable(row[a], row'[a])
    BY RowsStep DEF IInv
  <2> QED
    BY <2>1 DEF RowOK, RowStable
<1>2. IInv /\ [Next]_vars => [Stands]_vars
  BY <1>1
<1> QED
  BY <1>2, Invariance, PTL DEF Spec, DecisionStands

-----------------------------------------------------------------------------
(* Refinement.                                                             *)

\* What a move of a row does to the permit it stands for.
PermitMove(r, s) ==
  \/ /\ PhaseOf(s) = PhaseOf(r)
     /\ s.requestedBy = r.requestedBy /\ s.approverEmail = r.approverEmail
  \/ /\ PhaseOf(r) = "unasked" /\ PhaseOf(s) = "asked"
     /\ s.requestedBy \in Operators /\ s.approverEmail = r.approverEmail
  \/ /\ PhaseOf(r) = "asked" /\ PhaseOf(s) \in {"granted", "refused"}
     /\ s.requestedBy = r.requestedBy /\ s.approverEmail \in Operators \ {r.requestedBy}
  \/ /\ PhaseOf(r) = "granted" /\ PhaseOf(s) = "spent"
     /\ s.requestedBy = r.requestedBy /\ s.approverEmail = r.approverEmail
  \/ /\ PhaseOf(r) \in {"asked", "granted"} /\ PhaseOf(s) = "lapsed"
     /\ s.requestedBy = r.requestedBy /\ s.approverEmail = r.approverEmail

\* Every move of a well-formed row is one a permit can make.
LEMMA MovesArePermitMoves ==
  ASSUME NEW r \in RowType, NEW s \in RowType, RowOK(r), RowMove(r, s)
  PROVE  PermitMove(r, s)
<1>1. CASE s = r
  BY <1>1 DEF PermitMove
<1>2. CASE Inserted(r, s)
  BY <1>2 DEF Inserted, AbsentRow, PhaseOf, PermitMove
<1>3. CASE Granted(r, s)
  <2>1. r.state = "pending" /\ ~r.consumedAt /\ ~r.denyReason
    BY <1>3 DEF Granted, RowOK
  <2> QED
    BY <1>3, <2>1 DEF Granted, PhaseOf, PermitMove, RowType
<1>4. CASE Refused(r, s)
  <2>1. r.state = "pending" /\ ~r.consumedAt /\ ~r.denyReason
    BY <1>4 DEF Refused, RowOK
  <2> QED
    BY <1>4, <2>1 DEF Refused, PhaseOf, PermitMove, RowType
<1>5. CASE Consumed(r, s)
  <2>1. r.state = "approved" /\ ~r.consumedAt /\ ~r.denyReason
    BY <1>5 DEF Consumed, RowOK
  <2> QED
    BY <1>5, <2>1 DEF Consumed, PhaseOf, PermitMove, RowType
<1>6. CASE Expired(r, s)
  <2>1. /\ s.state = "expired" /\ s.consumedAt = r.consumedAt /\ s.denyReason = r.denyReason
        /\ s.requestedBy = r.requestedBy /\ s.approverEmail = r.approverEmail
        /\ r.state \in States \ {"absent"}
    BY <1>6 DEF Expired, RowType
  <2>2. CASE r.consumedAt \/ r.denyReason
    BY <2>1, <2>2 DEF PhaseOf, PermitMove
  <2>3. CASE ~r.consumedAt /\ ~r.denyReason
    <3>1. r.state \in {"pending", "approved", "expired"}
      BY <2>1, <2>3 DEF RowOK, States
    <3> QED
      BY <2>1, <2>3, <3>1 DEF PhaseOf, PermitMove
  <2> QED
    BY <2>2, <2>3
<1> QED
  BY <1>1, <1>2, <1>3, <1>4, <1>5, <1>6 DEF RowMove

\* One row changing as a permit may is a step of OneShotPermit.
LEMMA RowIsPermitStep ==
  ASSUME row \in [Approvals -> RowType], NEW a \in Approvals, NEW new,
         row' = [row EXCEPT ![a] = new], uses' = uses, PermitMove(row[a], new)
  PROVE  [Permit!PermitNext]_(Permit!permitVars)
<1>1. [b \in Approvals |-> PhaseOf(row'[b])] =
      [[b \in Approvals |-> PhaseOf(row[b])] EXCEPT ![a] = PhaseOf(new)]
  OBVIOUS
<1>2. [b \in Approvals |-> row'[b].requestedBy] =
      [[b \in Approvals |-> row[b].requestedBy] EXCEPT ![a] = new.requestedBy]
  OBVIOUS
<1>3. [b \in Approvals |-> row'[b].approverEmail] =
      [[b \in Approvals |-> row[b].approverEmail] EXCEPT ![a] = new.approverEmail]
  OBVIOUS
<1> DEFINE phase == [b \in Approvals |-> PhaseOf(row[b])]
           asker == [b \in Approvals |-> row[b].requestedBy]
           judge == [b \in Approvals |-> row[b].approverEmail]
<1>4. CASE /\ PhaseOf(new) = PhaseOf(row[a])
           /\ new.requestedBy = row[a].requestedBy /\ new.approverEmail = row[a].approverEmail
  BY <1>1, <1>2, <1>3, <1>4 DEF Permit!permitVars
<1>5. CASE /\ PhaseOf(row[a]) = "unasked" /\ PhaseOf(new) = "asked"
           /\ new.requestedBy \in Operators /\ new.approverEmail = row[a].approverEmail
  <2>1. judge' = judge
    BY <1>3, <1>5
  <2>2. Permit!Ask(a)
    BY <1>1, <1>2, <1>5, <2>1 DEF Permit!Ask
  <2> QED
    BY <2>2 DEF Permit!PermitNext
<1>6. CASE /\ PhaseOf(row[a]) = "asked" /\ PhaseOf(new) \in {"granted", "refused"}
           /\ new.requestedBy = row[a].requestedBy
           /\ new.approverEmail \in Operators \ {row[a].requestedBy}
  <2>1. asker' = asker
    BY <1>2, <1>6
  <2>2. Permit!Judge(a, PhaseOf(new))
    BY <1>1, <1>3, <1>6, <2>1 DEF Permit!Judge
  <2> QED
    BY <1>6, <2>2 DEF Permit!PermitNext
<1>7. CASE /\ PhaseOf(row[a]) = "granted" /\ PhaseOf(new) = "spent"
           /\ new.requestedBy = row[a].requestedBy /\ new.approverEmail = row[a].approverEmail
  <2>1. asker' = asker /\ judge' = judge
    BY <1>2, <1>3, <1>7
  <2>2. Permit!Spend(a)
    BY <1>1, <1>7, <2>1 DEF Permit!Spend
  <2> QED
    BY <2>2 DEF Permit!PermitNext
<1>8. CASE /\ PhaseOf(row[a]) \in {"asked", "granted"} /\ PhaseOf(new) = "lapsed"
           /\ new.requestedBy = row[a].requestedBy /\ new.approverEmail = row[a].approverEmail
  <2>1. asker' = asker /\ judge' = judge
    BY <1>2, <1>3, <1>8
  <2>2. phase' = [p \in Approvals |-> IF p \in {a} THEN "lapsed" ELSE phase[p]]
    BY <1>1, <1>8
  <2>3. {a} \in SUBSET {p \in Approvals : phase[p] \in {"asked", "granted"}}
    BY <1>8
  <2>4. Permit!Lapse
    BY <2>1, <2>2, <2>3 DEF Permit!Lapse
  <2> QED
    BY <2>4 DEF Permit!PermitNext
<1> QED
  BY <1>4, <1>5, <1>6, <1>7, <1>8 DEF PermitMove

\* Each statement of a handler, and the sweep, is a step of the permit.
LEMMA StepIsPermitStep == IInv /\ [Next]_vars => [Permit!PermitNext]_(Permit!permitVars)
<1> SUFFICES ASSUME IInv, [Next]_vars PROVE [Permit!PermitNext]_(Permit!permitVars)
  OBVIOUS
<1>t. row \in [Approvals -> RowType] /\ uses \in [Approvals -> Nat]
  BY DEF IInv, TypeOK
<1>s. ASSUME row' = row, uses' = uses PROVE [Permit!PermitNext]_(Permit!permitVars)
  BY <1>s DEF Permit!permitVars
<1>1. ASSUME NEW h \in Handlers, Effect(h) PROVE [Permit!PermitNext]_(Permit!permitVars)
  <2> SUFFICES ASSUME uses' # uses PROVE Permit!PermitNext
    BY <1>1, <1>s DEF Effect
  <2> DEFINE a == req[h].id
  <2>1. uses' = [b \in Approvals |-> IF b = a THEN uses[b] + 1 ELSE uses[b]]
    BY <1>1 DEF Effect
  <2>2. a \in Approvals
    BY <1>t, <2>1
  <2>3. row[a].consumedAt /\ uses[a] = 0
    BY <1>1, <2>2, ApprovalAssumption DEF IInv, ReqOK, Effect
  <2>4. uses' = [uses EXCEPT ![a] = 1]
    <3>1. uses' = [b \in Approvals |-> IF b = a THEN 1 ELSE uses[b]]
      BY <2>1, <2>3
    <3> QED
      BY <1>t, <3>1
  <2>5. PhaseOf(row[a]) = "spent"
    BY <2>3 DEF PhaseOf
  <2>6. row' = row
    BY <1>1 DEF Effect
  <2>7. Permit!Use(a)
    BY <2>2, <2>3, <2>4, <2>5, <2>6 DEF Permit!Use
  <2> QED
    BY <2>2, <2>7 DEF Permit!PermitNext
<1>2. ASSUME NEW h \in Handlers, HandlerStep(h), ~Effect(h)
      PROVE  [Permit!PermitNext]_(Permit!permitVars)
  <2>1. uses' = uses
    BY <1>2 DEF HandlerStep, CreateApproval, ConsumeRead, ConsumeCheck, ConsumeExpire, ConsumeSet,
       ApproveRead, ApproveCheck, ApproveExpire, ApproveSet, DenyRead, DenyCheck, DenySet, Read,
       CompareAndSet, Silent
  <2>2. CASE row' = row
    BY <1>s, <2>1, <2>2
  <2>3. ASSUME NEW a \in Approvals, NEW new \in RowType, row' = [row EXCEPT ![a] = new],
               RowMove(row[a], new)
        PROVE  [Permit!PermitNext]_(Permit!permitVars)
    <3>1. row[a] \in RowType /\ RowOK(row[a])
      BY <1>t DEF IInv
    <3>2. PermitMove(row[a], new)
      BY <2>3, <3>1, MovesArePermitMoves
    <3> QED
      BY <1>t, <2>1, <2>3, <3>2, RowIsPermitStep
  <2> QED
    BY <1>2, <2>2, <2>3, HandlerMove
<1>3. CASE SweepUpdate
  <2> DEFINE phase == [b \in Approvals |-> PhaseOf(row[b])]
             Swept == {b \in Approvals : row[b].state = "pending" /\ Lapsed(b, sweepAt)}
  <2>1. \A b \in Swept : PhaseOf(row[b]) = "asked" /\ PhaseOf(row'[b]) = "lapsed"
    <3> SUFFICES ASSUME NEW b \in Swept
                 PROVE  PhaseOf(row[b]) = "asked" /\ PhaseOf(row'[b]) = "lapsed"
      OBVIOUS
    <3>1. row[b] \in RowType /\ row[b].state = "pending" /\ ~row[b].consumedAt /\ ~row[b].denyReason
      BY <1>t DEF IInv, RowOK
    <3>2. row'[b] = [row[b] EXCEPT !.state = "expired"]
      BY <1>3 DEF SweepUpdate
    <3> QED
      BY <3>1, <3>2 DEF PhaseOf, RowType
  <2>2. \A b \in Approvals \ Swept : row'[b] = row[b]
    BY <1>3 DEF SweepUpdate
  <2>3. phase' = [b \in Approvals |-> IF b \in Swept THEN "lapsed" ELSE phase[b]]
    BY <2>1, <2>2
  <2>4. /\ [b \in Approvals |-> row'[b].requestedBy] = [b \in Approvals |-> row[b].requestedBy]
        /\ [b \in Approvals |-> row'[b].approverEmail] = [b \in Approvals |-> row[b].approverEmail]
    BY <1>t, <1>3 DEF SweepUpdate, RowType
  <2>5. Swept \in SUBSET {b \in Approvals : phase[b] \in {"asked", "granted"}}
    BY <2>1
  <2>6. uses' = uses
    BY <1>3 DEF SweepUpdate
  <2>7. Permit!Lapse
    BY <2>3, <2>4, <2>5, <2>6 DEF Permit!Lapse
  <2> QED
    BY <2>7 DEF Permit!PermitNext
<1>4. ASSUME NEW h \in Handlers, ReceiveCall(h) \/ ReceiveDecision(h)
      PROVE  [Permit!PermitNext]_(Permit!permitVars)
  BY <1>4, <1>s DEF ReceiveCall, ReceiveDecision, Silent
<1>5. CASE SweepStart \/ Tick \/ Crash \/ UNCHANGED vars
  BY <1>5, <1>s DEF SweepStart, Tick, Crash, vars
<1> QED
  BY <1>1, <1>2, <1>3, <1>4, <1>5 DEF Next

\* The gate's handlers implement the one-shot permit.
THEOREM Refinement == Spec => ImplementsPermit
<1>1. Init => Permit!PermitInit
  BY DEF Init, Permit!PermitInit, PhaseOf, AbsentRow
<1> QED
  BY <1>1, StepIsPermitStep, Invariance, PTL DEF Spec, ImplementsPermit, Permit!PermitSpec
=============================================================================
