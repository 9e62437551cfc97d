----------------------------- MODULE AlertsProofs -----------------------------
(***************************************************************************)
(* Proofs about alerts, for any alerts, requests, firings of the cron,     *)
(* channels, chain of steps and faults: the safety properties of           *)
(* Alerts.tla.                                                             *)
(***************************************************************************)
EXTENDS Alerts, SequenceTheorems, FiniteSetTheorems, WellFoundedInduction, TLAPS

(* The inductive invariant.                                                *)

WorkerType == [pc : Steps, alerts : SUBSET Alerts, step : 0..ChainLength,
               left : 0..(PrimaryChannels + StepChannels),
               due : SUBSET RowType, groups : SUBSET GroupType]

DispatchType == [Alerts -> [0..ChainLength -> Seq(DispatchRow)]]

\* A handler in state r escalates a, or is about to: Escalating, for one state.
Escalates(r, a) ==
  \/ a \in r.alerts /\ r.pc \in {"fan", "unforce"} /\ r.step > 0
  \/ \E g \in r.groups : g.alert = a

\* A handler in state r has still to use channel c of step s for a.
Sends(r, a, s, c) ==
  \/ a \in r.alerts /\ r.pc = "fan" /\ r.step = s /\ c <= r.left
  \/ r.pc \in {"groups", "fan"} /\ \E g \in r.groups : g.alert = a /\ g.step + 1 = s

Escalators(wk, a) == {w \in Workers : Escalates(wk[w], a)}
Senders(wk, a, s, c) == {w \in Workers : Sends(wk[w], a, s, c)}

\* The rows d of an alert's step that used channel c.
Used(d, a, s, c) == {i \in DOMAIN d[a][s] : d[a][s][i].channel = c}

\* No more handlers escalate an alert than its peak says, and no channel of a
\* step has been used, or is still to be used, more often.
Room(d, wk, pk, a) ==
  /\ Cardinality(Escalators(wk, a)) <= pk[a]
  /\ \A s \in 1..ChainLength, c \in 1..StepChannels :
       Cardinality(Used(d, a, s, c)) + Cardinality(Senders(wk, a, s, c)) <= pk[a]

RoomOK == \A a \in Alerts : Room(dispatches, worker, peak, a)

\* A handler's locals: channels are left to a fan-out, a group that was
\* chosen has a next step, which is not the one being fanned out, and an alert
\* that is routed is at no step yet.
Sane(r) ==
  /\ r.pc = "route" => r.step = 0 /\ r.groups = {}
  /\ r.pc = "fan" => r.left > 0
  /\ r.pc \in {"groups", "fan"} => \A g \in r.groups : g.step < ChainLength
  /\ r.pc = "fan" => \A g \in r.groups : g.alert \in r.alerts => g.step + 1 # r.step

LocalsOK == \A w \in Workers : Sane(worker[w])

\* A row that names the route is a row.
RoutedOK == \A a \in routed : \E s \in 0..ChainLength : Len(dispatches[a][s]) # 0

\* An alert that was resolved with no acknowledgement under way stays so, as
\* no acknowledgement that would still write its state begins.
SettledOK ==
  \A a \in settled :
    /\ alertState[a] = "resolved"
    /\ \A w \in Workers : ~(a \in worker[w].alerts /\ worker[w].pc \in {"ack", "bulk"})

IInv ==
  /\ TypeOK
  /\ LocalsOK
  /\ RoutedOK
  /\ SettledOK
  /\ RoomOK

-----------------------------------------------------------------------------
(* Rows.                                                                   *)

LEMMA Constants ==
  ASSUME AlertsAssumption
  PROVE  /\ Requests \cap Crons = {} /\ IsFiniteSet(Workers)
         /\ PrimaryChannels \in Nat /\ PrimaryChannels > 0
         /\ StepChannels \in Nat /\ StepChannels > 0
         /\ ChainLength \in Nat /\ MaxFaults \in Nat /\ MaxSwitches \in Nat
<1>1. IsFiniteSet(Workers)
  BY FS_Union DEF AlertsAssumption, Workers
<1>. QED
  BY <1>1 DEF AlertsAssumption

LEMMA TypeFacts ==
  ASSUME TypeOK
  PROVE  worker \in [Workers -> WorkerType] /\ dispatches \in DispatchType
BY DEF TypeOK, WorkerType, DispatchType

\* A sequence whose rows are replaced in place, each by one to the same channel,
\* keeps its length.
LEMMA Replaced ==
  ASSUME NEW q \in Seq(DispatchRow), NEW r, DOMAIN r = DOMAIN q,
         r = [i \in DOMAIN q |-> r[i]],
         \A i \in DOMAIN q : r[i] \in DispatchRow /\ r[i].channel = q[i].channel
  PROVE  /\ r \in Seq(DispatchRow) /\ Len(r) = Len(q)
         /\ \A i \in DOMAIN q : r[i].channel = q[i].channel
<1>1. Len(q) \in Nat /\ DOMAIN q = 1..Len(q)
  OBVIOUS
<1>2. r = [i \in 1..Len(q) |-> r[i]] /\ \A i \in 1..Len(q) : r[i] \in DispatchRow
  BY <1>1
<1>. QED
  BY <1>1, <1>2, IsASeq

LEMMA Rewritten ==
  ASSUME NEW row \in DispatchRow, NEW x \in EscalateAts
  PROVE  /\ [row EXCEPT !.escalateAt = x] \in DispatchRow
         /\ [row EXCEPT !.escalateAt = x].channel = row.channel
BY DEF DispatchRow

LEMMA QuietRows ==
  ASSUME NEW q \in Seq(DispatchRow)
  PROVE  /\ Quiet(q) \in Seq(DispatchRow) /\ Len(Quiet(q)) = Len(q)
         /\ \A i \in DOMAIN q : Quiet(q)[i].channel = q[i].channel
<1>1. \A i \in DOMAIN q : q[i] \in DispatchRow
  OBVIOUS
<1>2. \A i \in DOMAIN q : /\ Quiet(q)[i] \in DispatchRow
                          /\ Quiet(q)[i].channel = q[i].channel
  BY <1>1, Rewritten DEF Quiet, EscalateAts
<1>3. DOMAIN Quiet(q) = DOMAIN q /\ Quiet(q) = [i \in DOMAIN q |-> Quiet(q)[i]]
  BY DEF Quiet
<1>. QED
  BY <1>2, <1>3, Replaced

\* Rows d2 are as many as rows d, and to the same channels.
SameChannels(d, d2) ==
  \A a \in Alerts, s \in 0..ChainLength :
    /\ Len(d2[a][s]) = Len(d[a][s])
    /\ \A i \in DOMAIN d[a][s] : d2[a][s][i].channel = d[a][s][i].channel

LEMMA SetRows ==
  ASSUME NEW a \in Alerts, NEW s \in 0..ChainLength, dispatches \in DispatchType,
         NEW R, NEW x \in EscalateAts
  PROVE  /\ Set(a, s, R, x) \in Seq(DispatchRow)
         /\ Len(Set(a, s, R, x)) = Len(dispatches[a][s])
         /\ \A i \in DOMAIN dispatches[a][s] :
              Set(a, s, R, x)[i].channel = dispatches[a][s][i].channel
<1>. DEFINE q == dispatches[a][s]
            z == Set(a, s, R, x)
<1>1. q \in Seq(DispatchRow)
  BY DEF DispatchType
<1>2. \A i \in DOMAIN q : q[i] \in DispatchRow
  BY <1>1
<1>3. DOMAIN z = DOMAIN q /\ z = [i \in DOMAIN q |-> z[i]]
  BY DEF Set
<1>4. \A i \in DOMAIN q : z[i] \in {q[i], [q[i] EXCEPT !.escalateAt = x]}
  BY DEF Set
<1>. HIDE DEF q, z
<1>5. \A i \in DOMAIN q : z[i] \in DispatchRow /\ z[i].channel = q[i].channel
  <2>. TAKE i \in DOMAIN q
  <2>1. /\ [q[i] EXCEPT !.escalateAt = x] \in DispatchRow
        /\ [q[i] EXCEPT !.escalateAt = x].channel = q[i].channel
    BY <1>2, Rewritten
  <2>. QED
    BY <1>2, <1>4, <2>1
<1>6. z \in Seq(DispatchRow) /\ Len(z) = Len(q) /\ \A i \in DOMAIN q : z[i].channel = q[i].channel
  BY <1>1, <1>3, <1>5, Replaced
<1>. QED
  BY <1>6 DEF q, z

\* The rows of one step are replaced in place.
LEMMA OnePlace ==
  ASSUME NEW d \in DispatchType, NEW a \in Alerts, NEW s, NEW q,
         NEW d2, d2 = [d EXCEPT ![a][s] = q],
         s \in 0..ChainLength =>
           /\ q \in Seq(DispatchRow) /\ Len(q) = Len(d[a][s])
           /\ \A i \in DOMAIN d[a][s] : q[i].channel = d[a][s][i].channel
  PROVE  d2 \in DispatchType /\ SameChannels(d, d2)
<1>1. \A b \in Alerts, u \in 0..ChainLength :
        /\ d[b][u] \in Seq(DispatchRow)
        /\ d2[b][u] = IF b = a /\ u = s THEN q ELSE d[b][u]
  BY DEF DispatchType
<1>2. d2 \in DispatchType
  <2>1. \A b \in Alerts : d2[b] = IF b = a THEN [d[a] EXCEPT ![s] = q] ELSE d[b]
    BY DEF DispatchType
  <2>2. \A b \in Alerts : d[b] \in [0..ChainLength -> Seq(DispatchRow)]
    BY DEF DispatchType
  <2>3. [d[a] EXCEPT ![s] = q] \in [0..ChainLength -> Seq(DispatchRow)]
    BY <2>2
  <2>4. d2 = [b \in Alerts |-> d2[b]]
    BY DEF DispatchType
  <2>5. \A b \in Alerts : d2[b] \in [0..ChainLength -> Seq(DispatchRow)]
    BY <2>1, <2>2, <2>3
  <2>. QED
    BY <2>4, <2>5 DEF DispatchType
<1>3. ASSUME NEW b \in Alerts, NEW u \in 0..ChainLength
      PROVE  /\ Len(d2[b][u]) = Len(d[b][u])
             /\ \A i \in DOMAIN d[b][u] : d2[b][u][i].channel = d[b][u][i].channel
  <2>1. CASE b = a /\ u = s
    BY <1>1, <2>1
  <2>2. CASE ~(b = a /\ u = s)
    <3>1. d2[b][u] = d[b][u]
      BY <1>1, <2>2
    <3>. QED
      BY <3>1
  <2>. QED
    BY <2>1, <2>2
<1>. QED
  BY <1>2, <1>3 DEF SameChannels

\* One more row.
WithRow(d, a, s, row) == [d EXCEPT ![a][s] = Append(@, row)]

LEMMA OneMore ==
  ASSUME NEW d \in DispatchType, NEW a \in Alerts, NEW s \in 0..ChainLength,
         NEW row \in DispatchRow
  PROVE  /\ WithRow(d, a, s, row) \in DispatchType
         /\ Len(WithRow(d, a, s, row)[a][s]) = Len(d[a][s]) + 1
         /\ \A b \in Alerts, u \in 0..ChainLength :
              <<b, u>> # <<a, s>> => WithRow(d, a, s, row)[b][u] = d[b][u]
         /\ WithRow(d, a, s, row)[a][s] = Append(d[a][s], row)
<1>. DEFINE d2 == WithRow(d, a, s, row)
<1>1. d[a][s] \in Seq(DispatchRow) /\ d[a] \in [0..ChainLength -> Seq(DispatchRow)]
  BY DEF DispatchType
<1>2. /\ Append(d[a][s], row) \in Seq(DispatchRow)
      /\ Len(Append(d[a][s], row)) = Len(d[a][s]) + 1 /\ Len(d[a][s]) \in Nat
  BY <1>1
<1>3. d2[a][s] = Append(d[a][s], row) /\ d2 \in DispatchType
  BY <1>1, <1>2 DEF DispatchType, WithRow
<1>. QED
  BY <1>2, <1>3 DEF DispatchType, WithRow

\* The rows that used a channel: finitely many, and the same ones while the
\* channels of the rows stay.
LEMMA UsedFinite ==
  ASSUME NEW d \in DispatchType, NEW a \in Alerts, NEW s \in 0..ChainLength, NEW c
  PROVE  /\ IsFiniteSet(Used(d, a, s, c)) /\ Cardinality(Used(d, a, s, c)) \in Nat
         /\ d[a][s] = <<>> => Cardinality(Used(d, a, s, c)) = 0
<1>1. d[a][s] \in Seq(DispatchRow)
  BY DEF DispatchType
<1>2. Len(d[a][s]) \in Nat /\ DOMAIN d[a][s] = 1..Len(d[a][s])
  BY <1>1
<1>3. IsFiniteSet(1..Len(d[a][s]))
  BY <1>2, FS_Interval
<1>4. Used(d, a, s, c) \subseteq 1..Len(d[a][s])
  BY <1>2 DEF Used
<1>5. IsFiniteSet(Used(d, a, s, c))
  BY <1>3, <1>4, FS_Subset
<1>6. d[a][s] = <<>> => Used(d, a, s, c) = {}
  BY <1>1 DEF Used
<1>. QED
  BY <1>5, <1>6, FS_CardinalityType, FS_EmptySet

LEMMA UsedSame ==
  ASSUME NEW d \in DispatchType, NEW d2 \in DispatchType, SameChannels(d, d2),
         NEW a \in Alerts, NEW s \in 0..ChainLength, NEW c
  PROVE  Used(d2, a, s, c) = Used(d, a, s, c)
<1>1. d[a][s] \in Seq(DispatchRow) /\ d2[a][s] \in Seq(DispatchRow)
  BY DEF DispatchType
<1>2. DOMAIN d[a][s] = 1..Len(d[a][s]) /\ DOMAIN d2[a][s] = 1..Len(d2[a][s])
  BY <1>1
<1>3. DOMAIN d2[a][s] = DOMAIN d[a][s]
  BY <1>2 DEF SameChannels
<1>4. \A i \in DOMAIN d[a][s] : d2[a][s][i].channel = d[a][s][i].channel
  BY DEF SameChannels
<1>. QED
  BY <1>3, <1>4 DEF Used

LEMMA UsedAdded ==
  ASSUME NEW d \in DispatchType, NEW a \in Alerts, NEW s \in 0..ChainLength,
         NEW row \in DispatchRow, NEW d2 \in DispatchType,
         d2[a][s] = Append(d[a][s], row), NEW c
  PROVE  /\ c # row.channel => Used(d2, a, s, c) = Used(d, a, s, c)
         /\ c = row.channel =>
              Cardinality(Used(d2, a, s, c)) = Cardinality(Used(d, a, s, c)) + 1
<1>. DEFINE q == d[a][s]
            z == d2[a][s]
            n == Len(q) + 1
<1>1. q \in Seq(DispatchRow) /\ Len(q) \in Nat /\ DOMAIN q = 1..Len(q)
  <2>1. q \in Seq(DispatchRow)
    BY DEF DispatchType
  <2>. HIDE DEF q
  <2>. QED
    BY <2>1
<1>2. z = Append(q, row)
  OBVIOUS
<1>. HIDE DEF q, z
<1>3. DOMAIN z = 1..n /\ z[n] = row /\ \A i \in 1..Len(q) : z[i] = q[i]
  BY <1>1, <1>2
<1>4. DOMAIN z = DOMAIN q \cup {n} /\ n \notin DOMAIN q
  BY <1>1, <1>3
<1>5. Used(d, a, s, c) = {i \in DOMAIN q : q[i].channel = c}
  BY DEF Used, q
<1>6. Used(d2, a, s, c) = {i \in DOMAIN z : z[i].channel = c}
  BY DEF Used, z
<1>. HIDE DEF n
<1>7. CASE c # row.channel
  BY <1>1, <1>3, <1>4, <1>5, <1>6, <1>7
<1>8. CASE c = row.channel
  <2>1. Used(d2, a, s, c) = Used(d, a, s, c) \cup {n} /\ n \notin Used(d, a, s, c)
    BY <1>1, <1>3, <1>4, <1>5, <1>6, <1>8
  <2>2. IsFiniteSet(Used(d, a, s, c))
    BY UsedFinite
  <2>3. Cardinality(Used(d, a, s, c) \cup {n}) = Cardinality(Used(d, a, s, c)) + 1
    BY <2>1, <2>2, FS_AddElement
  <2>. QED
    BY <1>8, <2>1, <2>3
<1>. QED
  BY <1>7, <1>8

-----------------------------------------------------------------------------
(* One handler moves.                                                      *)

LEMMA SendsEscalates ==
  ASSUME NEW r, NEW a, NEW s, s > 0, NEW c, Sends(r, a, s, c)
  PROVE  Escalates(r, a)
BY DEF Sends, Escalates

\* Fewer handlers of one set than of another that contains it.
LEMMA Fewer ==
  ASSUME AlertsAssumption, NEW T \in SUBSET Workers, NEW S \in SUBSET T
  PROVE  /\ IsFiniteSet(S) /\ IsFiniteSet(T)
         /\ Cardinality(S) \in Nat /\ Cardinality(T) \in Nat
         /\ Cardinality(S) <= Cardinality(T)
<1>1. IsFiniteSet(Workers)
  BY Constants
<1>2. IsFiniteSet(T)
  BY <1>1, FS_Subset
<1>3. IsFiniteSet(S) /\ Cardinality(S) <= Cardinality(T)
  BY <1>2, FS_Subset
<1>. QED
  BY <1>2, <1>3, FS_CardinalityType

\* Handler w may go over to r: it escalates what it did before, or its peak
\* counts it; it sends what it was to send before, or to a step without rows.
Follows(d, wk, pk, w, r, a) ==
  /\ Escalates(r, a) => \/ Escalates(wk[w], a)
                        \/ Cardinality(Escalators(wk, a)) + 1 <= pk[a]
  /\ \A s \in 1..ChainLength, c \in 1..StepChannels :
       Sends(r, a, s, c) => Sends(wk[w], a, s, c) \/ d[a][s] = <<>>

LEMMA IdleFollows ==
  ASSUME AlertsAssumption, NEW d, NEW wk, NEW pk, NEW w, NEW r, NEW a, ~Escalates(r, a)
  PROVE  Follows(d, wk, pk, w, r, a)
<1>1. \A s \in 1..ChainLength : s > 0
  BY Constants
<1>2. \A s \in 1..ChainLength : \A c : ~Sends(r, a, s, c)
  BY <1>1, SendsEscalates
<1>. QED
  BY <1>2 DEF Follows

\* Where w goes over to r, nobody else escalates.
LEMMA EscalatorsMove ==
  ASSUME AlertsAssumption, NEW wk \in [Workers -> WorkerType], NEW w \in Workers,
         NEW r \in WorkerType, NEW a \in Alerts,
         NEW pk \in [Alerts -> Nat], NEW pk2 \in [Alerts -> Nat], pk[a] <= pk2[a],
         Cardinality(Escalators(wk, a)) <= pk[a],
         Escalates(r, a) => \/ Escalates(wk[w], a)
                            \/ Cardinality(Escalators(wk, a)) + 1 <= pk2[a]
  PROVE  Cardinality(Escalators([wk EXCEPT ![w] = r], a)) <= pk2[a]
<1>. DEFINE wk2 == [wk EXCEPT ![w] = r]
            E == Escalators(wk, a)
            E2 == Escalators(wk2, a)
<1>1. wk2[w] = r /\ \A v \in Workers : v # w => wk2[v] = wk[v]
  OBVIOUS
<1>2. E2 \subseteq E \cup {w} /\ E \in SUBSET Workers /\ E2 \in SUBSET Workers
  BY <1>1 DEF Escalators
<1>3. (Escalates(r, a) /\ ~Escalates(wk[w], a)) \/ E2 \subseteq E
  BY <1>1 DEF Escalators
<1>. HIDE DEF E, E2, wk2
<1>4. pk[a] \in Nat /\ pk2[a] \in Nat
  OBVIOUS
<1>5. CASE E2 \subseteq E
  <2>1. Cardinality(E2) <= Cardinality(E) /\ Cardinality(E2) \in Nat /\ Cardinality(E) \in Nat
    BY <1>2, <1>5, Fewer
  <2>2. Cardinality(E) <= pk[a]
    BY DEF E
  <2>3. Cardinality(E2) <= pk2[a]
    BY <1>4, <2>1, <2>2
  <2>. QED
    BY <2>3 DEF E2, wk2
<1>6. CASE Escalates(r, a) /\ ~Escalates(wk[w], a)
  <2>1. w \notin E /\ E \cup {w} \in SUBSET Workers
    BY <1>2, <1>6 DEF E, Escalators
  <2>2. IsFiniteSet(E) /\ Cardinality(E) \in Nat
    BY <1>2, Fewer
  <2>3. Cardinality(E \cup {w}) = Cardinality(E) + 1
    BY <2>1, <2>2, FS_AddElement
  <2>4. Cardinality(E2) <= Cardinality(E \cup {w}) /\ Cardinality(E2) \in Nat
    BY <1>2, <2>1, Fewer
  <2>5. Cardinality(E) + 1 <= pk2[a]
    BY <1>6 DEF E
  <2>6. Cardinality(E2) <= pk2[a]
    BY <1>4, <2>2, <2>3, <2>4, <2>5
  <2>. QED
    BY <2>6 DEF E2, wk2
<1>. QED
  BY <1>3, <1>5, <1>6

\* The rows keep their channels, and handler w goes over to r.
LEMMA RoomKept ==
  ASSUME AlertsAssumption,
         NEW d \in DispatchType, NEW d2 \in DispatchType, SameChannels(d, d2),
         NEW wk \in [Workers -> WorkerType], NEW w \in Workers, NEW r \in WorkerType,
         NEW pk \in [Alerts -> Nat], NEW pk2 \in [Alerts -> Nat],
         NEW a \in Alerts, pk[a] <= pk2[a], Room(d, wk, pk, a), Follows(d, wk, pk2, w, r, a)
  PROVE  Room(d2, [wk EXCEPT ![w] = r], pk2, a)
<1>. DEFINE wk2 == [wk EXCEPT ![w] = r]
<1>1. wk2[w] = r /\ \A v \in Workers : v # w => wk2[v] = wk[v]
  OBVIOUS
<1>2. Cardinality(Escalators(wk2, a)) <= pk2[a]
  BY EscalatorsMove DEF Room, Follows
<1>3. ASSUME NEW s \in 1..ChainLength, NEW c \in 1..StepChannels
      PROVE  Cardinality(Used(d2, a, s, c)) + Cardinality(Senders(wk2, a, s, c)) <= pk2[a]
  <2>. DEFINE U == Used(d, a, s, c)
              S == Senders(wk, a, s, c)
              S2 == Senders(wk2, a, s, c)
              E2 == Escalators(wk2, a)
  <2>1. s \in 0..ChainLength /\ s > 0
    BY Constants
  <2>2. Used(d2, a, s, c) = U /\ Cardinality(U) \in Nat
    BY <2>1, UsedSame, UsedFinite
  <2>3. S \in SUBSET Workers /\ S2 \in SUBSET Workers /\ E2 \in SUBSET Workers
    BY DEF Senders, Escalators
  <2>4. Cardinality(U) + Cardinality(S) <= pk[a] /\ pk[a] \in Nat /\ pk2[a] \in Nat
    BY DEF Room
  <2>5. S2 \subseteq E2
    BY <2>1, SendsEscalates DEF Senders, Escalators
  <2>6. CASE Sends(r, a, s, c) => Sends(wk[w], a, s, c)
    <3>1. S2 \subseteq S
      BY <1>1, <2>6 DEF Senders
    <3>. HIDE DEF U, S, S2
    <3>2. Cardinality(S2) <= Cardinality(S) /\ Cardinality(S2) \in Nat /\ Cardinality(S) \in Nat
      BY <2>3, <3>1, Fewer
    <3>3. Cardinality(U) + Cardinality(S2) <= pk2[a]
      BY <2>2, <2>4, <3>2
    <3>. QED
      BY <2>2, <3>3 DEF S2
  <2>7. CASE d[a][s] = <<>>
    <3>1. Cardinality(U) = 0
      BY <2>1, <2>7, UsedFinite
    <3>2. Cardinality(E2) <= pk2[a]
      BY <1>2
    <3>. HIDE DEF U, S2, E2
    <3>3. Cardinality(S2) <= Cardinality(E2) /\ Cardinality(S2) \in Nat /\ Cardinality(E2) \in Nat
      BY <2>3, <2>5, Fewer
    <3>4. Cardinality(U) + Cardinality(S2) <= pk2[a]
      BY <2>4, <3>1, <3>2, <3>3
    <3>. QED
      BY <2>2, <3>4 DEF S2
  <2>. QED
    BY <2>6, <2>7 DEF Follows
<1>. QED
  BY <1>2, <1>3 DEF Room

\* Handler w uses a channel that it was to use, and goes over to r, which is
\* not to use it again.
LEMMA RoomUsed ==
  ASSUME AlertsAssumption,
         NEW d \in DispatchType, NEW d2 \in DispatchType,
         NEW wk \in [Workers -> WorkerType], NEW w \in Workers, NEW r \in WorkerType,
         NEW pk \in [Alerts -> Nat], NEW b \in Alerts, NEW s \in 0..ChainLength,
         NEW row \in DispatchRow, d2[b][s] = Append(d[b][s], row),
         \A a \in Alerts, u \in 0..ChainLength : <<a, u>> # <<b, s>> => d2[a][u] = d[a][u],
         NEW a \in Alerts, Room(d, wk, pk, a),
         Escalates(r, a) => Escalates(wk[w], a),
         \A u \in 1..ChainLength, c \in 1..StepChannels :
           Sends(r, a, u, c) => Sends(wk[w], a, u, c),
         s > 0 => Sends(wk[w], b, s, row.channel) /\ ~Sends(r, b, s, row.channel)
  PROVE  Room(d2, [wk EXCEPT ![w] = r], pk, a)
<1>. DEFINE wk2 == [wk EXCEPT ![w] = r]
<1>1. wk2[w] = r /\ \A v \in Workers : v # w => wk2[v] = wk[v]
  OBVIOUS
<1>a. pk[a] \in Nat /\ pk[a] <= pk[a]
  OBVIOUS
<1>2. Cardinality(Escalators(wk2, a)) <= pk[a]
  BY <1>a, EscalatorsMove DEF Room
<1>. HIDE DEF AlertsAssumption
<1>b. \A u \in 0..ChainLength : \A c : d2[a][u] = Append(d[a][u], row) =>
        /\ c # row.channel => Used(d2, a, u, c) = Used(d, a, u, c)
        /\ c = row.channel =>
             Cardinality(Used(d2, a, u, c)) = Cardinality(Used(d, a, u, c)) + 1
  <2>. SUFFICES ASSUME NEW u \in 0..ChainLength, NEW c, d2[a][u] = Append(d[a][u], row)
                PROVE  /\ c # row.channel => Used(d2, a, u, c) = Used(d, a, u, c)
                       /\ c = row.channel =>
                            Cardinality(Used(d2, a, u, c)) = Cardinality(Used(d, a, u, c)) + 1
    OBVIOUS
  <2>. QED
    BY UsedAdded, SMTT(30)
<1>3. ASSUME NEW u \in 1..ChainLength, NEW c \in 1..StepChannels
      PROVE  Cardinality(Used(d2, a, u, c)) + Cardinality(Senders(wk2, a, u, c)) <= pk[a]
  <2>. DEFINE U == Used(d, a, u, c)
              U2 == Used(d2, a, u, c)
              S == Senders(wk, a, u, c)
              S2 == Senders(wk2, a, u, c)
  <2>1. u \in 0..ChainLength /\ u > 0
    BY Constants
  <2>2. S \in SUBSET Workers /\ S2 \in SUBSET Workers
    BY DEF Senders
  <2>3. S2 \subseteq S
    BY <1>1 DEF Senders
  <2>4. Cardinality(U) + Cardinality(S) <= pk[a]
    BY DEF Room
  <2>5. Cardinality(U) \in Nat
    BY <2>1, UsedFinite
  <2>6. CASE a = b /\ u = s /\ c = row.channel
    <3>1. Cardinality(U2) = Cardinality(U) + 1
      <4>1. d2[a][u] = Append(d[a][u], row) /\ c = row.channel
        BY <2>6
      <4>. HIDE DEF wk2
      <4>2. c = row.channel =>
              Cardinality(Used(d2, a, u, c)) = Cardinality(Used(d, a, u, c)) + 1
        BY <1>b, <2>1, <4>1
      <4>. QED
        BY <2>6, <4>2
    <3>2. w \in S /\ w \notin S2
      BY <1>1, <2>1, <2>6 DEF Senders
    <3>. HIDE DEF U, U2, S, S2
    <3>3. S2 \in SUBSET (S \ {w}) /\ S \ {w} \in SUBSET Workers
      BY <2>2, <2>3, <3>2
    <3>4. IsFiniteSet(S) /\ Cardinality(S) \in Nat
      BY <2>2, Fewer
    <3>5. Cardinality(S \ {w}) = Cardinality(S) - 1
      BY <3>2, <3>4, FS_RemoveElement
    <3>6. Cardinality(S2) <= Cardinality(S \ {w}) /\ Cardinality(S2) \in Nat
      BY <3>3, Fewer
    <3>7. Cardinality(U2) + Cardinality(S2) <= pk[a]
      BY <1>a, <2>4, <2>5, <3>1, <3>4, <3>5, <3>6
    <3>. QED
      BY <3>7 DEF U2, S2
  <2>7. CASE ~(a = b /\ u = s /\ c = row.channel)
    <3>1. U2 = U
      <4>1. CASE a = b /\ u = s
        <5>1. d2[a][u] = Append(d[a][u], row) /\ c # row.channel
          BY <2>7, <4>1
        <5>2. Used(d2, a, u, c) = Used(d, a, u, c)
          BY <1>b, <2>1, <5>1
        <5>. QED
          BY <5>2
      <4>2. CASE ~(a = b /\ u = s)
        <5>1. d2[a][u] = d[a][u]
          BY <2>1, <4>2
        <5>. QED
          BY <5>1 DEF Used
      <4>. QED
        BY <4>1, <4>2
    <3>. HIDE DEF U, U2, S, S2
    <3>2. Cardinality(S2) <= Cardinality(S) /\ Cardinality(S2) \in Nat /\ Cardinality(S) \in Nat
      BY <2>2, <2>3, Fewer
    <3>3. Cardinality(U2) + Cardinality(S2) <= pk[a]
      BY <1>a, <2>4, <2>5, <3>1, <3>2
    <3>. QED
      BY <3>3 DEF U2, S2
  <2>. QED
    BY <2>6, <2>7
<1>. QED
  BY <1>2, <1>3 DEF Room

\* No acknowledgement of a that would write its state is under way in r.
Acks(r, a) == a \in r.alerts /\ r.pc \in {"ack", "bulk"}

\* What a step of handler w has to keep when it adds no row.
LEMMA Moved ==
  ASSUME AlertsAssumption, IInv, NEW w \in Workers, NEW r \in WorkerType, Become(w, r),
         Sane(r), dispatches' \in DispatchType, SameChannels(dispatches, dispatches'),
         routed' = routed, routeActive' \in BOOLEAN,
         faults' \in 0..MaxFaults, switches' \in 0..MaxSwitches,
         peak' \in [Alerts -> Nat],
         \A a \in Alerts : peak[a] <= peak'[a] /\ Follows(dispatches, worker, peak', w, r, a),
         alertState' \in [Alerts -> States], settled' \in SUBSET Alerts,
         \A a \in settled' :
           /\ alertState'[a] = "resolved"
           /\ ~Acks(r, a)
           /\ \A v \in Workers : v # w => ~Acks(worker[v], a)
  PROVE  IInv'
<1>1. worker \in [Workers -> WorkerType] /\ dispatches \in DispatchType
  BY TypeFacts DEF IInv
<1>2. worker' = [worker EXCEPT ![w] = r] /\ worker' \in [Workers -> WorkerType]
  BY <1>1 DEF Become
<1>3. TypeOK'
  BY <1>2 DEF TypeOK, WorkerType, DispatchType, IInv
<1>4. LocalsOK'
  BY <1>1, <1>2 DEF IInv, LocalsOK
<1>5. RoutedOK'
  <2>1. \A a \in routed, s \in 0..ChainLength : Len(dispatches'[a][s]) = Len(dispatches[a][s])
    BY DEF SameChannels, IInv, TypeOK
  <2>. QED
    BY <2>1 DEF RoutedOK, IInv
<1>6. SettledOK'
  <2>1. \A a \in settled', v \in Workers : ~Acks(worker'[v], a)
    BY <1>1, <1>2
  <2>. QED
    BY <2>1 DEF SettledOK, Acks
<1>7. RoomOK'
  <2>. SUFFICES ASSUME NEW a \in Alerts PROVE Room(dispatches', worker', peak', a)
    BY DEF RoomOK
  <2>1. Room(dispatches, worker, peak, a) /\ peak \in [Alerts -> Nat]
    BY DEF IInv, RoomOK, TypeOK
  <2>2. peak[a] <= peak'[a] /\ Follows(dispatches, worker, peak', w, r, a)
    OBVIOUS
  <2>3. Room(dispatches', [worker EXCEPT ![w] = r], peak', a)
    BY <1>1, <2>1, <2>2, RoomKept
  <2>. QED
    BY <1>2, <2>3
<1>. QED
  BY <1>3, <1>4, <1>5, <1>6, <1>7 DEF IInv

\* A handler that escalates nothing more, or sends nothing but what it was to
\* send and to steps without rows, leaves the peaks as they are.
LEMMA Allowed ==
  ASSUME AlertsAssumption, IInv, UNCHANGED peak, NEW w \in Workers, NEW r,
         \A a \in Alerts : Escalates(r, a) => Escalates(worker[w], a),
         \A a \in Alerts, s \in 1..ChainLength, c \in 1..StepChannels :
           Sends(r, a, s, c) => Sends(worker[w], a, s, c) \/ dispatches[a][s] = <<>>
  PROVE  /\ peak' \in [Alerts -> Nat]
         /\ \A a \in Alerts : peak[a] <= peak'[a] /\ Follows(dispatches, worker, peak', w, r, a)
<1>1. peak' \in [Alerts -> Nat] /\ \A a \in Alerts : peak[a] <= peak'[a]
  BY DEF IInv, TypeOK
<1>. QED
  BY <1>1 DEF Follows

LEMMA Harmless ==
  ASSUME AlertsAssumption, IInv, UNCHANGED peak, NEW w \in Workers, NEW r,
         \A a \in Alerts : ~Escalates(r, a)
  PROVE  /\ peak' \in [Alerts -> Nat]
         /\ \A a \in Alerts : peak[a] <= peak'[a] /\ Follows(dispatches, worker, peak', w, r, a)
<1>1. peak' \in [Alerts -> Nat] /\ \A a \in Alerts : peak[a] <= peak'[a]
  BY DEF IInv, TypeOK
<1>2. \A a \in Alerts : Follows(dispatches, worker, peak', w, r, a)
  BY IdleFollows
<1>. QED
  BY <1>1, <1>2

\* The same, for a step of a handler that escalates nothing, and neither
\* writes alertState nor is about to acknowledge.
LEMMA MovedOn ==
  ASSUME AlertsAssumption, IInv, NEW w \in Workers, NEW r \in WorkerType, Become(w, r),
         r.groups = {}, r.pc \notin {"route", "fan", "unforce", "ack", "bulk"},
         dispatches' \in DispatchType, SameChannels(dispatches, dispatches'),
         routed' = routed, routeActive' = routeActive, faults' \in 0..MaxFaults,
         switches' = switches, UNCHANGED <<alertState, peak, settled>>
  PROVE  IInv'
<1>1. Sane(r) /\ \A a \in Alerts : ~Escalates(r, a) /\ ~Acks(r, a)
  BY DEF Sane, Escalates, Acks
<1>2. \A a \in settled : /\ alertState[a] = "resolved"
                         /\ \A v \in Workers : ~Acks(worker[v], a)
  BY DEF IInv, SettledOK, Acks
<1>3. /\ alertState \in [Alerts -> States] /\ settled \in SUBSET Alerts
      /\ routeActive \in BOOLEAN /\ switches \in 0..MaxSwitches
  BY DEF IInv, TypeOK
<1>4. /\ peak' \in [Alerts -> Nat]
      /\ \A a \in Alerts : peak[a] <= peak'[a] /\ Follows(dispatches, worker, peak', w, r, a)
  BY <1>1, Harmless
<1>. QED
  BY <1>1, <1>2, <1>3, <1>4, Moved

LEMMA IdleType == ASSUME AlertsAssumption PROVE Idle \in WorkerType
BY Constants DEF Idle, WorkerType, Steps

\* The lengths stay where the rows do.
LEMMA SameRows ==
  ASSUME IInv, UNCHANGED dispatches
  PROVE  dispatches' \in DispatchType /\ SameChannels(dispatches, dispatches')
BY TypeFacts DEF SameChannels, IInv

-----------------------------------------------------------------------------
(* Requests.                                                               *)

LEMMA WriteAlertKeeps ==
  ASSUME AlertsAssumption, IInv, NEW w \in Workers, NEW a \in Alerts, WriteAlert(w, a)
  PROVE  IInv'
<1>. DEFINE r == [Idle EXCEPT !.pc = "route", !.alerts = {a}]
<1>1. r \in WorkerType
  BY IdleType DEF WorkerType, Steps
<1>2. r.pc = "route" /\ r.alerts = {a} /\ r.groups = {} /\ r.step = 0
  BY DEF Idle
<1>3. Sane(r) /\ \A b \in Alerts : ~Escalates(r, b) /\ ~Acks(r, b)
  BY <1>2 DEF Sane, Escalates, Acks
<1>4. \A b \in settled : /\ alertState'[b] = "resolved"
                         /\ \A v \in Workers : ~Acks(worker[v], b)
  BY DEF IInv, SettledOK, Acks, WriteAlert
<1>5. /\ alertState' \in [Alerts -> States] /\ settled \in SUBSET Alerts
      /\ peak \in [Alerts -> Nat] /\ routeActive \in BOOLEAN /\ faults \in 0..MaxFaults
      /\ switches \in 0..MaxSwitches
  BY DEF IInv, TypeOK, WriteAlert, States
<1>6. Become(w, r) /\ UNCHANGED <<dispatches, routed, routeActive, faults, switches, peak, settled>>
  BY DEF WriteAlert, Bounded, History
<1>7. dispatches' \in DispatchType /\ SameChannels(dispatches, dispatches')
  BY <1>6, SameRows
<1>. HIDE DEF r
<1>8. /\ peak' \in [Alerts -> Nat]
      /\ \A b \in Alerts : peak[b] <= peak'[b] /\ Follows(dispatches, worker, peak', w, r, b)
  BY <1>3, <1>6, Harmless
<1>. QED
  BY <1>1, <1>3, <1>4, <1>5, <1>6, <1>7, <1>8, Moved

LEMMA AckReadKeeps ==
  ASSUME AlertsAssumption, IInv, NEW w \in Workers, NEW a \in Alerts, AckRead(w, a)
  PROVE  IInv'
<1>. DEFINE r == [Idle EXCEPT !.alerts = {a},
                              !.pc = IF alertState[a] = "open" THEN "ack" ELSE "cascade"]
<1>1. r \in WorkerType
  BY IdleType DEF WorkerType, Steps
<1>2. /\ r.pc = IF alertState[a] = "open" THEN "ack" ELSE "cascade"
      /\ r.alerts = {a} /\ r.groups = {}
  BY DEF Idle
<1>3. Sane(r) /\ \A b \in Alerts : ~Escalates(r, b)
  BY <1>2 DEF Sane, Escalates
<1>4. \A b \in settled : /\ alertState[b] = "resolved" /\ ~Acks(r, b)
                         /\ \A v \in Workers : ~Acks(worker[v], b)
  BY <1>2 DEF IInv, SettledOK, Acks
<1>5. /\ alertState \in [Alerts -> States] /\ settled \in SUBSET Alerts
      /\ peak \in [Alerts -> Nat] /\ routeActive \in BOOLEAN /\ faults \in 0..MaxFaults
      /\ switches \in 0..MaxSwitches
  BY DEF IInv, TypeOK
<1>6. Become(w, r) /\ UNCHANGED <<alertState, dispatches, routed, routeActive, faults, switches,
                                  peak, settled>>
  BY DEF AckRead, Bounded, History
<1>7. dispatches' \in DispatchType /\ SameChannels(dispatches, dispatches')
  BY <1>6, SameRows
<1>. HIDE DEF r
<1>8. /\ peak' \in [Alerts -> Nat]
      /\ \A b \in Alerts : peak[b] <= peak'[b] /\ Follows(dispatches, worker, peak', w, r, b)
  BY <1>3, <1>6, Harmless
<1>. QED
  BY <1>1, <1>3, <1>4, <1>5, <1>6, <1>7, <1>8, Moved

LEMMA AckWriteKeeps ==
  ASSUME AlertsAssumption, IInv, NEW w \in Workers, AckWrite(w)
  PROVE  IInv'
<1>. DEFINE r == [worker[w] EXCEPT !.pc = "cascade"]
<1>0. worker[w] \in WorkerType
  BY TypeFacts DEF IInv
<1>1. r \in WorkerType
  BY <1>0 DEF WorkerType, Steps
<1>2. r.pc = "cascade" /\ r.alerts = worker[w].alerts /\ r.groups = worker[w].groups
  BY <1>0 DEF WorkerType
<1>3. Sane(r) /\ \A b \in Alerts : ~Acks(r, b)
  BY <1>2 DEF Sane, Acks
<1>4. /\ \A b \in Alerts : Escalates(r, b) => Escalates(worker[w], b)
      /\ \A b, u, c : ~Sends(r, b, u, c)
  BY <1>2 DEF Escalates, Sends
<1>5. worker[w].pc = "ack"
  BY DEF AckWrite
<1>6. \A b \in settled : /\ alertState[b] = "resolved" /\ b \in Alerts
                         /\ \A v \in Workers : ~Acks(worker[v], b)
  BY DEF IInv, SettledOK, Acks, TypeOK
<1>7. \A b \in settled : alertState'[b] = "resolved"
  BY <1>5, <1>6 DEF AckWrite, Acks
<1>8. /\ alertState' \in [Alerts -> States] /\ settled \in SUBSET Alerts
      /\ peak \in [Alerts -> Nat] /\ routeActive \in BOOLEAN /\ faults \in 0..MaxFaults
      /\ switches \in 0..MaxSwitches
  BY DEF IInv, TypeOK, AckWrite, States
<1>9. Become(w, r) /\ UNCHANGED <<dispatches, routed, routeActive, faults, switches, peak, settled>>
  BY DEF AckWrite, Bounded, History
<1>10. dispatches' \in DispatchType /\ SameChannels(dispatches, dispatches')
  BY <1>9, SameRows
<1>. HIDE DEF r
<1>11. /\ peak' \in [Alerts -> Nat]
       /\ \A b \in Alerts : peak[b] <= peak'[b] /\ Follows(dispatches, worker, peak', w, r, b)
  BY <1>4, <1>9, Allowed
<1>. QED
  BY <1>1, <1>3, <1>6, <1>7, <1>8, <1>9, <1>10, <1>11, Moved

\* The steps that rewrite rows in place.
LEMMA CascadeRewrites ==
  ASSUME IInv, NEW w, Cascade(w)
  PROVE  dispatches' \in DispatchType /\ SameChannels(dispatches, dispatches')
<1>1. \A a \in Alerts, s \in 0..ChainLength :
        /\ dispatches[a][s] \in Seq(DispatchRow)
        /\ Quiet(dispatches[a][s]) \in Seq(DispatchRow)
        /\ Len(Quiet(dispatches[a][s])) = Len(dispatches[a][s])
        /\ \A i \in DOMAIN dispatches[a][s] :
             Quiet(dispatches[a][s])[i].channel = dispatches[a][s][i].channel
  BY QuietRows, TypeFacts DEF DispatchType, IInv
<1>. QED
  BY <1>1 DEF Cascade, DispatchType, SameChannels

LEMMA UnforceRewrites ==
  ASSUME IInv, NEW w \in Workers, Unforce(w)
  PROVE  dispatches' \in DispatchType /\ SameChannels(dispatches, dispatches')
<1>0. dispatches \in DispatchType /\ worker[w] \in WorkerType
  BY TypeFacts DEF IInv
<1>1. PICK a \in worker[w].alerts :
        dispatches' = [dispatches EXCEPT ![a][worker[w].step - 1] = Quiet(@)]
  BY DEF Unforce
<1>. DEFINE s == worker[w].step - 1
<1>2. a \in Alerts
  BY <1>0, <1>1 DEF WorkerType
<1>3. dispatches' = [dispatches EXCEPT ![a][s] = Quiet(dispatches[a][s])]
  BY <1>0, <1>1, <1>2
<1>. HIDE DEF s
<1>4. s \in 0..ChainLength =>
        /\ Quiet(dispatches[a][s]) \in Seq(DispatchRow)
        /\ Len(Quiet(dispatches[a][s])) = Len(dispatches[a][s])
        /\ \A i \in DOMAIN dispatches[a][s] :
             Quiet(dispatches[a][s])[i].channel = dispatches[a][s][i].channel
  BY <1>0, <1>2, QuietRows DEF DispatchType
<1>. QED
  BY <1>0, <1>2, <1>3, <1>4, OnePlace

LEMMA ClearDueRewrites ==
  ASSUME IInv, NEW w, ClearDue(w)
  PROVE  dispatches' \in DispatchType /\ SameChannels(dispatches, dispatches')
<1>1. \A a \in Alerts, s \in 0..ChainLength :
        /\ Set(a, s, worker[w].due, "none") \in Seq(DispatchRow)
        /\ Len(Set(a, s, worker[w].due, "none")) = Len(dispatches[a][s])
        /\ \A i \in DOMAIN dispatches[a][s] :
             Set(a, s, worker[w].due, "none")[i].channel = dispatches[a][s][i].channel
  BY SetRows, TypeFacts DEF IInv, EscalateAts
<1>. QED
  BY <1>1 DEF ClearDue, DispatchType, SameChannels

LEMMA DueRewrites ==
  ASSUME IInv, NEW a \in Alerts, NEW s \in 0..ChainLength, Due(a, s)
  PROVE  dispatches' \in DispatchType /\ SameChannels(dispatches, dispatches')
<1>. DEFINE q == Set(a, s, RowsAt(a, s, "waiting"), "due")
<1>0. dispatches \in DispatchType
  BY TypeFacts DEF IInv
<1>1. /\ q \in Seq(DispatchRow) /\ Len(q) = Len(dispatches[a][s])
      /\ \A i \in DOMAIN dispatches[a][s] : q[i].channel = dispatches[a][s][i].channel
  BY <1>0, SetRows DEF EscalateAts
<1>2. dispatches' = [dispatches EXCEPT ![a][s] = q]
  BY DEF Due
<1>. HIDE DEF q
<1>. QED
  BY <1>0, <1>1, <1>2, OnePlace

LEMMA CascadeKeeps ==
  ASSUME AlertsAssumption, IInv, NEW w \in Workers, Cascade(w)
  PROVE  IInv'
<1>1. dispatches' \in DispatchType /\ SameChannels(dispatches, dispatches')
  BY CascadeRewrites
<1>2. Become(w, Idle) /\ UNCHANGED <<alertState, routed, routeActive, faults, switches, peak, settled>>
  BY DEF Cascade, Bounded, History
<1>3. Idle.groups = {} /\ Idle.pc = "idle" /\ faults \in 0..MaxFaults
  BY DEF Idle, IInv, TypeOK
<1>. QED
  BY <1>1, <1>2, <1>3, IdleType, MovedOn

\* What a step that leaves alertState and the histories as they are keeps of them.
LEMMA Rest ==
  ASSUME IInv
  PROVE  /\ alertState \in [Alerts -> States] /\ settled \in SUBSET Alerts
         /\ peak \in [Alerts -> Nat] /\ routeActive \in BOOLEAN /\ faults \in 0..MaxFaults
         /\ switches \in 0..MaxSwitches /\ worker \in [Workers -> WorkerType]
         /\ \A a \in settled : /\ alertState[a] = "resolved"
                               /\ \A v \in Workers : ~Acks(worker[v], a)
BY TypeFacts DEF IInv, TypeOK, SettledOK, Acks

LEMMA BulkReadKeeps ==
  ASSUME AlertsAssumption, IInv, NEW w \in Workers, NEW picked \in SUBSET Alerts,
         BulkRead(w, picked)
  PROVE  IInv'
<1>. DEFINE open == {a \in picked : alertState[a] = "open"}
            r == [Idle EXCEPT !.pc = "bulk", !.alerts = open]
<1>1. r \in WorkerType
  BY IdleType DEF WorkerType, Steps
<1>2. r.pc = "bulk" /\ r.alerts = open /\ r.groups = {}
  BY DEF Idle
<1>3. Sane(r) /\ \A b \in Alerts : ~Escalates(r, b)
  BY <1>2 DEF Sane, Escalates
<1>4. \A b \in settled : ~Acks(r, b)
  BY <1>2, Rest DEF Acks
<1>5. Become(w, r) /\ UNCHANGED <<alertState, dispatches, routed, routeActive, faults, switches,
                                  peak, settled>>
  BY DEF BulkRead, Bounded, History
<1>6. dispatches' \in DispatchType /\ SameChannels(dispatches, dispatches')
  BY <1>5, SameRows
<1>. HIDE DEF r
<1>7. /\ peak' \in [Alerts -> Nat]
      /\ \A b \in Alerts : peak[b] <= peak'[b] /\ Follows(dispatches, worker, peak', w, r, b)
  BY <1>3, <1>5, Harmless
<1>. QED
  BY <1>1, <1>3, <1>4, <1>5, <1>6, <1>7, Rest, Moved

LEMMA BulkWriteKeeps ==
  ASSUME AlertsAssumption, IInv, NEW w \in Workers, BulkWrite(w)
  PROVE  IInv'
<1>1. PICK a \in worker[w].alerts :
        /\ alertState' = [alertState EXCEPT ![a] = "ack"]
        /\ Become(w, IF worker[w].alerts = {a} THEN Idle
                     ELSE [worker[w] EXCEPT !.alerts = @ \ {a}])
  BY DEF BulkWrite
<1>. DEFINE r == IF worker[w].alerts = {a} THEN Idle
                 ELSE [worker[w] EXCEPT !.alerts = @ \ {a}]
<1>2. worker[w] \in WorkerType /\ worker[w].pc = "bulk" /\ a \in Alerts
  BY Rest, <1>1 DEF BulkWrite, WorkerType
<1>3. r \in WorkerType /\ r.pc \in {"idle", "bulk"}
      /\ r.alerts \subseteq worker[w].alerts /\ r.groups \subseteq worker[w].groups
  <2>1. CASE worker[w].alerts = {a}
    BY <2>1, IdleType DEF Idle
  <2>2. CASE worker[w].alerts # {a}
    BY <1>2, <2>2 DEF WorkerType
  <2>. QED
    BY <2>1, <2>2
<1>4. Become(w, r) /\ UNCHANGED <<dispatches, routed, routeActive, faults, switches, peak, settled>>
  BY <1>1 DEF BulkWrite, Bounded, History
<1>. HIDE DEF r
<1>5. Sane(r)
  BY <1>3 DEF Sane
<1>6. /\ \A b \in Alerts : Escalates(r, b) => Escalates(worker[w], b)
      /\ \A b, u, c : ~Sends(r, b, u, c)
  BY <1>3 DEF Escalates, Sends
<1>7. a \notin settled
  BY <1>2, Rest DEF Acks
<1>8. \A b \in settled : alertState'[b] = "resolved" /\ ~Acks(r, b)
  BY <1>1, <1>2, <1>3, <1>7, Rest DEF Acks
<1>9. alertState' \in [Alerts -> States]
  BY <1>1, Rest DEF States
<1>10. dispatches' \in DispatchType /\ SameChannels(dispatches, dispatches')
  BY <1>4, SameRows
<1>11. /\ peak' \in [Alerts -> Nat]
       /\ \A b \in Alerts : peak[b] <= peak'[b] /\ Follows(dispatches, worker, peak', w, r, b)
  BY <1>4, <1>6, Allowed
<1>. QED
  BY <1>3, <1>4, <1>5, <1>8, <1>9, <1>10, <1>11, Rest, Moved

LEMMA ResolveReadKeeps ==
  ASSUME AlertsAssumption, IInv, NEW w \in Workers, NEW a \in Alerts, ResolveRead(w, a)
  PROVE  IInv'
<1>. DEFINE r == [Idle EXCEPT !.pc = "resolve", !.alerts = {a}]
<1>1. r \in WorkerType
  BY IdleType DEF WorkerType, Steps
<1>2. r.pc = "resolve" /\ r.groups = {}
  BY DEF Idle
<1>3. Become(w, r) /\ UNCHANGED <<alertState, dispatches, routed, routeActive, faults, switches,
                                  peak, settled>>
  BY DEF ResolveRead, Bounded, History
<1>4. dispatches' \in DispatchType /\ SameChannels(dispatches, dispatches')
  BY <1>3, SameRows
<1>. HIDE DEF r
<1>. QED
  BY <1>1, <1>2, <1>3, <1>4, Rest, MovedOn

LEMMA ResolveWriteKeeps ==
  ASSUME AlertsAssumption, IInv, NEW w \in Workers, ResolveWrite(w)
  PROVE  IInv'
<1>1. PICK a \in worker[w].alerts :
        /\ alertState' = [alertState EXCEPT ![a] = "resolved"]
        /\ settled' = IF \E v \in Workers \ {w} :
                           a \in worker[v].alerts /\ worker[v].pc \in {"ack", "bulk"}
                      THEN settled ELSE settled \union {a}
  BY DEF ResolveWrite
<1>2. a \in Alerts
  BY Rest, <1>1 DEF WorkerType
<1>3. Become(w, Idle) /\ UNCHANGED <<dispatches, routed, routeActive, faults, switches, peak>>
  BY DEF ResolveWrite, Bounded
<1>4. /\ alertState' \in [Alerts -> States] /\ settled' \in SUBSET Alerts
      /\ \A b \in settled : alertState'[b] = "resolved"
      /\ alertState'[a] = "resolved"
  BY <1>1, <1>2, Rest DEF States
<1>5. \A b \in settled' : b \in settled \/ (b = a /\ \A v \in Workers : v # w => ~Acks(worker[v], a))
  BY <1>1 DEF Acks
<1>6. \A b \in settled' : /\ alertState'[b] = "resolved"
                          /\ \A v \in Workers : v # w => ~Acks(worker[v], b)
  BY <1>4, <1>5, Rest
<1>7. Sane(Idle) /\ \A b \in Alerts : ~Escalates(Idle, b) /\ ~Acks(Idle, b)
  BY DEF Sane, Escalates, Acks, Idle
<1>9. /\ peak' \in [Alerts -> Nat]
      /\ \A b \in Alerts : peak[b] <= peak'[b] /\ Follows(dispatches, worker, peak', w, Idle, b)
  BY <1>3, <1>7, Harmless
<1>8. dispatches' \in DispatchType /\ SameChannels(dispatches, dispatches')
  BY <1>3, SameRows
<1>. QED
  BY <1>3, <1>4, <1>6, <1>7, <1>8, <1>9, IdleType, Rest, Moved

LEMMA Least == ASSUME NEW T \in SUBSET Nat, T # {} PROVE \E x \in T : \A y \in T : x <= y
<1>1. PICK x \in T : \A y \in T : ~(<<y, x>> \in OpToRel(<, Nat))
  BY NatLessThanWellFounded, WFMin, Zenon
<1>2. \A y \in T : ~(y < x)
  BY <1>1 DEF OpToRel
<1>. QED
  BY <1>2

\* An alert with a row has a last step with a row.
LEMMA LastStep ==
  ASSUME AlertsAssumption, IInv, NEW a \in routed
  PROVE  \E s \in 0..ChainLength :
           /\ dispatches[a][s] # <<>>
           /\ \A u \in s + 1..ChainLength : dispatches[a][u] = <<>>
<1>. DEFINE T == {n \in Nat : /\ n <= ChainLength
                              /\ Len(dispatches[a][ChainLength - n]) # 0}
<1>a. ChainLength \in Nat /\ a \in Alerts
  BY Constants DEF IInv, TypeOK
<1>b. \A s \in 0..ChainLength : dispatches[a][s] \in Seq(DispatchRow)
  BY <1>a, TypeFacts DEF IInv, DispatchType
<1>1. PICK s \in 0..ChainLength : Len(dispatches[a][s]) # 0
  BY DEF IInv, RoutedOK
<1>2. ChainLength - s \in T
  <2>1. ChainLength - s \in Nat /\ ChainLength - (ChainLength - s) = s /\ ChainLength - s <= ChainLength
    BY <1>a
  <2>. QED
    BY <1>1, <2>1
<1>3. PICK m \in T : \A n \in T : m <= n
  BY <1>2, Least
<1>4. ChainLength - m \in 0..ChainLength /\ dispatches[a][ChainLength - m] # <<>>
  <2>1. m \in Nat /\ m <= ChainLength /\ Len(dispatches[a][ChainLength - m]) # 0
    BY <1>3
  <2>. QED
    BY <1>a, <2>1
<1>5. ASSUME NEW u \in ChainLength - m + 1..ChainLength PROVE dispatches[a][u] = <<>>
  <2>1. u \in 0..ChainLength /\ ChainLength - u \in Nat /\ ChainLength - u < m
        /\ ChainLength - (ChainLength - u) = u
    BY <1>a, <1>3
  <2>2. ChainLength - u \notin T
    <3>. DEFINE n == ChainLength - u
    <3>. HIDE DEF n
    <3>1. n \in Nat /\ n < m /\ m \in Nat
      BY <1>3, <2>1 DEF n
    <3>. HIDE DEF T
    <3>2. n \notin T
      BY <1>3, <3>1
    <3>. QED
      BY <3>2 DEF n
  <2>3. Len(dispatches[a][u]) = 0
    BY <1>a, <2>1, <2>2
  <2>. QED
    BY <1>b, <2>1, <2>3, EmptySeq
<1>. QED
  BY <1>4, <1>5

\* Where handlers join the escalation of an alert, its peak counts one more.
LEMMA JoinsKeeps ==
  ASSUME AlertsAssumption, IInv, NEW S, Joins(S)
  PROVE  /\ peak' \in [Alerts -> Nat]
         /\ \A a \in Alerts : peak[a] <= peak'[a]
         /\ \A a \in Alerts \cap S : Cardinality(Escalators(worker, a)) + 1 <= peak'[a]
<1>. DEFINE n(a) == Cardinality(Escalating(a)) + 1
<1>1. \A a \in Alerts : Escalating(a) = Escalators(worker, a) /\ Escalators(worker, a) \in SUBSET Workers
  BY DEF Escalating, Escalators, Escalates
<1>2. \A a \in Alerts : n(a) \in Nat /\ n(a) = Cardinality(Escalators(worker, a)) + 1
  <2>1. \A a \in Alerts : Cardinality(Escalators(worker, a)) \in Nat
    BY <1>1, Fewer
  <2>. QED
    BY <1>1, <2>1
<1>3. peak' = [a \in Alerts |-> IF a \in S /\ n(a) > peak[a] THEN n(a) ELSE peak[a]]
  BY DEF Joins
<1>4. peak \in [Alerts -> Nat]
  BY DEF IInv, TypeOK
<1>. HIDE DEF n
<1>5. ASSUME NEW a \in Alerts
      PROVE  /\ peak'[a] \in Nat /\ peak[a] <= peak'[a]
             /\ a \in S => n(a) <= peak'[a]
  BY <1>2, <1>3, <1>4
<1>. QED
  BY <1>2, <1>3, <1>5

LEMMA ForceKeeps ==
  ASSUME AlertsAssumption, IInv, NEW w \in Workers, NEW a \in Alerts, ForceEscalate(w, a)
  PROVE  IInv'
<1>0. /\ ChainLength \in Nat /\ StepChannels \in Nat /\ StepChannels > 0
      /\ PrimaryChannels \in Nat
  BY Constants
<1>1. \E s \in 0..ChainLength :
        /\ dispatches[a][s] # <<>>
        /\ \A u \in s + 1..ChainLength : dispatches[a][u] = <<>>
  BY LastStep DEF ForceEscalate
<1>2. PICK last \in 0..ChainLength :
        /\ \A u \in last + 1..ChainLength : dispatches[a][u] = <<>>
        /\ last < ChainLength
        /\ Become(w, [Idle EXCEPT !.pc = "fan", !.alerts = {a},
                                  !.step = last + 1, !.left = StepChannels])
  BY <1>1 DEF ForceEscalate
<1>. DEFINE r == [Idle EXCEPT !.pc = "fan", !.alerts = {a},
                              !.step = last + 1, !.left = StepChannels]
<1>3. last + 1 \in 1..ChainLength /\ dispatches[a][last + 1] = <<>>
  <2>1. last + 1 \in 1..ChainLength /\ last + 1 \in last + 1..ChainLength
    BY <1>0, <1>2
  <2>2. dispatches[a][last + 1] = <<>>
    BY <1>2, <2>1
  <2>. QED
    BY <2>1, <2>2
<1>4. r \in WorkerType
  <2>1. last + 1 \in 0..ChainLength /\ StepChannels \in 0..(PrimaryChannels + StepChannels)
    BY <1>0, <1>3
  <2>. QED
    BY <2>1, IdleType DEF WorkerType, Steps
<1>5. /\ r.pc = "fan" /\ r.alerts = {a} /\ r.step = last + 1 /\ r.left = StepChannels
      /\ r.groups = {} /\ Become(w, r)
  BY <1>2 DEF Idle
<1>. HIDE DEF r
<1>6. Sane(r) /\ \A b \in Alerts : ~Acks(r, b)
  BY <1>0, <1>5 DEF Sane, Acks
<1>7. \A b \in Alerts : Escalates(r, b) => b = a
  BY <1>5 DEF Escalates
<1>8. \A b \in Alerts : \A u, c : Sends(r, b, u, c) => b = a /\ u = last + 1
  BY <1>5 DEF Sends
<1>9. Joins({a}) /\ UNCHANGED <<alertState, dispatches, routed, routeActive, faults, switches, settled>>
  BY DEF ForceEscalate, Bounded
<1>10. /\ peak' \in [Alerts -> Nat]
       /\ \A b \in Alerts : peak[b] <= peak'[b] /\ Follows(dispatches, worker, peak', w, r, b)
  BY <1>3, <1>7, <1>8, <1>9, JoinsKeeps DEF Follows
<1>11. dispatches' \in DispatchType /\ SameChannels(dispatches, dispatches')
  BY <1>9, SameRows
<1>. QED
  BY <1>4, <1>5, <1>6, <1>9, <1>10, <1>11, Rest, Moved

LEMMA UnforceKeeps ==
  ASSUME AlertsAssumption, IInv, NEW w \in Workers, Unforce(w)
  PROVE  IInv'
<1>1. dispatches' \in DispatchType /\ SameChannels(dispatches, dispatches')
  BY UnforceRewrites
<1>2. Become(w, Idle) /\ UNCHANGED <<alertState, routed, routeActive, faults, switches, peak, settled>>
  BY DEF Unforce, Bounded, History
<1>3. Idle.groups = {} /\ Idle.pc = "idle"
  BY DEF Idle
<1>. QED
  BY <1>1, <1>2, <1>3, IdleType, Rest, MovedOn

-----------------------------------------------------------------------------
(* The escalation cron.                                                    *)

LEMMA DueRowsType ==
  ASSUME AlertsAssumption, IInv
  PROVE  /\ DueRows \in SUBSET RowType
         /\ {Group(r) : r \in DueRows} \in SUBSET GroupType
<1>1. ASSUME NEW r \in DueRows PROVE r \in RowType /\ Group(r) \in GroupType
  <2>1. PICK a \in Alerts, s \in 0..ChainLength : r \in RowsAt(a, s, "due")
    BY <1>1 DEF DueRows
  <2>2. PICK i \in DOMAIN dispatches[a][s] : r = [alert |-> a, step |-> s, at |-> i]
    BY <2>1 DEF RowsAt
  <2>3. dispatches[a][s] \in Seq(DispatchRow)
    BY TypeFacts DEF IInv, DispatchType
  <2>4. i \in Nat \ {0}
    BY <2>2, <2>3
  <2>. QED
    BY <2>2, <2>4 DEF RowType, GroupType, Group
<1>. QED
  BY <1>1

LEMMA CronReadKeeps ==
  ASSUME AlertsAssumption, IInv, NEW w \in Workers, CronRead(w)
  PROVE  IInv'
<1>. DEFINE r == [Idle EXCEPT !.pc = "routes", !.due = DueRows,
                              !.groups = {Group(x) : x \in DueRows}]
            S == {x.alert : x \in DueRows}
<1>1. r \in WorkerType
  BY IdleType, DueRowsType DEF WorkerType, Steps
<1>2. /\ r.pc = "routes" /\ r.alerts = {} /\ r.groups = {Group(x) : x \in DueRows}
      /\ Become(w, r)
  BY DEF Idle, CronRead
<1>. HIDE DEF r
<1>3. Sane(r) /\ \A b \in Alerts : ~Acks(r, b)
  BY <1>2 DEF Sane, Acks
<1>4. Joins(S) /\ UNCHANGED <<alertState, dispatches, routed, routeActive, faults, switches, settled>>
  BY DEF CronRead, Bounded
<1>5. /\ \A b \in Alerts : Escalates(r, b) => b \in S
      /\ \A b, u, c : ~Sends(r, b, u, c)
  BY <1>2 DEF Escalates, Sends, Group
<1>. HIDE DEF S
<1>6. /\ peak' \in [Alerts -> Nat]
      /\ \A b \in Alerts : peak[b] <= peak'[b] /\ Follows(dispatches, worker, peak', w, r, b)
  BY <1>4, <1>5, JoinsKeeps DEF Follows
<1>7. dispatches' \in DispatchType /\ SameChannels(dispatches, dispatches')
  BY <1>4, SameRows
<1>. QED
  BY <1>1, <1>2, <1>3, <1>4, <1>6, <1>7, Rest, Moved

\* A firing that goes on with r keeps to alerts that it escalates already.
LEMMA FiringMoved ==
  ASSUME AlertsAssumption, IInv, NEW w \in Workers, NEW r \in WorkerType, Become(w, r),
         Sane(r), r.pc \in {"counts", "groups", "fan"},
         \A b \in Alerts : Escalates(r, b) => Escalates(worker[w], b),
         \A b \in Alerts, u \in 1..ChainLength, c \in 1..StepChannels :
           Sends(r, b, u, c) => Sends(worker[w], b, u, c) \/ dispatches[b][u] = <<>>,
         faults' \in 0..MaxFaults,
         UNCHANGED <<alertState, dispatches, routed, routeActive, switches, peak, settled>>
  PROVE  IInv'
<1>1. \A b \in Alerts : ~Acks(r, b)
  BY DEF Acks
<1>2. dispatches' \in DispatchType /\ SameChannels(dispatches, dispatches')
  BY SameRows
<1>3. /\ peak' \in [Alerts -> Nat]
      /\ \A b \in Alerts : peak[b] <= peak'[b] /\ Follows(dispatches, worker, peak', w, r, b)
  BY Allowed
<1>. QED
  BY <1>1, <1>2, <1>3, Rest, Moved

LEMMA CronRoutesKeeps ==
  ASSUME AlertsAssumption, IInv, NEW w \in Workers, CronRoutes(w)
  PROVE  IInv'
<1>. DEFINE r == [worker[w] EXCEPT !.pc = "counts", !.groups = {g \in @ : routeActive}]
<1>0. worker[w] \in WorkerType
  BY Rest
<1>1. r \in WorkerType
  BY <1>0 DEF WorkerType, Steps
<1>2. r.pc = "counts" /\ r.groups \subseteq worker[w].groups /\ Become(w, r)
  BY <1>0 DEF WorkerType, CronRoutes
<1>. HIDE DEF r
<1>3. /\ Sane(r) /\ \A b \in Alerts : Escalates(r, b) => Escalates(worker[w], b)
      /\ \A b, u, c : ~Sends(r, b, u, c)
  BY <1>2 DEF Sane, Escalates, Sends
<1>4. UNCHANGED <<alertState, dispatches, routed, routeActive, switches, peak, settled, faults>>
  BY DEF CronRoutes, Bounded, History
<1>. QED
  BY <1>1, <1>2, <1>3, <1>4, Rest, FiringMoved

LEMMA CronCountsKeeps ==
  ASSUME AlertsAssumption, IInv, NEW w \in Workers, CronCounts(w)
  PROVE  IInv'
<1>. DEFINE chosen == {g \in worker[w].groups : /\ g.step < ChainLength
                                                /\ dispatches[g.alert][g.step + 1] = <<>>}
            r == [worker[w] EXCEPT !.pc = "groups", !.groups = chosen]
<1>0. worker[w] \in WorkerType
  BY Rest
<1>1. r \in WorkerType
  BY <1>0 DEF WorkerType, Steps
<1>2. r.pc = "groups" /\ r.groups = chosen /\ Become(w, r)
  BY <1>0 DEF WorkerType, CronCounts
<1>3. \A g \in chosen : g.step < ChainLength /\ dispatches[g.alert][g.step + 1] = <<>>
  OBVIOUS
<1>4. chosen \subseteq worker[w].groups
  OBVIOUS
<1>. HIDE DEF chosen, r
<1>5. Sane(r)
  BY <1>2, <1>3 DEF Sane
<1>8. \A b, u, c : Sends(r, b, u, c) => dispatches[b][u] = <<>>
  BY <1>2, <1>3 DEF Sends
<1>6. \A b \in Alerts : Escalates(r, b) => Escalates(worker[w], b)
  BY <1>2, <1>4 DEF Escalates
<1>7. UNCHANGED <<alertState, dispatches, routed, routeActive, switches, peak, settled, faults>>
  BY DEF CronCounts, Bounded, History
<1>. QED
  BY <1>1, <1>2, <1>5, <1>6, <1>7, <1>8, Rest, FiringMoved

LEMMA EscalateOneKeeps ==
  ASSUME AlertsAssumption, IInv, NEW w \in Workers, EscalateOne(w)
  PROVE  IInv'
<1>0. worker[w] \in WorkerType /\ worker[w].pc = "groups" /\ Sane(worker[w])
  BY Rest DEF EscalateOne, IInv, LocalsOK
<1>1. PICK g \in worker[w].groups :
        Become(w, [worker[w] EXCEPT !.pc = "fan", !.alerts = {g.alert},
                     !.step = g.step + 1, !.left = StepChannels, !.groups = @ \ {g}])
  BY DEF EscalateOne
<1>. DEFINE r == [worker[w] EXCEPT !.pc = "fan", !.alerts = {g.alert},
                     !.step = g.step + 1, !.left = StepChannels, !.groups = @ \ {g}]
<1>2. /\ g \in GroupType /\ g.alert \in Alerts /\ g.step \in Nat
      /\ g.step + 1 \in 0..ChainLength /\ g.step + 1 > 0
  BY <1>0, <1>1, Constants DEF WorkerType, GroupType, Sane
<1>3. StepChannels \in 0..(PrimaryChannels + StepChannels) /\ StepChannels > 0
  BY Constants
<1>4. r \in WorkerType
  BY <1>0, <1>2, <1>3 DEF WorkerType, Steps
<1>5. /\ r.pc = "fan" /\ r.alerts = {g.alert} /\ r.step = g.step + 1 /\ r.left = StepChannels
      /\ r.groups = worker[w].groups \ {g} /\ Become(w, r)
  BY <1>0, <1>1 DEF WorkerType
<1>. HIDE DEF r
<1>6. Sane(r)
  <2>1. ASSUME NEW x \in r.groups, x.alert \in r.alerts PROVE x.step + 1 # r.step
    <3>1. x \in GroupType /\ x # g /\ x.alert = g.alert
      BY <1>0, <1>5, <2>1 DEF WorkerType
    <3>2. x.step # g.step /\ x.step \in Nat
      BY <1>2, <3>1, Constants DEF GroupType
    <3>. QED
      BY <1>2, <1>5, <3>2
  <2>2. \A x \in r.groups : x.step < ChainLength
    BY <1>0, <1>5 DEF Sane
  <2>. QED
    BY <1>3, <1>5, <2>1, <2>2 DEF Sane
<1>7. /\ \A b \in Alerts : Escalates(r, b) => Escalates(worker[w], b)
      /\ \A b, u, c : Sends(r, b, u, c) => Sends(worker[w], b, u, c)
  BY <1>0, <1>1, <1>5 DEF Escalates, Sends
<1>8. UNCHANGED <<alertState, dispatches, routed, routeActive, switches, peak, settled, faults>>
  BY DEF EscalateOne, Bounded, History
<1>. QED
  BY <1>4, <1>5, <1>6, <1>7, <1>8, Rest, FiringMoved

LEMMA ClearDueKeeps ==
  ASSUME AlertsAssumption, IInv, NEW w \in Workers, ClearDue(w)
  PROVE  IInv'
<1>1. dispatches' \in DispatchType /\ SameChannels(dispatches, dispatches')
  BY ClearDueRewrites
<1>2. Become(w, Idle) /\ UNCHANGED <<alertState, routed, routeActive, faults, switches, peak, settled>>
  BY DEF ClearDue, Bounded, History
<1>3. Idle.groups = {} /\ Idle.pc = "idle"
  BY DEF Idle
<1>. QED
  BY <1>1, <1>2, <1>3, IdleType, Rest, MovedOn

-----------------------------------------------------------------------------
(* Rows that are added, and faults.                                        *)

LEMMA AfterFanFacts ==
  ASSUME AlertsAssumption, IInv, NEW w \in Workers, worker[w].pc = "fan",
         NEW r, r = AfterFan(w)
  PROVE  /\ r \in WorkerType /\ Sane(r) /\ r.pc \in {"groups", "unforce", "idle"}
         /\ r.groups \subseteq worker[w].groups
         /\ \A b \in Alerts : Escalates(r, b) => Escalates(worker[w], b)
         /\ \A b, u, c : Sends(r, b, u, c) => Sends(worker[w], b, u, c)
<1>0. /\ worker[w] \in WorkerType /\ Sane(worker[w]) /\ 0 \in 0..ChainLength
      /\ 0 \in 0..(PrimaryChannels + StepChannels)
  BY Rest, Constants DEF IInv, LocalsOK
<1>1. CASE w \in Crons
  <2>1. r = [worker[w] EXCEPT !.pc = "groups", !.left = 0, !.step = 0, !.alerts = {}]
    BY <1>1, Constants DEF AfterFan
  <2>2. r \in WorkerType /\ r.pc = "groups" /\ r.groups = worker[w].groups /\ r.alerts = {}
    BY <1>0, <2>1 DEF WorkerType, Steps
  <2>. QED
    BY <1>0, <2>2 DEF Sane, Escalates, Sends
<1>2. CASE w \notin Crons /\ worker[w].step > 0
  <2>1. r = [worker[w] EXCEPT !.pc = "unforce", !.left = 0]
    BY <1>2 DEF AfterFan, Workers
  <2>2. /\ r \in WorkerType /\ r.pc = "unforce" /\ r.groups = worker[w].groups
        /\ r.alerts = worker[w].alerts /\ r.step = worker[w].step
    BY <1>0, <2>1 DEF WorkerType, Steps
  <2>. QED
    BY <2>2 DEF Sane, Escalates, Sends
<1>3. CASE w \notin Crons /\ ~(worker[w].step > 0)
  <2>1. r = Idle
    BY <1>3 DEF AfterFan
  <2>2. r.pc = "idle" /\ r.groups = {}
    BY <2>1 DEF Idle
  <2>. QED
    BY <2>1, <2>2, IdleType DEF Sane, Escalates, Sends
<1>. QED
  BY <1>1, <1>2, <1>3

\* Handler w adds a row, which uses a channel that it was to use if the row is
\* an escalation's.
LEMMA Added ==
  ASSUME AlertsAssumption, IInv, NEW w \in Workers, NEW r \in WorkerType, Become(w, r),
         Sane(r), NEW a \in Alerts, NEW s \in 0..ChainLength, NEW row \in DispatchRow,
         dispatches' = [dispatches EXCEPT ![a][s] = Append(@, row)],
         routed' \in {routed, routed \union {a}},
         \A b \in Alerts : Escalates(r, b) => Escalates(worker[w], b),
         \A b \in Alerts : ~Acks(r, b),
         \A b \in Alerts, u \in 1..ChainLength, c \in 1..StepChannels :
           Sends(r, b, u, c) => Sends(worker[w], b, u, c),
         s > 0 => Sends(worker[w], a, s, row.channel) /\ ~Sends(r, a, s, row.channel),
         UNCHANGED <<alertState, routeActive, faults, switches, peak, settled>>
  PROVE  IInv'
<1>1. worker \in [Workers -> WorkerType] /\ dispatches \in DispatchType
  BY TypeFacts DEF IInv
<1>2. worker' = [worker EXCEPT ![w] = r] /\ worker' \in [Workers -> WorkerType]
  BY <1>1 DEF Become
<1>3. /\ dispatches' \in DispatchType
      /\ Len(dispatches'[a][s]) = Len(dispatches[a][s]) + 1
      /\ \A b \in Alerts, u \in 0..ChainLength :
           <<b, u>> # <<a, s>> => dispatches'[b][u] = dispatches[b][u]
      /\ dispatches'[a][s] = Append(dispatches[a][s], row)
      /\ Len(dispatches[a][s]) \in Nat
  <2>1. dispatches[a][s] \in Seq(DispatchRow)
    BY <1>1 DEF DispatchType
  <2>2. Len(dispatches[a][s]) \in Nat
    BY <2>1
  <2>3. dispatches' = WithRow(dispatches, a, s, row)
    BY DEF WithRow
  <2>4. /\ dispatches' \in DispatchType
        /\ Len(dispatches'[a][s]) = Len(dispatches[a][s]) + 1
        /\ \A b \in Alerts, u \in 0..ChainLength :
             <<b, u>> # <<a, s>> => dispatches'[b][u] = dispatches[b][u]
        /\ dispatches'[a][s] = Append(dispatches[a][s], row)
    <3>. DEFINE d2 == WithRow(dispatches, a, s, row)
    <3>. HIDE DEF AlertsAssumption
    <3>1. /\ d2 \in DispatchType
          /\ Len(d2[a][s]) = Len(dispatches[a][s]) + 1
          /\ \A b \in Alerts, u \in 0..ChainLength :
               <<b, u>> # <<a, s>> => d2[b][u] = dispatches[b][u]
          /\ d2[a][s] = Append(dispatches[a][s], row)
      BY <1>1, OneMore
    <3>. HIDE DEF d2
    <3>2. dispatches' = d2
      BY <2>3 DEF d2
    <3>. QED
      BY <3>1, <3>2
  <2>. QED
    BY <2>2, <2>4
<1>4. TypeOK'
  BY <1>2, <1>3 DEF TypeOK, WorkerType, DispatchType, IInv
<1>5. LocalsOK'
  BY <1>1, <1>2 DEF IInv, LocalsOK
<1>6. RoutedOK'
  <2>. SUFFICES ASSUME NEW b \in routed'
                PROVE  \E u \in 0..ChainLength : Len(dispatches'[b][u]) # 0
    BY DEF RoutedOK
  <2>1. CASE b = a
    BY <1>3, <2>1
  <2>2. CASE b # a
    BY <1>3, <2>2 DEF RoutedOK, IInv, TypeOK
  <2>. QED
    BY <2>1, <2>2
<1>7. SettledOK'
  <2>1. \A b \in settled, v \in Workers : ~Acks(worker'[v], b)
    BY <1>1, <1>2, Rest
  <2>. QED
    BY <2>1, Rest DEF SettledOK, Acks
<1>8. RoomOK'
  <2>. SUFFICES ASSUME NEW b \in Alerts PROVE Room(dispatches', worker', peak, b)
    BY DEF RoomOK
  <2>1. Room(dispatches, worker, peak, b) /\ peak \in [Alerts -> Nat]
    BY Rest DEF IInv, RoomOK
  <2>2. dispatches'[a][s] = Append(dispatches[a][s], row)
    BY <1>3
  <2>3. Room(dispatches', [worker EXCEPT ![w] = r], peak, b)
    BY <1>1, <1>3, <2>1, <2>2, RoomUsed
  <2>. QED
    BY <1>2, <2>3
<1>. QED
  BY <1>4, <1>5, <1>6, <1>7, <1>8 DEF IInv

LEMMA RouteKeeps ==
  ASSUME AlertsAssumption, IInv, NEW w \in Workers, Route(w)
  PROVE  IInv'
<1>0. /\ worker[w] \in WorkerType /\ Sane(worker[w]) /\ worker[w].pc = "route"
      /\ worker[w].step = 0 /\ worker[w].groups = {}
  BY Rest DEF IInv, LocalsOK, Route, Sane
<1>. DEFINE fan == [worker[w] EXCEPT !.pc = "fan", !.left = PrimaryChannels]
            row == [channel |-> 0, escalateAt |-> "none"]
<1>1. PICK a \in worker[w].alerts :
        \/ /\ dispatches' = [dispatches EXCEPT ![a][0] = Append(@, row)]
           /\ Become(w, Idle) /\ routed' \in {routed, routed \union {a}}
        \/ Become(w, fan) /\ UNCHANGED <<dispatches, routed>>
  BY DEF Route, AddRow
<1>2. UNCHANGED <<alertState, routeActive, faults, switches, peak, settled>>
  BY DEF Route, Bounded, History
<1>3. CASE /\ dispatches' = [dispatches EXCEPT ![a][0] = Append(@, row)]
           /\ Become(w, Idle) /\ routed' \in {routed, routed \union {a}}
  <2>1. Idle.pc = "idle" /\ Idle.groups = {}
    BY DEF Idle
  <2>2. /\ Sane(Idle) /\ \A b \in Alerts : ~Escalates(Idle, b) /\ ~Acks(Idle, b)
        /\ \A b, u, c : ~Sends(Idle, b, u, c)
    BY <2>1 DEF Sane, Escalates, Acks, Sends
  <2>3. 0 \in 0..(PrimaryChannels + StepChannels)
    BY Constants
  <2>4. row \in DispatchRow
    BY <2>3 DEF DispatchRow, EscalateAts
  <2>5. a \in Alerts /\ 0 \in 0..ChainLength /\ ~(0 > 0)
    BY <1>0, Constants DEF WorkerType
  <2>. HIDE DEF fan, row
  <2>. QED
    BY <1>2, <1>3, <2>2, <2>4, <2>5, IdleType, Added
<1>4. CASE Become(w, fan) /\ UNCHANGED <<dispatches, routed>>
  <2>1. PrimaryChannels \in 0..(PrimaryChannels + StepChannels) /\ PrimaryChannels > 0
    BY Constants
  <2>2. fan \in WorkerType
    BY <1>0, <2>1 DEF WorkerType, Steps
  <2>3. fan.pc = "fan" /\ fan.step = 0 /\ fan.groups = {} /\ fan.left = PrimaryChannels
    BY <1>0 DEF WorkerType
  <2>4. Sane(fan) /\ \A b \in Alerts : ~Escalates(fan, b) /\ ~Acks(fan, b)
    BY <2>1, <2>3 DEF Sane, Escalates, Acks
  <2>5. dispatches' \in DispatchType /\ SameChannels(dispatches, dispatches')
    BY <1>4, SameRows
  <2>. HIDE DEF fan
  <2>6. /\ peak' \in [Alerts -> Nat]
        /\ \A b \in Alerts : peak[b] <= peak'[b] /\ Follows(dispatches, worker, peak', w, fan, b)
    BY <1>2, <2>4, Harmless
  <2>. QED
    BY <1>2, <1>4, <2>2, <2>4, <2>5, <2>6, Rest, Moved
<1>. QED
  BY <1>1, <1>3, <1>4

LEMMA FanOutKeeps ==
  ASSUME AlertsAssumption, IInv, NEW w \in Workers, FanOut(w)
  PROVE  IInv'
<1>0. /\ worker[w] \in WorkerType /\ Sane(worker[w]) /\ worker[w].pc = "fan"
      /\ worker[w].left \in 0..(PrimaryChannels + StepChannels) /\ worker[w].left > 0
      /\ worker[w].step \in 0..ChainLength
  BY Rest DEF IInv, LocalsOK, FanOut, Sane, WorkerType
<1>a. StepChannels \in Nat /\ PrimaryChannels \in Nat /\ ChainLength \in Nat
  BY Constants
<1>. DEFINE s == worker[w].step
            left == worker[w].left
            row == [channel |-> left, escalateAt |-> EscalateAt(s)]
            more == [worker[w] EXCEPT !.left = left - 1]
            r == IF left > 1 THEN more ELSE AfterFan(w)
<1>1. PICK a \in worker[w].alerts :
        /\ dispatches' = [dispatches EXCEPT ![a][s] = Append(@, row)]
        /\ routed' \in {routed, routed \union {a}}
  BY DEF FanOut, AddRow
<1>2. Become(w, r) /\ UNCHANGED <<alertState, routeActive, faults, switches, peak, settled>>
  BY DEF FanOut, Bounded, History
<1>3. a \in Alerts /\ row.channel = left /\ row \in DispatchRow
  BY <1>0, <1>1 DEF WorkerType, EscalateAt, EscalateAts, DispatchRow
<1>4. /\ r \in WorkerType /\ Sane(r) /\ r.groups \subseteq worker[w].groups
      /\ r.pc \in {"fan", "groups", "unforce", "idle"}
      /\ r.pc = "fan" => r.left = left - 1
      /\ \A b \in Alerts : Escalates(r, b) => Escalates(worker[w], b)
      /\ \A b \in Alerts, u \in 1..ChainLength, c \in 1..StepChannels :
           Sends(r, b, u, c) => Sends(worker[w], b, u, c)
  <2>1. CASE left > 1
    <3>1. /\ more \in WorkerType /\ more.pc = "fan" /\ more.left = left - 1
          /\ more.groups = worker[w].groups /\ more.alerts = worker[w].alerts /\ more.step = s
      BY <1>0, <1>a, <2>1 DEF WorkerType
    <3>2. r = more
      BY <2>1
    <3>. HIDE DEF r, more
    <3>3. Sane(r) /\ \A b \in Alerts : Escalates(r, b) => Escalates(worker[w], b)
      BY <1>0, <1>a, <2>1, <3>1, <3>2 DEF Sane, Escalates
    <3>4. \A c \in 1..StepChannels : c <= left - 1 => c <= left
      BY <1>0, <1>a
    <3>5. \A b \in Alerts, u \in 1..ChainLength, c \in 1..StepChannels :
            Sends(r, b, u, c) => Sends(worker[w], b, u, c)
      BY <1>0, <3>1, <3>2, <3>4 DEF Sends
    <3>. QED
      BY <3>1, <3>2, <3>3, <3>5
  <2>2. CASE ~(left > 1)
    <3>1. r = AfterFan(w)
      BY <2>2
    <3>. HIDE DEF r
    <3>. QED
      BY <1>0, <3>1, AfterFanFacts
  <2>. QED
    BY <2>1, <2>2
<1>. HIDE DEF r, row
<1>5. \A b \in Alerts : ~Acks(r, b)
  BY <1>4 DEF Acks
<1>6. Sends(worker[w], a, s, left)
  BY <1>0, <1>1 DEF Sends
<1>7. ~Sends(r, a, s, left)
  <2>1. \A g \in r.groups : ~(g.alert = a /\ g.step + 1 = s)
    BY <1>0, <1>1, <1>4 DEF Sane
  <2>2. ~(left <= left - 1)
    BY <1>0, <1>a
  <2>. QED
    BY <1>4, <2>1, <2>2 DEF Sends
<1>8. s \in 0..ChainLength
  BY <1>0
<1>. HIDE DEF s, left
<1>. QED
  BY <1>1, <1>2, <1>3, <1>4, <1>5, <1>6, <1>7, <1>8, Added

LEMMA ThrowKeeps ==
  ASSUME AlertsAssumption, IInv, NEW w \in Workers, Throw(w)
  PROVE  IInv'
<1>1. /\ UNCHANGED <<alertState, dispatches, routed, routeActive, switches, peak, settled>>
      /\ faults' \in 0..MaxFaults
  BY Rest, Constants DEF Throw, History
<1>2. CASE w \in Crons /\ worker[w].pc = "fan"
  <2>. DEFINE r == AfterFan(w)
  <2>1. Become(w, r)
    BY <1>2 DEF Throw
  <2>. HIDE DEF r
  <2>2. /\ r \in WorkerType /\ Sane(r) /\ r.pc = "groups"
        /\ \A b \in Alerts : Escalates(r, b) => Escalates(worker[w], b)
        /\ \A b, u, c : Sends(r, b, u, c) => Sends(worker[w], b, u, c)
    <3>1. r = [worker[w] EXCEPT !.pc = "groups", !.left = 0, !.step = 0, !.alerts = {}]
      BY <1>2, Constants DEF AfterFan, r
    <3>2. worker[w] \in WorkerType
      BY Rest
    <3>3. r.pc = "groups"
      BY <3>1, <3>2 DEF WorkerType
    <3>. QED
      BY <1>2, <3>3, AfterFanFacts DEF r
  <2>. QED
    BY <1>1, <2>1, <2>2, FiringMoved
<1>3. CASE ~(w \in Crons /\ worker[w].pc = "fan")
  <2>1. Become(w, Idle) /\ Idle.groups = {} /\ Idle.pc = "idle"
    BY <1>3 DEF Throw, Idle
  <2>2. dispatches' \in DispatchType /\ SameChannels(dispatches, dispatches')
    BY <1>1, SameRows
  <2>. QED
    BY <1>1, <2>1, <2>2, IdleType, MovedOn
<1>. QED
  BY <1>2, <1>3

\* No handler moves.
LEMMA Elsewhere ==
  ASSUME AlertsAssumption, IInv, UNCHANGED <<worker, routed, peak, settled, faults>>,
         dispatches' \in DispatchType, SameChannels(dispatches, dispatches'),
         alertState' \in [Alerts -> States], \A a \in settled : alertState'[a] = alertState[a],
         routeActive' \in BOOLEAN, switches' \in 0..MaxSwitches
  PROVE  IInv'
<1>1. TypeOK'
  BY DEF TypeOK, DispatchType, IInv
<1>2. LocalsOK'
  BY DEF LocalsOK, IInv
<1>3. RoutedOK'
  <2>1. \A a \in routed, s \in 0..ChainLength : Len(dispatches'[a][s]) = Len(dispatches[a][s])
    BY DEF SameChannels, IInv, TypeOK
  <2>. QED
    BY <2>1 DEF RoutedOK, IInv
<1>4. SettledOK'
  BY DEF SettledOK, IInv
<1>5. RoomOK'
  <2>1. dispatches \in DispatchType /\ \A s \in 1..ChainLength : s \in 0..ChainLength
    BY TypeFacts, Constants DEF IInv
  <2>2. \A a \in Alerts, s \in 1..ChainLength, c \in 1..StepChannels :
          Used(dispatches', a, s, c) = Used(dispatches, a, s, c)
    BY <2>1, UsedSame
  <2>3. \A a \in Alerts : Room(dispatches, worker, peak, a)
    BY DEF IInv, RoomOK
  <2>4. \A a \in Alerts : Room(dispatches', worker, peak, a)
    BY <2>2, <2>3 DEF Room
  <2>. QED
    BY <2>4 DEF RoomOK
<1>. QED
  BY <1>1, <1>2, <1>3, <1>4, <1>5 DEF IInv

LEMMA SuppressKeeps ==
  ASSUME AlertsAssumption, IInv, NEW a \in Alerts, Suppress(a)
  PROVE  IInv'
<1>1. /\ UNCHANGED <<worker, dispatches, routed, routeActive, peak, settled, faults>>
      /\ alertState' = [alertState EXCEPT ![a] = "suppressed"] /\ alertState[a] = "open"
  BY DEF Suppress, History
<1>2. alertState' \in [Alerts -> States] /\ \A b \in settled : alertState'[b] = alertState[b]
  BY <1>1, Rest DEF States
<1>3. switches' \in 0..MaxSwitches
  BY Rest, Constants DEF Suppress
<1>4. dispatches' \in DispatchType /\ SameChannels(dispatches, dispatches')
  BY <1>1, SameRows
<1>. QED
  BY <1>1, <1>2, <1>3, <1>4, Rest, Elsewhere

LEMMA SwitchRouteKeeps ==
  ASSUME AlertsAssumption, IInv, SwitchRoute
  PROVE  IInv'
<1>1. UNCHANGED <<worker, dispatches, alertState, routed, peak, settled, faults>>
      /\ routeActive' \in BOOLEAN
  BY DEF SwitchRoute, History
<1>2. switches' \in 0..MaxSwitches
  BY Rest, Constants DEF SwitchRoute
<1>3. dispatches' \in DispatchType /\ SameChannels(dispatches, dispatches')
  BY <1>1, SameRows
<1>. QED
  BY <1>1, <1>2, <1>3, Rest, Elsewhere

LEMMA DueKeeps ==
  ASSUME AlertsAssumption, IInv, NEW a \in Alerts, NEW s \in 0..ChainLength, Due(a, s)
  PROVE  IInv'
<1>1. UNCHANGED <<worker, alertState, routed, routeActive, peak, settled, faults, switches>>
  BY DEF Due, History, Bounded
<1>2. dispatches' \in DispatchType /\ SameChannels(dispatches, dispatches')
  BY DueRewrites
<1>. QED
  BY <1>1, <1>2, Rest, Elsewhere

LEMMA CrashKeeps ==
  ASSUME AlertsAssumption, IInv, Crash
  PROVE  IInv'
<1>1. /\ UNCHANGED <<alertState, dispatches, routed, routeActive, switches, peak, settled>>
      /\ faults' \in 0..MaxFaults /\ worker' = [w \in Workers |-> Idle]
  BY Rest, Constants DEF Crash, History
<1>2. Idle.groups = {} /\ Idle.pc = "idle" /\ Idle \in WorkerType
  BY IdleType DEF Idle
<1>3. TypeOK'
  BY <1>1, <1>2 DEF IInv, TypeOK, WorkerType
<1>4. LocalsOK'
  BY <1>1, <1>2 DEF LocalsOK, Sane
<1>5. RoutedOK'
  BY <1>1 DEF RoutedOK, IInv
<1>6. SettledOK'
  BY <1>1, <1>2 DEF SettledOK, IInv
<1>7. RoomOK'
  <2>. SUFFICES ASSUME NEW a \in Alerts PROVE Room(dispatches, worker', peak, a)
    BY <1>1 DEF RoomOK
  <2>1. Room(dispatches, worker, peak, a) /\ peak[a] \in Nat
    BY Rest DEF IInv, RoomOK
  <2>2. /\ Escalators(worker', a) = {}
        /\ \A s, c : Senders(worker', a, s, c) = {}
    BY <1>1, <1>2 DEF Escalators, Senders, Escalates, Sends
  <2>3. \A s \in 1..ChainLength, c \in 1..StepChannels :
          Cardinality(Used(dispatches, a, s, c)) <= peak[a]
    <3>. TAKE s \in 1..ChainLength, c \in 1..StepChannels
    <3>1. s \in 0..ChainLength /\ dispatches \in DispatchType
      BY Constants, TypeFacts DEF IInv
    <3>2. Cardinality(Used(dispatches, a, s, c)) \in Nat
      BY <3>1, UsedFinite
    <3>3. Senders(worker, a, s, c) \in SUBSET Workers
      BY DEF Senders
    <3>4. Cardinality(Senders(worker, a, s, c)) \in Nat
      BY <3>3, Fewer
    <3>5. Cardinality(Used(dispatches, a, s, c)) + Cardinality(Senders(worker, a, s, c)) <= peak[a]
      BY <2>1 DEF Room
    <3>. QED
      BY <2>1, <3>2, <3>4, <3>5
  <2>4. \A s \in 1..ChainLength, c \in 1..StepChannels :
          Cardinality(Used(dispatches, a, s, c)) \in Nat
    BY Constants, UsedFinite, TypeFacts DEF IInv
  <2>5. Cardinality({}) = 0
    BY FS_EmptySet
  <2>6. Cardinality(Escalators(worker', a)) <= peak[a]
    BY <2>1, <2>2, <2>5
  <2>7. \A s \in 1..ChainLength, c \in 1..StepChannels :
          Cardinality(Used(dispatches, a, s, c)) + Cardinality(Senders(worker', a, s, c)) <= peak[a]
    BY <2>1, <2>2, <2>3, <2>4, <2>5
  <2>. QED
    BY <2>6, <2>7 DEF Room
<1>. QED
  BY <1>3, <1>4, <1>5, <1>6, <1>7 DEF IInv

-----------------------------------------------------------------------------
(* The invariant.                                                          *)

LEMMA Initial == ASSUME AlertsAssumption, Init PROVE IInv
<1>0. /\ StepChannels \in Nat /\ ChainLength \in Nat /\ MaxFaults \in Nat /\ MaxSwitches \in Nat
      /\ Idle.groups = {} /\ Idle.pc = "idle" /\ Idle \in WorkerType
  BY Constants, IdleType DEF Idle
<1>1. TypeOK
  <2>1. <<>> \in Seq(DispatchRow)
    OBVIOUS
  <2>2. worker \in [Workers -> WorkerType]
    BY <1>0 DEF Init
  <2>. QED
    BY <1>0, <2>1, <2>2 DEF Init, TypeOK, States, WorkerType
<1>2. LocalsOK /\ RoutedOK /\ SettledOK
  BY <1>0 DEF Init, LocalsOK, Sane, RoutedOK, SettledOK
<1>3. RoomOK
  <2>. SUFFICES ASSUME NEW a \in Alerts PROVE Room(dispatches, worker, peak, a)
    BY DEF RoomOK
  <2>1. /\ Escalators(worker, a) = {}
        /\ \A s, c : Senders(worker, a, s, c) = {}
    BY <1>0 DEF Init, Escalators, Senders, Escalates, Sends
  <2>2. ASSUME NEW s \in 1..ChainLength, NEW c PROVE Cardinality(Used(dispatches, a, s, c)) = 0
    <3>1. s \in 0..ChainLength /\ dispatches \in DispatchType
      BY <1>0, <1>1, TypeFacts
    <3>2. dispatches[a][s] = <<>>
      BY <3>1 DEF Init
    <3>. QED
      BY <3>1, <3>2, UsedFinite
  <2>3. peak[a] = 0
    BY DEF Init
  <2>. QED
    BY <2>1, <2>2, <2>3, FS_EmptySet DEF Room
<1>. QED
  BY <1>1, <1>2, <1>3 DEF IInv

LEMMA Preserved == ASSUME AlertsAssumption, IInv, [Next]_vars PROVE IInv'
<1>1. ASSUME NEW w \in Requests, Request(w) PROVE IInv'
  <2>0. w \in Workers
    BY DEF Workers
  <2>1. ASSUME NEW a \in Alerts, WriteAlert(w, a) PROVE IInv'
    BY <2>0, <2>1, WriteAlertKeeps
  <2>2. ASSUME NEW a \in Alerts, AckRead(w, a) PROVE IInv'
    BY <2>0, <2>2, AckReadKeeps
  <2>3. ASSUME NEW a \in Alerts, ResolveRead(w, a) PROVE IInv'
    BY <2>0, <2>3, ResolveReadKeeps
  <2>4. ASSUME NEW a \in Alerts, ForceEscalate(w, a) PROVE IInv'
    BY <2>0, <2>4, ForceKeeps
  <2>5. ASSUME NEW picked \in SUBSET Alerts, BulkRead(w, picked) PROVE IInv'
    BY <2>0, <2>5, BulkReadKeeps
  <2>. QED
    BY <1>1, <2>1, <2>2, <2>3, <2>4, <2>5 DEF Request
<1>2. ASSUME NEW w \in Crons, CronRead(w) PROVE IInv'
  BY <1>2, CronReadKeeps DEF Workers
<1>3. ASSUME NEW w \in Workers, Step(w) PROVE IInv'
  BY <1>3, RouteKeeps, FanOutKeeps, AckWriteKeeps, CascadeKeeps, BulkWriteKeeps,
     ResolveWriteKeeps, UnforceKeeps, CronRoutesKeeps, CronCountsKeeps, EscalateOneKeeps,
     ClearDueKeeps DEF Step
<1>4. ASSUME NEW w \in Workers, Throw(w) PROVE IInv'
  BY <1>4, ThrowKeeps
<1>5. ASSUME NEW a \in Alerts, NEW s \in 0..ChainLength, Due(a, s) PROVE IInv'
  BY <1>5, DueKeeps
<1>6. ASSUME NEW a \in Alerts, Suppress(a) PROVE IInv'
  BY <1>6, SuppressKeeps
<1>7. CASE SwitchRoute
  BY <1>7, SwitchRouteKeeps
<1>8. CASE Crash
  BY <1>8, CrashKeeps
<1>9. CASE UNCHANGED vars
  <2>1. UNCHANGED <<worker, dispatches, alertState, routed, routeActive, peak, settled,
                    faults, switches>>
    BY <1>9 DEF vars
  <2>2. dispatches' \in DispatchType /\ SameChannels(dispatches, dispatches')
    BY <2>1, SameRows
  <2>. QED
    BY <2>1, <2>2, Rest, Elsewhere
<1>. QED
  BY <1>1, <1>2, <1>3, <1>4, <1>5, <1>6, <1>7, <1>8, <1>9 DEF Next

\* The strengthened invariant holds in every reachable state.
THEOREM Invariance == ASSUME AlertsAssumption PROVE Spec => []IInv
<1>1. Init => IInv
  BY Initial
<1>2. IInv /\ [Next]_vars => IInv'
  BY Preserved
<1>. QED
  BY <1>1, <1>2, PTL DEF Spec

-----------------------------------------------------------------------------
(* What it shows.                                                          *)

\* Type correctness: alerts, dispatch rows and the locals of each handler.
THEOREM TypeCorrect == ASSUME AlertsAssumption PROVE Spec => []TypeOK
<1>1. IInv => TypeOK
  BY DEF IInv
<1>. QED
  BY <1>1, Invariance, PTL

\* A channel of a step is used at most once per escalation of the alert that
\* was under way at the same time (route.ts:155).
THEOREM Once == ASSUME AlertsAssumption PROVE Spec => []PagesWithinOverlap
<1>1. ASSUME IInv, NEW a \in Alerts, NEW s \in 1..ChainLength, NEW c \in 1..StepChannels
      PROVE  Cardinality(Used(dispatches, a, s, c)) <= peak[a]
  <2>1. s \in 0..ChainLength /\ dispatches \in DispatchType /\ peak[a] \in Nat
    BY <1>1, Constants, TypeFacts, Rest DEF IInv
  <2>2. Cardinality(Used(dispatches, a, s, c)) \in Nat
    BY <2>1, UsedFinite
  <2>3. Senders(worker, a, s, c) \in SUBSET Workers
    BY DEF Senders
  <2>4. Cardinality(Senders(worker, a, s, c)) \in Nat
    BY <2>3, Fewer
  <2>5. Cardinality(Used(dispatches, a, s, c)) + Cardinality(Senders(worker, a, s, c)) <= peak[a]
    BY <1>1 DEF IInv, RoomOK, Room
  <2>. QED
    BY <2>1, <2>2, <2>4, <2>5
<1>2. IInv => PagesWithinOverlap
  BY <1>1 DEF PagesWithinOverlap, Used
<1>. QED
  BY <1>2, Invariance, PTL

\* A resolved alert stays resolved, unless it was resolved under an
\* acknowledgement that had read it as open.
THEOREM Resolved == ASSUME AlertsAssumption PROVE Spec => []ResolveHolds
<1>1. IInv => ResolveHolds
  BY DEF IInv, SettledOK, ResolveHolds
<1>. QED
  BY <1>1, Invariance, PTL

\* A handler in state r is on its way to a notification about a.
Notifies(r, a) == Escalates(r, a) \/ (a \in r.alerts /\ r.pc \in {"route", "fan"})

\* Nobody is on the way to a notification about a, and its rows are as many.
Silent(a) ==
  /\ \A w \in Workers : ~Notifies(worker'[w], a)
  /\ \A s \in 0..ChainLength : Len(dispatches'[a][s]) = Len(dispatches[a][s])

LEMMA NobodyNotifies ==
  ASSUME NEW a \in Alerts
  PROVE  Notifying(a) = {} <=> \A w \in Workers : ~Notifies(worker[w], a)
<1>1. Notifying(a) = {w \in Workers : Notifies(worker[w], a)}
  BY DEF Notifying, Escalating, Notifies, Escalates
<1>. QED
  BY <1>1

LEMMA OneMoves ==
  ASSUME IInv, NEW a \in Alerts, \A w \in Workers : ~Notifies(worker[w], a),
         NEW w \in Workers, NEW r, Become(w, r), ~Notifies(r, a),
         \A s \in 0..ChainLength : Len(dispatches'[a][s]) = Len(dispatches[a][s])
  PROVE  Silent(a)
<1>1. worker'[w] = r /\ \A v \in Workers : v # w => worker'[v] = worker[v]
  BY Rest DEF Become
<1>2. ASSUME NEW v \in Workers PROVE ~Notifies(worker'[v], a)
  <2>1. CASE v = w
    BY <1>1, <2>1
  <2>2. CASE v # w
    BY <1>1, <2>2
  <2>. QED
    BY <2>1, <2>2
<1>. QED
  BY <1>2 DEF Silent

LEMMA RequestsAreSilent ==
  ASSUME AlertsAssumption, IInv, NEW a \in Alerts, alertState[a] \in {"ack", "resolved"},
         \A w \in Workers : ~Notifies(worker[w], a),
         NEW v \in Requests, Request(v)
  PROVE  Silent(a)
<1>0. v \in Workers
  BY DEF Workers
<1>1. UNCHANGED dispatches
  BY DEF Request, WriteAlert, AckRead, ResolveRead, ForceEscalate, BulkRead
<1>2. ASSUME NEW b \in Alerts, WriteAlert(v, b) PROVE Silent(a)
  <2>. DEFINE r == [Idle EXCEPT !.pc = "route", !.alerts = {b}]
  <2>1. Become(v, r) /\ b # a
    BY <1>2 DEF WriteAlert
  <2>2. ~Notifies(r, a)
    BY <2>1 DEF Notifies, Escalates, Idle
  <2>. QED
    BY <1>0, <1>1, <2>1, <2>2, OneMoves
<1>3. ASSUME NEW b \in Alerts, AckRead(v, b) PROVE Silent(a)
  <2>. DEFINE r == [Idle EXCEPT !.alerts = {b},
                                !.pc = IF alertState[b] = "open" THEN "ack" ELSE "cascade"]
  <2>1. Become(v, r)
    BY <1>3 DEF AckRead
  <2>2. ~Notifies(r, a)
    BY DEF Notifies, Escalates, Idle
  <2>. QED
    BY <1>0, <1>1, <2>1, <2>2, OneMoves
<1>4. ASSUME NEW b \in Alerts, ResolveRead(v, b) PROVE Silent(a)
  <2>. DEFINE r == [Idle EXCEPT !.pc = "resolve", !.alerts = {b}]
  <2>1. Become(v, r)
    BY <1>4 DEF ResolveRead
  <2>2. ~Notifies(r, a)
    BY DEF Notifies, Escalates, Idle
  <2>. QED
    BY <1>0, <1>1, <2>1, <2>2, OneMoves
<1>5. ASSUME NEW b \in Alerts, ForceEscalate(v, b) PROVE Silent(a)
  <2>1. b # a /\ \E s : Become(v, [Idle EXCEPT !.pc = "fan", !.alerts = {b}, !.step = s + 1,
                                               !.left = StepChannels])
    BY <1>5 DEF ForceEscalate, Unsettled
  <2>2. PICK s : Become(v, [Idle EXCEPT !.pc = "fan", !.alerts = {b}, !.step = s + 1,
                                        !.left = StepChannels])
    BY <2>1
  <2>. DEFINE r == [Idle EXCEPT !.pc = "fan", !.alerts = {b}, !.step = s + 1,
                                !.left = StepChannels]
  <2>3. ~Notifies(r, a)
    BY <2>1 DEF Notifies, Escalates, Idle
  <2>. QED
    BY <1>0, <1>1, <2>2, <2>3, OneMoves
<1>6. ASSUME NEW picked \in SUBSET Alerts, BulkRead(v, picked) PROVE Silent(a)
  <2>. DEFINE r == [Idle EXCEPT !.pc = "bulk",
                                !.alerts = {b \in picked : alertState[b] = "open"}]
  <2>1. Become(v, r)
    BY <1>6 DEF BulkRead
  <2>2. ~Notifies(r, a)
    BY DEF Notifies, Escalates, Idle
  <2>. QED
    BY <1>0, <1>1, <2>1, <2>2, OneMoves
<1>. QED
  BY <1>2, <1>3, <1>4, <1>5, <1>6 DEF Request

\* The rows of a fan-out or of dispatchAlert are those of the alerts it is about.
LEMMA OthersRows ==
  ASSUME IInv, NEW a \in Alerts, NEW b \in Alerts, b # a, NEW s, NEW c, NEW x, AddRow(b, s, c, x)
  PROVE  dispatches'[a] = dispatches[a]
BY TypeFacts DEF IInv, AddRow, DispatchType

LEMMA StepsAreSilent ==
  ASSUME AlertsAssumption, IInv, NEW a \in Alerts,
         \A w \in Workers : ~Notifies(worker[w], a),
         NEW w \in Workers, Step(w)
  PROVE  Silent(a)
<1>0. worker[w] \in WorkerType /\ ~Notifies(worker[w], a)
  BY Rest
<1>a. ~Notifies(Idle, a)
  BY DEF Notifies, Escalates, Idle
<1>b. \A b \in worker[w].alerts : b \in Alerts
  BY <1>0 DEF WorkerType
<1>1. CASE Route(w)
  <2>1. PICK b \in worker[w].alerts :
          \/ AddRow(b, 0, 0, "none") /\ Become(w, Idle)
          \/ /\ Become(w, [worker[w] EXCEPT !.pc = "fan", !.left = PrimaryChannels])
             /\ UNCHANGED dispatches
    BY <1>1 DEF Route
  <2>2. a \notin worker[w].alerts /\ b # a /\ b \in Alerts
    BY <1>0, <1>1, <1>b, <2>1 DEF Route, Notifies
  <2>3. CASE AddRow(b, 0, 0, "none") /\ Become(w, Idle)
    BY <1>a, <2>2, <2>3, OthersRows, OneMoves
  <2>4. CASE /\ Become(w, [worker[w] EXCEPT !.pc = "fan", !.left = PrimaryChannels])
             /\ UNCHANGED dispatches
    <3>. DEFINE r == [worker[w] EXCEPT !.pc = "fan", !.left = PrimaryChannels]
    <3>1. r.alerts = worker[w].alerts /\ r.groups = worker[w].groups
      BY <1>0 DEF WorkerType
    <3>. HIDE DEF r
    <3>2. ~Notifies(r, a)
      BY <1>0, <2>2, <3>1 DEF Notifies, Escalates
    <3>3. Become(w, r)
      BY <2>4 DEF r
    <3>. QED
      BY <2>4, <3>2, <3>3, OneMoves
  <2>. QED
    BY <2>1, <2>3, <2>4
<1>2. CASE FanOut(w)
  <2>. DEFINE more == [worker[w] EXCEPT !.left = worker[w].left - 1]
              r == IF worker[w].left > 1 THEN more ELSE AfterFan(w)
  <2>1. PICK b \in worker[w].alerts : AddRow(b, worker[w].step, worker[w].left, EscalateAt(worker[w].step))
    BY <1>2 DEF FanOut
  <2>2. a \notin worker[w].alerts /\ b # a /\ b \in Alerts /\ worker[w].pc = "fan"
    BY <1>0, <1>2, <1>b, <2>1 DEF FanOut, Notifies
  <2>3. ~Notifies(more, a)
    <3>1. more.alerts = worker[w].alerts /\ more.groups = worker[w].groups
      BY <1>0 DEF WorkerType
    <3>. HIDE DEF more
    <3>. QED
      BY <1>0, <2>2, <3>1 DEF Notifies, Escalates
  <2>4. ~Notifies(AfterFan(w), a)
    <3>. DEFINE y == AfterFan(w)
    <3>1. y.pc \in {"groups", "unforce", "idle"} /\ (Escalates(y, a) => Escalates(worker[w], a))
      BY <2>2, AfterFanFacts
    <3>. HIDE DEF y
    <3>2. ~Notifies(y, a)
      BY <1>0, <3>1 DEF Notifies
    <3>. QED
      BY <3>2 DEF y
  <2>5. Become(w, r) /\ ~Notifies(r, a)
    BY <1>2, <2>3, <2>4 DEF FanOut
  <2>. HIDE DEF r
  <2>. QED
    BY <2>1, <2>2, <2>5, OthersRows, OneMoves
<1>3. CASE AckWrite(w)
  <2>. DEFINE r == [worker[w] EXCEPT !.pc = "cascade"]
  <2>1. r.groups = worker[w].groups /\ r.pc = "cascade"
    BY <1>0 DEF WorkerType
  <2>2. Become(w, r) /\ UNCHANGED dispatches
    BY <1>3 DEF AckWrite
  <2>. HIDE DEF r
  <2>3. ~Notifies(r, a)
    BY <1>0, <2>1 DEF Notifies, Escalates
  <2>. QED
    BY <2>2, <2>3, OneMoves
<1>4. CASE BulkWrite(w)
  <2>1. PICK b \in worker[w].alerts :
          Become(w, IF worker[w].alerts = {b} THEN Idle
                    ELSE [worker[w] EXCEPT !.alerts = @ \ {b}])
    BY <1>4 DEF BulkWrite
  <2>. DEFINE y == [worker[w] EXCEPT !.alerts = @ \ {b}]
              r == IF worker[w].alerts = {b} THEN Idle ELSE y
  <2>2. y.groups = worker[w].groups /\ y.pc = worker[w].pc /\ worker[w].pc = "bulk"
    BY <1>0, <1>4 DEF WorkerType, BulkWrite
  <2>3. Become(w, r) /\ UNCHANGED dispatches
    BY <1>4, <2>1 DEF BulkWrite
  <2>4. ~Notifies(y, a)
    <3>. HIDE DEF y
    <3>. QED
      BY <1>0, <2>2 DEF Notifies, Escalates
  <2>5. ~Notifies(r, a)
    <3>. HIDE DEF y
    <3>. QED
      BY <1>a, <2>4
  <2>. HIDE DEF r
  <2>. QED
    BY <2>3, <2>5, OneMoves
<1>5. CASE ResolveWrite(w)
  BY <1>5, <1>a, OneMoves DEF ResolveWrite
<1>6. CASE CronCounts(w)
  <2>. DEFINE chosen == {g \in worker[w].groups : /\ g.step < ChainLength
                                                  /\ dispatches[g.alert][g.step + 1] = <<>>}
              r == [worker[w] EXCEPT !.pc = "groups", !.groups = chosen]
  <2>1. r.groups \subseteq worker[w].groups /\ r.pc = "groups"
    BY <1>0 DEF WorkerType
  <2>2. Become(w, r) /\ UNCHANGED dispatches
    BY <1>6 DEF CronCounts
  <2>. HIDE DEF r
  <2>3. ~Notifies(r, a)
    BY <1>0, <2>1 DEF Notifies, Escalates
  <2>. QED
    BY <2>2, <2>3, OneMoves
<1>7. CASE EscalateOne(w)
  <2>1. PICK g \in worker[w].groups :
          Become(w, [worker[w] EXCEPT !.pc = "fan", !.alerts = {g.alert},
                       !.step = g.step + 1, !.left = StepChannels, !.groups = @ \ {g}])
    BY <1>7 DEF EscalateOne
  <2>. DEFINE r == [worker[w] EXCEPT !.pc = "fan", !.alerts = {g.alert},
                       !.step = g.step + 1, !.left = StepChannels, !.groups = @ \ {g}]
  <2>2. r.groups \subseteq worker[w].groups /\ r.alerts = {g.alert} /\ g.alert # a
    BY <1>0, <2>1 DEF WorkerType, Notifies, Escalates
  <2>3. Become(w, r) /\ UNCHANGED dispatches
    BY <1>7, <2>1 DEF EscalateOne
  <2>. HIDE DEF r
  <2>4. ~Notifies(r, a)
    BY <1>0, <2>2 DEF Notifies, Escalates
  <2>. QED
    BY <2>3, <2>4, OneMoves
<1>8. CASE Cascade(w) \/ Unforce(w) \/ ClearDue(w)
  <2>1. Become(w, Idle)
    BY <1>8 DEF Cascade, Unforce, ClearDue
  <2>2. SameChannels(dispatches, dispatches')
    BY <1>8, CascadeRewrites, UnforceRewrites, ClearDueRewrites
  <2>. QED
    BY <1>a, <2>1, <2>2, OneMoves DEF SameChannels
<1>9. CASE CronRoutes(w)
  <2>. DEFINE r == [worker[w] EXCEPT !.pc = "counts", !.groups = {g \in @ : routeActive}]
  <2>1. r.groups \subseteq worker[w].groups /\ r.pc = "counts"
    BY <1>0 DEF WorkerType
  <2>2. Become(w, r) /\ UNCHANGED dispatches
    BY <1>9 DEF CronRoutes
  <2>. HIDE DEF r
  <2>3. ~Notifies(r, a)
    BY <1>0, <2>1 DEF Notifies, Escalates
  <2>. QED
    BY <2>2, <2>3, OneMoves
<1>. QED
  BY <1>1, <1>2, <1>3, <1>4, <1>5, <1>6, <1>7, <1>8, <1>9 DEF Step

\* An alert that is acknowledged or resolved, with nobody on the way to a
\* notification about it, gets none ever after.
THEOREM Quietness == ASSUME AlertsAssumption PROVE Spec => ClosedIsSilent
<1>1. IInv /\ [Next]_vars =>
        [\A a \in Alerts :
           alertState[a] \in {"ack", "resolved"} /\ Notifying(a) = {} =>
             /\ Notifying(a)' = {}
             /\ \A s \in 0..ChainLength : Len(dispatches'[a][s]) = Len(dispatches[a][s])]_vars
  <2>. SUFFICES ASSUME IInv, Next, NEW a \in Alerts, alertState[a] \in {"ack", "resolved"},
                       \A w \in Workers : ~Notifies(worker[w], a)
                PROVE  Silent(a)
    <3>1. \A a \in Alerts : Notifying(a)' = {w \in Workers : Notifies(worker'[w], a)}
      BY DEF Notifies, Escalates, Notifying, Escalating
    <3>2. \A a \in Alerts : Silent(a) =>
            /\ Notifying(a)' = {}
            /\ \A s \in 0..ChainLength : Len(dispatches'[a][s]) = Len(dispatches[a][s])
      BY <3>1 DEF Silent
    <3>. QED
      BY <3>2, NobodyNotifies
  <2>1. ASSUME NEW w \in Requests, Request(w) PROVE Silent(a)
    BY <2>1, RequestsAreSilent
  <2>2. ASSUME NEW w \in Crons, CronRead(w) PROVE Silent(a)
    <3>. DEFINE r == [Idle EXCEPT !.pc = "routes", !.due = DueRows,
                                  !.groups = {Group(x) : x \in DueRows}]
    <3>1. Become(w, r) /\ UNCHANGED dispatches /\ w \in Workers
      BY <2>2 DEF CronRead, Workers
    <3>2. r.pc = "routes" /\ r.groups = {Group(x) : x \in DueRows}
      BY DEF Idle
    <3>. HIDE DEF r
    <3>3. \A x \in DueRows : x.alert # a
      <4>1. alertState[a] \notin Unsettled
        BY DEF Unsettled
      <4>2. ASSUME NEW x \in DueRows PROVE alertState[x.alert] \in Unsettled
        BY <4>2 DEF DueRows, RowsAt
      <4>. QED
        BY <4>1, <4>2
    <3>4. ~Notifies(r, a)
      BY <3>2, <3>3 DEF Notifies, Escalates, Group
    <3>. QED
      BY <3>1, <3>4, OneMoves
  <2>3. ASSUME NEW w \in Workers, Step(w) PROVE Silent(a)
    BY <2>3, StepsAreSilent
  <2>4. ~Notifies(Idle, a)
    BY DEF Notifies, Escalates, Idle
  <2>5. ASSUME NEW w \in Workers, Throw(w) PROVE Silent(a)
    <3>1. CASE w \in Crons /\ worker[w].pc = "fan"
      <4>. DEFINE r == AfterFan(w)
      <4>1. Become(w, r) /\ UNCHANGED dispatches
        BY <2>5, <3>1 DEF Throw
      <4>2. r.pc \in {"groups", "unforce", "idle"} /\ (Escalates(r, a) => Escalates(worker[w], a))
        BY <3>1, AfterFanFacts
      <4>. HIDE DEF r
      <4>3. ~Notifies(r, a)
        BY <4>2 DEF Notifies
      <4>. QED
        BY <4>1, <4>3, OneMoves
    <3>2. CASE ~(w \in Crons /\ worker[w].pc = "fan")
      <4>1. Become(w, Idle) /\ UNCHANGED dispatches
        BY <2>5, <3>2 DEF Throw
      <4>. QED
        BY <2>4, <4>1, OneMoves
    <3>. QED
      BY <3>1, <3>2
  <2>6. ASSUME NEW b \in Alerts, NEW s \in 0..ChainLength, Due(b, s) PROVE Silent(a)
    <3>1. SameChannels(dispatches, dispatches')
      BY <2>6, DueRewrites
    <3>2. UNCHANGED worker
      BY <2>6 DEF Due
    <3>. QED
      BY <3>1, <3>2 DEF Silent, SameChannels
  <2>7. CASE (\E b \in Alerts : Suppress(b)) \/ SwitchRoute
    BY <2>7 DEF Suppress, SwitchRoute, Silent
  <2>8. CASE Crash
    BY <2>4, <2>8 DEF Crash, Silent
  <2>. QED
    BY <2>1, <2>2, <2>3, <2>5, <2>6, <2>7, <2>8 DEF Next
<1>. QED
  BY <1>1, Invariance, PTL DEF Spec, ClosedIsSilent
=============================================================================
