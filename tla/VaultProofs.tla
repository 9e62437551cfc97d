----------------------------- MODULE VaultProofs -----------------------------
(***************************************************************************)
(* Proofs about the credential vault, for any number of requests,          *)
(* credentials, key versions and faults: the safety properties of          *)
(* Vault.tla.                                                              *)
(***************************************************************************)
EXTENDS Vault, TLAPS

(* The inductive invariant.                                                *)

WorkerType == [pc : Steps, op : {"none", "seal", "unseal", "replace", "rotate"},
               old : Creds \union {NoCred},
               kek : 0..MaxVersion, loaded : 0..MaxVersion,
               from : 0..MaxVersion, to : 0..MaxVersion,
               batch : SUBSET Creds]

\* n is the newest version, the active one, and all before it are retired.
NewestIs(n) ==
  /\ key[n] = "active"
  /\ \A u \in Versions : /\ u < n => key[u] = "retired"
                         /\ u > n => key[u] = "none"

KeysOK == \E n \in Versions : NewestIs(n)

\* The version a request is going to create follows one that exists.
CreateOK ==
  \A w \in Workers : worker[w].pc = "create" =>
    /\ worker[w].to \in Versions
    /\ worker[w].to - 1 \in Versions
    /\ key[worker[w].to - 1] # "none"

\* A rotation from its check to its end, the part that follows the creation of
\* its version, and the part that follows its record.
Rotating == {"prior", "newest", "create", "drop", "record", "batch", "row", "done"}
Created == {"drop", "record", "batch", "row", "done"}
Rewrapping == {"batch", "row", "done"}

\* Versions that are cached, read or used are versions that exist.
LocalsOK ==
  /\ cache # 0 => key[cache] # "none"
  /\ \A w \in Workers :
    /\ worker[w].loaded # 0 => key[worker[w].loaded] # "none"
    /\ worker[w].kek # 0 => key[worker[w].kek] # "none"
    /\ worker[w].pc = "write" => worker[w].kek # 0
    /\ worker[w].pc \in Created =>
         worker[w].to \in Versions /\ key[worker[w].to] # "none"

\* A live credential is under a version that exists.
SealedOK ==
  \A c \in Creds : Live(c) =>
    cred[c].version \in Versions /\ key[cred[c].version] # "none"

\* As long as no two rotations have passed the check together there is one at
\* a time, its versions are the newest two, and its row keeps others out.
RotationOK ==
  ~overlapped =>
    /\ \A v, w \in Workers : worker[v].pc \in Rotating /\ worker[w].pc \in Rotating => v = w
    /\ \A w \in Workers :
         /\ worker[w].pc \in Rewrapping => rotation[worker[w].to].state = "in-progress"
         /\ worker[w].pc \in {"newest", "create"} =>
              worker[w].from \in Versions /\ key[worker[w].from] = "active"
         /\ worker[w].pc = "create" => worker[w].to = worker[w].from + 1
         /\ worker[w].pc \in Created =>
              worker[w].to \in Versions /\ key[worker[w].to] = "active"

IInv ==
  /\ TypeOK
  /\ KeysOK
  /\ CreateOK
  /\ LocalsOK
  /\ SealedOK
  /\ RotationOK
  /\ NothingStranded
  /\ CacheFollowsRotation

-----------------------------------------------------------------------------
(* Keys and what a step makes of a request.                                *)

LEMMA Becoming ==
  ASSUME TypeOK, NEW w \in Workers, NEW rec, Become(w, rec)
  PROVE  \A v \in Workers : worker'[v] = IF v = w THEN rec ELSE worker[v]
  BY DEF TypeOK, Become

LEMMA IdleIs ==
  ASSUME VaultAssumption
  PROVE  /\ Idle \in WorkerType
         /\ Idle.pc = "idle" /\ Idle.loaded = 0 /\ Idle.kek = 0
         /\ Idle.from = 0 /\ Idle.to = 0
         /\ \A p \in Steps, o \in {"none", "seal", "unseal", "replace", "rotate"} :
              LET i == [Idle EXCEPT !.pc = p, !.op = o] IN
                i \in WorkerType /\ i.pc = p /\ i.loaded = 0 /\ i.kek = 0
<1>1. 0 \in 0..MaxVersion
  BY DEF VaultAssumption
<1>2. Idle \in WorkerType
  BY <1>1 DEF Idle, WorkerType, Steps
<1>3. /\ Idle.pc = "idle" /\ Idle.loaded = 0 /\ Idle.kek = 0
      /\ Idle.from = 0 /\ Idle.to = 0
  BY DEF Idle
<1>4. \A p \in Steps, o \in {"none", "seal", "unseal", "replace", "rotate"} :
        [Idle EXCEPT !.pc = p, !.op = o] \in WorkerType
  BY <1>2 DEF WorkerType
<1>5. \A p \in Steps, o \in {"none", "seal", "unseal", "replace", "rotate"} :
        LET i == [Idle EXCEPT !.pc = p, !.op = o] IN
          i.pc = p /\ i.loaded = 0 /\ i.kek = 0
  BY DEF Idle
<1>. QED
  BY <1>2, <1>3, <1>4, <1>5, ZenonT(60)

\* With KeysOK the two CHOOSEs have the one answer.
LEMMA TheNewest ==
  ASSUME VaultAssumption, NEW n \in Versions, NewestIs(n)
  PROVE  ActiveVersion = n /\ Newest = n
<1>1. n \in Nat /\ Versions \subseteq Nat
  BY DEF Versions, VaultAssumption
<1>2. \A u \in Versions : u < n \/ u = n \/ u > n
  BY <1>1
<1>3. \A u \in Versions : key[u] = "active" => u = n
  BY <1>2 DEF NewestIs
<1>4. \A u \in Versions : key[u] # "none" => u <= n
  BY <1>1, <1>2 DEF NewestIs
<1>5. key[n] = "active"
  BY DEF NewestIs
<1>6. ActiveVersion = n
  <2>1. \A v \in Versions :
          (key[v] = "active" /\ \A u \in Versions : key[u] = "active" => u <= v) <=> v = n
    BY <1>1, <1>3, <1>5
  <2>. QED
    BY <2>1 DEF ActiveVersion
<1>7. Newest = n
  <2>1. \A v \in Versions :
          (key[v] # "none" /\ \A u \in Versions : key[u] # "none" => u <= v) <=> v = n
    BY <1>1, <1>2, <1>4, <1>5
  <2>. QED
    BY <2>1 DEF Newest
<1>. QED
  BY <1>6, <1>7

LEMMA VersionsExist ==
  ASSUME VaultAssumption, KeysOK
  PROVE  /\ ActiveVersion \in Versions /\ key[ActiveVersion] = "active"
         /\ Newest \in Versions /\ key[Newest] = "active" /\ Newest = ActiveVersion
         /\ Versions \subseteq 1..MaxVersion /\ Versions \subseteq 0..MaxVersion
<1>1. PICK n \in Versions : NewestIs(n)
  BY DEF KeysOK
<1>. QED
  BY <1>1, TheNewest DEF NewestIs, Versions, VaultAssumption

-----------------------------------------------------------------------------
LEMMA Initially == VaultAssumption /\ Init => IInv
<1> SUFFICES ASSUME VaultAssumption, Init PROVE IInv
  OBVIOUS
<1>a. 1 \in Versions /\ MaxVersion \in Nat
  BY DEF Versions, VaultAssumption
<1>b. \A w \in Workers : worker[w] = Idle
  BY DEF Init
<1>1. TypeOK
  <2>1. worker \in [Workers -> WorkerType]
    BY IdleIs DEF Init
  <2>2. key \in [Versions -> {"none", "active", "retired"}]
    BY DEF Init
  <2>3. cred \in [Creds -> [state : {"absent", "live", "replaced"}, version : 0..MaxVersion]]
    BY <1>a DEF Init, Absent
  <2>4. rotation \in [Versions -> [from : 0..MaxVersion,
                                state : {"none", "in-progress", "done", "failed"}]]
    BY <1>a DEF Init
  <2>5. cache \in 0..MaxVersion /\ faults \in 0..MaxFaults
    BY DEF Init, VaultAssumption
  <2>6. missed \subseteq Creds /\ abandoned \subseteq 0..MaxVersion
    BY DEF Init
  <2>7. overlapped \in BOOLEAN /\ stale \in BOOLEAN
    BY DEF Init
  <2>. QED
    BY <2>1, <2>2, <2>3, <2>4, <2>5, <2>6, <2>7 DEF TypeOK, WorkerType
<1>2. KeysOK
  <2>1. NewestIs(1)
    BY <1>a DEF Init, NewestIs, Versions
  <2>. QED
    BY <2>1, <1>a DEF KeysOK
<1>3. CreateOK /\ LocalsOK /\ RotationOK
  BY <1>b, IdleIs DEF Init, CreateOK, LocalsOK, RotationOK, Rotating, Created, Rewrapping
<1>4. SealedOK /\ NothingStranded /\ CacheFollowsRotation
  BY DEF Init, SealedOK, NothingStranded, CacheFollowsRotation, Live, Absent
<1>. QED
  BY <1>1, <1>2, <1>3, <1>4 DEF IInv

LEMMA TypeStep ==
  ASSUME VaultAssumption, TypeOK, KeysOK, CreateOK, LocalsOK, [Next]_vars
  PROVE  TypeOK'
<1>a. /\ worker \in [Workers -> WorkerType]
      /\ \A w \in Workers : worker[w] \in WorkerType
  BY DEF TypeOK, WorkerType
<1>b. ASSUME NEW w \in Workers, NEW rec \in WorkerType, Become(w, rec)
      PROVE  worker' \in [Workers -> WorkerType]
  BY <1>a, <1>b DEF Become
<1>c. /\ MaxVersion \in Nat /\ MaxFaults \in Nat /\ 0 \in 0..MaxVersion
      /\ Versions \subseteq 0..MaxVersion
      /\ ActiveVersion \in 0..MaxVersion /\ Newest \in Versions
  BY VersionsExist DEF VaultAssumption, TypeOK
<1>h. ASSUME UNCHANGED History PROVE
        missed' = missed /\ abandoned' = abandoned /\ overlapped' = overlapped /\ stale' = stale
  BY <1>h DEF History
<1>d. ASSUME UNCHANGED Database PROVE key' = key /\ cred' = cred /\ rotation' = rotation
  BY <1>d DEF Database
<1>1. ASSUME NEW w \in Workers, Seal(w) PROVE TypeOK'
  <2>1. worker' \in [Workers -> WorkerType]
    BY <1>1, <1>b, IdleIs DEF Seal, Steps
  <2>. QED
    BY <1>1, <2>1, <1>h, <1>d DEF Seal, TypeOK, WorkerType
<1>2. ASSUME NEW w \in Workers, NEW c \in Creds, Unseal(w, c) PROVE TypeOK'
  <2>1. [Idle EXCEPT !.pc = "derive", !.op = "unseal", !.kek = cred[c].version] \in WorkerType
    <3>1. Idle \in WorkerType /\ cred[c].version \in 0..MaxVersion
      BY IdleIs DEF TypeOK
    <3>. QED
      BY <3>1 DEF WorkerType, Steps
  <2>2. worker' \in [Workers -> WorkerType]
    BY <1>2, <1>b, <2>1 DEF Unseal
  <2>. QED
    BY <1>2, <2>2, <1>h, <1>d DEF Unseal, TypeOK, WorkerType
<1>3. ASSUME NEW w \in Workers, NEW c \in Creds, ReplaceRead(w, c) PROVE TypeOK'
  <2>1. [Idle EXCEPT !.pc = "key", !.op = "replace", !.old = c] \in WorkerType
    <3>1. Idle \in WorkerType
      BY IdleIs
    <3>. QED
      BY <3>1 DEF WorkerType, Steps
  <2>2. worker' \in [Workers -> WorkerType]
    BY <1>3, <1>b, <2>1 DEF ReplaceRead
  <2>. QED
    BY <1>3, <2>2, <1>h, <1>d DEF ReplaceRead, TypeOK, WorkerType
<1>4. ASSUME NEW w \in Workers, ReadActiveKey(w) PROVE TypeOK'
  <2>1. [worker[w] EXCEPT !.loaded = ActiveVersion] \in WorkerType
    BY <1>a, <1>c DEF WorkerType
  <2>2. worker' \in [Workers -> WorkerType]
    BY <1>4, <1>b, <2>1 DEF ReadActiveKey
  <2>. QED
    BY <1>4, <2>2, <1>h, <1>d DEF ReadActiveKey, TypeOK, WorkerType
<1>5. ASSUME NEW w \in Workers, UseKey(w) PROVE TypeOK'
  <2>. DEFINE v == IF worker[w].loaded # 0 THEN worker[w].loaded ELSE cache
  <2>1. v \in 0..MaxVersion
    BY <1>a DEF TypeOK, WorkerType
  <2>2. [worker[w] EXCEPT !.pc = "derive", !.kek = v, !.loaded = 0] \in WorkerType
    BY <1>a, <1>c, <2>1, ZenonT(60) DEF WorkerType, Steps
  <2>3. [worker[w] EXCEPT !.pc = "write", !.loaded = 0] \in WorkerType
    BY <1>a, <1>c, ZenonT(60) DEF WorkerType, Steps
  <2>4. worker' \in [Workers -> WorkerType]
    BY <1>5, <1>b, <2>2, <2>3, IdleIs DEF UseKey
  <2>5. cache' \in 0..MaxVersion /\ stale' \in BOOLEAN
    BY <1>5, <2>1 DEF UseKey, TypeOK
  <2>. QED
    BY <1>5, <2>4, <2>5, <1>d DEF UseKey, TypeOK, WorkerType
<1>6. ASSUME NEW w \in Workers, Write(w) PROVE TypeOK'
  <2>1. worker[w].kek \in 0..MaxVersion
    BY <1>a DEF WorkerType
  <2>2. cred' \in [Creds -> [state : {"absent", "live", "replaced"}, version : 0..MaxVersion]]
    BY <1>6, <2>1 DEF Write, TypeOK
  <2>3. missed' \subseteq Creds
    BY <1>6 DEF Write, TypeOK
  <2>4. worker' \in [Workers -> WorkerType]
    BY <1>6, <1>b, IdleIs DEF Write
  <2>. QED
    BY <1>6, <2>2, <2>3, <2>4 DEF Write, TypeOK, WorkerType
<1>7. ASSUME NEW c \in Creds, Delete(c) PROVE TypeOK'
  BY <1>7, <1>h DEF Delete, TypeOK
<1>8. ASSUME NEW w \in Workers, RotateKey(w) PROVE TypeOK'
  <2>1. worker' \in [Workers -> WorkerType]
    BY <1>8, <1>b, IdleIs DEF RotateKey, Steps
  <2>2. overlapped' \in BOOLEAN
    BY <1>8 DEF RotateKey, TypeOK
  <2>. QED
    BY <1>8, <2>1, <2>2, <1>d DEF RotateKey, TypeOK, WorkerType
<1>9. ASSUME NEW w \in Workers, ReadPrior(w) PROVE TypeOK'
  <2>1. [worker[w] EXCEPT !.pc = "newest", !.from = ActiveVersion] \in WorkerType
    BY <1>a, <1>c, ZenonT(60) DEF WorkerType, Steps
  <2>2. worker' \in [Workers -> WorkerType]
    BY <1>9, <1>b, <2>1 DEF ReadPrior
  <2>. QED
    BY <1>9, <2>2, <1>h, <1>d DEF ReadPrior, TypeOK, WorkerType
<1>10. ASSUME NEW w \in Workers, ReadNewest(w) PROVE TypeOK'
  <2>0. Newest + 1 \in 0..MaxVersion
    BY <1>10, <1>c DEF ReadNewest, Versions
  <2>1. [worker[w] EXCEPT !.pc = "create", !.to = Newest + 1] \in WorkerType
    BY <1>a, <2>0, ZenonT(60) DEF WorkerType, Steps
  <2>2. worker' \in [Workers -> WorkerType]
    BY <1>10, <1>b, <2>1 DEF ReadNewest
  <2>. QED
    BY <1>10, <2>2, <1>h, <1>d DEF ReadNewest, TypeOK, WorkerType
<1>11. ASSUME NEW w \in Workers, CreateKey(w) PROVE TypeOK'
  <2>1. [worker[w] EXCEPT !.pc = "drop"] \in WorkerType
    BY <1>a DEF WorkerType, Steps
  <2>2. worker' \in [Workers -> WorkerType]
    BY <1>11, <1>b, <2>1, IdleIs DEF CreateKey
  <2>3. key' \in [Versions -> {"none", "active", "retired"}]
    BY <1>11 DEF CreateKey, TypeOK
  <2>. QED
    BY <1>11, <2>2, <2>3, <1>h DEF CreateKey, TypeOK, WorkerType
<1>12. ASSUME NEW w \in Workers, DropCache(w) PROVE TypeOK'
  <2>1. [worker[w] EXCEPT !.pc = "record"] \in WorkerType
    BY <1>a DEF WorkerType, Steps
  <2>2. worker' \in [Workers -> WorkerType]
    BY <1>12, <1>b, <2>1 DEF DropCache
  <2>. QED
    BY <1>12, <2>2, <1>c, <1>d DEF DropCache, TypeOK, WorkerType
<1>13. ASSUME NEW w \in Workers, RecordRotation(w) PROVE TypeOK'
  <2>1. [worker[w] EXCEPT !.pc = "batch"] \in WorkerType
    BY <1>a DEF WorkerType, Steps
  <2>2. worker' \in [Workers -> WorkerType]
    BY <1>13, <1>b, <2>1 DEF RecordRotation
  <2>3. [from |-> worker[w].from, state |-> "in-progress"] \in
          [from : 0..MaxVersion, state : {"none", "in-progress", "done", "failed"}]
    BY <1>a DEF WorkerType
  <2>4. rotation' \in [Versions -> [from : 0..MaxVersion,
                                   state : {"none", "in-progress", "done", "failed"}]]
    BY <1>13, <2>3 DEF RecordRotation, TypeOK
  <2>. QED
    BY <1>13, <2>2, <2>4, <1>h DEF RecordRotation, TypeOK, WorkerType
<1>14. ASSUME NEW w \in Workers, RewrapBatch(w) PROVE TypeOK'
  <2>1. [worker[w] EXCEPT !.pc = "done"] \in WorkerType
    BY <1>a DEF WorkerType, Steps
  <2>2. \A batch \in SUBSET Creds :
          [worker[w] EXCEPT !.pc = "row", !.batch = batch] \in WorkerType
    BY <1>a, ZenonT(60) DEF WorkerType, Steps
  <2>3. worker' \in [Workers -> WorkerType]
    BY <1>14, <1>b, <2>1, <2>2 DEF RewrapBatch
  <2>. QED
    BY <1>14, <2>3, <1>h, <1>d DEF RewrapBatch, TypeOK, WorkerType
<1>15. ASSUME NEW w \in Workers, RewrapRow(w) PROVE TypeOK'
  <2>1. \A c \in Creds, p \in {"batch", "row"} :
          [worker[w] EXCEPT !.batch = @ \ {c}, !.pc = p] \in WorkerType
    BY <1>a, ZenonT(60) DEF WorkerType, Steps
  <2>2. worker[w].batch \subseteq Creds /\ worker[w].to \in 0..MaxVersion
    BY <1>a DEF WorkerType
  <2>3. worker' \in [Workers -> WorkerType]
    BY <1>15, <1>b, <2>1, <2>2 DEF RewrapRow
  <2>4. cred' \in [Creds -> [state : {"absent", "live", "replaced"}, version : 0..MaxVersion]]
    BY <1>15, <2>2 DEF RewrapRow, TypeOK
  <2>. QED
    BY <1>15, <2>3, <2>4, <1>h DEF RewrapRow, TypeOK, WorkerType
<1>r. \A t \in 0..MaxVersion, x \in {"done", "failed"} :
        [rotation EXCEPT ![t].state = x] \in
          [Versions -> [from : 0..MaxVersion, state : {"none", "in-progress", "done", "failed"}]]
  <2>. TAKE t \in 0..MaxVersion, x \in {"done", "failed"}
  <2>. DEFINE R == [from : 0..MaxVersion, state : {"none", "in-progress", "done", "failed"}]
              q == [rotation EXCEPT ![t].state = x]
  <2>1. rotation \in [Versions -> R]
    BY DEF TypeOK
  <2>2. \A v \in Versions : q[v] \in R
    <3>. TAKE v \in Versions
    <3>1. rotation[v] \in R
      BY <2>1
    <3>2. [rotation[v] EXCEPT !.state = x] \in R
      BY <3>1
    <3>3. q[v] = IF v = t THEN [rotation[v] EXCEPT !.state = x] ELSE rotation[v]
      BY <2>1
    <3>. HIDE DEF q, R
    <3>. QED
      BY <3>1, <3>2, <3>3
  <2>3. q = [v \in Versions |-> q[v]]
    BY <2>1
  <2>. HIDE DEF q, R
  <2>4. q \in [Versions -> R]
    BY <2>2, <2>3
  <2>. QED
    BY <2>4 DEF q, R
<1>16. ASSUME NEW w \in Workers, RotationDone(w) PROVE TypeOK'
  <2>1. worker' \in [Workers -> WorkerType]
    BY <1>16, <1>b, IdleIs DEF RotationDone
  <2>2. worker[w].to \in 0..MaxVersion
    BY <1>a DEF WorkerType
  <2>. QED
    BY <1>16, <2>1, <2>2, <1>r, <1>h DEF RotationDone, TypeOK, WorkerType
<1>q. \A W \in SUBSET Workers : CutShort(W) \subseteq 0..MaxVersion
  BY <1>a DEF CutShort, WorkerType
<1>17. ASSUME NEW w \in Workers, Throw(w) PROVE TypeOK'
  <2>1. worker' \in [Workers -> WorkerType]
    BY <1>17, <1>b, IdleIs DEF Throw
  <2>2. worker[w].to \in 0..MaxVersion
    BY <1>a DEF WorkerType
  <2>3. rotation' \in [Versions -> [from : 0..MaxVersion,
                                   state : {"none", "in-progress", "done", "failed"}]]
    BY <1>17, <2>2, <1>r, SMTT(30) DEF Throw, TypeOK
  <2>4. abandoned' \subseteq 0..MaxVersion /\ stale' \in BOOLEAN /\ faults' \in 0..MaxFaults
    BY <1>17, <1>q, <1>c DEF Throw, TypeOK
  <2>. QED
    BY <1>17, <2>1, <2>3, <2>4 DEF Throw, TypeOK, WorkerType
<1>18. CASE Crash
  <2>1. worker' \in [Workers -> WorkerType]
    BY <1>18, IdleIs DEF Crash
  <2>2. abandoned' \subseteq 0..MaxVersion
    <3>1. CutShort(Workers) \subseteq 0..MaxVersion
      BY <1>q
    <3>. QED
      BY <1>18, <3>1 DEF Crash, TypeOK
  <2>3. faults' \in 0..MaxFaults
    BY <1>18, <1>c DEF Crash, TypeOK
  <2>. QED
    BY <1>18, <2>1, <2>2, <2>3, <1>c, <1>d DEF Crash, TypeOK, WorkerType
<1>19. CASE UNCHANGED vars
  BY <1>19 DEF vars, TypeOK
<1>. QED
  BY <1>1, <1>2, <1>3, <1>4, <1>5, <1>6, <1>7, <1>8, <1>9, <1>10, <1>11, <1>12, <1>13,
     <1>14, <1>15, <1>16, <1>17, <1>18, <1>19 DEF Next, Request, RotationStep

-----------------------------------------------------------------------------
(* Keys.                                                                   *)

LEMMA KeyWrites ==
  ASSUME [Next]_vars
  PROVE  key' = key \/ \E w \in Workers : CreateKey(w)
<1>1. ASSUME NEW w \in Workers, Request(w) PROVE key' = key
  BY <1>1 DEF Request, Seal, RotateKey, Unseal, ReplaceRead, ReadActiveKey, UseKey, Write,
              Database
<1>2. ASSUME NEW w \in Workers, RotationStep(w) PROVE key' = key \/ CreateKey(w)
  BY <1>2 DEF RotationStep, ReadPrior, ReadNewest, DropCache, RecordRotation, RewrapBatch,
              RewrapRow, RotationDone, Database
<1>3. ASSUME NEW w \in Workers, Throw(w) PROVE key' = key
  BY <1>3 DEF Throw
<1>4. ASSUME NEW c \in Creds, Delete(c) PROVE key' = key
  BY <1>4 DEF Delete
<1>5. CASE Crash
  BY <1>5 DEF Crash, Database
<1>6. CASE UNCHANGED vars
  BY <1>6 DEF vars
<1>. QED
  BY <1>1, <1>2, <1>3, <1>4, <1>5, <1>6 DEF Next

\* The version that is created follows the newest one.
LEMMA CreatedNext ==
  ASSUME VaultAssumption, TypeOK, KeysOK, CreateOK, NEW w \in Workers, CreateKey(w),
         NEW v, v = worker[w].to, key[v] = "none"
  PROVE  /\ NewestIs(v - 1)
         /\ NewestIs(v)'
         /\ v \in Versions /\ v - 1 \in Versions
         /\ key' = [key EXCEPT ![v - 1] = "retired", ![v] = "active"]
<1>1. v \in Versions /\ v - 1 \in Versions /\ key[v - 1] # "none"
  BY DEF CreateKey, CreateOK
<1>2. PICK n \in Versions : NewestIs(n)
  BY DEF KeysOK
<1>3. v \in Int /\ n \in Int
  BY <1>1 DEF Versions
<1>4. ~(v - 1 > n)
  BY <1>1, <1>2 DEF NewestIs
<1>5. ~(v <= n)
  BY <1>1, <1>2, <1>3 DEF NewestIs, CreateKey
<1>6. n = v - 1
  BY <1>3, <1>4, <1>5
<1>7. key' = [key EXCEPT ![v - 1] = "retired", ![v] = "active"]
  BY DEF CreateKey
<1>8. \A u \in Versions : key'[u] = IF u = v THEN "active" ELSE IF u = v - 1 THEN "retired" ELSE key[u]
  BY <1>1, <1>3, <1>7 DEF TypeOK
<1>9. NewestIs(v)'
  <2>2. key'[v] = "active"
    BY <1>1, <1>8
  <2>3. ASSUME NEW u \in Versions, u < v PROVE key'[u] = "retired"
    <3>1. u = v - 1 \/ u < v - 1
      BY <1>3, <2>3 DEF Versions
    <3>. QED
      BY <1>2, <1>3, <1>6, <1>8, <3>1, <2>3 DEF NewestIs
  <2>4. ASSUME NEW u \in Versions, u > v PROVE key'[u] = "none"
    <3>1. u > v - 1 /\ u # v /\ u # v - 1
      BY <1>3, <2>4 DEF Versions
    <3>. QED
      BY <1>2, <1>6, <1>8, <3>1 DEF NewestIs
  <2>. QED
    BY <2>2, <2>3, <2>4 DEF NewestIs
<1>. QED
  BY <1>1, <1>2, <1>6, <1>7, <1>9

LEMMA KeysStep ==
  ASSUME VaultAssumption, TypeOK, KeysOK, CreateOK, [Next]_vars
  PROVE  /\ KeysOK' /\ CreateOK'
         /\ \A v \in Versions : key[v] # "none" => key'[v] # "none"
<1>a. Versions \subseteq Int
  BY DEF Versions
<1>1. KeysOK' /\ \A v \in Versions : key[v] # "none" => key'[v] # "none"
  <2>1. CASE key' = key
    BY <2>1 DEF KeysOK, NewestIs
  <2>2. ASSUME NEW w \in Workers, CreateKey(w), key' # key
        PROVE KeysOK' /\ \A v \in Versions : key[v] # "none" => key'[v] # "none"
    <3>. DEFINE v == worker[w].to
    <3>1. key[v] = "none"
      BY <2>2 DEF CreateKey
    <3>2. PICK n : n = v
      OBVIOUS
    <3>3. n \in Versions /\ NewestIs(n)' /\
          key' = [key EXCEPT ![n - 1] = "retired", ![n] = "active"]
      BY <2>2, <3>1, <3>2, CreatedNext
    <3>4. \A u \in Versions : key'[u] \in {key[u], "retired", "active"}
      BY <3>3 DEF TypeOK
    <3>. QED
      BY <3>3, <3>4 DEF KeysOK
  <2>. QED
    BY <2>1, <2>2, KeyWrites
<1>b. ASSUME NEW w \in Workers, NEW rec, Become(w, rec), rec.pc # "create"
      PROVE CreateOK'
  BY <1>1, <1>b, Becoming DEF CreateOK
<1>s. ASSUME worker' = worker PROVE CreateOK'
  BY <1>1, <1>s DEF CreateOK
<1>i. Idle.pc # "create"
  BY DEF Idle
<1>2. ASSUME NEW w \in Workers, Request(w) PROVE CreateOK'
  <2>1. Idle.pc # "create" /\ [Idle EXCEPT !.pc = "key", !.op = "seal"].pc # "create"
        /\ [Idle EXCEPT !.pc = "prior", !.op = "rotate"].pc # "create"
    BY DEF Idle
  <2>2. \A c : [Idle EXCEPT !.pc = "derive", !.op = "unseal", !.kek = c].pc # "create"
               /\ [Idle EXCEPT !.pc = "key", !.op = "replace", !.old = c].pc # "create"
    BY DEF Idle
  <2>3. \A x : [worker[w] EXCEPT !.loaded = x].pc = worker[w].pc
               /\ [worker[w] EXCEPT !.pc = "derive", !.kek = x, !.loaded = 0].pc = "derive"
               /\ [worker[w] EXCEPT !.pc = "write", !.loaded = 0].pc = "write"
    <3>1. worker[w] \in WorkerType
      BY DEF TypeOK, WorkerType
    <3>. QED
      BY <3>1 DEF WorkerType
  <2>4. CASE Seal(w) \/ RotateKey(w)
    BY <2>1, <2>4, <1>b DEF Seal, RotateKey
  <2>5. ASSUME NEW c \in Creds, Unseal(w, c) \/ ReplaceRead(w, c) PROVE CreateOK'
    BY <2>2, <2>5, <1>b DEF Unseal, ReplaceRead
  <2>6. CASE ReadActiveKey(w)
    BY <2>3, <2>6, <1>b DEF ReadActiveKey
  <2>7. CASE UseKey(w)
    BY <2>1, <2>3, <2>7, <1>b DEF UseKey
  <2>8. CASE Write(w)
    BY <2>1, <2>8, <1>b DEF Write
  <2>. QED
    BY <1>2, <2>4, <2>5, <2>6, <2>7, <2>8 DEF Request
<1>3. ASSUME NEW w \in Workers, ReadNewest(w) PROVE CreateOK'
  <2>1. PICK m : m = Newest + 1
    OBVIOUS
  <2>2. /\ m \in Versions /\ m - 1 \in Versions /\ key'[m - 1] # "none"
    <3>1. Newest \in Versions /\ key[Newest] # "none" /\ key' = key
      BY <1>3, VersionsExist DEF ReadNewest, Database
    <3>2. m \in Versions
      BY <1>3, <2>1, <3>1 DEF ReadNewest, Versions, VaultAssumption
    <3>3. m - 1 = Newest
      BY <2>1, <3>1 DEF Versions
    <3>. QED
      BY <3>1, <3>2, <3>3
  <2>3. \A v \in Workers : worker'[v] =
          IF v = w THEN [worker[w] EXCEPT !.pc = "create", !.to = m] ELSE worker[v]
    BY <1>3, <2>1, Becoming DEF ReadNewest
  <2>4. worker'[w].to = m
    <3>1. worker[w] \in WorkerType
      BY DEF TypeOK, WorkerType
    <3>2. \A x : [worker[w] EXCEPT !.pc = "create", !.to = x].to = x
      BY <3>1 DEF WorkerType
    <3>. QED
      BY <2>3, <3>2
  <2>5. key' = key
    BY <1>3 DEF ReadNewest, Database
  <2>6. \A v \in Workers : v # w => worker'[v] = worker[v]
    BY <2>3
  <2>. QED
    BY <2>2, <2>4, <2>5, <2>6 DEF CreateOK
<1>4. ASSUME NEW w \in Workers, RotationStep(w), ~ReadNewest(w) PROVE CreateOK'
  <2>1. worker[w] \in WorkerType
    BY DEF TypeOK, WorkerType
  <2>2. \A p, x :
          p # "create" =>
            /\ [worker[w] EXCEPT !.pc = p].pc # "create"
            /\ [worker[w] EXCEPT !.pc = p, !.from = x].pc # "create"
            /\ [worker[w] EXCEPT !.pc = p, !.batch = x].pc # "create"
            /\ [worker[w] EXCEPT !.batch = x, !.pc = p].pc # "create"
    BY <2>1 DEF WorkerType
  <2>6. \A p \in {"newest", "drop", "record", "batch", "row", "done"} : p # "create"
    OBVIOUS
  <2>3. CASE ReadPrior(w) \/ CreateKey(w) \/ DropCache(w) \/ RecordRotation(w) \/ RotationDone(w)
    BY <2>2, <2>3, <2>6, <1>b, <1>i DEF ReadPrior, CreateKey, DropCache, RecordRotation, RotationDone
  <2>4. CASE RewrapBatch(w)
    BY <2>2, <2>4, <2>6, <1>b DEF RewrapBatch
  <2>5. CASE RewrapRow(w)
    BY <2>2, <2>5, <2>6, <1>b DEF RewrapRow
  <2>. QED
    BY <1>4, <2>3, <2>4, <2>5 DEF RotationStep
<1>5. ASSUME NEW w \in Workers, Throw(w) PROVE CreateOK'
  BY <1>5, <1>b, <1>i DEF Throw
<1>6. CASE Crash
  BY <1>1, <1>6, <1>i DEF Crash, CreateOK
<1>7. CASE UNCHANGED vars \/ \E c \in Creds : Delete(c)
  BY <1>1, <1>7, <1>s DEF vars, Delete
<1>. QED
  BY <1>1, <1>2, <1>3, <1>4, <1>5, <1>6, <1>7 DEF Next

\* What is read, cached or sealed under exists.
Exists(v) == v \in Versions /\ key[v] # "none"

LEMMA LocalsStep ==
  ASSUME VaultAssumption, IInv, [Next]_vars
  PROVE  LocalsOK' /\ SealedOK'
<1> USE DEF IInv
<1>a. \A v \in Versions : key[v] # "none" => key'[v] # "none"
  BY KeysStep
<1>t. /\ \A w \in Workers : worker[w] \in WorkerType
      /\ \A v \in 0..MaxVersion : v # 0 => v \in Versions
      /\ cache \in 0..MaxVersion
      /\ ActiveVersion \in Versions /\ key[ActiveVersion] # "none"
  BY VersionsExist DEF TypeOK, WorkerType, Versions, VaultAssumption
<1>k. \A w \in Workers :
        /\ worker[w].loaded # 0 => Exists(worker[w].loaded)
        /\ worker[w].kek # 0 => Exists(worker[w].kek)
        /\ worker[w].pc \in Created => Exists(worker[w].to)
  BY <1>t DEF LocalsOK, Exists, WorkerType
<1>c. cache # 0 => Exists(cache)
  BY <1>t DEF LocalsOK, Exists
<1>b. ASSUME NEW w \in Workers, NEW rec, Become(w, rec),
             rec.loaded # 0 => Exists(rec.loaded),
             rec.kek # 0 => Exists(rec.kek),
             rec.pc = "write" => rec.kek # 0,
             rec.pc \in Created => rec.to \in Versions /\ key'[rec.to] # "none",
             cache' # 0 => Exists(cache')
      PROVE  LocalsOK'
  <2>1. \A v \in Workers : worker'[v] = IF v = w THEN rec ELSE worker[v]
    BY <1>b, Becoming
  <2>2. \A v \in Workers : v # w =>
          /\ worker'[v].loaded # 0 => key'[worker'[v].loaded] # "none"
          /\ worker'[v].kek # 0 => key'[worker'[v].kek] # "none"
          /\ worker'[v].pc = "write" => worker'[v].kek # 0
          /\ worker'[v].pc \in Created =>
               worker'[v].to \in Versions /\ key'[worker'[v].to] # "none"
    BY <2>1, <1>a, <1>k DEF LocalsOK, Exists
  <2>3. /\ worker'[w].loaded # 0 => key'[worker'[w].loaded] # "none"
        /\ worker'[w].kek # 0 => key'[worker'[w].kek] # "none"
        /\ worker'[w].pc = "write" => worker'[w].kek # 0
        /\ worker'[w].pc \in Created =>
             worker'[w].to \in Versions /\ key'[worker'[w].to] # "none"
    BY <2>1, <1>a, <1>b DEF Exists
  <2>4. cache' # 0 => key'[cache'] # "none"
    BY <1>a, <1>b DEF Exists
  <2>. QED
    BY <2>2, <2>3, <2>4 DEF LocalsOK
<1>i. Idle.loaded = 0 /\ Idle.kek = 0 /\ Idle.pc # "write" /\ Idle.pc \notin Created
  BY DEF Idle, Created
\* Steps that keep what is loaded and the key in hand.
<1>e. ASSUME NEW w \in Workers, NEW rec, Become(w, rec),
             rec.loaded = worker[w].loaded, rec.kek = worker[w].kek, rec.pc # "write",
             rec.pc \in Created => rec.to = worker[w].to /\ worker[w].pc \in Created,
             cache' = cache \/ cache' = 0
      PROVE  LocalsOK'
  <2>1. rec.pc \in Created => rec.to \in Versions /\ key'[rec.to] # "none"
    BY <1>a, <1>e, <1>k DEF Exists
  <2>. QED
    BY <1>b, <1>c, <1>e, <1>k, <2>1
<1>s. ASSUME cred' = cred PROVE SealedOK'
  BY <1>s, <1>a DEF SealedOK, Live
<1>d. ASSUME UNCHANGED Database PROVE cred' = cred
  BY <1>d DEF Database
<1>1. ASSUME NEW w \in Workers, Seal(w) \/ RotateKey(w) PROVE LocalsOK' /\ SealedOK'
  <2>1. LET i == [Idle EXCEPT !.pc = "key", !.op = "seal"] IN
          i.pc # "write" /\ i.pc \notin Created /\ i.loaded = 0 /\ i.kek = 0
    BY DEF Idle, Created
  <2>2. LET i == [Idle EXCEPT !.pc = "prior", !.op = "rotate"] IN
          i.pc # "write" /\ i.pc \notin Created /\ i.loaded = 0 /\ i.kek = 0
    BY DEF Idle, Created
  <2>3. cache' = cache /\ cred' = cred
    BY <1>1, <1>d DEF Seal, RotateKey
  <2>. QED
    BY <1>1, <1>b, <1>c, <1>s, <2>1, <2>2, <2>3 DEF Seal, RotateKey
<1>2. ASSUME NEW w \in Workers, NEW c \in Creds, Unseal(w, c) PROVE LocalsOK' /\ SealedOK'
  <2>1. LET i == [Idle EXCEPT !.pc = "derive", !.op = "unseal", !.kek = cred[c].version] IN
          /\ i.pc # "write" /\ i.pc \notin Created
          /\ i.loaded = 0 /\ i.kek = cred[c].version
    BY DEF Idle, Created
  <2>2. Exists(cred[c].version)
    BY <1>2 DEF Unseal, SealedOK, Exists
  <2>3. cache' = cache /\ cred' = cred
    BY <1>2, <1>d DEF Unseal
  <2>. QED
    BY <1>2, <1>b, <1>c, <1>s, <2>1, <2>2, <2>3 DEF Unseal
<1>3. ASSUME NEW w \in Workers, NEW c \in Creds, ReplaceRead(w, c) PROVE LocalsOK' /\ SealedOK'
  <2>1. LET i == [Idle EXCEPT !.pc = "key", !.op = "replace", !.old = c] IN
          i.pc # "write" /\ i.pc \notin Created /\ i.loaded = 0 /\ i.kek = 0
    BY DEF Idle, Created
  <2>3. cache' = cache /\ cred' = cred
    BY <1>3, <1>d DEF ReplaceRead
  <2>. QED
    BY <1>3, <1>b, <1>c, <1>s, <2>1, <2>3 DEF ReplaceRead
<1>4. ASSUME NEW w \in Workers, ReadActiveKey(w) PROVE LocalsOK' /\ SealedOK'
  <2>1. LET i == [worker[w] EXCEPT !.loaded = ActiveVersion] IN
          i.pc = worker[w].pc /\ i.loaded = ActiveVersion /\ i.kek = worker[w].kek
    BY <1>t DEF WorkerType
  <2>2. worker[w].pc # "write" /\ worker[w].pc \notin Created
    BY <1>4 DEF ReadActiveKey, Created
  <2>3. cache' = cache /\ cred' = cred
    BY <1>4, <1>d DEF ReadActiveKey
  <2>4. Exists(ActiveVersion)
    BY <1>t DEF Exists
  <2>. QED
    BY <1>4, <1>b, <1>c, <1>k, <1>s, <2>1, <2>2, <2>3, <2>4 DEF ReadActiveKey
<1>5. ASSUME NEW w \in Workers, UseKey(w) PROVE LocalsOK' /\ SealedOK'
  <2>1. PICK v : v = IF worker[w].loaded # 0 THEN worker[w].loaded ELSE cache
    OBVIOUS
  <2>2. v # 0 /\ Exists(v) /\ cache' = v
    BY <1>5, <2>1, <1>k, <1>c DEF UseKey
  <2>3. \/ Become(w, [worker[w] EXCEPT !.pc = "derive", !.kek = v, !.loaded = 0])
        \/ worker[w].kek = v /\ Become(w, [worker[w] EXCEPT !.pc = "write", !.loaded = 0])
        \/ Become(w, Idle)
    BY <1>5, <2>1 DEF UseKey
  <2>4. /\ LET i == [worker[w] EXCEPT !.pc = "derive", !.kek = v, !.loaded = 0] IN
             i.pc # "write" /\ i.pc \notin Created /\ i.loaded = 0 /\ i.kek = v
        /\ LET i == [worker[w] EXCEPT !.pc = "write", !.loaded = 0] IN
             i.pc \notin Created /\ i.loaded = 0 /\ i.kek = worker[w].kek
    BY <1>t DEF WorkerType, Created
  <2>5. LocalsOK'
    BY <1>b, <1>i, <2>2, <2>3, <2>4
  <2>. QED
    BY <1>5, <1>s, <1>d, <2>5 DEF UseKey
<1>6. ASSUME NEW w \in Workers, Write(w) PROVE LocalsOK' /\ SealedOK'
  <2>1. Exists(worker[w].kek)
    BY <1>6, <1>k DEF Write, LocalsOK
  <2>2. key' = key /\ cache' = cache /\ Become(w, Idle)
    BY <1>6 DEF Write
  <2>3. SealedOK'
    <3>1. PICK c \in Creds :
            cred' = [d \in Creds |->
              CASE d = c -> [state |-> "live", version |-> worker[w].kek]
                [] d = worker[w].old -> [cred[d] EXCEPT !.state = "replaced"]
                [] OTHER -> cred[d]]
      BY <1>6 DEF Write
    <3>2. \A d \in Creds : cred'[d].state = "live" =>
            (d = c /\ cred'[d].version = worker[w].kek) \/ cred'[d] = cred[d]
      BY <3>1 DEF TypeOK
    <3>. QED
      BY <2>1, <2>2, <3>2 DEF SealedOK, Live, Exists
  <2>. QED
    BY <1>b, <1>c, <1>i, <2>2, <2>3
<1>7. ASSUME NEW c \in Creds, Delete(c) PROVE LocalsOK' /\ SealedOK'
  <2>1. \A d \in Creds : cred'[d].state = "live" => cred'[d] = cred[d]
    BY <1>7 DEF Delete, TypeOK
  <2>. QED
    BY <1>7, <2>1 DEF Delete, SealedOK, LocalsOK, Live
<1>8. ASSUME NEW w \in Workers, RotationStep(w) PROVE LocalsOK' /\ SealedOK'
  <2>1. CASE ReadPrior(w)
    <3>1. LET i == [worker[w] EXCEPT !.pc = "newest", !.from = ActiveVersion] IN
          /\ i.loaded = worker[w].loaded /\ i.kek = worker[w].kek /\ i.pc # "write"
          /\ i.pc \in Created => i.to = worker[w].to /\ worker[w].pc \in Created
      BY <1>t, <2>1 DEF WorkerType, Created, ReadPrior
    <3>2. cred' = cred
      BY <1>d, <2>1 DEF ReadPrior
    <3>. QED
      BY <1>e, <1>s, <2>1, <3>1, <3>2 DEF ReadPrior
  <2>2. CASE ReadNewest(w)
    <3>1. LET i == [worker[w] EXCEPT !.pc = "create", !.to = Newest + 1] IN
          /\ i.loaded = worker[w].loaded /\ i.kek = worker[w].kek /\ i.pc # "write"
          /\ i.pc \in Created => i.to = worker[w].to /\ worker[w].pc \in Created
      BY <1>t, <2>2 DEF WorkerType, Created, ReadNewest
    <3>2. cred' = cred
      BY <1>d, <2>2 DEF ReadNewest
    <3>. QED
      BY <1>e, <1>s, <2>2, <3>1, <3>2 DEF ReadNewest
  <2>3. CASE DropCache(w)
    <3>1. LET i == [worker[w] EXCEPT !.pc = "record"] IN
          /\ i.loaded = worker[w].loaded /\ i.kek = worker[w].kek /\ i.pc # "write"
          /\ i.pc \in Created => i.to = worker[w].to /\ worker[w].pc \in Created
      BY <1>t, <2>3 DEF WorkerType, Created, DropCache
    <3>2. cred' = cred
      BY <1>d, <2>3 DEF DropCache
    <3>. QED
      BY <1>e, <1>s, <2>3, <3>1, <3>2 DEF DropCache
  <2>4. CASE RecordRotation(w)
    <3>1. LET i == [worker[w] EXCEPT !.pc = "batch"] IN
          /\ i.loaded = worker[w].loaded /\ i.kek = worker[w].kek /\ i.pc # "write"
          /\ i.pc \in Created => i.to = worker[w].to /\ worker[w].pc \in Created
      BY <1>t, <2>4 DEF WorkerType, Created, RecordRotation
    <3>2. cred' = cred
      BY <1>d, <2>4 DEF RecordRotation
    <3>. QED
      BY <1>e, <1>s, <2>4, <3>1, <3>2 DEF RecordRotation
  <2>5. CASE CreateKey(w)
    <3>1. CASE key[worker[w].to] = "none"
      <4>1. LET i == [worker[w] EXCEPT !.pc = "drop"] IN
              /\ i.loaded = worker[w].loaded /\ i.kek = worker[w].kek /\ i.pc # "write"
              /\ i.to = worker[w].to
        BY <1>t DEF WorkerType
      <4>2. PICK v : v = worker[w].to
        OBVIOUS
      <4>3. v \in Versions /\ NewestIs(v)'
        BY <2>5, <3>1, <4>2, CreatedNext
      <4>4. worker[w].to \in Versions /\ key'[worker[w].to] # "none"
        BY <4>2, <4>3 DEF NewestIs
      <4>5. Become(w, [worker[w] EXCEPT !.pc = "drop"]) /\ cache' = cache
        BY <2>5, <3>1 DEF CreateKey
      <4>6. LocalsOK'
        BY <1>b, <1>c, <1>k, <4>1, <4>4, <4>5
      <4>. QED
        BY <1>s, <2>5, <4>6 DEF CreateKey
    <3>2. CASE key[worker[w].to] # "none"
      BY <1>b, <1>c, <1>i, <1>s, <2>5, <3>2 DEF CreateKey
    <3>. QED
      BY <3>1, <3>2
  <2>6. CASE RewrapBatch(w)
    <3>1. LET i == [worker[w] EXCEPT !.pc = "done"] IN
          /\ i.loaded = worker[w].loaded /\ i.kek = worker[w].kek /\ i.pc # "write"
          /\ i.pc \in Created => i.to = worker[w].to /\ worker[w].pc \in Created
      BY <1>t, <2>6 DEF WorkerType, Created, RewrapBatch
    <3>2. ASSUME NEW batch
          PROVE LET i == [worker[w] EXCEPT !.pc = "row", !.batch = batch] IN
          /\ i.loaded = worker[w].loaded /\ i.kek = worker[w].kek /\ i.pc # "write"
          /\ i.pc \in Created => i.to = worker[w].to /\ worker[w].pc \in Created
      BY <1>t, <2>6 DEF WorkerType, Created, RewrapBatch
    <3>3. cred' = cred /\ cache' = cache
      BY <1>d, <2>6 DEF RewrapBatch
    <3>4. CASE Become(w, [worker[w] EXCEPT !.pc = "done"])
      BY <1>e, <1>s, <3>1, <3>3, <3>4
    <3>5. ASSUME NEW batch, Become(w, [worker[w] EXCEPT !.pc = "row", !.batch = batch])
          PROVE LocalsOK'
      BY <1>e, <3>2, <3>3, <3>5
    <3>. QED
      BY <1>s, <2>6, <3>3, <3>4, <3>5 DEF RewrapBatch
  <2>7. CASE RewrapRow(w)
    <3>1. PICK c \in Creds, p \in {"batch", "row"} :
            /\ cred' = IF Live(c) /\ cred[c].version = worker[w].from
                       THEN [cred EXCEPT ![c].version = worker[w].to] ELSE cred
            /\ Become(w, [worker[w] EXCEPT !.batch = @ \ {c}, !.pc = p])
      BY <2>7, <1>t DEF RewrapRow, WorkerType
    <3>2. LET i == [worker[w] EXCEPT !.batch = @ \ {c}, !.pc = p] IN
          /\ i.loaded = worker[w].loaded /\ i.kek = worker[w].kek /\ i.pc # "write"
          /\ i.pc \in Created => i.to = worker[w].to /\ worker[w].pc \in Created
      BY <1>t, <2>7 DEF WorkerType, Created, RewrapRow
    <3>3. LocalsOK'
      BY <1>e, <2>7, <3>1, <3>2 DEF RewrapRow
    <3>4. Exists(worker[w].to)
      BY <1>k, <2>7 DEF RewrapRow, Created
    <3>5. \A d \in Creds : cred'[d].state = "live" =>
            cred[d].state = "live" /\ cred'[d].version \in {cred[d].version, worker[w].to}
      BY <3>1 DEF TypeOK
    <3>6. key' = key
      BY <2>7 DEF RewrapRow
    <3>7. SealedOK'
      BY <3>4, <3>5, <3>6 DEF SealedOK, Live, Exists
    <3>. QED
      BY <3>3, <3>7
  <2>8. CASE RotationDone(w)
    BY <1>b, <1>c, <1>i, <1>s, <2>8 DEF RotationDone
  <2>. QED
    BY <1>8, <2>1, <2>2, <2>3, <2>4, <2>5, <2>6, <2>7, <2>8 DEF RotationStep
<1>9. ASSUME NEW w \in Workers, Throw(w) PROVE LocalsOK' /\ SealedOK'
  <2>1. cache' = cache /\ cred' = cred /\ Become(w, Idle)
    BY <1>9 DEF Throw
  <2>. QED
    BY <1>b, <1>c, <1>i, <1>s, <2>1
<1>10. CASE Crash
  BY <1>10, <1>i, <1>d, <1>s DEF Crash, LocalsOK
<1>11. CASE UNCHANGED vars
  BY <1>11, <1>s DEF vars, LocalsOK
<1>. QED
  BY <1>1, <1>2, <1>3, <1>4, <1>5, <1>6, <1>7, <1>8, <1>9, <1>10, <1>11 DEF Next, Request

-----------------------------------------------------------------------------
(* Rotations.                                                              *)

\* Requests for credentials leave rotations alone.
LEMMA Apart ==
  ASSUME VaultAssumption, TypeOK, NEW w \in Workers, Request(w), ~RotateKey(w)
  PROVE  /\ key' = key /\ rotation' = rotation
         /\ overlapped' = overlapped /\ abandoned' = abandoned
         /\ \A v \in Workers :
              worker[v].pc \in Rotating \/ worker'[v].pc \in Rotating => worker'[v] = worker[v]
<1>a. ASSUME NEW rec, Become(w, rec), worker[w].pc \notin Rotating, rec.pc \notin Rotating
      PROVE  \A v \in Workers :
               worker[v].pc \in Rotating \/ worker'[v].pc \in Rotating => worker'[v] = worker[v]
  BY <1>a, Becoming
<1>b. /\ key' = key /\ rotation' = rotation
      /\ overlapped' = overlapped /\ abandoned' = abandoned
  BY DEF Request, Seal, Unseal, ReplaceRead, ReadActiveKey, UseKey, Write, Database, History
<1>t. worker[w] \in WorkerType
  BY DEF TypeOK, WorkerType
<1>i. Idle.pc \notin Rotating
  BY DEF Idle, Rotating
<1>1. CASE Seal(w)
  <2>1. [Idle EXCEPT !.pc = "key", !.op = "seal"].pc \notin Rotating
    BY DEF Idle, Rotating
  <2>. QED
    BY <1>1, <1>a, <1>b, <1>i, <2>1 DEF Seal
<1>2. ASSUME NEW c \in Creds, Unseal(w, c) \/ ReplaceRead(w, c)
      PROVE  \A v \in Workers :
               worker[v].pc \in Rotating \/ worker'[v].pc \in Rotating => worker'[v] = worker[v]
  <2>1. /\ [Idle EXCEPT !.pc = "derive", !.op = "unseal", !.kek = cred[c].version].pc \notin Rotating
        /\ [Idle EXCEPT !.pc = "key", !.op = "replace", !.old = c].pc \notin Rotating
    BY DEF Idle, Rotating
  <2>. QED
    BY <1>2, <1>a, <1>i, <2>1 DEF Unseal, ReplaceRead
<1>3. CASE ReadActiveKey(w)
  <2>1. worker[w].pc \notin Rotating
        /\ [worker[w] EXCEPT !.loaded = ActiveVersion].pc = worker[w].pc
    BY <1>3, <1>t DEF ReadActiveKey, Rotating, WorkerType
  <2>. QED
    BY <1>3, <1>a, <1>b, <2>1 DEF ReadActiveKey
<1>4. CASE UseKey(w)
  <2>1. PICK v : v = IF worker[w].loaded # 0 THEN worker[w].loaded ELSE cache
    OBVIOUS
  <2>2. /\ worker[w].pc \notin Rotating
        /\ [worker[w] EXCEPT !.pc = "derive", !.kek = v, !.loaded = 0].pc \notin Rotating
        /\ [worker[w] EXCEPT !.pc = "write", !.loaded = 0].pc \notin Rotating
    BY <1>4, <1>t DEF UseKey, Rotating, WorkerType
  <2>3. \/ Become(w, [worker[w] EXCEPT !.pc = "derive", !.kek = v, !.loaded = 0])
        \/ Become(w, [worker[w] EXCEPT !.pc = "write", !.loaded = 0])
        \/ Become(w, Idle)
    BY <1>4, <2>1 DEF UseKey
  <2>. QED
    BY <1>a, <1>b, <1>i, <2>2, <2>3
<1>5. CASE Write(w)
  <2>1. worker[w].pc \notin Rotating
    BY <1>5 DEF Write, Rotating
  <2>. QED
    BY <1>5, <1>a, <1>b, <1>i, <2>1 DEF Write
<1>. QED
  BY <1>1, <1>2, <1>3, <1>4, <1>5, <1>b DEF Request

\* What the steps of a rotation make of its locals.
LEMMA Along ==
  ASSUME VaultAssumption, TypeOK, NEW w \in Workers, NEW p, NEW x
  PROVE  /\ LET i == [worker[w] EXCEPT !.pc = p] IN
              i.pc = p /\ i.from = worker[w].from /\ i.to = worker[w].to
         /\ LET i == [worker[w] EXCEPT !.pc = p, !.from = x] IN
              i.pc = p /\ i.from = x
         /\ LET i == [worker[w] EXCEPT !.pc = p, !.to = x] IN
              i.pc = p /\ i.from = worker[w].from /\ i.to = x
         /\ LET i == [worker[w] EXCEPT !.pc = p, !.batch = x] IN
              i.pc = p /\ i.from = worker[w].from /\ i.to = worker[w].to
         /\ LET i == [worker[w] EXCEPT !.batch = x, !.pc = p] IN
              i.pc = p /\ i.from = worker[w].from /\ i.to = worker[w].to
<1>1. worker[w] \in WorkerType
  BY DEF TypeOK, WorkerType
<1>. QED
  BY <1>1 DEF WorkerType

LEMMA RotationsApart ==
  ASSUME VaultAssumption, IInv, [Next]_vars
  PROVE  RotationOK'
<1> USE DEF IInv
<1>1. ASSUME NEW w \in Workers, Request(w), ~RotateKey(w) PROVE RotationOK'
  BY <1>1, Apart DEF RotationOK, Rotating, Created, Rewrapping
<1>t. \A w \in Workers : worker[w].pc \in Created => worker[w].to \in Versions
  BY DEF LocalsOK
<1>i. Idle.pc \notin Rotating
  BY DEF Idle, Rotating
\* A rotation that goes on, alone.
<1>m. ASSUME NEW w \in Workers, NEW rec, Become(w, rec), worker[w].pc \in Rotating,
             overlapped' = overlapped,
             ~overlapped =>
               /\ rec.pc \in Rewrapping => rotation'[rec.to].state = "in-progress"
               /\ rec.pc \in {"newest", "create"} =>
                    rec.from \in Versions /\ key'[rec.from] = "active"
               /\ rec.pc = "create" => rec.to = rec.from + 1
               /\ rec.pc \in Created => rec.to \in Versions /\ key'[rec.to] = "active"
      PROVE  RotationOK'
  <2>1. SUFFICES ASSUME ~overlapped PROVE RotationOK'
    BY <1>m DEF RotationOK
  <2>2. \A v \in Workers : worker'[v] = IF v = w THEN rec ELSE worker[v]
    BY <1>m, Becoming
  <2>3. \A v \in Workers : v # w => worker[v].pc \notin Rotating
    BY <1>m, <2>1 DEF RotationOK
  <2>4. \A v \in Workers : worker'[v].pc \in Rotating => v = w
    BY <2>2, <2>3
  <2>5. Rewrapping \subseteq Rotating /\ Created \subseteq Rotating
        /\ {"newest", "create"} \subseteq Rotating
    BY DEF Rewrapping, Created, Rotating
  <2>6. worker'[w] = rec
    BY <2>2
  <2>7. ASSUME NEW v \in Workers
        PROVE  /\ worker'[v].pc \in Rewrapping => rotation'[worker'[v].to].state = "in-progress"
               /\ worker'[v].pc \in {"newest", "create"} =>
                    worker'[v].from \in Versions /\ key'[worker'[v].from] = "active"
               /\ worker'[v].pc = "create" => worker'[v].to = worker'[v].from + 1
               /\ worker'[v].pc \in Created =>
                    worker'[v].to \in Versions /\ key'[worker'[v].to] = "active"
    <3>1. CASE v = w
      BY <1>m, <2>1, <2>6, <3>1
    <3>2. CASE v # w
      BY <2>4, <2>5, <3>2
    <3>. QED
      BY <3>1, <3>2
  <2>. QED
    BY <2>4, <2>7 DEF RotationOK
\* A rotation that ends, whatever becomes of its row.
<1>e. ASSUME NEW w \in Workers, Become(w, Idle), overlapped' = overlapped, key' = key,
             rotation' = rotation \/ worker[w].pc \in Rotating
      PROVE  RotationOK'
  <2>1. SUFFICES ASSUME ~overlapped PROVE RotationOK'
    BY <1>e DEF RotationOK
  <2>2. \A v \in Workers : worker'[v] = IF v = w THEN Idle ELSE worker[v]
    BY <1>e, Becoming
  <2>3. CASE rotation' = rotation
    <3>1. \A v \in Workers : worker'[v].pc \in Rotating =>
            worker'[v] = worker[v] /\ worker[v].pc \in Rotating
      BY <1>i, <2>2
    <3>. QED
      BY <1>e, <2>1, <2>3, <3>1 DEF RotationOK, Rotating, Created, Rewrapping
  <2>4. CASE worker[w].pc \in Rotating
    <3>1. \A v \in Workers : worker'[v].pc \notin Rotating
      BY <1>i, <2>1, <2>2, <2>4 DEF RotationOK
    <3>. QED
      BY <3>1 DEF RotationOK, Rotating, Created, Rewrapping
  <2>. QED
    BY <1>e, <2>3, <2>4
<1>2. ASSUME NEW w \in Workers, RotateKey(w) PROVE RotationOK'
  <2>1. SUFFICES ASSUME ~overlapped' PROVE RotationOK'
    BY DEF RotationOK
  <2>2. ~overlapped /\ \A v \in Workers :
          worker[v].pc \notin {"prior", "newest", "create", "drop", "record"}
    BY <1>2, <2>1 DEF RotateKey
  <2>3. \A v \in Workers : worker[v].pc \notin Rewrapping
    BY <1>2, <1>t, <2>2 DEF RotateKey, RotationOK, Rewrapping, Created
  <2>4. \A v \in Workers : worker[v].pc \notin Rotating
    BY <2>2, <2>3 DEF Rotating, Rewrapping
  <2>5. \A v \in Workers : worker'[v] =
          IF v = w THEN [Idle EXCEPT !.pc = "prior", !.op = "rotate"] ELSE worker[v]
    BY <1>2, Becoming DEF RotateKey
  <2>6. [Idle EXCEPT !.pc = "prior", !.op = "rotate"].pc = "prior"
    BY DEF Idle
  <2>7. \A v \in Workers : worker'[v].pc \in Rotating => v = w /\ worker'[v].pc = "prior"
    BY <2>4, <2>5, <2>6
  <2>. QED
    BY <2>7 DEF RotationOK, Rotating, Created, Rewrapping
<1>3. ASSUME NEW w \in Workers, ReadPrior(w) PROVE RotationOK'
  <2>1. ActiveVersion \in Versions /\ key'[ActiveVersion] = "active" /\ overlapped' = overlapped
    BY <1>3, VersionsExist DEF ReadPrior, Database, History
  <2>2. LET i == [worker[w] EXCEPT !.pc = "newest", !.from = ActiveVersion] IN
          /\ i.from = ActiveVersion /\ i.pc \notin Rewrapping /\ i.pc # "create"
          /\ i.pc \notin Created
    BY Along DEF Rewrapping, Created
  <2>3. worker[w].pc \in Rotating
    BY <1>3 DEF ReadPrior, Rotating
  <2>. QED
    BY <1>3, <1>m, <2>1, <2>2, <2>3 DEF ReadPrior
<1>4. ASSUME NEW w \in Workers, ReadNewest(w) PROVE RotationOK'
  <2>1. PICK n : n = Newest + 1
    OBVIOUS
  <2>2. LET i == [worker[w] EXCEPT !.pc = "create", !.to = n] IN
          /\ i.from = worker[w].from /\ i.to = n /\ i.pc \notin Rewrapping
          /\ i.pc \notin Created
    BY Along DEF Rewrapping, Created
  <2>3. worker[w].pc \in Rotating /\ key' = key /\ overlapped' = overlapped
    BY <1>4 DEF ReadNewest, Rotating, Database, History
  <2>4. ~overlapped => worker[w].from \in Versions /\ key[worker[w].from] = "active"
    BY <1>4 DEF ReadNewest, RotationOK
  <2>5. ~overlapped => n = worker[w].from + 1
    <3>1. PICK m \in Versions : NewestIs(m)
      BY DEF KeysOK
    <3>2. Newest = m
      BY <3>1, TheNewest
    <3>3. \A u \in Versions : key[u] = "active" => u = m
      BY <3>1 DEF NewestIs, Versions
    <3>. QED
      BY <2>1, <2>4, <3>2, <3>3
  <2>6. Become(w, [worker[w] EXCEPT !.pc = "create", !.to = n])
    BY <1>4, <2>1 DEF ReadNewest
  <2>. QED
    BY <1>m, <2>2, <2>3, <2>4, <2>5, <2>6
<1>5. ASSUME NEW w \in Workers, CreateKey(w) PROVE RotationOK'
  <2>1. worker[w].pc \in Rotating /\ rotation' = rotation /\ overlapped' = overlapped
    BY <1>5 DEF CreateKey, Rotating, History
  <2>2. CASE key[worker[w].to] = "none"
    <3>1. PICK v : v = worker[w].to
      OBVIOUS
    <3>2. v \in Versions /\ NewestIs(v)'
      BY <1>5, <2>2, <3>1, CreatedNext
    <3>3. LET i == [worker[w] EXCEPT !.pc = "drop"] IN
            /\ i.to = v /\ i.pc \notin Rewrapping /\ i.pc \notin {"newest", "create"}
      BY <3>1, Along DEF Rewrapping
    <3>4. Become(w, [worker[w] EXCEPT !.pc = "drop"])
      BY <1>5, <2>2 DEF CreateKey
    <3>5. key'[v] = "active"
      BY <3>2 DEF NewestIs
    <3>6. [worker[w] EXCEPT !.pc = "drop"].pc # "create"
      BY <3>3
    <3>. QED
      BY <1>m, <2>1, <3>2, <3>3, <3>4, <3>5, <3>6
  <2>3. CASE key[worker[w].to] # "none"
    BY <1>5, <1>e, <2>1, <2>3 DEF CreateKey
  <2>. QED
    BY <2>2, <2>3

<1>k. ASSUME NEW w \in Workers, worker[w].pc \in Created, ~overlapped
      PROVE  worker[w].to \in Versions /\ key[worker[w].to] = "active"
  BY <1>k DEF RotationOK
<1>6. ASSUME NEW w \in Workers, DropCache(w) PROVE RotationOK'
  <2>1. LET i == [worker[w] EXCEPT !.pc = "record"] IN
          /\ i.to = worker[w].to /\ i.pc \notin Rewrapping /\ i.pc \notin {"newest", "create"}
          /\ i.pc # "create"
    BY Along DEF Rewrapping
  <2>2. worker[w].pc \in Rotating /\ worker[w].pc \in Created
        /\ key' = key /\ overlapped' = overlapped
    BY <1>6 DEF DropCache, Rotating, Created, Database
  <2>. QED
    BY <1>6, <1>k, <1>m, <2>1, <2>2 DEF DropCache
<1>7. ASSUME NEW w \in Workers, RecordRotation(w) PROVE RotationOK'
  <2>1. LET i == [worker[w] EXCEPT !.pc = "batch"] IN
          i.to = worker[w].to /\ i.pc \notin {"newest", "create"} /\ i.pc # "create"
    BY Along
  <2>2. worker[w].pc \in Rotating /\ worker[w].pc \in Created
        /\ key' = key /\ overlapped' = overlapped
    BY <1>7 DEF RecordRotation, Rotating, Created, History
  <2>3. ~overlapped => rotation'[worker[w].to].state = "in-progress"
    <3>1. ~overlapped => worker[w].to \in Versions
      BY <1>k, <2>2
    <3>. QED
      BY <1>7, <3>1 DEF RecordRotation, TypeOK
  <2>. QED
    BY <1>7, <1>k, <1>m, <2>1, <2>2, <2>3 DEF RecordRotation
\* A rewrap that goes on.
<1>r. ASSUME NEW w \in Workers, NEW rec, Become(w, rec), worker[w].pc \in Rewrapping,
             rec.pc \in Rewrapping, rec.to = worker[w].to,
             key' = key, rotation' = rotation, overlapped' = overlapped
      PROVE  RotationOK'
  <2>1. worker[w].pc \in Rotating /\ worker[w].pc \in Created
        /\ rec.pc \notin {"newest", "create"} /\ rec.pc # "create"
    BY <1>r DEF Rewrapping, Rotating, Created
  <2>2. ~overlapped => rotation[worker[w].to].state = "in-progress"
    BY <1>r DEF RotationOK
  <2>. QED
    BY <1>k, <1>m, <1>r, <2>1, <2>2
<1>8. ASSUME NEW w \in Workers, RewrapBatch(w) PROVE RotationOK'
  <2>1. LET i == [worker[w] EXCEPT !.pc = "done"] IN
          i.to = worker[w].to /\ i.pc \in Rewrapping
    BY Along DEF Rewrapping
  <2>2. ASSUME NEW b
        PROVE  LET i == [worker[w] EXCEPT !.pc = "row", !.batch = b] IN
                 i.to = worker[w].to /\ i.pc \in Rewrapping
    BY Along DEF Rewrapping
  <2>3. worker[w].pc \in Rewrapping /\ key' = key /\ rotation' = rotation
        /\ overlapped' = overlapped
    BY <1>8 DEF RewrapBatch, Rewrapping, Database, History
  <2>4. CASE Become(w, [worker[w] EXCEPT !.pc = "done"])
    BY <1>r, <2>1, <2>3, <2>4
  <2>5. ASSUME NEW b, Become(w, [worker[w] EXCEPT !.pc = "row", !.batch = b])
        PROVE  RotationOK'
    BY <1>r, <2>2, <2>3, <2>5
  <2>. QED
    BY <1>8, <2>4, <2>5 DEF RewrapBatch
<1>9. ASSUME NEW w \in Workers, RewrapRow(w) PROVE RotationOK'
  <2>1. PICK c \in Creds, p \in {"batch", "row"} :
          Become(w, [worker[w] EXCEPT !.batch = @ \ {c}, !.pc = p])
    <3>1. worker[w].batch \subseteq Creds
      BY DEF TypeOK
    <3>. QED
      BY <1>9, <3>1 DEF RewrapRow
  <2>2. LET i == [worker[w] EXCEPT !.batch = @ \ {c}, !.pc = p] IN
          i.to = worker[w].to /\ i.pc \in Rewrapping
    BY <2>1, Along DEF Rewrapping
  <2>3. worker[w].pc \in Rewrapping /\ key' = key /\ rotation' = rotation
        /\ overlapped' = overlapped
    BY <1>9 DEF RewrapRow, Rewrapping, History
  <2>. QED
    BY <1>r, <2>1, <2>2, <2>3
<1>10. ASSUME NEW w \in Workers, RotationDone(w) PROVE RotationOK'
  <2>1. worker[w].pc \in Rotating /\ key' = key /\ overlapped' = overlapped
    BY <1>10 DEF RotationDone, Rotating, History
  <2>. QED
    BY <1>10, <1>e, <2>1 DEF RotationDone
<1>11. ASSUME NEW w \in Workers, Throw(w) PROVE RotationOK'
  <2>1. rotation' = rotation \/ worker[w].pc \in Rotating
    BY <1>11 DEF Throw, Rotating
  <2>. QED
    BY <1>11, <1>e, <2>1 DEF Throw
<1>12. CASE Crash
  BY <1>12, <1>i DEF Crash, RotationOK, Rotating, Created, Rewrapping
<1>13. CASE UNCHANGED vars \/ \E c \in Creds : Delete(c)
  BY <1>13 DEF vars, Delete, History, RotationOK
<1>. QED
  BY <1>1, <1>2, <1>3, <1>4, <1>5, <1>6, <1>7, <1>8, <1>9, <1>10, <1>11, <1>12, <1>13
     DEF Next, RotationStep

-----------------------------------------------------------------------------
(* The safety properties.                                                  *)

\* A rewrap that is going to read rows again.
Rereading == {"drop", "record", "batch", "row"}

Kept(c) ==
  \/ key[cred[c].version] = "active"
  \/ \E w \in Workers : worker[w].from = cred[c].version /\ worker[w].pc \in Rereading
  \/ c \in missed
  \/ cred[c].version \in abandoned
  \/ overlapped

LEMMA StrandedStep ==
  ASSUME VaultAssumption, IInv, [Next]_vars
  PROVE  NothingStranded'
<1> USE DEF IInv
<1>a. \A c \in Creds : Live(c) => Kept(c)
  BY DEF NothingStranded, Kept, WillRewrap, Rereading
<1>b. ASSUME \A c \in Creds : cred'[c].state = "live" => Kept(c)' PROVE NothingStranded'
  BY <1>b DEF NothingStranded, Kept, Live, WillRewrap, Rereading
\* A live credential that a step leaves under its key.
<1>f. ASSUME NEW c \in Creds, Live(c), cred'[c].version = cred[c].version,
             key' = key, missed \subseteq missed', abandoned \subseteq abandoned',
             overlapped => overlapped',
             \A w \in Workers : worker[w].from = cred[c].version /\ worker[w].pc \in Rereading =>
               \/ worker'[w].from = worker[w].from /\ worker'[w].pc \in Rereading
               \/ cred[c].version \in abandoned'
      PROVE  Kept(c)'
  <2>1. CASE \E w \in Workers : worker[w].from = cred[c].version /\ worker[w].pc \in Rereading
    <3>1. PICK w \in Workers : worker[w].from = cred[c].version /\ worker[w].pc \in Rereading
      BY <2>1
    <3>2. CASE cred[c].version \in abandoned'
      BY <1>f, <3>2 DEF Kept
    <3>3. CASE worker'[w].from = worker[w].from /\ worker'[w].pc \in Rereading
      BY <1>f, <3>1, <3>3 DEF Kept
    <3>. QED
      BY <1>f, <3>1, <3>2, <3>3
  <2>2. CASE ~ \E w \in Workers : worker[w].from = cred[c].version /\ worker[w].pc \in Rereading
    BY <1>a, <1>f, <2>2 DEF Kept
  <2>. QED
    BY <2>1, <2>2
\* Steps that leave every credential that is live after them.
<1>g. ASSUME \A c \in Creds : cred'[c].state = "live" =>
               cred[c].state = "live" /\ cred'[c].version = cred[c].version,
             key' = key, missed \subseteq missed', abandoned \subseteq abandoned',
             overlapped => overlapped',
             \A w \in Workers : worker[w].pc \in Rereading =>
               \/ worker'[w].from = worker[w].from /\ worker'[w].pc \in Rereading
               \/ worker[w].from \in abandoned'
      PROVE  NothingStranded'
  <2>1. ASSUME NEW c \in Creds, cred'[c].state = "live"
        PROVE  Kept(c)'
    BY <1>f, <1>g, <2>1 DEF Live
  <2>. QED
    BY <1>b, <2>1
<1>i. Idle.pc \notin Rereading
  BY DEF Idle, Rereading
<1>h. ASSUME UNCHANGED History PROVE
        missed' = missed /\ abandoned' = abandoned /\ overlapped' = overlapped
  BY <1>h DEF History
<1>d. ASSUME UNCHANGED Database PROVE key' = key /\ cred' = cred
  BY <1>d DEF Database
<1>1. ASSUME NEW w \in Workers, Write(w) PROVE NothingStranded'
  <2>1. /\ key' = key /\ overlapped' = overlapped /\ abandoned' = abandoned
        /\ \A v \in Workers : worker[v].pc \in Rereading => worker'[v] = worker[v]
    <3>1. \A v \in Workers : worker'[v] = IF v = w THEN Idle ELSE worker[v]
      BY <1>1, Becoming DEF Write
    <3>2. worker[w].pc \notin Rereading
      BY <1>1 DEF Write, Rereading
    <3>. QED
      BY <1>1, <3>1, <3>2 DEF Write
  <2>2. PICK c \in Creds :
          /\ cred' = [d \in Creds |->
               CASE d = c -> [state |-> "live", version |-> worker[w].kek]
                 [] d = worker[w].old -> [cred[d] EXCEPT !.state = "replaced"]
                 [] OTHER -> cred[d]]
          /\ missed' = IF key[worker[w].kek] = "active" \/ WillRewrap(worker[w].kek)
                       THEN missed ELSE missed \union {c}
    BY <1>1 DEF Write
  <2>3. cred'[c].state = "live" => cred'[c].version = worker[w].kek
    <3>1. \A d \in Creds : cred'[d].state = "live" =>
            (d = c /\ cred'[d].version = worker[w].kek) \/ (d # c /\ cred'[d] = cred[d])
      BY <2>2 DEF TypeOK
    <3>. QED
      BY <3>1
  <2>4. ASSUME NEW d \in Creds, d # c, cred'[d].state = "live" PROVE cred'[d] = cred[d]
    BY <2>2, <2>4 DEF TypeOK
  <2>5. ASSUME cred'[c].state = "live" PROVE Kept(c)'
    <3>0. cred'[c].version = worker[w].kek
      BY <2>3, <2>5
    <3>1. CASE WillRewrap(worker[w].kek)
      BY <2>1, <3>0, <3>1 DEF WillRewrap, Rereading, Kept
    <3>2. CASE ~WillRewrap(worker[w].kek)
      BY <2>1, <2>2, <3>0, <3>2 DEF Kept
    <3>. QED
      BY <3>1, <3>2
  <2>6. ASSUME NEW d \in Creds, d # c, cred'[d].state = "live"
        PROVE  Kept(d)'
    BY <1>f, <2>1, <2>2, <2>4, <2>6 DEF Live
  <2>. QED
    BY <1>b, <2>5, <2>6
<1>2. ASSUME NEW w \in Workers, Request(w), ~RotateKey(w), ~Write(w) PROVE NothingStranded'
  <2>1. cred' = cred /\ missed' = missed
    BY <1>2, <1>d, <1>h
       DEF Request, Seal, Unseal, ReplaceRead, ReadActiveKey, UseKey
  <2>2. Rereading \subseteq Rotating
    BY DEF Rereading, Rotating
  <2>. QED
    BY <1>2, <1>g, <2>1, <2>2, Apart
<1>m. ASSUME NEW w \in Workers, NEW rec, Become(w, rec),
             worker[w].pc \in Rereading => rec.from = worker[w].from /\ rec.pc \in Rereading
      PROVE  \A v \in Workers : worker[v].pc \in Rereading =>
               worker'[v].from = worker[v].from /\ worker'[v].pc \in Rereading
  BY <1>m, Becoming
<1>3. ASSUME NEW w \in Workers, RotateKey(w) PROVE NothingStranded'
  <2>1. worker[w].pc \notin Rereading
    BY <1>3, <1>i DEF RotateKey
  <2>2. key' = key /\ cred' = cred /\ missed' = missed /\ abandoned' = abandoned
        /\ (overlapped => overlapped')
    BY <1>3, <1>d DEF RotateKey
  <2>. QED
    BY <1>3, <1>m, <1>g, <2>1, <2>2 DEF RotateKey
<1>4. ASSUME NEW w \in Workers, ReadPrior(w) \/ ReadNewest(w) PROVE NothingStranded'
  <2>1. worker[w].pc \notin Rereading
    BY <1>4 DEF ReadPrior, ReadNewest, Rereading
  <2>2. key' = key /\ cred' = cred /\ missed' = missed /\ abandoned' = abandoned
        /\ overlapped' = overlapped
    BY <1>4, <1>d, <1>h DEF ReadPrior, ReadNewest
  <2>3. PICK rec : Become(w, rec)
    BY <1>4 DEF ReadPrior, ReadNewest
  <2>. QED
    BY <1>m, <1>g, <2>1, <2>2, <2>3
<1>5. ASSUME NEW w \in Workers, CreateKey(w) PROVE NothingStranded'
  <2>1. /\ cred' = cred /\ missed' = missed /\ abandoned' = abandoned
        /\ overlapped' = overlapped
        /\ worker[w].pc \notin Rereading
    BY <1>5, <1>h DEF CreateKey, Rereading
  <2>2. CASE key[worker[w].to] = "none"
    <3>1. PICK n : n = worker[w].to
      OBVIOUS
    <3>2. /\ NewestIs(n - 1) /\ n \in Versions /\ n - 1 \in Versions
          /\ key' = [key EXCEPT ![n - 1] = "retired", ![n] = "active"]
      BY <1>5, <2>2, <3>1, CreatedNext
    <3>3. \A v \in Workers : worker'[v] =
            IF v = w THEN [worker[w] EXCEPT !.pc = "drop"] ELSE worker[v]
      BY <1>5, <2>2, Becoming DEF CreateKey
    <3>4. worker'[w].from = worker[w].from /\ worker'[w].pc \in Rereading
      <4>1. LET i == [worker[w] EXCEPT !.pc = "drop"] IN
              i.from = worker[w].from /\ i.pc \in Rereading
        BY Along DEF Rereading
      <4>. QED
        BY <3>3, <4>1
    <3>5. ~overlapped => worker[w].from = n - 1
      <4>1. ~overlapped => worker[w].from \in Versions /\ key[worker[w].from] = "active"
        BY <1>5 DEF CreateKey, RotationOK
      <4>2. \A u \in Versions : key[u] = "active" => u = n - 1
        BY <3>2 DEF NewestIs, Versions
      <4>. QED
        BY <4>1, <4>2
    <3>6. ASSUME NEW c \in Creds, Live(c), ~overlapped
          PROVE  Kept(c)'
      <4>1. CASE key[cred[c].version] = "active"
        <5>1. cred[c].version = n - 1
          BY <3>2, <3>6, <4>1 DEF SealedOK, NewestIs, Versions
        <5>2. worker'[w].from = cred[c].version
          BY <3>4, <3>5, <3>6, <5>1
        <5>. QED
          BY <2>1, <3>4, <5>2 DEF Kept
      <4>2. CASE \E v \in Workers : worker[v].from = cred[c].version /\ worker[v].pc \in Rereading
        BY <2>1, <3>3, <4>2 DEF Kept
      <4>. QED
        BY <1>a, <2>1, <3>6, <4>1, <4>2 DEF Kept
    <3>7. overlapped => \A c \in Creds : Kept(c)'
      BY <2>1 DEF Kept
    <3>. QED
      BY <1>b, <2>1, <3>6, <3>7 DEF Live
  <2>3. CASE key[worker[w].to] # "none"
    <3>1. key' = key /\ Become(w, Idle)
      BY <1>5, <2>3 DEF CreateKey
    <3>. QED
      BY <1>g, <1>m, <2>1, <3>1
  <2>. QED
    BY <2>2, <2>3
<1>6. ASSUME NEW w \in Workers, DropCache(w) \/ RecordRotation(w) PROVE NothingStranded'
  <2>1. /\ LET i == [worker[w] EXCEPT !.pc = "record"] IN
             i.from = worker[w].from /\ i.pc \in Rereading
        /\ LET i == [worker[w] EXCEPT !.pc = "batch"] IN
             i.from = worker[w].from /\ i.pc \in Rereading
    BY Along DEF Rereading
  <2>2. \A v \in Workers : worker[v].pc \in Rereading =>
          worker'[v].from = worker[v].from /\ worker'[v].pc \in Rereading
    BY <1>6, <1>m, <2>1 DEF DropCache, RecordRotation
  <2>3. key' = key /\ cred' = cred /\ missed' = missed /\ abandoned' = abandoned
        /\ overlapped' = overlapped
    BY <1>6, <1>d, <1>h DEF DropCache, RecordRotation
  <2>. QED
    BY <1>g, <2>2, <2>3
<1>7. ASSUME NEW w \in Workers, RewrapBatch(w) PROVE NothingStranded'
  <2>1. key' = key /\ cred' = cred /\ missed' = missed /\ abandoned' = abandoned
        /\ overlapped' = overlapped
    BY <1>7, <1>d, <1>h DEF RewrapBatch
  <2>2. CASE /\ {c \in Creds : Live(c) /\ cred[c].version = worker[w].from} = {}
             /\ Become(w, [worker[w] EXCEPT !.pc = "done"])
    <3>1. \A v \in Workers : v # w => worker'[v] = worker[v]
      BY <2>2, Becoming
    <3>2. ASSUME NEW c \in Creds, Live(c)
          PROVE  Kept(c)'
      <4>1. cred[c].version # worker[w].from
        BY <2>2, <3>2
      <4>. QED
        BY <1>f, <2>1, <3>1, <3>2, <4>1
    <3>. QED
      BY <1>b, <2>1, <3>2 DEF Live
  <2>3. ASSUME NEW b, Become(w, [worker[w] EXCEPT !.pc = "row", !.batch = b])
        PROVE  NothingStranded'
    <3>1. LET i == [worker[w] EXCEPT !.pc = "row", !.batch = b] IN
            i.from = worker[w].from /\ i.pc \in Rereading
      BY Along DEF Rereading
    <3>2. \A v \in Workers : worker[v].pc \in Rereading =>
            worker'[v].from = worker[v].from /\ worker'[v].pc \in Rereading
      BY <1>m, <2>3, <3>1
    <3>. QED
      BY <1>g, <2>1, <3>2
  <2>. QED
    BY <1>7, <2>2, <2>3 DEF RewrapBatch
<1>8. ASSUME NEW w \in Workers, RewrapRow(w) PROVE NothingStranded'
  <2>1. PICK c \in Creds, p \in {"batch", "row"} :
          /\ cred' = IF Live(c) /\ cred[c].version = worker[w].from
                     THEN [cred EXCEPT ![c].version = worker[w].to] ELSE cred
          /\ Become(w, [worker[w] EXCEPT !.batch = @ \ {c}, !.pc = p])
    <3>1. worker[w].batch \subseteq Creds
      BY DEF TypeOK
    <3>. QED
      BY <1>8, <3>1 DEF RewrapRow
  <2>2. LET i == [worker[w] EXCEPT !.batch = @ \ {c}, !.pc = p] IN
          i.from = worker[w].from /\ i.pc \in Rereading
    BY <2>1, Along DEF Rereading
  <2>3. \A v \in Workers : worker[v].pc \in Rereading =>
          worker'[v].from = worker[v].from /\ worker'[v].pc \in Rereading
    BY <1>m, <2>1, <2>2
  <2>4. key' = key /\ missed' = missed /\ abandoned' = abandoned /\ overlapped' = overlapped
    BY <1>8, <1>h DEF RewrapRow
  <2>5. ~overlapped => key[worker[w].to] = "active"
    BY <1>8 DEF RewrapRow, RotationOK, Created
  <2>6. ASSUME NEW d \in Creds, cred'[d].state = "live"
        PROVE  Live(d) /\ (cred'[d].version = cred[d].version \/ cred'[d].version = worker[w].to)
    BY <2>1, <2>6 DEF TypeOK, Live
  <2>7. ASSUME NEW d \in Creds, cred'[d].state = "live"
        PROVE  Kept(d)'
    <3>1. CASE cred'[d].version = cred[d].version
      BY <1>f, <2>3, <2>4, <2>6, <2>7, <3>1
    <3>2. CASE cred'[d].version = worker[w].to
      BY <2>4, <2>5, <3>2 DEF Kept
    <3>. QED
      BY <2>6, <2>7, <3>1, <3>2
  <2>. QED
    BY <1>b, <2>7
<1>9. ASSUME NEW w \in Workers, RotationDone(w) PROVE NothingStranded'
  <2>1. worker[w].pc \notin Rereading /\ key' = key /\ cred' = cred /\ missed' = missed
        /\ abandoned' = abandoned /\ overlapped' = overlapped
    BY <1>9, <1>h DEF RotationDone, Rereading
  <2>. QED
    BY <1>9, <1>g, <1>m, <2>1 DEF RotationDone
<1>c. \A W \in SUBSET Workers : \A w \in W :
        worker[w].pc \in Rereading => worker[w].from \in CutShort(W)
  BY DEF CutShort, Rereading
<1>10. ASSUME NEW w \in Workers, Throw(w) PROVE NothingStranded'
  <2>1. \A v \in Workers : v # w => worker'[v] = worker[v]
    BY <1>10, Becoming DEF Throw
  <2>2. worker[w].pc \in Rereading => worker[w].from \in abandoned'
    BY <1>10, <1>c DEF Throw
  <2>3. key' = key /\ cred' = cred /\ missed' = missed /\ abandoned \subseteq abandoned'
        /\ overlapped' = overlapped
    BY <1>10 DEF Throw
  <2>. QED
    BY <1>g, <2>1, <2>2, <2>3
<1>11. CASE Crash
  <2>1. \A w \in Workers : worker[w].pc \in Rereading => worker[w].from \in abandoned'
    BY <1>11, <1>c DEF Crash
  <2>2. key' = key /\ cred' = cred /\ missed' = missed /\ abandoned \subseteq abandoned'
        /\ overlapped' = overlapped
    BY <1>11, <1>d DEF Crash
  <2>. QED
    BY <1>g, <2>1, <2>2
<1>12. ASSUME NEW c \in Creds, Delete(c) PROVE NothingStranded'
  <2>1. \A d \in Creds : cred'[d].state = "live" => cred'[d] = cred[d]
    BY <1>12 DEF Delete, TypeOK
  <2>. QED
    BY <1>12, <1>g, <1>h, <2>1 DEF Delete
<1>13. CASE UNCHANGED vars
  BY <1>13, <1>g DEF vars
<1>. QED
  BY <1>1, <1>2, <1>3, <1>4, <1>5, <1>6, <1>7, <1>8, <1>9, <1>10, <1>11, <1>12, <1>13
     DEF Next, RotationStep

LEMMA CacheStep ==
  ASSUME VaultAssumption, IInv, [Next]_vars
  PROVE  CacheFollowsRotation'
<1> USE DEF IInv, CacheFollowsRotation
<1>b. ASSUME NEW w \in Workers, NEW rec, Become(w, rec), cache' = cache, key' = key, stale' = stale,
             worker[w].pc = "drop" => rec.pc = "drop"
      PROVE  CacheFollowsRotation'
  <2>1. \A v \in Workers : worker[v].pc = "drop" => worker'[v].pc = "drop"
    BY <1>b, Becoming
  <2>. QED
    BY <1>b, <2>1
<1>h. ASSUME UNCHANGED History PROVE stale' = stale
  BY <1>h DEF History
<1>d. ASSUME UNCHANGED Database PROVE key' = key
  BY <1>d DEF Database
<1>1. ASSUME NEW w \in Workers, UseKey(w) PROVE CacheFollowsRotation'
  <2>1. PICK v : v = IF worker[w].loaded # 0 THEN worker[w].loaded ELSE cache
    OBVIOUS
  <2>2. cache' = v /\ key' = key
    BY <1>1, <1>d, <2>1 DEF UseKey
  <2>3. CASE worker[w].loaded # 0
    BY <1>1, <2>1, <2>2, <2>3 DEF UseKey
  <2>4. CASE worker[w].loaded = 0
    <3>1. v = cache /\ cache # 0 /\ stale' = stale
      BY <1>1, <2>1, <2>4 DEF UseKey
    <3>2. worker[w].pc # "drop"
      BY <1>1 DEF UseKey
    <3>3. PICK rec : Become(w, rec)
      BY <1>1 DEF UseKey
    <3>. QED
      BY <1>b, <2>2, <3>1, <3>2, <3>3
  <2>. QED
    BY <2>3, <2>4
<1>2. ASSUME NEW w \in Workers, Request(w), ~UseKey(w) PROVE CacheFollowsRotation'
  <2>1. cache' = cache /\ key' = key /\ stale' = stale
    BY <1>2, <1>d, <1>h DEF Request, Seal, RotateKey, Unseal, ReplaceRead, ReadActiveKey, Write
  <2>i. Idle.pc # "drop"
    BY DEF Idle
  <2>2. worker[w].pc # "drop"
    BY <1>2, <2>i DEF Request, Seal, RotateKey, Unseal, ReplaceRead, ReadActiveKey, Write
  <2>3. PICK rec : Become(w, rec)
    BY <1>2 DEF Request, Seal, RotateKey, Unseal, ReplaceRead, ReadActiveKey, Write
  <2>. QED
    BY <1>b, <2>1, <2>2, <2>3
<1>3. ASSUME NEW w \in Workers, CreateKey(w) PROVE CacheFollowsRotation'
  <2>1. CASE Become(w, [worker[w] EXCEPT !.pc = "drop"])
    <3>1. [worker[w] EXCEPT !.pc = "drop"].pc = "drop"
      BY Along
    <3>2. worker'[w].pc = "drop"
      BY <2>1, <3>1, Becoming
    <3>. QED
      BY <3>2
  <2>2. CASE key' = key /\ Become(w, Idle)
    <3>1. worker[w].pc # "drop" /\ cache' = cache /\ stale' = stale
      BY <1>3, <1>h DEF CreateKey
    <3>. QED
      BY <1>b, <2>2, <3>1
  <2>. QED
    BY <1>3, <2>1, <2>2 DEF CreateKey
<1>4. ASSUME NEW w \in Workers, RotationStep(w), ~CreateKey(w), ~DropCache(w)
      PROVE CacheFollowsRotation'
  <2>1. cache' = cache /\ key' = key /\ stale' = stale
    BY <1>4, <1>d, <1>h DEF RotationStep, ReadPrior, ReadNewest, RecordRotation, RewrapBatch,
                            RewrapRow, RotationDone
  <2>2. worker[w].pc # "drop"
    BY <1>4 DEF RotationStep, ReadPrior, ReadNewest, RecordRotation, RewrapBatch,
                RewrapRow, RotationDone
  <2>3. PICK rec : Become(w, rec)
    BY <1>4 DEF RotationStep, ReadPrior, ReadNewest, RecordRotation, RewrapBatch,
                RewrapRow, RotationDone
  <2>. QED
    BY <1>b, <2>1, <2>2, <2>3
<1>5. ASSUME NEW w \in Workers, DropCache(w) PROVE CacheFollowsRotation'
  BY <1>5 DEF DropCache
<1>6. ASSUME NEW w \in Workers, Throw(w) PROVE CacheFollowsRotation'
  <2>1. cache' = cache /\ key' = key /\ Become(w, Idle) /\ stale' = (stale \/ worker[w].pc = "drop")
    BY <1>6 DEF Throw
  <2>2. CASE worker[w].pc = "drop"
    BY <2>1, <2>2
  <2>3. CASE worker[w].pc # "drop"
    <3>1. stale' = stale
      BY <2>1, <2>3 DEF TypeOK
    <3>. QED
      BY <1>b, <2>1, <2>3, <3>1
  <2>. QED
    BY <2>2, <2>3
<1>7. CASE Crash
  BY <1>7 DEF Crash
<1>8. CASE UNCHANGED vars \/ \E c \in Creds : Delete(c)
  <2>1. worker' = worker /\ cache' = cache /\ key' = key /\ stale' = stale
    BY <1>8, <1>h DEF vars, Delete
  <2>. QED
    BY <2>1
<1>. QED
  BY <1>1, <1>2, <1>3, <1>4, <1>5, <1>6, <1>7, <1>8 DEF Next

LEMMA Inductive == VaultAssumption /\ IInv /\ [Next]_vars => IInv'
<1> SUFFICES ASSUME VaultAssumption, IInv, [Next]_vars PROVE IInv'
  OBVIOUS
<1>1. TypeOK' /\ KeysOK' /\ CreateOK'
  BY TypeStep, KeysStep DEF IInv
<1>2. LocalsOK' /\ SealedOK' /\ RotationOK'
  BY LocalsStep, RotationsApart
<1>3. NothingStranded' /\ CacheFollowsRotation'
  BY StrandedStep, CacheStep
<1>. QED
  BY <1>1, <1>2, <1>3 DEF IInv

-----------------------------------------------------------------------------
(* The theorems.                                                           *)

\* Every reachable state satisfies the strengthened invariant: the database,
\* the cache and the locals of the requests of lib/crypto-key.ts and
\* lib/credential-vault.ts fit together.
THEOREM Invariance == ASSUME VaultAssumption PROVE Spec => []IInv
<1>1. Init => IInv
  BY Initially
<1>2. IInv /\ [Next]_vars => IInv'
  BY Inductive
<1>. QED
  BY <1>1, <1>2, PTL DEF Spec

\* Type correctness of the vault (Fl_CryptoKey, Fl_Credential and
\* Fl_CryptoRotation rows, prisma/schema.prisma).
THEOREM TypeCorrect == ASSUME VaultAssumption PROVE Spec => []TypeOK
<1>1. IInv => TypeOK
  BY DEF IInv
<1>. QED
  BY <1>1, Invariance, PTL

\* Exactly one version of the key is active, however many rotations overlap
\* and wherever they stop (createKey, lib/crypto-key.ts:180).
THEOREM OneKey == ASSUME VaultAssumption PROVE Spec => []OneActiveKey
<1>1. IInv => OneActiveKey
  <2>. SUFFICES ASSUME IInv PROVE OneActiveKey
    OBVIOUS
  <2>1. PICK n \in Versions : NewestIs(n)
    BY DEF IInv, KeysOK
  <2>2. \A u \in Versions : key[u] = "active" <=> u = n
    BY <2>1 DEF NewestIs, Versions
  <2>. QED
    BY <2>2 DEF OneActiveKey
<1>. QED
  BY <1>1, Invariance, PTL

\* No live credential is left under a retired key that no rewrap will read
\* again, but for the three races and faults that the model names
\* (app/api/admin/crypto/rotate/route.ts).
THEOREM Reached == ASSUME VaultAssumption PROVE Spec => []NothingStranded
<1>1. IInv => NothingStranded
  BY DEF IInv
<1>. QED
  BY <1>1, Invariance, PTL

\* The cache follows the database (getActiveKey, lib/crypto-key.ts:118).
THEOREM CacheFresh == ASSUME VaultAssumption PROVE Spec => []CacheFollowsRotation
<1>1. IInv => CacheFollowsRotation
  BY DEF IInv
<1>. QED
  BY <1>1, Invariance, PTL

\* A replaced credential is never written again: rewrapping reads the row
\* again under its lock, and nothing else writes a row that is not live.
THEOREM HistoryKept == ASSUME VaultAssumption PROVE Spec => ReplacedIsKept
<1>1. IInv /\ [Next]_vars =>
        [\A c \in Creds : cred[c].state = "replaced" => cred'[c] = cred[c]]_vars
  <2>. SUFFICES ASSUME IInv, Next, NEW c \in Creds, cred[c].state = "replaced"
                PROVE  cred'[c] = cred[c]
    OBVIOUS
  <2>t. cred \in [Creds -> [state : {"absent", "live", "replaced"}, version : 0..MaxVersion]]
    BY DEF IInv, TypeOK
  <2>1. ASSUME NEW w \in Workers, Write(w) PROVE cred'[c] = cred[c]
    <3>1. PICK d \in Creds :
            /\ cred[d] = Absent
            /\ cred' = [e \in Creds |->
                 CASE e = d -> [state |-> "live", version |-> worker[w].kek]
                   [] e = worker[w].old -> [cred[e] EXCEPT !.state = "replaced"]
                   [] OTHER -> cred[e]]
      BY <2>1 DEF Write
    <3>2. c # d
      BY <3>1 DEF Absent
    <3>3. [cred[c] EXCEPT !.state = "replaced"] = cred[c]
      BY <2>t
    <3>. QED
      BY <3>1, <3>2, <3>3
  <2>2. ASSUME NEW w \in Workers, RewrapRow(w) PROVE cred'[c] = cred[c]
    BY <2>2, <2>t DEF RewrapRow, Live
  <2>3. ASSUME NEW d \in Creds, Delete(d) PROVE cred'[c] = cred[c]
    BY <2>3, <2>t DEF Delete, Live
  <2>4. ASSUME NEW w \in Workers, Request(w), ~Write(w) PROVE cred'[c] = cred[c]
    BY <2>4 DEF Request, Seal, RotateKey, Unseal, ReplaceRead, ReadActiveKey, UseKey, Database
  <2>5. ASSUME NEW w \in Workers, RotationStep(w), ~RewrapRow(w) PROVE cred'[c] = cred[c]
    BY <2>5 DEF RotationStep, ReadPrior, ReadNewest, CreateKey, DropCache, RecordRotation,
                RewrapBatch, RotationDone, Database
  <2>6. ASSUME NEW w \in Workers, Throw(w) PROVE cred'[c] = cred[c]
    BY <2>6 DEF Throw
  <2>7. CASE Crash
    BY <2>7 DEF Crash, Database
  <2>. QED
    BY <2>1, <2>2, <2>3, <2>4, <2>5, <2>6, <2>7 DEF Next
<1>. QED
  BY <1>1, Invariance, PTL DEF Spec, ReplacedIsKept
=============================================================================
