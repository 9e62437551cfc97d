-------------------------------- MODULE Vault --------------------------------
(***************************************************************************)
(* The credential vault and its key-encryption key: lib/crypto-key.ts,     *)
(* lib/credential-vault.ts, app/api/admin/crypto/rotate/route.ts and       *)
(* app/api/admin/credentials, one awaited statement per action.            *)
(*                                                                         *)
(* A ciphertext is the version of the key it is sealed under: opening it   *)
(* with another version throws.  Requests to seal, unseal, replace and     *)
(* delete credentials run beside a rotation of the key, whose rewrap goes  *)
(* on in the background after its request was answered.  The active key    *)
(* is cached in the process; everything else is in the database.           *)
(*                                                                         *)
(* Left out: step-up and approval (Approval models the gate), disclosure   *)
(* logs, tenants and labels, progress counts, the other key purposes.      *)
(***************************************************************************)
EXTENDS Integers, FiniteSets

CONSTANTS
  Workers,            \* requests in flight at once
  Creds,              \* ids of credential rows
  MaxVersion,         \* bound: versions of the key
  REWRAP_BATCH_SIZE,  \* rows a rewrap reads at once
  MaxFaults,          \* bound: thrown database errors and crashes
  NoCred              \* not a credential

VARIABLES
  key,         \* Fl_CryptoKey: version -> "none", "active" or "retired"
  cache,       \* the version cached in the process, 0 when empty
  cred,        \* Fl_Credential rows
  rotation,    \* Fl_CryptoRotation rows, by toVersion
  worker,      \* what each request is doing, with its locals
  faults,      \* database errors and crashes so far
  missed,      \* history: rows sealed when no rewrap would read them any more
  abandoned,   \* history: versions whose rewrap was cut short
  overlapped,  \* history: two rotations passed the check together
  stale        \* history: the cache was last filled with a retired key, or the
               \*   drop after a commit never happened

vars == <<key, cache, cred, rotation, worker, faults,
          missed, abandoned, overlapped, stale>>

ASSUME VaultAssumption ==
  /\ MaxVersion \in Nat \ {0}
  /\ REWRAP_BATCH_SIZE \in Nat \ {0}
  /\ MaxFaults \in Nat
  /\ NoCred \notin Creds

Versions == 1..MaxVersion

Absent == [state |-> "absent", version |-> 0]

\* The locals: the credential read, the version of the key to use, the
\* version read to fill the cache with, and the rotation's versions and rows.
Idle == [pc |-> "idle", op |-> "none", old |-> NoCred, kek |-> 0, loaded |-> 0,
         from |-> 0, to |-> 0, batch |-> {}]

Steps == {"idle", "key", "derive", "write",
          "prior", "newest", "create", "drop", "record", "batch", "row", "done"}

Become(w, rec) == worker' = [worker EXCEPT ![w] = rec]

Live(c) == cred[c].state = "live"
ActiveVersion == CHOOSE v \in Versions :
  key[v] = "active" /\ \A u \in Versions : key[u] = "active" => u <= v
Newest == CHOOSE v \in Versions :
  key[v] # "none" /\ \A u \in Versions : key[u] # "none" => u <= v

Database == <<key, cred, rotation>>
History == <<missed, abandoned, overlapped, stale>>

\* Rotations of v whose rewrap is going to read the rows under v again.
WillRewrap(v) ==
  \E w \in Workers : worker[w].from = v
                     /\ worker[w].pc \in {"drop", "record", "batch", "row"}

Init ==
  /\ key = [v \in Versions |-> IF v = 1 THEN "active" ELSE "none"]
  /\ cache = 0
  /\ cred = [c \in Creds |-> Absent]
  /\ rotation = [v \in Versions |-> [from |-> 0, state |-> "none"]]
  /\ worker = [w \in Workers |-> Idle]
  /\ faults = 0
  /\ missed = {}
  /\ abandoned = {}
  /\ overlapped = FALSE
  /\ stale = FALSE

-----------------------------------------------------------------------------
(* Credentials                                                             *)

Seal(w) ==
  /\ worker[w] = Idle
  /\ Become(w, [Idle EXCEPT !.pc = "key", !.op = "seal"])
  /\ UNCHANGED <<Database, cache, faults, History>>

Unseal(w, c) ==
  /\ worker[w] = Idle
  /\ Live(c)
  /\ Become(w, [Idle EXCEPT !.pc = "derive", !.op = "unseal", !.kek = cred[c].version])
  /\ UNCHANGED <<Database, cache, faults, History>>

ReplaceRead(w, c) ==
  /\ worker[w] = Idle
  /\ Live(c)
  /\ Become(w, [Idle EXCEPT !.pc = "key", !.op = "replace", !.old = c])
  /\ UNCHANGED <<Database, cache, faults, History>>

\* getActiveKey with nothing cached: the row is read, the cache set later.
ReadActiveKey(w) ==
  /\ worker[w].pc \in {"key", "derive"}
  /\ worker[w].loaded = 0
  /\ cache = 0
  /\ Become(w, [worker[w] EXCEPT !.loaded = ActiveVersion])
  /\ UNCHANGED <<Database, cache, faults, History>>

\* The first key decides the version; deriveTenantDek gets the key again and
\* throws when it is another.
UseKey(w) ==
  /\ worker[w].pc \in {"key", "derive"}
  /\ worker[w].loaded # 0 \/ cache # 0
  /\ LET v == IF worker[w].loaded # 0 THEN worker[w].loaded ELSE cache IN
       /\ cache' = v
       /\ stale' = IF worker[w].loaded # 0 THEN key[v] # "active" ELSE stale
       /\ \/ /\ worker[w].pc = "key"
             /\ Become(w, [worker[w] EXCEPT !.pc = "derive", !.kek = v, !.loaded = 0])
          \/ /\ worker[w].pc = "derive"
             /\ worker[w].kek = v /\ worker[w].op # "unseal"
             /\ Become(w, [worker[w] EXCEPT !.pc = "write", !.loaded = 0])
          \/ /\ worker[w].pc = "derive"
             /\ worker[w].kek # v \/ worker[w].op = "unseal"
             /\ Become(w, Idle)
  /\ UNCHANGED <<Database, faults, missed, abandoned, overlapped>>

\* seal's create, or rotate's transaction: by id, whatever the row replaced
\* has become.
Write(w) ==
  /\ worker[w].pc = "write"
  /\ LET v == worker[w].kek
         old == worker[w].old IN
     \E c \in Creds :
       /\ cred[c] = Absent
       /\ cred' = [d \in Creds |->
            CASE d = c -> [state |-> "live", version |-> v]
              [] d = old -> [cred[d] EXCEPT !.state = "replaced"]
              [] OTHER -> cred[d]]
       /\ missed' = IF key[v] = "active" \/ WillRewrap(v) THEN missed
                    ELSE missed \union {c}
  /\ Become(w, Idle)
  /\ UNCHANGED <<key, cache, rotation, faults, abandoned, overlapped, stale>>

Delete(c) ==
  /\ Live(c)
  /\ cred' = [cred EXCEPT ![c].state = "replaced"]
  /\ UNCHANGED <<key, cache, rotation, worker, faults, History>>

-----------------------------------------------------------------------------
(* Rotation of the key                                                     *)

RotateKey(w) ==
  /\ worker[w] = Idle
  /\ \A v \in Versions : rotation[v].state # "in-progress"
  /\ Newest < MaxVersion
  /\ Become(w, [Idle EXCEPT !.pc = "prior", !.op = "rotate"])
  /\ overlapped' = (overlapped \/ \E v \in Workers :
                      worker[v].pc \in {"prior", "newest", "create", "drop", "record"})
  /\ UNCHANGED <<Database, cache, faults, missed, abandoned, stale>>

ReadPrior(w) ==
  /\ worker[w].pc = "prior"
  /\ Become(w, [worker[w] EXCEPT !.pc = "newest", !.from = ActiveVersion])
  /\ UNCHANGED <<Database, cache, faults, History>>

\* createKey reads the newest version, retired or not.
ReadNewest(w) ==
  /\ worker[w].pc = "newest"
  /\ Newest < MaxVersion
  /\ Become(w, [worker[w] EXCEPT !.pc = "create", !.to = Newest + 1])
  /\ UNCHANGED <<Database, cache, faults, History>>

\* Mutant of CreateKey: the next version is worked out inside the transaction, the row to retire
\* is still the one read before.
CreateKeyRecount(w) ==
  /\ worker[w].pc = "create"
  /\ Newest < MaxVersion
  /\ key' = [key EXCEPT ![worker[w].to - 1] = "retired", ![Newest + 1] = "active"]
  /\ Become(w, [worker[w] EXCEPT !.pc = "drop", !.to = Newest + 1])
  /\ UNCHANGED <<cred, rotation, cache, faults, History>>

\* One transaction; a version that exists by now makes it throw.
CreateKey(w) ==
  /\ worker[w].pc = "create"
  /\ LET v == worker[w].to IN
       \/ /\ key[v] = "none"
          /\ key' = [key EXCEPT ![v - 1] = "retired", ![v] = "active"]
          /\ Become(w, [worker[w] EXCEPT !.pc = "drop"])
       \/ /\ key[v] # "none"
          /\ Become(w, Idle)
          /\ UNCHANGED key
  /\ UNCHANGED <<cred, rotation, cache, faults, History>>

\* Mutant of DropCache: the cache is left alone after a rotation.
DropCacheNot(w) ==
  /\ worker[w].pc = "drop"
  /\ Become(w, [worker[w] EXCEPT !.pc = "record"])
  /\ UNCHANGED <<Database, cache, faults, History>>

DropCache(w) ==
  /\ worker[w].pc = "drop"
  /\ cache' = 0
  /\ stale' = FALSE
  /\ Become(w, [worker[w] EXCEPT !.pc = "record"])
  /\ UNCHANGED <<Database, faults, missed, abandoned, overlapped>>

RecordRotation(w) ==
  /\ worker[w].pc = "record"
  /\ rotation' = [rotation EXCEPT ![worker[w].to] =
                    [from |-> worker[w].from, state |-> "in-progress"]]
  /\ Become(w, [worker[w] EXCEPT !.pc = "batch"])
  /\ UNCHANGED <<key, cred, cache, faults, History>>

\* Batches are read until one is empty.
RewrapBatch(w) ==
  /\ worker[w].pc = "batch"
  /\ LET rows == {c \in Creds : Live(c) /\ cred[c].version = worker[w].from} IN
       \/ /\ rows = {}
          /\ Become(w, [worker[w] EXCEPT !.pc = "done"])
       \/ \E batch \in SUBSET rows :
            /\ batch # {}
            /\ Cardinality(batch) <= REWRAP_BATCH_SIZE
            /\ batch # rows => Cardinality(batch) = REWRAP_BATCH_SIZE
            /\ Become(w, [worker[w] EXCEPT !.pc = "row", !.batch = batch])
  /\ UNCHANGED <<Database, cache, faults, History>>

\* Mutant of RewrapRow: the rewrap reads its rows once.
RewrapRowOnce(w) ==
  /\ worker[w].pc = "row"
  /\ \E c \in worker[w].batch :
       /\ cred' = IF Live(c) /\ cred[c].version = worker[w].from
                  THEN [cred EXCEPT ![c].version = worker[w].to] ELSE cred
       /\ Become(w, [worker[w] EXCEPT
            !.batch = @ \ {c},
            !.pc = IF worker[w].batch = {c} THEN "done" ELSE "row"])
  /\ UNCHANGED <<key, rotation, cache, faults, History>>

\* Mutant of RewrapRow: the row is not read again under its lock.
RewrapRowBlind(w) ==
  /\ worker[w].pc = "row"
  /\ \E c \in worker[w].batch :
       /\ cred' = [cred EXCEPT ![c].version = worker[w].to]
       /\ Become(w, [worker[w] EXCEPT
            !.batch = @ \ {c},
            !.pc = IF worker[w].batch = {c} THEN "batch" ELSE "row"])
  /\ UNCHANGED <<key, rotation, cache, faults, History>>

\* The row is read again under its lock.
RewrapRow(w) ==
  /\ worker[w].pc = "row"
  /\ \E c \in worker[w].batch :
       /\ cred' = IF Live(c) /\ cred[c].version = worker[w].from
                  THEN [cred EXCEPT ![c].version = worker[w].to] ELSE cred
       /\ Become(w, [worker[w] EXCEPT
            !.batch = @ \ {c},
            !.pc = IF worker[w].batch = {c} THEN "batch" ELSE "row"])
  /\ UNCHANGED <<key, rotation, cache, faults, History>>

\* Mutant of RotationDone: a state the schema does not have.
RotationCompleted(w) ==
  /\ worker[w].pc = "done"
  /\ rotation' = [rotation EXCEPT ![worker[w].to].state = "completed"]
  /\ Become(w, Idle)
  /\ UNCHANGED <<key, cred, cache, faults, History>>

RotationDone(w) ==
  /\ worker[w].pc = "done"
  /\ rotation' = [rotation EXCEPT ![worker[w].to].state = "done"]
  /\ Become(w, Idle)
  /\ UNCHANGED <<key, cred, cache, faults, History>>

-----------------------------------------------------------------------------
(* Faults                                                                  *)

\* The versions some of whose rewraps end where w is.
CutShort(W) ==
  {worker[w].from : w \in {v \in W :
     worker[v].pc \in {"drop", "record", "batch", "row"}}}

\* A statement throws.  Once the rewrap has begun its handler marks the
\* rotation failed, unless that write throws too; before, nobody does.  A
\* commit whose answer is lost throws as well: the cache is not dropped then.
Throw(w) ==
  /\ worker[w] # Idle
  /\ faults < MaxFaults
  /\ faults' = faults + 1
  /\ \/ UNCHANGED rotation
     \/ /\ worker[w].pc \in {"batch", "row", "done"}
        /\ rotation' = [rotation EXCEPT ![worker[w].to].state = "failed"]
  /\ Become(w, Idle)
  /\ abandoned' = abandoned \union CutShort({w})
  /\ stale' = (stale \/ worker[w].pc = "drop")
  /\ UNCHANGED <<key, cred, cache, missed, overlapped>>

\* The process restarts: requests, rewraps and the cache are gone.  Nothing
\* resumes a rotation.
Crash ==
  /\ faults < MaxFaults
  /\ faults' = faults + 1
  /\ worker' = [w \in Workers |-> Idle]
  /\ cache' = 0
  /\ stale' = FALSE
  /\ abandoned' = abandoned \union CutShort(Workers)
  /\ UNCHANGED <<Database, missed, overlapped>>

-----------------------------------------------------------------------------
\* The steps of a rotation that has begun.
RotationStep(w) ==
  \/ ReadPrior(w) \/ ReadNewest(w) \/ CreateKey(w) \/ DropCache(w)
  \/ RecordRotation(w) \/ RewrapBatch(w) \/ RewrapRow(w) \/ RotationDone(w)

Request(w) ==
  \/ Seal(w) \/ RotateKey(w)
  \/ \E c \in Creds : Unseal(w, c) \/ ReplaceRead(w, c)
  \/ ReadActiveKey(w) \/ UseKey(w) \/ Write(w)

Next ==
  \/ \E w \in Workers : Request(w) \/ RotationStep(w) \/ Throw(w)
  \/ \E c \in Creds : Delete(c)
  \/ Crash

Spec == Init /\ [][Next]_vars

-----------------------------------------------------------------------------
(* Properties                                                              *)

TypeOK ==
  /\ key \in [Versions -> {"none", "active", "retired"}]
  /\ cache \in 0..MaxVersion
  /\ cred \in [Creds -> [state : {"absent", "live", "replaced"},
                         version : 0..MaxVersion]]
  /\ rotation \in [Versions -> [from : 0..MaxVersion,
                                state : {"none", "in-progress", "done", "failed"}]]
  /\ worker \in [Workers -> [pc : Steps, op : {"none", "seal", "unseal", "replace", "rotate"},
                             old : Creds \union {NoCred},
                             kek : 0..MaxVersion, loaded : 0..MaxVersion,
                             from : 0..MaxVersion, to : 0..MaxVersion,
                             batch : SUBSET Creds]]
  /\ faults \in 0..MaxFaults
  /\ missed \subseteq Creds
  /\ abandoned \subseteq 0..MaxVersion
  /\ overlapped \in BOOLEAN
  /\ stale \in BOOLEAN

\* Exactly one version of the key is active, even when rotations overlap:
\* of two that read the same newest version the unique index lets one create
\* the next (createKey, crypto-key.ts:180).
OneActiveKey == \E v \in Versions : \A u \in Versions : key[u] = "active" <=> u = v

\* A live credential is sealed under the active key, which is all unseal can
\* open, or a rewrap is going to reach it, unless it was sealed late, its
\* rewrap was cut short, or two rotations overlapped.  In particular what is
\* sealed under the old key while the rewrap runs is still rewrapped.
NothingStranded ==
  \A c \in Creds : Live(c) =>
    \/ key[cred[c].version] = "active"
    \/ WillRewrap(cred[c].version)
    \/ c \in missed
    \/ cred[c].version \in abandoned
    \/ overlapped

\* The cached key is the active one, but for the moment between a rotation's
\* commit and its drop of the cache, for a cache filled from a row read before a
\* rotation (getActiveKey, crypto-key.ts:118), and for a commit whose answer
\* was lost.
CacheFollowsRotation ==
  cache # 0 /\ key[cache] # "active" =>
    stale \/ \E w \in Workers : worker[w].pc = "drop"

\* A replaced row is history: no rewrap that listed it while it was live
\* writes it, and nothing brings it back.
ReplacedIsKept ==
  [][\A c \in Creds : cred[c].state = "replaced" => cred'[c] = cred[c]]_vars

=============================================================================
