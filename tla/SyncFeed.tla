------------------------------ MODULE SyncFeed ------------------------------
(***************************************************************************)
(* The incremental synchronisation of one user's data: backend requests    *)
(* that write versioned rows and encrypted blobs, the handler of           *)
(* GET /sync/changes, and the desktops that pull into a local cache.       *)
(*                                                                         *)
(* Users do not interact: every query filters by user_id and sync_state    *)
(* has a row per user, so one user is the whole story.                     *)
(*                                                                         *)
(* The content of a row is not represented.  A committed write that stamps *)
(* takes a version of its own, so the version names what it wrote.  Some   *)
(* writes do not stamp: those of notifications, and the foreign keys that  *)
(* a deletion clears.  "unseen" says which of them a cache does not hold.  *)
(***************************************************************************)
EXTENDS Naturals, FiniteSets

CONSTANTS
  Rows,        \* rows of the synchronised tables
  Blobs,       \* blobs of blob_storage
  Unversioned, \* the rows of notifications, whose writes take no version
  Referring,   \* the rows with foreign keys ON DELETE SET NULL: domains
  TableCount,  \* how many tables /changes selects from, blob_storage last
  TableOf,     \* position of an entity's table in that order
  Writers,     \* backend requests that may run at the same time
  Pulls,       \* desktop processes, each running one pull at a time
  Caches,      \* local cache files
  CacheOf,     \* the cache file a desktop process opens
  MaxVersion,  \* bound: versions handed out
  MaxFaults    \* bound: pulls that fail or are killed

Entities == Rows \cup Blobs

ASSUME EntitiesAssumption ==
  Rows \cap Blobs = {} /\ Unversioned \subseteq Rows /\ Referring \subseteq Rows
ASSUME TableAssumption ==
  /\ TableCount \in Nat \ {0}
  /\ TableOf \in [Entities -> 1..TableCount]
  /\ \A b \in Blobs : TableOf[b] = TableCount
ASSUME CacheAssumption == CacheOf \in [Pulls -> Caches]
ASSUME BoundAssumption == MaxVersion \in Nat /\ MaxFaults \in Nat

VARIABLES
  current,      \* committed sync_state.current_version, 0 while the row is absent
  version,      \* committed version of each entity
  status,       \* "absent", "live" or "dead": hard-deleted row, or blob marked deleted
  writer,       \* the transaction of each backend request
  pull,         \* the pull of each desktop process, with the answer it carries
  cached,       \* version of each entity in each cache, 0 if not there
  lastVersion,  \* meta.last_version of each cache
  faults,       \* pulls that failed so far
  raced,        \* history: entities a cursor has passed without their last write
  unseen,       \* rows of which a cache lacks the last change that took no version
  outdated      \* rows changed so since the pull of each process selected them

serverVars == <<current, version, status>>
changeVars == <<unseen, outdated>>
cacheVars == <<cached, lastVersion, faults, raced, changeVars>>
vars == <<current, version, status, writer, pull, cached, lastVersion, faults, raced,
          unseen, outdated>>

Nothing == [e \in Entities |-> 0]

IdleWriter == [phase |-> "idle", op |-> "rows", blob |-> {}, saw |-> "absent",
               fresh |-> FALSE, ver |-> 0, staged |-> Nothing]

IdlePull == [stage |-> "idle", since |-> 0, table |-> 1, seen |-> Nothing,
             upTo |-> 0, missed |-> {}]

Init ==
  /\ current = 0
  /\ version = Nothing
  /\ status = [e \in Entities |-> "absent"]
  /\ writer = [w \in Writers |-> IdleWriter]
  /\ pull = [p \in Pulls |-> IdlePull]
  /\ cached = [c \in Caches |-> Nothing]
  /\ lastVersion = [c \in Caches |-> 0]
  /\ faults = 0
  /\ raced = [c \in Caches |-> {}]
  /\ unseen = [c \in Caches |-> {}]
  /\ outdated = [p \in Pulls |-> {}]

-----------------------------------------------------------------------------
(* Backend writers.  Each is one request in one transaction: it may load a  *)
(* blob, asks for sync_state FOR UPDATE, bumps, stages its rows, commits.   *)

\* A service that writes rows begins: create, update, apply_metrics, bulk_create.
BeginRows(w) ==
  /\ writer[w].phase = "idle"
  /\ writer' = [writer EXCEPT ![w].phase = "loaded", ![w].op = "rows"]
  /\ UNCHANGED <<serverVars, pull, cacheVars>>

\* PUT /blobs/{id} and DELETE /blobs/{id} load the blob before they hold any
\* lock; the delete of a blob that has no row answers 404 and never begins.
BeginBlob(w, b, op) ==
  /\ writer[w].phase = "idle"
  /\ op = "delete" => status[b] # "absent"
  /\ writer' = [writer EXCEPT ![w].phase = "loaded", ![w].op = op,
                              ![w].blob = {b}, ![w].saw = status[b]]
  /\ UNCHANGED <<serverVars, pull, cacheVars>>

\* bump_version runs its SELECT ... FOR UPDATE: with no row there is nothing
\* to lock, and the request will insert one.
AskForLock(w) ==
  /\ writer[w].phase = "loaded"
  /\ writer' = [writer EXCEPT ![w].phase = "waiting", ![w].fresh = (current = 0)]
  /\ UNCHANGED <<serverVars, pull, cacheVars>>

Locked(w) == writer[w].phase = "locked"

\* MUTANT of Acquire: the SELECT of bump_version without its FOR UPDATE.
AcquireWithoutLock(w) ==
  /\ writer[w].phase = "waiting"
  /\ writer' = [writer EXCEPT ![w].phase = "locked", ![w].ver = current]
  /\ UNCHANGED <<serverVars, pull, cacheVars>>

\* The lock is granted when no other transaction holds the row, committed or
\* inserted; the version read is then the newest committed one.
Acquire(w) ==
  /\ writer[w].phase = "waiting"
  /\ \A x \in Writers : ~ Locked(x)
  /\ writer[w].fresh => current = 0
  /\ writer' = [writer EXCEPT ![w].phase = "locked", ![w].ver = current]
  /\ UNCHANGED <<serverVars, pull, cacheVars>>

\* Two first writes of a user both saw no row; the second INSERT meets the
\* primary key and its request fails.
FirstWriteConflict(w) ==
  /\ writer[w].phase = "waiting"
  /\ writer[w].fresh
  /\ current # 0
  /\ writer' = [writer EXCEPT ![w] = IdleWriter]
  /\ UNCHANGED <<serverVars, pull, cacheVars>>

\* MUTANT of Stage: the rows are stamped before the counter is bumped.
StageBeforeBump(w, S) ==
  /\ Locked(w)
  /\ writer[w].op = "rows"
  /\ S \subseteq Rows \ Unversioned
  /\ \A r \in S : status[r] # "dead"
  /\ writer[w].ver < MaxVersion
  /\ writer' = [writer EXCEPT
        ![w].ver = @ + 1,
        ![w].staged = [e \in Entities |-> IF e \in S THEN writer[w].ver ELSE @[e]]]
  /\ UNCHANGED <<serverVars, pull, cacheVars>>

\* bump_version under the lock, and the rows stamped with the new version: one
\* row for touch_entity_sync, several or none (the ids matched nothing) for
\* _set_links, repeated by bulk_create.
Stage(w, S) ==
  /\ Locked(w)
  /\ writer[w].ver < MaxVersion
  /\ \/ /\ writer[w].op = "rows"
        /\ S \subseteq Rows \ Unversioned
        /\ \A r \in S : status[r] # "dead"
     \/ /\ writer[w].op # "rows"
        /\ S = writer[w].blob
        /\ \A e \in Entities : writer[w].staged[e] = 0
  /\ writer' = [writer EXCEPT
        ![w].ver = @ + 1,
        ![w].staged = [e \in Entities |-> IF e \in S THEN writer[w].ver + 1 ELSE @[e]]]
  /\ UNCHANGED <<serverVars, pull, cacheVars>>

Written(w) == {e \in Entities : writer[w].staged[e] # 0}

\* What an UPDATE or INSERT makes of the entity's status.  The ORM writes only
\* the columns that differ from what it loaded, so a put that loaded a live blob
\* does not clear a deletion committed since, and the other way round.
StatusAfter(w, e) ==
  CASE writer[w].op = "rows" -> "live"
    [] writer[w].op = "put" /\ writer[w].saw \in {"absent", "dead"} -> "live"
    [] writer[w].op = "delete" /\ writer[w].saw = "live" -> "dead"
    [] OTHER -> status[e]

\* An UPDATE of a row deleted meanwhile matches nothing and an INSERT of a blob
\* inserted meanwhile meets the primary key: both abort instead.
CanCommit(w) ==
  /\ Locked(w)
  /\ writer[w].ver > current
  /\ \A e \in Written(w) :
        /\ writer[w].op = "rows" => status[e] # "dead"
        /\ writer[w].op = "put" /\ writer[w].saw = "absent" => status[e] = "absent"

\* COMMIT: the counter and the staged entities become visible together.  A pull
\* that has already selected an entity's table will not see it (history).
Commit(w) ==
  /\ CanCommit(w)
  /\ current' = writer[w].ver
  /\ version' = [e \in Entities |-> IF e \in Written(w) THEN writer[w].staged[e] ELSE version[e]]
  /\ status' = [e \in Entities |-> IF e \in Written(w) THEN StatusAfter(w, e) ELSE status[e]]
  /\ writer' = [writer EXCEPT ![w] = IdleWriter]
  /\ pull' = [p \in Pulls |->
        IF pull[p].stage = "selecting"
        THEN [pull[p] EXCEPT !.missed = @ \cup {e \in Written(w) : TableOf[e] < pull[p].table}]
        ELSE pull[p]]
  /\ UNCHANGED cacheVars

\* The request fails or its connection drops at any point: nothing it staged
\* becomes visible and the lock is free.
Abort(w) ==
  /\ writer[w].phase # "idle"
  /\ writer' = [writer EXCEPT ![w] = IdleWriter]
  /\ UNCHANGED <<serverVars, pull, cacheVars>>

\* The rows of S are changed and no version is taken: no cache has the change, nor
\* has the answer of a pull that selected them before.
ChangeUnstamped(S) ==
  /\ unseen' = [c \in Caches |-> unseen[c] \cup S]
  /\ outdated' = [p \in Pulls |-> outdated[p] \cup {r \in S : pull[p].seen[r] # 0}]

\* A notification is created, or marked as read: sync_version stays 0.
WriteUnversioned(r) ==
  /\ r \in Unversioned
  /\ status[r] # "dead"
  /\ status' = [status EXCEPT ![r] = "live"]
  /\ ChangeUnstamped({r})
  /\ UNCHANGED <<current, version, writer, pull, cached, lastVersion, faults, raced>>

\* DELETE of a row is a real DELETE: no version is taken and no tombstone stays,
\* and the domains of S that refer to the row lose the reference as they are.
DeleteRow(r, S) ==
  /\ status[r] = "live"
  /\ S \subseteq {x \in Referring : status[x] = "live"}
  /\ r \in Referring \cup Unversioned => S = {}
  /\ status' = [status EXCEPT ![r] = "dead"]
  /\ ChangeUnstamped(S)
  /\ UNCHANGED <<current, version, writer, pull, cached, lastVersion, faults, raced>>

-----------------------------------------------------------------------------
(* The pull of a desktop: pull_with_key on the client, changes() on the    *)
(* backend, one SELECT per table and each with a snapshot of its own.      *)

Cache(p) == CacheOf[p]

\* The client opens the cache, reads last_version and sends the request.
StartPull(p) ==
  /\ pull[p].stage = "idle"
  /\ pull' = [pull EXCEPT ![p] =
                 [IdlePull EXCEPT !.stage = "selecting", !.since = lastVersion[Cache(p)]]]
  /\ outdated' = [outdated EXCEPT ![p] = {}]
  /\ UNCHANGED <<serverVars, writer, cached, lastVersion, faults, raced, unseen>>

\* Rows deleted for good are not there to select; deleted blobs are.
Selectable(e) == status[e] = "live" \/ (e \in Blobs /\ status[e] = "dead")

\* MUTANT of SelectTable: the loop over the tables does not stop at the last.
SelectTableForever(p) ==
  /\ pull[p].stage = "selecting"
  /\ pull' = [pull EXCEPT ![p].table = @ + 1]
  /\ UNCHANGED <<serverVars, writer, cacheVars>>

\* MUTANT of SelectTable: the row at the cursor is selected again.
SelectTableInclusive(p) ==
  /\ pull[p].stage = "selecting"
  /\ pull[p].table <= TableCount
  /\ pull' = [pull EXCEPT
        ![p].table = @ + 1,
        ![p].seen = [e \in Entities |->
            IF TableOf[e] = pull[p].table /\ Selectable(e) /\ version[e] >= pull[p].since
            THEN version[e] ELSE @[e]]]
  /\ UNCHANGED <<serverVars, writer, cacheVars>>

\* One iteration over SCOPED_MODELS, or the query for the blob ids.
SelectTable(p) ==
  /\ pull[p].stage = "selecting"
  /\ pull[p].table <= TableCount
  /\ pull' = [pull EXCEPT
        ![p].table = @ + 1,
        ![p].seen = [e \in Entities |->
            IF TableOf[e] = pull[p].table /\ Selectable(e) /\ version[e] > pull[p].since
            THEN version[e] ELSE @[e]]]
  /\ UNCHANGED <<serverVars, writer, cacheVars>>

\* MUTANT of AnswerChanges: the answer goes out without the blob ids.
AnswerWithoutBlobs(p) ==
  /\ pull[p].stage = "selecting"
  /\ pull[p].table = TableCount
  /\ pull' = [pull EXCEPT ![p].stage = "applying", ![p].upTo = current]
  /\ UNCHANGED <<serverVars, writer, cacheVars>>

\* current_version is read last, after every table, and the answer is sent.
AnswerChanges(p) ==
  /\ pull[p].stage = "selecting"
  /\ pull[p].table = TableCount + 1
  /\ pull' = [pull EXCEPT ![p].stage = "applying", ![p].upTo = current]
  /\ UNCHANGED <<serverVars, writer, cacheVars>>

Pending(p) == {e \in Entities : pull[p].seen[e] # 0}

\* INSERT OR REPLACE of the version the client got, whatever the cache holds.
Store(p, e, v) ==
  /\ cached' = [cached EXCEPT ![Cache(p)][e] = v]
  /\ raced' = [raced EXCEPT ![Cache(p)] = IF v = version[e] THEN @ \ {e} ELSE @]
  /\ unseen' = [unseen EXCEPT ![Cache(p)] = IF e \in outdated[p] THEN @ \cup {e} ELSE @ \ {e}]
  /\ pull' = [pull EXCEPT ![p].seen[e] = 0]
  /\ UNCHANGED <<serverVars, writer, lastVersion, faults, outdated>>

\* One row of the answer, committed to the cache on its own.
ApplyRow(p, r) ==
  /\ pull[p].stage = "applying"
  /\ r \in Pending(p)
  /\ Store(p, r, pull[p].seen[r])

\* One blob of the answer: the client fetches it, and gets what is there now.
ApplyBlob(p, b) ==
  /\ pull[p].stage = "applying"
  /\ Pending(p) \cap Rows = {}
  /\ b \in Pending(p)
  /\ status[b] = "live"
  /\ Store(p, b, version[b])

\* GET /blobs/{id} of a deleted blob answers 404 and the whole pull fails.
BlobMissing(p, b) ==
  /\ pull[p].stage = "applying"
  /\ Pending(p) \cap Rows = {}
  /\ b \in Pending(p)
  /\ status[b] # "live"
  /\ pull' = [pull EXCEPT ![p] = IdlePull]
  /\ UNCHANGED <<serverVars, writer, cacheVars>>

\* MUTANT of FinishPull: the cursor is saved before the rows are.
FinishPullEarly(p) ==
  /\ pull[p].stage = "applying"
  /\ lastVersion' = [lastVersion EXCEPT ![Cache(p)] = pull[p].upTo]
  /\ raced' = [raced EXCEPT ![Cache(p)] = @ \cup pull[p].missed]
  /\ pull' = [pull EXCEPT ![p] = IdlePull]
  /\ UNCHANGED <<serverVars, writer, cached, faults, changeVars>>

\* MUTANT of FinishPull: the cursor is not saved.
FinishPullWithoutMeta(p) ==
  /\ pull[p].stage = "applying"
  /\ Pending(p) = {}
  /\ pull' = [pull EXCEPT ![p] = IdlePull]
  /\ UNCHANGED <<serverVars, writer, cacheVars>>

\* set_meta, once everything has been applied.
FinishPull(p) ==
  /\ pull[p].stage = "applying"
  /\ Pending(p) = {}
  /\ lastVersion' = [lastVersion EXCEPT ![Cache(p)] = pull[p].upTo]
  /\ raced' = [raced EXCEPT ![Cache(p)] = @ \cup pull[p].missed]
  /\ pull' = [pull EXCEPT ![p] = IdlePull]
  /\ UNCHANGED <<serverVars, writer, cached, faults, changeVars>>

\* MUTANT of FailPull: a failed pull throws the cursor away.
FailPullResets(p) ==
  /\ pull[p].stage # "idle"
  /\ faults < MaxFaults
  /\ faults' = faults + 1
  /\ lastVersion' = [lastVersion EXCEPT ![Cache(p)] = 0]
  /\ pull' = [pull EXCEPT ![p] = IdlePull]
  /\ UNCHANGED <<serverVars, writer, cached, raced, changeVars>>

\* A request is lost, the cache is locked for too long or the application is
\* killed: what was applied stays, the cursor does not move.
FailPull(p) ==
  /\ pull[p].stage # "idle"
  /\ faults < MaxFaults
  /\ faults' = faults + 1
  /\ pull' = [pull EXCEPT ![p] = IdlePull]
  /\ UNCHANGED <<serverVars, writer, cached, lastVersion, raced, changeVars>>

-----------------------------------------------------------------------------
WriterStep(w) ==
  \/ BeginRows(w)
  \/ \E b \in Blobs, op \in {"put", "delete"} : BeginBlob(w, b, op)
  \/ AskForLock(w)
  \/ Acquire(w)
  \/ FirstWriteConflict(w)
  \/ \E S \in SUBSET Entities : Stage(w, S)
  \/ Commit(w)
  \/ Abort(w)

PullProgress(p) ==
  \/ SelectTable(p)
  \/ AnswerChanges(p)
  \/ \E r \in Rows : ApplyRow(p, r)
  \/ \E b \in Blobs : ApplyBlob(p, b) \/ BlobMissing(p, b)
  \/ FinishPull(p)

Next ==
  \/ \E w \in Writers : WriterStep(w)
  \/ \E r \in Rows : WriteUnversioned(r)
  \/ \E r \in Rows, S \in SUBSET Rows : DeleteRow(r, S)
  \/ \E p \in Pulls : StartPull(p) \/ PullProgress(p) \/ FailPull(p)

Spec == Init /\ [][Next]_vars

\* A request in flight is answered and an answer is applied; the user goes on
\* issuing commands, and every command pulls first.
Fairness == \A p \in Pulls : WF_vars(PullProgress(p)) /\ WF_vars(StartPull(p))

FairSpec == Spec /\ Fairness

-----------------------------------------------------------------------------
WriterRecord ==
  [phase: {"idle", "loaded", "waiting", "locked"}, op: {"rows", "put", "delete"},
   blob: SUBSET Blobs, saw: {"absent", "live", "dead"}, fresh: BOOLEAN,
   ver: Nat, staged: [Entities -> Nat]]

PullRecord ==
  [stage: {"idle", "selecting", "applying"}, since: Nat, table: 1..(TableCount + 1),
   seen: [Entities -> Nat], upTo: Nat, missed: SUBSET Entities]

TypeOK ==
  /\ current \in Nat
  /\ version \in [Entities -> Nat]
  /\ status \in [Entities -> {"absent", "live", "dead"}]
  /\ writer \in [Writers -> WriterRecord]
  /\ pull \in [Pulls -> PullRecord]
  /\ cached \in [Caches -> [Entities -> Nat]]
  /\ lastVersion \in [Caches -> Nat]
  /\ faults \in Nat
  /\ raced \in [Caches -> SUBSET Entities]
  /\ unseen \in [Caches -> SUBSET Rows]
  /\ outdated \in [Pulls -> SUBSET Rows]

\* What makes a version usable as a cursor (bump_version): whoever reads the
\* counter has already been able to read everything stamped up to it, so no write
\* in progress, by any request, may later appear at or below a published version.
NothingAppearsBelowTheCounter ==
  /\ \A e \in Entities : version[e] <= current
  /\ \A w \in Writers, e \in Entities :
        Locked(w) /\ writer[w].staged[e] # 0 => writer[w].staged[e] > current

\* Every committed change of an entity is stamped above everything any reader
\* could have been told before it, whatever the interleaving of the requests.
CommitsAreOrdered ==
  [][\A e \in Entities : version'[e] # version[e] =>
        version'[e] > current /\ version'[e] <= current']_vars

Lost(c, e) ==
  /\ status[e] = "live"
  /\ cached[c][e] < version[e]
  /\ version[e] <= lastVersion[c]

\* A pull that fails or is killed anywhere, or that overlaps any number of
\* writes, never makes the cursor skip an entity, with one exception: a write
\* committed between the SELECT of its table and the read of the counter.
OnlyRacedRowsAreLost == \A c \in Caches : \A e \in Entities : Lost(c, e) => e \in raced[c]

\* The claim without the exception: what lies below the cursor is in the cache.
NoRowIsLost == \A c \in Caches : \A e \in Entities : ~ Lost(c, e)

\* Neither the cursor nor any cached entity ever goes back to an older version.
CacheMovesForward ==
  [][\A c \in Caches :
        /\ lastVersion'[c] >= lastVersion[c]
        /\ \A e \in Entities : cached'[c][e] >= cached[c][e]]_vars

\* Whatever has been published, the cursor of every desktop reaches it.
CursorCatchesUp ==
  \A c \in Caches : \A v \in 1..MaxVersion : current >= v ~> lastVersion[c] >= v

\* Every version a backend commits of an entity reaches the cache of every desktop,
\* unless the write was raced, overwritten by a newer one that reaches it, or deleted.
StampedWritesReachTheCache ==
  \A c \in Caches : \A e \in Entities : \A v \in 1..MaxVersion :
    version[e] = v ~> \/ cached[c][e] >= v
                      \/ e \in raced[c]
                      \/ status[e] = "dead"

\* A change that took no version is not made good by time, by a pull repeated or by
\* one that overlaps it: a cache that is past the version of the row has the change
\* only when the row is stamped anew, and a notification it never has.
UnstampedWaitForAStamp ==
  [][\A c \in Caches : \A r \in unseen[c] \ unseen'[c] : version[r] > lastVersion[c]]_vars

-----------------------------------------------------------------------------
(* The inductive invariants behind the properties above.                     *)

OneLockHolder == \A w, x \in Writers : Locked(w) /\ Locked(x) => w = x

\* Only the lock holder has staged anything, and only above the counter.
LockInv ==
  /\ OneLockHolder
  /\ \A e \in Entities : version[e] <= current
  /\ \A w \in Writers :
        /\ ~ Locked(w) => writer[w].staged = Nothing
        /\ Locked(w) =>
             /\ current <= writer[w].ver
             /\ \A e \in Entities : writer[w].staged[e] # 0 =>
                  current < writer[w].staged[e] /\ writer[w].staged[e] <= writer[w].ver

\* No request stamps a notification.
NeverStamped ==
  \A r \in Unversioned : version[r] = 0 /\ \A w \in Writers : writer[w].staged[r] = 0

OneProcessPerCache == \A p, q \in Pulls : CacheOf[p] = CacheOf[q] => p = q

\* What a pull in progress knows: what it will deliver is never older than the
\* cache, and below the version it will store only missed writes are unaccounted.
PullInv(p) ==
  LET c == Cache(p) IN
  /\ pull[p].stage = "idle" => pull[p].seen = Nothing /\ pull[p].missed = {}
  /\ pull[p].stage # "idle" => pull[p].since = lastVersion[c]
  /\ \A e \in Entities :
        /\ pull[p].seen[e] <= version[e]
        /\ pull[p].seen[e] # 0 => cached[c][e] <= pull[p].seen[e]
  /\ pull[p].stage = "selecting" =>
        \A e \in Entities :
          status[e] = "live" /\ TableOf[e] < pull[p].table /\ version[e] > pull[p].since
            => pull[p].seen[e] = version[e] \/ e \in pull[p].missed
  /\ pull[p].stage = "applying" =>
        /\ pull[p].since <= pull[p].upTo
        /\ pull[p].upTo <= current
        /\ \A e \in Entities :
             status[e] = "live" /\ version[e] > pull[p].since /\ version[e] <= pull[p].upTo
               => \/ pull[p].seen[e] = version[e]
                  \/ cached[c][e] = version[e]
                  \/ e \in pull[p].missed

CursorInv ==
  /\ \A c \in Caches :
        /\ lastVersion[c] <= current
        /\ \A e \in Entities : cached[c][e] <= version[e]
  /\ \A p \in Pulls : PullInv(p)
  /\ OnlyRacedRowsAreLost

\* An answer holds only what is above the version that was asked for.
SeenInv ==
  \A p \in Pulls : \A e \in Entities : pull[p].seen[e] # 0 => pull[p].seen[e] > pull[p].since
=============================================================================
