--------------------------- MODULE SyncFeed_proofs ---------------------------
(***************************************************************************)
(* What holds of the synchronisation for any number of rows, blobs,        *)
(* requests, desktops and versions.  The server side (the version counter  *)
(* and its lock) is proved first; the client side (the cursor) rests on it *)
(* and on one assumption, that no two processes share a cache file.        *)
(***************************************************************************)
EXTENDS SyncFeed, TLAPS

LEMMA IdleWriterType == IdleWriter \in WriterRecord
BY DEF IdleWriter, WriterRecord, Nothing

LEMMA IdlePullType == IdlePull \in PullRecord
BY TableAssumption DEF IdlePull, PullRecord, Nothing

\* Storing a version of an entity keeps the types.
LEMMA StoreType ==
  ASSUME TypeOK, NEW p \in Pulls, NEW e \in Entities, NEW v \in Nat, Store(p, e, v)
  PROVE  TypeOK'
<1> DEFINE S == [pull[p].seen EXCEPT ![e] = 0]
           R == [pull[p] EXCEPT !.seen = S]
<1>1. pull[p] \in PullRecord
  BY DEF TypeOK
<1>2. S \in [Entities -> Nat]
  BY <1>1 DEF PullRecord
<1>3. R \in PullRecord
  BY <1>1, <1>2 DEF PullRecord
<1>4. pull' = [pull EXCEPT ![p] = R]
  BY DEF Store, TypeOK
<1>5. Cache(p) \in Caches
  BY CacheAssumption DEF Cache
<1>6. cached' \in [Caches -> [Entities -> Nat]] /\ raced' \in [Caches -> SUBSET Entities]
  BY <1>5 DEF Store, TypeOK
<1>7. unseen' \in [Caches -> SUBSET Rows] /\ outdated' \in [Pulls -> SUBSET Rows]
  <2>1. outdated[p] \subseteq Rows
    BY DEF TypeOK
  <2>2. QED
    BY <1>5, <2>1 DEF Store, TypeOK
<1>8. QED
  BY <1>3, <1>4, <1>6, <1>7 DEF Store, TypeOK, serverVars

\* So does a change of rows that takes no version.
LEMMA ChangeType ==
  ASSUME TypeOK, NEW S \in SUBSET Rows, ChangeUnstamped(S)
  PROVE  unseen' \in [Caches -> SUBSET Rows] /\ outdated' \in [Pulls -> SUBSET Rows]
BY DEF TypeOK, ChangeUnstamped

(* Every reachable state is well typed (all of the module's state). *)
THEOREM TypeCorrect == Spec => []TypeOK
<1>1. Init => TypeOK
  BY IdleWriterType, IdlePullType DEF Init, TypeOK, Nothing
<1>2. TypeOK /\ [Next]_vars => TypeOK'
  <2> SUFFICES ASSUME TypeOK, [Next]_vars PROVE TypeOK'
    OBVIOUS
  <2>a. /\ \A w \in Writers : writer[w] \in WriterRecord
        /\ \A p \in Pulls : pull[p] \in PullRecord
    BY DEF TypeOK
  <2>1. ASSUME NEW w \in Writers, BeginRows(w) PROVE TypeOK'
    <3> DEFINE R == [writer[w] EXCEPT !.phase = "loaded", !.op = "rows"]
    <3>1. R \in WriterRecord
      BY <2>a, <2>1 DEF WriterRecord, Entities
    <3>2. writer' = [writer EXCEPT ![w] = R]
      BY <2>1 DEF TypeOK, BeginRows
    <3>3. QED
      BY <2>1, <3>1, <3>2 DEF TypeOK, serverVars, cacheVars, changeVars, BeginRows
  <2>2. ASSUME NEW w \in Writers, NEW b \in Blobs, NEW op \in {"put", "delete"}, 
               BeginBlob(w, b, op) PROVE TypeOK'
    <3> DEFINE R == [writer[w] EXCEPT !.phase = "loaded", !.op = op,
                                     !.blob = {b}, !.saw = status[b]]
    <3>1. R \in WriterRecord
      BY <2>a, <2>2 DEF TypeOK, WriterRecord, Entities
    <3>2. writer' = [writer EXCEPT ![w] = R]
      BY <2>2 DEF TypeOK, BeginBlob
    <3>3. QED
      BY <2>2, <3>1, <3>2 DEF TypeOK, serverVars, cacheVars, changeVars, BeginBlob
  <2>3. ASSUME NEW w \in Writers, AskForLock(w) PROVE TypeOK'
    <3> DEFINE R == [writer[w] EXCEPT !.phase = "waiting", !.fresh = (current = 0)]
    <3>1. R \in WriterRecord
      BY <2>a, <2>3 DEF WriterRecord, Entities
    <3>2. writer' = [writer EXCEPT ![w] = R]
      BY <2>3 DEF TypeOK, AskForLock
    <3>3. QED
      BY <2>3, <3>1, <3>2 DEF TypeOK, serverVars, cacheVars, changeVars, AskForLock
  <2>4. ASSUME NEW w \in Writers, Acquire(w) PROVE TypeOK'
    <3> DEFINE R == [writer[w] EXCEPT !.phase = "locked", !.ver = current]
    <3>1. R \in WriterRecord
      BY <2>a, <2>4 DEF TypeOK, WriterRecord
    <3>2. writer' = [writer EXCEPT ![w] = R]
      BY <2>4 DEF TypeOK, Acquire
    <3>3. QED
      BY <2>4, <3>1, <3>2 DEF TypeOK, serverVars, cacheVars, changeVars, Acquire
  <2>5. ASSUME NEW w \in Writers, FirstWriteConflict(w) PROVE TypeOK'
    BY <2>5, IdleWriterType DEF TypeOK, serverVars, cacheVars, changeVars, FirstWriteConflict
  <2>6. ASSUME NEW w \in Writers, NEW S \in SUBSET Entities, Stage(w, S) PROVE TypeOK'
    <3> DEFINE T == [e \in Entities |-> IF e \in S THEN writer[w].ver + 1
                                                   ELSE writer[w].staged[e]]
               R == [writer[w] EXCEPT !.ver = writer[w].ver + 1, !.staged = T]
    <3>1. T \in [Entities -> Nat] /\ writer[w].ver + 1 \in Nat
      BY <2>a DEF WriterRecord
    <3>2. R \in WriterRecord
      BY <2>a, <3>1 DEF WriterRecord
    <3>3. writer' = [writer EXCEPT ![w] = R]
      BY <2>6 DEF TypeOK, Stage
    <3>4. QED
      BY <2>6, <3>2, <3>3 DEF TypeOK, serverVars, cacheVars, changeVars, Stage
  <2>7. ASSUME NEW w \in Writers, Commit(w) PROVE TypeOK'
    <3>1. /\ current' \in Nat
          /\ version' \in [Entities -> Nat]
          /\ writer' \in [Writers -> WriterRecord]
      BY <2>7, <2>a, IdleWriterType DEF TypeOK, Commit, WriterRecord
    <3>2. \A e \in Entities : StatusAfter(w, e) \in {"absent", "live", "dead"}
      BY DEF TypeOK, StatusAfter
    <3>3. status' \in [Entities -> {"absent", "live", "dead"}]
      BY <2>7, <3>2 DEF TypeOK, Commit
    <3> DEFINE M(p) == pull[p].missed \cup {e \in Written(w) : TableOf[e] < pull[p].table}
    <3>4. ASSUME NEW p \in Pulls
          PROVE  [pull[p] EXCEPT !.missed = M(p)] \in PullRecord
      BY <2>a DEF PullRecord, Written
    <3>5. pull' = [p \in Pulls |-> IF pull[p].stage = "selecting"
                                    THEN [pull[p] EXCEPT !.missed = M(p)] ELSE pull[p]]
      BY <2>7 DEF TypeOK, Commit
    <3> HIDE DEF M
    <3>6. pull' \in [Pulls -> PullRecord]
      BY <2>a, <3>4, <3>5
    <3>7. QED
      BY <2>7, <3>1, <3>3, <3>6 DEF TypeOK, serverVars, cacheVars, changeVars, Commit
  <2>8. ASSUME NEW w \in Writers, Abort(w) PROVE TypeOK'
    BY <2>8, IdleWriterType DEF TypeOK, serverVars, cacheVars, changeVars, Abort
  <2>9. ASSUME NEW r \in Rows, NEW S \in SUBSET Rows, DeleteRow(r, S) PROVE TypeOK'
    <3>1. unseen' \in [Caches -> SUBSET Rows] /\ outdated' \in [Pulls -> SUBSET Rows]
      BY <2>9, ChangeType DEF DeleteRow
    <3>2. QED
      BY <2>9, <3>1 DEF TypeOK, DeleteRow, Entities
  <2>20. ASSUME NEW r \in Rows, WriteUnversioned(r) PROVE TypeOK'
    <3>1. unseen' \in [Caches -> SUBSET Rows] /\ outdated' \in [Pulls -> SUBSET Rows]
      BY <2>20, ChangeType DEF WriteUnversioned
    <3>2. QED
      BY <2>20, <3>1 DEF TypeOK, WriteUnversioned, Entities
  <2>10. ASSUME NEW p \in Pulls, StartPull(p) PROVE TypeOK'
    <3> DEFINE R == [IdlePull EXCEPT !.stage = "selecting", !.since = lastVersion[Cache(p)]]
    <3>1. R \in PullRecord
      BY <2>a, <2>10, IdlePullType, CacheAssumption DEF TypeOK, PullRecord, StartPull, Cache
    <3>2. pull' = [pull EXCEPT ![p] = R]
      BY <2>10 DEF TypeOK, StartPull, Cache
    <3>3. QED
      BY <2>10, <3>1, <3>2 DEF TypeOK, serverVars, cacheVars, changeVars, StartPull, Cache
  <2>11. ASSUME NEW p \in Pulls, SelectTable(p) PROVE TypeOK'
    <3> DEFINE S == [e \in Entities |->
                       IF TableOf[e] = pull[p].table /\ Selectable(e) /\ version[e] > pull[p].since
                       THEN version[e] ELSE pull[p].seen[e]]
               R == [pull[p] EXCEPT !.table = pull[p].table + 1, !.seen = S]
    <3>1. S \in [Entities -> Nat] /\ pull[p].table + 1 \in 1..(TableCount + 1)
      BY <2>11, <2>a, TableAssumption DEF TypeOK, PullRecord, SelectTable
    <3>2. R \in PullRecord
      BY <2>a, <3>1 DEF PullRecord
    <3>3. pull' = [pull EXCEPT ![p] = R]
      BY <2>11 DEF TypeOK, SelectTable
    <3>4. QED
      BY <2>11, <3>2, <3>3 DEF TypeOK, serverVars, cacheVars, changeVars, SelectTable
  <2>12. ASSUME NEW p \in Pulls, AnswerChanges(p) PROVE TypeOK'
    <3> DEFINE R == [pull[p] EXCEPT !.stage = "applying", !.upTo = current]
    <3>1. R \in PullRecord
      BY <2>a, <2>12 DEF TypeOK, PullRecord, AnswerChanges
    <3>2. pull' = [pull EXCEPT ![p] = R]
      BY <2>12 DEF TypeOK, AnswerChanges
    <3>3. QED
      BY <2>12, <3>1, <3>2 DEF TypeOK, serverVars, cacheVars, changeVars, AnswerChanges
  <2>13. ASSUME NEW p \in Pulls, NEW r \in Rows, ApplyRow(p, r) PROVE TypeOK'
    <3>1. pull[p].seen[r] \in Nat /\ r \in Entities
      BY <2>a DEF TypeOK, PullRecord, Entities
    <3>2. QED
      BY <2>13, <3>1, StoreType DEF ApplyRow
  <2>14. ASSUME NEW p \in Pulls, NEW b \in Blobs, ApplyBlob(p, b) PROVE TypeOK'
    <3>1. version[b] \in Nat /\ b \in Entities
      BY <2>a DEF TypeOK, PullRecord, Entities
    <3>2. QED
      BY <2>14, <3>1, StoreType DEF ApplyBlob
  <2>15. ASSUME NEW p \in Pulls, NEW b \in Blobs, BlobMissing(p, b) PROVE TypeOK'
    BY <2>15, IdlePullType DEF TypeOK, serverVars, cacheVars, changeVars, BlobMissing
  <2>16. ASSUME NEW p \in Pulls, FinishPull(p) PROVE TypeOK'
    BY <2>16, IdlePullType, CacheAssumption DEF TypeOK, serverVars, cacheVars, changeVars, FinishPull, PullRecord, Cache
  <2>17. ASSUME NEW p \in Pulls, FailPull(p) PROVE TypeOK'
    BY <2>17, IdlePullType DEF TypeOK, serverVars, cacheVars, changeVars, FailPull
  <2>18. CASE UNCHANGED vars
    BY <2>18 DEF vars, TypeOK
  <2>19. QED
    BY <2>1, <2>2, <2>3, <2>4, <2>5, <2>6, <2>7, <2>8, <2>9, <2>10, <2>11, <2>12,
       <2>13, <2>14, <2>15, <2>16, <2>17, <2>18, <2>20
       DEF Next, WriterStep, PullProgress
<1>3. QED
  BY <1>1, <1>2, PTL DEF Spec

-----------------------------------------------------------------------------
(* The backend: the counter and its lock.                                    *)

\* The part of the state LockInv speaks of.
lockVars == <<current, version, writer>>

LEMMA LockStep == TypeOK /\ TypeOK' /\ LockInv /\ [Next]_vars => LockInv'
<1> SUFFICES ASSUME TypeOK, TypeOK', LockInv, [Next]_vars PROVE LockInv'
  OBVIOUS
<1>a. /\ current \in Nat
      /\ \A e \in Entities : version[e] \in Nat
      /\ \A w \in Writers : /\ writer[w] \in WriterRecord
                            /\ writer[w].ver \in Nat
                            /\ \A e \in Entities : writer[w].staged[e] \in Nat
  BY DEF TypeOK, WriterRecord
<1>b. ASSUME UNCHANGED lockVars PROVE LockInv'
  BY <1>b DEF LockInv, OneLockHolder, Locked, lockVars
\* A step that leaves the lock alone and stages nothing.
<1>c. ASSUME NEW w \in Writers, UNCHANGED <<current, version>>,
             \A x \in Writers : x # w => writer'[x] = writer[x],
             ~ Locked(w)', writer'[w].staged = Nothing
      PROVE  LockInv'
  BY <1>c DEF LockInv, OneLockHolder, Locked
<1>1. ASSUME NEW w \in Writers, BeginRows(w) PROVE LockInv'
  <2>1. ~ Locked(w)' /\ writer'[w].staged = Nothing
    BY <1>1, <1>a DEF BeginRows, TypeOK, LockInv, Locked, WriterRecord
  <2>2. QED
    BY <1>1, <1>c, <2>1 DEF BeginRows, TypeOK, serverVars
<1>2. ASSUME NEW w \in Writers, NEW b \in Blobs, NEW op \in {"put", "delete"},
             BeginBlob(w, b, op) PROVE LockInv'
  <2>1. ~ Locked(w)' /\ writer'[w].staged = Nothing
    BY <1>2, <1>a DEF BeginBlob, TypeOK, LockInv, Locked, WriterRecord
  <2>2. QED
    BY <1>2, <1>c, <2>1 DEF BeginBlob, TypeOK, serverVars
<1>3. ASSUME NEW w \in Writers, AskForLock(w) PROVE LockInv'
  <2>1. ~ Locked(w)' /\ writer'[w].staged = Nothing
    BY <1>3, <1>a DEF AskForLock, TypeOK, LockInv, Locked, WriterRecord
  <2>2. QED
    BY <1>3, <1>c, <2>1 DEF AskForLock, TypeOK, serverVars
<1>4. ASSUME NEW w \in Writers, Acquire(w) PROVE LockInv'
  <2>1. /\ writer'[w].staged = Nothing
        /\ writer'[w].ver = current
        /\ \A x \in Writers : x # w => writer'[x] = writer[x] /\ ~ Locked(x)
    BY <1>4, <1>a DEF Acquire, TypeOK, LockInv, Locked, WriterRecord
  <2>2. UNCHANGED <<current, version>>
    BY <1>4 DEF Acquire, serverVars
  <2>3. \A e \in Entities : Nothing[e] = 0
    BY DEF Nothing
  <2>4. QED
    BY <1>a, <2>1, <2>2, <2>3 DEF LockInv, OneLockHolder, Locked
<1>5. ASSUME NEW w \in Writers,
             writer' = [writer EXCEPT ![w] = IdleWriter], UNCHANGED <<current, version>>
      PROVE  LockInv'
  BY <1>5, <1>c DEF TypeOK, IdleWriter, Locked
<1>6. ASSUME NEW w \in Writers, NEW S \in SUBSET Entities, Stage(w, S) PROVE LockInv'
  <2>1. /\ Locked(w)
        /\ \A x \in Writers : x # w => writer'[x] = writer[x] /\ ~ Locked(x)
        /\ UNCHANGED <<current, version>>
    BY <1>6 DEF Stage, TypeOK, serverVars, LockInv, OneLockHolder
  <2>2. /\ writer'[w].phase = "locked"
        /\ writer'[w].ver = writer[w].ver + 1
        /\ writer'[w].staged = [e \in Entities |-> IF e \in S THEN writer[w].ver + 1
                                                           ELSE writer[w].staged[e]]
    <3> DEFINE T == [e \in Entities |-> IF e \in S THEN writer[w].ver + 1
                                                   ELSE writer[w].staged[e]]
               R == [writer[w] EXCEPT !.ver = writer[w].ver + 1, !.staged = T]
    <3>1. writer' = [writer EXCEPT ![w] = R]
      BY <1>6 DEF Stage, TypeOK
    <3>2. R.phase = writer[w].phase /\ R.ver = writer[w].ver + 1 /\ R.staged = T
      BY <1>a DEF WriterRecord
    <3>3. writer'[w] = R
      BY <3>1 DEF TypeOK
    <3>4. QED
      BY <2>1, <3>2, <3>3 DEF Locked
  <2>3. /\ current <= writer'[w].ver
        /\ \A e \in Entities : writer'[w].staged[e] # 0 =>
              current < writer'[w].staged[e] /\ writer'[w].staged[e] <= writer'[w].ver
    BY <1>a, <2>1, <2>2 DEF LockInv
  <2>4. QED
    BY <1>a, <2>1, <2>2, <2>3 DEF LockInv, OneLockHolder, Locked
<1>7. ASSUME NEW w \in Writers, Commit(w) PROVE LockInv'
  <2>1. /\ current' = writer[w].ver
        /\ \A e \in Entities : version'[e] = IF writer[w].staged[e] # 0
                                             THEN writer[w].staged[e] ELSE version[e]
        /\ writer'[w] = IdleWriter
        /\ \A x \in Writers : x # w => writer'[x] = writer[x]
    BY <1>7 DEF Commit, TypeOK, Written
  <2>2. /\ current <= current'
        /\ \A e \in Entities : version'[e] <= current'
    BY <1>7, <1>a, <2>1 DEF LockInv, Commit, CanCommit
  <2>3. \A x \in Writers : ~ Locked(x)' /\ writer'[x].staged = Nothing
    BY <1>7, <2>1 DEF LockInv, OneLockHolder, Commit, CanCommit, Locked, IdleWriter
  <2>4. QED
    BY <2>2, <2>3 DEF LockInv, OneLockHolder
<1>8. CASE \E r \in Rows : WriteUnversioned(r) \/ \E S \in SUBSET Rows : DeleteRow(r, S)
  BY <1>8, <1>b DEF WriteUnversioned, DeleteRow, lockVars
<1>9. CASE \E p \in Pulls : StartPull(p) \/ PullProgress(p) \/ FailPull(p)
  BY <1>9, <1>b DEF StartPull, PullProgress, FailPull, SelectTable, AnswerChanges, ApplyRow,
     ApplyBlob, BlobMissing, FinishPull, Store, lockVars, serverVars
<1>10. CASE UNCHANGED vars
  BY <1>10, <1>b DEF vars, lockVars
<1>11. ASSUME NEW w \in Writers, FirstWriteConflict(w) \/ Abort(w) PROVE LockInv'
  BY <1>11, <1>5 DEF FirstWriteConflict, Abort, serverVars
<1>12. QED
  BY <1>1, <1>2, <1>3, <1>4, <1>6, <1>7, <1>8, <1>9, <1>10, <1>11 DEF Next, WriterStep

LEMMA LockInvariant == Spec => []LockInv
<1>1. Init => LockInv
  BY DEF Init, LockInv, OneLockHolder, Locked, IdleWriter, Nothing
<1>2. QED
  BY <1>1, LockStep, TypeCorrect, PTL DEF Spec

(* The counter is a sound cursor: whatever a request has stamped and not yet   *)
(* committed is above the committed counter, and nothing committed is          *)
(* (bump_version under SELECT FOR UPDATE).                                     *)
THEOREM CounterIsSound == Spec => []NothingAppearsBelowTheCounter
<1>1. TypeOK /\ LockInv => NothingAppearsBelowTheCounter
  BY DEF LockInv, NothingAppearsBelowTheCounter
<1>2. QED
  BY <1>1, TypeCorrect, LockInvariant, PTL

\* The rows of notifications keep version 0.
LEMMA NeverStampedInvariant == Spec => []NeverStamped
<1>1. Init => NeverStamped
  BY EntitiesAssumption DEF Init, NeverStamped, IdleWriter, Nothing, Entities
<1>2. ASSUME TypeOK, NeverStamped, [Next]_vars PROVE NeverStamped'
  <2>a. Unversioned \subseteq Entities
    BY EntitiesAssumption DEF Entities
  <2>b. \A w \in Writers : writer[w] \in WriterRecord
    BY <1>2 DEF TypeOK
  <2>1. ASSUME NEW w \in Writers, UNCHANGED version,
               \A x \in Writers : x # w => writer'[x] = writer[x],
               writer'[w].staged \in {Nothing, writer[w].staged}
        PROVE  NeverStamped'
    <3>1. \A r \in Unversioned : Nothing[r] = 0
      BY <2>a DEF Nothing
    <3>2. ASSUME NEW r \in Unversioned, NEW x \in Writers PROVE writer'[x].staged[r] = 0
      <4>1. CASE x = w
        BY <2>1, <3>1, <4>1, <1>2 DEF NeverStamped
      <4>2. CASE x # w
        BY <2>1, <4>2, <1>2 DEF NeverStamped
      <4>3. QED
        BY <4>1, <4>2
    <3>3. QED
      BY <2>1, <3>2, <1>2 DEF NeverStamped
  <2>2. ASSUME NEW w \in Writers,
               BeginRows(w) \/ (\E b \in Blobs, op \in {"put", "delete"} : BeginBlob(w, b, op))
               \/ AskForLock(w) \/ Acquire(w)
        PROVE  NeverStamped'
    <3>1. /\ UNCHANGED version
          /\ \A x \in Writers : x # w => writer'[x] = writer[x]
      BY <2>2, <1>2 DEF BeginRows, BeginBlob, AskForLock, Acquire, serverVars, TypeOK
    <3>2. writer'[w].staged = writer[w].staged
      <4>1. CASE BeginRows(w)
        BY <4>1, <2>b, <1>2 DEF BeginRows, TypeOK, WriterRecord
      <4>2. ASSUME NEW b \in Blobs, NEW op \in {"put", "delete"}, BeginBlob(w, b, op)
            PROVE  writer'[w].staged = writer[w].staged
        BY <4>2, <2>b, <1>2 DEF BeginBlob, TypeOK, WriterRecord
      <4>3. CASE AskForLock(w)
        BY <4>3, <2>b, <1>2 DEF AskForLock, TypeOK, WriterRecord
      <4>4. CASE Acquire(w)
        BY <4>4, <2>b, <1>2 DEF Acquire, TypeOK, WriterRecord
      <4>5. QED
        BY <2>2, <4>1, <4>2, <4>3, <4>4
    <3>3. QED
      BY <2>1, <3>1, <3>2
  <2>3. ASSUME NEW w \in Writers, FirstWriteConflict(w) \/ Abort(w) PROVE NeverStamped'
    <3>1. /\ UNCHANGED version
          /\ \A x \in Writers : x # w => writer'[x] = writer[x]
          /\ writer'[w].staged = Nothing
      BY <2>3, <1>2 DEF FirstWriteConflict, Abort, serverVars, TypeOK, IdleWriter
    <3>2. QED
      BY <2>1, <3>1
  <2>4. ASSUME NEW w \in Writers, NEW S \in SUBSET Entities, Stage(w, S) PROVE NeverStamped'
    <3> DEFINE T == [e \in Entities |-> IF e \in S THEN writer[w].ver + 1
                                                   ELSE writer[w].staged[e]]
               R == [writer[w] EXCEPT !.ver = writer[w].ver + 1, !.staged = T]
    <3>1. writer' = [writer EXCEPT ![w] = R]
      BY <2>4, <1>2 DEF Stage, TypeOK
    <3>2. R.staged = T
      BY <2>b DEF WriterRecord
    <3>3. writer'[w].staged = T /\ \A x \in Writers : x # w => writer'[x] = writer[x]
      BY <3>1, <3>2, <1>2 DEF TypeOK
    <3>4. writer[w].op # "rows" => S \subseteq Blobs
      BY <2>4, <2>b DEF Stage, WriterRecord
    <3>5. \A r \in Unversioned : r \notin S
      BY <2>4, <3>4, EntitiesAssumption DEF Stage
    <3>6. \A r \in Unversioned : T[r] = 0
      BY <3>5, <2>a, <1>2 DEF NeverStamped
    <3>7. UNCHANGED version
      BY <2>4 DEF Stage, serverVars
    <3> HIDE DEF T
    <3>8. QED
      BY <3>3, <3>6, <3>7, <1>2 DEF NeverStamped
  <2>5. ASSUME NEW w \in Writers, Commit(w) PROVE NeverStamped'
    <3>1. \A r \in Unversioned : version'[r] = version[r]
      BY <2>5, <2>a, <1>2 DEF Commit, Written, NeverStamped
    <3>2. /\ \A x \in Writers : x # w => writer'[x] = writer[x]
          /\ writer'[w].staged = Nothing
      BY <2>5, <1>2 DEF Commit, TypeOK, IdleWriter
    <3>3. QED
      BY <3>1, <3>2, <2>a, <1>2 DEF NeverStamped, Nothing
  <2>6. CASE UNCHANGED <<version, writer>>
    BY <2>6, <1>2 DEF NeverStamped
  <2>7. ASSUME Next, ~ \E w \in Writers : WriterStep(w) PROVE UNCHANGED <<version, writer>>
    BY <2>7 DEF Next, WriteUnversioned, DeleteRow, StartPull, PullProgress, FailPull,
       SelectTable, AnswerChanges, ApplyRow, ApplyBlob, BlobMissing, FinishPull, Store,
       serverVars
  <2>8. QED
    BY <2>2, <2>3, <2>4, <2>5, <2>6, <2>7, <1>2 DEF WriterStep, vars
<1>3. QED
  BY <1>1, <1>2, TypeCorrect, PTL DEF Spec

\* What a step of the system does to the committed data.
LEMMA CommitOrderStep ==
  ASSUME TypeOK, LockInv, [Next]_vars, NEW e \in Entities
  PROVE  /\ current <= current'
         /\ version'[e] # version[e] => version'[e] > current /\ version'[e] <= current'
<1>1. ASSUME NEW w \in Writers, Commit(w)
      PROVE  /\ current <= current'
             /\ version'[e] # version[e] => version'[e] > current /\ version'[e] <= current'
  <2>1. current' = writer[w].ver /\ writer[w].ver \in Nat
    BY <1>1 DEF Commit, TypeOK, WriterRecord
  <2>2. version'[e] = IF writer[w].staged[e] # 0 THEN writer[w].staged[e] ELSE version[e]
    BY <1>1 DEF Commit, TypeOK, Written
  <2>3. QED
    BY <1>1, <2>1, <2>2 DEF LockInv, Commit, CanCommit
<1>2. CASE UNCHANGED <<current, version>>
  BY <1>2 DEF TypeOK
<1>3. ASSUME Next, ~ \E w \in Writers : Commit(w) PROVE UNCHANGED <<current, version>>
  BY <1>3 DEF Next, WriterStep, BeginRows, BeginBlob, AskForLock, Acquire, FirstWriteConflict,
     Stage, Abort, WriteUnversioned, DeleteRow, StartPull, PullProgress, FailPull, SelectTable, AnswerChanges,
     ApplyRow, ApplyBlob, BlobMissing, FinishPull, Store, serverVars
<1>4. QED
  BY <1>1, <1>2, <1>3 DEF vars

(* Commits become visible in the order of their versions, so that a client    *)
(* which asks for what is above a version it was told misses no later write.  *)
THEOREM VersionsAreCommittedInOrder == Spec => CommitsAreOrdered
<1>1. TypeOK /\ LockInv /\ [Next]_vars =>
        [\A e \in Entities : version'[e] # version[e] =>
           version'[e] > current /\ version'[e] <= current']_vars
  BY CommitOrderStep
<1>2. QED
  BY <1>1, TypeCorrect, LockInvariant, PTL DEF Spec, CommitsAreOrdered

-----------------------------------------------------------------------------
(* The desktop: the cursor.                                                  *)

\* What PullInv and the cursor invariant say of one cache file.
CacheInv(c) ==
  /\ lastVersion[c] <= current
  /\ \A e \in Entities : cached[c][e] <= version[e]
  /\ \A e \in Entities : Lost(c, e) => e \in raced[c]

LEMMA CursorInvParts ==
  CursorInv <=> /\ \A c \in Caches : CacheInv(c)
                /\ \A p \in Pulls : PullInv(p)
BY DEF CursorInv, CacheInv, OnlyRacedRowsAreLost

\* The types PullInv needs, one by one.
LEMMA PullTypes ==
  ASSUME TypeOK, NEW p \in Pulls
  PROVE  /\ Cache(p) \in Caches
         /\ pull[p] \in PullRecord
         /\ pull[p].table \in Nat /\ pull[p].since \in Nat /\ pull[p].upTo \in Nat
         /\ pull[p].seen \in [Entities -> Nat]
         /\ \A e \in Entities : pull[p].seen[e] \in Nat
         /\ current \in Nat
         /\ \A e \in Entities : version[e] \in Nat
         /\ \A c \in Caches : lastVersion[c] \in Nat /\ \A e \in Entities : cached[c][e] \in Nat
BY CacheAssumption DEF TypeOK, PullRecord, Cache

\* A pull that goes back to idle satisfies its invariant whatever it left behind.
LEMMA IdlePullInv ==
  ASSUME TypeOK, TypeOK', NEW p \in Pulls, pull' = [pull EXCEPT ![p] = IdlePull]
  PROVE  PullInv(p)'
<1>1. pull'[p] = IdlePull
  BY DEF TypeOK
<1>2. \A e \in Entities : version'[e] \in Nat
  BY DEF TypeOK
<1>3. QED
  BY <1>1, <1>2 DEF PullInv, IdlePull, Nothing

\* A step of one desktop disturbs nothing of the others.
LEMMA OnePullMoves ==
  ASSUME OneProcessPerCache, CursorInv, NEW p \in Pulls, UNCHANGED serverVars,
         \A q \in Pulls : q # p => pull'[q] = pull[q],
         \A c \in Caches : c # Cache(p) => /\ cached'[c] = cached[c]
                                          /\ lastVersion'[c] = lastVersion[c]
                                          /\ raced'[c] = raced[c],
         PullInv(p)', CacheInv(Cache(p))'
  PROVE  CursorInv'
<1>1. ASSUME NEW c \in Caches PROVE CacheInv(c)'
  <2>1. CASE c = Cache(p)
    BY <2>1 DEF Cache
  <2>2. CASE c # Cache(p)
    BY <2>2, CursorInvParts DEF CacheInv, Lost, serverVars
  <2>3. QED
    BY <2>1, <2>2
<1>2. ASSUME NEW q \in Pulls PROVE PullInv(q)'
  <2>1. CASE q # p
    <3>1. Cache(q) # Cache(p) /\ Cache(q) \in Caches
      BY <2>1, CacheAssumption DEF OneProcessPerCache, Cache
    <3>2. PullInv(q)
      BY DEF CursorInv
    <3>3. /\ pull'[q] = pull[q]
          /\ cached'[Cache(q)] = cached[Cache(q)]
          /\ lastVersion'[Cache(q)] = lastVersion[Cache(q)]
      BY <2>1, <3>1
    <3>4. QED
      BY <3>2, <3>3 DEF PullInv, serverVars, Cache
  <2>2. QED
    BY <2>1
<1>3. QED
  BY <1>1, <1>2 DEF CursorInv, CacheInv, OnlyRacedRowsAreLost

\* A commit lifts what it writes above every cursor and every answer on its way,
\* or finds it listed as missed by a pull that already passed its table.
LEMMA CommitKeepsCursor ==
  ASSUME TypeOK, TypeOK', LockInv, CursorInv, NEW w \in Writers, Commit(w)
  PROVE  CursorInv'
<1>1. /\ current <= current' /\ current \in Nat /\ current' \in Nat
      /\ \A e \in Entities : version[e] \in Nat /\ version'[e] \in Nat
      /\ \A e \in Written(w) : version'[e] > current
      /\ \A e \in Entities : version[e] <= current
      /\ \A e \in Entities \ Written(w) : version'[e] = version[e] /\ status'[e] = status[e]
  <2>1. Next
    BY DEF Next, WriterStep
  <2>2. /\ current \in Nat /\ current' \in Nat
        /\ \A e \in Entities : version[e] \in Nat /\ version'[e] \in Nat
    BY DEF TypeOK
  <2>3. current <= current' /\ \A e \in Entities : version[e] <= current
    BY <2>2 DEF Commit, CanCommit, LockInv, TypeOK, WriterRecord
  <2>4. ASSUME NEW e \in Written(w) PROVE version'[e] > current
    <3>1. e \in Entities /\ writer[w].staged[e] # 0
      BY DEF Written
    <3>2. version'[e] = writer[w].staged[e]
      BY <3>1 DEF Commit, Written, TypeOK
    <3>3. QED
      BY <2>2, <3>1, <3>2 DEF Commit, CanCommit, LockInv
  <2>5. \A e \in Entities \ Written(w) : version'[e] = version[e] /\ status'[e] = status[e]
    BY DEF Commit, TypeOK
  <2>6. QED
    BY <2>2, <2>3, <2>4, <2>5
<1>2. \A e \in Entities : version[e] <= version'[e]
  BY <1>1 DEF Written
<1>3. UNCHANGED cacheVars
  BY DEF Commit
<1>4. ASSUME NEW c \in Caches PROVE CacheInv(c)'
  <2>1. CacheInv(c)
    BY CursorInvParts
  <2>2. /\ lastVersion[c] \in Nat /\ lastVersion'[c] = lastVersion[c]
        /\ cached'[c] = cached[c] /\ raced'[c] = raced[c]
        /\ \A e \in Entities : cached[c][e] \in Nat
    BY <1>3 DEF TypeOK, cacheVars
  <2>3. \A e \in Entities : Lost(c, e)' => e \in raced[c]
    BY <1>1, <2>1, <2>2 DEF CacheInv, Lost
  <2>4. QED
    BY <1>1, <1>2, <2>1, <2>2, <2>3 DEF CacheInv
<1>5. ASSUME NEW p \in Pulls PROVE PullInv(p)'
  <2>1. PullInv(p)
    BY DEF CursorInv
  <2>2. /\ pull'[p].stage = pull[p].stage /\ pull'[p].since = pull[p].since
        /\ pull'[p].table = pull[p].table /\ pull'[p].seen = pull[p].seen
        /\ pull'[p].upTo = pull[p].upTo
        /\ pull'[p].missed = IF pull[p].stage = "selecting"
             THEN pull[p].missed \cup {e \in Written(w) : TableOf[e] < pull[p].table}
             ELSE pull[p].missed
    BY PullTypes DEF Commit, PullRecord
  <2>3. cached' = cached /\ lastVersion' = lastVersion
    BY <1>3 DEF cacheVars
  <2>4. QED
    BY <1>1, <1>2, <2>1, <2>2, <2>3, PullTypes DEF PullInv, Cache
<1>6. QED
  BY <1>4, <1>5 DEF CursorInv, CacheInv, OnlyRacedRowsAreLost
\* The steps of a pull that touch nothing but its own record.
LEMMA PullRecordMoves ==
  ASSUME TypeOK, OneProcessPerCache, CursorInv, NEW p \in Pulls, NEW R,
         pull' = [pull EXCEPT ![p] = R], UNCHANGED serverVars,
         UNCHANGED <<cached, lastVersion, raced>>, PullInv(p)'
  PROVE  CursorInv'
<1>1. Cache(p) \in Caches
  BY PullTypes
<1>2. CacheInv(Cache(p))'
  BY <1>1, CursorInvParts DEF CacheInv, Lost, serverVars, Cache
<1>3. \A q \in Pulls : q # p => pull'[q] = pull[q]
  BY DEF TypeOK
<1>4. QED
  BY <1>2, <1>3, OnePullMoves

LEMMA SelectKeepsCursor ==
  ASSUME TypeOK, OneProcessPerCache, CursorInv, NEW p \in Pulls, SelectTable(p)
  PROVE  CursorInv'
<1> DEFINE c == Cache(p)
           S == [e \in Entities |->
                   IF TableOf[e] = pull[p].table /\ Selectable(e) /\ version[e] > pull[p].since
                   THEN version[e] ELSE pull[p].seen[e]]
           R == [pull[p] EXCEPT !.table = pull[p].table + 1, !.seen = S]
<1>1. pull' = [pull EXCEPT ![p] = R]
  BY DEF SelectTable, TypeOK
<1>2. /\ pull'[p].stage = "selecting" /\ pull'[p].since = pull[p].since
      /\ pull'[p].table = pull[p].table + 1 /\ pull'[p].missed = pull[p].missed
      /\ \A e \in Entities : pull'[p].seen[e] =
           IF TableOf[e] = pull[p].table /\ Selectable(e) /\ version[e] > pull[p].since
           THEN version[e] ELSE pull[p].seen[e]
  <2>1. pull'[p] = R
    BY <1>1 DEF TypeOK
  <2>2. R.stage = "selecting" /\ R.since = pull[p].since /\ R.table = pull[p].table + 1
        /\ R.seen = S /\ R.missed = pull[p].missed
    BY PullTypes DEF PullRecord, SelectTable
  <2>3. QED
    BY <2>1, <2>2
<1>3. UNCHANGED serverVars /\ UNCHANGED <<cached, lastVersion, raced>>
  BY DEF SelectTable, cacheVars
<1>4. PullInv(p) /\ CacheInv(c) /\ pull[p].stage = "selecting"
  BY CursorInvParts, PullTypes DEF SelectTable
<1>5. \A e \in Entities :
        /\ pull'[p].seen[e] <= version[e]
        /\ pull'[p].seen[e] # 0 => cached[c][e] <= pull'[p].seen[e]
  BY <1>2, <1>4, PullTypes DEF PullInv, CacheInv
<1>6. \A e \in Entities :
        status[e] = "live" /\ TableOf[e] < pull'[p].table /\ version[e] > pull[p].since
          => pull'[p].seen[e] = version[e] \/ e \in pull[p].missed
  <2> SUFFICES ASSUME NEW e \in Entities, status[e] = "live",
                      TableOf[e] < pull[p].table + 1, version[e] > pull[p].since
               PROVE  pull'[p].seen[e] = version[e] \/ e \in pull[p].missed
    BY <1>2
  <2>1. TableOf[e] \in Nat
    BY TableAssumption
  <2>2. CASE TableOf[e] = pull[p].table
    BY <1>2, <2>2 DEF Selectable
  <2>3. CASE TableOf[e] < pull[p].table
    <3>1. pull'[p].seen[e] = pull[p].seen[e]
      BY <1>2, <2>1, <2>3, PullTypes
    <3>2. QED
      BY <3>1, <2>3, <1>4 DEF PullInv
  <2>4. QED
    BY <2>1, <2>2, <2>3, PullTypes
<1>7. PullInv(p)'
  BY <1>2, <1>3, <1>4, <1>5, <1>6 DEF PullInv, serverVars, Cache
<1>8. QED
  BY <1>1, <1>3, <1>7, PullRecordMoves

LEMMA AnswerKeepsCursor ==
  ASSUME TypeOK, OneProcessPerCache, CursorInv, NEW p \in Pulls, AnswerChanges(p)
  PROVE  CursorInv'
<1> DEFINE R == [pull[p] EXCEPT !.stage = "applying", !.upTo = current]
<1>1. pull' = [pull EXCEPT ![p] = R]
  BY DEF AnswerChanges, TypeOK
<1>2. /\ pull'[p].stage = "applying" /\ pull'[p].since = pull[p].since
      /\ pull'[p].upTo = current /\ pull'[p].seen = pull[p].seen
      /\ pull'[p].missed = pull[p].missed
  <2>1. pull'[p] = R
    BY <1>1 DEF TypeOK
  <2>2. QED
    BY <2>1, PullTypes DEF PullRecord
<1>3. UNCHANGED serverVars /\ UNCHANGED <<cached, lastVersion, raced>>
  BY DEF AnswerChanges, cacheVars
<1>4. PullInv(p) /\ CacheInv(Cache(p)) /\ pull[p].stage = "selecting"
      /\ pull[p].table = TableCount + 1
  BY CursorInvParts, PullTypes DEF AnswerChanges
<1>5. \A e \in Entities : TableOf[e] < pull[p].table
  BY <1>4, TableAssumption
<1>6. PullInv(p)'
  BY <1>2, <1>3, <1>4, <1>5, PullTypes DEF PullInv, CacheInv, serverVars, Cache
<1>7. QED
  BY <1>1, <1>3, <1>6, PullRecordMoves

\* Storing a version between the cached and the committed one, while it is the
\* pull's own or the newest, loses nothing.
LEMMA StoreKeepsCursor ==
  ASSUME TypeOK, OneProcessPerCache, CursorInv,
         NEW p \in Pulls, NEW e \in Entities, NEW v \in Nat,
         pull[p].stage = "applying", pull[p].seen[e] # 0,
         pull[p].seen[e] <= v, v <= version[e], Store(p, e, v)
  PROVE  CursorInv'
<1> DEFINE c == Cache(p)
           S == [pull[p].seen EXCEPT ![e] = 0]
           R == [pull[p] EXCEPT !.seen = S]
<1>1. pull' = [pull EXCEPT ![p] = R]
  BY DEF Store, TypeOK
<1>2. /\ pull'[p].stage = "applying" /\ pull'[p].since = pull[p].since
      /\ pull'[p].upTo = pull[p].upTo /\ pull'[p].missed = pull[p].missed
      /\ pull'[p].seen[e] = 0
      /\ \A x \in Entities : x # e => pull'[p].seen[x] = pull[p].seen[x]
  <2>1. pull'[p] = R
    BY <1>1 DEF TypeOK
  <2>2. R.seen = S /\ R.stage = pull[p].stage /\ R.since = pull[p].since
        /\ R.upTo = pull[p].upTo /\ R.missed = pull[p].missed
    BY PullTypes DEF PullRecord
  <2>3. QED
    BY <2>1, <2>2, PullTypes
<1>3. /\ UNCHANGED serverVars /\ UNCHANGED lastVersion
      /\ cached'[c][e] = v
      /\ \A x \in Entities : x # e => cached'[c][x] = cached[c][x]
      /\ raced'[c] = IF v = version[e] THEN raced[c] \ {e} ELSE raced[c]
  BY PullTypes DEF Store, TypeOK
<1>4. \A d \in Caches : d # c => /\ cached'[d] = cached[d]
                                 /\ lastVersion'[d] = lastVersion[d]
                                 /\ raced'[d] = raced[d]
  BY PullTypes DEF Store, TypeOK
<1>5. PullInv(p) /\ CacheInv(c)
  BY CursorInvParts, PullTypes
<1>6. cached[c][e] <= v
  BY <1>5, PullTypes DEF PullInv
<1>7. CacheInv(c)'
  <2>1. \A x \in Entities : cached'[c][x] <= version[x]
    BY <1>3, <1>5 DEF CacheInv
  <2>2. ASSUME NEW x \in Entities, Lost(c, x)' PROVE x \in raced'[c]
    <3>1. CASE x # e
      BY <2>2, <3>1, <1>3, <1>5 DEF CacheInv, Lost, serverVars
    <3>2. CASE x = e
      <4>1. v < version[e] /\ status[e] = "live" /\ version[e] <= lastVersion[c]
        BY <2>2, <3>2, <1>3 DEF Lost, serverVars, Cache
      <4>2. Lost(c, e)
        BY <4>1, <1>6, PullTypes DEF Lost
      <4>3. QED
        BY <3>2, <4>1, <4>2, <1>3, <1>5, PullTypes DEF CacheInv
    <3>3. QED
      BY <3>1, <3>2
  <2>3. QED
    BY <1>3, <1>5, <2>1, <2>2 DEF CacheInv, serverVars, Cache
<1>8. PullInv(p)'
  <2>1. ASSUME NEW x \in Entities, status[x] = "live", version[x] > pull[p].since,
               version[x] <= pull[p].upTo
        PROVE  \/ pull'[p].seen[x] = version[x]
               \/ cached'[c][x] = version[x]
               \/ x \in pull[p].missed
    <3>1. CASE x # e
      BY <2>1, <3>1, <1>2, <1>3, <1>5 DEF PullInv
    <3>2. CASE x = e
      BY <2>1, <3>2, <1>3, <1>5, <1>6, PullTypes DEF PullInv
    <3>3. QED
      BY <3>1, <3>2
  <2>2. \A x \in Entities :
          /\ pull'[p].seen[x] <= version[x]
          /\ pull'[p].seen[x] # 0 => cached'[c][x] <= pull'[p].seen[x]
    BY <1>2, <1>3, <1>5, PullTypes DEF PullInv
  <2>3. QED
    BY <1>2, <1>3, <1>5, <2>1, <2>2 DEF PullInv, serverVars, Cache
<1>9. QED
  BY <1>1, <1>3, <1>4, <1>7, <1>8, OnePullMoves DEF TypeOK
LEMMA FinishKeepsCursor ==
  ASSUME TypeOK, TypeOK', OneProcessPerCache, CursorInv, NEW p \in Pulls, FinishPull(p)
  PROVE  CursorInv'
<1> DEFINE c == Cache(p)
<1>1. /\ pull' = [pull EXCEPT ![p] = IdlePull] /\ UNCHANGED serverVars /\ UNCHANGED cached
      /\ lastVersion'[c] = pull[p].upTo
      /\ raced'[c] = raced[c] \cup pull[p].missed
      /\ \A e \in Entities : pull[p].seen[e] = 0
  BY PullTypes DEF FinishPull, TypeOK, Pending
<1>2. \A d \in Caches : d # c => /\ cached'[d] = cached[d]
                                 /\ lastVersion'[d] = lastVersion[d]
                                 /\ raced'[d] = raced[d]
  BY PullTypes DEF FinishPull, TypeOK
<1>3. PullInv(p) /\ CacheInv(c) /\ pull[p].stage = "applying"
  BY CursorInvParts, PullTypes DEF FinishPull
<1>4. ASSUME NEW e \in Entities, Lost(c, e)' PROVE e \in raced'[c]
  <2>1. status[e] = "live" /\ cached[c][e] < version[e] /\ version[e] <= pull[p].upTo
    BY <1>1, <1>4 DEF Lost, serverVars, Cache
  <2>2. CASE version[e] <= pull[p].since
    BY <1>1, <1>3, <2>1, <2>2 DEF CacheInv, Lost, PullInv
  <2>3. CASE version[e] > pull[p].since
    BY <1>1, <1>3, <2>1, <2>3, PullTypes DEF PullInv
  <2>4. QED
    BY <2>2, <2>3, PullTypes
<1>5. CacheInv(c)'
  BY <1>1, <1>3, <1>4 DEF CacheInv, PullInv, serverVars, Cache
<1>6. PullInv(p)'
  BY <1>1, IdlePullInv
<1>7. QED
  BY <1>1, <1>2, <1>5, <1>6, OnePullMoves DEF TypeOK

LEMMA StartKeepsCursor ==
  ASSUME TypeOK, OneProcessPerCache, CursorInv, NEW p \in Pulls, StartPull(p)
  PROVE  CursorInv'
<1> DEFINE R == [IdlePull EXCEPT !.stage = "selecting", !.since = lastVersion[Cache(p)]]
<1>1. pull' = [pull EXCEPT ![p] = R]
  BY DEF StartPull
<1>2. pull'[p].stage = "selecting" /\ pull'[p].since = lastVersion[Cache(p)]
      /\ pull'[p].seen = Nothing /\ pull'[p].table = 1
  BY <1>1 DEF TypeOK, IdlePull
<1>3. UNCHANGED serverVars /\ UNCHANGED <<cached, lastVersion, raced>>
  BY DEF StartPull, cacheVars
<1>4. \A e \in Entities : ~ (TableOf[e] < 1) /\ Nothing[e] = 0
  BY TableAssumption DEF Nothing
<1>5. PullInv(p)'
  BY <1>2, <1>3, <1>4, PullTypes DEF PullInv, serverVars, Cache
<1>6. QED
  BY <1>1, <1>3, <1>5, PullRecordMoves

LEMMA CursorStep ==
  ASSUME TypeOK, TypeOK', LockInv, NeverStamped, OneProcessPerCache, CursorInv, [Next]_vars
  PROVE  CursorInv'
<1>1. ASSUME NEW w \in Writers, WriterStep(w), ~ Commit(w) PROVE CursorInv'
  <2>1. UNCHANGED <<serverVars, pull, cacheVars>>
    BY <1>1 DEF WriterStep, BeginRows, BeginBlob, AskForLock, Acquire, FirstWriteConflict,
       Stage, Abort
  <2>2. QED
    BY <2>1 DEF serverVars, cacheVars, CursorInv, OnlyRacedRowsAreLost, Lost, PullInv, Cache
<1>2. ASSUME NEW w \in Writers, Commit(w) PROVE CursorInv'
  BY <1>2, CommitKeepsCursor
<1>3. ASSUME NEW r \in Rows, NEW S \in SUBSET Rows, DeleteRow(r, S) PROVE CursorInv'
  <2>1. UNCHANGED <<current, version, pull, cached, lastVersion, raced>>
    BY <1>3 DEF DeleteRow
  <2>2. \A e \in Entities : status'[e] = "live" => status[e] = "live"
    BY <1>3 DEF DeleteRow, TypeOK
  <2>3. QED
    BY <2>1, <2>2 DEF CursorInv, OnlyRacedRowsAreLost, Lost, PullInv, Cache
<1>14. ASSUME NEW r \in Rows, WriteUnversioned(r) PROVE CursorInv'
  <2>1. UNCHANGED <<current, version, pull, cached, lastVersion, raced>>
    BY <1>14 DEF WriteUnversioned
  <2>2. \A e \in Entities : status'[e] = "live" => status[e] = "live" \/ version[e] = 0
    BY <1>14 DEF WriteUnversioned, TypeOK, NeverStamped
  <2>3. \A c \in Caches, e \in Entities : cached[c][e] \in Nat
    BY DEF TypeOK
  <2>4. \A p \in Pulls : pull[p].since \in Nat
    BY PullTypes
  <2>5. \A c \in Caches, e \in Entities : Lost(c, e)' => Lost(c, e)
    BY <2>1, <2>2, <2>3 DEF Lost
  <2>6. \A p \in Pulls, e \in Entities :
          status'[e] = "live" /\ version[e] > pull[p].since => status[e] = "live"
    BY <2>2, <2>4
  <2>7. \A p \in Pulls : PullInv(p)'
    BY <2>1, <2>6 DEF CursorInv, PullInv, Cache
  <2>8. QED
    BY <2>1, <2>5, <2>7 DEF CursorInv, OnlyRacedRowsAreLost
<1>4. ASSUME NEW p \in Pulls, StartPull(p) PROVE CursorInv'
  BY <1>4, StartKeepsCursor
<1>5. ASSUME NEW p \in Pulls, SelectTable(p) PROVE CursorInv'
  BY <1>5, SelectKeepsCursor
<1>6. ASSUME NEW p \in Pulls, AnswerChanges(p) PROVE CursorInv'
  BY <1>6, AnswerKeepsCursor
<1>7. ASSUME NEW p \in Pulls, NEW r \in Rows, ApplyRow(p, r) PROVE CursorInv'
  <2>1. r \in Entities /\ pull[p].seen[r] \in Nat
    BY PullTypes DEF Entities
  <2>2. pull[p].seen[r] <= version[r]
    BY <2>1 DEF CursorInv, PullInv
  <2>3. QED
    BY <1>7, <2>1, <2>2, StoreKeepsCursor DEF ApplyRow, Pending
<1>8. ASSUME NEW p \in Pulls, NEW b \in Blobs, ApplyBlob(p, b) PROVE CursorInv'
  <2>1. b \in Entities /\ version[b] \in Nat
    BY PullTypes DEF Entities
  <2>2. pull[p].seen[b] <= version[b]
    BY <2>1 DEF CursorInv, PullInv
  <2>3. QED
    BY <1>8, <2>1, <2>2, StoreKeepsCursor DEF ApplyBlob, Pending
<1>9. ASSUME NEW p \in Pulls, NEW b \in Blobs, BlobMissing(p, b) PROVE CursorInv'
  <2>1. /\ pull' = [pull EXCEPT ![p] = IdlePull] /\ UNCHANGED serverVars
        /\ UNCHANGED <<cached, lastVersion, raced>>
    BY <1>9 DEF BlobMissing, cacheVars
  <2>2. QED
    BY <2>1, IdlePullInv, PullRecordMoves
<1>10. ASSUME NEW p \in Pulls, FinishPull(p) PROVE CursorInv'
  BY <1>10, FinishKeepsCursor
<1>11. ASSUME NEW p \in Pulls, FailPull(p) PROVE CursorInv'
  <2>1. /\ pull' = [pull EXCEPT ![p] = IdlePull] /\ UNCHANGED serverVars
        /\ UNCHANGED <<cached, lastVersion, raced>>
    BY <1>11 DEF FailPull
  <2>2. QED
    BY <2>1, IdlePullInv, PullRecordMoves
<1>12. CASE UNCHANGED vars
  BY <1>12 DEF vars, CursorInv, OnlyRacedRowsAreLost, Lost, PullInv, Cache
<1>13. QED
  BY <1>1, <1>2, <1>3, <1>4, <1>5, <1>6, <1>7, <1>8, <1>9, <1>10, <1>11, <1>12, <1>14
     DEF Next, PullProgress

LEMMA CursorInvariant == OneProcessPerCache /\ Spec => []CursorInv
<1>1. Init => CursorInv
  BY CacheAssumption, TableAssumption
     DEF Init, CursorInv, OnlyRacedRowsAreLost, Lost, PullInv, Cache, IdlePull, Nothing
<1>2. OneProcessPerCache /\ TypeOK /\ TypeOK' /\ LockInv /\ NeverStamped /\ CursorInv /\ [Next]_vars
        => CursorInv'
  BY CursorStep
<1>3. ASSUME OneProcessPerCache PROVE Spec => []CursorInv
  <2>1. TypeOK /\ TypeOK' /\ LockInv /\ NeverStamped /\ CursorInv /\ [Next]_vars => CursorInv'
    BY <1>2, <1>3
  <2>2. QED
    BY <1>1, <2>1, TypeCorrect, LockInvariant, NeverStampedInvariant, PTL DEF Spec
<1>4. QED
  BY <1>3

(* While no two processes share a cache file, a failed, killed or overlapped   *)
(* pull never moves the cursor past a row it did not store; only a write        *)
(* committed between the SELECT of its table and the read of the counter in     *)
(* GET /sync/changes can be passed.                                             *)
THEOREM OnlyRacedWritesArePassed ==
  ASSUME OneProcessPerCache PROVE Spec => []OnlyRacedRowsAreLost
<1>1. CursorInv => OnlyRacedRowsAreLost
  BY DEF CursorInv
<1>2. Spec => []CursorInv
  BY CursorInvariant
<1>3. QED
  BY <1>1, <1>2, PTL

\* What a step does to the cursor and to the cached versions.
LEMMA ForwardStep ==
  ASSUME TypeOK, CursorInv, [Next]_vars, NEW c \in Caches
  PROVE  /\ lastVersion'[c] >= lastVersion[c]
         /\ \A e \in Entities : cached'[c][e] >= cached[c][e]
<1> DEFINE Forward == /\ lastVersion'[c] >= lastVersion[c]
                      /\ \A e \in Entities : cached'[c][e] >= cached[c][e]
<1>a. lastVersion[c] \in Nat /\ \A e \in Entities : cached[c][e] \in Nat
  BY DEF TypeOK
<1>b. CASE UNCHANGED <<cached, lastVersion>>
  BY <1>a, <1>b
<1>1. ASSUME NEW p \in Pulls, NEW e \in Entities, NEW v \in Nat, Store(p, e, v),
             cached[Cache(p)][e] <= v
      PROVE  Forward
  <2>1. /\ lastVersion' = lastVersion
        /\ \A x \in Entities : cached'[c][x] = IF c = Cache(p) /\ x = e THEN v
                                                                   ELSE cached[c][x]
    BY <1>1, PullTypes DEF Store, TypeOK
  <2>2. QED
    BY <1>1, <1>a, <2>1
<1>2. ASSUME NEW p \in Pulls, NEW r \in Rows, ApplyRow(p, r) PROVE Forward
  <2>1. r \in Entities /\ pull[p].seen[r] \in Nat /\ cached[Cache(p)][r] <= pull[p].seen[r]
    BY <1>2, PullTypes DEF Entities, CursorInv, PullInv, ApplyRow, Pending
  <2>2. QED
    BY <1>1, <1>2, <2>1 DEF ApplyRow
<1>3. ASSUME NEW p \in Pulls, NEW b \in Blobs, ApplyBlob(p, b) PROVE Forward
  <2>1. b \in Entities /\ version[b] \in Nat /\ cached[Cache(p)][b] <= version[b]
    BY PullTypes DEF Entities, CursorInv
  <2>2. QED
    BY <1>1, <1>3, <2>1 DEF ApplyBlob
<1>4. ASSUME NEW p \in Pulls, FinishPull(p) PROVE Forward
  <2>1. lastVersion[Cache(p)] <= pull[p].upTo
    BY <1>4, PullTypes DEF FinishPull, CursorInv, PullInv
  <2>2. /\ cached' = cached
        /\ lastVersion'[c] = IF c = Cache(p) THEN pull[p].upTo ELSE lastVersion[c]
    BY <1>4, PullTypes DEF FinishPull, TypeOK
  <2>3. QED
    BY <1>a, <2>1, <2>2
<1>5. ASSUME NEW p \in Pulls,
             StartPull(p) \/ SelectTable(p) \/ AnswerChanges(p) \/ FailPull(p)
             \/ \E b \in Blobs : BlobMissing(p, b)
      PROVE  Forward
  BY <1>5, <1>b DEF StartPull, SelectTable, AnswerChanges, FailPull, BlobMissing, cacheVars
<1>6. ASSUME NEW w \in Writers, WriterStep(w) PROVE Forward
  BY <1>6, <1>b DEF WriterStep, BeginRows, BeginBlob, AskForLock, Acquire, FirstWriteConflict,
     Stage, Abort, Commit, cacheVars
<1>7. ASSUME NEW r \in Rows,
             WriteUnversioned(r) \/ \E S \in SUBSET Rows : DeleteRow(r, S)
      PROVE  Forward
  BY <1>7, <1>b DEF WriteUnversioned, DeleteRow
<1>8. CASE UNCHANGED vars
  BY <1>8, <1>b DEF vars
<1>9. QED
  BY <1>2, <1>3, <1>4, <1>5, <1>6, <1>7, <1>8 DEF Next, PullProgress

(* While no two processes share a cache file, neither the cursor nor a cached   *)
(* row ever goes back to an older version, however pulls fail and restart.      *)
THEOREM CacheNeverGoesBack ==
  ASSUME OneProcessPerCache PROVE Spec => CacheMovesForward
<1>1. TypeOK /\ CursorInv /\ [Next]_vars =>
        [\A c \in Caches :
           /\ lastVersion'[c] >= lastVersion[c]
           /\ \A e \in Entities : cached'[c][e] >= cached[c][e]]_vars
  BY ForwardStep
<1>2. Spec => []CursorInv
  BY CursorInvariant
<1>3. QED
  BY <1>1, <1>2, TypeCorrect, PTL DEF Spec, CacheMovesForward

\* What a pull does to its own answer keeps it above the version asked for.
LEMMA SeenStep ==
  ASSUME TypeOK, SeenInv, [Next]_vars
  PROVE  SeenInv'
<1> SUFFICES ASSUME NEW p \in Pulls, NEW e \in Entities, pull'[p].seen[e] # 0
             PROVE  pull'[p].seen[e] > pull'[p].since
  BY DEF SeenInv
<1>a. /\ pull[p].seen[e] # 0 => pull[p].seen[e] > pull[p].since
      /\ pull[p] \in PullRecord
  BY PullTypes DEF SeenInv
<1>b. CASE pull'[p].seen = pull[p].seen /\ pull'[p].since = pull[p].since
  BY <1>a, <1>b
<1>c. CASE pull'[p].seen = Nothing
  BY <1>c DEF Nothing
<1>d. IdlePull.seen = Nothing
  BY DEF IdlePull
<1>1. ASSUME NEW q \in Pulls, StartPull(q) PROVE pull'[p].seen[e] > pull'[p].since
  <2>1. CASE q # p
    BY <1>1, <1>b, <2>1 DEF StartPull, TypeOK
  <2>2. CASE q = p
    BY <1>1, <1>c, <2>2 DEF StartPull, TypeOK, IdlePull
  <2>3. QED
    BY <2>1, <2>2
<1>2. ASSUME NEW q \in Pulls, SelectTable(q) PROVE pull'[p].seen[e] > pull'[p].since
  <2>1. CASE q # p
    BY <1>2, <1>b, <2>1 DEF SelectTable, TypeOK
  <2>2. CASE q = p
    <3> DEFINE S == [x \in Entities |->
                   IF TableOf[x] = pull[p].table /\ Selectable(x) /\ version[x] > pull[p].since
                   THEN version[x] ELSE pull[p].seen[x]]
               R == [pull[p] EXCEPT !.table = pull[p].table + 1, !.seen = S]
    <3>1. pull' = [pull EXCEPT ![p] = R]
      BY <1>2, <2>2 DEF SelectTable, TypeOK
    <3>2. pull'[p] = R
      BY <3>1 DEF TypeOK
    <3>3. R.since = pull[p].since /\ R.seen = S
      BY <1>a DEF PullRecord
    <3>4. pull'[p].since = pull[p].since
          /\ pull'[p].seen[e] = IF TableOf[e] = pull[p].table /\ Selectable(e)
                                     /\ version[e] > pull[p].since
                                 THEN version[e] ELSE pull[p].seen[e]
      BY <3>2, <3>3
    <3>5. QED
      BY <1>a, <3>4
  <2>3. QED
    BY <2>1, <2>2
<1>3. ASSUME NEW q \in Pulls, NEW x \in Entities, NEW v, Store(q, x, v)
      PROVE  pull'[p].seen[e] > pull'[p].since
  <2>1. CASE q # p
    BY <1>3, <1>b, <2>1 DEF Store, TypeOK
  <2>2. CASE q = p
    <3> DEFINE S == [pull[p].seen EXCEPT ![x] = 0]
               R == [pull[p] EXCEPT !.seen = S]
    <3>1. pull' = [pull EXCEPT ![p] = R]
      BY <1>3, <2>2 DEF Store, TypeOK
    <3>2. pull'[p] = R
      BY <3>1 DEF TypeOK
    <3>3. R.since = pull[p].since /\ R.seen = S
      BY <1>a DEF PullRecord
    <3>4. S[e] = IF e = x THEN 0 ELSE pull[p].seen[e]
      BY <1>a DEF PullRecord
    <3>5. QED
      BY <1>a, <3>2, <3>3, <3>4
  <2>3. QED
    BY <2>1, <2>2
<1>4. ASSUME NEW q \in Pulls, AnswerChanges(q) PROVE pull'[p].seen[e] > pull'[p].since
  <2>1. pull'[p].seen = pull[p].seen /\ pull'[p].since = pull[p].since
    BY <1>4, <1>a DEF AnswerChanges, TypeOK, PullRecord
  <2>2. QED
    BY <2>1, <1>b
<1>5. ASSUME NEW q \in Pulls, pull' = [pull EXCEPT ![q] = IdlePull]
      PROVE  pull'[p].seen[e] > pull'[p].since
  <2>1. CASE q # p
    BY <1>5, <1>b, <2>1 DEF TypeOK
  <2>2. CASE q = p
    BY <1>5, <1>c, <1>d, <2>2 DEF TypeOK
  <2>3. QED
    BY <2>1, <2>2
<1>6. ASSUME NEW q \in Pulls, PullProgress(q) \/ FailPull(q)
      PROVE  pull'[p].seen[e] > pull'[p].since
  BY <1>6, <1>2, <1>3, <1>4, <1>5
     DEF PullProgress, FailPull, ApplyRow, ApplyBlob, BlobMissing, FinishPull, Entities
<1>7. ASSUME NEW w \in Writers, Commit(w) PROVE pull'[p].seen[e] > pull'[p].since
  <2>1. pull'[p].seen = pull[p].seen /\ pull'[p].since = pull[p].since
    BY <1>7, <1>a DEF Commit, PullRecord
  <2>2. QED
    BY <2>1, <1>b
<1>8. CASE UNCHANGED pull
  BY <1>8, <1>b
<1>9. ASSUME NEW w \in Writers, WriterStep(w) PROVE pull'[p].seen[e] > pull'[p].since
  BY <1>9, <1>7, <1>8 DEF WriterStep, BeginRows, BeginBlob, AskForLock, Acquire,
     FirstWriteConflict, Stage, Abort
<1>10. ASSUME NEW r \in Rows,
              WriteUnversioned(r) \/ \E S \in SUBSET Rows : DeleteRow(r, S)
       PROVE  pull'[p].seen[e] > pull'[p].since
  BY <1>10, <1>8 DEF WriteUnversioned, DeleteRow
<1>11. CASE UNCHANGED vars
  BY <1>11, <1>8 DEF vars
<1>12. QED
  BY <1>1, <1>6, <1>9, <1>10, <1>11 DEF Next

LEMMA SeenInvariant == Spec => []SeenInv
<1>1. Init => SeenInv
  BY DEF Init, SeenInv, IdlePull, Nothing
<1>2. TypeOK /\ SeenInv /\ [Next]_vars => SeenInv'
  BY SeenStep
<1>3. QED
  BY <1>1, <1>2, TypeCorrect, PTL DEF Spec

\* Only a pull that stores the row clears what a cache has not seen of it.
LEMMA WaitStep ==
  ASSUME TypeOK, CursorInv, SeenInv, [Next]_vars,
         NEW c \in Caches, NEW r \in unseen[c] \ unseen'[c]
  PROVE  version[r] > lastVersion[c]
<1>a. r \in Rows /\ r \in Entities
  BY DEF TypeOK, Entities
<1>b. unseen' # unseen
  OBVIOUS
<1>1. ASSUME NEW p \in Pulls, NEW e \in Entities, NEW v, Store(p, e, v),
             pull[p].stage = "applying", e \in Pending(p)
      PROVE  version[r] > lastVersion[c]
  <2>1. c = Cache(p) /\ e = r
    BY <1>1 DEF Store, TypeOK
  <2>2. PullInv(p) /\ pull[p].seen[r] # 0
    BY <1>1, <2>1 DEF CursorInv, Pending
  <2>3. pull[p].since = lastVersion[c] /\ pull[p].seen[r] <= version[r]
    BY <1>1, <1>a, <2>1, <2>2 DEF PullInv
  <2>4. pull[p].seen[r] > pull[p].since
    BY <1>a, <2>2 DEF SeenInv
  <2>5. QED
    BY <1>a, <2>3, <2>4, PullTypes
<1>2. ASSUME NEW p \in Pulls, StartPull(p) \/ PullProgress(p) \/ FailPull(p)
      PROVE  version[r] > lastVersion[c]
  BY <1>2, <1>1, <1>b DEF StartPull, PullProgress, FailPull, SelectTable, AnswerChanges,
     ApplyRow, ApplyBlob, BlobMissing, FinishPull, cacheVars, changeVars, Entities
<1>3. ASSUME NEW w \in Writers, WriterStep(w) PROVE FALSE
  BY <1>3, <1>b DEF WriterStep, BeginRows, BeginBlob, AskForLock, Acquire, FirstWriteConflict,
     Stage, Abort, Commit, cacheVars, changeVars
<1>4. ASSUME NEW x \in Rows, WriteUnversioned(x) \/ \E S \in SUBSET Rows : DeleteRow(x, S)
      PROVE  FALSE
  BY <1>4 DEF WriteUnversioned, DeleteRow, ChangeUnstamped
<1>5. QED
  BY <1>2, <1>3, <1>4, <1>b DEF Next, vars

(* While no two processes share a cache file, a change that took no version     *)
(* reaches a cache only with a version of the row above the cursor: neither      *)
(* time nor a pull that failed and is repeated brings it, so it waits for the    *)
(* next write that is stamped, and a notification waits for ever.                *)
THEOREM UnstampedChangesWait ==
  ASSUME OneProcessPerCache PROVE Spec => UnstampedWaitForAStamp
<1>1. TypeOK /\ CursorInv /\ SeenInv /\ [Next]_vars =>
        [\A c \in Caches : \A r \in unseen[c] \ unseen'[c] : version[r] > lastVersion[c]]_vars
  BY WaitStep
<1>2. Spec => []CursorInv
  BY CursorInvariant
<1>3. QED
  BY <1>1, <1>2, SeenInvariant, TypeCorrect, PTL DEF Spec, UnstampedWaitForAStamp
=============================================================================
