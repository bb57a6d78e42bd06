---------------------------- MODULE ServerMonitor ----------------------------
(***************************************************************************)
(* The periodic reachability check of one owner's servers: runs of the     *)
(* Celery task, which select the servers, probe them with no transaction   *)
(* open and then record the verdicts one by one, and the requests that     *)
(* edit or delete a server meanwhile.                                      *)
(*                                                                         *)
(* Nothing keeps two runs apart: the schedule, the start of a worker and   *)
(* the creation of a server each publish one.  A run reads a server, then  *)
(* waits for the owner's sync_state row, so what it read may be old by the *)
(* time it writes; and it writes only what differs from what it read.      *)
(*                                                                         *)
(* Time is counted in recorded checks: the n-th check recorded is at n.    *)
(***************************************************************************)
EXTENDS Naturals, FiniteSets

CONSTANTS
  Servers,           \* ids, in the order runs write them
  Addresses,         \* what ip_address:ssh_port may be
  FirstAddress,      \* and what it is when a server is entered
  Runs,              \* executions of the task that may overlap
  Updaters,          \* requests that edit a server
  FailureThreshold,  \* FAILURE_THRESHOLD
  MaxRuns,           \* bound: runs that find a server to check
  MaxFaults          \* bound: crashed workers, failed writes, failed deliveries

ASSUME ServersAssumption == Servers \subseteq Nat /\ IsFiniteSet(Servers)
ASSUME AddressAssumption == FirstAddress \in Addresses
ASSUME ThresholdAssumption == FailureThreshold \in Nat \ {0}
ASSUME BoundAssumption == MaxRuns \in Nat /\ MaxFaults \in Nat

VARIABLES
  row,        \* the servers table
  notes,      \* the notifications of type server_down and server_up
  clock,      \* checks recorded so far
  run,        \* the state of each run
  update,     \* the transaction of each editing request
  runs,       \* runs started that found a server
  faults,     \* faults so far
  misses      \* history: unanswered checks of a server recorded in a row

dbVars == <<row, notes, clock>>
vars == <<row, notes, clock, run, update, runs, faults, misses>>

FreshRow == [exists |-> TRUE, addr |-> FirstAddress, ok |-> "unchecked",
             failures |-> 0, at |-> 0, stamped |-> TRUE]
\* MUTANT of GoneRow: a deleted server is kept with a status of its own.
MarkedRow == [FreshRow EXCEPT !.exists = FALSE, !.ok = "deleted"]

GoneRow == [FreshRow EXCEPT !.exists = FALSE]

IdleRun ==
  [phase |-> "idle", targets |-> {}, probed |-> [s \in Servers |-> FirstAddress],
   answered |-> {}, todo |-> {}, loaded |-> FreshRow, attempted |-> 0, bumped |-> FALSE,
   checked |-> 0, undelivered |-> 0, failed |-> 0, broke |-> FALSE,
   landed |-> {}, outcome |-> "none"]

IdleUpdate == [phase |-> "idle", servers |-> {}, addr |-> FirstAddress]

Init ==
  /\ row = [s \in Servers |-> FreshRow]
  /\ notes = {}
  /\ clock = 0
  /\ run = [r \in Runs |-> IdleRun]
  /\ update = [u \in Updaters |-> IdleUpdate]
  /\ runs = 0
  /\ faults = 0
  /\ misses = [s \in Servers |-> 0]

-----------------------------------------------------------------------------
(* Locks.  An edit writes the server's row first (autoflush) and asks for    *)
(* sync_state next; a run takes sync_state first and the row next.           *)

SyncStateFree ==
  /\ \A r \in Runs : run[r].phase # "locked"
  /\ \A u \in Updaters : update[u].phase # "locked"

RowLocked(s) == \E u \in Updaters : update[u].phase # "idle" /\ s \in update[u].servers

\* The server a run is at: _apply_results goes in the order of the ids.
Current(r) == CHOOSE s \in run[r].todo : \A x \in run[r].todo : s <= x

-----------------------------------------------------------------------------
(* A run, _monitor_servers.                                                  *)

\* _load_targets: the servers that exist, with the addresses they have.
StartRun(r) ==
  LET targets == {s \in Servers : row[s].exists} IN
  /\ run[r].phase \in {"idle", "done"}
  /\ targets # {} => runs < MaxRuns
  /\ runs' = IF targets # {} THEN runs + 1 ELSE runs
  /\ run' = [run EXCEPT ![r] =
        [IdleRun EXCEPT !.phase = "probing", !.targets = targets,
                        !.probed = [s \in Servers |-> row[s].addr]]]
  /\ UNCHANGED <<dbVars, update, faults, misses>>

\* _probe_all, and the first loop of _apply_results: a probe that raised is
\* counted as an error, every other result is to be recorded.
Probe(r) ==
  \E answered \in SUBSET run[r].targets, raised \in SUBSET run[r].targets :
    /\ run[r].phase = "probing"
    /\ answered \cap raised = {}
    /\ Cardinality(raised) + faults <= MaxFaults
    /\ faults' = faults + Cardinality(raised)
    /\ run' = [run EXCEPT ![r].phase = "writing",
                          ![r].answered = answered,
                          ![r].todo = run[r].targets \ raised,
                          ![r].failed = Cardinality(raised),
                          ![r].broke = raised # {}]
    /\ UNCHANGED <<dbVars, update, runs, misses>>

\* MUTANT of SkipServer: the server is passed over without being counted.
SkipServerSilently(r) ==
  LET s == Current(r) IN
  /\ run[r].phase = "writing"
  /\ run[r].todo # {}
  /\ ~ row[s].exists \/ row[s].addr # run[r].probed[s]
  /\ run' = [run EXCEPT ![r].todo = @ \ {s}]
  /\ UNCHANGED <<dbVars, update, runs, faults, misses>>

\* session.get: a server that is gone, or whose address was edited since it was
\* probed, is counted and left alone.
SkipServer(r) ==
  LET s == Current(r) IN
  /\ run[r].phase = "writing"
  /\ run[r].todo # {}
  /\ ~ row[s].exists \/ row[s].addr # run[r].probed[s]
  /\ run' = [run EXCEPT ![r].todo = @ \ {s}, ![r].failed = @ + 1]
  /\ UNCHANGED <<dbVars, update, runs, faults, misses>>

LoadServer(r) ==
  LET s == Current(r) IN
  /\ run[r].phase = "writing"
  /\ run[r].todo # {}
  /\ row[s].exists
  /\ row[s].addr = run[r].probed[s]
  /\ run' = [run EXCEPT ![r].phase = "loaded", ![r].loaded = row[s],
                        ![r].attempted = clock]
  /\ UNCHANGED <<dbVars, update, runs, faults, misses>>

\* touch_entity_sync: SELECT FOR UPDATE on sync_state and the bump.
LockSyncState(r) ==
  /\ run[r].phase = "loaded"
  /\ SyncStateFree
  /\ run' = [run EXCEPT ![r].phase = "locked", ![r].bumped = TRUE]
  /\ UNCHANGED <<dbVars, update, runs, faults, misses>>

\* A column goes into the UPDATE only where it differs from what was loaded.
Merge(now, was, new) == IF new = was THEN now ELSE new

\* MUTANT of Failures: an answer does not reset the counter.
FailuresKept(r, ok) == IF ok THEN run[r].loaded.failures ELSE run[r].loaded.failures + 1

\* The fields apply_check_result computes from the row it was given.
Failures(r, ok) == IF ok THEN 0 ELSE run[r].loaded.failures + 1

Transition(r, ok) ==
  CASE ok /\ run[r].loaded.ok = "down" -> "up"
    [] ~ ok /\ Failures(r, ok) >= FailureThreshold /\ run[r].loaded.ok # "down" -> "down"
    [] OTHER -> "none"

\* MUTANT of Status: the threshold is off by one from the one of the notification.
StatusLate(r, ok) ==
  CASE ok -> "up"
    [] ~ ok /\ Failures(r, ok) > FailureThreshold -> "down"
    [] OTHER -> run[r].loaded.ok

Status(r, ok) ==
  CASE ok -> "up"
    [] Transition(r, ok) = "down" -> "down"
    [] OTHER -> run[r].loaded.ok

\* MUTANT of Note: the dedup key names the server and not the episode.
NoteOfServer(r, ok) ==
  [kind |-> Transition(r, ok), server |-> Current(r), marker |-> 0]

\* The notification of a transition, keyed by its episode: an outage by the time
\* of the check before, a recovery by the time of this one.
Note(r, ok) ==
  LET marker == IF ok \/ run[r].loaded.at = 0 THEN clock + 1 ELSE run[r].loaded.at
  IN  [kind |-> Transition(r, ok), server |-> Current(r), marker |-> marker]

\* The dedup key of a notification is all of it that the model keeps.
Told(n) == n \in notes

\* The run counts the server it is at and goes on to the next.
Counted(r) ==
  [run[r] EXCEPT !.phase = "writing", !.todo = @ \ {Current(r)}, !.loaded = FreshRow,
                 !.attempted = 0, !.bumped = FALSE, !.checked = @ + 1]

\* MUTANT of Stamped: touch_entity_sync after apply_check_result, which on a new
\* notification has committed by then.
StampedAfter(r, new) == ~ new

\* Is the new sync_version part of the commit that stores the verdict?
Stamped(r, new) == run[r].bumped

\* apply_check_result and the commit.  With a new notification the commit is
\* create_notification's, and the delivery is still to come.
Record(r) ==
  LET s == Current(r)
      ok == s \in run[r].answered
      was == run[r].loaded
      note == Note(r, ok)
      new == Transition(r, ok) # "none" /\ ~ Told(note)
      next == IF new THEN [run[r] EXCEPT !.phase = "dispatching", !.bumped = FALSE]
                     ELSE Counted(r)
  IN
  /\ run[r].phase = "locked"
  /\ ~ RowLocked(s)
  /\ row[s].exists
  /\ row' = [row EXCEPT ![s] =
        [row[s] EXCEPT !.failures = Merge(@, was.failures, Failures(r, ok)),
                       !.ok = Merge(@, was.ok, Status(r, ok)),
                       !.at = clock + 1,
                       !.stamped = Stamped(r, new)]]
  /\ notes' = IF new THEN notes \cup {note} ELSE notes
  /\ clock' = clock + 1
  /\ run' = [run EXCEPT ![r] = [next EXCEPT !.landed = @ \cup {s}]]
  /\ misses' = [misses EXCEPT ![s] = IF ok THEN 0 ELSE @ + 1]
  /\ UNCHANGED <<update, runs, faults>>

\* The webhook and Telegram have been called and the loop goes on.
Delivered(r) ==
  /\ run[r].phase = "dispatching"
  /\ run' = [run EXCEPT ![r] = Counted(r)]
  /\ UNCHANGED <<dbVars, update, runs, faults, misses>>

\* MUTANT of CheckLanded: any check ever recorded counts as this one.
CheckLandedOnce(r) == row[Current(r)].exists

\* _check_landed: is the server's last_check_at newer than this attempt?
CheckLanded(r) ==
  LET s == Current(r) IN row[s].exists /\ row[s].at > run[r].attempted

\* The exception handler of the loop: rollback, then _check_landed, whose own
\* query may fail too.
HandleError(r) ==
  \E answers \in BOOLEAN :
    run' = [run EXCEPT ![r] =
      IF answers /\ CheckLanded(r)
      THEN [Counted(r) EXCEPT !.broke = TRUE, !.undelivered = @ + 1]
      ELSE [Counted(r) EXCEPT !.broke = TRUE, !.checked = run[r].checked,
                              !.failed = @ + 1]]

\* The row was deleted after it was loaded: the UPDATE matches nothing.
WriteGone(r) ==
  /\ run[r].phase = "locked"
  /\ ~ row[Current(r)].exists
  /\ HandleError(r)
  /\ UNCHANGED <<dbVars, update, runs, faults, misses>>

\* The run holds sync_state and needs the row; the edit holds the row and needs
\* sync_state.  Postgres aborts one of the two.
DeadlockBroken(r, u) ==
  /\ run[r].phase = "locked"
  /\ update[u].phase = "flushed"
  /\ Current(r) \in update[u].servers
  /\ \/ HandleError(r) /\ UNCHANGED update
     \/ update' = [update EXCEPT ![u] = IdleUpdate] /\ UNCHANGED run
  /\ UNCHANGED <<dbVars, runs, faults, misses>>

\* The connection drops or a statement fails before the commit, or the delivery
\* raises after it.
AttemptFails(r) ==
  /\ run[r].phase \in {"loaded", "locked", "dispatching"}
  /\ faults < MaxFaults
  /\ faults' = faults + 1
  /\ HandleError(r)
  /\ UNCHANGED <<dbVars, update, runs, misses>>

\* _write_task_logs, in a session of its own, which may fail without a trace;
\* then the answer of the task.
FinishRun(r) ==
  /\ run[r].phase = "writing"
  /\ run[r].todo = {}
  /\ \/ (run[r].targets # {} => SyncStateFree) /\ UNCHANGED faults
     \/ faults < MaxFaults /\ faults' = faults + 1
  /\ run' = [run EXCEPT ![r].phase = "done",
        ![r].probed = IdleRun.probed,
        ![r].answered = {},
        ![r].outcome = IF run[r].targets # {} /\ run[r].checked = 0 /\ run[r].broke
                       THEN "failed" ELSE "succeeded"]
  /\ UNCHANGED <<dbVars, update, runs, misses>>

\* The worker is killed; its transaction is rolled back and the task is not retried.
Crash(r) ==
  /\ run[r].phase \notin {"idle", "done"}
  /\ faults < MaxFaults
  /\ faults' = faults + 1
  /\ run' = [run EXCEPT ![r] = IdleRun]
  /\ UNCHANGED <<dbVars, update, runs, misses>>

-----------------------------------------------------------------------------
(* Requests that edit or delete a server, server_service.                    *)

\* update or apply_metrics: the columns are set on the loaded object, and the
\* query of touch_entity_sync flushes them before it asks for sync_state.
BeginUpdate(u, s, a) ==
  /\ update[u].phase = "idle"
  /\ row[s].exists
  /\ ~ RowLocked(s)
  /\ update' = [update EXCEPT ![u] = [phase |-> "flushed", servers |-> {s}, addr |-> a]]
  /\ UNCHANGED <<dbVars, run, runs, faults, misses>>

LockForUpdate(u) ==
  /\ update[u].phase = "flushed"
  /\ SyncStateFree
  /\ update' = [update EXCEPT ![u].phase = "locked"]
  /\ UNCHANGED <<dbVars, run, runs, faults, misses>>

\* MUTANT of CommitUpdate: the request keeps its transaction open.
CommitUpdateKeepsLock(u) ==
  /\ update[u].phase = "locked"
  /\ row' = [s \in Servers |-> IF s \in update[u].servers
                               THEN [row[s] EXCEPT !.addr = update[u].addr, !.stamped = TRUE]
                               ELSE row[s]]
  /\ UNCHANGED <<notes, clock, run, update, runs, faults, misses>>

CommitUpdate(u) ==
  /\ update[u].phase = "locked"
  /\ row' = [s \in Servers |-> IF s \in update[u].servers
                               THEN [row[s] EXCEPT !.addr = update[u].addr, !.stamped = TRUE]
                               ELSE row[s]]
  /\ update' = [update EXCEPT ![u] = IdleUpdate]
  /\ UNCHANGED <<notes, clock, run, runs, faults, misses>>

\* DELETE waits for an edit in progress; the row is gone for good.
DeleteServer(s) ==
  /\ row[s].exists
  /\ ~ RowLocked(s)
  /\ row' = [row EXCEPT ![s] = GoneRow]
  /\ misses' = [misses EXCEPT ![s] = 0]
  /\ UNCHANGED <<notes, clock, run, update, runs, faults>>

-----------------------------------------------------------------------------
RunProgress(r) ==
  \/ Probe(r)
  \/ SkipServer(r)
  \/ LoadServer(r)
  \/ LockSyncState(r)
  \/ Record(r)
  \/ Delivered(r)
  \/ WriteGone(r)
  \/ \E u \in Updaters : DeadlockBroken(r, u)
  \/ FinishRun(r)

UpdateProgress(u) == LockForUpdate(u) \/ CommitUpdate(u)

Next ==
  \/ \E r \in Runs : StartRun(r) \/ RunProgress(r) \/ AttemptFails(r) \/ Crash(r)
  \/ \E u \in Updaters :
       \/ \E s \in Servers, a \in Addresses : BeginUpdate(u, s, a)
       \/ UpdateProgress(u)
  \/ \E s \in Servers : DeleteServer(s)

Spec == Init /\ [][Next]_vars

\* Probes time out; Postgres hands a lock to those who wait for it and breaks
\* deadlocks, so a wait for a lock that is freed again and again ends.
Fairness ==
  /\ \A r \in Runs : /\ WF_vars(RunProgress(r))
                     /\ SF_vars(LockSyncState(r))
                     /\ SF_vars(Record(r))
                     /\ SF_vars(FinishRun(r))
  /\ \A u \in Updaters : WF_vars(UpdateProgress(u))

FairSpec == Spec /\ Fairness

-----------------------------------------------------------------------------
RowRecord ==
  [exists: BOOLEAN, addr: Addresses, ok: {"unchecked", "up", "down"},
   failures: Nat, at: Nat, stamped: BOOLEAN]

NoteRecord == [kind: {"up", "down"}, server: Servers, marker: Nat]

RunRecord ==
  [phase: {"idle", "probing", "writing", "loaded", "locked", "dispatching", "done"},
   targets: SUBSET Servers, probed: [Servers -> Addresses], answered: SUBSET Servers,
   todo: SUBSET Servers, loaded: RowRecord, attempted: Nat, bumped: BOOLEAN,
   checked: Nat, undelivered: Nat, failed: Nat, broke: BOOLEAN,
   landed: SUBSET Servers, outcome: {"none", "failed", "succeeded"}]

UpdateRecord ==
  [phase: {"idle", "flushed", "locked"}, servers: SUBSET Servers, addr: Addresses]

TypeOK ==
  /\ row \in [Servers -> RowRecord]
  /\ notes \subseteq NoteRecord
  /\ clock \in Nat
  /\ run \in [Runs -> RunRecord]
  /\ update \in [Updaters -> UpdateRecord]
  /\ runs \in Nat
  /\ faults \in Nat
  /\ misses \in [Servers -> Nat]

\* Whatever a run meets on its way, "checked + failed" is the number of servers
\* it set out to check, so that a server lost on the way shows in the journal.
EveryTargetIsCounted ==
  \A r \in Runs : run[r].phase \notin {"idle", "probing"} =>
    /\ run[r].checked + run[r].failed + Cardinality(run[r].todo) = Cardinality(run[r].targets)
    /\ run[r].undelivered <= run[r].checked

\* What the journal calls checked has been recorded by this run.
CheckedMeansRecorded == \A r \in Runs : run[r].checked <= Cardinality(run[r].landed)

\* A server is shown as down exactly from the check that confirms the outage, the
\* FAILURE_THRESHOLD-th unanswered in a row, to the first answer.
DownIsConfirmed ==
  \A s \in Servers : row[s].exists =>
    (row[s].ok = "down" <=> misses[s] >= FailureThreshold)

\* The half of it an owner would mind most: a server shown as down has just left
\* FAILURE_THRESHOLD checks in a row unanswered, also when runs overlap.
NoFalseOutage ==
  \A s \in Servers : row[s].ok = "down" => misses[s] >= FailureThreshold

\* No verdict is committed without a version of its own, also when the delivery
\* of its notification fails or the worker dies in it: /sync/changes would never
\* select the row again (why touch_entity_sync comes before apply_check_result).
EveryCheckIsStamped == \A s \in Servers : row[s].stamped

\* A notification is created in the commit that stores the verdict it announces,
\* however the deletion of the server or a failed write cuts in.
NotesComeWithTheVerdict ==
  [][\A n \in notes' \ notes :
        /\ row'[n.server].exists
        /\ row'[n.server].ok = n.kind
        /\ row'[n.server].at = clock']_vars

NotesOf(s, kind) == {n \in notes : n.server = s /\ n.kind = kind}

\* Overlapping runs tell the owner of a recovery once per outage.
OneRecoveryPerOutage ==
  \A s \in Servers : Cardinality(NotesOf(s, "up")) <= Cardinality(NotesOf(s, "down"))

\* Every run comes to an end, whatever edits it waits for.
RunsEnd ==
  \A r \in Runs : run[r].phase # "idle" ~> run[r].phase \in {"idle", "done"}

-----------------------------------------------------------------------------
\* One run at a time keeps the promise of OutageEpisodes.
Episodes == INSTANCE OutageEpisodes WITH
  Threshold <- FailureThreshold,
  down <- [s \in Servers |-> row[s].ok = "down"],
  told <- [s \in Servers |-> Cardinality({n \in notes : n.server = s})]

ImplementsEpisodes == Episodes!Spec

-----------------------------------------------------------------------------
(* The inductive invariants behind the properties above.                     *)

\* What a run carries, whatever other runs and requests do: a verdict is written
\* only for a server still to do, in a transaction that took a version.
RunOK(R) ==
  /\ R \in RunRecord
  /\ R.todo \subseteq R.targets
  /\ R.phase \in {"loaded", "locked", "dispatching"} => R.todo # {}
  /\ R.phase = "locked" => R.bumped
  /\ R.phase = "probing" => R.checked = 0 /\ R.failed = 0 /\ R.undelivered = 0
  /\ R.phase \notin {"idle", "probing"} =>
       /\ R.checked + R.failed + Cardinality(R.todo) = Cardinality(R.targets)
       /\ R.undelivered <= R.checked

MonitorInv ==
  /\ TypeOK
  /\ \A r \in Runs : RunOK(run[r])
  /\ EveryCheckIsStamped

OneRunAtATime == \A q, r \in Runs : q = r

\* With one run at a time what it loaded is what it overwrites, and a check newer
\* than its attempt is its own.
LoadedIsCurrent(r) ==
  LET s == Current(r) IN
  run[r].phase \in {"loaded", "locked"} =>
    /\ run[r].attempted = clock
    /\ row[s].exists => /\ run[r].loaded.failures = row[s].failures
                        /\ run[r].loaded.ok = row[s].ok
                        /\ run[r].loaded.at = row[s].at

\* A server is in "landed" from its verdict on, and one in delivery is not counted.
LandedOnce(r) ==
  /\ run[r].phase = "probing" => run[r].landed = {}
  /\ run[r].landed \cap run[r].todo \subseteq
       {s \in run[r].todo : run[r].phase = "dispatching" /\ s = Current(r)}
  /\ run[r].checked + (IF run[r].phase = "dispatching" THEN 1 ELSE 0)
       <= Cardinality(run[r].landed)

\* The counter of the row is the history, and no check is from the future.
RowsAreHistory ==
  \A s \in Servers :
    /\ row[s].failures = misses[s]
    /\ row[s].ok = "down" <=> misses[s] >= FailureThreshold
    /\ row[s].at <= clock

\* Every notification is of a past episode, unless its server is down in it now.
NotesArePast ==
  /\ IsFiniteSet(notes)
  /\ \A n \in notes :
       /\ n.marker <= clock
       /\ n.kind = "down" /\ row[n.server].exists =>
            /\ n.marker <= row[n.server].at
            /\ row[n.server].ok # "down" => n.marker < row[n.server].at

SingleInv ==
  /\ \A r \in Runs : LoadedIsCurrent(r) /\ LandedOnce(r)
  /\ RowsAreHistory
  /\ NotesArePast
=============================================================================
