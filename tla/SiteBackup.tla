------------------------------ MODULE SiteBackup ------------------------------
(***************************************************************************)
(* The backup of one site: the screen of a desktop, the command behind it, *)
(* and the server both work on, which other desktops of the owner share.   *)
(*                                                                         *)
(* A run archives the site in a directory of the server that is its lock   *)
(* as well, packs an archive beside it, removes the directory, downloads   *)
(* the archive and removes that too.  The user may ask to cancel at any    *)
(* moment, and the answer to any command may never come.                   *)
(*                                                                         *)
(* Runs are numbered; an archive or a directory is named by the run that   *)
(* made it.  The work directory is per domain, so one domain is the whole  *)
(* story on the server.                                                    *)
(***************************************************************************)
EXTENDS Naturals

CONSTANTS
  Desktops,
  MaxRuns,    \* bound: runs started
  MaxSecond,  \* bound: seconds a run may begin in, which name the archives
  MaxFaults   \* bound: commands that fail or go unanswered, crashed desktops

ASSUME BoundAssumption == MaxRuns \in Nat /\ MaxSecond \in Nat \ {0} /\ MaxFaults \in Nat

VARIABLES
  \* the server
  lock,       \* the run whose directory is there, 0 if there is none
  archive,    \* the archive named by each second
  \* each desktop
  job,        \* the command domain_backup_create
  registry,   \* BackupRuns: "none", "running" or "cancelled"
  disk,       \* the file the user chose to save to
  screen,     \* the run as the store of the user interface has it
  noteEvent,  \* is an event about a leftover archive under way to the screen
  \* history and bounds
  runs,
  faults,
  harmed,     \* runs whose cleanup failed, got no answer, or whose lock did
  skipped     \* runs whose cleanup was refused for the user's cancel

serverVars == <<lock, archive>>
boundVars == <<runs, faults, harmed, skipped>>
vars == <<lock, archive, job, registry, disk, screen, noteEvent,
          runs, faults, harmed, skipped>>

Seconds == 1..MaxSecond

NoFile == [by |-> 0, whole |-> FALSE]
Whole(id) == [by |-> id, whole |-> TRUE]
Partial(id) == [by |-> id, whole |-> FALSE]
\* What a reader gets of a file that is overwritten under it.
Mixture == [by |-> 0, whole |-> TRUE]

IdleJob == [phase |-> "idle", id |-> 0, second |-> 1, alive |-> TRUE, fired |-> FALSE,
            outcome |-> "none", sum |-> NoFile, reading |-> NoFile, warned |-> FALSE]

EmptyRun == [gate |-> FALSE, shown |-> "none", asked |-> FALSE, note |-> FALSE,
             cancelling |-> FALSE]

Init ==
  /\ lock = 0
  /\ archive = [s \in Seconds |-> NoFile]
  /\ job = [d \in Desktops |-> IdleJob]
  /\ registry = [d \in Desktops |-> "none"]
  /\ disk = [d \in Desktops |-> NoFile]
  /\ screen = [d \in Desktops |-> EmptyRun]
  /\ noteEvent = [d \in Desktops |-> FALSE]
  /\ runs = 0
  /\ faults = 0
  /\ harmed = {}
  /\ skipped = {}

Fault ==
  /\ faults < MaxFaults
  /\ faults' = faults + 1

-----------------------------------------------------------------------------
(* Where a run goes next.  Each returns the job after the step.             *)

\* The command is over, whatever is still to be told to the screen.
Ended(j, outcome) == [j EXCEPT !.phase = "returning", !.outcome = outcome]

\* CancellableExec: the first command after a cancel is refused, later ones pass.
Refused(d) == registry[d] = "cancelled" /\ ~ job[d].fired

\* A command of create_backup before the lock is taken.
Before(d, phase) ==
  IF Refused(d) THEN [Ended(job[d], "cancelled") EXCEPT !.fired = TRUE]
                ELSE [job[d] EXCEPT !.phase = phase]

\* A command of run_locked: refused, it makes way for the cleanup.
Under(d, phase) ==
  IF Refused(d) THEN [job[d] EXCEPT !.phase = "cleaning", !.fired = TRUE,
                                    !.outcome = "cancelled"]
                ELSE [job[d] EXCEPT !.phase = phase]

\* MUTANT of AfterCreate: the archive on the server is taken for the end of the run.
AfterCreateReturns(j) == [j EXCEPT !.phase = "returning"]

\* create_backup returns: an archive that was made is downloaded.
AfterCreate(j) ==
  IF j.outcome = "made"
  THEN [j EXCEPT !.phase = "downloading", !.reading = archive[j.second]]
  ELSE [j EXCEPT !.phase = "returning"]

\* The cleanup at the end of create_backup, with what run_locked has come to.
\* It goes through CancellableExec like any other command.
Cleanup(d, j) ==
  IF Refused(d)
  THEN /\ job' = [job EXCEPT ![d] = AfterCreate([j EXCEPT !.fired = TRUE])]
       /\ skipped' = skipped \cup {j.id}
  ELSE /\ job' = [job EXCEPT ![d] = [j EXCEPT !.phase = "cleaning"]]
       /\ UNCHANGED skipped

\* MUTANT of RemovesArchive: a failed download removes the archive as well.
RemovesAlways(outcome) == TRUE

\* should_remove_remote_archive.
RemovesArchive(outcome) == outcome \in {"saved", "cancelled"}

AfterDownload(j, outcome) ==
  [j EXCEPT !.phase = IF RemovesArchive(outcome) THEN "removing" ELSE "returning",
            !.outcome = outcome]

-----------------------------------------------------------------------------
(* The screen: runCreateDomainBackup and runCancelDomainBackup.             *)

\* The button, the save panel and the store's start; then the command is
\* called, behind a pull of the local cache.
Create(d) ==
  /\ ~ screen[d].gate
  /\ runs < MaxRuns
  /\ runs' = runs + 1
  /\ screen' = [screen EXCEPT ![d] =
        [EmptyRun EXCEPT !.gate = TRUE, !.shown = "running",
                         !.cancelling = screen[d].cancelling]]
  /\ job' = [job EXCEPT ![d] = [IdleJob EXCEPT !.phase = "syncing", !.id = runs + 1]]
  /\ UNCHANGED <<serverVars, registry, disk, noteEvent, faults, harmed, skipped>>

\* The button shows "Cancelling" from here on, before anything is told to the run.
AskToCancel(d) ==
  /\ screen[d].shown = "running"
  /\ ~ screen[d].asked
  /\ ~ screen[d].cancelling
  /\ screen' = [screen EXCEPT ![d].asked = TRUE, ![d].cancelling = TRUE]
  /\ UNCHANGED <<serverVars, job, registry, disk, noteEvent, boundVars>>

\* MUTANT of CancelArrives: the answer of domain_backup_cancel is thrown away.
CancelUnread(d) ==
  /\ screen[d].cancelling
  /\ registry' = [registry EXCEPT ![d] = IF @ = "none" THEN @ ELSE "cancelled"]
  /\ screen' = [screen EXCEPT ![d].cancelling = FALSE]
  /\ UNCHANGED <<serverVars, job, disk, noteEvent, boundVars>>

\* domain_backup_cancel: FALSE where no run is registered, and then the screen
\* takes its "Cancelling" back.
CancelArrives(d) ==
  /\ screen[d].cancelling
  /\ registry' = [registry EXCEPT ![d] = IF @ = "none" THEN @ ELSE "cancelled"]
  /\ screen' = [screen EXCEPT ![d].cancelling = FALSE,
                              ![d].asked = @ /\ registry[d] # "none"]
  /\ UNCHANGED <<serverVars, job, disk, noteEvent, boundVars>>

\* The event remote_cleanup_failed: the store ignores one that comes after the
\* outcome.
DeliverNote(d) ==
  /\ noteEvent[d]
  /\ noteEvent' = [noteEvent EXCEPT ![d] = FALSE]
  /\ screen' = [screen EXCEPT ![d].note = @ \/ screen[d].shown = "running"]
  /\ UNCHANGED <<serverVars, job, registry, disk, boundVars>>

\* MUTANT of Reply: the run gate is not released.
ReplyKeepsGate(d) ==
  /\ job[d].phase = "replied"
  /\ job' = [job EXCEPT ![d] = [IdleJob EXCEPT !.id = job[d].id, !.second = job[d].second]]
  /\ screen' = [screen EXCEPT ![d].shown = job[d].outcome, ![d].asked = FALSE]
  /\ UNCHANGED <<serverVars, registry, disk, noteEvent, boundVars>>

\* The answer of the command reaches the screen.  Its warnings come with it only
\* where the run succeeded.
Reply(d) ==
  /\ job[d].phase = "replied"
  /\ job' = [job EXCEPT ![d] = [IdleJob EXCEPT !.id = job[d].id, !.second = job[d].second]]
  /\ screen' = [screen EXCEPT ![d].shown = job[d].outcome,
                              ![d].asked = FALSE,
                              ![d].gate = FALSE,
                              ![d].note = @ \/ (job[d].outcome = "saved" /\ job[d].warned)]
  /\ UNCHANGED <<serverVars, registry, disk, noteEvent, boundVars>>

-----------------------------------------------------------------------------
(* The command domain_backup_create, up to the lock.                        *)

\* The pull is over and the run registers itself.
Register(d) ==
  /\ job[d].phase = "syncing"
  /\ registry[d] = "none"
  /\ registry' = [registry EXCEPT ![d] = "running"]
  /\ job' = [job EXCEPT ![d].phase = "connecting"]
  /\ UNCHANGED <<serverVars, disk, screen, noteEvent, boundVars>>

\* The session is open and FastPanel found, and create_backup begins: the second
\* it begins in names the archive.  run_backup looks at the flag before, and the
\* first command of create_backup at the latest.
Connected(d) ==
  /\ job[d].phase = "connecting"
  /\ \E s \in Seconds :
       job' = [job EXCEPT ![d] = IF registry[d] = "cancelled" THEN Ended(@, "cancelled")
                                 ELSE [@ EXCEPT !.phase = "preparing", !.second = s]]
  /\ UNCHANGED <<serverVars, registry, disk, screen, noteEvent, boundVars>>

\* resolve_target, probe_tools and check_space have answered.
Prepared(d) ==
  /\ job[d].phase = "preparing"
  /\ job' = [job EXCEPT ![d] = Before(d, "locking")]
  /\ UNCHANGED <<serverVars, registry, disk, screen, noteEvent, boundVars>>

\* Nothing to archive, no tools, no space, no connection.
GiveUp(d) ==
  /\ job[d].phase \in {"connecting", "preparing"}
  /\ Fault
  /\ job' = [job EXCEPT ![d] = Ended(@, "failed")]
  /\ UNCHANGED <<serverVars, registry, disk, screen, noteEvent, runs, harmed, skipped>>

\* MUTANT of LockTaken: mkdir -p, which does not mind that the directory is there.
LockTakenAnyway == FALSE

\* mkdir of the lock directory fails when it is there, whoever made it.
LockTaken == lock # 0

Locked(d) ==
  /\ job[d].phase = "locking"
  /\ ~ LockTaken
  /\ lock' = job[d].id
  /\ job' = [job EXCEPT ![d] = Under(d, "archiving")]
  /\ UNCHANGED <<archive, registry, disk, screen, noteEvent, boundVars>>

\* The probe that tells how old the lock is may be what the cancel refuses.
LockHeld(d) ==
  /\ job[d].phase = "locking"
  /\ LockTaken
  /\ job' = [job EXCEPT ![d] = Ended(@, IF Refused(d) THEN "cancelled" ELSE "failed")]
  /\ UNCHANGED <<serverVars, registry, disk, screen, noteEvent, boundVars>>

\* The answer to mkdir never comes: create_backup returns before its cleanup.
LockUnanswered(d) ==
  /\ job[d].phase = "locking"
  /\ Fault
  /\ lock' \in IF LockTaken THEN {lock} ELSE {0, job[d].id}
  /\ harmed' = harmed \cup {job[d].id}
  /\ job' = [job EXCEPT ![d] = Ended(@, "failed")]
  /\ UNCHANGED <<archive, registry, disk, screen, noteEvent, runs, skipped>>

-----------------------------------------------------------------------------
(* run_locked, and the cleanup that ends it however it went.                *)

\* archive_files and one dump_db per database.
Archived(d) ==
  /\ job[d].phase = "archiving"
  /\ job' = [job EXCEPT ![d] = Under(d, "packing")]
  /\ UNCHANGED <<serverVars, registry, disk, screen, noteEvent, boundVars>>

\* The manifest and the tar that writes the archive, over whatever has its name:
\* who is reading that file reads a mixture from here on.
Packed(d) ==
  LET s == job[d].second IN
  /\ job[d].phase = "packing"
  /\ archive' = [archive EXCEPT ![s] = Whole(job[d].id)]
  /\ job' = [e \in Desktops |->
        IF e = d THEN Under(d, "summing")
        ELSE IF /\ job[e].phase = "downloading"
                /\ job[e].second = s
                /\ job[e].reading = archive[s]
             THEN [job[e] EXCEPT !.reading = Mixture]
             ELSE job[e]]
  /\ UNCHANGED <<lock, registry, disk, screen, noteEvent, boundVars>>

\* The size and hash of the archive, by which the download will be judged.
Summed(d) ==
  LET a == archive[job[d].second] IN
  /\ job[d].phase = "summing"
  /\ a # NoFile
  /\ Cleanup(d, [job[d] EXCEPT !.outcome = "made", !.sum = a])
  /\ UNCHANGED <<serverVars, registry, disk, screen, noteEvent, runs, faults, harmed>>

\* A run of the same second, on another desktop, has removed the archive.
SumFindsNothing(d) ==
  /\ job[d].phase = "summing"
  /\ archive[job[d].second] = NoFile
  /\ Cleanup(d, [job[d] EXCEPT !.outcome = "failed"])
  /\ UNCHANGED <<serverVars, registry, disk, screen, noteEvent, runs, faults, harmed>>

\* A command fails, runs out of its time or loses the session; what it was
\* writing may be there in part or whole.
WorkFails(d) ==
  LET s == job[d].second IN
  /\ job[d].phase \in {"archiving", "packing", "summing"}
  /\ Fault
  /\ IF job[d].phase = "packing"
     THEN \E left \in {archive[s], Partial(job[d].id), Whole(job[d].id)} :
            archive' = [archive EXCEPT ![s] = left]
     ELSE UNCHANGED archive
  /\ \E alive \in BOOLEAN :
        Cleanup(d, [job[d] EXCEPT !.outcome = "failed", !.alive = alive])
  /\ UNCHANGED <<lock, registry, disk, screen, noteEvent, runs, harmed>>

\* The archives after the cleanup: an unfinished one goes with the directory.
AfterCleanup(d) ==
  [archive EXCEPT ![job[d].second] = IF job[d].outcome = "made" THEN @ ELSE NoFile]

\* MUTANT of Cleaned: the archive is removed and the directory forgotten.
CleanedArchiveOnly(d) ==
  /\ job[d].phase = "cleaning"
  /\ job[d].alive
  /\ archive' = AfterCleanup(d)
  /\ job' = [job EXCEPT ![d] = AfterCreate(@)]
  /\ UNCHANGED <<lock, registry, disk, screen, noteEvent, boundVars>>

\* rm -rf of the directory, which is the lock, and of an unfinished archive.
Cleaned(d) ==
  /\ job[d].phase = "cleaning"
  /\ job[d].alive
  /\ lock' = 0
  /\ archive' = AfterCleanup(d)
  /\ job' = [job EXCEPT ![d] = AfterCreate(@)]
  /\ UNCHANGED <<registry, disk, screen, noteEvent, boundVars>>

\* The session is dead, or the rm fails or is not answered in time: the run goes
\* on as if it had been done.
CleanupFails(d) ==
  /\ job[d].phase = "cleaning"
  /\ \/ ~ job[d].alive /\ UNCHANGED faults
     \/ Fault
  /\ \/ UNCHANGED <<lock, archive>>
     \/ /\ job[d].alive
        /\ lock' = 0
        /\ archive' \in {archive, AfterCleanup(d)}
  /\ harmed' = harmed \cup {job[d].id}
  /\ \E alive \in BOOLEAN :
       /\ alive => job[d].alive
       /\ job' = [job EXCEPT ![d] = AfterCreate([@ EXCEPT !.alive = alive])]
  /\ UNCHANGED <<registry, disk, screen, noteEvent, runs, skipped>>

-----------------------------------------------------------------------------
(* The download, the removal of the archive, and the end.                   *)

\* The last chunk has come and the flag was not set at it.
Streamed(d) ==
  /\ job[d].phase = "downloading"
  /\ job[d].alive
  /\ job[d].reading # NoFile
  /\ registry[d] = "running"
  /\ job' = [job EXCEPT ![d].phase = "renaming"]
  /\ UNCHANGED <<serverVars, registry, disk, screen, noteEvent, boundVars>>

\* Every chunk looks at the flag.
StreamCancelled(d) ==
  /\ job[d].phase = "downloading"
  /\ job[d].alive
  /\ job[d].reading # NoFile
  /\ registry[d] = "cancelled"
  /\ job' = [job EXCEPT ![d] = AfterDownload(@, "cancelled")]
  /\ UNCHANGED <<serverVars, registry, disk, screen, noteEvent, boundVars>>

\* There is no such file or no session, the stream stalls or breaks, the disk is
\* full; the partial file is removed.
DownloadFails(d) ==
  /\ job[d].phase \in {"downloading", "renaming"}
  /\ \/ /\ job[d].phase = "downloading"
        /\ ~ job[d].alive \/ job[d].reading = NoFile
        /\ UNCHANGED faults
     \/ Fault
  /\ \E alive \in BOOLEAN :
       /\ alive => job[d].alive
       /\ job' = [job EXCEPT ![d] = [AfterDownload(@, "failed") EXCEPT !.alive = alive]]
  /\ UNCHANGED <<serverVars, registry, disk, screen, noteEvent, runs, harmed, skipped>>

\* MUTANT of Verified: size and hash are not compared.
VerifiedAnyway(d) == TRUE

\* Size and hash of what came are those the server computed.
Verified(d) == job[d].reading = job[d].sum

\* The partial file gets its name only after the comparison.
Saved(d) ==
  /\ job[d].phase = "renaming"
  /\ IF Verified(d)
     THEN /\ disk' = [disk EXCEPT ![d] = job[d].reading]
          /\ job' = [job EXCEPT ![d] = AfterDownload(@, "saved")]
     ELSE /\ job' = [job EXCEPT ![d] = AfterDownload(@, "failed")]
          /\ UNCHANGED disk
  /\ UNCHANGED <<serverVars, registry, screen, noteEvent, boundVars>>

\* rm -f of the archive.
Removed(d) ==
  /\ job[d].phase = "removing"
  /\ job[d].alive
  /\ archive' = [archive EXCEPT ![job[d].second] = NoFile]
  /\ job' = [job EXCEPT ![d].phase = "returning"]
  /\ UNCHANGED <<lock, registry, disk, screen, noteEvent, boundVars>>

\* MUTANT of RemovalFails: the leftover is reported by an event alone.
RemovalFailsByEvent(d) ==
  /\ job[d].phase = "removing"
  /\ (~ job[d].alive /\ UNCHANGED faults) \/ Fault
  /\ noteEvent' = [noteEvent EXCEPT ![d] = TRUE]
  /\ job' = [job EXCEPT ![d].phase = "returning"]
  /\ UNCHANGED <<serverVars, registry, disk, screen, runs, harmed, skipped>>

\* It fails or is not answered: an event tells the screen, and so does a warning
\* in the result.
RemovalFails(d) ==
  /\ job[d].phase = "removing"
  /\ (~ job[d].alive /\ UNCHANGED faults) \/ Fault
  /\ archive' \in {archive} \cup
        (IF job[d].alive THEN {[archive EXCEPT ![job[d].second] = NoFile]} ELSE {})
  /\ noteEvent' = [noteEvent EXCEPT ![d] = TRUE]
  /\ job' = [job EXCEPT ![d].phase = "returning", ![d].warned = TRUE]
  /\ UNCHANGED <<lock, registry, disk, screen, runs, harmed, skipped>>

\* The facts have been read again or not, the audit written or not; the guard of
\* the registry is dropped and the answer leaves.
Return(d) ==
  /\ job[d].phase = "returning"
  /\ registry' = [registry EXCEPT ![d] = "none"]
  /\ job' = [job EXCEPT ![d].phase = "replied"]
  /\ UNCHANGED <<serverVars, disk, screen, noteEvent, boundVars>>

-----------------------------------------------------------------------------
(* The surroundings.                                                        *)

\* The application dies.  What is on the server stays there.
Crash(d) ==
  /\ job[d].phase # "idle"
  /\ Fault
  /\ harmed' = harmed \cup {job[d].id}
  /\ job' = [job EXCEPT ![d] = IdleJob]
  /\ registry' = [registry EXCEPT ![d] = "none"]
  /\ screen' = [screen EXCEPT ![d] = EmptyRun]
  /\ noteEvent' = [noteEvent EXCEPT ![d] = FALSE]
  /\ UNCHANGED <<serverVars, disk, runs, skipped>>

\* The phases in which a run holds the lock.
Holding(d) == job[d].phase \in {"archiving", "packing", "summing", "cleaning"}

\* A user who is sure that nothing is running removes the directory by hand; or
\* the rm of a cleanup whose answer was given up gets there after all.
RemoveLockByHand ==
  /\ lock # 0
  /\ \A d \in Desktops : Holding(d) => job[d].id # lock
  /\ lock' = 0
  /\ UNCHANGED <<archive, job, registry, disk, screen, noteEvent, boundVars>>

Step(d) ==
  \/ Register(d)
  \/ Connected(d) \/ Prepared(d) \/ GiveUp(d)
  \/ Locked(d) \/ LockHeld(d) \/ LockUnanswered(d)
  \/ Archived(d) \/ Packed(d) \/ Summed(d) \/ SumFindsNothing(d) \/ WorkFails(d)
  \/ Cleaned(d) \/ CleanupFails(d)
  \/ Streamed(d) \/ StreamCancelled(d) \/ DownloadFails(d) \/ Saved(d)
  \/ Removed(d) \/ RemovalFails(d)
  \/ Return(d) \/ Reply(d)

Next ==
  \/ \E d \in Desktops :
        \/ Create(d) \/ AskToCancel(d) \/ CancelArrives(d) \/ DeliverNote(d)
        \/ Step(d)
        \/ Crash(d)
  \/ RemoveLockByHand

Spec == Init /\ [][Next]_vars

\* Every command is answered or given up: each has a time limit.
Fairness == \A d \in Desktops : WF_vars(Step(d))

FairSpec == Spec /\ Fairness

-----------------------------------------------------------------------------
Content == [by: Nat, whole: BOOLEAN]

JobRecord ==
  [phase: {"idle", "syncing", "connecting", "preparing", "locking",
           "archiving", "packing", "summing", "cleaning", "downloading", "renaming",
           "removing", "returning", "replied"},
   id: Nat, second: Seconds, alive: BOOLEAN, fired: BOOLEAN,
   outcome: {"none", "made", "saved", "cancelled", "failed"},
   sum: Content, reading: Content, warned: BOOLEAN]

ScreenRecord ==
  [gate: BOOLEAN, shown: {"none", "running", "saved", "cancelled", "failed"},
   asked: BOOLEAN, note: BOOLEAN, cancelling: BOOLEAN]

TypeOK ==
  /\ lock \in Nat
  /\ archive \in [Seconds -> Content]
  /\ job \in [Desktops -> JobRecord]
  /\ registry \in [Desktops -> {"none", "running", "cancelled"}]
  /\ disk \in [Desktops -> Content]
  /\ screen \in [Desktops -> ScreenRecord]
  /\ noteEvent \in [Desktops -> BOOLEAN]
  /\ runs \in Nat
  /\ faults \in Nat
  /\ harmed \subseteq Nat
  /\ skipped \subseteq Nat

\* While a run works in the directory, it is its own: no other run and no other
\* cleanup, of any desktop, takes it away or works in it too (acquire_lock).
HoldersOwnTheLock == \A d \in Desktops : Holding(d) => lock = job[d].id

\* What the screen calls saved is on the disk, is whole and is of this very run,
\* even when a run of the same second writes to the same name on the server.
SavedIsWhole ==
  \A d \in Desktops :
    screen[d].shown = "saved" => disk[d] = Whole(job[d].id)

\* A directory left behind by a run that is over is the trace of a crash, of a
\* command that failed or of a cleanup refused for a cancel, and of nothing else.
LockIsReleased ==
  lock # 0 => \/ \E d \in Desktops : Holding(d) /\ job[d].id = lock
              \/ lock \in harmed \cup skipped

\* create_backup: the directory is removed on every path out of it, as long as
\* the server does what it is told.
LockIsReleasedOnEveryPath ==
  lock # 0 => \/ \E d \in Desktops : Holding(d) /\ job[d].id = lock
              \/ lock \in harmed

\* Once an archive has been made, its run removes it only when the file is safe
\* on the disk or the user has cancelled: after a failed download it is the only
\* whole copy.
TheOnlyCopyIsKept ==
  [][\A d \in Desktops :
        LET a == archive[job[d].second] IN
        /\ job[d].phase \in {"downloading", "renaming", "removing"}
        /\ job'[d].phase # job[d].phase
        /\ archive'[job[d].second] # a
        => disk[d] = job[d].sum \/ registry[d] = "cancelled"]_vars

\* "Cancelling" stays on the screen only while a flag is set that a running
\* command will read, or its answer is on the way.
NoEmptyPromise ==
  \A d \in Desktops :
    screen[d].asked /\ ~ screen[d].cancelling =>
      registry[d] = "cancelled" \/ job[d].phase = "replied"

\* The run left its archive on the server.
LeftArchive(d) ==
  job[d].id # 0 /\ archive[job[d].second].by = job[d].id

\* A backup shown as saved that left its archive on the server says so.
LeftoverIsNamed ==
  \A d \in Desktops : screen[d].shown = "saved" /\ LeftArchive(d) => screen[d].note

\* The same of a cancelled backup, where the event is the only way to tell.
CancelledLeftoverIsNamed ==
  \A d \in Desktops :
    screen[d].shown = "cancelled" /\ LeftArchive(d) /\ job[d].id \notin skipped \cup harmed
      => screen[d].note \/ noteEvent[d]

\* The button comes back: every run ends, whatever is cancelled, fails or stalls.
RunsEnd == \A d \in Desktops : screen[d].gate ~> ~ screen[d].gate
=============================================================================
