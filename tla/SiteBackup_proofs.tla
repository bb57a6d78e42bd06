--------------------------- MODULE SiteBackup_proofs ---------------------------
(***************************************************************************)
(* What is proved of SiteBackup, for any number of desktops, runs, seconds  *)
(* and faults: its type invariant, every safety invariant of the passing    *)
(* run, and TheOnlyCopyIsKept.                                              *)
(*                                                                          *)
(* The records of the runs are nested EXCEPTs, which the provers handle     *)
(* badly.  So every action is first described once by flat facts (lemmas    *)
(* named after the action: RegisterStep, ConnectedStep, ...), and every     *)
(* part of the invariant is then proved from those facts, one step per      *)
(* action, with a lemma of its own (OutcomeOfStep, LockOfStep, ...) that    *)
(* says what a step of one desktop must do to keep that part.               *)
(***************************************************************************)
EXTENDS SiteBackup, TLAPS

Phases == {"idle", "syncing", "connecting", "preparing", "locking",
           "archiving", "packing", "summing", "cleaning", "downloading", "renaming",
           "removing", "returning", "replied"}

Outcomes == {"none", "made", "saved", "cancelled", "failed"}

\* What the proofs follow of a run: all but the state of its session and of its
\* stream.
Kept(e) ==
  /\ job'[e].phase = job[e].phase
  /\ job'[e].outcome = job[e].outcome
  /\ job'[e].id = job[e].id
  /\ job'[e].second = job[e].second
  /\ job'[e].sum = job[e].sum
  /\ job'[e].warned = job[e].warned

OnlyOf(d) ==
  /\ job' \in [Desktops -> JobRecord]
  /\ \A e \in Desktops \ {d} : Kept(e)

\* The run of d goes to a phase and an outcome, with all else as it was.
Goes(d, phase, outcome) ==
  /\ OnlyOf(d)
  /\ job'[d].phase = phase
  /\ job'[d].outcome = outcome
  /\ job'[d].id = job[d].id
  /\ job'[d].second = job[d].second
  /\ job'[d].sum = job[d].sum
  /\ job'[d].warned = job[d].warned

\* One record of a run is another of the same run.
SameRun(j, i) ==
  j.id = i.id /\ j.second = i.second /\ j.sum = i.sum /\ j.warned = i.warned

\* What a run has come to, in each of its phases.
OutcomesOf(phase) ==
  IF phase \in {"idle", "syncing", "connecting", "preparing", "locking",
                "archiving", "packing", "summing"} THEN {"none"}
  ELSE IF phase = "cleaning" THEN {"made", "cancelled", "failed"}
  ELSE IF phase \in {"downloading", "renaming"} THEN {"made"}
  ELSE {"saved", "cancelled", "failed"}

OutcomeInv == \A d \in Desktops : job[d].outcome \in OutcomesOf(job[d].phase)

\* Runs are numbered in the order they start, and no two desktops have the same.
IdInv ==
  /\ \A d \in Desktops : job[d].id <= runs
  /\ \A d \in Desktops : job[d].phase # "idle" => job[d].id # 0
  /\ \A d, e \in Desktops : d # e /\ job[d].id = job[e].id => job[d].id = 0

\* The button waits exactly while a run is under way, and a run that is shown as
\* saved is over.
ScreenInv ==
  \A d \in Desktops :
    /\ screen[d].gate <=> job[d].phase # "idle"
    /\ screen[d].shown = "saved" => job[d].phase = "idle"

\* What is summed is the archive this very run has packed, unless another run has
\* removed it; and so is what the download will be compared with.
SumInv ==
  \A d \in Desktops :
    /\ job[d].phase = "summing" =>
         archive[job[d].second] \in {NoFile, Whole(job[d].id)}
    /\ job[d].outcome = "made" => job[d].sum = Whole(job[d].id)

\* The file is on the disk from the moment the run takes it for saved.
SavedInv ==
  \A d \in Desktops :
    /\ job[d].outcome = "saved" => disk[d] = Whole(job[d].id)
    /\ screen[d].shown = "saved" => disk[d] = Whole(job[d].id)

\* A run that has saved the file and left its archive on the server will say so, and
\* no archive bears the name of a run yet to start.
LeftInv ==
  /\ \A s \in Seconds : archive[s].by \in Nat /\ archive[s].by <= runs
  /\ \A d \in Desktops :
       /\ job[d].outcome = "saved" /\ job[d].phase # "removing" /\ LeftArchive(d)
            => job[d].warned
       /\ screen[d].shown = "saved" /\ LeftArchive(d) => screen[d].note

\* A run that removes its archive has the file on the disk, or its user has asked to
\* cancel.
KeepInv ==
  \A d \in Desktops :
    job[d].phase = "removing" => disk[d] = job[d].sum \/ registry[d] = "cancelled"

\* A step that replaces the record of one run leaves the others alone.
LEMMA JobStep ==
  ASSUME TypeOK, NEW d \in Desktops, NEW J \in JobRecord, job' = [job EXCEPT ![d] = J]
  PROVE  OnlyOf(d) /\ job'[d] = J
BY DEF TypeOK, OnlyOf, Kept

\* If it is a record of the same run, the run only goes to a phase and an outcome.
LEMMA SameRunStep ==
  ASSUME TypeOK, NEW d \in Desktops, NEW J \in JobRecord, SameRun(J, job[d]),
         job' = [job EXCEPT ![d] = J]
  PROVE  Goes(d, J.phase, J.outcome)
BY JobStep DEF Goes, SameRun

\* The initial records are records.
LEMMA IdleFacts == IdleJob \in JobRecord /\ EmptyRun \in ScreenRecord
BY BoundAssumption DEF IdleJob, JobRecord, EmptyRun, ScreenRecord, Content, NoFile,
   Seconds

\* What Ended makes of a run.
LEMMA EndedFacts ==
  ASSUME NEW j \in JobRecord, NEW outcome \in {"cancelled", "failed"}
  PROVE  /\ Ended(j, outcome) \in JobRecord
         /\ SameRun(Ended(j, outcome), j)
         /\ Ended(j, outcome).phase = "returning"
         /\ Ended(j, outcome).outcome = outcome
BY DEF Ended, SameRun, JobRecord, Content

\* What Under makes of a run: the phase asked for, or the cleanup of a cancelled run.
LEMMA UnderFacts ==
  ASSUME TypeOK, NEW d \in Desktops, NEW phase \in Phases
  PROVE  /\ Under(d, phase) \in JobRecord
         /\ SameRun(Under(d, phase), job[d])
         /\ \/ Under(d, phase).phase = phase /\ Under(d, phase).outcome = job[d].outcome
            \/ Under(d, phase).phase = "cleaning" /\ Under(d, phase).outcome = "cancelled"
<1> job[d] \in JobRecord
  BY DEF TypeOK
<1> QED
  BY DEF SameRun, Under, JobRecord, Phases, Refused, Content

\* What Before makes of a run: the phase asked for, or the end of a cancelled run.
LEMMA BeforeFacts ==
  ASSUME TypeOK, NEW d \in Desktops, NEW phase \in Phases
  PROVE  /\ Before(d, phase) \in JobRecord
         /\ SameRun(Before(d, phase), job[d])
         /\ \/ Before(d, phase).phase = phase /\ Before(d, phase).outcome = job[d].outcome
            \/ Before(d, phase).phase = "returning"
               /\ Before(d, phase).outcome = "cancelled"
<1> job[d] \in JobRecord
  BY DEF TypeOK
<1> QED
  BY DEF SameRun, Before, Ended, JobRecord, Phases, Refused, Content

\* What AfterCreate makes of a run.
LEMMA AfterCreateFacts ==
  ASSUME TypeOK, NEW j \in JobRecord
  PROVE  /\ AfterCreate(j) \in JobRecord
         /\ SameRun(AfterCreate(j), j)
         /\ AfterCreate(j).outcome = j.outcome
         /\ AfterCreate(j).phase = IF j.outcome = "made" THEN "downloading" ELSE "returning"
BY DEF SameRun, AfterCreate, JobRecord, TypeOK, Content, NoFile

\* What AfterDownload makes of a run.
LEMMA AfterDownloadFacts ==
  ASSUME NEW j \in JobRecord, NEW outcome \in {"saved", "cancelled", "failed"}
  PROVE  /\ AfterDownload(j, outcome) \in JobRecord
         /\ SameRun(AfterDownload(j, outcome), j)
         /\ AfterDownload(j, outcome).outcome = outcome
         /\ AfterDownload(j, outcome).phase = IF outcome = "failed" THEN "returning"
                                                                 ELSE "removing"
BY DEF SameRun, AfterDownload, RemovesArchive, JobRecord, Content, NoFile

\* A cleanup is begun, or refused and the run noted as skipped.
LEMMA CleanupFacts ==
  ASSUME TypeOK, NEW d \in Desktops, NEW j \in JobRecord, Cleanup(d, j)
  PROVE  /\ job' \in [Desktops -> JobRecord]
         /\ \A e \in Desktops \ {d} : job'[e] = job[e]
         /\ job'[d].id = j.id
         /\ job'[d].second = j.second
         /\ job'[d].sum = j.sum
         /\ job'[d].warned = j.warned
         /\ job'[d].outcome = j.outcome
         /\ \/ job'[d].phase = "cleaning" /\ skipped' = skipped
            \/ /\ job'[d].phase = IF j.outcome = "made" THEN "downloading" ELSE "returning"
               /\ skipped' = skipped \cup {j.id}
         /\ skipped' \subseteq Nat
<1> DEFINE F == [j EXCEPT !.fired = TRUE]
           K == [j EXCEPT !.phase = "cleaning"]
<1>1. F \in JobRecord /\ K \in JobRecord /\ j.id \in Nat
  BY DEF JobRecord, Content
<1>2. /\ F.id = j.id /\ F.second = j.second /\ F.sum = j.sum /\ F.warned = j.warned
      /\ F.outcome = j.outcome
      /\ K.id = j.id /\ K.second = j.second /\ K.sum = j.sum /\ K.warned = j.warned
      /\ K.outcome = j.outcome /\ K.phase = "cleaning"
  BY DEF JobRecord
<1>3. CASE Refused(d)
  <2>1. job' = [job EXCEPT ![d] = AfterCreate(F)] /\ skipped' = skipped \cup {j.id}
    BY <1>3 DEF Cleanup
  <2> HIDE DEF F
  <2> QED
    BY <2>1, <1>1, <1>2, AfterCreateFacts DEF TypeOK, SameRun
<1>4. CASE ~ Refused(d)
  <2>1. job' = [job EXCEPT ![d] = K] /\ skipped' = skipped
    BY <1>4 DEF Cleanup
  <2> HIDE DEF K
  <2> QED
    BY <2>1, <1>1, <1>2 DEF TypeOK
<1>5. QED
  BY <1>3, <1>4

\* The fields of a run have their types.
LEMMA JobOfRecord ==
  ASSUME TypeOK, NEW d \in Desktops
  PROVE  /\ job[d] \in JobRecord
         /\ job[d].second \in Seconds
         /\ job[d].id \in Nat
         /\ job[d].outcome \in Outcomes
BY DEF TypeOK, JobRecord, Outcomes

\* The pull is over: a free registry is taken.
LEMMA RegisterStep ==
  ASSUME TypeOK, NEW d \in Desktops, Register(d)
  PROVE  /\ job[d].phase = "syncing"
         /\ UNCHANGED <<lock, archive, disk, screen, noteEvent, runs, harmed, skipped>>
         /\ registry[d] = "none"
         /\ registry' = [registry EXCEPT ![d] = "running"]
         /\ Goes(d, "connecting", job[d].outcome)
<1>0. /\ job[d].phase = "syncing"
      /\ UNCHANGED <<lock, archive, disk, screen, noteEvent, runs, harmed, skipped>>
      /\ registry[d] = "none"
      /\ registry' = [registry EXCEPT ![d] = "running"]
  BY DEF Register, serverVars, boundVars
<1> DEFINE J == [job[d] EXCEPT !.phase = "connecting"]
<1>1. J \in JobRecord
  BY JobOfRecord DEF JobRecord
<1>2. job' = [job EXCEPT ![d] = J]
  BY DEF Register
<1>3. OnlyOf(d) /\ job'[d] = J
  BY <1>1, <1>2, JobStep
<1> QED
  BY <1>0, <1>3, JobOfRecord DEF Goes, JobRecord

\* The second that names the archive is chosen, unless the run is cancelled.
LEMMA ConnectedStep ==
  ASSUME TypeOK, NEW d \in Desktops, Connected(d)
  PROVE  /\ job[d].phase = "connecting"
         /\ UNCHANGED <<lock, archive, registry, disk, screen, noteEvent, runs, harmed,
                        skipped>>
         /\ \/ Goes(d, "returning", "cancelled")
            \/ /\ OnlyOf(d)
               /\ job'[d].phase = "preparing"
               /\ job'[d].outcome = job[d].outcome
               /\ job'[d].id = job[d].id
<1>0. /\ job[d].phase = "connecting"
      /\ UNCHANGED <<lock, archive, registry, disk, screen, noteEvent, runs, harmed,
                     skipped>>
  BY DEF Connected, serverVars, boundVars
<1>1. CASE registry[d] = "cancelled"
  <2> DEFINE J == [job[d] EXCEPT !.phase = "returning", !.outcome = "cancelled"]
  <2>1. J \in JobRecord
    BY JobOfRecord DEF JobRecord
  <2>2. job' = [job EXCEPT ![d] = J]
    BY <1>1 DEF Connected, Ended, TypeOK
  <2>3. OnlyOf(d) /\ job'[d] = J
    BY <2>1, <2>2, JobStep
  <2>4. J.phase = "returning" /\ J.outcome = "cancelled" /\ SameRun(J, job[d])
    BY JobOfRecord DEF JobRecord, SameRun
  <2> HIDE DEF J
  <2> QED
    BY <1>0, <2>3, <2>4 DEF Goes, SameRun
<1>2. CASE registry[d] # "cancelled"
  <2> PICK s \in Seconds :
        job' = [job EXCEPT ![d] = [job[d] EXCEPT !.phase = "preparing", !.second = s]]
    BY <1>2 DEF Connected, TypeOK
  <2> DEFINE J == [job[d] EXCEPT !.phase = "preparing", !.second = s]
  <2>1. J \in JobRecord
    BY JobOfRecord DEF JobRecord
  <2>3. OnlyOf(d) /\ job'[d] = J
    BY <2>1, JobStep
  <2>4. J.phase = "preparing" /\ J.outcome = job[d].outcome /\ J.id = job[d].id
    BY JobOfRecord DEF JobRecord
  <2> QED
    BY <1>0, <2>3, <2>4
<1> QED
  BY <1>0, <1>1, <1>2

\* On to the lock, or cancelled.
LEMMA PreparedStep ==
  ASSUME TypeOK, NEW d \in Desktops, Prepared(d)
  PROVE  /\ job[d].phase = "preparing"
         /\ UNCHANGED <<lock, archive, registry, disk, screen, noteEvent, runs, harmed,
                        skipped>>
         /\ Goes(d, "locking", job[d].outcome) \/ Goes(d, "returning", "cancelled")
<1>0. /\ job[d].phase = "preparing"
      /\ UNCHANGED <<lock, archive, registry, disk, screen, noteEvent, runs, harmed,
                     skipped>>
  BY DEF Prepared, serverVars, boundVars
<1> DEFINE J == Before(d, "locking")
<1>1. J \in JobRecord /\ SameRun(J, job[d])
      /\ \/ J.phase = "locking" /\ J.outcome = job[d].outcome
         \/ J.phase = "returning" /\ J.outcome = "cancelled"
  BY BeforeFacts DEF Phases
<1>2. job' = [job EXCEPT ![d] = J]
  BY DEF Prepared
<1> HIDE DEF J
<1> QED
  BY <1>0, <1>1, <1>2, SameRunStep

\* A run that fails before its lock touches nothing.
LEMMA GiveUpStep ==
  ASSUME TypeOK, NEW d \in Desktops, GiveUp(d)
  PROVE  /\ job[d].phase \in {"connecting", "preparing"}
         /\ UNCHANGED <<lock, archive, registry, disk, screen, noteEvent, runs, harmed,
                        skipped>>
         /\ Goes(d, "returning", "failed")
<1>0. /\ job[d].phase \in {"connecting", "preparing"}
      /\ UNCHANGED <<lock, archive, registry, disk, screen, noteEvent, runs, harmed,
                     skipped>>
  BY DEF GiveUp, serverVars, boundVars
<1> DEFINE J == Ended(job[d], "failed")
<1>1. J \in JobRecord /\ SameRun(J, job[d]) /\ J.phase = "returning"
  /\ J.outcome = "failed"
  BY EndedFacts, JobOfRecord
<1>2. job' = [job EXCEPT ![d] = J]
  BY DEF GiveUp
<1> HIDE DEF J
<1> QED
  BY <1>0, <1>1, <1>2, SameRunStep

\* A lock that was free is taken in the name of the run.
LEMMA LockedStep ==
  ASSUME TypeOK, NEW d \in Desktops, Locked(d)
  PROVE  /\ job[d].phase = "locking"
         /\ UNCHANGED <<archive, registry, disk, screen, noteEvent, runs, harmed,
                        skipped>>
         /\ lock = 0
         /\ lock' = job[d].id
         /\ Goes(d, "archiving", job[d].outcome) \/ Goes(d, "cleaning", "cancelled")
<1>0. /\ job[d].phase = "locking"
      /\ UNCHANGED <<archive, registry, disk, screen, noteEvent, runs, harmed, skipped>>
      /\ lock = 0
      /\ lock' = job[d].id
  BY DEF Locked, serverVars, boundVars, LockTaken
<1> DEFINE J == Under(d, "archiving")
<1>1. J \in JobRecord /\ SameRun(J, job[d])
      /\ \/ J.phase = "archiving" /\ J.outcome = job[d].outcome
         \/ J.phase = "cleaning" /\ J.outcome = "cancelled"
  BY UnderFacts DEF Phases
<1>2. job' = [job EXCEPT ![d] = J]
  BY DEF Locked
<1> HIDE DEF J
<1> QED
  BY <1>0, <1>1, <1>2, SameRunStep

\* On to packing, or cancelled.
LEMMA ArchivedStep ==
  ASSUME TypeOK, NEW d \in Desktops, Archived(d)
  PROVE  /\ job[d].phase = "archiving"
         /\ UNCHANGED <<lock, archive, registry, disk, screen, noteEvent, runs, harmed,
                        skipped>>
         /\ Goes(d, "packing", job[d].outcome) \/ Goes(d, "cleaning", "cancelled")
<1>0. /\ job[d].phase = "archiving"
      /\ UNCHANGED <<lock, archive, registry, disk, screen, noteEvent, runs, harmed,
                     skipped>>
  BY DEF Archived, serverVars, boundVars
<1> DEFINE J == Under(d, "packing")
<1>1. J \in JobRecord /\ SameRun(J, job[d])
      /\ \/ J.phase = "packing" /\ J.outcome = job[d].outcome
         \/ J.phase = "cleaning" /\ J.outcome = "cancelled"
  BY UnderFacts DEF Phases
<1>2. job' = [job EXCEPT ![d] = J]
  BY DEF Archived
<1> HIDE DEF J
<1> QED
  BY <1>0, <1>1, <1>2, SameRunStep

\* A run that finds the lock taken touches nothing.
LEMMA LockHeldStep ==
  ASSUME TypeOK, NEW d \in Desktops, LockHeld(d)
  PROVE  /\ job[d].phase = "locking"
         /\ UNCHANGED <<lock, archive, registry, disk, screen, noteEvent, runs, harmed,
                        skipped>>
         /\ Goes(d, "returning", "cancelled") \/ Goes(d, "returning", "failed")
<1>0. /\ job[d].phase = "locking"
      /\ UNCHANGED <<lock, archive, registry, disk, screen, noteEvent, runs, harmed,
                     skipped>>
  BY DEF LockHeld, serverVars, boundVars, LockTaken
<1> DEFINE outcome == IF Refused(d) THEN "cancelled" ELSE "failed"
           J == Ended(job[d], outcome)
<1>1. J \in JobRecord /\ SameRun(J, job[d]) /\ J.phase = "returning"
  /\ J.outcome = outcome
  BY EndedFacts, JobOfRecord
<1>2. job' = [job EXCEPT ![d] = J]
  BY DEF LockHeld
<1>3. outcome \in {"cancelled", "failed"}
  OBVIOUS
<1> HIDE DEF J, outcome
<1> QED
  BY <1>0, <1>1, <1>2, <1>3, SameRunStep

\* The lock is taken or not, the run is over and noted as harmed.
LEMMA LockUnansweredStep ==
  ASSUME TypeOK, NEW d \in Desktops, LockUnanswered(d)
  PROVE  /\ job[d].phase = "locking"
         /\ UNCHANGED <<archive, registry, disk, screen, noteEvent, runs, skipped>>
         /\ harmed' = harmed \cup {job[d].id}
         /\ lock' = lock \/ (lock = 0 /\ lock' = job[d].id)
         /\ Goes(d, "returning", "failed")
<1>0. /\ job[d].phase = "locking"
      /\ UNCHANGED <<archive, registry, disk, screen, noteEvent, runs, skipped>>
      /\ harmed' = harmed \cup {job[d].id}
      /\ lock' = lock \/ (lock = 0 /\ lock' = job[d].id)
  BY DEF LockUnanswered, serverVars, boundVars, LockTaken
<1> DEFINE J == Ended(job[d], "failed")
<1>1. J \in JobRecord /\ SameRun(J, job[d]) /\ J.phase = "returning"
  /\ J.outcome = "failed"
  BY EndedFacts, JobOfRecord
<1>2. job' = [job EXCEPT ![d] = J]
  BY DEF LockUnanswered
<1> HIDE DEF J
<1> QED
  BY <1>0, <1>1, <1>2, SameRunStep

\* The archive is whole, and of this run.
LEMMA PackedStep ==
  ASSUME TypeOK, NEW d \in Desktops, Packed(d)
  PROVE  /\ job[d].phase = "packing"
         /\ UNCHANGED <<lock, registry, disk, screen, noteEvent, runs, harmed, skipped>>
         /\ archive' = [archive EXCEPT ![job[d].second] = Whole(job[d].id)]
         /\ Goes(d, "summing", job[d].outcome) \/ Goes(d, "cleaning", "cancelled")
<1>0. /\ job[d].phase = "packing"
      /\ UNCHANGED <<lock, registry, disk, screen, noteEvent, runs, harmed, skipped>>
      /\ archive' = [archive EXCEPT ![job[d].second] = Whole(job[d].id)]
  BY DEF Packed, serverVars, boundVars
<1> DEFINE J == Under(d, "summing")
           M(e) == [job[e] EXCEPT !.reading = Mixture]
<1>1. J \in JobRecord /\ SameRun(J, job[d])
      /\ \/ J.phase = "summing" /\ J.outcome = job[d].outcome
         \/ J.phase = "cleaning" /\ J.outcome = "cancelled"
  BY UnderFacts DEF Phases
<1>2. \A e \in Desktops : /\ M(e) \in JobRecord
                          /\ SameRun(M(e), job[e])
                          /\ M(e).phase = job[e].phase
                          /\ M(e).outcome = job[e].outcome
  BY JobOfRecord DEF JobRecord, Mixture, Content, SameRun
<1>3. /\ job' \in [Desktops -> JobRecord]
      /\ job'[d] = J
      /\ \A e \in Desktops \ {d} : job'[e] \in {M(e), job[e]}
  <2> HIDE DEF J
  <2>1. J = Under(d, "summing")
    BY DEF J
  <2>2. \A e \in Desktops : job[e] \in JobRecord
    BY JobOfRecord
  <2> QED
    BY <1>1, <1>2, <2>1, <2>2 DEF Packed
<1> HIDE DEF J, M
<1> QED
  BY <1>0, <1>1, <1>2, <1>3 DEF Goes, OnlyOf, Kept, SameRun

\* The lock is free, and the archive gone unless it was made.
LEMMA CleanedStep ==
  ASSUME TypeOK, NEW d \in Desktops, Cleaned(d)
  PROVE  /\ job[d].phase = "cleaning"
         /\ UNCHANGED <<registry, disk, screen, noteEvent, runs, harmed, skipped>>
         /\ lock' = 0
         /\ archive' = AfterCleanup(d)
         /\ job[d].outcome = "made" => Goes(d, "downloading", job[d].outcome)
         /\ job[d].outcome # "made" => Goes(d, "returning", job[d].outcome)
<1>0. /\ job[d].phase = "cleaning"
      /\ UNCHANGED <<registry, disk, screen, noteEvent, runs, harmed, skipped>>
      /\ lock' = 0
      /\ archive' = AfterCleanup(d)
  BY DEF Cleaned, serverVars, boundVars
<1> DEFINE J == AfterCreate(job[d])
<1>1. J \in JobRecord /\ SameRun(J, job[d]) /\ J.outcome = job[d].outcome
      /\ J.phase = IF job[d].outcome = "made" THEN "downloading" ELSE "returning"
  BY AfterCreateFacts, JobOfRecord
<1>2. job' = [job EXCEPT ![d] = J]
  BY DEF Cleaned
<1> HIDE DEF J
<1> QED
  BY <1>0, <1>1, <1>2, SameRunStep

\* The lock is free or as it was, and the run noted as harmed.
LEMMA CleanupFailsStep ==
  ASSUME TypeOK, NEW d \in Desktops, CleanupFails(d)
  PROVE  /\ job[d].phase = "cleaning"
         /\ UNCHANGED <<registry, disk, screen, noteEvent, runs, skipped>>
         /\ harmed' = harmed \cup {job[d].id}
         /\ lock' \in {lock, 0}
         /\ archive' \in {archive, AfterCleanup(d)}
         /\ job[d].outcome = "made" => Goes(d, "downloading", job[d].outcome)
         /\ job[d].outcome # "made" => Goes(d, "returning", job[d].outcome)
<1>0. /\ job[d].phase = "cleaning"
      /\ UNCHANGED <<registry, disk, screen, noteEvent, runs, skipped>>
      /\ harmed' = harmed \cup {job[d].id}
      /\ lock' \in {lock, 0}
      /\ archive' \in {archive, AfterCleanup(d)}
  BY DEF CleanupFails, serverVars, boundVars
<1>1. PICK alive \in BOOLEAN :
        job' = [job EXCEPT ![d] = AfterCreate([job[d] EXCEPT !.alive = alive])]
  BY DEF CleanupFails, TypeOK
<1> DEFINE J == [job[d] EXCEPT !.alive = alive]
           K == AfterCreate(J)
<1>2. J \in JobRecord /\ SameRun(J, job[d]) /\ J.outcome = job[d].outcome
  BY JobOfRecord DEF JobRecord, SameRun
<1>3. job' = [job EXCEPT ![d] = K]
  BY <1>1
<1> HIDE DEF J
<1>4. K \in JobRecord /\ SameRun(K, J) /\ K.outcome = J.outcome
      /\ K.phase = IF J.outcome = "made" THEN "downloading" ELSE "returning"
  BY <1>2, AfterCreateFacts
<1> HIDE DEF K
<1>5. SameRun(K, job[d])
  BY <1>2, <1>4 DEF SameRun
<1> QED
  BY <1>0, <1>2, <1>3, <1>4, <1>5, SameRunStep

\* The file is on the disk only if it is what the server summed.
LEMMA SaveStep ==
  ASSUME TypeOK, NEW d \in Desktops, Saved(d)
  PROVE  /\ job[d].phase = "renaming"
         /\ UNCHANGED <<lock, archive, registry, screen, noteEvent, runs, harmed,
                        skipped>>
         /\ \/ /\ Goes(d, "removing", "saved")
               /\ job[d].reading = job[d].sum
               /\ disk' = [disk EXCEPT ![d] = job[d].reading]
            \/ /\ Goes(d, "returning", "failed")
               /\ disk' = disk
<1>0. /\ job[d].phase = "renaming"
      /\ UNCHANGED <<lock, archive, registry, screen, noteEvent, runs, harmed, skipped>>
  BY DEF Saved, serverVars, boundVars
<1>1. CASE Verified(d)
  <2> DEFINE J == AfterDownload(job[d], "saved")
  <2>1. /\ J \in JobRecord /\ SameRun(J, job[d]) /\ J.outcome = "saved"
        /\ J.phase = "removing"
    BY AfterDownloadFacts, JobOfRecord
  <2>2. /\ job' = [job EXCEPT ![d] = J]
        /\ disk' = [disk EXCEPT ![d] = job[d].reading]
        /\ job[d].reading = job[d].sum
    BY <1>1 DEF Saved, Verified, TypeOK
  <2> HIDE DEF J
  <2> QED
    BY <1>0, <1>1, <2>1, <2>2, SameRunStep
<1>2. CASE ~ Verified(d)
  <2> DEFINE J == AfterDownload(job[d], "failed")
  <2>1. /\ J \in JobRecord /\ SameRun(J, job[d]) /\ J.outcome = "failed"
        /\ J.phase = "returning"
    BY AfterDownloadFacts, JobOfRecord
  <2>2. job' = [job EXCEPT ![d] = J] /\ disk' = disk
    BY <1>2 DEF Saved, TypeOK
  <2> HIDE DEF J
  <2> QED
    BY <1>0, <2>1, <2>2, SameRunStep
<1> QED
  BY <1>0, <1>1, <1>2

\* What was summed is what the archive is.
LEMMA SummedStep ==
  ASSUME TypeOK, NEW d \in Desktops, Summed(d)
  PROVE  /\ job[d].phase = "summing"
         /\ UNCHANGED <<lock, archive, registry, disk, screen, noteEvent, runs, harmed>>
         /\ archive[job[d].second] # NoFile
         /\ OnlyOf(d)
         /\ job'[d].id = job[d].id
         /\ job'[d].second = job[d].second
         /\ job'[d].warned = job[d].warned
         /\ job'[d].outcome = "made"
         /\ job'[d].sum = archive[job[d].second]
         /\ skipped' \subseteq Nat
         /\ \/ job'[d].phase = "cleaning" /\ skipped' = skipped
            \/ job'[d].phase = "downloading" /\ skipped' = skipped \cup {job[d].id}
<1>0. /\ job[d].phase = "summing"
      /\ UNCHANGED <<lock, archive, registry, disk, screen, noteEvent, runs, harmed>>
      /\ archive[job[d].second] # NoFile
  BY DEF Summed, serverVars, boundVars
<1> DEFINE J == [job[d] EXCEPT !.outcome = "made", !.sum = archive[job[d].second]]
<1>1. /\ J \in JobRecord /\ J.id = job[d].id /\ J.second = job[d].second
      /\ J.sum = archive[job[d].second] /\ J.warned = job[d].warned /\ J.outcome = "made"
  BY JobOfRecord DEF JobRecord, TypeOK
<1>2. Cleanup(d, J)
  BY DEF Summed
<1> HIDE DEF J
<1> QED
  BY <1>0, <1>1, <1>2, CleanupFacts DEF OnlyOf, Kept

\* A step of run_locked that fails and the refusal of the cleanup.
LEMMA FailureStep ==
  ASSUME TypeOK, NEW d \in Desktops, SumFindsNothing(d) \/ WorkFails(d)
  PROVE  /\ job[d].phase \in {"archiving", "packing", "summing"}
         /\ UNCHANGED <<lock, registry, disk, screen, noteEvent, runs, harmed>>
         /\ \/ archive' = archive
            \/ /\ job[d].phase = "packing"
               /\ \E left \in {Partial(job[d].id), Whole(job[d].id)} :
                    archive' = [archive EXCEPT ![job[d].second] = left]
         /\ skipped' \subseteq Nat
         /\ \/ Goes(d, "cleaning", "failed") /\ skipped' = skipped
            \/ Goes(d, "returning", "failed") /\ skipped' = skipped \cup {job[d].id}
<1>0. /\ job[d].phase \in {"archiving", "packing", "summing"}
      /\ UNCHANGED <<lock, registry, disk, screen, noteEvent, runs, harmed>>
      /\ \/ archive' = archive
         \/ /\ job[d].phase = "packing"
            /\ \E left \in {Partial(job[d].id), Whole(job[d].id)} :
                 archive' = [archive EXCEPT ![job[d].second] = left]
  <2>1. CASE job[d].phase = "packing"
    <3>1. PICK left \in {archive[job[d].second], Partial(job[d].id), Whole(job[d].id)} :
            archive' = [archive EXCEPT ![job[d].second] = left]
      BY <2>1 DEF SumFindsNothing, WorkFails
    <3>2. [archive EXCEPT ![job[d].second] = archive[job[d].second]] = archive
      BY DEF TypeOK
    <3> QED
      BY <2>1, <3>1, <3>2 DEF SumFindsNothing, WorkFails, serverVars
  <2>2. CASE job[d].phase # "packing"
    BY <2>2 DEF SumFindsNothing, WorkFails, serverVars
  <2> QED
    BY <2>1, <2>2
<1>1. PICK alive \in BOOLEAN :
        Cleanup(d, [job[d] EXCEPT !.outcome = "failed", !.alive = alive])
  <2>1. CASE SumFindsNothing(d)
    <3>1. [job[d] EXCEPT !.outcome = "failed", !.alive = job[d].alive]
            = [job[d] EXCEPT !.outcome = "failed"]
      BY JobOfRecord DEF JobRecord
    <3>2. job[d].alive \in BOOLEAN
      BY JobOfRecord DEF JobRecord
    <3> QED
      BY <2>1, <3>1, <3>2 DEF SumFindsNothing
  <2>2. CASE WorkFails(d)
    BY <2>2 DEF WorkFails
  <2> QED
    BY <2>1, <2>2
<1> DEFINE J == [job[d] EXCEPT !.outcome = "failed", !.alive = alive]
<1>2. /\ J \in JobRecord /\ J.id = job[d].id /\ J.second = job[d].second
      /\ J.sum = job[d].sum /\ J.warned = job[d].warned /\ J.outcome = "failed"
  BY JobOfRecord DEF JobRecord, TypeOK
<1>3. Cleanup(d, J)
  BY <1>1
<1> HIDE DEF J
<1> QED
  BY <1>0, <1>2, <1>3, CleanupFacts DEF OnlyOf, Kept, Goes

\* The download is complete.
LEMMA StreamedStep ==
  ASSUME TypeOK, NEW d \in Desktops, Streamed(d)
  PROVE  /\ job[d].phase = "downloading"
         /\ UNCHANGED <<lock, archive, registry, disk, screen, noteEvent, runs, harmed,
                        skipped>>
         /\ Goes(d, "renaming", job[d].outcome)
<1>0. /\ job[d].phase = "downloading"
      /\ UNCHANGED <<lock, archive, registry, disk, screen, noteEvent, runs, harmed,
                     skipped>>
  BY DEF Streamed, serverVars, boundVars
<1> DEFINE J == [job[d] EXCEPT !.phase = "renaming"]
<1>1. J \in JobRecord
  BY JobOfRecord DEF JobRecord
<1>2. OnlyOf(d) /\ job'[d] = J
  BY <1>1, JobStep DEF Streamed
<1> QED
  BY <1>0, <1>2, JobOfRecord DEF Goes, JobRecord

\* The download was cancelled: the archive is to be removed.
LEMMA StreamCancelledStep ==
  ASSUME TypeOK, NEW d \in Desktops, StreamCancelled(d)
  PROVE  /\ job[d].phase = "downloading"
         /\ UNCHANGED <<lock, archive, registry, disk, screen, noteEvent, runs, harmed,
                        skipped>>
         /\ registry[d] = "cancelled"
         /\ Goes(d, "removing", "cancelled")
<1>0. /\ job[d].phase = "downloading"
      /\ UNCHANGED <<lock, archive, registry, disk, screen, noteEvent, runs, harmed,
                     skipped>>
      /\ registry[d] = "cancelled"
  BY DEF StreamCancelled, serverVars, boundVars
<1> DEFINE J == AfterDownload(job[d], "cancelled")
<1>1. /\ J \in JobRecord /\ SameRun(J, job[d]) /\ J.outcome = "cancelled"
      /\ J.phase = "removing"
  BY AfterDownloadFacts, JobOfRecord
<1>2. job' = [job EXCEPT ![d] = J]
  BY DEF StreamCancelled, TypeOK
<1> HIDE DEF J
<1> QED
  BY <1>0, <1>1, <1>2, SameRunStep

\* A failed download leaves the archive where it is.
LEMMA DownloadFailsStep ==
  ASSUME TypeOK, NEW d \in Desktops, DownloadFails(d)
  PROVE  /\ job[d].phase \in {"downloading", "renaming"}
         /\ UNCHANGED <<lock, archive, registry, disk, screen, noteEvent, runs, harmed,
                        skipped>>
         /\ Goes(d, "returning", "failed")
<1>0. /\ job[d].phase \in {"downloading", "renaming"}
      /\ UNCHANGED <<lock, archive, registry, disk, screen, noteEvent, runs, harmed,
                     skipped>>
  BY DEF DownloadFails, serverVars, boundVars
<1>1. PICK alive \in BOOLEAN :
        job' = [job EXCEPT ![d] = [AfterDownload(job[d], "failed") EXCEPT !.alive = alive]]
  BY DEF DownloadFails, TypeOK
<1> DEFINE A == AfterDownload(job[d], "failed")
           J == [A EXCEPT !.alive = alive]
<1>2. A \in JobRecord /\ SameRun(A, job[d]) /\ A.outcome = "failed"
      /\ A.phase = "returning"
  BY AfterDownloadFacts, JobOfRecord
<1> HIDE DEF A
<1>3. J \in JobRecord /\ SameRun(J, A) /\ J.outcome = A.outcome /\ J.phase = A.phase
  BY <1>2 DEF JobRecord, SameRun
<1>4. job' = [job EXCEPT ![d] = J]
  BY <1>1 DEF A
<1> HIDE DEF J
<1>5. SameRun(J, job[d])
  BY <1>2, <1>3 DEF SameRun
<1> QED
  BY <1>0, <1>2, <1>3, <1>4, <1>5, SameRunStep

\* The archive is gone.
LEMMA RemovedStep ==
  ASSUME TypeOK, NEW d \in Desktops, Removed(d)
  PROVE  /\ job[d].phase = "removing"
         /\ UNCHANGED <<lock, registry, disk, screen, noteEvent, runs, harmed, skipped>>
         /\ archive' = [archive EXCEPT ![job[d].second] = NoFile]
         /\ Goes(d, "returning", job[d].outcome)
<1>0. /\ job[d].phase = "removing"
      /\ UNCHANGED <<lock, registry, disk, screen, noteEvent, runs, harmed, skipped>>
      /\ archive' = [archive EXCEPT ![job[d].second] = NoFile]
  BY DEF Removed, serverVars, boundVars
<1> DEFINE J == [job[d] EXCEPT !.phase = "returning"]
<1>1. J \in JobRecord
  BY JobOfRecord DEF JobRecord
<1>2. OnlyOf(d) /\ job'[d] = J
  BY <1>1, JobStep DEF Removed
<1> QED
  BY <1>0, <1>2, JobOfRecord DEF Goes, JobRecord

\* The archive is gone or not, and the run warns of it.
LEMMA RemovalFailsStep ==
  ASSUME TypeOK, NEW d \in Desktops, RemovalFails(d)
  PROVE  /\ job[d].phase = "removing"
         /\ UNCHANGED <<lock, registry, disk, screen, runs, harmed, skipped>>
         /\ archive' \in {archive, [archive EXCEPT ![job[d].second] = NoFile]}
         /\ OnlyOf(d)
         /\ job'[d].phase = "returning"
         /\ job'[d].outcome = job[d].outcome
         /\ job'[d].id = job[d].id
         /\ job'[d].second = job[d].second
         /\ job'[d].warned
<1>0. /\ job[d].phase = "removing"
      /\ UNCHANGED <<lock, registry, disk, screen, runs, harmed, skipped>>
      /\ archive' \in {archive, [archive EXCEPT ![job[d].second] = NoFile]}
  BY DEF RemovalFails, serverVars, boundVars
<1> DEFINE J == [job[d] EXCEPT !.phase = "returning", !.warned = TRUE]
<1>1. J \in JobRecord
  BY JobOfRecord DEF JobRecord
<1>2. job' = [job EXCEPT ![d] = J]
  BY DEF RemovalFails, TypeOK
<1>3. OnlyOf(d) /\ job'[d] = J
  BY <1>1, <1>2, JobStep
<1> QED
  BY <1>0, <1>3, JobOfRecord DEF JobRecord

\* The registry is free again.
LEMMA ReturnStep ==
  ASSUME TypeOK, NEW d \in Desktops, Return(d)
  PROVE  /\ job[d].phase = "returning"
         /\ UNCHANGED <<lock, archive, disk, screen, noteEvent, runs, harmed, skipped>>
         /\ registry' = [registry EXCEPT ![d] = "none"]
         /\ Goes(d, "replied", job[d].outcome)
<1>0. /\ job[d].phase = "returning"
      /\ UNCHANGED <<lock, archive, disk, screen, noteEvent, runs, harmed, skipped>>
      /\ registry' = [registry EXCEPT ![d] = "none"]
  BY DEF Return, serverVars, boundVars
<1> DEFINE J == [job[d] EXCEPT !.phase = "replied"]
<1>1. J \in JobRecord
  BY JobOfRecord DEF JobRecord
<1>2. OnlyOf(d) /\ job'[d] = J
  BY <1>1, JobStep DEF Return
<1> QED
  BY <1>0, <1>2, JobOfRecord DEF Goes, JobRecord

\* The run is over; its number and its second stay known.
LEMMA ReplyStep ==
  ASSUME TypeOK, NEW d \in Desktops, Reply(d)
  PROVE  /\ job[d].phase = "replied"
         /\ UNCHANGED <<lock, archive, registry, disk, noteEvent, runs, harmed, skipped>>
         /\ OnlyOf(d)
         /\ job'[d].phase = "idle"
         /\ job'[d].outcome = "none"
         /\ job'[d].id = job[d].id
         /\ job'[d].second = job[d].second
<1>0. /\ job[d].phase = "replied"
      /\ UNCHANGED <<lock, archive, registry, disk, noteEvent, runs, harmed, skipped>>
  BY DEF Reply, serverVars, boundVars
<1> DEFINE J == [IdleJob EXCEPT !.id = job[d].id, !.second = job[d].second]
<1>1. J \in JobRecord /\ J.phase = "idle" /\ J.outcome = "none" /\ J.id = job[d].id
      /\ J.second = job[d].second
  BY JobOfRecord DEF JobRecord, IdleJob, Content, NoFile
<1> HIDE DEF J
<1>2. job' = [job EXCEPT ![d] = J]
  BY DEF Reply, J
<1> QED
  BY <1>0, <1>1, <1>2, JobStep

\* A new run has a number of its own.
LEMMA CreateStep ==
  ASSUME TypeOK, NEW d \in Desktops, Create(d)
  PROVE  /\ ~ screen[d].gate
         /\ UNCHANGED <<lock, archive, registry, disk, noteEvent, harmed, skipped>>
         /\ runs' = runs + 1
         /\ OnlyOf(d)
         /\ job'[d].phase = "syncing"
         /\ job'[d].outcome = "none"
         /\ job'[d].id = runs + 1
<1>0. /\ ~ screen[d].gate
      /\ UNCHANGED <<lock, archive, registry, disk, noteEvent, harmed, skipped>>
      /\ runs' = runs + 1
  BY DEF Create, serverVars
<1> DEFINE J == [IdleJob EXCEPT !.phase = "syncing", !.id = runs + 1]
<1>1. J \in JobRecord /\ J.phase = "syncing" /\ J.outcome = "none" /\ J.id = runs + 1
  <2>1. runs + 1 \in Nat
    BY DEF TypeOK
  <2>2. IdleJob.outcome = "none"
    BY DEF IdleJob
  <2> QED
    BY <2>1, <2>2, IdleFacts DEF JobRecord
<1>2. job' = [job EXCEPT ![d] = J]
  BY DEF Create
<1> HIDE DEF J
<1> QED
  BY <1>0, <1>1, <1>2, JobStep

\* The desktop knows nothing of its run, which is noted as harmed.
LEMMA CrashStep ==
  ASSUME TypeOK, NEW d \in Desktops, Crash(d)
  PROVE  /\ UNCHANGED <<lock, archive, disk, runs, skipped>>
         /\ harmed' = harmed \cup {job[d].id}
         /\ registry' = [registry EXCEPT ![d] = "none"]
         /\ screen' = [screen EXCEPT ![d] = EmptyRun]
         /\ OnlyOf(d)
         /\ job'[d].phase = "idle"
         /\ job'[d].outcome = "none"
         /\ job'[d].id = 0
<1>0. /\ UNCHANGED <<lock, archive, disk, runs, skipped>>
      /\ harmed' = harmed \cup {job[d].id}
      /\ registry' = [registry EXCEPT ![d] = "none"]
      /\ screen' = [screen EXCEPT ![d] = EmptyRun]
  BY DEF Crash, serverVars
<1>1. IdleJob \in JobRecord /\ job' = [job EXCEPT ![d] = IdleJob]
  BY IdleFacts DEF Crash
<1>2. OnlyOf(d) /\ job'[d] = IdleJob
  BY <1>1, JobStep
<1> QED
  BY <1>0, <1>2 DEF IdleJob

(* What happens to a screen.                                               *)
ScreenOnlyOf(d) == \A e \in Desktops \ {d} : screen'[e] = screen[e]

\* A step that replaces the screen of one desktop leaves the others alone.
LEMMA ScreenStep ==
  ASSUME TypeOK, NEW d \in Desktops, NEW R, screen' = [screen EXCEPT ![d] = R]
  PROVE  ScreenOnlyOf(d) /\ screen'[d] = R
BY DEF TypeOK, ScreenOnlyOf

\* The screen of a desktop is a record.
LEMMA ScreenOfRecord ==
  ASSUME TypeOK, NEW d \in Desktops
  PROVE  screen[d] \in ScreenRecord /\ noteEvent[d] \in BOOLEAN
BY DEF TypeOK

\* The screen of a new run.
LEMMA CreateScreen ==
  ASSUME TypeOK, NEW d \in Desktops, Create(d)
  PROVE  /\ ScreenOnlyOf(d)
         /\ screen'[d] \in ScreenRecord
         /\ screen'[d].gate
         /\ screen'[d].shown = "running"
         /\ ~ screen'[d].asked
<1> DEFINE R == [EmptyRun EXCEPT !.gate = TRUE, !.shown = "running",
                                 !.cancelling = screen[d].cancelling]
<1>1. R \in ScreenRecord /\ R.gate /\ R.shown = "running" /\ ~ R.asked
  <2>1. EmptyRun \in ScreenRecord /\ ~ EmptyRun.asked
    BY IdleFacts DEF EmptyRun
  <2> QED
    BY <2>1, ScreenOfRecord DEF ScreenRecord
<1>2. screen' = [screen EXCEPT ![d] = R]
  BY DEF Create
<1> HIDE DEF R
<1> QED
  BY <1>1, <1>2, ScreenStep

\* The screen when the user asks to cancel.
LEMMA AskScreen ==
  ASSUME TypeOK, NEW d \in Desktops, AskToCancel(d)
  PROVE  /\ UNCHANGED <<lock, archive, job, registry, disk, noteEvent, runs, harmed,
                        skipped>>
         /\ ScreenOnlyOf(d)
         /\ screen'[d] \in ScreenRecord
         /\ screen'[d].gate = screen[d].gate
         /\ screen'[d].shown = screen[d].shown
         /\ screen'[d].note = screen[d].note
         /\ screen'[d].cancelling
<1>0. UNCHANGED <<lock, archive, job, registry, disk, noteEvent, runs, harmed, skipped>>
  BY DEF AskToCancel, serverVars, boundVars
<1> DEFINE R == [screen[d] EXCEPT !.asked = TRUE, !.cancelling = TRUE]
<1>1. R \in ScreenRecord /\ R.gate = screen[d].gate /\ R.shown = screen[d].shown
      /\ R.note = screen[d].note /\ R.cancelling
  BY ScreenOfRecord DEF ScreenRecord
<1>2. screen' = [screen EXCEPT ![d] = R]
  BY DEF AskToCancel, TypeOK
<1> HIDE DEF R
<1> QED
  BY <1>0, <1>1, <1>2, ScreenStep

\* The screen when the cancel has been answered.
LEMMA CancelScreen ==
  ASSUME TypeOK, NEW d \in Desktops, CancelArrives(d)
  PROVE  /\ UNCHANGED <<lock, archive, job, disk, noteEvent, runs, harmed, skipped>>
         /\ registry' = [registry EXCEPT ![d] = IF registry[d] = "none" THEN registry[d]
                                                                       ELSE "cancelled"]
         /\ ScreenOnlyOf(d)
         /\ screen'[d] \in ScreenRecord
         /\ screen'[d].gate = screen[d].gate
         /\ screen'[d].shown = screen[d].shown
         /\ screen'[d].note = screen[d].note
         /\ screen'[d].asked => registry[d] # "none"
<1>0. /\ UNCHANGED <<lock, archive, job, disk, noteEvent, runs, harmed, skipped>>
      /\ registry' = [registry EXCEPT ![d] = IF registry[d] = "none" THEN registry[d]
                                                                    ELSE "cancelled"]
  BY DEF CancelArrives, serverVars, boundVars, TypeOK
<1> DEFINE R == [screen[d] EXCEPT !.cancelling = FALSE,
                                  !.asked = screen[d].asked /\ registry[d] # "none"]
<1>1. R \in ScreenRecord /\ R.gate = screen[d].gate /\ R.shown = screen[d].shown
      /\ R.note = screen[d].note /\ (R.asked => registry[d] # "none")
  BY ScreenOfRecord DEF ScreenRecord
<1>2. screen' = [screen EXCEPT ![d] = R]
  BY DEF CancelArrives, TypeOK
<1> HIDE DEF R
<1> QED
  BY <1>0, <1>1, <1>2, ScreenStep

\* The screen when the event about the leftover arrives.
LEMMA DeliverScreen ==
  ASSUME TypeOK, NEW d \in Desktops, DeliverNote(d)
  PROVE  /\ UNCHANGED <<lock, archive, job, registry, disk, runs, harmed, skipped>>
         /\ ScreenOnlyOf(d)
         /\ screen'[d] \in ScreenRecord
         /\ screen'[d].gate = screen[d].gate
         /\ screen'[d].shown = screen[d].shown
         /\ screen'[d].asked = screen[d].asked
         /\ screen'[d].cancelling = screen[d].cancelling
         /\ screen[d].note => screen'[d].note
<1>0. UNCHANGED <<lock, archive, job, registry, disk, runs, harmed, skipped>>
  BY DEF DeliverNote, serverVars, boundVars
<1> DEFINE R == [screen[d] EXCEPT !.note = screen[d].note \/ screen[d].shown = "running"]
<1>1. R \in ScreenRecord /\ R.gate = screen[d].gate /\ R.shown = screen[d].shown
      /\ R.asked = screen[d].asked /\ R.cancelling = screen[d].cancelling
      /\ (screen[d].note => R.note)
  BY ScreenOfRecord DEF ScreenRecord
<1>2. screen' = [screen EXCEPT ![d] = R]
  BY DEF DeliverNote, TypeOK
<1> HIDE DEF R
<1> QED
  BY <1>0, <1>1, <1>2, ScreenStep

\* The screen when the run is over.
LEMMA ReplyScreen ==
  ASSUME TypeOK, NEW d \in Desktops, Reply(d), job[d].outcome \in {"saved",
         "cancelled", "failed"}
  PROVE  /\ ScreenOnlyOf(d)
         /\ screen'[d] \in ScreenRecord
         /\ ~ screen'[d].gate
         /\ screen'[d].shown = job[d].outcome
         /\ ~ screen'[d].asked
         /\ job[d].outcome = "saved" /\ job[d].warned => screen'[d].note
<1> DEFINE R == [screen[d] EXCEPT !.shown = job[d].outcome, !.asked = FALSE, !.gate = FALSE,
                   !.note = screen[d].note \/ (job[d].outcome = "saved" /\ job[d].warned)]
<1>1. R \in ScreenRecord /\ ~ R.gate /\ R.shown = job[d].outcome /\ ~ R.asked
      /\ (job[d].outcome = "saved" /\ job[d].warned => R.note)
  BY ScreenOfRecord DEF ScreenRecord
<1>2. screen' = [screen EXCEPT ![d] = R]
  BY DEF Reply, TypeOK
<1> HIDE DEF R
<1> QED
  BY <1>1, <1>2, ScreenStep

\* NoFile is a content.
LEMMA NoFileType == NoFile \in Content
BY DEF NoFile, Content

\* The count of faults is a number.
LEMMA FaultType == TypeOK /\ Fault => faults' \in Nat
BY DEF Fault, TypeOK

\* The archives after a cleanup are archives.
LEMMA CleanupType ==
  ASSUME TypeOK, NEW d \in Desktops
  PROVE  AfterCleanup(d) \in [Seconds -> Content]
BY NoFileType, JobOfRecord DEF AfterCleanup, TypeOK

\* Every step keeps the types.
LEMMA TypeStep == TypeOK /\ OutcomeInv /\ [Next]_vars => TypeOK'
<1> SUFFICES ASSUME TypeOK, OutcomeInv, [Next]_vars PROVE TypeOK'
  OBVIOUS
<1>1. ASSUME NEW d \in Desktops, Create(d) PROVE TypeOK'
  <2> DEFINE R == [EmptyRun EXCEPT !.gate = TRUE, !.shown = "running",
                                  !.cancelling = screen[d].cancelling]
  <2>1. R \in ScreenRecord
    BY IdleFacts DEF ScreenRecord, TypeOK
  <2>2. screen' = [screen EXCEPT ![d] = R]
    BY <1>1 DEF Create
  <2> HIDE DEF R
  <2>3. screen' \in [Desktops -> ScreenRecord]
    BY <2>1, <2>2 DEF TypeOK
  <2>4. job' \in [Desktops -> JobRecord]
    BY <1>1, CreateStep DEF OnlyOf
  <2>5. runs' \in Nat
    BY <1>1 DEF Create, TypeOK
  <2> QED
    BY <1>1, <2>3, <2>4, <2>5 DEF Create, TypeOK, serverVars
<1>2. ASSUME NEW d \in Desktops, AskToCancel(d) PROVE TypeOK'
  BY <1>2, JobOfRecord DEF AskToCancel, Goes, OnlyOf, TypeOK, serverVars, boundVars,
     Fault, Whole, NoFile, Content, ScreenRecord
<1>3. ASSUME NEW d \in Desktops, CancelArrives(d) PROVE TypeOK'
  <2> DEFINE R == [screen[d] EXCEPT !.cancelling = FALSE,
                                    !.asked = screen[d].asked /\ registry[d] # "none"]
  <2>1. screen[d] \in ScreenRecord /\ noteEvent[d] \in BOOLEAN
    BY DEF TypeOK
  <2>2. R \in ScreenRecord
    BY <2>1 DEF ScreenRecord
  <2>3. screen' = [screen EXCEPT ![d] = R]
    BY <1>3 DEF CancelArrives, TypeOK
  <2> HIDE DEF R
  <2>4. screen' \in [Desktops -> ScreenRecord]
    BY <2>2, <2>3 DEF TypeOK
  <2> QED
    BY <1>3, <2>4 DEF CancelArrives, TypeOK, serverVars, boundVars
<1>4. ASSUME NEW d \in Desktops, DeliverNote(d) PROVE TypeOK'
  <2> DEFINE R == [screen[d] EXCEPT !.note = screen[d].note \/ screen[d].shown = "running"]
  <2>1. screen[d] \in ScreenRecord /\ noteEvent[d] \in BOOLEAN
    BY DEF TypeOK
  <2>2. R \in ScreenRecord
    BY <2>1 DEF ScreenRecord
  <2>3. screen' = [screen EXCEPT ![d] = R]
    BY <1>4 DEF DeliverNote, TypeOK
  <2> HIDE DEF R
  <2>4. screen' \in [Desktops -> ScreenRecord]
    BY <2>2, <2>3 DEF TypeOK
  <2> QED
    BY <1>4, <2>4 DEF DeliverNote, TypeOK, serverVars, boundVars
<1>5. ASSUME NEW d \in Desktops, Register(d) PROVE TypeOK'
  BY <1>5, RegisterStep, JobOfRecord DEF Register, Goes, OnlyOf, TypeOK, serverVars,
     boundVars, Fault, Whole, NoFile, Content, ScreenRecord
<1>6. ASSUME NEW d \in Desktops, Connected(d) PROVE TypeOK'
  BY <1>6, ConnectedStep, JobOfRecord DEF Connected, Goes, OnlyOf, TypeOK, serverVars,
     boundVars, Fault, Whole, NoFile, Content, ScreenRecord
<1>7. ASSUME NEW d \in Desktops, Prepared(d) PROVE TypeOK'
  BY <1>7, PreparedStep, JobOfRecord DEF Prepared, Goes, OnlyOf, TypeOK, serverVars,
     boundVars, Fault, Whole, NoFile, Content, ScreenRecord
<1>8. ASSUME NEW d \in Desktops, GiveUp(d) PROVE TypeOK'
  <2>1. job' \in [Desktops -> JobRecord] /\ faults' \in Nat
    BY <1>8, GiveUpStep, FaultType DEF GiveUp, Goes, OnlyOf, TypeOK
  <2> QED
    BY <1>8, <2>1 DEF GiveUp, TypeOK, serverVars
<1>9. ASSUME NEW d \in Desktops, Locked(d) PROVE TypeOK'
  BY <1>9, LockedStep, JobOfRecord DEF Locked, Goes, OnlyOf, TypeOK, serverVars,
     boundVars, Fault, Whole, NoFile, Content, ScreenRecord
<1>10. ASSUME NEW d \in Desktops, LockHeld(d) PROVE TypeOK'
  BY <1>10, LockHeldStep, JobOfRecord DEF LockHeld, Goes, OnlyOf, TypeOK, serverVars,
     boundVars, Fault, Whole, NoFile, Content, ScreenRecord
<1>11. ASSUME NEW d \in Desktops, LockUnanswered(d) PROVE TypeOK'
  <2>1. job[d].id \in Nat
    BY JobOfRecord
  <2>2. lock' \in Nat
    BY <1>11, <2>1 DEF LockUnanswered, TypeOK
  <2>3. harmed' \subseteq Nat /\ faults' \in Nat
    BY <1>11, <2>1, FaultType DEF LockUnanswered, TypeOK
  <2>4. job' \in [Desktops -> JobRecord]
    BY <1>11, LockUnansweredStep DEF Goes, OnlyOf
  <2> QED
    BY <1>11, <2>2, <2>3, <2>4 DEF LockUnanswered, TypeOK
<1>12. ASSUME NEW d \in Desktops, Archived(d) PROVE TypeOK'
  BY <1>12, ArchivedStep, JobOfRecord DEF Archived, Goes, OnlyOf, TypeOK, serverVars,
     boundVars, Fault, Whole, NoFile, Content, ScreenRecord
<1>13. ASSUME NEW d \in Desktops, Packed(d) PROVE TypeOK'
  BY <1>13, PackedStep, JobOfRecord DEF Packed, Goes, OnlyOf, TypeOK, serverVars,
     boundVars, Fault, Whole, NoFile, Content, ScreenRecord
<1>14. ASSUME NEW d \in Desktops, Summed(d) PROVE TypeOK'
  BY <1>14, SummedStep, JobOfRecord DEF Summed, Goes, OnlyOf, TypeOK, serverVars,
     boundVars, Fault, Whole, NoFile, Content, ScreenRecord
<1>15. ASSUME NEW d \in Desktops, SumFindsNothing(d) PROVE TypeOK'
  BY <1>15, FailureStep, JobOfRecord DEF SumFindsNothing, Goes, OnlyOf, TypeOK,
     serverVars, boundVars, Fault, Whole, NoFile, Content, ScreenRecord
<1>16. ASSUME NEW d \in Desktops, WorkFails(d) PROVE TypeOK'
  <2>1. archive' \in [Seconds -> Content]
    <3>1. \A by \in Nat, whole \in BOOLEAN : [by |-> by, whole |-> whole] \in Content
      BY DEF Content
    <3>2. Whole(job[d].id) \in Content /\ Partial(job[d].id) \in Content
      BY <3>1, JobOfRecord DEF Whole, Partial
    <3> QED
      BY <1>16, <3>2, JobOfRecord DEF WorkFails, TypeOK
  <2>2. job' \in [Desktops -> JobRecord] /\ skipped' \subseteq Nat /\ faults' \in Nat
    BY <1>16, FailureStep, FaultType DEF WorkFails, Goes, OnlyOf
  <2> QED
    BY <1>16, <2>1, <2>2 DEF WorkFails, TypeOK
<1>17. ASSUME NEW d \in Desktops, Cleaned(d) PROVE TypeOK'
  <2>1. archive' \in [Seconds -> Content]
    BY <1>17, CleanupType DEF Cleaned
  <2>2. job' \in [Desktops -> JobRecord]
    BY <1>17, CleanedStep DEF Goes, OnlyOf
  <2> QED
    BY <1>17, <2>1, <2>2 DEF Cleaned, TypeOK, boundVars
<1>18. ASSUME NEW d \in Desktops, CleanupFails(d) PROVE TypeOK'
  <2>1. archive' \in [Seconds -> Content] /\ lock' \in Nat
    BY <1>18, CleanupType DEF CleanupFails, TypeOK
  <2>2. job' \in [Desktops -> JobRecord]
    BY <1>18, CleanupFailsStep DEF Goes, OnlyOf
  <2>3. harmed' \subseteq Nat /\ faults' \in Nat
    BY <1>18, JobOfRecord DEF CleanupFails, Fault, TypeOK
  <2> QED
    BY <1>18, <2>1, <2>2, <2>3 DEF CleanupFails, TypeOK
<1>19. ASSUME NEW d \in Desktops, Streamed(d) PROVE TypeOK'
  BY <1>19, StreamedStep, JobOfRecord DEF Streamed, Goes, OnlyOf, TypeOK, serverVars,
     boundVars, Fault, Whole, NoFile, Content, ScreenRecord
<1>20. ASSUME NEW d \in Desktops, StreamCancelled(d) PROVE TypeOK'
  BY <1>20, StreamCancelledStep, JobOfRecord DEF StreamCancelled, Goes, OnlyOf, TypeOK,
     serverVars, boundVars, Fault, Whole, NoFile, Content, ScreenRecord
<1>21. ASSUME NEW d \in Desktops, DownloadFails(d) PROVE TypeOK'
  <2>1. job' \in [Desktops -> JobRecord] /\ faults' \in Nat
    BY <1>21, DownloadFailsStep, FaultType DEF DownloadFails, Goes, OnlyOf, TypeOK
  <2> QED
    BY <1>21, <2>1 DEF DownloadFails, TypeOK, serverVars
<1>22. ASSUME NEW d \in Desktops, Saved(d) PROVE TypeOK'
  <2>1. job' \in [Desktops -> JobRecord]
    BY <1>22, SaveStep DEF Goes, OnlyOf
  <2>2. disk' \in [Desktops -> Content]
    <3>1. job[d].reading \in Content
      BY JobOfRecord DEF JobRecord
    <3> QED
      BY <1>22, <3>1 DEF Saved, TypeOK
  <2> QED
    BY <1>22, <2>1, <2>2 DEF Saved, TypeOK, serverVars, boundVars
<1>23. ASSUME NEW d \in Desktops, Removed(d) PROVE TypeOK'
  BY <1>23, RemovedStep, JobOfRecord DEF Removed, Goes, OnlyOf, TypeOK, serverVars,
     boundVars, Fault, Whole, NoFile, Content, ScreenRecord
<1>24. ASSUME NEW d \in Desktops, RemovalFails(d) PROVE TypeOK'
  <2>1. archive' \in [Seconds -> Content]
    BY <1>24, NoFileType, JobOfRecord DEF RemovalFails, TypeOK
  <2>2. job' \in [Desktops -> JobRecord] /\ faults' \in Nat
    BY <1>24, RemovalFailsStep, FaultType DEF RemovalFails, OnlyOf, TypeOK
  <2> QED
    BY <1>24, <2>1, <2>2 DEF RemovalFails, TypeOK
<1>25. ASSUME NEW d \in Desktops, Return(d) PROVE TypeOK'
  BY <1>25, ReturnStep, JobOfRecord DEF Return, Goes, OnlyOf, TypeOK, serverVars,
     boundVars, Fault, Whole, NoFile, Content, ScreenRecord
<1>26. ASSUME NEW d \in Desktops, Reply(d) PROVE TypeOK'
  <2> DEFINE note == screen[d].note \/ (job[d].outcome = "saved" /\ job[d].warned)
             R == [screen[d] EXCEPT !.shown = job[d].outcome, !.asked = FALSE,
                                    !.gate = FALSE, !.note = note]
  <2>1. job[d].outcome \in {"none", "running", "saved", "cancelled", "failed"}
    BY <1>26, ReplyStep DEF OutcomeInv, OutcomesOf
  <2>2. screen' = [screen EXCEPT ![d] = R]
    BY <1>26 DEF Reply, TypeOK
  <2>3. R \in ScreenRecord
    BY <2>1 DEF TypeOK, ScreenRecord
  <2> HIDE DEF R
  <2>4. screen' \in [Desktops -> ScreenRecord]
    BY <2>2, <2>3 DEF TypeOK
  <2> QED
    BY <1>26, <2>4, ReplyStep DEF Reply, OnlyOf, TypeOK, serverVars, boundVars
<1>27. ASSUME NEW d \in Desktops, Crash(d) PROVE TypeOK'
  <2>1. harmed' \subseteq Nat
    BY <1>27, JobOfRecord DEF Crash, TypeOK
  <2> QED
    BY <1>27, <2>1, CrashStep, IdleFacts DEF Crash, Fault, OnlyOf, TypeOK, serverVars
<1>28. ASSUME RemoveLockByHand PROVE TypeOK'
  BY <1>28 DEF RemoveLockByHand, TypeOK, boundVars
<1>29. ASSUME UNCHANGED vars PROVE TypeOK'
  BY <1>29 DEF vars, TypeOK
<1> QED
  BY <1>1, <1>2, <1>3, <1>4, <1>5, <1>6, <1>7, <1>8, <1>9, <1>10, <1>11, <1>12, <1>13,
     <1>14, <1>15, <1>16, <1>17, <1>18, <1>19, <1>20, <1>21, <1>22, <1>23, <1>24,
     <1>25, <1>26, <1>27, <1>28, <1>29 DEF Next, Step


\* A step of one run that fits its outcome to its phase keeps OutcomeInv.
LEMMA OutcomeOfStep ==
  ASSUME OutcomeInv, NEW d \in Desktops, OnlyOf(d),
         job'[d].outcome \in OutcomesOf(job'[d].phase)
  PROVE  OutcomeInv'
BY DEF OutcomeInv, OnlyOf, Kept

\* Every step keeps OutcomeInv.
LEMMA OutcomeStep == TypeOK /\ OutcomeInv /\ [Next]_vars => OutcomeInv'
<1> SUFFICES ASSUME TypeOK, OutcomeInv, [Next]_vars PROVE OutcomeInv'
  OBVIOUS
<1>0. \A d \in Desktops : job[d].outcome \in OutcomesOf(job[d].phase)
  BY DEF OutcomeInv
<1>1. ASSUME NEW d \in Desktops, Create(d) PROVE OutcomeInv'
  BY <1>0, <1>1, CreateStep, OutcomeOfStep DEF Goes, OutcomesOf
<1>2. ASSUME NEW d \in Desktops, AskToCancel(d) PROVE OutcomeInv'
  BY <1>2 DEF AskToCancel, OutcomeInv
<1>3. ASSUME NEW d \in Desktops, CancelArrives(d) PROVE OutcomeInv'
  BY <1>3 DEF CancelArrives, OutcomeInv
<1>4. ASSUME NEW d \in Desktops, DeliverNote(d) PROVE OutcomeInv'
  BY <1>4 DEF DeliverNote, OutcomeInv
<1>5. ASSUME NEW d \in Desktops, Register(d) PROVE OutcomeInv'
  BY <1>0, <1>5, RegisterStep, OutcomeOfStep DEF Goes, OutcomesOf
<1>6. ASSUME NEW d \in Desktops, Connected(d) PROVE OutcomeInv'
  BY <1>0, <1>6, ConnectedStep, OutcomeOfStep DEF Goes, OutcomesOf
<1>7. ASSUME NEW d \in Desktops, Prepared(d) PROVE OutcomeInv'
  BY <1>0, <1>7, PreparedStep, OutcomeOfStep DEF Goes, OutcomesOf
<1>8. ASSUME NEW d \in Desktops, GiveUp(d) PROVE OutcomeInv'
  BY <1>0, <1>8, GiveUpStep, OutcomeOfStep DEF Goes, OutcomesOf
<1>9. ASSUME NEW d \in Desktops, Locked(d) PROVE OutcomeInv'
  BY <1>0, <1>9, LockedStep, OutcomeOfStep DEF Goes, OutcomesOf
<1>10. ASSUME NEW d \in Desktops, LockHeld(d) PROVE OutcomeInv'
  BY <1>0, <1>10, LockHeldStep, OutcomeOfStep DEF Goes, OutcomesOf
<1>11. ASSUME NEW d \in Desktops, LockUnanswered(d) PROVE OutcomeInv'
  BY <1>0, <1>11, LockUnansweredStep, OutcomeOfStep DEF Goes, OutcomesOf
<1>12. ASSUME NEW d \in Desktops, Archived(d) PROVE OutcomeInv'
  BY <1>0, <1>12, ArchivedStep, OutcomeOfStep DEF Goes, OutcomesOf
<1>13. ASSUME NEW d \in Desktops, Packed(d) PROVE OutcomeInv'
  BY <1>0, <1>13, PackedStep, OutcomeOfStep DEF Goes, OutcomesOf
<1>14. ASSUME NEW d \in Desktops, Summed(d) PROVE OutcomeInv'
  BY <1>0, <1>14, SummedStep, OutcomeOfStep DEF Goes, OutcomesOf
<1>15. ASSUME NEW d \in Desktops, SumFindsNothing(d) PROVE OutcomeInv'
  BY <1>0, <1>15, FailureStep, OutcomeOfStep DEF Goes, OutcomesOf
<1>16. ASSUME NEW d \in Desktops, WorkFails(d) PROVE OutcomeInv'
  BY <1>0, <1>16, FailureStep, OutcomeOfStep DEF Goes, OutcomesOf
<1>17. ASSUME NEW d \in Desktops, Cleaned(d) PROVE OutcomeInv'
  BY <1>0, <1>17, CleanedStep, OutcomeOfStep DEF Goes, OutcomesOf
<1>18. ASSUME NEW d \in Desktops, CleanupFails(d) PROVE OutcomeInv'
  BY <1>0, <1>18, CleanupFailsStep, OutcomeOfStep DEF Goes, OutcomesOf
<1>19. ASSUME NEW d \in Desktops, Streamed(d) PROVE OutcomeInv'
  BY <1>0, <1>19, StreamedStep, OutcomeOfStep DEF Goes, OutcomesOf
<1>20. ASSUME NEW d \in Desktops, StreamCancelled(d) PROVE OutcomeInv'
  BY <1>0, <1>20, StreamCancelledStep, OutcomeOfStep DEF Goes, OutcomesOf
<1>21. ASSUME NEW d \in Desktops, DownloadFails(d) PROVE OutcomeInv'
  BY <1>0, <1>21, DownloadFailsStep, OutcomeOfStep DEF Goes, OutcomesOf
<1>22. ASSUME NEW d \in Desktops, Saved(d) PROVE OutcomeInv'
  BY <1>0, <1>22, SaveStep, OutcomeOfStep DEF Goes, OutcomesOf
<1>23. ASSUME NEW d \in Desktops, Removed(d) PROVE OutcomeInv'
  BY <1>0, <1>23, RemovedStep, OutcomeOfStep DEF Goes, OutcomesOf
<1>24. ASSUME NEW d \in Desktops, RemovalFails(d) PROVE OutcomeInv'
  BY <1>0, <1>24, RemovalFailsStep, OutcomeOfStep DEF Goes, OutcomesOf
<1>25. ASSUME NEW d \in Desktops, Return(d) PROVE OutcomeInv'
  BY <1>0, <1>25, ReturnStep, OutcomeOfStep DEF Goes, OutcomesOf
<1>26. ASSUME NEW d \in Desktops, Reply(d) PROVE OutcomeInv'
  BY <1>0, <1>26, ReplyStep, OutcomeOfStep DEF Goes, OutcomesOf
<1>27. ASSUME NEW d \in Desktops, Crash(d) PROVE OutcomeInv'
  BY <1>0, <1>27, CrashStep, OutcomeOfStep DEF Goes, OutcomesOf
<1>28. ASSUME RemoveLockByHand PROVE OutcomeInv'
  BY <1>28 DEF RemoveLockByHand, OutcomeInv
<1>29. ASSUME UNCHANGED vars PROVE OutcomeInv'
  BY <1>29 DEF vars, OutcomeInv
<1> QED
  BY <1>1, <1>2, <1>3, <1>4, <1>5, <1>6, <1>7, <1>8, <1>9, <1>10, <1>11, <1>12, <1>13,
     <1>14, <1>15, <1>16, <1>17, <1>18, <1>19, <1>20, <1>21, <1>22, <1>23, <1>24,
     <1>25, <1>26, <1>27, <1>28, <1>29 DEF Next, Step


\* What a step of one desktop must do to keep ScreenInv.
LEMMA ScreenOfStep ==
  ASSUME ScreenInv, NEW d \in Desktops, OnlyOf(d), ScreenOnlyOf(d),
         screen'[d].gate <=> job'[d].phase # "idle",
         screen'[d].shown = "saved" => job'[d].phase = "idle"
  PROVE  ScreenInv'
BY DEF ScreenInv, OnlyOf, Kept, ScreenOnlyOf

\* A step of a run that is under way and does not end.
LEMMA ScreenOfQuietStep ==
  ASSUME ScreenInv, NEW d \in Desktops, OnlyOf(d), screen' = screen,
         job[d].phase # "idle", job'[d].phase # "idle"
  PROVE  ScreenInv'
BY DEF ScreenInv, OnlyOf, Kept

\* Every step keeps ScreenInv.
LEMMA ScreenInvStep == TypeOK /\ OutcomeInv /\ ScreenInv /\ [Next]_vars => ScreenInv'
<1> SUFFICES ASSUME TypeOK, OutcomeInv, ScreenInv, [Next]_vars PROVE ScreenInv'
  OBVIOUS
<1>1. ASSUME NEW d \in Desktops, Create(d) PROVE ScreenInv'
  BY <1>1, CreateStep, CreateScreen, ScreenOfStep
<1>2. ASSUME NEW d \in Desktops, AskToCancel(d) PROVE ScreenInv'
  BY <1>2, AskScreen DEF ScreenInv, ScreenOnlyOf
<1>3. ASSUME NEW d \in Desktops, CancelArrives(d) PROVE ScreenInv'
  BY <1>3, CancelScreen DEF ScreenInv, ScreenOnlyOf
<1>4. ASSUME NEW d \in Desktops, DeliverNote(d) PROVE ScreenInv'
  BY <1>4, DeliverScreen DEF ScreenInv, ScreenOnlyOf
<1>5. ASSUME NEW d \in Desktops, Register(d) PROVE ScreenInv'
  BY <1>5, RegisterStep, ScreenOfQuietStep DEF Goes
<1>6. ASSUME NEW d \in Desktops, Connected(d) PROVE ScreenInv'
  BY <1>6, ConnectedStep, ScreenOfQuietStep DEF Goes
<1>7. ASSUME NEW d \in Desktops, Prepared(d) PROVE ScreenInv'
  BY <1>7, PreparedStep, ScreenOfQuietStep DEF Goes
<1>8. ASSUME NEW d \in Desktops, GiveUp(d) PROVE ScreenInv'
  BY <1>8, GiveUpStep, ScreenOfQuietStep DEF Goes
<1>9. ASSUME NEW d \in Desktops, Locked(d) PROVE ScreenInv'
  BY <1>9, LockedStep, ScreenOfQuietStep DEF Goes
<1>10. ASSUME NEW d \in Desktops, LockHeld(d) PROVE ScreenInv'
  BY <1>10, LockHeldStep, ScreenOfQuietStep DEF Goes
<1>11. ASSUME NEW d \in Desktops, LockUnanswered(d) PROVE ScreenInv'
  BY <1>11, LockUnansweredStep, ScreenOfQuietStep DEF Goes
<1>12. ASSUME NEW d \in Desktops, Archived(d) PROVE ScreenInv'
  BY <1>12, ArchivedStep, ScreenOfQuietStep DEF Goes
<1>13. ASSUME NEW d \in Desktops, Packed(d) PROVE ScreenInv'
  BY <1>13, PackedStep, ScreenOfQuietStep DEF Goes
<1>14. ASSUME NEW d \in Desktops, Summed(d) PROVE ScreenInv'
  BY <1>14, SummedStep, ScreenOfQuietStep DEF Goes
<1>15. ASSUME NEW d \in Desktops, SumFindsNothing(d) PROVE ScreenInv'
  BY <1>15, FailureStep, ScreenOfQuietStep DEF Goes
<1>16. ASSUME NEW d \in Desktops, WorkFails(d) PROVE ScreenInv'
  BY <1>16, FailureStep, ScreenOfQuietStep DEF Goes
<1>17. ASSUME NEW d \in Desktops, Cleaned(d) PROVE ScreenInv'
  BY <1>17, CleanedStep, ScreenOfQuietStep DEF Goes
<1>18. ASSUME NEW d \in Desktops, CleanupFails(d) PROVE ScreenInv'
  BY <1>18, CleanupFailsStep, ScreenOfQuietStep DEF Goes
<1>19. ASSUME NEW d \in Desktops, Streamed(d) PROVE ScreenInv'
  BY <1>19, StreamedStep, ScreenOfQuietStep DEF Goes
<1>20. ASSUME NEW d \in Desktops, StreamCancelled(d) PROVE ScreenInv'
  BY <1>20, StreamCancelledStep, ScreenOfQuietStep DEF Goes
<1>21. ASSUME NEW d \in Desktops, DownloadFails(d) PROVE ScreenInv'
  BY <1>21, DownloadFailsStep, ScreenOfQuietStep DEF Goes
<1>22. ASSUME NEW d \in Desktops, Saved(d) PROVE ScreenInv'
  BY <1>22, SaveStep, ScreenOfQuietStep DEF Goes
<1>23. ASSUME NEW d \in Desktops, Removed(d) PROVE ScreenInv'
  BY <1>23, RemovedStep, ScreenOfQuietStep DEF Goes
<1>24. ASSUME NEW d \in Desktops, RemovalFails(d) PROVE ScreenInv'
  BY <1>24, RemovalFailsStep, ScreenOfQuietStep DEF Goes
<1>25. ASSUME NEW d \in Desktops, Return(d) PROVE ScreenInv'
  BY <1>25, ReturnStep, ScreenOfQuietStep DEF Goes
<1>26. ASSUME NEW d \in Desktops, Reply(d) PROVE ScreenInv'
  <2>1. job[d].outcome \in {"saved", "cancelled", "failed"}
    BY <1>26, ReplyStep DEF OutcomeInv, OutcomesOf
  <2> QED
    BY <1>26, <2>1, ReplyStep, ReplyScreen, ScreenOfStep
<1>27. ASSUME NEW d \in Desktops, Crash(d) PROVE ScreenInv'
  <2>1. ~ EmptyRun.gate /\ EmptyRun.shown = "none"
    BY DEF EmptyRun
  <2>2. ScreenOnlyOf(d) /\ screen'[d] = EmptyRun
    BY <1>27, CrashStep, ScreenStep
  <2> QED
    BY <1>27, <2>1, <2>2, CrashStep, ScreenOfStep
<1>28. ASSUME RemoveLockByHand PROVE ScreenInv'
  BY <1>28 DEF RemoveLockByHand, ScreenInv
<1>29. ASSUME UNCHANGED vars PROVE ScreenInv'
  BY <1>29 DEF vars, ScreenInv
<1> QED
  BY <1>1, <1>2, <1>3, <1>4, <1>5, <1>6, <1>7, <1>8, <1>9, <1>10, <1>11, <1>12, <1>13,
     <1>14, <1>15, <1>16, <1>17, <1>18, <1>19, <1>20, <1>21, <1>22, <1>23, <1>24,
     <1>25, <1>26, <1>27, <1>28, <1>29 DEF Next, Step

\* What a step of one desktop must do to keep IdInv.
LEMMA IdOfStep ==
  ASSUME TypeOK, IdInv, NEW d \in Desktops, OnlyOf(d), runs' = runs,
         job[d].phase # "idle", job'[d].id = job[d].id
  PROVE  IdInv'
BY DEF IdInv, OnlyOf, Kept

\* Every step keeps IdInv.
LEMMA IdStep == TypeOK /\ IdInv /\ [Next]_vars => IdInv'
<1> SUFFICES ASSUME TypeOK, IdInv, [Next]_vars PROVE IdInv'
  OBVIOUS
<1>1. ASSUME NEW d \in Desktops, Create(d) PROVE IdInv'
  <2>1. \A e \in Desktops : job[e].id \in Nat /\ runs \in Nat
    BY JobOfRecord DEF TypeOK
  <2>2. \A e \in Desktops : job'[e].id \in Nat /\ job'[e].id <= runs'
    BY <1>1, <2>1, CreateStep DEF OnlyOf, Kept, IdInv
  <2>3. \A e \in Desktops : job'[e].phase # "idle" => job'[e].id # 0
    BY <1>1, <2>1, CreateStep DEF OnlyOf, Kept, IdInv
  <2>4. ASSUME NEW e \in Desktops, NEW f \in Desktops, e # f, job'[e].id = job'[f].id
        PROVE  job'[e].id = 0
    BY <1>1, <2>1, <2>4, CreateStep DEF OnlyOf, Kept, IdInv
  <2> QED
    BY <2>2, <2>3, <2>4 DEF IdInv
<1>2. ASSUME NEW d \in Desktops, AskToCancel(d) PROVE IdInv'
  BY <1>2, AskScreen DEF IdInv
<1>3. ASSUME NEW d \in Desktops, CancelArrives(d) PROVE IdInv'
  BY <1>3, CancelScreen DEF IdInv
<1>4. ASSUME NEW d \in Desktops, DeliverNote(d) PROVE IdInv'
  BY <1>4, DeliverScreen DEF IdInv
<1>5. ASSUME NEW d \in Desktops, Register(d) PROVE IdInv'
  BY <1>5, RegisterStep, IdOfStep DEF Goes
<1>6. ASSUME NEW d \in Desktops, Connected(d) PROVE IdInv'
  BY <1>6, ConnectedStep, IdOfStep DEF Goes
<1>7. ASSUME NEW d \in Desktops, Prepared(d) PROVE IdInv'
  BY <1>7, PreparedStep, IdOfStep DEF Goes
<1>8. ASSUME NEW d \in Desktops, GiveUp(d) PROVE IdInv'
  BY <1>8, GiveUpStep, IdOfStep DEF Goes
<1>9. ASSUME NEW d \in Desktops, Locked(d) PROVE IdInv'
  BY <1>9, LockedStep, IdOfStep DEF Goes
<1>10. ASSUME NEW d \in Desktops, LockHeld(d) PROVE IdInv'
  BY <1>10, LockHeldStep, IdOfStep DEF Goes
<1>11. ASSUME NEW d \in Desktops, LockUnanswered(d) PROVE IdInv'
  BY <1>11, LockUnansweredStep, IdOfStep DEF Goes
<1>12. ASSUME NEW d \in Desktops, Archived(d) PROVE IdInv'
  BY <1>12, ArchivedStep, IdOfStep DEF Goes
<1>13. ASSUME NEW d \in Desktops, Packed(d) PROVE IdInv'
  BY <1>13, PackedStep, IdOfStep DEF Goes
<1>14. ASSUME NEW d \in Desktops, Summed(d) PROVE IdInv'
  BY <1>14, SummedStep, IdOfStep DEF Goes
<1>15. ASSUME NEW d \in Desktops, SumFindsNothing(d) PROVE IdInv'
  BY <1>15, FailureStep, IdOfStep DEF Goes
<1>16. ASSUME NEW d \in Desktops, WorkFails(d) PROVE IdInv'
  BY <1>16, FailureStep, IdOfStep DEF Goes
<1>17. ASSUME NEW d \in Desktops, Cleaned(d) PROVE IdInv'
  BY <1>17, CleanedStep, IdOfStep DEF Goes
<1>18. ASSUME NEW d \in Desktops, CleanupFails(d) PROVE IdInv'
  BY <1>18, CleanupFailsStep, IdOfStep DEF Goes
<1>19. ASSUME NEW d \in Desktops, Streamed(d) PROVE IdInv'
  BY <1>19, StreamedStep, IdOfStep DEF Goes
<1>20. ASSUME NEW d \in Desktops, StreamCancelled(d) PROVE IdInv'
  BY <1>20, StreamCancelledStep, IdOfStep DEF Goes
<1>21. ASSUME NEW d \in Desktops, DownloadFails(d) PROVE IdInv'
  BY <1>21, DownloadFailsStep, IdOfStep DEF Goes
<1>22. ASSUME NEW d \in Desktops, Saved(d) PROVE IdInv'
  BY <1>22, SaveStep, IdOfStep DEF Goes
<1>23. ASSUME NEW d \in Desktops, Removed(d) PROVE IdInv'
  BY <1>23, RemovedStep, IdOfStep DEF Goes
<1>24. ASSUME NEW d \in Desktops, RemovalFails(d) PROVE IdInv'
  BY <1>24, RemovalFailsStep, IdOfStep DEF Goes
<1>25. ASSUME NEW d \in Desktops, Return(d) PROVE IdInv'
  BY <1>25, ReturnStep, IdOfStep DEF Goes
<1>26. ASSUME NEW d \in Desktops, Reply(d) PROVE IdInv'
  BY <1>26, ReplyStep, IdOfStep DEF Goes
<1>27. ASSUME NEW d \in Desktops, Crash(d) PROVE IdInv'
  <2>1. \A e \in Desktops : job[e].id \in Nat /\ runs \in Nat
    BY JobOfRecord DEF TypeOK
  <2> QED
    BY <1>27, <2>1, CrashStep DEF OnlyOf, Kept, IdInv
<1>28. ASSUME RemoveLockByHand PROVE IdInv'
  BY <1>28 DEF RemoveLockByHand, IdInv, boundVars
<1>29. ASSUME UNCHANGED vars PROVE IdInv'
  BY <1>29 DEF vars, IdInv, boundVars
<1> QED
  BY <1>1, <1>2, <1>3, <1>4, <1>5, <1>6, <1>7, <1>8, <1>9, <1>10, <1>11, <1>12, <1>13,
     <1>14, <1>15, <1>16, <1>17, <1>18, <1>19, <1>20, <1>21, <1>22, <1>23, <1>24,
     <1>25, <1>26, <1>27, <1>28, <1>29 DEF Next, Step

\* What a step of one desktop must do to keep HoldersOwnTheLock.
LEMMA LockOfStep ==
  ASSUME HoldersOwnTheLock, NEW d \in Desktops, OnlyOf(d), lock' = lock,
         Holding(d)' => Holding(d) /\ job'[d].id = job[d].id
  PROVE  HoldersOwnTheLock'
BY DEF HoldersOwnTheLock, Holding, OnlyOf, Kept

\* Every step keeps HoldersOwnTheLock.
LEMMA LockStep ==
  TypeOK /\ IdInv /\ HoldersOwnTheLock /\ [Next]_vars => HoldersOwnTheLock'
<1> SUFFICES ASSUME TypeOK, IdInv, HoldersOwnTheLock, [Next]_vars PROVE HoldersOwnTheLock'
  OBVIOUS
<1>1. ASSUME NEW d \in Desktops, Create(d) PROVE HoldersOwnTheLock'
  BY <1>1, CreateStep, LockOfStep DEF Goes, Holding
<1>2. ASSUME NEW d \in Desktops, AskToCancel(d) PROVE HoldersOwnTheLock'
  BY <1>2, AskScreen DEF HoldersOwnTheLock, Holding
<1>3. ASSUME NEW d \in Desktops, CancelArrives(d) PROVE HoldersOwnTheLock'
  BY <1>3, CancelScreen DEF HoldersOwnTheLock, Holding
<1>4. ASSUME NEW d \in Desktops, DeliverNote(d) PROVE HoldersOwnTheLock'
  BY <1>4, DeliverScreen DEF HoldersOwnTheLock, Holding
<1>5. ASSUME NEW d \in Desktops, Register(d) PROVE HoldersOwnTheLock'
  BY <1>5, RegisterStep, LockOfStep DEF Goes, Holding
<1>6. ASSUME NEW d \in Desktops, Connected(d) PROVE HoldersOwnTheLock'
  BY <1>6, ConnectedStep, LockOfStep DEF Goes, Holding
<1>7. ASSUME NEW d \in Desktops, Prepared(d) PROVE HoldersOwnTheLock'
  BY <1>7, PreparedStep, LockOfStep DEF Goes, Holding
<1>8. ASSUME NEW d \in Desktops, GiveUp(d) PROVE HoldersOwnTheLock'
  BY <1>8, GiveUpStep, LockOfStep DEF Goes, Holding
<1>9. ASSUME NEW d \in Desktops, Locked(d) PROVE HoldersOwnTheLock'
  <2>1. \A e \in Desktops : ~ Holding(e)
    <3> SUFFICES ASSUME NEW e \in Desktops, Holding(e) PROVE FALSE
      OBVIOUS
    <3> QED
      BY <1>9, LockedStep DEF HoldersOwnTheLock, Holding, IdInv
  <2> QED
    BY <1>9, <2>1, LockedStep DEF Goes, OnlyOf, Kept, HoldersOwnTheLock, Holding
<1>10. ASSUME NEW d \in Desktops, LockHeld(d) PROVE HoldersOwnTheLock'
  BY <1>10, LockHeldStep, LockOfStep DEF Goes, Holding
<1>11. ASSUME NEW d \in Desktops, LockUnanswered(d) PROVE HoldersOwnTheLock'
  <2>1. \A e \in Desktops \ {d} : Holding(e) => lock' = job[e].id
    BY <1>11, LockUnansweredStep DEF HoldersOwnTheLock, Holding, IdInv
  <2> QED
    BY <1>11, <2>1, LockUnansweredStep DEF Goes, OnlyOf, Kept, HoldersOwnTheLock, Holding
<1>12. ASSUME NEW d \in Desktops, Archived(d) PROVE HoldersOwnTheLock'
  BY <1>12, ArchivedStep, LockOfStep DEF Goes, Holding
<1>13. ASSUME NEW d \in Desktops, Packed(d) PROVE HoldersOwnTheLock'
  BY <1>13, PackedStep, LockOfStep DEF Goes, Holding
<1>14. ASSUME NEW d \in Desktops, Summed(d) PROVE HoldersOwnTheLock'
  BY <1>14, SummedStep, LockOfStep DEF Goes, Holding
<1>15. ASSUME NEW d \in Desktops, SumFindsNothing(d) PROVE HoldersOwnTheLock'
  BY <1>15, FailureStep, LockOfStep DEF Goes, Holding
<1>16. ASSUME NEW d \in Desktops, WorkFails(d) PROVE HoldersOwnTheLock'
  BY <1>16, FailureStep, LockOfStep DEF Goes, Holding
<1>17. ASSUME NEW d \in Desktops, Cleaned(d) PROVE HoldersOwnTheLock'
  <2>1. Holding(d) /\ ~ Holding(d)'
    BY <1>17, CleanedStep DEF Goes, Holding
  <2>2. \A e \in Desktops \ {d} : ~ Holding(e)
    BY <2>1 DEF HoldersOwnTheLock, Holding, IdInv
  <2> QED
    BY <1>17, <2>1, <2>2, CleanedStep DEF Goes, OnlyOf, Kept, HoldersOwnTheLock, Holding
<1>18. ASSUME NEW d \in Desktops, CleanupFails(d) PROVE HoldersOwnTheLock'
  <2>1. Holding(d) /\ ~ Holding(d)'
    BY <1>18, CleanupFailsStep DEF Goes, Holding
  <2>2. \A e \in Desktops \ {d} : ~ Holding(e)
    BY <2>1 DEF HoldersOwnTheLock, Holding, IdInv
  <2> QED
    BY <1>18, <2>1, <2>2, CleanupFailsStep DEF Goes, OnlyOf, Kept, HoldersOwnTheLock,
       Holding
<1>19. ASSUME NEW d \in Desktops, Streamed(d) PROVE HoldersOwnTheLock'
  BY <1>19, StreamedStep, LockOfStep DEF Goes, Holding
<1>20. ASSUME NEW d \in Desktops, StreamCancelled(d) PROVE HoldersOwnTheLock'
  BY <1>20, StreamCancelledStep, LockOfStep DEF Goes, Holding
<1>21. ASSUME NEW d \in Desktops, DownloadFails(d) PROVE HoldersOwnTheLock'
  BY <1>21, DownloadFailsStep, LockOfStep DEF Goes, Holding
<1>22. ASSUME NEW d \in Desktops, Saved(d) PROVE HoldersOwnTheLock'
  BY <1>22, SaveStep, LockOfStep DEF Goes, Holding
<1>23. ASSUME NEW d \in Desktops, Removed(d) PROVE HoldersOwnTheLock'
  BY <1>23, RemovedStep, LockOfStep DEF Goes, Holding
<1>24. ASSUME NEW d \in Desktops, RemovalFails(d) PROVE HoldersOwnTheLock'
  BY <1>24, RemovalFailsStep, LockOfStep DEF Goes, Holding
<1>25. ASSUME NEW d \in Desktops, Return(d) PROVE HoldersOwnTheLock'
  BY <1>25, ReturnStep, LockOfStep DEF Goes, Holding
<1>26. ASSUME NEW d \in Desktops, Reply(d) PROVE HoldersOwnTheLock'
  BY <1>26, ReplyStep, LockOfStep DEF Goes, Holding
<1>27. ASSUME NEW d \in Desktops, Crash(d) PROVE HoldersOwnTheLock'
  BY <1>27, CrashStep, LockOfStep DEF Goes, Holding
<1>28. ASSUME RemoveLockByHand PROVE HoldersOwnTheLock'
  BY <1>28 DEF RemoveLockByHand, HoldersOwnTheLock, Holding
<1>29. ASSUME UNCHANGED vars PROVE HoldersOwnTheLock'
  BY <1>29 DEF vars, HoldersOwnTheLock, Holding
<1> QED
  BY <1>1, <1>2, <1>3, <1>4, <1>5, <1>6, <1>7, <1>8, <1>9, <1>10, <1>11, <1>12, <1>13,
     <1>14, <1>15, <1>16, <1>17, <1>18, <1>19, <1>20, <1>21, <1>22, <1>23, <1>24,
     <1>25, <1>26, <1>27, <1>28, <1>29 DEF Next, Step

\* What a step of one desktop must do to keep LockIsReleased.
LEMMA ReleaseOfStep ==
  ASSUME LockIsReleased, NEW d \in Desktops, OnlyOf(d), lock' = lock,
         harmed \subseteq harmed', skipped \subseteq skipped',
         Holding(d) => \/ Holding(d)' /\ job'[d].id = job[d].id
                       \/ job[d].id \in harmed' \cup skipped'
  PROVE  LockIsReleased'
<1>1. \A e \in Desktops \ {d} : Holding(e) => Holding(e)' /\ job'[e].id = job[e].id
  BY DEF OnlyOf, Kept, Holding
<1> QED
  BY <1>1 DEF LockIsReleased

\* Every step keeps LockIsReleased.
LEMMA ReleaseStep ==
  TypeOK /\ IdInv /\ ScreenInv /\ HoldersOwnTheLock /\ LockIsReleased /\ [Next]_vars
    => LockIsReleased'
<1> SUFFICES ASSUME TypeOK, IdInv, ScreenInv, HoldersOwnTheLock, LockIsReleased,
                    [Next]_vars
             PROVE  LockIsReleased'
  OBVIOUS
<1>1. ASSUME NEW d \in Desktops, Create(d) PROVE LockIsReleased'
  BY <1>1, CreateStep, ReleaseOfStep DEF ScreenInv, Holding
<1>2. ASSUME NEW d \in Desktops, AskToCancel(d) PROVE LockIsReleased'
  BY <1>2, AskScreen DEF LockIsReleased, Holding
<1>3. ASSUME NEW d \in Desktops, CancelArrives(d) PROVE LockIsReleased'
  BY <1>3, CancelScreen DEF LockIsReleased, Holding
<1>4. ASSUME NEW d \in Desktops, DeliverNote(d) PROVE LockIsReleased'
  BY <1>4, DeliverScreen DEF LockIsReleased, Holding
<1>5. ASSUME NEW d \in Desktops, Register(d) PROVE LockIsReleased'
  BY <1>5, RegisterStep, ReleaseOfStep DEF Goes, Holding
<1>6. ASSUME NEW d \in Desktops, Connected(d) PROVE LockIsReleased'
  BY <1>6, ConnectedStep, ReleaseOfStep DEF Goes, Holding
<1>7. ASSUME NEW d \in Desktops, Prepared(d) PROVE LockIsReleased'
  BY <1>7, PreparedStep, ReleaseOfStep DEF Goes, Holding
<1>8. ASSUME NEW d \in Desktops, GiveUp(d) PROVE LockIsReleased'
  BY <1>8, GiveUpStep, ReleaseOfStep DEF Goes, Holding
<1>9. ASSUME NEW d \in Desktops, Locked(d) PROVE LockIsReleased'
  BY <1>9, LockedStep DEF Goes, LockIsReleased, Holding
<1>10. ASSUME NEW d \in Desktops, LockHeld(d) PROVE LockIsReleased'
  BY <1>10, LockHeldStep, ReleaseOfStep DEF Goes, Holding
<1>11. ASSUME NEW d \in Desktops, LockUnanswered(d) PROVE LockIsReleased'
  <2>1. CASE lock' = lock
    BY <1>11, <2>1, LockUnansweredStep, ReleaseOfStep DEF Goes, Holding
  <2>2. CASE lock' = job[d].id
    BY <1>11, <2>2, LockUnansweredStep DEF LockIsReleased
  <2> QED
    BY <1>11, <2>1, <2>2, LockUnansweredStep
<1>12. ASSUME NEW d \in Desktops, Archived(d) PROVE LockIsReleased'
  BY <1>12, ArchivedStep, ReleaseOfStep DEF Goes, Holding
<1>13. ASSUME NEW d \in Desktops, Packed(d) PROVE LockIsReleased'
  BY <1>13, PackedStep, ReleaseOfStep DEF Goes, Holding
<1>14. ASSUME NEW d \in Desktops, Summed(d) PROVE LockIsReleased'
  BY <1>14, SummedStep, ReleaseOfStep DEF Goes, Holding
<1>15. ASSUME NEW d \in Desktops, SumFindsNothing(d) PROVE LockIsReleased'
  BY <1>15, FailureStep, ReleaseOfStep DEF Goes, Holding
<1>16. ASSUME NEW d \in Desktops, WorkFails(d) PROVE LockIsReleased'
  BY <1>16, FailureStep, ReleaseOfStep DEF Goes, Holding
<1>17. ASSUME NEW d \in Desktops, Cleaned(d) PROVE LockIsReleased'
  <2>1. lock = job[d].id
    BY <1>17, CleanedStep DEF HoldersOwnTheLock, Holding
  <2> QED
    BY <1>17, <2>1, CleanedStep DEF LockIsReleased
<1>18. ASSUME NEW d \in Desktops, CleanupFails(d) PROVE LockIsReleased'
  <2>1. lock = job[d].id
    BY <1>18, CleanupFailsStep DEF HoldersOwnTheLock, Holding
  <2> QED
    BY <1>18, <2>1, CleanupFailsStep DEF LockIsReleased
<1>19. ASSUME NEW d \in Desktops, Streamed(d) PROVE LockIsReleased'
  BY <1>19, StreamedStep, ReleaseOfStep DEF Goes, Holding
<1>20. ASSUME NEW d \in Desktops, StreamCancelled(d) PROVE LockIsReleased'
  BY <1>20, StreamCancelledStep, ReleaseOfStep DEF Goes, Holding
<1>21. ASSUME NEW d \in Desktops, DownloadFails(d) PROVE LockIsReleased'
  BY <1>21, DownloadFailsStep, ReleaseOfStep DEF Goes, Holding
<1>22. ASSUME NEW d \in Desktops, Saved(d) PROVE LockIsReleased'
  BY <1>22, SaveStep, ReleaseOfStep DEF Goes, Holding
<1>23. ASSUME NEW d \in Desktops, Removed(d) PROVE LockIsReleased'
  BY <1>23, RemovedStep, ReleaseOfStep DEF Goes, Holding
<1>24. ASSUME NEW d \in Desktops, RemovalFails(d) PROVE LockIsReleased'
  BY <1>24, RemovalFailsStep, ReleaseOfStep DEF Goes, Holding
<1>25. ASSUME NEW d \in Desktops, Return(d) PROVE LockIsReleased'
  BY <1>25, ReturnStep, ReleaseOfStep DEF Goes, Holding
<1>26. ASSUME NEW d \in Desktops, Reply(d) PROVE LockIsReleased'
  BY <1>26, ReplyStep, ReleaseOfStep DEF Goes, Holding
<1>27. ASSUME NEW d \in Desktops, Crash(d) PROVE LockIsReleased'
  BY <1>27, CrashStep, ReleaseOfStep DEF Goes, Holding
<1>28. ASSUME RemoveLockByHand PROVE LockIsReleased'
  BY <1>28 DEF RemoveLockByHand, LockIsReleased, Holding, HoldersOwnTheLock, boundVars
<1>29. ASSUME UNCHANGED vars PROVE LockIsReleased'
  BY <1>29 DEF vars, LockIsReleased, Holding, HoldersOwnTheLock, boundVars
<1> QED
  BY <1>1, <1>2, <1>3, <1>4, <1>5, <1>6, <1>7, <1>8, <1>9, <1>10, <1>11, <1>12, <1>13,
     <1>14, <1>15, <1>16, <1>17, <1>18, <1>19, <1>20, <1>21, <1>22, <1>23, <1>24,
     <1>25, <1>26, <1>27, <1>28, <1>29 DEF Next, Step

\* What a step of one desktop must do to keep NoEmptyPromise.
LEMMA PromiseOfStep ==
  ASSUME NoEmptyPromise, NEW d \in Desktops,
         \A e \in Desktops \ {d} : /\ screen'[e] = screen[e]
                                   /\ registry'[e] = registry[e]
                                   /\ job'[e].phase = job[e].phase,
         screen'[d].asked /\ ~ screen'[d].cancelling =>
            registry'[d] = "cancelled" \/ job'[d].phase = "replied"
  PROVE  NoEmptyPromise'
BY DEF NoEmptyPromise

\* A step that touches neither the screen nor the registry.
LEMMA PromiseOfQuietStep ==
  ASSUME NoEmptyPromise, NEW d \in Desktops, OnlyOf(d), screen' = screen,
         registry' = registry, job[d].phase # "replied"
  PROVE  NoEmptyPromise'
BY DEF NoEmptyPromise, OnlyOf, Kept

\* Every step keeps NoEmptyPromise.
LEMMA PromiseStep ==
  TypeOK /\ OutcomeInv /\ NoEmptyPromise /\ [Next]_vars => NoEmptyPromise'
<1> SUFFICES ASSUME TypeOK, OutcomeInv, NoEmptyPromise, [Next]_vars PROVE NoEmptyPromise'
  OBVIOUS
<1>1. ASSUME NEW d \in Desktops, Create(d) PROVE NoEmptyPromise'
  BY <1>1, CreateStep, CreateScreen, PromiseOfStep DEF OnlyOf, Kept, ScreenOnlyOf
<1>2. ASSUME NEW d \in Desktops, AskToCancel(d) PROVE NoEmptyPromise'
  BY <1>2, AskScreen, PromiseOfStep DEF ScreenOnlyOf
<1>3. ASSUME NEW d \in Desktops, CancelArrives(d) PROVE NoEmptyPromise'
  <2>1. /\ \A e \in Desktops \ {d} : registry'[e] = registry[e]
        /\ registry[d] # "none" => registry'[d] = "cancelled"
    BY <1>3, CancelScreen DEF TypeOK
  <2> QED
    BY <1>3, <2>1, CancelScreen, PromiseOfStep DEF ScreenOnlyOf
<1>4. ASSUME NEW d \in Desktops, DeliverNote(d) PROVE NoEmptyPromise'
  BY <1>4, DeliverScreen, PromiseOfStep DEF ScreenOnlyOf, NoEmptyPromise
<1>5. ASSUME NEW d \in Desktops, Register(d) PROVE NoEmptyPromise'
  <2>1. ~ (screen[d].asked /\ ~ screen[d].cancelling)
    BY <1>5, RegisterStep DEF NoEmptyPromise
  <2>2. \A e \in Desktops \ {d} : registry'[e] = registry[e]
    BY <1>5, RegisterStep DEF TypeOK
  <2> QED
    BY <1>5, <2>1, <2>2, RegisterStep, PromiseOfStep DEF Goes, OnlyOf, Kept
<1>6. ASSUME NEW d \in Desktops, Connected(d) PROVE NoEmptyPromise'
  BY <1>6, ConnectedStep, PromiseOfQuietStep DEF Goes
<1>7. ASSUME NEW d \in Desktops, Prepared(d) PROVE NoEmptyPromise'
  BY <1>7, PreparedStep, PromiseOfQuietStep DEF Goes
<1>8. ASSUME NEW d \in Desktops, GiveUp(d) PROVE NoEmptyPromise'
  BY <1>8, GiveUpStep, PromiseOfQuietStep DEF Goes
<1>9. ASSUME NEW d \in Desktops, Locked(d) PROVE NoEmptyPromise'
  BY <1>9, LockedStep, PromiseOfQuietStep DEF Goes
<1>10. ASSUME NEW d \in Desktops, LockHeld(d) PROVE NoEmptyPromise'
  BY <1>10, LockHeldStep, PromiseOfQuietStep DEF Goes
<1>11. ASSUME NEW d \in Desktops, LockUnanswered(d) PROVE NoEmptyPromise'
  BY <1>11, LockUnansweredStep, PromiseOfQuietStep DEF Goes
<1>12. ASSUME NEW d \in Desktops, Archived(d) PROVE NoEmptyPromise'
  BY <1>12, ArchivedStep, PromiseOfQuietStep DEF Goes
<1>13. ASSUME NEW d \in Desktops, Packed(d) PROVE NoEmptyPromise'
  BY <1>13, PackedStep, PromiseOfQuietStep DEF Goes
<1>14. ASSUME NEW d \in Desktops, Summed(d) PROVE NoEmptyPromise'
  BY <1>14, SummedStep, PromiseOfQuietStep DEF Goes
<1>15. ASSUME NEW d \in Desktops, SumFindsNothing(d) PROVE NoEmptyPromise'
  BY <1>15, FailureStep, PromiseOfQuietStep DEF Goes
<1>16. ASSUME NEW d \in Desktops, WorkFails(d) PROVE NoEmptyPromise'
  BY <1>16, FailureStep, PromiseOfQuietStep DEF Goes
<1>17. ASSUME NEW d \in Desktops, Cleaned(d) PROVE NoEmptyPromise'
  BY <1>17, CleanedStep, PromiseOfQuietStep DEF Goes
<1>18. ASSUME NEW d \in Desktops, CleanupFails(d) PROVE NoEmptyPromise'
  BY <1>18, CleanupFailsStep, PromiseOfQuietStep DEF Goes
<1>19. ASSUME NEW d \in Desktops, Streamed(d) PROVE NoEmptyPromise'
  BY <1>19, StreamedStep, PromiseOfQuietStep DEF Goes
<1>20. ASSUME NEW d \in Desktops, StreamCancelled(d) PROVE NoEmptyPromise'
  BY <1>20, StreamCancelledStep, PromiseOfQuietStep DEF Goes
<1>21. ASSUME NEW d \in Desktops, DownloadFails(d) PROVE NoEmptyPromise'
  BY <1>21, DownloadFailsStep, PromiseOfQuietStep DEF Goes
<1>22. ASSUME NEW d \in Desktops, Saved(d) PROVE NoEmptyPromise'
  BY <1>22, SaveStep, PromiseOfQuietStep DEF Goes
<1>23. ASSUME NEW d \in Desktops, Removed(d) PROVE NoEmptyPromise'
  BY <1>23, RemovedStep, PromiseOfQuietStep DEF Goes
<1>24. ASSUME NEW d \in Desktops, RemovalFails(d) PROVE NoEmptyPromise'
  BY <1>24, RemovalFailsStep, PromiseOfQuietStep DEF Goes
<1>25. ASSUME NEW d \in Desktops, Return(d) PROVE NoEmptyPromise'
  BY <1>25, ReturnStep, PromiseOfStep DEF Goes, OnlyOf, Kept, NoEmptyPromise, TypeOK
<1>26. ASSUME NEW d \in Desktops, Reply(d) PROVE NoEmptyPromise'
  <2>1. job[d].outcome \in {"saved", "cancelled", "failed"}
    BY <1>26, ReplyStep DEF OutcomeInv, OutcomesOf
  <2> QED
    BY <1>26, <2>1, ReplyStep, ReplyScreen, PromiseOfStep DEF OnlyOf, Kept, ScreenOnlyOf
<1>27. ASSUME NEW d \in Desktops, Crash(d) PROVE NoEmptyPromise'
  <2>1. ~ EmptyRun.asked
    BY DEF EmptyRun
  <2> QED
    BY <1>27, <2>1, CrashStep, PromiseOfStep DEF OnlyOf, Kept, TypeOK
<1>28. ASSUME RemoveLockByHand PROVE NoEmptyPromise'
  BY <1>28 DEF RemoveLockByHand, NoEmptyPromise
<1>29. ASSUME UNCHANGED vars PROVE NoEmptyPromise'
  BY <1>29 DEF vars, NoEmptyPromise
<1> QED
  BY <1>1, <1>2, <1>3, <1>4, <1>5, <1>6, <1>7, <1>8, <1>9, <1>10, <1>11, <1>12, <1>13,
     <1>14, <1>15, <1>16, <1>17, <1>18, <1>19, <1>20, <1>21, <1>22, <1>23, <1>24,
     <1>25, <1>26, <1>27, <1>28, <1>29 DEF Next, Step

\* What a step of one desktop must do to keep SumInv.
LEMMA SumOfStep ==
  ASSUME TypeOK, SumInv, NEW d \in Desktops, OnlyOf(d),
         \A e \in Desktops \ {d} : job[e].phase = "summing" =>
            archive'[job[e].second] \in {archive[job[e].second], NoFile},
         job'[d].phase = "summing" =>
            archive'[job'[d].second] \in {NoFile, Whole(job'[d].id)},
         job'[d].outcome = "made" => job'[d].sum = Whole(job'[d].id)
  PROVE  SumInv'
BY DEF SumInv, OnlyOf, Kept

\* A step that leaves the archives alone, and does not make one.
LEMMA SumOfQuietStep ==
  ASSUME TypeOK, SumInv, NEW d \in Desktops, OnlyOf(d), archive' = archive,
         job'[d].phase # "summing",
         job'[d].outcome = "made" => /\ job[d].outcome = "made"
                                     /\ job'[d].sum = job[d].sum
                                     /\ job'[d].id = job[d].id
  PROVE  SumInv'
BY DEF SumInv, OnlyOf, Kept

\* While a run holds the lock no other sums an archive.
LEMMA SumsAlone ==
  ASSUME IdInv, HoldersOwnTheLock, NEW d \in Desktops, Holding(d)
  PROVE  \A e \in Desktops \ {d} : job[e].phase # "summing"
BY DEF IdInv, HoldersOwnTheLock, Holding

\* Every step keeps SumInv: the holder of the lock is the only one who packs.
LEMMA SumStep ==
  TypeOK /\ OutcomeInv /\ IdInv /\ HoldersOwnTheLock /\ SumInv /\ [Next]_vars => SumInv'
<1> SUFFICES ASSUME TypeOK, OutcomeInv, IdInv, HoldersOwnTheLock, SumInv, [Next]_vars
             PROVE  SumInv'
  OBVIOUS
<1>1. ASSUME NEW d \in Desktops, Create(d) PROVE SumInv'
  BY <1>1, CreateStep, SumOfQuietStep DEF Goes
<1>2. ASSUME NEW d \in Desktops, AskToCancel(d) PROVE SumInv'
  BY <1>2, AskScreen DEF SumInv
<1>3. ASSUME NEW d \in Desktops, CancelArrives(d) PROVE SumInv'
  BY <1>3, CancelScreen DEF SumInv
<1>4. ASSUME NEW d \in Desktops, DeliverNote(d) PROVE SumInv'
  BY <1>4, DeliverScreen DEF SumInv
<1>5. ASSUME NEW d \in Desktops, Register(d) PROVE SumInv'
  BY <1>5, RegisterStep, SumOfQuietStep DEF Goes
<1>6. ASSUME NEW d \in Desktops, Connected(d) PROVE SumInv'
  BY <1>6, ConnectedStep, SumOfQuietStep DEF Goes, OutcomeInv, OutcomesOf
<1>7. ASSUME NEW d \in Desktops, Prepared(d) PROVE SumInv'
  BY <1>7, PreparedStep, SumOfQuietStep DEF Goes
<1>8. ASSUME NEW d \in Desktops, GiveUp(d) PROVE SumInv'
  BY <1>8, GiveUpStep, SumOfQuietStep DEF Goes
<1>9. ASSUME NEW d \in Desktops, Locked(d) PROVE SumInv'
  BY <1>9, LockedStep, SumOfQuietStep DEF Goes
<1>10. ASSUME NEW d \in Desktops, LockHeld(d) PROVE SumInv'
  BY <1>10, LockHeldStep, SumOfQuietStep DEF Goes
<1>11. ASSUME NEW d \in Desktops, LockUnanswered(d) PROVE SumInv'
  BY <1>11, LockUnansweredStep, SumOfQuietStep DEF Goes
<1>12. ASSUME NEW d \in Desktops, Archived(d) PROVE SumInv'
  BY <1>12, ArchivedStep, SumOfQuietStep DEF Goes
<1>13. ASSUME NEW d \in Desktops, Packed(d) PROVE SumInv'
  <2>1. \A e \in Desktops \ {d} : job[e].phase # "summing"
    BY <1>13, PackedStep, SumsAlone DEF Holding
  <2>2. archive'[job[d].second] = Whole(job[d].id)
    BY <1>13, PackedStep, JobOfRecord DEF TypeOK
  <2>3. job'[d].outcome # "made"
    BY <1>13, PackedStep DEF Goes, OutcomeInv, OutcomesOf
  <2> QED
    BY <1>13, <2>1, <2>2, <2>3, PackedStep, SumOfStep DEF Goes
<1>14. ASSUME NEW d \in Desktops, Summed(d) PROVE SumInv'
  <2>1. archive[job[d].second] = Whole(job[d].id)
    BY <1>14, SummedStep DEF SumInv
  <2> QED
    BY <1>14, <2>1, SummedStep, SumOfStep
<1>15. ASSUME NEW d \in Desktops, SumFindsNothing(d) PROVE SumInv'
  <2>1. \A e \in Desktops \ {d} : job[e].phase # "summing"
    BY <1>15, FailureStep, SumsAlone DEF Holding
  <2> QED
    BY <1>15, <2>1, FailureStep, SumOfStep DEF Goes
<1>16. ASSUME NEW d \in Desktops, WorkFails(d) PROVE SumInv'
  <2>1. \A e \in Desktops \ {d} : job[e].phase # "summing"
    BY <1>16, FailureStep, SumsAlone DEF Holding
  <2> QED
    BY <1>16, <2>1, FailureStep, SumOfStep DEF Goes
<1>17. ASSUME NEW d \in Desktops, Cleaned(d) PROVE SumInv'
  <2>1. \A e \in Desktops \ {d} : job[e].phase # "summing"
    BY <1>17, CleanedStep, SumsAlone DEF Holding
  <2>2. job[d].outcome = "made" => job[d].sum = Whole(job[d].id)
    BY DEF SumInv
  <2> QED
    BY <1>17, <2>1, <2>2, CleanedStep, SumOfStep DEF Goes
<1>18. ASSUME NEW d \in Desktops, CleanupFails(d) PROVE SumInv'
  <2>1. \A e \in Desktops \ {d} : job[e].phase # "summing"
    BY <1>18, CleanupFailsStep, SumsAlone DEF Holding
  <2>2. job[d].outcome = "made" => job[d].sum = Whole(job[d].id)
    BY DEF SumInv
  <2> QED
    BY <1>18, <2>1, <2>2, CleanupFailsStep, SumOfStep DEF Goes
<1>19. ASSUME NEW d \in Desktops, Streamed(d) PROVE SumInv'
  BY <1>19, StreamedStep, SumOfQuietStep DEF Goes
<1>20. ASSUME NEW d \in Desktops, StreamCancelled(d) PROVE SumInv'
  BY <1>20, StreamCancelledStep, SumOfQuietStep DEF Goes
<1>21. ASSUME NEW d \in Desktops, DownloadFails(d) PROVE SumInv'
  BY <1>21, DownloadFailsStep, SumOfQuietStep DEF Goes
<1>22. ASSUME NEW d \in Desktops, Saved(d) PROVE SumInv'
  BY <1>22, SaveStep, SumOfQuietStep DEF Goes
<1>23. ASSUME NEW d \in Desktops, Removed(d) PROVE SumInv'
  <2>1. \A s \in Seconds : archive'[s] \in {archive[s], NoFile}
    BY <1>23, RemovedStep, JobOfRecord DEF TypeOK
  <2>2. job'[d].outcome # "made" /\ job'[d].phase # "summing"
    BY <1>23, RemovedStep DEF Goes, OutcomeInv, OutcomesOf
  <2> QED
    BY <1>23, <2>1, <2>2, RemovedStep, JobOfRecord, SumOfStep DEF Goes
<1>24. ASSUME NEW d \in Desktops, RemovalFails(d) PROVE SumInv'
  <2>1. \A s \in Seconds : archive'[s] \in {archive[s], NoFile}
    BY <1>24, RemovalFailsStep, JobOfRecord DEF TypeOK
  <2>2. job'[d].outcome # "made" /\ job'[d].phase # "summing"
    BY <1>24, RemovalFailsStep DEF Goes, OutcomeInv, OutcomesOf
  <2> QED
    BY <1>24, <2>1, <2>2, RemovalFailsStep, JobOfRecord, SumOfStep DEF Goes
<1>25. ASSUME NEW d \in Desktops, Return(d) PROVE SumInv'
  BY <1>25, ReturnStep, SumOfQuietStep DEF Goes
<1>26. ASSUME NEW d \in Desktops, Reply(d) PROVE SumInv'
  BY <1>26, ReplyStep, SumOfQuietStep DEF Goes
<1>27. ASSUME NEW d \in Desktops, Crash(d) PROVE SumInv'
  BY <1>27, CrashStep, SumOfQuietStep DEF Goes
<1>28. ASSUME RemoveLockByHand PROVE SumInv'
  BY <1>28 DEF RemoveLockByHand, SumInv, boundVars
<1>29. ASSUME UNCHANGED vars PROVE SumInv'
  BY <1>29 DEF vars, SumInv, boundVars
<1> QED
  BY <1>1, <1>2, <1>3, <1>4, <1>5, <1>6, <1>7, <1>8, <1>9, <1>10, <1>11, <1>12, <1>13,
     <1>14, <1>15, <1>16, <1>17, <1>18, <1>19, <1>20, <1>21, <1>22, <1>23, <1>24,
     <1>25, <1>26, <1>27, <1>28, <1>29 DEF Next, Step

\* What a step of one desktop must do to keep SavedInv.
LEMMA SavedOfStep ==
  ASSUME SavedInv, NEW d \in Desktops, OnlyOf(d), ScreenOnlyOf(d),
         \A e \in Desktops \ {d} : disk'[e] = disk[e],
         job'[d].outcome = "saved" => disk'[d] = Whole(job'[d].id),
         screen'[d].shown = "saved" => disk'[d] = Whole(job'[d].id)
  PROVE  SavedInv'
BY DEF SavedInv, OnlyOf, Kept, ScreenOnlyOf

\* A step of a run that is under way, other than the one that saves the file.
LEMMA SavedOfQuietStep ==
  ASSUME SavedInv, ScreenInv, NEW d \in Desktops, OnlyOf(d), disk' = disk,
         screen' = screen, job[d].phase # "idle", job'[d].id = job[d].id,
         job'[d].outcome = "saved" => job[d].outcome = "saved"
  PROVE  SavedInv'
BY DEF SavedInv, ScreenInv, OnlyOf, Kept

\* Every step keeps SavedInv.
LEMMA SavedStep ==
  TypeOK /\ OutcomeInv /\ ScreenInv /\ SumInv /\ SavedInv /\ [Next]_vars => SavedInv'
<1> SUFFICES ASSUME TypeOK, OutcomeInv, ScreenInv, SumInv, SavedInv, [Next]_vars
             PROVE  SavedInv'
  OBVIOUS
<1>1. ASSUME NEW d \in Desktops, Create(d) PROVE SavedInv'
  BY <1>1, CreateStep, CreateScreen, SavedOfStep
<1>2. ASSUME NEW d \in Desktops, AskToCancel(d) PROVE SavedInv'
  BY <1>2, AskScreen DEF SavedInv, ScreenOnlyOf
<1>3. ASSUME NEW d \in Desktops, CancelArrives(d) PROVE SavedInv'
  BY <1>3, CancelScreen DEF SavedInv, ScreenOnlyOf
<1>4. ASSUME NEW d \in Desktops, DeliverNote(d) PROVE SavedInv'
  BY <1>4, DeliverScreen DEF SavedInv, ScreenOnlyOf
<1>5. ASSUME NEW d \in Desktops, Register(d) PROVE SavedInv'
  BY <1>5, RegisterStep, SavedOfQuietStep DEF Goes
<1>6. ASSUME NEW d \in Desktops, Connected(d) PROVE SavedInv'
  BY <1>6, ConnectedStep, SavedOfQuietStep DEF Goes
<1>7. ASSUME NEW d \in Desktops, Prepared(d) PROVE SavedInv'
  BY <1>7, PreparedStep, SavedOfQuietStep DEF Goes
<1>8. ASSUME NEW d \in Desktops, GiveUp(d) PROVE SavedInv'
  BY <1>8, GiveUpStep, SavedOfQuietStep DEF Goes
<1>9. ASSUME NEW d \in Desktops, Locked(d) PROVE SavedInv'
  BY <1>9, LockedStep, SavedOfQuietStep DEF Goes
<1>10. ASSUME NEW d \in Desktops, LockHeld(d) PROVE SavedInv'
  BY <1>10, LockHeldStep, SavedOfQuietStep DEF Goes
<1>11. ASSUME NEW d \in Desktops, LockUnanswered(d) PROVE SavedInv'
  BY <1>11, LockUnansweredStep, SavedOfQuietStep DEF Goes
<1>12. ASSUME NEW d \in Desktops, Archived(d) PROVE SavedInv'
  BY <1>12, ArchivedStep, SavedOfQuietStep DEF Goes
<1>13. ASSUME NEW d \in Desktops, Packed(d) PROVE SavedInv'
  BY <1>13, PackedStep, SavedOfQuietStep DEF Goes
<1>14. ASSUME NEW d \in Desktops, Summed(d) PROVE SavedInv'
  BY <1>14, SummedStep, SavedOfQuietStep DEF Goes
<1>15. ASSUME NEW d \in Desktops, SumFindsNothing(d) PROVE SavedInv'
  BY <1>15, FailureStep, SavedOfQuietStep DEF Goes
<1>16. ASSUME NEW d \in Desktops, WorkFails(d) PROVE SavedInv'
  BY <1>16, FailureStep, SavedOfQuietStep DEF Goes
<1>17. ASSUME NEW d \in Desktops, Cleaned(d) PROVE SavedInv'
  BY <1>17, CleanedStep, SavedOfQuietStep DEF Goes
<1>18. ASSUME NEW d \in Desktops, CleanupFails(d) PROVE SavedInv'
  BY <1>18, CleanupFailsStep, SavedOfQuietStep DEF Goes
<1>19. ASSUME NEW d \in Desktops, Streamed(d) PROVE SavedInv'
  BY <1>19, StreamedStep, SavedOfQuietStep DEF Goes
<1>20. ASSUME NEW d \in Desktops, StreamCancelled(d) PROVE SavedInv'
  BY <1>20, StreamCancelledStep, SavedOfQuietStep DEF Goes
<1>21. ASSUME NEW d \in Desktops, DownloadFails(d) PROVE SavedInv'
  BY <1>21, DownloadFailsStep, SavedOfQuietStep DEF Goes
<1>22. ASSUME NEW d \in Desktops, Saved(d) PROVE SavedInv'
  <2>1. job[d].sum = Whole(job[d].id)
    BY <1>22, SaveStep DEF OutcomeInv, OutcomesOf, SumInv
  <2>2. screen[d].shown # "saved"
    BY <1>22, SaveStep DEF ScreenInv
  <2>3. CASE disk' = disk /\ job'[d].outcome = "failed"
    BY <1>22, <2>2, <2>3, SaveStep, SavedOfStep DEF Goes, ScreenOnlyOf
  <2>4. CASE disk' = [disk EXCEPT ![d] = job[d].reading] /\ job[d].reading = job[d].sum
    <3>1. disk'[d] = Whole(job[d].id) /\ \A e \in Desktops \ {d} : disk'[e] = disk[e]
      BY <2>1, <2>4 DEF TypeOK
    <3> QED
      BY <1>22, <2>2, <3>1, SaveStep, SavedOfStep DEF Goes, ScreenOnlyOf
  <2> QED
    BY <1>22, <2>3, <2>4, SaveStep DEF Goes
<1>23. ASSUME NEW d \in Desktops, Removed(d) PROVE SavedInv'
  BY <1>23, RemovedStep, SavedOfQuietStep DEF Goes
<1>24. ASSUME NEW d \in Desktops, RemovalFails(d) PROVE SavedInv'
  BY <1>24, RemovalFailsStep, SavedOfQuietStep DEF Goes
<1>25. ASSUME NEW d \in Desktops, Return(d) PROVE SavedInv'
  BY <1>25, ReturnStep, SavedOfQuietStep DEF Goes
<1>26. ASSUME NEW d \in Desktops, Reply(d) PROVE SavedInv'
  <2>1. job[d].outcome \in {"saved", "cancelled", "failed"}
    BY <1>26, ReplyStep DEF OutcomeInv, OutcomesOf
  <2>2. job[d].outcome = "saved" => disk[d] = Whole(job[d].id)
    BY DEF SavedInv
  <2> QED
    BY <1>26, <2>1, <2>2, ReplyStep, ReplyScreen, SavedOfStep
<1>27. ASSUME NEW d \in Desktops, Crash(d) PROVE SavedInv'
  <2>1. EmptyRun.shown = "none"
    BY DEF EmptyRun
  <2>2. ScreenOnlyOf(d) /\ screen'[d] = EmptyRun
    BY <1>27, CrashStep, ScreenStep
  <2> QED
    BY <1>27, <2>1, <2>2, CrashStep, SavedOfStep
<1>28. ASSUME RemoveLockByHand PROVE SavedInv'
  BY <1>28 DEF RemoveLockByHand, SavedInv, boundVars
<1>29. ASSUME UNCHANGED vars PROVE SavedInv'
  BY <1>29 DEF vars, SavedInv, boundVars
<1> QED
  BY <1>1, <1>2, <1>3, <1>4, <1>5, <1>6, <1>7, <1>8, <1>9, <1>10, <1>11, <1>12, <1>13,
     <1>14, <1>15, <1>16, <1>17, <1>18, <1>19, <1>20, <1>21, <1>22, <1>23, <1>24,
     <1>25, <1>26, <1>27, <1>28, <1>29 DEF Next, Step

\* What a step of one desktop must do to keep LeftInv.
LEMMA LeftOfStep ==
  ASSUME LeftInv, NEW d \in Desktops, OnlyOf(d), ScreenOnlyOf(d), runs <= runs',
         runs \in Nat, runs' \in Nat,
         \A s \in Seconds : archive'[s].by \in Nat /\ archive'[s].by <= runs',
         \A e \in Desktops \ {d} : LeftArchive(e)' => LeftArchive(e),
         job'[d].outcome = "saved" /\ job'[d].phase # "removing" /\ LeftArchive(d)'
            => job'[d].warned,
         screen'[d].shown = "saved" /\ LeftArchive(d)' => screen'[d].note
  PROVE  LeftInv'
BY DEF LeftInv, OnlyOf, Kept, ScreenOnlyOf

\* A step of a run that is under way and leaves the archives alone.
LEMMA LeftOfQuietStep ==
  ASSUME LeftInv, ScreenInv, NEW d \in Desktops, OnlyOf(d),
         UNCHANGED <<archive, screen, runs>>, job[d].phase # "idle",
         job'[d].outcome = "saved" /\ job'[d].phase # "removing" =>
            /\ job[d].outcome = "saved"
            /\ job[d].phase # "removing"
            /\ job'[d].id = job[d].id
            /\ job'[d].second = job[d].second
            /\ job'[d].warned = job[d].warned
  PROVE  LeftInv'
BY DEF LeftInv, ScreenInv, LeftArchive, OnlyOf, Kept

\* A step of a run that is under way and writes the archive of its second.
LEMMA LeftOfWriting ==
  ASSUME TypeOK, IdInv, ScreenInv, LeftInv, NEW d \in Desktops, OnlyOf(d),
         UNCHANGED <<screen, runs>>, job[d].phase # "idle",
         NEW a \in Content, a.by \in {0, job[d].id},
         archive' = [archive EXCEPT ![job[d].second] = a],
         job'[d].outcome = "saved" /\ job'[d].phase # "removing" =>
            job'[d].warned \/ ~ LeftArchive(d)'
  PROVE  LeftInv'
<1>1. \A s \in Seconds : archive'[s] \in {archive[s], a}
  BY JobOfRecord DEF TypeOK
<1>2. \A s \in Seconds : archive'[s].by \in Nat /\ archive'[s].by <= runs'
  BY <1>1, JobOfRecord DEF LeftInv, IdInv, TypeOK
<1>3. ASSUME NEW e \in Desktops \ {d}, LeftArchive(e)' PROVE LeftArchive(e)
  <2>1. job'[e].id = job[e].id /\ job'[e].second = job[e].second
    BY DEF OnlyOf, Kept
  <2>2. job[e].id # 0 /\ archive'[job[e].second].by = job[e].id
    BY <1>3, <2>1 DEF LeftArchive
  <2>3. a.by # job[e].id
    BY <2>2 DEF IdInv
  <2>4. archive'[job[e].second] = archive[job[e].second]
    BY <1>1, <2>2, <2>3, JobOfRecord
  <2> QED
    BY <2>2, <2>4 DEF LeftArchive
<1>4. screen'[d].shown # "saved"
  BY DEF ScreenInv
<1> QED
  BY <1>2, <1>3, <1>4, LeftOfStep DEF ScreenOnlyOf, LeftInv, TypeOK

\* The archives after a cleanup, one by one.
LEMMA AfterCleanupIs ==
  ASSUME TypeOK, NEW d \in Desktops, archive' \in {archive, AfterCleanup(d)}
  PROVE  \/ archive' = archive
         \/ archive' = [archive EXCEPT ![job[d].second] = NoFile]
<1>1. [archive EXCEPT ![job[d].second] = archive[job[d].second]] = archive
  BY DEF TypeOK
<1> QED
  BY <1>1 DEF AfterCleanup

\* Whose each file is.
LEMMA FileFacts ==
  ASSUME TypeOK, NEW d \in Desktops
  PROVE  /\ Whole(job[d].id) \in Content /\ Whole(job[d].id).by = job[d].id
         /\ Partial(job[d].id) \in Content /\ Partial(job[d].id).by = job[d].id
         /\ NoFile \in Content /\ NoFile.by = 0
<1>1. job[d].id \in Nat
  BY JobOfRecord
<1>2. ASSUME NEW by \in Nat, NEW whole \in BOOLEAN
      PROVE  [by |-> by, whole |-> whole] \in Content
    BY DEF Content
<1> QED
  BY <1>1, <1>2 DEF Whole, Partial, NoFile

\* Every step keeps LeftInv.
LEMMA LeftStep ==
  TypeOK /\ OutcomeInv /\ IdInv /\ ScreenInv /\ LeftInv /\ [Next]_vars => LeftInv'
<1> SUFFICES ASSUME TypeOK, OutcomeInv, IdInv, ScreenInv, LeftInv, [Next]_vars
             PROVE  LeftInv'
  OBVIOUS
<1>1. ASSUME NEW d \in Desktops, Create(d) PROVE LeftInv'
  <2>1. runs \in Nat /\ runs' \in Nat /\ runs <= runs'
    BY <1>1, CreateStep DEF TypeOK
  <2>2. \A s \in Seconds : archive'[s].by \in Nat /\ archive'[s].by <= runs'
    BY <1>1, <2>1, CreateStep DEF LeftInv
  <2>3. \A e \in Desktops \ {d} : LeftArchive(e)' => LeftArchive(e)
    BY <1>1, CreateStep DEF LeftArchive, OnlyOf, Kept
  <2> QED
    BY <1>1, <2>1, <2>2, <2>3, CreateStep, CreateScreen, LeftOfStep
<1>2. ASSUME NEW d \in Desktops, AskToCancel(d) PROVE LeftInv'
  BY <1>2, AskScreen DEF LeftInv, LeftArchive, ScreenOnlyOf
<1>3. ASSUME NEW d \in Desktops, CancelArrives(d) PROVE LeftInv'
  BY <1>3, CancelScreen DEF LeftInv, LeftArchive, ScreenOnlyOf
<1>4. ASSUME NEW d \in Desktops, DeliverNote(d) PROVE LeftInv'
  BY <1>4, DeliverScreen DEF LeftInv, LeftArchive, ScreenOnlyOf
<1>5. ASSUME NEW d \in Desktops, Register(d) PROVE LeftInv'
  BY <1>5, RegisterStep, LeftOfQuietStep DEF Goes
<1>6. ASSUME NEW d \in Desktops, Connected(d) PROVE LeftInv'
  BY <1>6, ConnectedStep, LeftOfQuietStep DEF Goes, OutcomeInv, OutcomesOf
<1>7. ASSUME NEW d \in Desktops, Prepared(d) PROVE LeftInv'
  BY <1>7, PreparedStep, LeftOfQuietStep DEF Goes
<1>8. ASSUME NEW d \in Desktops, GiveUp(d) PROVE LeftInv'
  BY <1>8, GiveUpStep, LeftOfQuietStep DEF Goes
<1>9. ASSUME NEW d \in Desktops, Locked(d) PROVE LeftInv'
  BY <1>9, LockedStep, LeftOfQuietStep DEF Goes
<1>10. ASSUME NEW d \in Desktops, LockHeld(d) PROVE LeftInv'
  BY <1>10, LockHeldStep, LeftOfQuietStep DEF Goes
<1>11. ASSUME NEW d \in Desktops, LockUnanswered(d) PROVE LeftInv'
  BY <1>11, LockUnansweredStep, LeftOfQuietStep DEF Goes
<1>12. ASSUME NEW d \in Desktops, Archived(d) PROVE LeftInv'
  BY <1>12, ArchivedStep, LeftOfQuietStep DEF Goes
<1>13. ASSUME NEW d \in Desktops, Packed(d) PROVE LeftInv'
  <2>1. job'[d].outcome # "saved"
    BY <1>13, PackedStep DEF Goes, OutcomeInv, OutcomesOf
  <2> QED
    BY <1>13, <2>1, PackedStep, FileFacts, LeftOfWriting DEF Goes
<1>14. ASSUME NEW d \in Desktops, Summed(d) PROVE LeftInv'
  BY <1>14, SummedStep, LeftOfQuietStep DEF Goes
<1>15. ASSUME NEW d \in Desktops, SumFindsNothing(d) PROVE LeftInv'
  <2>1. CASE archive' = archive
    BY <1>15, <2>1, FailureStep, LeftOfQuietStep DEF Goes
  <2>2. CASE archive' # archive
    BY <1>15, <2>2, FailureStep, FileFacts, LeftOfWriting DEF Goes
  <2> QED
    BY <2>1, <2>2
<1>16. ASSUME NEW d \in Desktops, WorkFails(d) PROVE LeftInv'
  <2>1. CASE archive' = archive
    BY <1>16, <2>1, FailureStep, LeftOfQuietStep DEF Goes
  <2>2. CASE archive' # archive
    BY <1>16, <2>2, FailureStep, FileFacts, LeftOfWriting DEF Goes
  <2> QED
    BY <2>1, <2>2
<1>17. ASSUME NEW d \in Desktops, Cleaned(d) PROVE LeftInv'
  <2>1. job'[d].outcome # "saved"
    BY <1>17, CleanedStep DEF Goes, OutcomeInv, OutcomesOf
  <2>2. CASE archive' = archive
    BY <1>17, <2>1, <2>2, CleanedStep, LeftOfQuietStep DEF Goes
  <2>3. CASE archive' = [archive EXCEPT ![job[d].second] = NoFile]
    BY <1>17, <2>1, <2>3, CleanedStep, FileFacts, LeftOfWriting DEF Goes
  <2> QED
    BY <1>17, <2>2, <2>3, CleanedStep, AfterCleanupIs
<1>18. ASSUME NEW d \in Desktops, CleanupFails(d) PROVE LeftInv'
  <2>1. job'[d].outcome # "saved"
    BY <1>18, CleanupFailsStep DEF Goes, OutcomeInv, OutcomesOf
  <2>2. CASE archive' = archive
    BY <1>18, <2>1, <2>2, CleanupFailsStep, LeftOfQuietStep DEF Goes
  <2>3. CASE archive' = [archive EXCEPT ![job[d].second] = NoFile]
    BY <1>18, <2>1, <2>3, CleanupFailsStep, FileFacts, LeftOfWriting DEF Goes
  <2> QED
    BY <1>18, <2>2, <2>3, CleanupFailsStep, AfterCleanupIs
<1>19. ASSUME NEW d \in Desktops, Streamed(d) PROVE LeftInv'
  BY <1>19, StreamedStep, LeftOfQuietStep DEF Goes
<1>20. ASSUME NEW d \in Desktops, StreamCancelled(d) PROVE LeftInv'
  BY <1>20, StreamCancelledStep, LeftOfQuietStep DEF Goes
<1>21. ASSUME NEW d \in Desktops, DownloadFails(d) PROVE LeftInv'
  BY <1>21, DownloadFailsStep, LeftOfQuietStep DEF Goes
<1>22. ASSUME NEW d \in Desktops, Saved(d) PROVE LeftInv'
  BY <1>22, SaveStep, LeftOfQuietStep DEF Goes
<1>23. ASSUME NEW d \in Desktops, Removed(d) PROVE LeftInv'
  <2>1. ~ LeftArchive(d)'
    <3>1. archive'[job[d].second] = NoFile
      BY <1>23, RemovedStep, JobOfRecord DEF TypeOK
    <3> QED
      BY <1>23, <3>1, RemovedStep, FileFacts DEF Goes, LeftArchive
  <2> QED
    BY <1>23, <2>1, RemovedStep, FileFacts, LeftOfWriting DEF Goes
<1>24. ASSUME NEW d \in Desktops, RemovalFails(d) PROVE LeftInv'
  <2>1. CASE archive' = archive
    <3>1. LeftArchive(d)' => LeftArchive(d)
      BY <1>24, <2>1, RemovalFailsStep DEF LeftArchive
    <3>2. \A e \in Desktops \ {d} : LeftArchive(e)' => LeftArchive(e)
      BY <1>24, <2>1, RemovalFailsStep DEF LeftArchive, OnlyOf, Kept
    <3>3. screen'[d].shown # "saved"
      BY <1>24, RemovalFailsStep DEF ScreenInv
    <3> QED
      BY <1>24, <2>1, <3>1, <3>2, <3>3, RemovalFailsStep, LeftOfStep
         DEF ScreenOnlyOf, LeftInv, TypeOK
  <2>2. CASE archive' = [archive EXCEPT ![job[d].second] = NoFile]
    BY <1>24, <2>2, RemovalFailsStep, FileFacts, LeftOfWriting
  <2> QED
    BY <1>24, <2>1, <2>2, RemovalFailsStep
<1>25. ASSUME NEW d \in Desktops, Return(d) PROVE LeftInv'
  BY <1>25, ReturnStep, LeftOfQuietStep DEF Goes
<1>26. ASSUME NEW d \in Desktops, Reply(d) PROVE LeftInv'
  <2>1. job[d].outcome \in {"saved", "cancelled", "failed"}
    BY <1>26, ReplyStep DEF OutcomeInv, OutcomesOf
  <2>2. LeftArchive(d)' => LeftArchive(d)
    BY <1>26, ReplyStep DEF LeftArchive
  <2>3. job[d].outcome = "saved" /\ LeftArchive(d) => job[d].warned
    BY <1>26, ReplyStep DEF LeftInv
  <2>4. \A e \in Desktops \ {d} : LeftArchive(e)' => LeftArchive(e)
    BY <1>26, ReplyStep DEF LeftArchive, OnlyOf, Kept
  <2> QED
    BY <1>26, <2>1, <2>2, <2>3, <2>4, ReplyStep, ReplyScreen, LeftOfStep DEF LeftInv,
       TypeOK
<1>27. ASSUME NEW d \in Desktops, Crash(d) PROVE LeftInv'
  <2>1. EmptyRun.shown = "none"
    BY DEF EmptyRun
  <2>2. ScreenOnlyOf(d) /\ screen'[d] = EmptyRun
    BY <1>27, CrashStep, ScreenStep
  <2>3. \A e \in Desktops \ {d} : LeftArchive(e)' => LeftArchive(e)
    BY <1>27, CrashStep DEF LeftArchive, OnlyOf, Kept
  <2> QED
    BY <1>27, <2>1, <2>2, <2>3, CrashStep, LeftOfStep DEF LeftInv, TypeOK
<1>28. ASSUME RemoveLockByHand PROVE LeftInv'
  BY <1>28 DEF RemoveLockByHand, LeftInv, LeftArchive, boundVars
<1>29. ASSUME UNCHANGED vars PROVE LeftInv'
  BY <1>29 DEF vars, LeftInv, LeftArchive, boundVars
<1> QED
  BY <1>1, <1>2, <1>3, <1>4, <1>5, <1>6, <1>7, <1>8, <1>9, <1>10, <1>11, <1>12, <1>13,
     <1>14, <1>15, <1>16, <1>17, <1>18, <1>19, <1>20, <1>21, <1>22, <1>23, <1>24,
     <1>25, <1>26, <1>27, <1>28, <1>29 DEF Next, Step

\* What a step of one desktop must do to keep KeepInv.
LEMMA KeepOfStep ==
  ASSUME TypeOK, KeepInv, NEW d \in Desktops, OnlyOf(d),
         \A e \in Desktops \ {d} : disk'[e] = disk[e] /\ registry'[e] = registry[e],
         job'[d].phase = "removing" =>
            disk'[d] = job'[d].sum \/ registry'[d] = "cancelled"
  PROVE  KeepInv'
BY DEF KeepInv, OnlyOf, Kept

\* Every step keeps KeepInv.
LEMMA KeepStep == TypeOK /\ KeepInv /\ [Next]_vars => KeepInv'
<1> SUFFICES ASSUME TypeOK, KeepInv, [Next]_vars PROVE KeepInv'
  OBVIOUS
<1>1. ASSUME NEW d \in Desktops, Create(d) PROVE KeepInv'
  BY <1>1, CreateStep, KeepOfStep DEF Goes
<1>2. ASSUME NEW d \in Desktops, AskToCancel(d) PROVE KeepInv'
  BY <1>2, AskScreen DEF KeepInv
<1>3. ASSUME NEW d \in Desktops, CancelArrives(d) PROVE KeepInv'
  <2>1. \A e \in Desktops : registry[e] = "cancelled" => registry'[e] = "cancelled"
    BY <1>3, CancelScreen DEF TypeOK
  <2> QED
    BY <1>3, <2>1, CancelScreen DEF KeepInv
<1>4. ASSUME NEW d \in Desktops, DeliverNote(d) PROVE KeepInv'
  BY <1>4, DeliverScreen DEF KeepInv
<1>5. ASSUME NEW d \in Desktops, Register(d) PROVE KeepInv'
  <2>1. \A e \in Desktops \ {d} : registry'[e] = registry[e]
    BY <1>5, RegisterStep DEF TypeOK
  <2> QED
    BY <1>5, <2>1, RegisterStep, KeepOfStep DEF Goes
<1>6. ASSUME NEW d \in Desktops, Connected(d) PROVE KeepInv'
  BY <1>6, ConnectedStep, KeepOfStep DEF Goes
<1>7. ASSUME NEW d \in Desktops, Prepared(d) PROVE KeepInv'
  BY <1>7, PreparedStep, KeepOfStep DEF Goes
<1>8. ASSUME NEW d \in Desktops, GiveUp(d) PROVE KeepInv'
  BY <1>8, GiveUpStep, KeepOfStep DEF Goes
<1>9. ASSUME NEW d \in Desktops, Locked(d) PROVE KeepInv'
  BY <1>9, LockedStep, KeepOfStep DEF Goes
<1>10. ASSUME NEW d \in Desktops, LockHeld(d) PROVE KeepInv'
  BY <1>10, LockHeldStep, KeepOfStep DEF Goes
<1>11. ASSUME NEW d \in Desktops, LockUnanswered(d) PROVE KeepInv'
  BY <1>11, LockUnansweredStep, KeepOfStep DEF Goes
<1>12. ASSUME NEW d \in Desktops, Archived(d) PROVE KeepInv'
  BY <1>12, ArchivedStep, KeepOfStep DEF Goes
<1>13. ASSUME NEW d \in Desktops, Packed(d) PROVE KeepInv'
  BY <1>13, PackedStep, KeepOfStep DEF Goes
<1>14. ASSUME NEW d \in Desktops, Summed(d) PROVE KeepInv'
  BY <1>14, SummedStep, KeepOfStep DEF Goes
<1>15. ASSUME NEW d \in Desktops, SumFindsNothing(d) PROVE KeepInv'
  BY <1>15, FailureStep, KeepOfStep DEF Goes
<1>16. ASSUME NEW d \in Desktops, WorkFails(d) PROVE KeepInv'
  BY <1>16, FailureStep, KeepOfStep DEF Goes
<1>17. ASSUME NEW d \in Desktops, Cleaned(d) PROVE KeepInv'
  BY <1>17, CleanedStep, KeepOfStep DEF Goes
<1>18. ASSUME NEW d \in Desktops, CleanupFails(d) PROVE KeepInv'
  BY <1>18, CleanupFailsStep, KeepOfStep DEF Goes
<1>19. ASSUME NEW d \in Desktops, Streamed(d) PROVE KeepInv'
  BY <1>19, StreamedStep, KeepOfStep DEF Goes
<1>20. ASSUME NEW d \in Desktops, StreamCancelled(d) PROVE KeepInv'
  BY <1>20, StreamCancelledStep, KeepOfStep DEF Goes
<1>21. ASSUME NEW d \in Desktops, DownloadFails(d) PROVE KeepInv'
  BY <1>21, DownloadFailsStep, KeepOfStep DEF Goes
<1>22. ASSUME NEW d \in Desktops, Saved(d) PROVE KeepInv'
  <2>1. CASE disk' = disk /\ Goes(d, "returning", "failed")
    BY <1>22, <2>1, SaveStep, KeepOfStep DEF Goes
  <2>2. CASE Goes(d, "removing", "saved") /\ disk' = [disk EXCEPT ![d] = job[d].reading]
             /\ job[d].reading = job[d].sum
    <3>1. disk'[d] = job[d].sum /\ \A e \in Desktops \ {d} : disk'[e] = disk[e]
      BY <2>2 DEF TypeOK
    <3> QED
      BY <1>22, <2>2, <3>1, SaveStep, KeepOfStep DEF Goes
  <2> QED
    BY <1>22, <2>1, <2>2, SaveStep
<1>23. ASSUME NEW d \in Desktops, Removed(d) PROVE KeepInv'
  BY <1>23, RemovedStep, KeepOfStep DEF Goes
<1>24. ASSUME NEW d \in Desktops, RemovalFails(d) PROVE KeepInv'
  BY <1>24, RemovalFailsStep, KeepOfStep DEF Goes
<1>25. ASSUME NEW d \in Desktops, Return(d) PROVE KeepInv'
  <2>1. \A e \in Desktops \ {d} : registry'[e] = registry[e]
    BY <1>25, ReturnStep DEF TypeOK
  <2> QED
    BY <1>25, <2>1, ReturnStep, KeepOfStep DEF Goes
<1>26. ASSUME NEW d \in Desktops, Reply(d) PROVE KeepInv'
  BY <1>26, ReplyStep, KeepOfStep DEF Goes
<1>27. ASSUME NEW d \in Desktops, Crash(d) PROVE KeepInv'
  <2>1. \A e \in Desktops \ {d} : registry'[e] = registry[e]
    BY <1>27, CrashStep DEF TypeOK
  <2> QED
    BY <1>27, <2>1, CrashStep, KeepOfStep DEF Goes
<1>28. ASSUME RemoveLockByHand PROVE KeepInv'
  BY <1>28 DEF RemoveLockByHand, KeepInv, boundVars
<1>29. ASSUME UNCHANGED vars PROVE KeepInv'
  BY <1>29 DEF vars, KeepInv, boundVars
<1> QED
  BY <1>1, <1>2, <1>3, <1>4, <1>5, <1>6, <1>7, <1>8, <1>9, <1>10, <1>11, <1>12, <1>13,
     <1>14, <1>15, <1>16, <1>17, <1>18, <1>19, <1>20, <1>21, <1>22, <1>23, <1>24,
     <1>25, <1>26, <1>27, <1>28, <1>29 DEF Next, Step


\* A step of one run leaves the others alone.
LEMMA StepOnlyOf ==
  ASSUME TypeOK, NEW d \in Desktops, Step(d)
  PROVE  OnlyOf(d)
<1>1. CASE Register(d)
  BY <1>1, RegisterStep DEF Goes
<1>2. CASE Connected(d)
  BY <1>2, ConnectedStep DEF Goes
<1>3. CASE Prepared(d)
  BY <1>3, PreparedStep DEF Goes
<1>4. CASE GiveUp(d)
  BY <1>4, GiveUpStep DEF Goes
<1>5. CASE Locked(d)
  BY <1>5, LockedStep DEF Goes
<1>6. CASE LockHeld(d)
  BY <1>6, LockHeldStep DEF Goes
<1>7. CASE LockUnanswered(d)
  BY <1>7, LockUnansweredStep DEF Goes
<1>8. CASE Archived(d)
  BY <1>8, ArchivedStep DEF Goes
<1>9. CASE Packed(d)
  BY <1>9, PackedStep DEF Goes
<1>10. CASE Summed(d)
  BY <1>10, SummedStep DEF Goes
<1>11. CASE SumFindsNothing(d)
  BY <1>11, FailureStep DEF Goes
<1>12. CASE WorkFails(d)
  BY <1>12, FailureStep DEF Goes
<1>13. CASE Cleaned(d)
  BY <1>13, CleanedStep DEF Goes
<1>14. CASE CleanupFails(d)
  BY <1>14, CleanupFailsStep DEF Goes
<1>15. CASE Streamed(d)
  BY <1>15, StreamedStep DEF Goes
<1>16. CASE StreamCancelled(d)
  BY <1>16, StreamCancelledStep DEF Goes
<1>17. CASE DownloadFails(d)
  BY <1>17, DownloadFailsStep DEF Goes
<1>18. CASE Saved(d)
  BY <1>18, SaveStep DEF Goes
<1>19. CASE Removed(d)
  BY <1>19, RemovedStep DEF Goes
<1>20. CASE RemovalFails(d)
  BY <1>20, RemovalFailsStep DEF Goes
<1>21. CASE Return(d)
  BY <1>21, ReturnStep DEF Goes
<1>22. CASE Reply(d)
  BY <1>22, ReplyStep DEF Goes
<1> QED
  BY <1>1, <1>2, <1>3, <1>4, <1>5, <1>6, <1>7, <1>8, <1>9, <1>10, <1>11, <1>12, <1>13,
     <1>14, <1>15, <1>16, <1>17, <1>18, <1>19, <1>20, <1>21, <1>22 DEF Step

LEMMA OtherPhases ==
  ASSUME TypeOK, NEW d \in Desktops, Step(d), archive' # archive
  PROVE  job[d].phase \notin {"downloading", "renaming"}
<1>1. CASE Register(d)
  BY <1>1, RegisterStep
<1>2. CASE Connected(d)
  BY <1>2, ConnectedStep
<1>3. CASE Prepared(d)
  BY <1>3, PreparedStep
<1>4. CASE GiveUp(d)
  BY <1>4, GiveUpStep
<1>5. CASE Locked(d)
  BY <1>5, LockedStep
<1>6. CASE LockHeld(d)
  BY <1>6, LockHeldStep
<1>7. CASE LockUnanswered(d)
  BY <1>7, LockUnansweredStep
<1>8. CASE Archived(d)
  BY <1>8, ArchivedStep
<1>9. CASE Packed(d)
  BY <1>9, PackedStep
<1>10. CASE Summed(d)
  BY <1>10, SummedStep
<1>11. CASE SumFindsNothing(d)
  BY <1>11, FailureStep
<1>12. CASE WorkFails(d)
  BY <1>12, FailureStep
<1>13. CASE Cleaned(d)
  BY <1>13, CleanedStep
<1>14. CASE CleanupFails(d)
  BY <1>14, CleanupFailsStep
<1>15. CASE Streamed(d)
  BY <1>15, StreamedStep
<1>16. CASE StreamCancelled(d)
  BY <1>16, StreamCancelledStep
<1>17. CASE DownloadFails(d)
  BY <1>17, DownloadFailsStep
<1>18. CASE Saved(d)
  BY <1>18, SaveStep
<1>19. CASE Removed(d)
  BY <1>19, RemovedStep
<1>20. CASE RemovalFails(d)
  BY <1>20, RemovalFailsStep
<1>21. CASE Return(d)
  BY <1>21, ReturnStep
<1>22. CASE Reply(d)
  BY <1>22, ReplyStep
<1> QED
  BY <1>1, <1>2, <1>3, <1>4, <1>5, <1>6, <1>7, <1>8, <1>9, <1>10, <1>11, <1>12, <1>13,
     <1>14, <1>15, <1>16, <1>17, <1>18, <1>19, <1>20, <1>21, <1>22 DEF Step

-----------------------------------------------------------------------------
(* The invariant: every part is kept by every step.                         *)

Inv ==
  /\ TypeOK
  /\ OutcomeInv
  /\ IdInv
  /\ ScreenInv
  /\ HoldersOwnTheLock
  /\ LockIsReleased
  /\ NoEmptyPromise
  /\ SumInv
  /\ SavedInv
  /\ LeftInv
  /\ KeepInv

\* The first state has every part of the invariant.
LEMMA InitInv == Init => Inv
<1> SUFFICES ASSUME Init PROVE Inv
  OBVIOUS
<1>1. /\ lock = 0
      /\ archive = [s \in Seconds |-> NoFile]
      /\ \A d \in Desktops : /\ job[d] = IdleJob
                             /\ registry[d] = "none"
                             /\ screen[d] = EmptyRun
  BY DEF Init
<1>2. /\ IdleJob.phase = "idle" /\ IdleJob.outcome = "none" /\ IdleJob.id = 0
      /\ ~ EmptyRun.gate /\ EmptyRun.shown = "none" /\ ~ EmptyRun.asked
      /\ NoFile.by = 0
  BY DEF IdleJob, EmptyRun, NoFile
<1>3. TypeOK
  BY IdleFacts, NoFileType DEF Init, TypeOK
<1>4. OutcomeInv
  BY <1>1, <1>2 DEF OutcomeInv, OutcomesOf
<1>5. IdInv
  BY <1>1, <1>2 DEF IdInv, Init
<1>6. ScreenInv /\ SavedInv
  BY <1>1, <1>2 DEF ScreenInv, SavedInv
<1>7. HoldersOwnTheLock /\ LockIsReleased
  BY <1>1, <1>2 DEF HoldersOwnTheLock, LockIsReleased, Holding
<1>8. NoEmptyPromise
  BY <1>1, <1>2 DEF NoEmptyPromise
<1>9. SumInv /\ KeepInv
  BY <1>1, <1>2 DEF SumInv, KeepInv
<1>10. LeftInv
  BY <1>1, <1>2 DEF LeftInv, Init
<1> QED
  BY <1>3, <1>4, <1>5, <1>6, <1>7, <1>8, <1>9, <1>10 DEF Inv

\* The invariant holds of every reachable state.
LEMMA InvHolds == Spec => []Inv
<1>1. Inv /\ [Next]_vars => Inv'
  BY TypeStep, OutcomeStep, IdStep, ScreenInvStep, LockStep, ReleaseStep, PromiseStep,
     SumStep, SavedStep, LeftStep, KeepStep DEF Inv
<1> QED
  BY <1>1, InitInv, PTL DEF Spec

-----------------------------------------------------------------------------
(* Every reachable state is well typed: in particular a run never reaches   *)
(* the screen with an outcome the screen does not know (all the module).    *)
THEOREM TypeCorrect == Spec => []TypeOK
<1>1. Inv => TypeOK
  BY DEF Inv
<1> QED
  BY <1>1, InvHolds, PTL

(* Whoever works in the directory on the server is the run that made it,    *)
(* with any number of desktops, runs and failures (acquire_lock, cleanup).  *)
THEOREM LockIsExclusive == Spec => []HoldersOwnTheLock
<1>1. Inv => HoldersOwnTheLock
  BY DEF Inv
<1> QED
  BY <1>1, InvHolds, PTL

(* A backup the screen calls saved is on the disk, whole and of this run,   *)
(* even where two runs share the name of their archive (download_archive).  *)
THEOREM SavedBackupIsWhole == Spec => []SavedIsWhole
<1>1. Inv => SavedIsWhole
  BY DEF Inv, SavedInv, SavedIsWhole
<1> QED
  BY <1>1, InvHolds, PTL

(* A lock that outlives its run has one of three known causes               *)
(* (create_backup, cleanup).                                                *)
THEOREM LockIsReleasedOrExplained == Spec => []LockIsReleased
<1>1. Inv => LockIsReleased
  BY DEF Inv
<1> QED
  BY <1>1, InvHolds, PTL

(* The screen says "Cancelling" only of a cancel that was heard, however it *)
(* races the start and the end of the run (runCancelDomainBackup).          *)
THEOREM CancelIsHeard == Spec => []NoEmptyPromise
<1>1. Inv => NoEmptyPromise
  BY DEF Inv
<1> QED
  BY <1>1, InvHolds, PTL

(* A saved backup whose archive is still on the server says so, although    *)
(* the event that tells of it may come too late (report_cleanup_note).      *)
THEOREM LeftoverIsTold == Spec => []LeftoverIsNamed
<1>1. Inv => LeftoverIsNamed
  BY DEF Inv, LeftInv, LeftoverIsNamed
<1> QED
  BY <1>1, InvHolds, PTL

(* Between the end of create_backup and its own end, a run removes its      *)
(* archive only when the file is safe or the user has cancelled             *)
(* (should_remove_remote_archive).                                          *)
THEOREM OnlyCopyIsKept == Spec => TheOnlyCopyIsKept
<1>1. ASSUME Inv, [Next]_vars, NEW d \in Desktops,
             job[d].phase \in {"downloading", "renaming", "removing"},
             job'[d].phase # job[d].phase,
             archive'[job[d].second] # archive[job[d].second]
      PROVE  disk[d] = job[d].sum \/ registry[d] = "cancelled"
  <2> USE <1>1 DEF Inv
  <2>1. ASSUME NEW e \in Desktops, Step(e) \/ Create(e) \/ Crash(e) PROVE e = d
    <3>1. OnlyOf(e)
      BY <2>1, CreateStep, CrashStep, StepOnlyOf
    <3> QED
      BY <3>1 DEF OnlyOf, Kept
  <2>2. ASSUME NEW e \in Desktops, AskToCancel(e) \/ CancelArrives(e) \/ DeliverNote(e)
        PROVE  FALSE
    BY <2>2, AskScreen, CancelScreen, DeliverScreen
  <2>3. ~ RemoveLockByHand /\ ~ UNCHANGED vars
    BY DEF RemoveLockByHand, vars
  <2>4. Step(d) \/ Create(d) \/ Crash(d)
    BY <2>1, <2>2, <2>3 DEF Next
  <2>5. job[d].phase = "removing"
    BY <2>4, CreateStep, CrashStep, StreamedStep, StreamCancelledStep, DownloadFailsStep,
       SaveStep, OtherPhases
  <2> QED
    BY <2>5 DEF KeepInv
<1>2. Inv /\ [Next]_vars => [\A d \in Desktops :
        LET a == archive[job[d].second] IN
        /\ job[d].phase \in {"downloading", "renaming", "removing"}
        /\ job'[d].phase # job[d].phase
        /\ archive'[job[d].second] # a
        => disk[d] = job[d].sum \/ registry[d] = "cancelled"]_vars
  BY <1>1
<1> QED
  BY <1>2, InvHolds, PTL DEF Spec, TheOnlyCopyIsKept
=============================================================================
