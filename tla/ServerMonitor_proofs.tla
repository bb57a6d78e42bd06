------------------------ MODULE ServerMonitor_proofs ------------------------
(***************************************************************************)
(* What holds of the reachability check for any number of servers,         *)
(* addresses, editing requests, faults and any failure threshold.  The     *)
(* first half needs nothing else; the second half, that outages are shown  *)
(* and told as OutageEpisodes promises, holds of one run at a time.        *)
(***************************************************************************)
EXTENDS ServerMonitor, FiniteSetTheorems, WellFoundedInduction, TLAPS

\* A non-empty finite set of numbers has a least one: the one with the fewest below.
LEMMA LeastExists ==
  ASSUME NEW T \in SUBSET Nat, IsFiniteSet(T), T # {}
  PROVE  \E x \in T : \A y \in T : x <= y
<1> DEFINE Below(x) == {y \in T : y < x}
           F == {Below(x) : x \in T}
<1>1. F \subseteq FiniteSubsetsOf(T) /\ F # {}
  <2>1. \A D \in F : D \in SUBSET T
    OBVIOUS
  <2>2. \A D \in F : IsFiniteSet(D)
    BY <2>1, FS_Subset
  <2>3. PICK x \in T : TRUE
    OBVIOUS
  <2>4. Below(x) \in F
    OBVIOUS
  <2> HIDE DEF F
  <2>5. QED
    BY <2>1, <2>2, <2>4 DEF FiniteSubsetsOf
<1>2. PICK D \in F : \A E \in F : <<E, D>> \notin StrictSubsetOrdering(T)
  <2>1. IsWellFoundedOn(StrictSubsetOrdering(T), FiniteSubsetsOf(T))
    BY FS_StrictSubsetOrderingWellFounded
  <2> HIDE DEF F
  <2>2. QED
    BY <1>1, <2>1, WFMin
<1>3. PICK x \in T : D = Below(x)
  OBVIOUS
<1>4. ASSUME NEW y \in T, y < x PROVE FALSE
  <2>1. Below(y) \subseteq D /\ Below(y) # D
    <3>1. \A z \in T : z < y => z < x
      BY <1>4
    <3>2. y \in Below(x) /\ y \notin Below(y)
      BY <1>4
    <3>3. QED
      BY <1>3, <3>1, <3>2
  <2>2. Below(y) \in F /\ D \in SUBSET T /\ Below(y) \in SUBSET T
    BY <1>3
  <2>3. <<Below(y), D>> \in StrictSubsetOrdering(T)
    BY <2>1, <2>2 DEF StrictSubsetOrdering
  <2>4. QED
    BY <1>2, <2>2, <2>3
<1>5. QED
  BY <1>4

\* A run with a server left to do is at one of them.
LEMMA CurrentIsToDo ==
  ASSUME NEW r, run[r].todo \subseteq Servers, run[r].todo # {}
  PROVE  Current(r) \in run[r].todo
<1> DEFINE T == run[r].todo
<1>1. T \in SUBSET Nat /\ IsFiniteSet(T)
  BY ServersAssumption, FS_Subset
<1>2. \E x \in T : \A y \in T : x <= y
  BY <1>1, LeastExists
<1>3. QED
  BY <1>2 DEF Current

LEMMA FreshRowType == FreshRow \in RowRecord /\ GoneRow \in RowRecord
BY AddressAssumption DEF FreshRow, GoneRow, RowRecord

LEMMA IdleRunOK == RunOK(IdleRun)
<1>1. [s \in Servers |-> FirstAddress] \in [Servers -> Addresses]
  BY AddressAssumption
<1>2. QED
  BY <1>1, FreshRowType DEF IdleRun, RunOK, RunRecord

LEMMA IdleUpdateType == IdleUpdate \in UpdateRecord
BY AddressAssumption DEF IdleUpdate, UpdateRecord

LEMMA InitInv == Init => MonitorInv
<1> SUFFICES ASSUME Init PROVE MonitorInv
  OBVIOUS
<1>1. row \in [Servers -> RowRecord] /\ EveryCheckIsStamped
  BY FreshRowType DEF Init, EveryCheckIsStamped, FreshRow
<1>2. \A r \in Runs : RunOK(run[r])
  BY IdleRunOK DEF Init
<1>3. run \in [Runs -> RunRecord]
  BY <1>2 DEF Init, RunOK
<1>4. QED
  BY <1>1, <1>2, <1>3, IdleUpdateType DEF Init, MonitorInv, TypeOK

\* Every step of a run replaces the record of that run.
LEMMA RunMoves ==
  ASSUME MonitorInv, NEW r \in Runs, NEW R, RunOK(R), run' = [run EXCEPT ![r] = R]
  PROVE  run' \in [Runs -> RunRecord] /\ \A q \in Runs : RunOK(run'[q])
BY DEF MonitorInv, TypeOK, RunOK

\* The record of a run that counted the server it was at.
LEMMA CountedFacts ==
  ASSUME NEW r \in Runs, run[r] \in RunRecord
  PROVE  LET C == Counted(r) IN
         /\ C \in RunRecord
         /\ C.phase = "writing"
         /\ C.todo = run[r].todo \ {Current(r)}
         /\ C.targets = run[r].targets
         /\ C.checked = run[r].checked + 1
         /\ C.failed = run[r].failed
         /\ C.undelivered = run[r].undelivered
         /\ C.landed = run[r].landed
<1> DEFINE T == run[r].todo \ {Current(r)}
           n == run[r].checked + 1
<1>1. T \subseteq Servers /\ n \in Nat
  BY DEF RunRecord
<1>2. Counted(r) = [run[r] EXCEPT !.phase = "writing", !.todo = T, !.loaded = FreshRow,
                                  !.attempted = 0, !.bumped = FALSE, !.checked = n]
  BY DEF Counted
<1> DEFINE C == Counted(r)
<1>3. T = run[r].todo \ {Current(r)} /\ n = run[r].checked + 1
  OBVIOUS
<1> HIDE DEF T, n
<1>4. C \in RunRecord
  <2> DEFINE E == [run[r] EXCEPT !.phase = "writing", !.todo = T, !.loaded = FreshRow,
                                 !.attempted = 0, !.bumped = FALSE, !.checked = n]
  <2>1. E \in RunRecord
    BY <1>1, FreshRowType DEF RunRecord
  <2>2. QED
    BY <1>2, <2>1
<1>5. /\ C.phase = "writing" /\ C.todo = T /\ C.targets = run[r].targets /\ C.checked = n
      /\ C.failed = run[r].failed /\ C.undelivered = run[r].undelivered
      /\ C.landed = run[r].landed
  BY <1>2 DEF RunRecord
<1>6. QED
  BY <1>3, <1>4, <1>5

\* One server less to do, one more counted: the sum is kept.
LEMMA OneMoreCounted ==
  ASSUME MonitorInv, NEW r \in Runs, NEW D \in RunRecord,
         run[r].phase \in {"writing", "loaded", "locked", "dispatching"},
         run[r].todo # {},
         D.phase = "writing",
         D.todo = run[r].todo \ {Current(r)},
         D.targets = run[r].targets,
         D.checked + D.failed = run[r].checked + run[r].failed + 1,
         D.undelivered <= D.checked
  PROVE  RunOK(D)
<1> DEFINE R == run[r]
<1>1. RunOK(R)
  BY DEF MonitorInv
<1>2. /\ Current(r) \in R.todo
      /\ IsFiniteSet(R.todo)
      /\ IsFiniteSet(R.targets)
  BY <1>1, CurrentIsToDo, ServersAssumption, FS_Subset DEF RunOK, RunRecord
<1>3. /\ Cardinality(D.todo) = Cardinality(R.todo) - 1
      /\ Cardinality(R.todo) \in Nat
      /\ Cardinality(R.targets) \in Nat
  BY <1>2, FS_RemoveElement, FS_CardinalityType
<1>4. /\ R.checked + R.failed + Cardinality(R.todo) = Cardinality(R.targets)
      /\ R.checked \in Nat /\ R.failed \in Nat /\ D.checked \in Nat /\ D.failed \in Nat
      /\ D.todo \subseteq D.targets
  BY <1>1 DEF RunOK, RunRecord
<1>5. D.checked + D.failed + Cardinality(D.todo) = Cardinality(D.targets)
  BY <1>3, <1>4
<1>6. QED
  BY <1>4, <1>5 DEF RunOK

\* The exception handler counts the server, as checked or as failed.
LEMMA HandledFacts ==
  ASSUME MonitorInv, NEW r \in Runs, run[r].phase \in {"loaded", "locked", "dispatching"},
         HandleError(r)
  PROVE  \E D \in RunRecord :
           /\ RunOK(D)
           /\ run' = [run EXCEPT ![r] = D]
           /\ D.phase = "writing"
           /\ D.todo = run[r].todo \ {Current(r)}
           /\ D.landed = run[r].landed
           /\ D.checked = IF CheckLanded(r) /\ D.failed = run[r].failed
                          THEN run[r].checked + 1 ELSE run[r].checked
<1> DEFINE R == run[r]
           C == Counted(r)
           A == [C EXCEPT !.broke = TRUE, !.undelivered = C.undelivered + 1]
           B == [C EXCEPT !.broke = TRUE, !.checked = R.checked, !.failed = C.failed + 1]
<1>1. R \in RunRecord /\ R.todo # {} /\ R.undelivered <= R.checked
  BY DEF MonitorInv, RunOK
<1>2. /\ C \in RunRecord /\ C.phase = "writing" /\ C.todo = R.todo \ {Current(r)}
      /\ C.targets = R.targets /\ C.checked = R.checked + 1 /\ C.failed = R.failed
      /\ C.undelivered = R.undelivered /\ C.landed = R.landed
  BY <1>1, CountedFacts
<1>2t. C \in RunRecord
  BY <1>2
<1>3. /\ R.checked \in Nat /\ R.failed \in Nat /\ R.undelivered \in Nat
      /\ C.failed + 1 \in Nat /\ C.undelivered + 1 \in Nat
  BY <1>1, <1>2 DEF RunRecord
<1>4. \/ CheckLanded(r) /\ run' = [run EXCEPT ![r] = A]
      \/ run' = [run EXCEPT ![r] = B]
  BY DEF HandleError
<1> HIDE DEF C
<1>5. CASE CheckLanded(r) /\ run' = [run EXCEPT ![r] = A]
  <2>a. A \in RunRecord
    BY <1>2t, <1>3 DEF RunRecord
  <2>b. /\ A.phase = "writing" /\ A.todo = R.todo \ {Current(r)} /\ A.targets = R.targets
        /\ A.checked = R.checked + 1 /\ A.failed = R.failed /\ A.undelivered = R.undelivered + 1
        /\ A.landed = R.landed
    BY <1>2 DEF RunRecord
  <2> HIDE DEF A
  <2>2. RunOK(A)
    <3>1. A.checked + A.failed = R.checked + R.failed + 1 /\ A.undelivered <= A.checked
      BY <1>1, <1>3, <2>a, <2>b
    <3>2. QED
      BY <1>1, <2>a, <2>b, <3>1, OneMoreCounted
  <2>3. QED
    BY <1>5, <2>a, <2>b, <2>2
<1>6. CASE run' = [run EXCEPT ![r] = B]
  <2>a. B \in RunRecord
    BY <1>2t, <1>3 DEF RunRecord
  <2>b. /\ B.phase = "writing" /\ B.todo = R.todo \ {Current(r)} /\ B.targets = R.targets
        /\ B.checked = R.checked /\ B.failed = R.failed + 1 /\ B.undelivered = R.undelivered
        /\ B.landed = R.landed
    BY <1>2 DEF RunRecord
  <2> HIDE DEF B
  <2>2. RunOK(B)
    <3>1. B.checked + B.failed = R.checked + R.failed + 1 /\ B.undelivered <= B.checked
      BY <1>1, <1>3, <2>a, <2>b
    <3>2. QED
      BY <1>1, <2>a, <2>b, <3>1, OneMoreCounted
  <2>3. B.failed # R.failed
    BY <1>3, <2>a, <2>b
  <2>4. QED
    BY <1>6, <2>a, <2>b, <2>2, <2>3
<1>7. QED
  BY <1>4, <1>5, <1>6

\* The notification of a verdict, when there is one, is well typed.
LEMMA NoteType ==
  ASSUME MonitorInv, NEW r \in Runs, run[r].phase = "locked", NEW ok \in BOOLEAN,
         Transition(r, ok) # "none"
  PROVE  Note(r, ok) \in NoteRecord
<1>1. run[r].todo # {} /\ run[r].todo \subseteq Servers /\ run[r].loaded \in RowRecord
  BY DEF MonitorInv, RunOK, RunRecord
<1>2. Current(r) \in Servers
  BY <1>1, CurrentIsToDo
<1>3. Transition(r, ok) \in {"up", "down"}
  BY DEF Transition
<1>4. clock \in Nat /\ run[r].loaded.at \in Nat
  BY <1>1 DEF MonitorInv, TypeOK, RowRecord
<1>5. QED
  BY <1>2, <1>3, <1>4 DEF Note, NoteRecord

\* The row a verdict leaves behind.
Verdict(r, s, ok, new) ==
  [row[s] EXCEPT !.failures = Merge(row[s].failures, run[r].loaded.failures, Failures(r, ok)),
                 !.ok = Merge(row[s].ok, run[r].loaded.ok, Status(r, ok)),
                 !.at = clock + 1,
                 !.stamped = Stamped(r, new)]

LEMMA VerdictFacts ==
  ASSUME MonitorInv, NEW r \in Runs, run[r].phase = "locked", NEW s \in Servers,
         NEW ok \in BOOLEAN, NEW new \in BOOLEAN
  PROVE  LET V == Verdict(r, s, ok, new) IN
         /\ V \in RowRecord
         /\ V.exists = row[s].exists
         /\ V.failures = Merge(row[s].failures, run[r].loaded.failures, Failures(r, ok))
         /\ V.ok = Merge(row[s].ok, run[r].loaded.ok, Status(r, ok))
         /\ V.at = clock + 1
         /\ V.stamped
<1>1. row[s] \in RowRecord /\ run[r].loaded \in RowRecord /\ clock + 1 \in Nat
  BY DEF MonitorInv, TypeOK, RunRecord
<1>2. Failures(r, ok) \in Nat /\ Status(r, ok) \in {"unchecked", "up", "down"}
  BY <1>1 DEF Failures, Status, RowRecord
<1> DEFINE f == Merge(row[s].failures, run[r].loaded.failures, Failures(r, ok))
           k == Merge(row[s].ok, run[r].loaded.ok, Status(r, ok))
<1>3. f \in Nat /\ k \in {"unchecked", "up", "down"}
  BY <1>1, <1>2 DEF Merge, RowRecord
<1>4. Stamped(r, new) /\ Stamped(r, new) \in BOOLEAN
  BY DEF Stamped, MonitorInv, RunOK, RunRecord
<1> HIDE DEF f, k
<1> DEFINE E == [row[s] EXCEPT !.failures = f, !.ok = k, !.at = clock + 1,
                               !.stamped = Stamped(r, new)]
<1>5. Verdict(r, s, ok, new) = E
  BY DEF Verdict, f, k
<1>6. E \in RowRecord
  BY <1>1, <1>3, <1>4 DEF RowRecord
<1>7. /\ E.exists = row[s].exists /\ E.failures = f /\ E.ok = k /\ E.at = clock + 1
      /\ E.stamped = Stamped(r, new)
  BY <1>1 DEF RowRecord
<1>8. QED
  BY <1>4, <1>5, <1>6, <1>7 DEF f, k

\* What recording a verdict does: to the run, the row and the notifications.
LEMMA RecordFacts ==
  ASSUME MonitorInv, NEW r \in Runs, Record(r)
  PROVE  \E ok \in BOOLEAN, new \in BOOLEAN, D \in RunRecord :
           /\ ok <=> Current(r) \in run[r].answered
           /\ new <=> Transition(r, ok) # "none" /\ Note(r, ok) \notin notes
           /\ row' = [row EXCEPT ![Current(r)] = Verdict(r, Current(r), ok, new)]
           /\ notes' = IF new THEN notes \cup {Note(r, ok)} ELSE notes
           /\ misses' = [misses EXCEPT ![Current(r)] = IF ok THEN 0
                                                       ELSE misses[Current(r)] + 1]
           /\ run' = [run EXCEPT ![r] = D]
           /\ RunOK(D)
           /\ D.phase = IF new THEN "dispatching" ELSE "writing"
           /\ D.todo = IF new THEN run[r].todo ELSE run[r].todo \ {Current(r)}
           /\ D.checked = IF new THEN run[r].checked ELSE run[r].checked + 1
           /\ D.landed = run[r].landed \cup {Current(r)}
<1> DEFINE R == run[r]
           c == Current(r)
           ok == c \in R.answered
           new == Transition(r, ok) # "none" /\ Note(r, ok) \notin notes
           X == [R EXCEPT !.phase = "dispatching", !.bumped = FALSE]
           N == IF new THEN X ELSE Counted(r)
           L == N.landed \cup {c}
           D == [N EXCEPT !.landed = L]
<1>1. /\ RunOK(R) /\ R \in RunRecord /\ R.todo # {} /\ R.phase = "locked"
      /\ c \in R.todo /\ c \in Servers
  <2>1. RunOK(R) /\ R \in RunRecord /\ R.phase = "locked"
    BY DEF MonitorInv, RunOK, Record
  <2>2. R.todo # {} /\ R.todo \subseteq Servers
    BY <2>1 DEF RunOK, RunRecord
  <2>3. QED
    BY <2>1, <2>2, CurrentIsToDo
<1>2. run' = [run EXCEPT ![r] = D]
  BY DEF Record, Told
<1>3. row' = [row EXCEPT ![c] = Verdict(r, c, ok, new)]
  BY DEF Record, Verdict, Told
<1>4. /\ notes' = IF new THEN notes \cup {Note(r, ok)} ELSE notes
      /\ misses' = [misses EXCEPT ![c] = IF ok THEN 0 ELSE misses[c] + 1]
  BY DEF Record, Told
<1>5. X \in RunRecord
  BY <1>1 DEF RunRecord
<1>6. /\ X.phase = "dispatching" /\ X.todo = R.todo /\ X.targets = R.targets
      /\ X.checked = R.checked /\ X.failed = R.failed /\ X.undelivered = R.undelivered
      /\ X.landed = R.landed
  BY <1>1 DEF RunRecord
<1> DEFINE C == Counted(r)
<1>7. /\ C \in RunRecord /\ C.phase = "writing" /\ C.todo = R.todo \ {c}
      /\ C.targets = R.targets /\ C.checked = R.checked + 1 /\ C.failed = R.failed
      /\ C.undelivered = R.undelivered /\ C.landed = R.landed
  BY <1>1, CountedFacts
<1> HIDE DEF C, X, ok, new
<1>8. N \in RunRecord /\ L \subseteq Servers /\ L = R.landed \cup {c}
  <2>1. R.landed \subseteq Servers
    BY <1>1 DEF RunRecord
  <2>2. N \in RunRecord /\ N.landed = R.landed
    BY <1>5, <1>6, <1>7 DEF C
  <2>3. QED
    BY <1>1, <2>1, <2>2
<1>9. /\ N.phase = IF new THEN "dispatching" ELSE "writing"
      /\ N.todo = IF new THEN R.todo ELSE R.todo \ {c}
      /\ N.checked = IF new THEN R.checked ELSE R.checked + 1
      /\ N.targets = R.targets /\ N.failed = R.failed /\ N.undelivered = R.undelivered
  BY <1>6, <1>7 DEF C
<1> HIDE DEF N, L
<1>10. D \in RunRecord
  BY <1>8 DEF RunRecord
<1>11. /\ D.phase = N.phase /\ D.todo = N.todo /\ D.checked = N.checked
       /\ D.targets = N.targets /\ D.failed = N.failed /\ D.undelivered = N.undelivered
       /\ D.landed = L
  BY <1>8 DEF RunRecord
<1> HIDE DEF D
<1>12. RunOK(D)
  <2>1. R.checked \in Nat /\ R.failed \in Nat /\ R.undelivered \in Nat
    BY <1>1 DEF RunRecord
  <2>2. CASE new
    BY <1>1, <1>9, <1>10, <1>11, <2>1, <2>2 DEF RunOK
  <2>3. CASE ~ new
    <3>1. /\ D.phase = "writing" /\ D.todo = R.todo \ {c} /\ D.targets = R.targets
          /\ D.checked = R.checked + 1 /\ D.failed = R.failed
          /\ D.undelivered = R.undelivered
      BY <1>9, <1>11, <2>3
    <3>2. D.checked + D.failed = R.checked + R.failed + 1 /\ D.undelivered <= D.checked
      BY <1>1, <2>1, <3>1 DEF RunOK
    <3>3. QED
      BY <1>1, <1>10, <3>1, <3>2, OneMoreCounted
  <2>4. QED
    BY <2>2, <2>3
<1>13. ok \in BOOLEAN /\ new \in BOOLEAN
  BY DEF ok, new
<1>14. (ok <=> c \in R.answered) /\ (new <=> Transition(r, ok) # "none" /\ Note(r, ok) \notin notes)
  BY DEF ok, new
<1>15. QED
  BY <1>2, <1>3, <1>4, <1>8, <1>9, <1>10, <1>11, <1>12, <1>13, <1>14

-----------------------------------------------------------------------------
(* Every action keeps MonitorInv.                                            *)

\* The steps that touch neither a row nor a notification replace a record of a
\* run by a sound one, or the transaction of a request.
LEMMA RunStepKeeps ==
  ASSUME MonitorInv, NEW r \in Runs, NEW R, RunOK(R), run' = [run EXCEPT ![r] = R],
         UNCHANGED <<dbVars, misses>>, runs' \in Nat, faults' \in Nat,
         update' \in [Updaters -> UpdateRecord]
  PROVE  MonitorInv'
<1>1. run' \in [Runs -> RunRecord] /\ \A q \in Runs : RunOK(run'[q])
  BY RunMoves
<1>2. QED
  BY <1>1 DEF MonitorInv, TypeOK, EveryCheckIsStamped, dbVars, RunOK

LEMMA StartKeeps ==
  ASSUME MonitorInv, NEW r \in Runs, StartRun(r)
  PROVE  MonitorInv'
<1> DEFINE T == {s \in Servers : row[s].exists}
           P == [s \in Servers |-> row[s].addr]
           R == [IdleRun EXCEPT !.phase = "probing", !.targets = T, !.probed = P]
<1>1. T \subseteq Servers /\ P \in [Servers -> Addresses]
  BY DEF MonitorInv, TypeOK, RowRecord
<1>2. IdleRun \in RunRecord /\ IdleRun.todo = {} /\ IdleRun.checked = 0
      /\ IdleRun.failed = 0 /\ IdleRun.undelivered = 0
  BY IdleRunOK DEF RunOK, IdleRun
<1>3. run' = [run EXCEPT ![r] = R] /\ runs' \in Nat
  BY DEF StartRun, MonitorInv, TypeOK
<1> HIDE DEF T, P
<1>4. R \in RunRecord
  BY <1>1, <1>2 DEF RunRecord
<1>5. /\ R.phase = "probing" /\ R.todo = {} /\ R.checked = 0 /\ R.failed = 0
      /\ R.undelivered = 0
  BY <1>2 DEF RunRecord
<1> HIDE DEF R
<1>6. RunOK(R)
  BY <1>4, <1>5 DEF RunOK
<1>7. QED
  BY <1>3, <1>6, RunStepKeeps DEF StartRun, MonitorInv, TypeOK

\* The probes that raised are counted; the others are what is left to do.
LEMMA ProbeKeeps ==
  ASSUME MonitorInv, NEW r \in Runs, Probe(r)
  PROVE  MonitorInv'
<1> DEFINE Q == run[r]
<1>1. PICK answered \in SUBSET Q.targets, raised \in SUBSET Q.targets :
        /\ Q.phase = "probing"
        /\ faults' = faults + Cardinality(raised)
        /\ run' = [run EXCEPT ![r].phase = "writing",
                              ![r].answered = answered,
                              ![r].todo = Q.targets \ raised,
                              ![r].failed = Cardinality(raised),
                              ![r].broke = raised # {}]
        /\ UNCHANGED <<dbVars, update, runs, misses>>
  BY DEF Probe
<1> DEFINE T == Q.targets \ raised
           n == Cardinality(raised)
           b == raised # {}
           R == [Q EXCEPT !.phase = "writing", !.answered = answered, !.todo = T,
                          !.failed = n, !.broke = b]
<1>2. RunOK(Q) /\ Q \in RunRecord /\ Q.targets \subseteq Servers
  BY DEF MonitorInv, RunOK, RunRecord
<1>3. IsFiniteSet(Q.targets) /\ IsFiniteSet(raised) /\ IsFiniteSet(T)
  BY <1>2, ServersAssumption, FS_Subset
<1>4. Cardinality(Q.targets) = Cardinality(T) + n - Cardinality({})
  <2>1. Cardinality(T \cup raised) = Cardinality(T) + n - Cardinality(T \cap raised)
    BY <1>3, FS_Union
  <2>2. T \cup raised = Q.targets /\ T \cap raised = {}
    OBVIOUS
  <2> HIDE DEF T, n
  <2>3. QED
    BY <2>1, <2>2
<1>5. n \in Nat /\ Cardinality(T) \in Nat /\ Cardinality({}) = 0
  BY <1>3, FS_CardinalityType, FS_EmptySet
<1>6. n + Cardinality(T) = Cardinality(Q.targets)
  BY <1>4, <1>5
<1>7. T \subseteq Servers /\ T \subseteq Q.targets /\ answered \subseteq Servers
      /\ b \in BOOLEAN
  BY <1>2
<1>8. run' = [run EXCEPT ![r] = R]
  BY <1>1 DEF MonitorInv, TypeOK
<1> HIDE DEF T, n, b
<1>9. R \in RunRecord
  BY <1>2, <1>5, <1>7 DEF RunRecord
<1>10. /\ R.phase = "writing" /\ R.todo = T /\ R.targets = Q.targets /\ R.failed = n
       /\ R.checked = Q.checked /\ R.undelivered = Q.undelivered
  BY <1>2 DEF RunRecord
<1> HIDE DEF R
<1>11. Q.checked = 0 /\ Q.undelivered = 0
  BY <1>1, <1>2 DEF RunOK
<1>12. R.checked + R.failed + Cardinality(R.todo) = Cardinality(R.targets)
  BY <1>5, <1>6, <1>10, <1>11
<1>13. RunOK(R)
  BY <1>7, <1>9, <1>10, <1>11, <1>12 DEF RunOK
<1>14. faults' \in Nat
  BY <1>1, <1>5 DEF MonitorInv, TypeOK, n
<1>15. QED
  BY <1>1, <1>8, <1>13, <1>14, RunStepKeeps DEF MonitorInv, TypeOK

LEMMA SkipKeeps ==
  ASSUME MonitorInv, NEW r \in Runs, SkipServer(r)
  PROVE  MonitorInv'
<1> DEFINE Q == run[r]
           T == Q.todo \ {Current(r)}
           n == Q.failed + 1
           R == [Q EXCEPT !.todo = T, !.failed = n]
<1>1. Q \in RunRecord /\ Q.todo # {} /\ Q.phase = "writing" /\ RunOK(Q)
  BY DEF MonitorInv, RunOK, SkipServer
<1>2. T \subseteq Servers /\ n \in Nat /\ Q.checked \in Nat /\ Q.failed \in Nat
  BY <1>1 DEF RunRecord
<1>3. run' = [run EXCEPT ![r] = R]
  BY DEF SkipServer, MonitorInv, TypeOK
<1>4. T = Q.todo \ {Current(r)} /\ n = Q.failed + 1
  OBVIOUS
<1> HIDE DEF T, n
<1>5. R \in RunRecord
  BY <1>1, <1>2 DEF RunRecord
<1>6. /\ R.phase = "writing" /\ R.todo = T /\ R.targets = Q.targets
      /\ R.checked = Q.checked /\ R.failed = n /\ R.undelivered = Q.undelivered
  BY <1>1 DEF RunRecord
<1> HIDE DEF R
<1>7. R.checked + R.failed = Q.checked + Q.failed + 1 /\ R.undelivered <= R.checked
  BY <1>1, <1>2, <1>4, <1>6 DEF RunOK
<1>8. RunOK(R)
  BY <1>1, <1>4, <1>5, <1>6, <1>7, OneMoreCounted
<1>9. QED
  BY <1>3, <1>8, RunStepKeeps DEF SkipServer, MonitorInv, TypeOK

LEMMA LoadKeeps ==
  ASSUME MonitorInv, NEW r \in Runs, LoadServer(r)
  PROVE  MonitorInv'
<1> DEFINE Q == run[r]
           w == row[Current(r)]
           R == [Q EXCEPT !.phase = "loaded", !.loaded = w, !.attempted = clock]
<1>1. Q \in RunRecord /\ Q.todo # {} /\ Q.phase = "writing" /\ RunOK(Q)
  BY DEF MonitorInv, RunOK, LoadServer
<1>2. Current(r) \in Servers
  BY <1>1, CurrentIsToDo DEF RunRecord
<1>3. w \in RowRecord /\ clock \in Nat
  BY <1>2 DEF MonitorInv, TypeOK
<1>4. run' = [run EXCEPT ![r] = R]
  BY DEF LoadServer, MonitorInv, TypeOK
<1> HIDE DEF w
<1>5. R \in RunRecord
  BY <1>1, <1>3 DEF RunRecord
<1>6. /\ R.phase = "loaded" /\ R.todo = Q.todo /\ R.targets = Q.targets
      /\ R.checked = Q.checked /\ R.failed = Q.failed /\ R.undelivered = Q.undelivered
  BY <1>1 DEF RunRecord
<1> HIDE DEF R
<1>7. RunOK(R)
  BY <1>1, <1>5, <1>6 DEF RunOK
<1>8. QED
  BY <1>4, <1>7, RunStepKeeps DEF LoadServer, MonitorInv, TypeOK

LEMMA LockKeeps ==
  ASSUME MonitorInv, NEW r \in Runs, LockSyncState(r)
  PROVE  MonitorInv'
<1> DEFINE Q == run[r]
           R == [Q EXCEPT !.phase = "locked", !.bumped = TRUE]
<1>1. Q \in RunRecord /\ Q.phase = "loaded" /\ RunOK(Q)
  BY DEF MonitorInv, RunOK, LockSyncState
<1>2. run' = [run EXCEPT ![r] = R]
  BY DEF LockSyncState, MonitorInv, TypeOK
<1>3. R \in RunRecord
  BY <1>1 DEF RunRecord
<1>4. /\ R.phase = "locked" /\ R.bumped /\ R.todo = Q.todo /\ R.targets = Q.targets
      /\ R.checked = Q.checked /\ R.failed = Q.failed /\ R.undelivered = Q.undelivered
  BY <1>1 DEF RunRecord
<1> HIDE DEF R
<1>5. RunOK(R)
  BY <1>1, <1>3, <1>4 DEF RunOK
<1>6. QED
  BY <1>2, <1>5, RunStepKeeps DEF LockSyncState, MonitorInv, TypeOK

LEMMA RecordKeeps ==
  ASSUME MonitorInv, NEW r \in Runs, Record(r)
  PROVE  MonitorInv'
<1> DEFINE c == Current(r)
<1>1. PICK ok \in BOOLEAN, new \in BOOLEAN, D \in RunRecord :
        /\ new => Transition(r, ok) # "none"
        /\ row' = [row EXCEPT ![c] = Verdict(r, c, ok, new)]
        /\ notes' = IF new THEN notes \cup {Note(r, ok)} ELSE notes
        /\ misses' = [misses EXCEPT ![c] = IF ok THEN 0 ELSE misses[c] + 1]
        /\ run' = [run EXCEPT ![r] = D]
        /\ RunOK(D)
  BY RecordFacts
<1>2. run[r].phase = "locked"
  BY DEF Record
<1>3. c \in Servers
  BY <1>2, CurrentIsToDo DEF MonitorInv, RunOK, RunRecord
<1>4. Verdict(r, c, ok, new) \in RowRecord /\ Verdict(r, c, ok, new).stamped
  BY <1>2, <1>3, VerdictFacts
<1>5. row' \in [Servers -> RowRecord] /\ \A s \in Servers : row'[s].stamped
  BY <1>1, <1>3, <1>4 DEF MonitorInv, TypeOK, EveryCheckIsStamped
<1>6. notes' \subseteq NoteRecord
  BY <1>1, <1>2, NoteType DEF MonitorInv, TypeOK
<1>7. run' \in [Runs -> RunRecord] /\ \A q \in Runs : RunOK(run'[q])
  BY <1>1, RunMoves
<1>8. misses' \in [Servers -> Nat] /\ clock' \in Nat
  BY <1>1, <1>3 DEF Record, MonitorInv, TypeOK
<1>9. QED
  BY <1>5, <1>6, <1>7, <1>8 DEF Record, MonitorInv, TypeOK, EveryCheckIsStamped

LEMMA DeliverKeeps ==
  ASSUME MonitorInv, NEW r \in Runs, Delivered(r)
  PROVE  MonitorInv'
<1> DEFINE Q == run[r]
           C == Counted(r)
<1>1. Q \in RunRecord /\ Q.todo # {} /\ Q.phase = "dispatching" /\ RunOK(Q)
  BY DEF MonitorInv, RunOK, Delivered
<1>2. /\ C \in RunRecord /\ C.phase = "writing" /\ C.todo = Q.todo \ {Current(r)}
      /\ C.targets = Q.targets /\ C.checked = Q.checked + 1 /\ C.failed = Q.failed
      /\ C.undelivered = Q.undelivered
  BY <1>1, CountedFacts
<1>3. Q.checked \in Nat /\ Q.failed \in Nat /\ Q.undelivered \in Nat /\ Q.undelivered <= Q.checked
  BY <1>1 DEF RunRecord, RunOK
<1>4. run' = [run EXCEPT ![r] = C]
  BY DEF Delivered
<1> HIDE DEF C
<1>5. C.checked + C.failed = Q.checked + Q.failed + 1 /\ C.undelivered <= C.checked
  BY <1>2, <1>3
<1>6. RunOK(C)
  BY <1>1, <1>2, <1>5, OneMoreCounted
<1>7. QED
  BY <1>4, <1>6, RunStepKeeps DEF Delivered, MonitorInv, TypeOK

\* Whatever stops an attempt, the handler leaves a sound run.
LEMMA HandlerKeeps ==
  ASSUME MonitorInv, NEW r \in Runs, run[r].phase \in {"loaded", "locked", "dispatching"},
         HandleError(r), UNCHANGED <<dbVars, runs, misses>>, faults' \in Nat,
         update' \in [Updaters -> UpdateRecord]
  PROVE  MonitorInv'
<1>1. PICK D \in RunRecord : RunOK(D) /\ run' = [run EXCEPT ![r] = D]
  BY HandledFacts
<1>2. QED
  BY <1>1, RunStepKeeps DEF MonitorInv, TypeOK

LEMMA FinishKeeps ==
  ASSUME MonitorInv, NEW r \in Runs, FinishRun(r)
  PROVE  MonitorInv'
<1> DEFINE Q == run[r]
           o == IF Q.targets # {} /\ Q.checked = 0 /\ Q.broke THEN "failed" ELSE "succeeded"
           P == IdleRun.probed
           R == [Q EXCEPT !.phase = "done", !.probed = P, !.answered = {}, !.outcome = o]
<1>1. Q \in RunRecord /\ Q.phase = "writing" /\ RunOK(Q)
  BY DEF MonitorInv, RunOK, FinishRun
<1>2. run' = [run EXCEPT ![r] = R] /\ faults' \in Nat
  <2>1. run \in [Runs -> RunRecord] /\ faults \in Nat
    BY DEF MonitorInv, TypeOK
  <2>2. faults' \in Nat
    BY <2>1 DEF FinishRun
  <2>3. run' = [run EXCEPT ![r].phase = "done", ![r].probed = P, ![r].answered = {},
                           ![r].outcome = o]
    BY DEF FinishRun
  <2> HIDE DEF P, o
  <2>4. QED
    BY <2>1, <2>2, <2>3
<1>3. P \in [Servers -> Addresses] /\ o \in {"failed", "succeeded"}
  BY IdleRunOK DEF RunOK, RunRecord
<1> HIDE DEF P, o
<1>4. R \in RunRecord
  BY <1>1, <1>3 DEF RunRecord
<1>5. /\ R.phase = "done" /\ R.todo = Q.todo /\ R.targets = Q.targets
      /\ R.checked = Q.checked /\ R.failed = Q.failed /\ R.undelivered = Q.undelivered
  BY <1>1 DEF RunRecord
<1> HIDE DEF R
<1>6. RunOK(R)
  BY <1>1, <1>4, <1>5 DEF RunOK
<1>7. QED
  BY <1>2, <1>6, RunStepKeeps DEF FinishRun, MonitorInv, TypeOK

LEMMA CrashKeeps ==
  ASSUME MonitorInv, NEW r \in Runs, Crash(r)
  PROVE  MonitorInv'
<1>1. run' = [run EXCEPT ![r] = IdleRun] /\ faults' \in Nat
  BY DEF Crash, MonitorInv, TypeOK
<1>2. QED
  BY <1>1, IdleRunOK, RunStepKeeps DEF Crash, MonitorInv, TypeOK

\* Requests: an edit changes an address and stamps the row, a deletion forgets it.
LEMMA UpdateKeeps ==
  ASSUME MonitorInv, NEW u \in Updaters, UNCHANGED <<run, runs, faults, misses, notes, clock>>,
         \/ UpdateProgress(u)
         \/ \E s \in Servers, a \in Addresses : BeginUpdate(u, s, a)
  PROVE  MonitorInv'
<1> DEFINE W == update[u]
<1>1. W \in UpdateRecord /\ row \in [Servers -> RowRecord]
  BY DEF MonitorInv, TypeOK
<1>2. update' \in [Updaters -> UpdateRecord]
  <2>1. CASE \E s \in Servers, a \in Addresses : BeginUpdate(u, s, a)
    BY <2>1 DEF BeginUpdate, MonitorInv, TypeOK, UpdateRecord
  <2>2. CASE LockForUpdate(u)
    <3> DEFINE R == [W EXCEPT !.phase = "locked"]
    <3>1. R \in UpdateRecord
      BY <1>1 DEF UpdateRecord
    <3>2. update' = [update EXCEPT ![u] = R]
      BY <2>2 DEF LockForUpdate, MonitorInv, TypeOK
    <3>3. QED
      BY <3>1, <3>2 DEF MonitorInv, TypeOK
  <2>3. CASE CommitUpdate(u)
    BY <2>3, IdleUpdateType DEF CommitUpdate, MonitorInv, TypeOK
  <2>4. QED
    BY <2>1, <2>2, <2>3 DEF UpdateProgress
<1>3. row' \in [Servers -> RowRecord] /\ \A s \in Servers : row'[s].stamped
  <2>1. CASE CommitUpdate(u)
    <3> DEFINE E(s) == [row[s] EXCEPT !.addr = W.addr, !.stamped = TRUE]
    <3>1. ASSUME NEW s \in Servers PROVE E(s) \in RowRecord /\ E(s).stamped
      <4>1. row[s] \in RowRecord /\ W.addr \in Addresses
        BY <1>1 DEF UpdateRecord
      <4>2. QED
        BY <4>1 DEF RowRecord
    <3>2. row' = [s \in Servers |-> IF s \in W.servers THEN E(s) ELSE row[s]]
      BY <2>1 DEF CommitUpdate
    <3> HIDE DEF E
    <3>3. QED
      BY <1>1, <3>1, <3>2 DEF MonitorInv, EveryCheckIsStamped
  <2>2. CASE ~ CommitUpdate(u)
    BY <2>2 DEF UpdateProgress, BeginUpdate, LockForUpdate, dbVars, MonitorInv, TypeOK,
                EveryCheckIsStamped
  <2>3. QED
    BY <2>1, <2>2
<1>4. QED
  BY <1>2, <1>3 DEF MonitorInv, TypeOK, EveryCheckIsStamped

LEMMA DeleteKeeps ==
  ASSUME MonitorInv, NEW s \in Servers, DeleteServer(s)
  PROVE  MonitorInv'
<1>1. GoneRow.stamped
  BY DEF GoneRow, FreshRow
<1>2. row' \in [Servers -> RowRecord] /\ \A x \in Servers : row'[x].stamped
  BY <1>1, FreshRowType DEF DeleteServer, MonitorInv, TypeOK, EveryCheckIsStamped
<1>3. QED
  BY <1>2 DEF DeleteServer, MonitorInv, TypeOK, EveryCheckIsStamped

LEMMA MonitorStep == MonitorInv /\ [Next]_vars => MonitorInv'
<1> SUFFICES ASSUME MonitorInv, [Next]_vars PROVE MonitorInv'
  OBVIOUS
<1>1. ASSUME NEW r \in Runs, RunProgress(r) PROVE MonitorInv'
  <2>1. CASE WriteGone(r)
    BY <2>1, HandlerKeeps DEF WriteGone, dbVars, MonitorInv, TypeOK
  <2>2. ASSUME NEW u \in Updaters, DeadlockBroken(r, u) PROVE MonitorInv'
    <3>1. CASE HandleError(r) /\ UNCHANGED update
      BY <2>2, <3>1, HandlerKeeps DEF DeadlockBroken, dbVars, MonitorInv, TypeOK
    <3>2. CASE update' = [update EXCEPT ![u] = IdleUpdate] /\ UNCHANGED run
      BY <2>2, <3>2, IdleUpdateType DEF DeadlockBroken, dbVars, MonitorInv, TypeOK,
                                        EveryCheckIsStamped
    <3>3. QED
      BY <2>2, <3>1, <3>2 DEF DeadlockBroken
  <2>3. QED
    BY <1>1, <2>1, <2>2, ProbeKeeps, SkipKeeps, LoadKeeps, LockKeeps, RecordKeeps,
       DeliverKeeps, FinishKeeps DEF RunProgress
<1>2. ASSUME NEW r \in Runs, AttemptFails(r) PROVE MonitorInv'
  BY <1>2, HandlerKeeps DEF AttemptFails, dbVars, MonitorInv, TypeOK
<1>3. ASSUME NEW u \in Updaters,
             \/ UpdateProgress(u)
             \/ \E s \in Servers, a \in Addresses : BeginUpdate(u, s, a)
      PROVE  MonitorInv'
  <2>1. UNCHANGED <<run, runs, faults, misses, notes, clock>>
    BY <1>3 DEF UpdateProgress, BeginUpdate, LockForUpdate, CommitUpdate, dbVars
  <2>2. QED
    BY <1>3, <2>1, UpdateKeeps
<1>4. CASE UNCHANGED vars
  BY <1>4 DEF vars, dbVars, MonitorInv, TypeOK, EveryCheckIsStamped
<1>5. QED
  BY <1>1, <1>2, <1>3, <1>4, StartKeeps, CrashKeeps, DeleteKeeps DEF Next

LEMMA MonitorInvariant == Spec => []MonitorInv
<1>1. QED
  BY InitInv, MonitorStep, PTL DEF Spec

(* Every reachable state is well typed (all of the module's state). *)
THEOREM TypeCorrect == Spec => []TypeOK
<1>1. MonitorInv => TypeOK
  BY DEF MonitorInv
<1>2. QED
  BY <1>1, MonitorInvariant, PTL

(* The journal of a run accounts for every server it set out to check, however
   many runs overlap (_apply_results and its exception handler). *)
THEOREM NoTargetIsLost == Spec => []EveryTargetIsCounted
<1>1. MonitorInv => EveryTargetIsCounted
  BY DEF MonitorInv, RunOK, EveryTargetIsCounted
<1>2. QED
  BY <1>1, MonitorInvariant, PTL

(* Every verdict is committed with a version of its own (touch_entity_sync before
   apply_check_result, which commits in create_notification). *)
THEOREM VerdictsAreStamped == Spec => []EveryCheckIsStamped
<1>1. MonitorInv => EveryCheckIsStamped
  BY DEF MonitorInv
<1>2. QED
  BY <1>1, MonitorInvariant, PTL

-----------------------------------------------------------------------------
(* Only a verdict touches the notifications, the clock and the verdicts.     *)

\* What a step that is not a verdict leaves of a row: all but address and stamp,
\* unless the server is deleted.
LEMMA QuietSteps ==
  ASSUME MonitorInv, [Next]_vars, \A r \in Runs : ~ Record(r)
  PROVE  /\ UNCHANGED <<notes, clock>>
         /\ \A s \in Servers :
              \/ /\ row'[s].exists = row[s].exists /\ row'[s].ok = row[s].ok
                 /\ row'[s].failures = row[s].failures /\ row'[s].at = row[s].at
                 /\ misses'[s] = misses[s]
              \/ row'[s] = GoneRow /\ misses'[s] = 0
<1> DEFINE Same(s) ==
      \/ /\ row'[s].exists = row[s].exists /\ row'[s].ok = row[s].ok
         /\ row'[s].failures = row[s].failures /\ row'[s].at = row[s].at
         /\ misses'[s] = misses[s]
      \/ row'[s] = GoneRow /\ misses'[s] = 0
<1>1. CASE UNCHANGED <<dbVars, misses>>
  BY <1>1 DEF dbVars
<1>2. ASSUME NEW u \in Updaters, CommitUpdate(u)
      PROVE  UNCHANGED <<notes, clock>> /\ \A s \in Servers : Same(s)
  <2>1. ASSUME NEW s \in Servers PROVE Same(s)
    <3> DEFINE E == [row[s] EXCEPT !.addr = update[u].addr, !.stamped = TRUE]
    <3>1. row[s] \in RowRecord
      BY DEF MonitorInv, TypeOK
    <3>2. E.exists = row[s].exists /\ E.ok = row[s].ok /\ E.failures = row[s].failures
          /\ E.at = row[s].at
      BY <3>1 DEF RowRecord
    <3>3. row'[s] = E \/ row'[s] = row[s]
      BY <1>2 DEF CommitUpdate
    <3> HIDE DEF E
    <3>4. QED
      BY <1>2, <3>2, <3>3 DEF CommitUpdate
  <2>2. QED
    BY <1>2, <2>1 DEF CommitUpdate
<1>3. ASSUME NEW s \in Servers, DeleteServer(s)
      PROVE  UNCHANGED <<notes, clock>> /\ \A x \in Servers : Same(x)
  BY <1>3 DEF DeleteServer, MonitorInv, TypeOK
<1> HIDE DEF Same
<1>4. UNCHANGED <<notes, clock>> /\ \A s \in Servers : Same(s)
  <2>1. CASE UNCHANGED vars
    BY <1>1, <2>1 DEF vars, dbVars, Same
  <2>2. ASSUME NEW r \in Runs, StartRun(r) \/ RunProgress(r) \/ AttemptFails(r) \/ Crash(r)
        PROVE  UNCHANGED <<dbVars, misses>>
    BY <2>2 DEF StartRun, RunProgress, Probe, SkipServer, LoadServer, LockSyncState, Delivered,
                WriteGone, DeadlockBroken, FinishRun, AttemptFails, Crash
  <2>3. ASSUME NEW u \in Updaters,
               LockForUpdate(u) \/ \E s \in Servers, a \in Addresses : BeginUpdate(u, s, a)
        PROVE  UNCHANGED <<dbVars, misses>>
    BY <2>3 DEF LockForUpdate, BeginUpdate
  <2>4. QED
    BY <1>1, <1>2, <1>3, <2>1, <2>2, <2>3 DEF Next, UpdateProgress, Same
<1>5. QED
  BY <1>4 DEF Same

\* The notification of a verdict says what the verdict says.
LEMMA NoteSaysTheVerdict ==
  ASSUME MonitorInv, NEW r \in Runs, run[r].phase = "locked", NEW ok \in BOOLEAN,
         NEW was, Transition(r, ok) # "none"
  PROVE  /\ Note(r, ok).kind = Merge(was, run[r].loaded.ok, Status(r, ok))
         /\ Note(r, ok).server = Current(r)
BY DEF Note, Transition, Status, Merge

LEMMA NoteStep == MonitorInv /\ [Next]_vars =>
  \A n \in notes' \ notes : /\ row'[n.server].exists
                            /\ row'[n.server].ok = n.kind
                            /\ row'[n.server].at = clock'
<1> SUFFICES ASSUME MonitorInv, [Next]_vars, NEW n \in notes' \ notes
             PROVE  /\ row'[n.server].exists
                    /\ row'[n.server].ok = n.kind
                    /\ row'[n.server].at = clock'
  OBVIOUS
<1>1. PICK r \in Runs : Record(r)
  BY QuietSteps
<1> DEFINE c == Current(r)
<1>2. PICK ok \in BOOLEAN, new \in BOOLEAN :
        /\ new => Transition(r, ok) # "none"
        /\ row' = [row EXCEPT ![c] = Verdict(r, c, ok, new)]
        /\ notes' = IF new THEN notes \cup {Note(r, ok)} ELSE notes
  BY <1>1, RecordFacts
<1>3. run[r].phase = "locked" /\ row[c].exists /\ clock' = clock + 1
  BY <1>1 DEF Record
<1>4. c \in Servers
  BY <1>3, CurrentIsToDo DEF MonitorInv, RunOK, RunRecord
<1> DEFINE V == Verdict(r, c, ok, new)
<1>5. /\ V.exists = row[c].exists
      /\ V.ok = Merge(row[c].ok, run[r].loaded.ok, Status(r, ok))
      /\ V.at = clock + 1
  BY <1>3, <1>4, VerdictFacts
<1>6. new /\ n = Note(r, ok)
  BY <1>2
<1>7. n.server = c /\ n.kind = V.ok
  BY <1>2, <1>3, <1>5, <1>6, NoteSaysTheVerdict
<1>8. row'[c] = V
  BY <1>2, <1>4 DEF MonitorInv, TypeOK
<1> HIDE DEF V, c
<1>9. QED
  BY <1>3, <1>5, <1>7, <1>8

(* A notification is created in the commit of the verdict it announces, whatever
   overlaps, fails or is deleted (create_notification in apply_check_result). *)
THEOREM NotesAnnounceVerdicts == Spec => NotesComeWithTheVerdict
<1>1. MonitorInv /\ [Next]_vars =>
        [\A n \in notes' \ notes : /\ row'[n.server].exists
                                   /\ row'[n.server].ok = n.kind
                                   /\ row'[n.server].at = clock']_vars
  BY NoteStep
<1>2. QED
  BY <1>1, MonitorInvariant, PTL DEF Spec, NotesComeWithTheVerdict

-----------------------------------------------------------------------------
(* One run at a time.                                                        *)

\* The bookkeeping of the record a run gets: LandedOnce as a fact of that record.
LEMMA LandedRecord ==
  ASSUME MonitorInv, OneRunAtATime, NEW r \in Runs, NEW D \in RunRecord,
         run' = [run EXCEPT ![r] = D],
         D.phase \notin {"loaded", "locked", "dispatching"},
         D.phase = "probing" => D.landed = {},
         D.landed \cap D.todo = {}, D.checked <= Cardinality(D.landed)
  PROVE  \A q \in Runs : LoadedIsCurrent(q)' /\ LandedOnce(q)'
<1> SUFFICES ASSUME NEW q \in Runs PROVE LoadedIsCurrent(q)' /\ LandedOnce(q)'
  OBVIOUS
<1>1. run'[q] = D
  BY DEF OneRunAtATime, MonitorInv, TypeOK
<1>2. D.checked + 0 = D.checked
  BY DEF RunRecord
<1>3. LoadedIsCurrent(q)'
  BY <1>1 DEF LoadedIsCurrent
<1>4. LandedOnce(q)'
  BY <1>1, <1>2 DEF LandedOnce
<1>5. QED
  BY <1>3, <1>4

\* While a run is at a server, a newer check of it is the run's own.
LEMMA OnlyOwnChecksLand ==
  ASSUME MonitorInv, SingleInv, NEW r \in Runs, run[r].phase \in {"loaded", "locked"}
  PROVE  ~ CheckLanded(r)
<1>1. Current(r) \in Servers
  BY CurrentIsToDo DEF MonitorInv, RunOK, RunRecord
<1>2. /\ run[r].attempted = clock
      /\ row[Current(r)].at <= clock
      /\ clock \in Nat
      /\ row[Current(r)] \in RowRecord
  BY <1>1 DEF SingleInv, LoadedIsCurrent, RowsAreHistory, MonitorInv, TypeOK
<1>3. row[Current(r)].at \in Nat
  BY <1>2 DEF RowRecord
<1>4. ~ (row[Current(r)].at > run[r].attempted)
  BY <1>2, <1>3
<1>5. QED
  BY <1>4 DEF CheckLanded

LEMMA LandedTypes ==
  ASSUME MonitorInv, NEW r \in Runs
  PROVE  /\ run[r].landed \subseteq Servers /\ IsFiniteSet(run[r].landed)
         /\ Cardinality(run[r].landed) \in Nat
         /\ run[r].checked \in Nat
<1>1. run[r].landed \subseteq Servers /\ run[r].checked \in Nat
  BY DEF MonitorInv, RunOK, RunRecord
<1>2. QED
  BY <1>1, ServersAssumption, FS_Subset, FS_CardinalityType

LEMMA HandlerKeepsCount ==
  ASSUME MonitorInv, SingleInv, OneRunAtATime, NEW r \in Runs,
         run[r].phase \in {"loaded", "locked", "dispatching"}, HandleError(r)
  PROVE  \A q \in Runs : LoadedIsCurrent(q)' /\ LandedOnce(q)'
<1>1. PICK D \in RunRecord :
           /\ run' = [run EXCEPT ![r] = D]
           /\ D.phase = "writing"
           /\ D.todo = run[r].todo \ {Current(r)}
           /\ D.landed = run[r].landed
           /\ D.checked = IF CheckLanded(r) /\ D.failed = run[r].failed
                          THEN run[r].checked + 1 ELSE run[r].checked
  BY HandledFacts
<1>2. LandedOnce(r)
  BY DEF SingleInv
<1>3. D.landed \cap D.todo = {}
  BY <1>1, <1>2 DEF LandedOnce
<1>4. D.checked <= Cardinality(D.landed)
  <2>1. CASE run[r].phase = "dispatching"
    BY <1>1, <1>2, <2>1, LandedTypes DEF LandedOnce
  <2>2. CASE run[r].phase # "dispatching"
    BY <1>1, <1>2, <2>2, LandedTypes, OnlyOwnChecksLand DEF LandedOnce
  <2>3. QED
    BY <2>1, <2>2
<1>5. QED
  BY <1>1, <1>3, <1>4, LandedRecord

\* A step of the run that is not a verdict keeps what it loaded and landed.
LEMMA RunKeepsCount ==
  ASSUME MonitorInv, SingleInv, OneRunAtATime, NEW r \in Runs,
         StartRun(r) \/ RunProgress(r) \/ AttemptFails(r) \/ Crash(r), ~ Record(r)
  PROVE  \A q \in Runs : LoadedIsCurrent(q)' /\ LandedOnce(q)'
<1> DEFINE Q == run[r]
           Goal == \A q \in Runs : LoadedIsCurrent(q)' /\ LandedOnce(q)'
<1>1. Q \in RunRecord /\ RunOK(Q) /\ run \in [Runs -> RunRecord]
  BY DEF MonitorInv, TypeOK
<1>2. LandedOnce(r) /\ LoadedIsCurrent(r)
  BY DEF SingleInv
<1>3. IdleRun \in RunRecord /\ IdleRun.phase = "idle" /\ IdleRun.landed = {}
      /\ IdleRun.checked = 0 /\ IdleRun.todo = {} /\ Cardinality({}) = 0
  BY IdleRunOK, FS_EmptySet DEF RunOK, IdleRun
<1>4. MonitorInv'
  <2>1. Next
    BY DEF Next
  <2>2. QED
    BY <2>1, MonitorStep
<1>5. run'[r] \in RunRecord /\ run' = [run EXCEPT ![r] = run'[r]]
  <2>1. run' \in [Runs -> RunRecord]
    BY <1>4 DEF MonitorInv, TypeOK
  <2>2. \A q \in Runs : q = r
    BY DEF OneRunAtATime
  <2>3. QED
    BY <1>1, <2>1, <2>2
<1>6. CASE StartRun(r)
  <2>1. run'[r].phase = "probing" /\ run'[r].landed = {} /\ run'[r].todo = {}
        /\ run'[r].checked = 0
    BY <1>1, <1>3, <1>6 DEF StartRun, RunRecord
  <2>2. QED
    BY <1>3, <1>5, <2>1, LandedRecord
<1>7. CASE Probe(r)
  <2>1. run'[r].phase = "writing" /\ run'[r].landed = Q.landed /\ run'[r].checked = Q.checked
        /\ Q.phase = "probing"
    BY <1>1, <1>7 DEF Probe, RunRecord
  <2>2. Q.landed = {} /\ Q.checked = 0
    BY <1>1, <1>2, <2>1 DEF LandedOnce, RunOK
  <2>3. /\ run'[r].landed \cap run'[r].todo = {}
        /\ run'[r].checked <= Cardinality(run'[r].landed)
    BY <1>3, <2>1, <2>2
  <2>4. QED
    BY <1>5, <2>1, <2>3, LandedRecord
<1>8. CASE SkipServer(r)
  <2>1. run'[r].phase = "writing" /\ run'[r].landed = Q.landed /\ run'[r].checked = Q.checked
        /\ run'[r].todo = Q.todo \ {Current(r)} /\ Q.phase = "writing"
    BY <1>1, <1>8 DEF SkipServer, RunRecord
  <2>2. Q.landed \cap Q.todo = {} /\ Q.checked <= Cardinality(Q.landed)
    BY <1>2, <2>1, LandedTypes DEF LandedOnce
  <2>3. QED
    BY <1>5, <2>1, <2>2, LandedRecord
<1>9. CASE Delivered(r)
  <2>1. /\ Counted(r).phase = "writing" /\ Counted(r).landed = Q.landed
        /\ Counted(r).checked = Q.checked + 1 /\ Counted(r).todo = Q.todo \ {Current(r)}
    BY <1>1, CountedFacts
  <2>2. run'[r] = Counted(r) /\ Q.phase = "dispatching"
    BY <1>1, <1>9 DEF Delivered
  <2>3. run'[r].landed \cap run'[r].todo = {}
    BY <1>2, <2>1, <2>2 DEF LandedOnce
  <2>4. run'[r].checked <= Cardinality(run'[r].landed)
    BY <1>2, <2>1, <2>2, LandedTypes DEF LandedOnce
  <2>5. run'[r].phase = "writing"
    BY <2>1, <2>2
  <2>6. QED
    BY <1>5, <2>3, <2>4, <2>5, LandedRecord
<1>10. CASE FinishRun(r)
  <2>1. run'[r].phase = "done" /\ run'[r].landed = Q.landed /\ run'[r].checked = Q.checked
        /\ run'[r].todo = Q.todo /\ Q.phase = "writing"
    BY <1>1, <1>10 DEF FinishRun, RunRecord
  <2>2. Q.landed \cap Q.todo = {} /\ Q.checked <= Cardinality(Q.landed)
    BY <1>2, <2>1, LandedTypes DEF LandedOnce
  <2>3. QED
    BY <1>5, <2>1, <2>2, LandedRecord
<1>11. CASE Crash(r)
  <2>1. run'[r] = IdleRun
    BY <1>1, <1>11 DEF Crash
  <2>2. QED
    BY <1>3, <1>5, <2>1, LandedRecord
<1>12. CASE LoadServer(r) \/ LockSyncState(r)
  <2> SUFFICES ASSUME NEW q \in Runs PROVE LoadedIsCurrent(q)' /\ LandedOnce(q)'
    OBVIOUS
  <2>1. q = r
    BY DEF OneRunAtATime
  <2>2. /\ run'[r].phase \in {"loaded", "locked"} /\ run'[r].todo = Q.todo
        /\ run'[r].landed = Q.landed /\ run'[r].checked = Q.checked
        /\ Q.phase \in {"writing", "loaded"}
    BY <1>1, <1>12 DEF LoadServer, LockSyncState, RunRecord
  <2>3. Current(r)' = Current(r)
    BY <2>2 DEF Current
  <2>4. LandedOnce(r)'
    BY <1>2, <2>2, <2>3 DEF LandedOnce
  <2>5. row' = row /\ clock' = clock
    BY <1>12 DEF LoadServer, LockSyncState, dbVars
  <2>6. LoadedIsCurrent(r)'
    <3>1. CASE LoadServer(r)
      <4>1. run'[r].loaded = row[Current(r)] /\ run'[r].attempted = clock
        BY <1>1, <3>1 DEF LoadServer, RunRecord
      <4>2. QED
        BY <2>3, <2>5, <4>1 DEF LoadedIsCurrent
    <3>2. CASE LockSyncState(r)
      <4>1. run'[r].loaded = Q.loaded /\ run'[r].attempted = Q.attempted /\ Q.phase = "loaded"
        BY <1>1, <3>2 DEF LockSyncState, RunRecord
      <4>2. QED
        BY <1>2, <2>3, <2>5, <4>1 DEF LoadedIsCurrent
    <3>3. QED
      BY <1>12, <3>1, <3>2
  <2>7. QED
    BY <2>1, <2>4, <2>6
<1>13. CASE WriteGone(r) \/ AttemptFails(r)
  BY <1>13, HandlerKeepsCount DEF WriteGone, AttemptFails
<1>14. ASSUME NEW u \in Updaters, DeadlockBroken(r, u) PROVE Goal
  <2>1. CASE HandleError(r)
    BY <1>14, <2>1, HandlerKeepsCount DEF DeadlockBroken
  <2>2. CASE UNCHANGED run
    <3>1. run' = run /\ row' = row /\ clock' = clock
      BY <1>14, <2>2 DEF DeadlockBroken, dbVars
    <3>2. QED
      BY <3>1 DEF SingleInv, LoadedIsCurrent, LandedOnce, Current
  <2>3. QED
    BY <1>14, <2>1, <2>2 DEF DeadlockBroken
<1>15. QED
  BY <1>6, <1>7, <1>8, <1>9, <1>10, <1>11, <1>12, <1>13, <1>14 DEF RunProgress

\* With one run at a time a verdict is of the row as it is: the counter becomes the
\* history, and a notification is due exactly when the server turns.
LEMMA VerdictIsHistory ==
  ASSUME MonitorInv, SingleInv, NEW r \in Runs, Record(r), NEW ok \in BOOLEAN,
         NEW new \in BOOLEAN
  PROVE  LET c == Current(r)
             V == Verdict(r, c, ok, new)
             m == IF ok THEN 0 ELSE misses[c] + 1
             t == Transition(r, ok)
         IN  /\ c \in Servers
             /\ V.exists
             /\ V.failures = m
             /\ V.ok = "down" <=> m >= FailureThreshold
             /\ V.at = clock + 1
             /\ t = "up" <=> ok /\ row[c].ok = "down"
             /\ t = "down" <=> ~ ok /\ row[c].ok # "down" /\ V.ok = "down"
             /\ t \in {"none", "up", "down"}
             /\ run[r].loaded.at = row[c].at
<1> DEFINE c == Current(r)
           V == Verdict(r, c, ok, new)
           m == IF ok THEN 0 ELSE misses[c] + 1
           t == Transition(r, ok)
           l == run[r].loaded
<1>1. run[r].phase = "locked" /\ row[c].exists
  BY DEF Record
<1>2. c \in Servers
  BY <1>1, CurrentIsToDo DEF MonitorInv, RunOK, RunRecord
<1>3. /\ l.failures = row[c].failures /\ l.ok = row[c].ok /\ l.at = row[c].at
  BY <1>1 DEF SingleInv, LoadedIsCurrent
<1>4. /\ row[c].failures = misses[c]
      /\ row[c].ok = "down" <=> misses[c] >= FailureThreshold
      /\ misses[c] \in Nat
  BY <1>2 DEF SingleInv, RowsAreHistory, MonitorInv, TypeOK
<1>5. /\ V.exists = row[c].exists
      /\ V.failures = Merge(row[c].failures, l.failures, Failures(r, ok))
      /\ V.ok = Merge(row[c].ok, l.ok, Status(r, ok))
      /\ V.at = clock + 1
  BY <1>1, <1>2, VerdictFacts
<1> HIDE DEF V, c
<1>6. Failures(r, ok) = m
  BY <1>3, <1>4 DEF Failures
<1>7. V.failures = m /\ V.ok = Status(r, ok)
  BY <1>3, <1>5, <1>6 DEF Merge
<1>8. /\ t = "up" <=> ok /\ row[c].ok = "down"
      /\ t = "down" <=> ~ ok /\ row[c].ok # "down" /\ m >= FailureThreshold
      /\ t \in {"none", "up", "down"}
  BY <1>3, <1>6 DEF Transition
<1>9. V.ok = "down" <=> m >= FailureThreshold
  <2>1. CASE ok
    <3>1. Status(r, ok) = "up"
      BY <1>8, <2>1 DEF Status
    <3>2. m = 0 /\ ~ (0 >= FailureThreshold)
      BY <2>1, ThresholdAssumption
    <3>3. QED
      BY <1>7, <3>1, <3>2
  <2>2. CASE ~ ok /\ t = "down"
    BY <1>7, <1>8, <2>2 DEF Status
  <2>3. CASE ~ ok /\ t # "down"
    <3>1. V.ok = row[c].ok
      BY <1>3, <1>7, <2>3 DEF Status
    <3>2. QED
      BY <1>4, <1>8, <2>3, <3>1, ThresholdAssumption
  <2>4. QED
    BY <2>1, <2>2, <2>3
<1>10. QED
  BY <1>1, <1>2, <1>3, <1>5, <1>7, <1>8, <1>9 DEF V, c

\* A notification of a turn is a new one: its episode has not been told.
LEMMA TurnIsNews ==
  ASSUME MonitorInv, SingleInv, NEW r \in Runs, Record(r), NEW ok \in BOOLEAN,
         Transition(r, ok) # "none"
  PROVE  Note(r, ok) \notin notes
<1> DEFINE c == Current(r)
           n == Note(r, ok)
<1>1. /\ c \in Servers /\ run[r].loaded.at = row[c].at
      /\ Transition(r, ok) = "up" => ok
      /\ Transition(r, ok) = "down" => row[c].ok # "down"
      /\ Transition(r, ok) \in {"none", "up", "down"}
  BY VerdictIsHistory
<1>2. n.server = c /\ n.kind = Transition(r, ok)
      /\ n.marker = IF ok \/ run[r].loaded.at = 0 THEN clock + 1 ELSE run[r].loaded.at
  BY DEF Note
<1>3. clock \in Nat /\ row[c].at \in Nat /\ row[c].exists
  BY <1>1 DEF MonitorInv, TypeOK, RowRecord, Record
<1> SUFFICES ASSUME n \in notes PROVE FALSE
  OBVIOUS
<1>4. /\ n.marker <= clock
      /\ n.kind = "down" /\ row[c].ok # "down" => n.marker < row[c].at
  BY <1>2, <1>3 DEF SingleInv, NotesArePast
<1> HIDE DEF n, c
<1>5. QED
  BY <1>1, <1>2, <1>3, <1>4

\* A verdict keeps the single-run invariant.
LEMMA RecordKeepsSingle ==
  ASSUME MonitorInv, SingleInv, OneRunAtATime, NEW r \in Runs, Record(r)
  PROVE  SingleInv'
<1> DEFINE c == Current(r)
<1>1. PICK ok \in BOOLEAN, new \in BOOLEAN, D \in RunRecord :
        /\ new <=> Transition(r, ok) # "none" /\ Note(r, ok) \notin notes
        /\ row' = [row EXCEPT ![c] = Verdict(r, c, ok, new)]
        /\ notes' = IF new THEN notes \cup {Note(r, ok)} ELSE notes
        /\ misses' = [misses EXCEPT ![c] = IF ok THEN 0 ELSE misses[c] + 1]
        /\ run' = [run EXCEPT ![r] = D]
        /\ D.phase = IF new THEN "dispatching" ELSE "writing"
        /\ D.todo = IF new THEN run[r].todo ELSE run[r].todo \ {c}
        /\ D.checked = IF new THEN run[r].checked ELSE run[r].checked + 1
        /\ D.landed = run[r].landed \cup {c}
  BY RecordFacts
<1> DEFINE V == Verdict(r, c, ok, new)
           m == IF ok THEN 0 ELSE misses[c] + 1
<1>2. /\ c \in Servers /\ V.exists /\ V.failures = m /\ V.at = clock + 1
      /\ V.ok = "down" <=> m >= FailureThreshold
      /\ run[r].loaded.at = row[c].at
      /\ Transition(r, ok) = "down" => V.ok = "down"
  BY VerdictIsHistory
<1>3. clock' = clock + 1 /\ clock \in Nat /\ row[c].exists /\ run[r].phase = "locked"
  BY DEF Record, MonitorInv, TypeOK
<1>4. row \in [Servers -> RowRecord] /\ misses \in [Servers -> Nat] /\ run \in [Runs -> RunRecord]
  BY DEF MonitorInv, TypeOK
<1>5. \A s \in Servers : row[s].at \in Nat /\ row[s].at <= clock
  BY <1>4 DEF RowRecord, SingleInv, RowsAreHistory
<1>6. /\ \A s \in Servers : row'[s] = IF s = c THEN V ELSE row[s]
      /\ \A s \in Servers : misses'[s] = IF s = c THEN m ELSE misses[s]
  BY <1>1, <1>2, <1>4
<1>7. notes \subseteq NoteRecord
  BY DEF MonitorInv, TypeOK
<1>8. new => /\ Note(r, ok) \in NoteRecord
             /\ Note(r, ok).server = c
             /\ Note(r, ok).kind = Transition(r, ok)
             /\ Note(r, ok).marker <= clock + 1
  <2>1. Note(r, ok).marker = IF ok \/ run[r].loaded.at = 0 THEN clock + 1
                             ELSE run[r].loaded.at
    BY DEF Note
  <2>2. Note(r, ok).marker <= clock + 1
    BY <1>2, <1>3, <1>5, <2>1
  <2>3. QED
    BY <1>1, <1>3, <2>2, NoteType DEF Note
<1>9. \A q \in Runs : LoadedIsCurrent(q)' /\ LandedOnce(q)'
  <2> SUFFICES ASSUME NEW q \in Runs PROVE LoadedIsCurrent(q)' /\ LandedOnce(q)'
    OBVIOUS
  <2>1. run'[q] = D
    BY <1>1, <1>4 DEF OneRunAtATime
  <2>2. c \in run[r].todo /\ run[r].landed \cap run[r].todo = {}
        /\ run[r].checked + 0 <= Cardinality(run[r].landed)
    <3>1. LandedOnce(r)
      BY DEF SingleInv
    <3>2. QED
      BY <1>3, <3>1, CurrentIsToDo DEF LandedOnce, MonitorInv, RunOK, RunRecord
  <2>3. Cardinality(D.landed) = Cardinality(run[r].landed) + 1
    <3>1. c \notin run[r].landed
      BY <2>2
    <3>2. QED
      BY <1>1, <3>1, LandedTypes, FS_AddElement
  <2>4. LoadedIsCurrent(q)'
    BY <1>1, <2>1 DEF LoadedIsCurrent
  <2>5. D.checked + (IF D.phase = "dispatching" THEN 1 ELSE 0) <= Cardinality(D.landed)
    BY <1>1, <2>2, <2>3, LandedTypes
  <2>6. D.landed \cap D.todo \subseteq {s \in D.todo : D.phase = "dispatching" /\ s = c}
    BY <1>1, <2>2
  <2>7. D.phase = "dispatching" => Current(q)' = c
    <3>1. q = r
      BY DEF OneRunAtATime
    <3>2. D.phase = "dispatching" => run'[q].todo = run[q].todo
      BY <1>1, <2>1, <3>1
    <3>3. QED
      BY <3>1, <3>2 DEF Current
  <2>8. D.phase # "probing"
    BY <1>1
  <2>9. LandedOnce(q)'
    BY <2>1, <2>5, <2>6, <2>7, <2>8 DEF LandedOnce
  <2>10. QED
    BY <2>4, <2>9
<1> HIDE DEF V, m, c
<1>10. RowsAreHistory'
  <2> SUFFICES ASSUME NEW s \in Servers
               PROVE  /\ row'[s].failures = misses'[s]
                      /\ row'[s].ok = "down" <=> misses'[s] >= FailureThreshold
                      /\ row'[s].at <= clock'
    BY DEF RowsAreHistory
  <2>1. CASE s = c
    BY <1>2, <1>3, <1>6, <2>1
  <2>2. CASE s # c
    BY <1>3, <1>5, <1>6, <2>2 DEF SingleInv, RowsAreHistory
  <2>3. QED
    BY <2>1, <2>2
<1>11. NotesArePast'
  <2>1. IsFiniteSet(notes')
    BY <1>1, FS_AddElement DEF SingleInv, NotesArePast
  <2> SUFFICES ASSUME NEW n \in notes'
               PROVE  /\ n.marker <= clock'
                      /\ n.kind = "down" /\ row'[n.server].exists =>
                           /\ n.marker <= row'[n.server].at
                           /\ row'[n.server].ok # "down" => n.marker < row'[n.server].at
    BY <2>1 DEF NotesArePast
  <2>2. CASE n \in notes
    <3>1. n.server \in Servers /\ n.marker \in Nat
      BY <1>7, <2>2 DEF NoteRecord
    <3>2. /\ n.marker <= clock
          /\ n.kind = "down" /\ row[n.server].exists =>
               /\ n.marker <= row[n.server].at
               /\ row[n.server].ok # "down" => n.marker < row[n.server].at
      BY <2>2 DEF SingleInv, NotesArePast
    <3>3. CASE n.server = c
      BY <1>2, <1>3, <1>6, <3>1, <3>2, <3>3
    <3>4. CASE n.server # c
      BY <1>3, <1>6, <3>1, <3>2, <3>4
    <3>5. QED
      BY <3>3, <3>4
  <2>3. CASE n \notin notes
    <3>1. new /\ n = Note(r, ok)
      BY <1>1, <2>3
    <3>2. /\ n.server = c /\ n.kind = Transition(r, ok) /\ n.marker <= clock + 1
      BY <1>8, <3>1
    <3>3. QED
      BY <1>2, <1>3, <1>6, <3>2
  <2>4. QED
    BY <2>2, <2>3
<1>12. QED
  BY <1>9, <1>10, <1>11 DEF SingleInv

\* Edits and deletions change no verdict that is still to be overwritten.
LEMMA RequestsKeepSingle ==
  ASSUME MonitorInv, SingleInv, [Next]_vars, \A r \in Runs : ~ Record(r)
  PROVE  RowsAreHistory' /\ NotesArePast'
<1>1. /\ UNCHANGED <<notes, clock>>
      /\ \A s \in Servers :
           \/ /\ row'[s].exists = row[s].exists /\ row'[s].ok = row[s].ok
              /\ row'[s].failures = row[s].failures /\ row'[s].at = row[s].at
              /\ misses'[s] = misses[s]
           \/ row'[s] = GoneRow /\ misses'[s] = 0
  BY QuietSteps
<1>2. /\ GoneRow.failures = 0 /\ GoneRow.at = 0 /\ GoneRow.ok # "down" /\ ~ GoneRow.exists
      /\ ~ (0 >= FailureThreshold) /\ clock \in Nat
  BY ThresholdAssumption DEF GoneRow, FreshRow, MonitorInv, TypeOK
<1>3. RowsAreHistory'
  <2> SUFFICES ASSUME NEW s \in Servers
               PROVE  /\ row'[s].failures = misses'[s]
                      /\ row'[s].ok = "down" <=> misses'[s] >= FailureThreshold
                      /\ row'[s].at <= clock'
    BY DEF RowsAreHistory
  <2>1. CASE row'[s] = GoneRow /\ misses'[s] = 0
    BY <1>1, <1>2, <2>1
  <2>2. CASE row'[s] # GoneRow \/ misses'[s] # 0
    BY <1>1, <2>2 DEF SingleInv, RowsAreHistory
  <2>3. QED
    BY <2>1, <2>2
<1>4. NotesArePast'
  <2> SUFFICES ASSUME NEW n \in notes
               PROVE  /\ n.marker <= clock
                      /\ n.kind = "down" /\ row'[n.server].exists =>
                           /\ n.marker <= row'[n.server].at
                           /\ row'[n.server].ok # "down" => n.marker < row'[n.server].at
    BY <1>1 DEF NotesArePast, SingleInv
  <2>1. n.server \in Servers
    BY DEF MonitorInv, TypeOK, NoteRecord
  <2>2. QED
    BY <1>1, <1>2, <2>1 DEF SingleInv, NotesArePast
<1>5. QED
  BY <1>3, <1>4

\* A request moves no run, and what a run loaded is still what the row says.
LEMMA RequestsKeepCount ==
  ASSUME MonitorInv, SingleInv, [Next]_vars, \A r \in Runs : ~ Record(r), UNCHANGED run
  PROVE  \A q \in Runs : LoadedIsCurrent(q)' /\ LandedOnce(q)'
<1> SUFFICES ASSUME NEW q \in Runs PROVE LoadedIsCurrent(q)' /\ LandedOnce(q)'
  OBVIOUS
<1>1. /\ UNCHANGED <<notes, clock>>
      /\ \A s \in Servers :
           \/ /\ row'[s].exists = row[s].exists /\ row'[s].ok = row[s].ok
              /\ row'[s].failures = row[s].failures /\ row'[s].at = row[s].at
           \/ row'[s] = GoneRow
  BY QuietSteps
<1>2. ~ GoneRow.exists
  BY DEF GoneRow, FreshRow
<1>3. Current(q)' = Current(q)
  BY DEF Current
<1>4. LandedOnce(q)'
  BY <1>3 DEF SingleInv, LandedOnce
<1>5. LoadedIsCurrent(q)'
  <2> SUFFICES ASSUME run[q].phase \in {"loaded", "locked"}
               PROVE  LoadedIsCurrent(q)'
    BY DEF LoadedIsCurrent
  <2>1. Current(q) \in Servers
    BY CurrentIsToDo DEF MonitorInv, RunOK, RunRecord
  <2>2. LoadedIsCurrent(q)
    BY DEF SingleInv
  <2>3. QED
    BY <1>1, <1>2, <1>3, <2>1, <2>2 DEF LoadedIsCurrent
<1>6. QED
  BY <1>4, <1>5

LEMMA SingleStep ==
  ASSUME OneRunAtATime, MonitorInv, SingleInv, [Next]_vars
  PROVE  SingleInv'
<1>1. CASE \E r \in Runs : Record(r)
  BY <1>1, RecordKeepsSingle
<1>2. CASE \A r \in Runs : ~ Record(r)
  <2>1. RowsAreHistory' /\ NotesArePast'
    BY <1>2, RequestsKeepSingle
  <2>2. CASE \E r \in Runs : StartRun(r) \/ RunProgress(r) \/ AttemptFails(r) \/ Crash(r)
    BY <1>2, <2>1, <2>2, RunKeepsCount DEF SingleInv
  <2>3. CASE UNCHANGED run
    BY <1>2, <2>1, <2>3, RequestsKeepCount DEF SingleInv
  <2>4. UNCHANGED run \/ \E r \in Runs : StartRun(r) \/ RunProgress(r) \/ AttemptFails(r) \/ Crash(r)
    BY DEF Next, UpdateProgress, LockForUpdate, CommitUpdate, BeginUpdate, DeleteServer, vars
  <2>5. QED
    BY <2>2, <2>3, <2>4
<1>3. QED
  BY <1>1, <1>2

LEMMA SingleInvariant == ASSUME OneRunAtATime PROVE Spec => []SingleInv
<1>1. Init => SingleInv
  <2> SUFFICES ASSUME Init PROVE SingleInv
    OBVIOUS
  <2>1. RowsAreHistory /\ NotesArePast
    BY ThresholdAssumption, FS_EmptySet DEF Init, RowsAreHistory, NotesArePast, FreshRow
  <2>2. \A r \in Runs : LoadedIsCurrent(r) /\ LandedOnce(r)
    <3>1. /\ IdleRun.phase = "idle" /\ IdleRun.landed = {} /\ IdleRun.todo = {}
          /\ IdleRun.checked + 0 <= Cardinality({})
      BY FS_EmptySet DEF IdleRun
    <3>2. \A r \in Runs : run[r] = IdleRun
      BY DEF Init
    <3>3. QED
      BY <3>1, <3>2 DEF LoadedIsCurrent, LandedOnce
  <2>3. QED
    BY <2>1, <2>2 DEF SingleInv
<1>2. MonitorInv /\ SingleInv /\ [Next]_vars => SingleInv'
  BY SingleStep
<1>3. QED
  BY <1>1, <1>2, MonitorInvariant, PTL DEF Spec

(* With one run at a time, what the journal calls checked was recorded by that run
   (_check_landed sees no check of anyone else). *)
THEOREM CheckedWasRecorded ==
  ASSUME OneRunAtATime PROVE Spec => []CheckedMeansRecorded
<1>1. MonitorInv /\ SingleInv => CheckedMeansRecorded
  <2> SUFFICES ASSUME MonitorInv, SingleInv, NEW r \in Runs
               PROVE  run[r].checked <= Cardinality(run[r].landed)
    BY DEF CheckedMeansRecorded
  <2>1. LandedOnce(r)
    BY DEF SingleInv
  <2>2. QED
    BY <2>1, LandedTypes DEF LandedOnce
<1>2. Spec => []SingleInv
  BY SingleInvariant
<1>3. QED
  BY <1>1, <1>2, MonitorInvariant, PTL

(* With one run at a time, a server is shown as down exactly from the check that
   confirms the outage to the first answer, for every threshold, through edits,
   deletions, crashes and failed writes (apply_check_result). *)
THEOREM OutagesAreConfirmed ==
  ASSUME OneRunAtATime PROVE Spec => []DownIsConfirmed
<1>1. SingleInv => DownIsConfirmed
  BY DEF SingleInv, RowsAreHistory, DownIsConfirmed
<1>2. Spec => []SingleInv
  BY SingleInvariant
<1>3. QED
  BY <1>1, <1>2, PTL

-----------------------------------------------------------------------------
(* The refinement of OutageEpisodes.                                         *)

Downs == [s \in Servers |-> row[s].ok = "down"]
Tolds == [s \in Servers |-> Cardinality({n \in notes : n.server = s})]

\* A step that is no verdict and no deletion changes nothing that was promised.
LEMMA QuietIsStutter ==
  ASSUME MonitorInv, SingleInv, [Next]_vars, \A r \in Runs : ~ Record(r)
  PROVE  [Episodes!Next]_(Episodes!vars)
<1>1. UNCHANGED notes
  BY QuietSteps
<1>2. misses \in [Servers -> Nat] /\ row \in [Servers -> RowRecord]
  BY DEF MonitorInv, TypeOK
<1>3. Tolds' = Tolds
  BY <1>1 DEF Tolds
<1>4. CASE \E s \in Servers : DeleteServer(s)
  <2>1. PICK s \in Servers : DeleteServer(s)
    BY <1>4
  <2>2. GoneRow.ok # "down"
    BY DEF GoneRow, FreshRow
  <2>3. misses' = [misses EXCEPT ![s] = 0] /\ row' = [row EXCEPT ![s] = GoneRow]
    BY <2>1 DEF DeleteServer
  <2>4. Downs' = [Downs EXCEPT ![s] = FALSE]
    BY <1>2, <2>2, <2>3 DEF Downs
  <2>5. Episodes!Forget(s)
    BY <1>3, <2>3, <2>4 DEF Episodes!Forget, Downs, Tolds
  <2>6. QED
    BY <2>5 DEF Episodes!Next
<1>5. CASE \A s \in Servers : ~ DeleteServer(s)
  <2>1. misses' = misses
    <3>1. ASSUME NEW r \in Runs, StartRun(r) \/ RunProgress(r) \/ AttemptFails(r) \/ Crash(r)
          PROVE  misses' = misses
      BY <3>1 DEF StartRun, RunProgress, Probe, SkipServer, LoadServer, LockSyncState, Delivered,
                  WriteGone, DeadlockBroken, FinishRun, AttemptFails, Crash
    <3>2. ASSUME NEW u \in Updaters,
                 UpdateProgress(u) \/ \E s \in Servers, a \in Addresses : BeginUpdate(u, s, a)
          PROVE  misses' = misses
      BY <3>2 DEF BeginUpdate, UpdateProgress, LockForUpdate, CommitUpdate
    <3>3. QED
      BY <1>5, <3>1, <3>2 DEF Next, vars
  <2>2. \A s \in Servers : row[s].ok = "down" <=> misses[s] >= FailureThreshold
    BY DEF SingleInv, RowsAreHistory
  <2>3. \A s \in Servers : row'[s].ok = "down" <=> misses'[s] >= FailureThreshold
    BY RequestsKeepSingle DEF RowsAreHistory
  <2>4. \A s \in Servers : (row'[s].ok = "down") = (row[s].ok = "down")
    BY <2>1, <2>2, <2>3
  <2>5. Downs' = Downs
    BY <2>4 DEF Downs
  <2>6. QED
    BY <1>3, <2>1, <2>5 DEF Episodes!vars, Downs, Tolds
<1>6. QED
  BY <1>4, <1>5

\* Every notification of a turn adds one to what its owner got.
LEMMA ToldOnce ==
  ASSUME MonitorInv, SingleInv, NEW n \in NoteRecord, n \notin notes,
         notes' = notes \cup {n}
  PROVE  Tolds' = [Tolds EXCEPT ![n.server] = Tolds[n.server] + 1]
<1> DEFINE Of(s) == {x \in notes : x.server = s}
           OfNew(s) == {x \in notes' : x.server = s}
<1>1. \A s \in Servers : IsFiniteSet(Of(s))
  BY FS_Subset DEF SingleInv, NotesArePast
<1>2. ASSUME NEW s \in Servers
      PROVE  Cardinality(OfNew(s)) = IF s = n.server THEN Cardinality(Of(s)) + 1
                                     ELSE Cardinality(Of(s))
  <2>1. CASE s = n.server
    <3>1. OfNew(s) = Of(s) \cup {n} /\ n \notin Of(s)
      BY <2>1
    <3>2. QED
      BY <1>1, <2>1, <3>1, FS_AddElement
  <2>2. CASE s # n.server
    <3>1. OfNew(s) = Of(s)
      BY <2>2
    <3>2. QED
      BY <2>2, <3>1
  <2>3. QED
    BY <2>1, <2>2
<1>3. /\ Tolds = [s \in Servers |-> Cardinality(Of(s))]
      /\ Tolds' = [s \in Servers |-> Cardinality(OfNew(s))]
  BY DEF Tolds
<1>4. n.server \in Servers
  BY DEF NoteRecord
<1> HIDE DEF Of, OfNew
<1>5. QED
  BY <1>2, <1>3, <1>4

\* A verdict is a missed or an answered check of OutageEpisodes.
LEMMA VerdictIsEpisode ==
  ASSUME MonitorInv, SingleInv, NEW r \in Runs, Record(r)
  PROVE  Episodes!Next
<1> DEFINE c == Current(r)
<1>1. PICK ok \in BOOLEAN, new \in BOOLEAN, D \in RunRecord :
        /\ new <=> Transition(r, ok) # "none" /\ Note(r, ok) \notin notes
        /\ row' = [row EXCEPT ![c] = Verdict(r, c, ok, new)]
        /\ notes' = IF new THEN notes \cup {Note(r, ok)} ELSE notes
        /\ misses' = [misses EXCEPT ![c] = IF ok THEN 0 ELSE misses[c] + 1]
        /\ run' = [run EXCEPT ![r] = D]
        /\ D.phase = IF new THEN "dispatching" ELSE "writing"
        /\ D.todo = IF new THEN run[r].todo ELSE run[r].todo \ {c}
        /\ D.checked = IF new THEN run[r].checked ELSE run[r].checked + 1
        /\ D.landed = run[r].landed \cup {c}
  BY RecordFacts
<1> DEFINE V == Verdict(r, c, ok, new)
           m == IF ok THEN 0 ELSE misses[c] + 1
           t == Transition(r, ok)
<1>2. /\ c \in Servers
      /\ V.ok = "down" <=> m >= FailureThreshold
      /\ t = "up" <=> ok /\ row[c].ok = "down"
      /\ t = "down" <=> ~ ok /\ row[c].ok # "down" /\ V.ok = "down"
      /\ t \in {"none", "up", "down"}
  BY VerdictIsHistory
<1>3. /\ row \in [Servers -> RowRecord] /\ misses \in [Servers -> Nat]
      /\ run[r].phase = "locked"
      /\ row[c].ok = "down" <=> misses[c] >= FailureThreshold
  BY <1>2 DEF MonitorInv, TypeOK, Record, SingleInv, RowsAreHistory
<1>4. new <=> t # "none"
  BY <1>1, TurnIsNews
<1>5. Downs' = [Downs EXCEPT ![c] = (V.ok = "down")]
  BY <1>1, <1>2, <1>3 DEF Downs
<1>6. new => Tolds' = [Tolds EXCEPT ![c] = Tolds[c] + 1]
  <2>1. new => Note(r, ok) \in NoteRecord /\ Note(r, ok).server = c
    BY <1>3, <1>4, NoteType DEF Note
  <2>2. QED
    BY <1>1, <2>1, ToldOnce
<1>7. ~ new => Tolds' = Tolds
  BY <1>1 DEF Tolds
<1>8. Downs[c] = (row[c].ok = "down") /\ Downs'[c] = (V.ok = "down")
  BY <1>2, <1>5 DEF Downs
<1> HIDE DEF V, c, t
<1>c. PICK s \in Servers : s = c
  BY <1>2
<1>9. CASE ok
  <2>1. ~ (V.ok = "down")
    BY <1>2, <1>9, ThresholdAssumption
  <2>2. new <=> row[c].ok = "down"
    BY <1>2, <1>4, <1>9
  <2>3. misses' = [misses EXCEPT ![c] = 0]
    BY <1>1, <1>9
  <2>4. Downs' = [Downs EXCEPT ![c] = FALSE]
    BY <1>5, <2>1
  <2>5. Tolds' = IF Downs[c] THEN [Tolds EXCEPT ![c] = Tolds[c] + 1] ELSE Tolds
    BY <1>6, <1>7, <1>8, <2>2
  <2>6. Episodes!Answer(s)
    BY <1>c, <2>3, <2>4, <2>5 DEF Episodes!Answer, Downs, Tolds
  <2>7. QED
    BY <1>c, <2>6 DEF Episodes!Next
<1>10. CASE ~ ok
  <2>1. misses' = [misses EXCEPT ![c] = misses[c] + 1]
    BY <1>1, <1>10
  <2>2. V.ok = "down" <=> row[c].ok = "down" \/ misses[c] + 1 >= FailureThreshold
    BY <1>2, <1>3, <1>10, ThresholdAssumption
  <2>3. (V.ok = "down") = (Downs[c] \/ misses[c] + 1 >= FailureThreshold)
    BY <1>8, <2>2
  <2>4. Downs' = [Downs EXCEPT ![c] = Downs[c] \/ misses[c] + 1 >= FailureThreshold]
    BY <1>5, <2>3
  <2>5. new <=> Downs'[c] # Downs[c]
    BY <1>2, <1>4, <1>8, <1>10, <2>2
  <2>6. Tolds' = IF Downs'[c] # Downs[c] THEN [Tolds EXCEPT ![c] = Tolds[c] + 1] ELSE Tolds
    BY <1>6, <1>7, <2>5
  <2>7. Episodes!Miss(s)
    BY <1>c, <2>1, <2>4, <2>6 DEF Episodes!Miss, Downs, Tolds
  <2>8. QED
    BY <1>c, <2>7 DEF Episodes!Next
<1>11. QED
  BY <1>9, <1>10

(* One run at a time keeps the promise of OutageEpisodes: a server is down from its
   FAILURE_THRESHOLD-th unanswered check in a row to its first answer, and its owner
   is told of each of the two turns exactly once. *)
THEOREM EpisodesAreKept ==
  ASSUME OneRunAtATime PROVE Spec => ImplementsEpisodes
<1>1. Init => Episodes!Init
  <2> SUFFICES ASSUME Init PROVE Episodes!Init
    OBVIOUS
  <2>1. FreshRow.ok # "down"
    BY DEF FreshRow
  <2>2. Downs = [s \in Servers |-> FALSE]
    BY <2>1 DEF Init, Downs
  <2>3. Tolds = [s \in Servers |-> 0]
    <3>1. \A s \in Servers : {n \in notes : n.server = s} = {}
      BY DEF Init
    <3>2. QED
      BY <3>1, FS_EmptySet DEF Tolds
  <2>4. QED
    BY <2>2, <2>3 DEF Init, Episodes!Init, Downs, Tolds
<1>2. MonitorInv /\ SingleInv /\ [Next]_vars => [Episodes!Next]_(Episodes!vars)
  BY QuietIsStutter, VerdictIsEpisode
<1>3. Spec => []SingleInv
  BY SingleInvariant
<1>4. QED
  BY <1>1, <1>2, <1>3, MonitorInvariant, PTL DEF Spec, Episodes!Spec, ImplementsEpisodes
=============================================================================
