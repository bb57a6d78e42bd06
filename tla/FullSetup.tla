----------------------------- MODULE FullSetup -----------------------------
(***************************************************************************)
(* Full setup of several domains: their links in one request, then for     *)
(* each a zone at Cloudflare, its id in the record and its nameservers at  *)
(* the registrar, two domains at a time, and one report at the end.        *)
(***************************************************************************)
EXTENDS Naturals, FiniteSets

CONSTANTS
    Sites,       \* the domains selected
    MaxFaults    \* bound: steps that fail

VARIABLES
    gone,        \* selected domains that are no longer there
    key,         \* the vault key is in the keychain
    linked,      \* domains whose record names the account of the plan
    zone,        \* domains with a zone in that account
    saved,       \* domains whose record names that zone
    delegated,   \* domains whose registrar has that zone's nameservers
    plan,        \* what the form asked for
    pc,          \* "form", "link", "sync", "steps" or "report"
    step,        \* each domain of the run
    touched,     \* domains at which the run changed anything after the links
    faults

world == <<gone, key, linked, zone, saved, delegated>>
vars  == <<world, plan, pc, step, touched, faults>>

Registrars == {"none", "manual", "api"}
NoPlan     == [desktop |-> TRUE, create |-> FALSE, push |-> FALSE, registrar |-> "none"]
Waiting    == [pc |-> "wait", zone |-> "none", saved |-> TRUE, ns |-> "none"]
Off(r)     == [Waiting EXCEPT !.pc = r]

TypeOK ==
    /\ \A set \in {gone, linked, zone, saved, delegated, touched} : set \subseteq Sites
    /\ plan.registrar \in Registrars /\ pc \in {"form", "link", "sync", "steps", "report"}
    /\ \A d \in Sites :
          /\ step[d].pc \in {"wait", "zone", "save", "ns", "ok", "failed", "notstarted", "skipped"}
          /\ step[d].zone \in {"none", "created", "existed", "failed"}
          /\ step[d].ns \in {"none", "pushed", "failed", "skipped", "notrequested"}

Init ==
    /\ gone \in {g \in SUBSET Sites : Cardinality(g) <= 1} /\ key = TRUE
    /\ linked = {} /\ saved = {} /\ delegated = {}
    /\ zone \in {z \in SUBSET Sites : Cardinality(z) <= 1}
    /\ plan = NoPlan /\ pc = "form" /\ step = [d \in Sites |-> Waiting]
    /\ touched = {} /\ faults = 0

Fault == faults < MaxFaults /\ faults' = faults + 1
Sound == UNCHANGED faults

(***************************************************************************)
(* FullSetupFields: what is ticked, and what of it the plan keeps.  A box  *)
(* that is off keeps its tick and does not count.                          *)
(***************************************************************************)
SupportsNs(r) == r = "api"

ZoneToggle(desktop)            == desktop
NsToggle(desktop, create, reg) == desktop /\ create /\ SupportsNs(reg)

PlanFromForm(f) ==
    LET create == f.create /\ ZoneToggle(f.desktop)
    IN [f EXCEPT !.create = create,
                 !.push = f.push /\ NsToggle(f.desktop, create, f.registrar)]

Forms == [desktop : BOOLEAN, create : BOOLEAN, push : BOOLEAN, registrar : Registrars]

\* The dialog closes, and one run at a time goes through runExclusive.
Run(f) ==
    /\ pc = "form" /\ plan' = PlanFromForm(f) /\ pc' = "link"
    /\ UNCHANGED <<world, step, touched, faults>>

\* POST /domains/full-setup: all the links or none, and the ids it did not find.
AssignLinks ==
    /\ pc = "link" /\ linked' = linked \union (Sites \ gone)
    /\ step' = [d \in Sites |-> IF d \in gone THEN Off("skipped") ELSE Waiting]
    /\ pc' = IF plan.create /\ plan.desktop /\ gone # Sites THEN "sync" ELSE "report"
    /\ UNCHANGED <<gone, key, zone, saved, delegated, plan, touched, faults>>

\* syncLocalCache first: the links must be in the cache the commands read.
SyncLocalCache ==
    /\ pc = "sync" /\ pc' = "steps" /\ UNCHANGED <<world, plan, step, touched, faults>>

(***************************************************************************)
(* domain_full_setup.  Only a key that is gone is an error; what fails     *)
(* outside is a line of the result.                                        *)
(***************************************************************************)
Targets    == {d \in Sites : step[d].pc # "skipped"}
InPc(p)    == {d \in Sites : step[d].pc = p}
Working    == InPc("zone") \union InPc("save") \union InPc("ns")
Stopped    == InPc("failed") # {}
SetStep(d, s) == step' = [step EXCEPT ![d] = s]

LoseKey == key /\ key' = FALSE /\ Fault
           /\ UNCHANGED <<gone, linked, zone, saved, delegated, plan, pc, step, touched>>

\* mapWithLimit: the next of the list goes to whichever of the two is free.
Next2 == Cardinality(Working) < 2

Begin(d) ==
    /\ pc = "steps" /\ step[d].pc = "wait" /\ Next2
    /\ SetStep(d, [step[d] EXCEPT !.pc = IF Stopped THEN "notstarted"
                                         ELSE IF key THEN "zone" ELSE "failed"])
    /\ UNCHANGED <<world, plan, pc, touched, faults>>

EnsureZone(d) ==
    /\ step[d].pc = "zone"
    /\ \/ /\ key /\ Sound /\ zone' = zone \union {d}
          /\ touched' = IF d \in zone THEN touched ELSE touched \union {d}
          /\ SetStep(d, [step[d] EXCEPT !.pc = "save",
                                        !.zone = IF d \in zone THEN "existed" ELSE "created"])
       \/ /\ key /\ Fault /\ SetStep(d, [step[d] EXCEPT !.pc = "ns", !.zone = "failed"])
          /\ UNCHANGED <<zone, touched>>
       \/ /\ ~key /\ Sound /\ SetStep(d, Off("failed")) /\ UNCHANGED <<zone, touched>>
    /\ UNCHANGED <<gone, key, linked, saved, delegated, plan, pc>>

\* A zone id that could not be written is told of, and the run goes on.
SaveZoneId(d) ==
    /\ step[d].pc = "save"
    /\ \/ /\ Sound /\ saved' = saved \union {d} /\ touched' = touched \union {d}
          /\ SetStep(d, [step[d] EXCEPT !.pc = "ns"])
       \/ /\ Fault /\ SetStep(d, [step[d] EXCEPT !.pc = "ns", !.saved = FALSE])
          /\ UNCHANGED <<saved, touched>>
    /\ UNCHANGED <<gone, key, linked, zone, delegated, plan, pc>>

NsPlan(d) ==
    IF ~plan.push THEN "notrequested"
    ELSE IF plan.registrar = "none" \/ step[d].zone = "failed" \/ ~SupportsNs(plan.registrar)
         THEN "skipped" ELSE "push"

PushNameservers(d) ==
    /\ step[d].pc = "ns"
    /\ IF NsPlan(d) # "push"
       THEN /\ SetStep(d, [step[d] EXCEPT !.pc = "ok", !.ns = NsPlan(d)])
            /\ Sound /\ UNCHANGED <<delegated, touched>>
       ELSE \/ /\ key /\ Sound
               /\ delegated' = delegated \union {d} /\ touched' = touched \union {d}
               /\ SetStep(d, [step[d] EXCEPT !.pc = "ok", !.ns = "pushed"])
            \/ /\ IF key THEN Fault ELSE Sound
               /\ SetStep(d, [step[d] EXCEPT !.pc = "ok", !.ns = "failed"])
               /\ UNCHANGED <<delegated, touched>>
    /\ UNCHANGED <<gone, key, linked, zone, saved, plan, pc>>

Report ==
    /\ pc = "steps" /\ Targets \subseteq InPc("ok") \union InPc("failed") \union InPc("notstarted")
    /\ pc' = "report" /\ UNCHANGED <<world, plan, step, touched, faults>>

\* The links, the sync or the run itself ended in an error: a notice says so, and
\* the form is free again.
GiveUp ==
    /\ pc \in {"link", "sync"} /\ Fault
    /\ pc' = "form" /\ step' = [d \in Sites |-> Waiting] /\ touched' = {}
    /\ UNCHANGED <<world, plan>>

\* The notice is read and the run is pressed again, with the same form or another.
Again ==
    /\ pc = "report" /\ pc' = "form"
    /\ step' = [d \in Sites |-> Waiting] /\ touched' = {} /\ plan' = NoPlan
    /\ UNCHANGED <<world, faults>>

Next ==
    \/ AssignLinks \/ SyncLocalCache \/ LoseKey \/ Report \/ GiveUp \/ Again
    \/ \E f \in Forms : Run(f)
    \/ \E d \in Sites : Begin(d) \/ EnsureZone(d) \/ SaveZoneId(d) \/ PushNameservers(d)

Spec == Init /\ [][Next]_vars
-----------------------------------------------------------------------------
(***************************************************************************)
(* summarizeFullSetup.                                                     *)
(***************************************************************************)
Items   == InPc("ok")
Aborted == Stopped
NotSetUp == Cardinality(Targets) - Cardinality(Items)

\* MUTANT of AllDone: a zone whose id was not written is not told of.
AllDoneIgnoringIds ==
    /\ gone = {} /\ ~Aborted
    /\ \A d \in Items : step[d].zone # "failed" /\ step[d].ns \notin {"failed", "skipped"}
    /\ (plan.create => plan.desktop)

AllDone ==
    /\ gone = {} /\ ~Aborted
    /\ \A d \in Items : /\ step[d].zone # "failed" /\ step[d].saved
                        /\ step[d].ns \notin {"failed", "skipped"}
    /\ (plan.create => plan.desktop)

\* A notice that raises no warning means that every selected domain is linked and
\* has all the plan asked for: its zone, the zone's id and its nameservers.
InfoMeansDone ==
    pc = "report" /\ AllDone =>
       /\ linked = Sites
       /\ plan.create => Sites \subseteq zone \intersect saved
       /\ plan.push => Sites \subseteq delegated

\* Nothing is changed at Cloudflare or the registrar that the report leaves out: a
\* domain counted as not set up has not been touched.
ChangesAreReported == pc = "report" => touched \subseteq Items

\* The run that stopped says for how many domains it did, and it is not none.
NotSetUpIsCounted ==
    pc = "report" /\ plan.create =>
       /\ Aborted <=> NotSetUp > 0
       /\ NotSetUp = Cardinality(InPc("failed") \union InPc("notstarted"))
=============================================================================
