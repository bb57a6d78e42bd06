----------------------------- MODULE Provision -----------------------------
(***************************************************************************)
(* Provisioning of domains from the desktop application: one domain from   *)
(* its card, a set from the toolbar of the domains page or from a deep     *)
(* link.  A run over SSH cannot be stopped, makes an FTP account once and  *)
(* returns its password once.                                              *)
(***************************************************************************)
EXTENDS Naturals, Sequences, FiniteSets

CONSTANTS
    Domains,     \* the domains of the account
    MaxFaults    \* bound: failed steps, saves and crashes of the application

Singles == {<<"single", d>> : d \in Domains}
Bulks   == {<<"bulk", "page">>, <<"bulk", "link">>}
Runs    == Singles \union Bulks
NoRun   == [pc |-> "no", targets |-> {}, todo |-> {}, made |-> <<>>, heard |-> TRUE]

VARIABLES
    user,        \* userId of the store: TRUE while somebody is signed in
    workspace,   \* DesktopWorkspace is mounted: it is not on the lock screen
    run,         \* the runs of the window
    gate,        \* pending mutations under PROVISION_DOMAIN_KEY, by domain
    account,     \* domains whose FTP account exists on their server
    stored,      \* domains whose record names a blob with the password
    queue,       \* provisionQueue: results shown one after another
    dismissed,   \* results the user has closed with Done
    record,      \* bulk_runs of the local cache, by set of domains: "open" when
                 \* there is none, it failed, or it was left running a day ago
    faults,
    died,        \* domains whose password died with the error of its run, or with
                 \* the application before it was delivered
    unsaved,     \* domains whose password could not be saved: that save failed, or
                 \* nobody was signed in
    unseen,      \* domains whose result was for a workspace that was left
    crashed      \* the application died while a run was on

screen == <<user, workspace, queue, dismissed>>
fates  == <<died, unsaved, unseen, crashed>>
vars   == <<screen, run, gate, account, stored, record, faults, fates>>

TypeOK ==
    /\ \A r \in Runs : /\ run[r].pc \in {"no", "confirm", "ssh", "save"}
                       /\ run[r].todo \subseteq run[r].targets /\ run[r].targets \subseteq Domains
    /\ \A d \in Domains : gate[d] \in {"free", "single", "bulk"}
    /\ stored \subseteq Domains /\ account \subseteq Domains /\ queue \in Seq(Domains)
    /\ died \subseteq Domains /\ unsaved \subseteq Domains /\ unseen \subseteq Domains
    /\ \A k \in SUBSET Domains : record[k] \in {"open", "running", "done"}
    /\ faults \in 0..MaxFaults

Init ==
    /\ user = TRUE /\ workspace = TRUE /\ queue = <<>> /\ dismissed = {}
    /\ run = [r \in Runs |-> NoRun] /\ gate = [d \in Domains |-> "free"]
    /\ account = {} /\ stored = {}
    /\ record = [k \in SUBSET Domains |-> "open"]
    /\ faults = 0 /\ died = {} /\ unsaved = {} /\ unseen = {} /\ crashed = FALSE

Fault == faults < MaxFaults /\ faults' = faults + 1

\* A run that finds the account there returns no password.
Made(m)      == {m[i] : i \in DOMAIN m}
Kind(r)      == r[1]
Active(r)    == run[r].pc \in {"ssh", "save"}
Claim(ds, k) == gate' = [d \in Domains |-> IF d \in ds THEN k ELSE gate[d]]
Release(r)   == Claim(run[r].targets, "free")
InFlight(d)  == \E r \in Runs : Active(r) /\ d \in Made(run[r].made)
Step(r, j)   == run' = [run EXCEPT ![r] = j]

(***************************************************************************)
(* Starting.                                                               *)
(***************************************************************************)
\* handleProvision, and runProvisionDomain of a deep link: a domain whose
\* mutation is pending is refused.
RunSingle(d) ==
    /\ workspace /\ gate[d] = "free" /\ run[<<"single", d>>].pc = "no"
    /\ Claim({d}, "single")
    /\ Step(<<"single", d>>, [NoRun EXCEPT !.pc = "ssh", !.targets = {d}, !.todo = {d}])
    /\ UNCHANGED <<screen, account, stored, record, faults, fates>>

\* The set is fixed before the question is asked.  The button of the toolbar is
\* off while a bulk run holds the gate, and one question is open at a time.
AskBulk(r, ds) ==
    /\ workspace /\ run[r].pc = "no" /\ ds # {}
    /\ r = <<"bulk", "page">> => \A d \in Domains : gate[d] # "bulk"
    /\ Step(r, [NoRun EXCEPT !.pc = "confirm", !.targets = ds])
    /\ UNCHANGED <<screen, gate, account, stored, record, faults, fates>>

\* MUTANT of AlreadyProvisioning: a set is not looked up at the gate.
NeverProvisioning(ds) == {}

\* confirmAction answered no, or runBulkProvisionDomains finds one of the set busy.
AlreadyProvisioning(ds) == {d \in ds : gate[d] # "free"}

Declined(r) ==
    /\ run[r].pc = "confirm" /\ Step(r, NoRun)
    /\ UNCHANGED <<screen, gate, account, stored, record, faults, fates>>

\* provision_bulk: a set that is done, or running and not a day old, is not run
\* again, and nothing of it is started.
Blocks(k) == record[k] \in {"done", "running"}

ConfirmBulk(r) ==
    LET k == run[r].targets IN
    /\ run[r].pc = "confirm" /\ user /\ AlreadyProvisioning(k) = {}
    /\ IF Blocks(k)
       THEN Step(r, NoRun) /\ UNCHANGED <<gate, record>>
       ELSE /\ Claim(k, "bulk") /\ record' = [record EXCEPT ![k] = "running"]
            /\ Step(r, [run[r] EXCEPT !.pc = "ssh", !.todo = k])
    /\ UNCHANGED <<screen, account, stored, faults, fates>>

(***************************************************************************)
(* provision_domain on the server of one domain, and the loop over a set,  *)
(* which stops at the first domain that fails.                             *)
(***************************************************************************)
Provisioned(r) ==
    \E d \in run[r].todo :
       LET rest == run[r].todo \ {d}
           made == IF d \in account THEN run[r].made ELSE Append(run[r].made, d)
       IN /\ run[r].pc = "ssh"
          /\ account' = account \union {d}
          /\ IF Kind(r) = "bulk" /\ rest # {}
             THEN Step(r, [run[r] EXCEPT !.todo = rest, !.made = made])
             ELSE Step(r, [run[r] EXCEPT !.pc = "save", !.todo = Made(made), !.made = made])
          /\ record' = IF Kind(r) = "bulk" /\ rest = {}
                       THEN [record EXCEPT ![run[r].targets] = "done"] ELSE record
          /\ UNCHANGED <<screen, gate, stored, faults, fates>>

\* The account may have been made before a later step failed: its password is
\* gone with the error, and a retry finds the account there.
RunFailed(r) ==
    /\ run[r].pc = "ssh" /\ Fault
    /\ \E made \in SUBSET run[r].todo :
          /\ Cardinality(made) <= 1 /\ account' = account \union made
          /\ died' = died \union (made \ account)
    /\ IF Kind(r) = "bulk"
       THEN /\ record' = [record EXCEPT ![run[r].targets] = "open"]
            /\ Step(r, [run[r] EXCEPT !.pc = "save", !.todo = Made(run[r].made)])
            /\ UNCHANGED gate
       ELSE Step(r, NoRun) /\ Release(r) /\ UNCHANGED record
    /\ UNCHANGED <<screen, stored, unsaved, unseen, crashed>>

\* MUTANT of SaveSecret: a save that fails ends the loop over the report.
SaveSecretStops(r) ==
    LET d == run[r].made[Len(run[r].made) - Cardinality(run[r].todo) + 1]
        fails == ~user \/ faults < MaxFaults
    IN
    /\ run[r].pc = "save" /\ run[r].todo # {}
    /\ \/ /\ user /\ stored' = stored \union {d} /\ UNCHANGED <<faults, unsaved>>
          /\ Step(r, [run[r] EXCEPT !.todo = @ \ {d}])
       \/ /\ fails /\ unsaved' = unsaved \union {d} /\ UNCHANGED stored
          /\ faults' = IF user THEN faults + 1 ELSE faults
          /\ Step(r, [run[r] EXCEPT !.todo = {}])
    /\ UNCHANGED <<screen, gate, account, record, died, unseen, crashed>>

\* persistProvisionSecrets: blob, then the domain's reference; an error is only
\* written to the console, and without a user there is no key to save with.  The
\* domains are taken in the order of the report.
SaveSecret(r) ==
    LET d == run[r].made[Len(run[r].made) - Cardinality(run[r].todo) + 1] IN
    /\ run[r].pc = "save" /\ run[r].todo # {}
    /\ \/ user /\ stored' = stored \union {d} /\ UNCHANGED <<faults, unsaved>>
       \/ user /\ Fault /\ unsaved' = unsaved \union {d} /\ UNCHANGED stored
       \/ ~user /\ unsaved' = unsaved \union {d} /\ UNCHANGED <<stored, faults>>
    /\ Step(r, [run[r] EXCEPT !.todo = @ \ {d}])
    /\ UNCHANGED <<screen, gate, account, record, died, unseen, crashed>>

\* Every result goes to the queue of the workspace that started the run, if it is
\* still there.
Deliver(r) ==
    /\ run[r].pc = "save" /\ run[r].todo = {}
    /\ IF run[r].heard
       THEN queue' = queue \o run[r].made /\ UNCHANGED unseen
       ELSE unseen' = unseen \union Made(run[r].made) /\ UNCHANGED queue
    /\ Release(r) /\ Step(r, NoRun)
    /\ UNCHANGED <<user, workspace, dismissed, account, stored, record, faults>>
    /\ UNCHANGED <<died, unsaved, crashed>>

\* ProvisionResultModal with a password in it is closed by its button alone.
Dismiss ==
    /\ queue # <<>> /\ dismissed' = dismissed \union {Head(queue)} /\ queue' = Tail(queue)
    /\ UNCHANGED <<user, workspace, run, gate, account, stored, record, faults, fates>>

(***************************************************************************)
(* Leaving the workspace: its queues go with it, the runs do not.          *)
(***************************************************************************)
Unmount ==
    /\ workspace' = FALSE /\ queue' = <<>> /\ unseen' = unseen \union Made(queue)
    /\ run' = [r \in Runs |-> IF run[r].pc = "confirm" THEN NoRun
                              ELSE [run[r] EXCEPT !.heard = run[r].pc = "no"]]
    /\ UNCHANGED <<dismissed, gate, account, stored, record, faults, died, unsaved, crashed>>

Lock   == workspace /\ Unmount /\ UNCHANGED user
Logout == workspace /\ Unmount /\ user' = FALSE
SignIn == /\ ~workspace /\ workspace' = TRUE /\ user' = TRUE
          /\ UNCHANGED <<queue, dismissed, run, gate, account, stored, record, faults, fates>>

\* The application dies: everything but the server and the cache file is lost.
Crash ==
    /\ Fault
    /\ run' = [r \in Runs |-> NoRun] /\ gate' = [d \in Domains |-> "free"]
    /\ queue' = <<>> /\ workspace' = FALSE /\ user' = FALSE
    /\ crashed' = (crashed \/ \E r \in Runs : Active(r))
    /\ unseen' = unseen \union Made(queue)
    /\ \E made \in SUBSET UNION {run[r].todo : r \in {r \in Runs : run[r].pc = "ssh"}} :
          /\ account' = account \union made
          /\ died' = died \union (made \ account) \union {d \in Domains : InFlight(d)}
    /\ UNCHANGED <<dismissed, stored, record, unsaved>>

\* bulk_run_is_stale: a record left running by a crash, a day later.
GrowStale(k) ==
    /\ record[k] = "running" /\ \A r \in Bulks : run[r].targets = k => run[r].pc # "ssh"
    /\ record' = [record EXCEPT ![k] = "open"]
    /\ UNCHANGED <<screen, run, gate, account, stored, faults, fates>>

Next ==
    \/ Dismiss \/ Lock \/ Logout \/ SignIn \/ Crash
    \/ \E d \in Domains : RunSingle(d)
    \/ \E k \in SUBSET Domains : GrowStale(k) \/ \E r \in Bulks : AskBulk(r, k)
    \/ \E r \in Bulks : Declined(r) \/ ConfirmBulk(r)
    \/ \E r \in Runs : Provisioned(r) \/ RunFailed(r) \/ SaveSecret(r) \/ Deliver(r)

Spec == Init /\ [][Next]_vars
-----------------------------------------------------------------------------
OnServer(d) == {r \in Runs : run[r].pc = "ssh" /\ d \in run[r].targets}

\* No domain is provisioned by two runs at once, from whichever of the card, the
\* toolbar and a deep link they come.
OneRunPerDomain == \A d \in Domains : Cardinality(OnServer(d)) <= 1

\* The gate of a domain is shut exactly while a run has it, so that no button
\* stays off after a run that failed, and none is on during a run.
GateFollowsTheRuns ==
    \A d \in Domains : gate[d] # "free" <=> \E r \in Runs : Active(r) /\ d \in run[r].targets

\* The password a run brings back is in the vault, unless saving that very one
\* failed or nobody was signed in: the failure of another of the set, of a later
\* step or of the screen costs it nothing.
PasswordIsStored ==
    \A d \in account \ died : d \in stored \union unsaved \/ InFlight(d)

\* The password a run brings back is on the screen until it is dismissed, whether
\* or not it could be saved, unless the workspace it was for has been left.  It is
\* handed over after the attempt to save it, so one that could not be saved is lost
\* then, where domains.ts:687 calls it "already shown".
PasswordIsShown ==
    \A d \in account \ died :
       d \in dismissed \union unseen \/ InFlight(d) \/ d \in Made(queue)

\* A set recorded as done has been provisioned whole, and one recorded as running
\* is running or was when the application died: a retry is refused for no other.
RecordIsTrue ==
    \A k \in SUBSET Domains \ {{}} :
       /\ record[k] = "done" => k \subseteq account
       /\ record[k] = "running" /\ ~crashed =>
             \E r \in Bulks : run[r].pc = "ssh" /\ run[r].targets = k

\* The promise of the gates, and that of the passwords.
RunsAreGated == OneRunPerDomain /\ GateFollowsTheRuns /\ RecordIsTrue
PasswordsAreDelivered == PasswordIsStored /\ PasswordIsShown
=============================================================================
