----------------------------- MODULE ZoneBind -----------------------------
(***************************************************************************)
(* Binding a domain to the Cloudflare account that has a zone of its name: *)
(* the run after domains were added ("auto") and the one behind the Sync   *)
(* button ("manual"), which may go on at once, and the banner both report  *)
(* to.  Domains are matched and written one by one, so one domain stands   *)
(* for all.                                                                *)
(***************************************************************************)
EXTENDS Naturals, FiniteSets

CONSTANT MaxFaults    \* bound: accounts that cannot be read and writes that fail

Accounts == {1, 2}
Unbound  == 0
Modes    == {"auto", "manual"}

VARIABLES
    zoneIn,      \* active accounts that have a zone of the domain's name
    record,      \* cloudflare_account_id on the server
    row,         \* the same in the domains list of this desktop
    run,         \* a run of each mode
    banner,      \* whose notice the page shows, and bannerOwnerRef
    away,        \* notices handed to the workspace
    faults,
    due          \* a manual notice was shown and nobody has dismissed it

data == <<zoneIn, record, row>>
vars == <<data, run, banner, away, faults, due>>

NoRun == [pc |-> "no", home |-> FALSE, read |-> {}, unread |-> {},
          outcome |-> "none", to |-> Unbound]

TypeOK ==
    /\ zoneIn \subseteq Accounts /\ {record, row} \subseteq Accounts \union {Unbound}
    /\ \A m \in Modes :
          /\ run[m].pc \in {"no", "read", "check", "put", "report"}
          /\ run[m].read \union run[m].unread \subseteq Accounts
          /\ run[m].outcome \in {"none", "skipped", "matched", "ambiguous", "bound", "taken", "failed"}
    /\ banner \in Modes \union {"nobody"} /\ away \subseteq Modes

Init ==
    /\ zoneIn \in {{}, {1}, Accounts} /\ record = Unbound /\ row = Unbound
    /\ run = [m \in Modes |-> NoRun] /\ banner = "nobody" /\ away = {}
    /\ faults = 0 /\ due = FALSE

Fault == faults < MaxFaults /\ faults' = faults + 1

\* The account picked on the card of the domain, here or on another desktop.
Pick(a) ==
    /\ a # record /\ record' = a
    /\ UNCHANGED <<zoneIn, row, run, banner, away, faults, due>>

Refetch ==
    /\ row # record /\ row' = record
    /\ UNCHANGED <<zoneIn, record, run, banner, away, faults, due>>

(***************************************************************************)
(* The banner.  An automatic run neither clears nor replaces what a press  *)
(* of the button has shown.                                                *)
(***************************************************************************)
Dismiss ==
    /\ banner # "nobody" /\ banner' = "nobody" /\ due' = FALSE
    /\ UNCHANGED <<data, run, away, faults>>

\* The page is left: the banner goes with it, the runs go on.
LeavePage ==
    /\ banner' = "nobody" /\ due' = FALSE
    /\ run' = [m \in Modes |-> [run[m] EXCEPT !.home = FALSE]]
    /\ (banner # "nobody" \/ run' # run)
    /\ UNCHANGED <<data, away, faults>>

\* runExclusive lets one manual run through; the rows are those on the screen.
Start(m) ==
    /\ run[m].pc = "no"
    /\ run' = [run EXCEPT ![m] =
          IF row # Unbound
          THEN [NoRun EXCEPT !.pc = "report", !.home = TRUE, !.outcome = "skipped"]
          ELSE [NoRun EXCEPT !.pc = "read", !.home = TRUE]]
    /\ IF m = "manual" \/ banner # "manual"
       THEN banner' = "nobody" /\ due' = FALSE
       ELSE UNCHANGED <<banner, due>>
    /\ UNCHANGED <<data, away, faults>>

(***************************************************************************)
(* autoBindDomainsToCloudflare.                                            *)
(***************************************************************************)
\* matchDomainsToZones, over the accounts that could be read.
Match(j) ==
    LET hits == zoneIn \intersect j.read IN
    CASE hits = {}             -> [j EXCEPT !.pc = "report"]
      [] Cardinality(hits) = 1 -> [j EXCEPT !.pc = "check", !.outcome = "matched",
                                            !.to = CHOOSE a \in hits : TRUE]
      [] OTHER                 -> [j EXCEPT !.pc = "report", !.outcome = "ambiguous"]

\* One account after another; the one that cannot be read is passed over.
ReadZones(m) ==
    \E a \in Accounts :
       /\ run[m].pc = "read" /\ a \notin run[m].read \union run[m].unread
       /\ \E j \in {[run[m] EXCEPT !.read = @ \union {a}], [run[m] EXCEPT !.unread = @ \union {a}]} :
             /\ IF a \in j.unread THEN Fault ELSE UNCHANGED faults
             /\ run' = [run EXCEPT ![m] = IF j.read \union j.unread = Accounts THEN Match(j) ELSE j]
       /\ UNCHANGED <<data, banner, away, due>>

\* isStillUnbound asks the list in the cache, just before the write.
Check(m) ==
    /\ run[m].pc = "check"
    /\ run' = [run EXCEPT ![m] = IF row = Unbound THEN [@ EXCEPT !.pc = "put"]
                                 ELSE [@ EXCEPT !.pc = "report", !.outcome = "taken"]]
    /\ UNCHANGED <<data, banner, away, faults, due>>

Written(m) ==
    /\ run[m].pc = "put"
    /\ \/ /\ record' = run[m].to
          /\ run' = [run EXCEPT ![m].pc = "report", ![m].outcome = "bound"]
          /\ UNCHANGED faults
       \/ /\ Fault /\ run' = [run EXCEPT ![m].pc = "report", ![m].outcome = "failed"]
          /\ record' \in {record, run[m].to}
    /\ UNCHANGED <<zoneIn, row, banner, away, due>>

\* summarizeCfBind: an automatic run with nothing to tell tells nothing.
Silent(m) == m = "auto" /\ run[m].outcome \in {"none", "skipped", "taken"} /\ run[m].unread = {}

Report(m) ==
    LET taken == m = "auto" /\ banner = "manual" IN
    /\ run[m].pc = "report" /\ run' = [run EXCEPT ![m] = NoRun]
    /\ CASE Silent(m)                -> UNCHANGED <<banner, away, due>>
         [] run[m].home /\ ~taken    -> /\ banner' = m /\ due' = (m = "manual")
                                        /\ UNCHANGED away
         [] OTHER                    -> away' = away \union {m} /\ UNCHANGED <<banner, due>>
    /\ UNCHANGED <<data, faults>>

\* summarizeCfBindFailure: the accounts could not be listed.
Failure(m) ==
    /\ run[m].pc = "read" /\ run[m].read \union run[m].unread = {} /\ Fault
    /\ run' = [run EXCEPT ![m].pc = "report", ![m].outcome = "failed"]
    /\ UNCHANGED <<data, banner, away, due>>

Next ==
    \/ Refetch \/ Dismiss \/ LeavePage
    \/ \E a \in Accounts \union {Unbound} : Pick(a)
    \/ \E m \in Modes : \/ Start(m) \/ ReadZones(m) \/ Check(m) \/ Written(m)
                        \/ Report(m) \/ Failure(m)

Spec == Init /\ [][Next]_vars
-----------------------------------------------------------------------------
\* A domain is bound by its name only to the one account that has such a zone,
\* unless an account could not be read, which the report then says.
BoundIsUnambiguous ==
    \A m \in Modes : run[m].outcome = "bound" =>
       zoneIn = {run[m].to} \/ run[m].unread # {}

\* The notice of a press of the button stays on the page until it is dismissed or
\* the button is pressed again, whatever automatic runs end in between.
ManualNoticeStays == due => banner = "manual"
=============================================================================
