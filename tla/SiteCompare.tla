---------------------------- MODULE SiteCompare ----------------------------
(***************************************************************************)
(* The comparison of the sites read from a server with the domains of the  *)
(* user, on the page of that server, and its two remedies: domains bound   *)
(* elsewhere are bound here, and sites unknown are added.                  *)
(***************************************************************************)
EXTENDS Naturals, FiniteSets

CONSTANTS
    Domains,     \* names
    MaxUpsets    \* bound: edits made elsewhere and requests that fail

\* Where a domain is bound: this server, another, none; or there is no such domain.
Bindings == {"here", "away", "free", "absent"}
NoAsk    == [what |-> "none", on |-> {}, told |-> {}]
NoPost   == [on |-> {}, told |-> {}, watched |-> FALSE]
Unread   == {"unread"}

VARIABLES
    record,      \* the domains
    row,         \* the same as the page has read them
    actual,      \* the sites of the server
    reading,     \* server_list_sites is on
    sites,       \* its result, or Unread
    ask,         \* the question on the screen
    bind, add,   \* the two POSTs, and whether the page still watches them
    skipped,     \* names the page says were not added
    bound,       \* domains bound by the last remedy, while it was watched
    upsets,
    elsewhere,   \* domains edited elsewhere
    carried      \* domains carried away from another server without a word

page == <<reading, sites, ask, bind, add, skipped>>
vars == <<record, row, actual, page, bound, upsets, elsewhere, carried>>

TypeOK ==
    /\ \A d \in Domains : {record[d], row[d]} \subseteq Bindings
    /\ actual \subseteq Domains /\ (sites = Unread \/ sites \subseteq Domains)
    /\ ask.what \in {"none", "bind", "add"} /\ bind.on \union add.on \subseteq Domains
    /\ skipped \union bound \union elsewhere \union carried \subseteq Domains
    /\ upsets \in 0..MaxUpsets

Init ==
    /\ record \in [Domains -> Bindings] /\ row = record
    /\ actual \in SUBSET Domains \ {{}} /\ reading = FALSE /\ sites = Unread
    /\ ask = NoAsk /\ bind = NoPost /\ add = NoPost
    /\ skipped = {} /\ bound = {} /\ upsets = 0 /\ elsewhere = {} /\ carried = {}

Upset == upsets < MaxUpsets /\ upsets' = upsets + 1

(***************************************************************************)
(* compareServerSites, over what is on the screen.                         *)
(***************************************************************************)
Shown(b)     == IF sites = Unread THEN {} ELSE {d \in sites : row[d] \in b}
NotBoundHere == Shown({"away", "free"})
OnlyOnServer == Shown({"absent"})
\* MUTANT of Moving: the question counts no domain of another server.
MovingUncounted == {}

Moving       == {d \in NotBoundHere : row[d] = "away"}

Pending(p) == p.on # {} /\ p.watched
Forget(p)  == [p EXCEPT !.watched = FALSE]

(***************************************************************************)
(* Reading.  A new comparison forgets what was said of the one before.     *)
(***************************************************************************)
Compare ==
    /\ ~reading /\ ~Pending(bind) /\ ~Pending(add)
    /\ reading' = TRUE /\ sites' = Unread /\ skipped' = {} /\ bound' = {}
    /\ bind' = Forget(bind) /\ add' = Forget(add) /\ UNCHANGED ask
    /\ UNCHANGED <<record, row, actual, upsets, elsewhere, carried>>

SitesRead ==
    /\ reading /\ reading' = FALSE
    /\ \/ sites' = actual /\ UNCHANGED upsets
       \/ Upset /\ UNCHANGED sites
    /\ UNCHANGED <<record, row, actual, ask, bind, add, skipped, bound, elsewhere, carried>>

Refetch ==
    /\ row # record /\ row' = record
    /\ UNCHANGED <<record, actual, page, bound, upsets, elsewhere, carried>>

EditElsewhere(d, b) ==
    /\ Upset /\ b # record[d] /\ record' = [record EXCEPT ![d] = b]
    /\ elsewhere' = elsewhere \union {d}
    /\ UNCHANGED <<row, actual, page, bound, carried>>

(***************************************************************************)
(* The remedies.  What the question says and what is sent are taken from   *)
(* the screen when the button is pressed.                                  *)
(***************************************************************************)
AskBind ==
    /\ ask = NoAsk /\ ~Pending(bind) /\ NotBoundHere # {}
    /\ ask' = [what |-> "bind", on |-> NotBoundHere, told |-> Moving]
    /\ UNCHANGED <<record, row, actual, reading, sites, bind, add, skipped, bound>>
    /\ UNCHANGED <<upsets, elsewhere, carried>>

AskAdd ==
    /\ ask = NoAsk /\ ~Pending(add) /\ OnlyOnServer # {}
    /\ ask' = [what |-> "add", on |-> OnlyOnServer, told |-> {}]
    /\ UNCHANGED <<record, row, actual, reading, sites, bind, add, skipped, bound>>
    /\ UNCHANGED <<upsets, elsewhere, carried>>

Decline ==
    /\ ask # NoAsk /\ ask' = NoAsk
    /\ UNCHANGED <<record, row, actual, reading, sites, bind, add, skipped, bound>>
    /\ UNCHANGED <<upsets, elsewhere, carried>>

\* Each remedy clears what was said of the other, and stops watching it.  One sent
\* before, that nobody watches, is not modelled any further when it is sent again.
ConfirmBind ==
    /\ ask.what = "bind" /\ bind.on = {} /\ ask' = NoAsk
    /\ bind' = [on |-> ask.on, told |-> ask.told, watched |-> TRUE]
    /\ add' = Forget(add) /\ skipped' = {} /\ bound' = {}
    /\ UNCHANGED <<record, row, actual, reading, sites, upsets, elsewhere, carried>>

ConfirmAdd ==
    /\ ask.what = "add" /\ add.on = {} /\ ask' = NoAsk
    /\ add' = [on |-> ask.on, told |-> {}, watched |-> TRUE]
    /\ bind' = Forget(bind) /\ skipped' = {} /\ bound' = {}
    /\ UNCHANGED <<record, row, actual, reading, sites, upsets, elsewhere, carried>>

\* bulk_assign_server touches the domains that are still there.
BindDelivered ==
    LET there == {d \in bind.on : record[d] # "absent"} IN
    /\ bind.on # {} /\ bind' = NoPost
    /\ \/ /\ record' = [d \in Domains |-> IF d \in there THEN "here" ELSE record[d]]
          /\ carried' = carried \union {d \in there \ bind.told : record[d] = "away"}
          /\ bound' = (IF bind.watched THEN there ELSE bound) /\ UNCHANGED upsets
       \/ Upset /\ UNCHANGED <<record, carried, bound>>
    /\ UNCHANGED <<row, actual, reading, sites, ask, add, skipped, elsewhere>>

\* bulk_create_structured skips a name that is taken.
AddDelivered ==
    LET taken == {d \in add.on : record[d] # "absent"} IN
    /\ add.on # {} /\ add' = NoPost
    /\ \/ /\ record' = [d \in Domains |-> IF d \in add.on \ taken THEN "here" ELSE record[d]]
          /\ skipped' = (IF add.watched THEN taken ELSE skipped)
          /\ bound' = (IF add.watched THEN add.on \ taken ELSE bound) /\ UNCHANGED upsets
       \/ Upset /\ UNCHANGED <<record, skipped, bound>>
    /\ UNCHANGED <<row, actual, reading, sites, ask, bind, elsewhere, carried>>

Next ==
    \/ Compare \/ SitesRead \/ Refetch \/ AskBind \/ AskAdd \/ Decline
    \/ ConfirmBind \/ ConfirmAdd \/ BindDelivered \/ AddDelivered
    \/ \E d \in Domains, b \in Bindings : EditElsewhere(d, b)

Spec == Init /\ [][Next]_vars
-----------------------------------------------------------------------------
\* No domain is carried over from another server without the question having
\* counted it, unless it was edited elsewhere in the meantime.
MoveIsAnnounced == carried \subseteq elsewhere

\* A name the page says was neither added nor bound has not been bound by the last
\* remedy: what was said before a remedy does not outlive it.
SkippedIsTrue == skipped \intersect bound = {}
=============================================================================
