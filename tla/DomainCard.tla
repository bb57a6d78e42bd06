---------------------------- MODULE DomainCard ----------------------------
(***************************************************************************)
(* The DNS side of the card of one domain: the Cloudflare account it is    *)
(* bound to, the zone the card finds and saves for it, the nameservers it  *)
(* offers to push to the registrar.                                        *)
(*                                                                         *)
(* A list of nameservers is named by the zone it belongs to, "own" when it *)
(* is the user's, NoZone when it is empty.                                 *)
(***************************************************************************)
EXTENDS Naturals, FiniteSets

CONSTANTS
    MaxUpsets    \* bound: accounts assigned outside this card and requests that fail

NoAccount  == 0
Accounts   == {1, 2}
NoZone     == "none"
Unread     == {"unread"}

\* Two zones of the domain's name, one in each account, and one of another name.
Zones      == {"z1", "z2", "other"}
AccountOf(z) == IF z = "z2" THEN 2 ELSE 1
Named(zs)  == zs \ {"other"}
Texts      == Zones \union {"own", NoZone}

VARIABLES
    server,      \* cloudflare_account_id and cloudflare_zone_id of the record
    row, seen,   \* the client: the row of the domains list, the zones it has read
    open,        \* the card is open
    draft,       \* the nameserver field of the card
    attempted,   \* the zone the card has tried to save
    pick, auto,  \* PUTs on their way: an account picked, zones found by name
    following,   \* the PUT whose progress disables the select
    upsets,
    excused,     \* the account was assigned in bulk, or a zone was sent for an
                 \* account the record was leaving or had left
    silent       \* a foreign zone's nameservers were pushed with no warning shown

binding == <<server, row, seen>>
saves   == <<pick, auto, following, attempted>>
ghosts  == <<excused, silent>>
vars    == <<binding, open, draft, saves, upsets, ghosts>>

NoDraft == [text |-> NoZone, edited |-> FALSE, source |-> NoZone]

TypeOK ==
    /\ \A r \in {server, row} : r.acc \in Accounts \union {NoAccount} /\ r.zone \in Zones \union {NoZone}
    /\ \A a \in Accounts : seen[a] = Unread \/ seen[a] \subseteq Zones
    /\ draft.text \in Texts /\ auto \subseteq Zones /\ upsets \in 0..MaxUpsets

Init ==
    /\ server \in {[acc |-> NoAccount, zone |-> NoZone], [acc |-> 1, zone |-> NoZone],
                   [acc |-> 1, zone |-> "other"]}
    /\ row = server /\ seen = [a \in Accounts |-> Unread]
    /\ open = FALSE /\ draft = NoDraft /\ attempted = NoZone
    /\ pick = {} /\ auto = {} /\ following = {} /\ upsets = 0
    /\ excused = FALSE /\ silent = FALSE

(***************************************************************************)
(* What the card derives on every render.                                  *)
(***************************************************************************)
\* The zone memo of the card: null, not known yet, or found among the zones read.
ZoneKnown(r, s) == r.acc # NoAccount /\ r.zone # NoZone /\ s[r.acc] # Unread
ZoneShown(r, s) == IF ZoneKnown(r, s) /\ r.zone \in s[r.acc] THEN r.zone ELSE NoZone

\* resolveZoneByName: one zone of this name in the account, or nothing to save.
Resolve(r, s) ==
    LET hits == IF r.acc = NoAccount \/ r.zone # NoZone \/ s[r.acc] = Unread
                THEN {} ELSE Named(s[r.acc])
    IN IF Cardinality(hits) = 1 THEN CHOOSE z \in hits : TRUE ELSE NoZone

\* useNsDraft: the field mirrors the zone until it has been edited.
Mirror(d, r, s) ==
    IF d.edited THEN d
    ELSE [text |-> ZoneShown(r, s), edited |-> FALSE, source |-> ZoneShown(r, s)]

\* The effect of DomainCloudflareField, run when the account or what it resolves
\* to has changed: each zone found is saved once.
AutoSaves(r, s) ==
    /\ <<r.acc, Resolve(r, s)>> # <<row.acc, Resolve(row, seen)>> \/ ~open
    /\ Resolve(r, s) \notin {NoZone, attempted}

Render(r, s) ==
    /\ row' = r /\ seen' = s
    /\ draft' = Mirror(draft, r, s)
    /\ IF AutoSaves(r, s)
       THEN /\ attempted' = Resolve(r, s) /\ auto' = auto \union {Resolve(r, s)}
            /\ following' = {Resolve(r, s)}
            /\ excused' = (excused \/ r.acc # server.acc \/ pick # {})
       ELSE UNCHANGED <<attempted, auto, following, excused>>

(***************************************************************************)
(* The card opens and closes; the list and the zones are read again.       *)
(***************************************************************************)
OpenCard ==
    /\ ~open /\ open' = TRUE /\ Render(row, seen)
    /\ UNCHANGED <<server, pick, upsets, silent>>

CloseCard ==
    /\ open /\ open' = FALSE /\ draft' = NoDraft
    /\ attempted' = NoZone /\ following' = {}
    /\ UNCHANGED <<binding, pick, auto, upsets, ghosts>>

Refetch ==
    /\ row # server
    /\ IF open THEN Render(server, seen)
       ELSE row' = server /\ UNCHANGED <<seen, draft, attempted, auto, following, excused>>
    /\ UNCHANGED <<server, open, pick, upsets, silent>>

Upset == upsets < MaxUpsets /\ upsets' = upsets + 1

ZonesOf(a) == {z \in Zones : AccountOf(z) = a}

ReadZones ==
    /\ open /\ row.acc # NoAccount /\ seen[row.acc] # ZonesOf(row.acc)
    /\ Render(row, [seen EXCEPT ![row.acc] = ZonesOf(row.acc)])
    /\ UNCHANGED <<server, open, pick, upsets, silent>>

(***************************************************************************)
(* Saving.  A pick clears the zone, for it belongs to the old account.     *)
(***************************************************************************)
PickAccount(a) ==
    /\ open /\ following = {} /\ pick = {} /\ a # row.acc
    /\ pick' = {a} /\ following' = {"pick"} /\ attempted' = NoZone
    /\ excused' = (excused \/ auto # {})
    /\ UNCHANGED <<binding, open, draft, auto, upsets, silent>>

\* MUTANT of Picked: the zone of the old account stays with the new one.
PickedKeepingZone(a) == [server EXCEPT !.acc = a]

Picked(a) == [acc |-> a, zone |-> NoZone]

DeliverPick ==
    /\ pick # {} /\ pick' = {} /\ following' = following \ {"pick"}
    /\ \/ server' \in {Picked(a) : a \in pick} /\ UNCHANGED upsets
       \/ Upset /\ UNCHANGED server
    /\ UNCHANGED <<row, seen, open, draft, attempted, auto, ghosts>>

DeliverAuto ==
    \E z \in auto :
       /\ auto' = auto \ {z} /\ following' = following \ {z}
       /\ \/ server' = [server EXCEPT !.zone = z] /\ UNCHANGED upsets
          \/ Upset /\ UNCHANGED server
       /\ UNCHANGED <<row, seen, open, draft, attempted, pick, ghosts>>

\* bulk-assign-cloudflare and full-setup write the account and leave the zone.
BulkAssign(a) ==
    /\ Upset /\ excused' = TRUE
    /\ a # server.acc /\ server' = [server EXCEPT !.acc = a]
    /\ UNCHANGED <<row, seen, open, draft, saves, silent>>

(***************************************************************************)
(* The nameserver panel.                                                   *)
(***************************************************************************)
\* What is typed keeps nameservers that are there, or replaces them all.
EditDraft(t) ==
    /\ open /\ t \in {draft.text, "own", NoZone} /\ ~(draft.edited /\ t = draft.text)
    /\ draft' = [draft EXCEPT !.text = t, !.edited = TRUE]
    /\ UNCHANGED <<binding, open, saves, upsets, ghosts>>

RestoreDraft ==
    LET z == ZoneShown(row, seen) IN
    /\ open /\ z \notin {NoZone, draft.text}
    /\ draft' = [text |-> z, edited |-> TRUE, source |-> z]
    /\ UNCHANGED <<binding, open, saves, upsets, ghosts>>

\* nsFromDetachedZone: zones are compared by id, whatever account is bound.
FromDetachedZone ==
    draft.edited /\ draft.source # NoZone /\ draft.source # row.zone /\ draft.text = draft.source

\* What becomes of a push is in NsPush; here only what is sent, and what the card
\* says of it when it is.
PushNs ==
    /\ open /\ draft.text # NoZone
    /\ silent' = (silent \/ (draft.text \in Zones \ {row.zone} /\ ~FromDetachedZone))
    /\ UNCHANGED <<binding, open, draft, saves, upsets, excused>>

Next ==
    \/ OpenCard \/ CloseCard \/ Refetch \/ ReadZones \/ DeliverPick \/ DeliverAuto
    \/ RestoreDraft \/ PushNs
    \/ \E a \in Accounts \union {NoAccount} : PickAccount(a) \/ BulkAssign(a)
    \/ \E t \in Texts : EditDraft(t)

Spec == Init /\ [][Next]_vars
-----------------------------------------------------------------------------
\* The zone of the record is a zone of its account, except after the account was
\* assigned in bulk, or a zone and another account were on their way at once.
ZoneIsInTheAccount ==
    server.zone # NoZone /\ ~excused =>
       server.acc = AccountOf(server.zone)

\* Nameservers of a zone that is not the saved one are never pushed without a
\* warning of it on the card, however the record changes under an edited field.
ForeignPushIsWarned == ~silent
=============================================================================
