---------------------------- MODULE Zones_proofs -----------------------------
(***************************************************************************)
(* Zones and nameservers, for any domains, sites, pushes and faults: the   *)
(* card of one domain, the bulk binding of domains to zones, the full      *)
(* setup, and what is said of a delegation.                                *)
(***************************************************************************)
EXTENDS Integers, Sequences, FiniteSets, FiniteSetTheorems, TLAPS

CONSTANTS
    MaxUpsets, MaxFaults, Sites, MaxPushes

VARIABLES
    server, row, seen, open, draft, attempted, pick, auto, following, upsets,
    excused, silent, zoneIn, record, run, banner, away, faults, due, gone, key,
    linked, zone, saved, delegated, plan, pc, step, touched, registrar, pushes,
    busy, answer, asking, justPushed, settled, registry, flight, since, noted

Card  == INSTANCE DomainCard
Bind  == INSTANCE ZoneBind
Setup == INSTANCE FullSetup
Push  == INSTANCE NsPush

-----------------------------------------------------------------------------
(***************************************************************************)
(* The zone saved on the card of a domain.                                 *)
(***************************************************************************)
(* The cardinality of a set, as DomainCard counts it. *)
LEMMA CardSizes ==
  /\ \A S : Card!Cardinality(S) = Cardinality(S)
  /\ \A S : Card!IsFiniteSet(S) <=> IsFiniteSet(S)
  BY DEF Card!Cardinality, Card!IsFiniteSet, Cardinality, IsFiniteSet

Binding == [acc : Card!Accounts \union {Card!NoAccount}, zone : Card!Zones \union {Card!NoZone}]

\* Types; the zones read of an account are its own.
CardTypeInv ==
    /\ MaxUpsets \in Nat /\ upsets \in 0..MaxUpsets
    /\ server \in Binding /\ row \in Binding
    /\ seen \in [Card!Accounts -> {Card!Unread} \union SUBSET Card!Zones]
    /\ \A a \in Card!Accounts : seen[a] = Card!Unread \/ seen[a] \subseteq Card!ZonesOf(a)
    /\ draft \in [text : Card!Texts, edited : BOOLEAN, source : Card!Texts]
    /\ pick \subseteq Card!Accounts \union {Card!NoAccount} /\ auto \subseteq Card!Zones

\* A zone on its way to the record belongs to the account the record has and keeps.
AutoInv ==
    ~excused => /\ pick # {} => auto = {}
                /\ \A z \in auto : server.acc = Card!AccountOf(z)

\* Nameservers in the field are those of the zone they are said to come from, and
\* until the field is edited that is the zone of the row.
DraftInv ==
    /\ draft.text \in Card!Zones => draft.source = draft.text
    /\ draft.text \in Card!Zones /\ ~draft.edited => draft.text = row.zone
    /\ ~open => draft = Card!NoDraft

CardInv == CardTypeInv /\ AutoInv /\ DraftInv /\ Card!ZoneIsInTheAccount /\ Card!ForeignPushIsWarned

\* The invariant of the card holds at first.
LEMMA CardInit == MaxUpsets \in Nat /\ Card!Init => CardInv
<1> SUFFICES ASSUME MaxUpsets \in Nat, Card!Init PROVE CardInv
  OBVIOUS
<1>1. Card!NoDraft \in [text : Card!Texts, edited : BOOLEAN, source : Card!Texts] /\ Card!NoDraft.text = Card!NoZone
      /\ Card!NoZone \notin Card!Zones
  BY DEF Card!NoDraft, Card!Texts, Card!NoZone, Card!Zones
<1>2. server \in Binding /\ (server.zone # Card!NoZone => server.zone = "other" /\ server.acc = 1)
  BY DEF Card!Init, Binding, Card!Accounts, Card!Zones, Card!NoZone, Card!NoAccount
<1>3. CardTypeInv
  BY <1>1, <1>2 DEF Card!Init, CardTypeInv, Card!Accounts
<1>4. AutoInv /\ DraftInv /\ Card!ForeignPushIsWarned
  BY <1>1 DEF Card!Init, AutoInv, DraftInv, Card!ForeignPushIsWarned
<1>5. Card!ZoneIsInTheAccount
  BY <1>2 DEF Card!ZoneIsInTheAccount, Card!AccountOf
<1> QED BY <1>3, <1>4, <1>5 DEF CardInv

\* A zone that resolves is one that was read of the account.
LEMMA ResolvesInTheAccount ==
    ASSUME NEW r \in Binding, NEW s \in [Card!Accounts -> {Card!Unread} \union SUBSET Card!Zones],
           \A a \in Card!Accounts : s[a] = Card!Unread \/ s[a] \subseteq Card!ZonesOf(a)
    PROVE  /\ Card!Resolve(r, s) \in Card!Zones \union {Card!NoZone}
           /\ Card!Resolve(r, s) # Card!NoZone => Card!AccountOf(Card!Resolve(r, s)) = r.acc
<1> DEFINE hits == IF r.acc = Card!NoAccount \/ r.zone # Card!NoZone \/ s[r.acc] = Card!Unread
                   THEN {} ELSE Card!Named(s[r.acc])
<1>1. hits \subseteq Card!ZonesOf(r.acc)
  BY DEF Binding, Card!Named
<1>2. CASE Card!Cardinality(hits) = 1
  <2>1. hits # {}
    BY CardSizes, <1>2, FS_EmptySet
  <2>2. Card!Resolve(r, s) \in hits
    BY <1>2, <2>1 DEF Card!Resolve
  <2> QED BY <1>1, <2>2 DEF Card!ZonesOf
<1>3. CASE Card!Cardinality(hits) # 1
  BY <1>3 DEF Card!Resolve
<1> QED BY <1>2, <1>3

\* A card rendered again with any row and lists keeps it.
LEMMA RenderStep ==
    ASSUME CardInv, NEW r \in Binding, NEW s \in [Card!Accounts -> {Card!Unread} \union SUBSET Card!Zones],
           \A a \in Card!Accounts : s[a] = Card!Unread \/ s[a] \subseteq Card!ZonesOf(a),
           Card!Render(r, s), UNCHANGED <<server, pick, upsets, silent>>, open'
    PROVE  CardInv'
<1> USE DEF CardInv
<1>1. row' = r /\ seen' = s /\ draft' = Card!Mirror(draft, r, s)
  BY DEF Card!Render
<1>2. /\ draft' \in [text : Card!Texts, edited : BOOLEAN, source : Card!Texts]
      /\ draft'.text \in Card!Zones => draft'.source = draft'.text
      /\ draft'.text \in Card!Zones /\ ~draft'.edited => draft'.text = r.zone
  <2>1. CASE draft.edited
    BY <1>1, <2>1 DEF Card!Mirror, CardTypeInv, DraftInv
  <2>2. CASE ~draft.edited
    <3>1. Card!ZoneShown(r, s) \in {r.zone, Card!NoZone} /\ r.zone \in Card!Texts
      BY DEF Card!ZoneShown, Binding, Card!Texts
    <3>2. draft' = [text |-> Card!ZoneShown(r, s), edited |-> FALSE, source |-> Card!ZoneShown(r, s)]
      BY <1>1, <2>2 DEF Card!Mirror
    <3> QED BY <3>1, <3>2 DEF Card!Zones, Card!NoZone, Card!Texts
  <2> QED BY <2>1, <2>2
<1>3. \/ UNCHANGED <<auto, excused>>
      \/ /\ Card!Resolve(r, s) # Card!NoZone /\ auto' = auto \union {Card!Resolve(r, s)}
         /\ excused' = (excused \/ r.acc # server.acc \/ pick # {})
  BY DEF Card!Render, Card!AutoSaves
<1>4. CardTypeInv'
  BY <1>1, <1>2, <1>3, ResolvesInTheAccount DEF CardTypeInv
<1>5. AutoInv'
  BY <1>3, ResolvesInTheAccount DEF AutoInv
<1>6. DraftInv'
  BY <1>1, <1>2 DEF DraftInv
<1>7. Card!ZoneIsInTheAccount' /\ Card!ForeignPushIsWarned'
  BY <1>3 DEF Card!ZoneIsInTheAccount, Card!ForeignPushIsWarned
<1> QED BY <1>4, <1>5, <1>6, <1>7

\* Every action keeps it.
LEMMA CardStep == CardInv /\ [Card!Next]_(Card!vars) => CardInv'
<1> SUFFICES ASSUME CardInv, [Card!Next]_(Card!vars) PROVE CardInv'
  OBVIOUS
<1> USE DEF CardInv, CardTypeInv
<1>1. CASE UNCHANGED Card!vars
  BY <1>1 DEF Card!vars, Card!binding, Card!saves, Card!ghosts, AutoInv, DraftInv,
      Card!ZoneIsInTheAccount, Card!ForeignPushIsWarned
<1>2. CASE Card!OpenCard
  BY <1>2, RenderStep DEF Card!OpenCard
<1>3. CASE Card!CloseCard
  <2>1. Card!NoDraft \in [text : Card!Texts, edited : BOOLEAN, source : Card!Texts] /\ Card!NoDraft.text \notin Card!Zones
    BY DEF Card!NoDraft, Card!Texts, Card!NoZone, Card!Zones
  <2> QED BY <1>3, <2>1 DEF Card!CloseCard, Card!binding, Card!ghosts, AutoInv, DraftInv,
      Card!ZoneIsInTheAccount,
                            Card!ForeignPushIsWarned
<1>4. CASE Card!Refetch
  <2>1. CASE open
    BY <1>4, <2>1, RenderStep DEF Card!Refetch
  <2>2. CASE ~open
    <3>1. Card!NoDraft.text \notin Card!Zones
      BY DEF Card!NoDraft, Card!NoZone, Card!Zones
    <3> QED BY <1>4, <2>2, <3>1 DEF Card!Refetch, AutoInv, DraftInv,
        Card!ZoneIsInTheAccount, Card!ForeignPushIsWarned
  <2> QED BY <2>1, <2>2
<1>5. CASE Card!ReadZones
  <2> DEFINE s == [seen EXCEPT ![row.acc] = Card!ZonesOf(row.acc)]
  <2>1. /\ row.acc \in Card!Accounts /\ Card!ZonesOf(row.acc) \subseteq Card!Zones
    BY <1>5 DEF Card!ReadZones, Binding, Card!ZonesOf
  <2>2. /\ s \in [Card!Accounts -> {Card!Unread} \union SUBSET Card!Zones]
        /\ \A a \in Card!Accounts : s[a] = Card!Unread \/ s[a] \subseteq Card!ZonesOf(a)
    BY <2>1
  <2>3. Card!Render(row, s) /\ UNCHANGED <<server, open, pick, upsets, silent>> /\ open
    BY <1>5 DEF Card!ReadZones
  <2> HIDE DEF s
  <2> QED BY <2>2, <2>3, RenderStep
<1>6. ASSUME NEW a \in Card!Accounts \union {Card!NoAccount}, Card!PickAccount(a) PROVE CardInv'
  BY <1>6 DEF Card!PickAccount, Card!binding, AutoInv, DraftInv, Card!ZoneIsInTheAccount,
      Card!ForeignPushIsWarned
<1>7. CASE Card!DeliverPick
  <2>1. \/ server' = server /\ upsets' \in 0..MaxUpsets
        \/ \E a \in pick : server' = [acc |-> a, zone |-> Card!NoZone] /\ upsets' = upsets
    BY <1>7 DEF Card!DeliverPick, Card!Picked, Card!Upset
  <2>2. pick # {} /\ pick' = {} /\ UNCHANGED <<row, seen, open, draft, attempted, auto, Card!ghosts>>
    BY <1>7 DEF Card!DeliverPick
  <2>3. CardTypeInv'
    BY <2>1, <2>2 DEF Binding
  <2>4. AutoInv' /\ DraftInv' /\ Card!ZoneIsInTheAccount' /\ Card!ForeignPushIsWarned'
    BY <2>1, <2>2 DEF Card!ghosts, AutoInv, DraftInv, Card!ZoneIsInTheAccount,
        Card!ForeignPushIsWarned
  <2> QED BY <2>3, <2>4
<1>8. CASE Card!DeliverAuto
  <2>1. PICK z \in auto :
          /\ auto' = auto \ {z}
          /\ \/ server' = [server EXCEPT !.zone = z] /\ UNCHANGED upsets
             \/ Card!Upset /\ UNCHANGED server
          /\ UNCHANGED <<row, seen, open, draft, attempted, pick, Card!ghosts>>
    BY <1>8 DEF Card!DeliverAuto
  <2>2. /\ server' \in Binding /\ server'.acc = server.acc /\ server'.zone \in {server.zone, z}
        /\ upsets' \in 0..MaxUpsets
    BY <2>1 DEF Binding, Card!Upset
  <2>3. CardTypeInv'
    BY <2>1, <2>2
  <2>4. AutoInv' /\ DraftInv' /\ Card!ZoneIsInTheAccount' /\ Card!ForeignPushIsWarned'
    BY <2>1, <2>2 DEF Card!ghosts, AutoInv, DraftInv, Card!ZoneIsInTheAccount,
        Card!ForeignPushIsWarned
  <2> QED BY <2>3, <2>4
<1>9. ASSUME NEW a \in Card!Accounts \union {Card!NoAccount}, Card!BulkAssign(a) PROVE CardInv'
  <2>1. server' \in Binding /\ upsets' \in 0..MaxUpsets /\ excused'
    BY <1>9 DEF Card!BulkAssign, Card!Upset, Binding
  <2> QED BY <1>9, <2>1 DEF Card!BulkAssign, Card!saves, AutoInv, DraftInv,
      Card!ZoneIsInTheAccount, Card!ForeignPushIsWarned
<1>10. ASSUME NEW t \in Card!Texts, Card!EditDraft(t) PROVE CardInv'
  <2>1. /\ draft' \in [text : Card!Texts, edited : BOOLEAN, source : Card!Texts] /\ draft'.edited
        /\ draft'.text = t /\ draft'.source = draft.source /\ t \in {draft.text, "own", Card!NoZone}
    BY <1>10 DEF Card!EditDraft
  <2>2. open /\ UNCHANGED <<Card!binding, open, Card!saves, upsets, Card!ghosts>>
    BY <1>10 DEF Card!EditDraft
  <2> QED BY <2>1, <2>2 DEF Card!binding, Card!saves, Card!ghosts, AutoInv, DraftInv,
      Card!ZoneIsInTheAccount,
                            Card!ForeignPushIsWarned, Card!Zones, Card!NoZone
<1>11. CASE Card!RestoreDraft
  <2>1. Card!ZoneShown(row, seen) \in Card!Texts
    BY DEF Card!ZoneShown, Binding, Card!Texts
  <2>2. draft' = [text |-> Card!ZoneShown(row, seen), edited |-> TRUE, source |-> Card!ZoneShown(row, seen)]
        /\ open /\ UNCHANGED <<Card!binding, open, Card!saves, upsets, Card!ghosts>>
    BY <1>11 DEF Card!RestoreDraft
  <2> QED BY <2>1, <2>2 DEF Card!binding, Card!saves, Card!ghosts, AutoInv, DraftInv,
      Card!ZoneIsInTheAccount,
                            Card!ForeignPushIsWarned
<1>12. CASE Card!PushNs
  <2>1. draft.text \in Card!Zones \ {row.zone} => Card!FromDetachedZone
    BY DEF DraftInv, Card!FromDetachedZone, Card!Zones, Card!NoZone
  <2> QED BY <1>12, <2>1 DEF Card!PushNs, Card!binding, Card!saves, AutoInv, DraftInv,
      Card!ZoneIsInTheAccount,
                             Card!ForeignPushIsWarned
<1> QED BY <1>1, <1>2, <1>3, <1>4, <1>5, <1>6, <1>7, <1>8, <1>9, <1>10, <1>11,
    <1>12 DEF Card!Next

\* It gives the zone of the account and the warning before a foreign push.
LEMMA CardKeeps == CardInv => Card!TypeOK /\ Card!ZoneIsInTheAccount /\ Card!ForeignPushIsWarned
BY DEF CardInv, CardTypeInv, Binding, Card!TypeOK

-----------------------------------------------------------------------------
(***************************************************************************)
(* The bulk binding of domains to the zones that bear their names.         *)
(***************************************************************************)
(* The cardinality of a set, as ZoneBind counts it. *)
LEMMA BindSizes ==
  /\ \A S : Bind!Cardinality(S) = Cardinality(S)
  /\ \A S : Bind!IsFiniteSet(S) <=> IsFiniteSet(S)
  BY DEF Bind!Cardinality, Bind!IsFiniteSet, Cardinality, IsFiniteSet

BindRecord ==
    [pc : {"no", "read", "check", "put", "report"}, home : BOOLEAN, read : SUBSET Bind!Accounts,
     unread : SUBSET Bind!Accounts, to : Bind!Accounts \union {Bind!Unbound},
     outcome : {"none", "skipped", "matched", "ambiguous", "bound", "taken", "failed"}]

BindTypeInv ==
    /\ zoneIn \subseteq Bind!Accounts /\ record \in Bind!Accounts \union {Bind!Unbound}
    /\ row \in Bind!Accounts \union {Bind!Unbound} /\ run \in [Bind!Modes -> BindRecord]
    /\ banner \in Bind!Modes \union {"nobody"} /\ away \subseteq Bind!Modes

\* What a run has matched, and may write, is the only zone or one account is unread.
MatchInv(j) ==
    /\ j.pc \in {"check", "put"} \/ j.outcome = "bound" => zoneIn = {j.to} \/ j.unread # {}
    /\ j.pc = "read" => j.outcome = "none"

BindInv == BindTypeInv /\ (\A m \in Bind!Modes : MatchInv(run[m])) /\ Bind!ManualNoticeStays

\* The invariant of the binding holds at first.
LEMMA BindInit == Bind!Init => BindInv
BY DEF Bind!Init, BindInv, BindTypeInv, MatchInv, Bind!ManualNoticeStays, Bind!NoRun,
    BindRecord, Bind!Accounts, Bind!Unbound, Bind!Modes

\* There are finitely many accounts.
LEMMA AccountsAreFinite == \A S \in SUBSET Bind!Accounts : Bind!IsFiniteSet(S)
<1>1. Bind!IsFiniteSet({1} \union {2})
  BY BindSizes, FS_Singleton, FS_AddElement
<1>2. Bind!Accounts = {1} \union {2}
  BY DEF Bind!Accounts
<1> QED BY BindSizes, <1>1, <1>2, FS_Subset

\* One account alone has the zone when all were read and one was found.
LEMMA MatchIsUnambiguous ==
    ASSUME NEW j \in BindRecord, j.read \union j.unread = Bind!Accounts, zoneIn \subseteq Bind!Accounts,
           j.outcome # "bound"
    PROVE  Bind!Match(j) \in BindRecord /\ MatchInv(Bind!Match(j))
<1> DEFINE hits == zoneIn \intersect j.read
<1>1. CASE hits = {}
  <2>1. Bind!Cardinality(hits) # 1
    BY BindSizes, <1>1, FS_EmptySet
  <2>2. Bind!Match(j) = [j EXCEPT !.pc = "report"]
    BY <1>1, <2>1 DEF Bind!Match
  <2> QED BY <2>2 DEF BindRecord, MatchInv
<1>2. CASE hits # {} /\ Bind!Cardinality(hits) = 1
  <2>1. Bind!IsFiniteSet(hits)
    BY AccountsAreFinite
  <2>2. PICK a : hits = {a}
    BY BindSizes, <1>2, <2>1, FS_Singleton
  <2>3. (CHOOSE b \in hits : TRUE) = a /\ a \in Bind!Accounts
    BY <2>2
  <2>4. Bind!Match(j) = [j EXCEPT !.pc = "check", !.outcome = "matched", !.to = a]
    BY <1>2, <2>3 DEF Bind!Match
  <2>5. Bind!Match(j) \in BindRecord /\ Bind!Match(j).to = a /\ Bind!Match(j).unread = j.unread
        /\ Bind!Match(j).pc = "check"
    BY <2>3, <2>4 DEF BindRecord
  <2>6. j.unread = {} => zoneIn = hits
    BY DEF BindRecord
  <2> QED BY <2>2, <2>5, <2>6 DEF MatchInv
<1>3. CASE hits # {} /\ Bind!Cardinality(hits) # 1
  <2>1. Bind!Match(j) = [j EXCEPT !.pc = "report", !.outcome = "ambiguous"]
    BY <1>3 DEF Bind!Match
  <2> QED BY <2>1 DEF BindRecord, MatchInv
<1> QED BY <1>1, <1>2, <1>3

\* A step of the run of one mode, which leaves the notices as they are.
LEMMA RunStep ==
    ASSUME BindInv, NEW m \in Bind!Modes, NEW j \in BindRecord, MatchInv(j),
           run' = [run EXCEPT ![m] = j], record' \in Bind!Accounts \union {Bind!Unbound},
           UNCHANGED <<zoneIn, row>>, away' \subseteq Bind!Modes,
           UNCHANGED <<banner, due>> \/ (banner' \in Bind!Modes \union {"nobody"} /\ (due' => banner' = "manual"))
    PROVE  BindInv'
<1>1. BindTypeInv' /\ \A n \in Bind!Modes : run'[n] = IF n = m THEN j ELSE run[n]
  BY DEF BindInv, BindTypeInv
<1>2. \A n \in Bind!Modes : MatchInv(run[n])'
  BY <1>1 DEF BindInv, MatchInv
<1>3. Bind!ManualNoticeStays'
  BY DEF BindInv, Bind!ManualNoticeStays
<1> QED BY <1>1, <1>2, <1>3 DEF BindInv

\* Every action keeps it.
LEMMA BindStep == BindInv /\ [Bind!Next]_(Bind!vars) => BindInv'
<1> SUFFICES ASSUME BindInv, [Bind!Next]_(Bind!vars) PROVE BindInv'
  OBVIOUS
<1> USE DEF BindInv, BindTypeInv
<1>0. \A m \in Bind!Modes : run[m] \in BindRecord /\ MatchInv(run[m])
  OBVIOUS
<1>1. CASE UNCHANGED Bind!vars \/ Bind!Refetch \/ Bind!Dismiss
  BY <1>1 DEF Bind!vars, Bind!data, Bind!Refetch, Bind!Dismiss, MatchInv,
      Bind!ManualNoticeStays
<1>2. CASE Bind!LeavePage
  <2>1. \A m \in Bind!Modes : [run[m] EXCEPT !.home = FALSE] \in BindRecord
                         /\ MatchInv([run[m] EXCEPT !.home = FALSE])
    BY <1>0 DEF BindRecord, MatchInv
  <2>2. /\ run' = [m \in Bind!Modes |-> [run[m] EXCEPT !.home = FALSE]]
        /\ banner' = "nobody" /\ due' = FALSE /\ UNCHANGED <<Bind!data, away>>
    BY <1>2 DEF Bind!LeavePage
  <2>3. zoneIn' = zoneIn
    BY <2>2 DEF Bind!data
  <2>4. \A m \in Bind!Modes : MatchInv(run[m])'
    BY <2>1, <2>2, <2>3 DEF MatchInv
  <2> QED BY <2>1, <2>2, <2>4 DEF Bind!data, Bind!ManualNoticeStays
<1>3. ASSUME NEW a \in Bind!Accounts \union {Bind!Unbound}, Bind!Pick(a) PROVE BindInv'
  BY <1>3 DEF Bind!Pick, MatchInv, Bind!ManualNoticeStays
<1>4. ASSUME NEW m \in Bind!Modes, Bind!Start(m) PROVE BindInv'
  <2> DEFINE j == IF row # Bind!Unbound
                  THEN [Bind!NoRun EXCEPT !.pc = "report", !.home = TRUE, !.outcome = "skipped"]
                  ELSE [Bind!NoRun EXCEPT !.pc = "read", !.home = TRUE]
  <2>1. j \in BindRecord /\ MatchInv(j)
    BY DEF Bind!NoRun, BindRecord, MatchInv, Bind!Unbound
  <2>2. run' = [run EXCEPT ![m] = j] /\ UNCHANGED <<zoneIn, row, record, away>>
        /\ (UNCHANGED <<banner, due>> \/ (banner' = "nobody" /\ ~due'))
    BY <1>4 DEF Bind!Start, Bind!data
  <2> HIDE DEF j
  <2> QED BY <2>1, <2>2, RunStep
<1>5. ASSUME NEW m \in Bind!Modes, Bind!ReadZones(m) PROVE BindInv'
  <2>1. PICK a \in Bind!Accounts :
           /\ run[m].pc = "read"
           /\ \E j \in {[run[m] EXCEPT !.read = @ \union {a}], [run[m] EXCEPT !.unread = @ \union {a}]} :
                 run' = [run EXCEPT ![m] = IF j.read \union j.unread = Bind!Accounts THEN Bind!Match(j) ELSE j]
           /\ UNCHANGED <<Bind!data, banner, away, due>>
    BY <1>5 DEF Bind!ReadZones
  <2>2. PICK j \in {[run[m] EXCEPT !.read = @ \union {a}], [run[m] EXCEPT !.unread = @ \union {a}]} :
           run' = [run EXCEPT ![m] = IF j.read \union j.unread = Bind!Accounts THEN Bind!Match(j) ELSE j]
    BY <2>1
  <2>3. j \in BindRecord /\ j.pc = "read" /\ j.outcome = run[m].outcome
    BY <1>0, <2>1 DEF BindRecord
  <2>4. j.outcome = "none"
    BY <1>0, <2>1, <2>3 DEF MatchInv
  <2>5. BindInv'
    <3>1. MatchInv(j)
      BY <2>3, <2>4 DEF MatchInv
    <3>2. PICK k \in {j, Bind!Match(j)} : run' = [run EXCEPT ![m] = k] /\ k \in BindRecord /\ MatchInv(k)
      BY <2>2, <2>3, <2>4, <3>1, MatchIsUnambiguous
    <3> QED BY <2>1, <3>2, RunStep DEF Bind!data
  <2> QED BY <2>5
<1>6. ASSUME NEW m \in Bind!Modes, Bind!Check(m) PROVE BindInv'
  <2> DEFINE j == IF row = Bind!Unbound THEN [run[m] EXCEPT !.pc = "put"]
                  ELSE [run[m] EXCEPT !.pc = "report", !.outcome = "taken"]
  <2>1. j \in BindRecord /\ MatchInv(j)
    BY <1>0, <1>6 DEF Bind!Check, BindRecord, MatchInv
  <2>2. run' = [run EXCEPT ![m] = j] /\ UNCHANGED <<zoneIn, row, record, banner, away, due>>
    BY <1>6 DEF Bind!Check, Bind!data
  <2> HIDE DEF j
  <2> QED BY <2>1, <2>2, RunStep
<1>7. ASSUME NEW m \in Bind!Modes, Bind!Written(m) PROVE BindInv'
  <2>1. PICK how \in {"bound", "failed"} :
           run' = [run EXCEPT ![m].pc = "report", ![m].outcome = how]
    BY <1>7 DEF Bind!Written
  <2> DEFINE j == [run[m] EXCEPT !.pc = "report", !.outcome = how]
  <2>2. j \in BindRecord /\ MatchInv(j)
    BY <1>0, <1>7 DEF Bind!Written, BindRecord, MatchInv
  <2>3. run' = [run EXCEPT ![m] = j] /\ run[m].to \in Bind!Accounts \union {Bind!Unbound}
    BY <1>0, <2>1 DEF BindRecord
  <2>4. UNCHANGED <<zoneIn, row, banner, away, due>> /\ record' \in {record, run[m].to}
    BY <1>7 DEF Bind!Written
  <2> HIDE DEF j
  <2> QED BY <2>2, <2>3, <2>4, RunStep
<1>8. ASSUME NEW m \in Bind!Modes, Bind!Report(m) PROVE BindInv'
  <2>1. Bind!NoRun \in BindRecord /\ MatchInv(Bind!NoRun)
    BY DEF Bind!NoRun, BindRecord, MatchInv, Bind!Unbound
  <2>2. run' = [run EXCEPT ![m] = Bind!NoRun] /\ UNCHANGED <<zoneIn, record, row>>
    BY <1>8 DEF Bind!Report, Bind!data
  <2>3. away' \subseteq Bind!Modes
    BY <1>8 DEF Bind!Report
  <2>4. \/ UNCHANGED <<banner, due>>
        \/ banner' \in Bind!Modes \union {"nobody"} /\ (due' => banner' = "manual")
    BY <1>8 DEF Bind!Report
  <2> QED BY <2>1, <2>2, <2>3, <2>4, RunStep
<1>9. ASSUME NEW m \in Bind!Modes, Bind!Failure(m) PROVE BindInv'
  <2> DEFINE j == [run[m] EXCEPT !.pc = "report", !.outcome = "failed"]
  <2>1. j \in BindRecord /\ MatchInv(j)
    BY <1>0 DEF BindRecord, MatchInv
  <2>2. run' = [run EXCEPT ![m] = j] /\ UNCHANGED <<zoneIn, row, record, banner, away, due>>
    BY <1>9 DEF Bind!Failure, Bind!data
  <2> HIDE DEF j
  <2> QED BY <2>1, <2>2, RunStep
<1> QED BY <1>1, <1>2, <1>3, <1>4, <1>5, <1>6, <1>7, <1>8, <1>9 DEF Bind!Next

\* It gives that a binding is unambiguous and a manual notice stays.
LEMMA BindKeeps == BindInv => Bind!TypeOK /\ Bind!BoundIsUnambiguous /\ Bind!ManualNoticeStays
<1>1. BindInv => Bind!TypeOK
  BY DEF BindInv, BindTypeInv, BindRecord, Bind!TypeOK
<1> QED BY <1>1 DEF BindInv, Bind!BoundIsUnambiguous, MatchInv

-----------------------------------------------------------------------------
(***************************************************************************)
(* The full setup of a set of domains, and its report.                     *)
(***************************************************************************)
(* The cardinality of a set, as FullSetup counts it. *)
LEMMA SetupSizes ==
  /\ \A S : Setup!Cardinality(S) = Cardinality(S)
  /\ \A S : Setup!IsFiniteSet(S) <=> IsFiniteSet(S)
  BY DEF Setup!Cardinality, Setup!IsFiniteSet, Cardinality, IsFiniteSet

StepPcs == {"wait", "zone", "save", "ns", "ok", "failed", "notstarted", "skipped"}
StepRecord ==
    [pc : StepPcs, zone : {"none", "created", "existed", "failed"}, saved : BOOLEAN,
     ns : {"none", "pushed", "failed", "skipped", "notrequested"}]

SetupTypeInv ==
    /\ step \in [Sites -> StepRecord] /\ plan \in Setup!Forms
    /\ pc \in {"form", "link", "sync", "steps", "report"}
    /\ linked \subseteq Sites /\ faults \in Nat

\* What of the form the plan keeps: no push without a zone, none by hand.
PlanInv ==
    /\ plan.create => plan.desktop
    /\ plan.push => plan.create /\ plan.registrar = "api"

\* Once the links are in, exactly the domains that are gone are skipped; a run that
\* goes on has something to do, and one that has not may end at once.
RunInv ==
    /\ pc \in {"form", "link"} => step = [d \in Sites |-> Setup!Waiting]
    /\ pc \in {"form", "link", "sync"} => touched = {}
    /\ pc # "steps" => \A d \in Sites : step[d].pc \notin {"zone", "save", "ns"}
    /\ pc \in {"sync", "steps", "report"} =>
          /\ Sites \ gone \subseteq linked
          /\ \A d \in Sites : step[d].pc = "skipped" <=> d \in gone
    /\ pc = "report" /\ plan.create =>
          \A d \in Sites : step[d].pc \in {"ok", "failed", "notstarted", "skipped"}
    /\ Setup!InPc("notstarted") # {} => Setup!Stopped

\* How far each domain is, what of it is so in the world, and that it is untouched
\* until the step that first writes.
DomainInv(d) ==
    /\ d \in touched => step[d].pc \in {"save", "ns", "ok"}
    /\ step[d].pc \in {"save", "ns", "ok"} /\ step[d].zone # "failed" => d \in zone
    /\ step[d].pc \in {"ns", "ok"} /\ step[d].zone # "failed" /\ step[d].saved => d \in saved
    /\ step[d].pc = "ok" /\ step[d].ns = "pushed" => d \in delegated
    /\ step[d].pc = "ok" /\ plan.push => step[d].ns \in {"pushed", "failed", "skipped"}

SetupInv ==
    /\ SetupTypeInv /\ PlanInv /\ RunInv
    /\ touched \subseteq Sites /\ \A d \in Sites : DomainInv(d)

\* The invariant of the full setup holds at first.
LEMMA SetupInit == Setup!Init => SetupInv
BY DEF Setup!Init, SetupInv, SetupTypeInv, PlanInv, RunInv, DomainInv, StepRecord, StepPcs,
       Setup!Waiting, Setup!NoPlan, Setup!Forms, Setup!Registrars, Setup!InPc

\* What a step of one domain's run does: it moves that domain on, adds to the world
\* and touches no other.
Advance(d, s) ==
    /\ step[d].pc \in {"wait", "zone", "save", "ns"}
    /\ s \in StepRecord /\ s.pc # "skipped"
    /\ Setup!SetStep(d, s)
    /\ zone \subseteq zone' /\ saved \subseteq saved' /\ delegated \subseteq delegated'
    /\ touched' = touched \/ (touched' = touched \union {d} /\ s.pc \in {"save", "ns", "ok"})
    /\ UNCHANGED <<gone, linked, plan, pc>> /\ faults' \in Nat
    /\ s.pc = "notstarted" => Setup!Stopped
    /\ d \in touched => s.pc \in {"save", "ns", "ok"}
    /\ s.pc \in {"save", "ns", "ok"} /\ s.zone # "failed" => d \in zone'
    /\ s.pc \in {"ns", "ok"} /\ s.zone # "failed" /\ s.saved => d \in saved'
    /\ s.pc = "ok" /\ s.ns = "pushed" => d \in delegated'
    /\ s.pc = "ok" /\ plan.push => s.ns \in {"pushed", "failed", "skipped"}

\* One domain advanced keeps it, whatever the others do.
LEMMA AdvanceStep ==
    ASSUME SetupInv, NEW d \in Sites, NEW s, Advance(d, s), pc = "steps"
    PROVE  SetupInv'
<1>1. /\ step' \in [Sites -> StepRecord] /\ step'[d] = s
      /\ \A e \in Sites \ {d} : step'[e] = step[e]
  BY DEF SetupInv, SetupTypeInv, Advance, Setup!SetStep
<1>2. SetupTypeInv' /\ PlanInv'
  BY <1>1 DEF SetupInv, SetupTypeInv, PlanInv, Advance
<1>3. \A e \in Sites : DomainInv(e)'
  BY <1>1 DEF SetupInv, DomainInv, Advance
<1>4. Setup!InPc("failed") \subseteq Setup!InPc("failed")'
  BY <1>1 DEF Advance, Setup!InPc
<1>5. RunInv'
  <2>1. Setup!InPc("notstarted")' # {} => Setup!Stopped'
    BY <1>1, <1>4 DEF SetupInv, RunInv, Setup!Stopped, Advance, Setup!InPc
  <2>2. \A e \in Sites : step'[e].pc = "skipped" <=> e \in gone'
    BY <1>1 DEF SetupInv, RunInv, Advance
  <2> QED BY <2>1, <2>2 DEF SetupInv, RunInv, Advance
<1>6. touched' \subseteq Sites
  BY DEF SetupInv, Advance
<1> QED BY <1>2, <1>3, <1>5, <1>6 DEF SetupInv

\* Every step of a domain advances that domain alone.
LEMMA DomainStep ==
    ASSUME SetupInv, NEW d \in Sites, PlanInv,
           Setup!Begin(d) \/ Setup!EnsureZone(d) \/ Setup!SaveZoneId(d) \/ Setup!PushNameservers(d)
    PROVE  pc = "steps" /\ \E s : Advance(d, s)
<1> USE DEF SetupInv, DomainInv, SetupTypeInv, StepRecord, StepPcs
<1>0. step[d] \in StepRecord /\ pc = "steps"
  BY DEF Setup!Begin, Setup!EnsureZone, Setup!SaveZoneId, Setup!PushNameservers, RunInv,
      Setup!Waiting
<1>f. faults' \in Nat
  BY DEF Setup!Begin, Setup!EnsureZone, Setup!SaveZoneId, Setup!PushNameservers,
      Setup!Sound, Setup!Fault
<1>1. CASE Setup!Begin(d)
  <2> DEFINE s == [step[d] EXCEPT !.pc = IF Setup!Stopped THEN "notstarted"
                                         ELSE IF key THEN "zone" ELSE "failed"]
  <2>1. /\ s \in StepRecord /\ s.pc \in {"notstarted", "zone", "failed"}
        /\ s.pc = "notstarted" => Setup!Stopped
    BY <1>0
  <2> QED BY <1>0, <1>f, <1>1, <2>1 DEF Setup!Begin, Advance, Setup!world
<1>2. CASE Setup!EnsureZone(d)
  <2> USE DEF Setup!EnsureZone
  <2>1. CASE key /\ Setup!Sound
    <3> DEFINE s == [step[d] EXCEPT !.pc = "save",
                                    !.zone = IF d \in zone THEN "existed" ELSE "created"]
    <3>1. s \in StepRecord /\ s.pc = "save" /\ s.zone # "failed"
      BY <1>0
    <3>2. /\ Setup!SetStep(d, s) /\ zone' = zone \union {d} /\ touched' \in {touched, touched \union {d}}
          /\ UNCHANGED <<gone, linked, saved, delegated, plan, pc>>
      BY <1>2, <2>1 DEF Setup!Sound, Setup!Fault
    <3>3. step[d].pc = "zone"
      BY <1>2
    <3>4. Advance(d, s)
      <4> HIDE DEF s
      <4> QED BY <1>0, <1>f, <3>1, <3>2, <3>3 DEF Advance
    <3> HIDE DEF s
    <3> QED BY <1>0, <3>4
  <2>2. CASE key /\ Setup!Fault
    <3> DEFINE s == [step[d] EXCEPT !.pc = "ns", !.zone = "failed"]
    <3>1. s \in StepRecord /\ s.pc = "ns" /\ s.zone = "failed"
      BY <1>0
    <3>2. Setup!SetStep(d, s) /\ UNCHANGED <<gone, linked, zone, saved, delegated, touched, plan, pc>>
      BY <1>2, <2>2 DEF Setup!Sound, Setup!Fault
    <3>3. step[d].pc = "zone"
      BY <1>2
    <3>4. Advance(d, s)
      <4> HIDE DEF s
      <4> QED BY <1>0, <1>f, <3>1, <3>2, <3>3 DEF Advance
    <3> HIDE DEF s
    <3> QED BY <1>0, <3>4
  <2>3. CASE ~key
    <3>1. Setup!Off("failed") \in StepRecord /\ Setup!Off("failed").pc = "failed"
      BY DEF Setup!Off, Setup!Waiting
    <3>2. Advance(d, Setup!Off("failed"))
      BY <1>0, <1>f, <1>2, <2>3, <3>1 DEF Advance
    <3> QED BY <1>0, <3>2
  <2> QED BY <1>2, <2>1, <2>2, <2>3 DEF Setup!EnsureZone
<1>3. CASE Setup!SaveZoneId(d)
  <2> USE DEF Setup!SaveZoneId
  <2>1. CASE Setup!Sound
    <3> DEFINE s == [step[d] EXCEPT !.pc = "ns"]
    <3>1. s \in StepRecord /\ s.pc = "ns" /\ s.zone = step[d].zone
      BY <1>0
    <3>2. /\ Setup!SetStep(d, s) /\ saved' = saved \union {d} /\ touched' = touched \union {d}
          /\ UNCHANGED <<gone, linked, zone, delegated, plan, pc>>
      BY <1>3, <2>1 DEF Setup!Sound, Setup!Fault
    <3>3. step[d].pc = "save"
      BY <1>3
    <3>4. Advance(d, s)
      <4> HIDE DEF s
      <4> QED BY <1>0, <1>f, <3>1, <3>2, <3>3 DEF Advance
    <3> HIDE DEF s
    <3> QED BY <1>0, <3>4
  <2>2. CASE Setup!Fault
    <3> DEFINE s == [step[d] EXCEPT !.pc = "ns", !.saved = FALSE]
    <3>1. s \in StepRecord /\ s.pc = "ns" /\ s.zone = step[d].zone /\ ~s.saved
      BY <1>0
    <3>2. Setup!SetStep(d, s) /\ UNCHANGED <<gone, linked, zone, saved, delegated, touched, plan, pc>>
      BY <1>3, <2>2 DEF Setup!Sound, Setup!Fault
    <3>3. step[d].pc = "save"
      BY <1>3
    <3>4. Advance(d, s)
      <4> HIDE DEF s
      <4> QED BY <1>0, <1>f, <3>1, <3>2, <3>3 DEF Advance
    <3> HIDE DEF s
    <3> QED BY <1>0, <3>4
  <2> QED BY <1>3, <2>1, <2>2 DEF Setup!SaveZoneId
<1>4. CASE Setup!PushNameservers(d)
  <2> USE DEF Setup!PushNameservers
  <2>0. Setup!NsPlan(d) \in {"notrequested", "skipped", "push"} /\ (plan.push <=> Setup!NsPlan(d) # "notrequested")
    BY DEF Setup!NsPlan, Setup!SupportsNs
  <2> DEFINE S(ns) == [step[d] EXCEPT !.pc = "ok", !.ns = ns]
  <2>1. \A ns \in {"pushed", "failed", "skipped", "notrequested"} :
           S(ns) \in StepRecord /\ S(ns).pc = "ok" /\ S(ns).ns = ns
           /\ S(ns).zone = step[d].zone /\ S(ns).saved = step[d].saved
    BY <1>0
  <2>2. \/ /\ Setup!NsPlan(d) # "push" /\ Setup!SetStep(d, S(Setup!NsPlan(d)))
           /\ UNCHANGED <<delegated, touched>>
        \/ /\ Setup!NsPlan(d) = "push" /\ Setup!SetStep(d, S("pushed"))
           /\ delegated' = delegated \union {d} /\ touched' = touched \union {d}
        \/ /\ Setup!NsPlan(d) = "push" /\ Setup!SetStep(d, S("failed")) /\ UNCHANGED <<delegated, touched>>
    BY <1>4
  <2>3. step[d].pc = "ns" /\ UNCHANGED <<gone, linked, zone, saved, plan, pc>>
    BY <1>4
  <2> HIDE DEF S
  <2>4. PICK ns \in {"pushed", "failed", "skipped", "notrequested"} :
           /\ Setup!SetStep(d, S(ns)) /\ (plan.push => ns # "notrequested")
           /\ ns = "pushed" => d \in delegated'
           /\ delegated \subseteq delegated' /\ touched' \in {touched, touched \union {d}}
    BY <2>0, <2>2
  <2>5. Advance(d, S(ns))
    BY <1>0, <1>f, <2>1, <2>3, <2>4 DEF Advance
  <2> QED BY <1>0, <2>5
<1> QED BY <1>0, <1>f, <1>1, <1>2, <1>3, <1>4

\* Back at the form nothing is promised.
LEMMA FormIsFree ==
    ASSUME SetupInv, pc' = "form", step' = [d \in Sites |-> Setup!Waiting], touched' = {},
           plan' \in {plan, Setup!NoPlan}, faults' \in Nat, linked' = linked
    PROVE  SetupInv'
<1>1. Setup!Waiting \in StepRecord /\ Setup!Waiting.pc = "wait"
  BY DEF Setup!Waiting, StepRecord, StepPcs
<1>2. Setup!NoPlan \in Setup!Forms /\ ~Setup!NoPlan.create /\ ~Setup!NoPlan.push
  BY DEF Setup!NoPlan, Setup!Forms, Setup!Registrars
<1>3. SetupTypeInv' /\ PlanInv'
  BY <1>1, <1>2 DEF SetupInv, SetupTypeInv, PlanInv
<1>4. RunInv'
  BY <1>1 DEF RunInv, Setup!InPc
<1>5. \A d \in Sites : DomainInv(d)'
  BY <1>1 DEF DomainInv
<1> QED BY <1>3, <1>4, <1>5 DEF SetupInv

\* Every action keeps it.
LEMMA SetupStep == SetupInv /\ [Setup!Next]_(Setup!vars) => SetupInv'
<1> SUFFICES ASSUME SetupInv, [Setup!Next]_(Setup!vars) PROVE SetupInv'
  OBVIOUS
<1> USE DEF SetupInv
<1>1. CASE UNCHANGED Setup!vars
  BY <1>1 DEF Setup!vars, Setup!world, SetupTypeInv, PlanInv, RunInv, DomainInv,
      Setup!InPc, Setup!Stopped
<1>2. CASE Setup!AssignLinks
  <2> USE DEF Setup!AssignLinks
  <2>1. \A d \in Sites : step'[d] = IF d \in gone THEN Setup!Off("skipped") ELSE Setup!Waiting
    BY <1>2
  <2>2. /\ Setup!Off("skipped") \in StepRecord /\ Setup!Off("skipped").pc = "skipped"
        /\ Setup!Waiting \in StepRecord /\ Setup!Waiting.pc = "wait"
    BY DEF Setup!Off, Setup!Waiting, StepRecord, StepPcs
  <2>3. SetupTypeInv'
    BY <1>2, <2>2 DEF SetupTypeInv
  <2>4. touched = {} /\ UNCHANGED <<gone, plan, touched>>
    BY <1>2 DEF RunInv
  <2>5. PlanInv' /\ touched' \subseteq Sites /\ \A d \in Sites : DomainInv(d)'
    BY <2>1, <2>2, <2>4 DEF PlanInv, DomainInv
  <2>6. RunInv'
    BY <1>2, <2>1, <2>2, <2>4 DEF RunInv, PlanInv, Setup!InPc
  <2> QED BY <2>3, <2>5, <2>6
<1>3. CASE Setup!SyncLocalCache \/ Setup!LoseKey
  BY <1>3 DEF Setup!SyncLocalCache, Setup!LoseKey, Setup!Fault, Setup!world, SetupTypeInv,
      PlanInv, RunInv, DomainInv, Setup!InPc, Setup!Stopped
<1>4. CASE Setup!Report
  BY <1>4 DEF Setup!Report, Setup!Targets, Setup!world, SetupTypeInv, PlanInv, RunInv,
      DomainInv, Setup!InPc, Setup!Stopped
<1>5. CASE Setup!GiveUp \/ Setup!Again
  <2>1. /\ pc' = "form" /\ step' = [d \in Sites |-> Setup!Waiting] /\ touched' = {}
        /\ plan' \in {plan, Setup!NoPlan} /\ faults' \in Nat /\ linked' = linked
    BY <1>5 DEF Setup!GiveUp, Setup!Again, Setup!world, SetupTypeInv, Setup!Fault
  <2> QED BY <2>1, FormIsFree
<1>6. ASSUME NEW f \in Setup!Forms, Setup!Run(f) PROVE SetupInv'
  <2>1. plan' = Setup!PlanFromForm(f) /\ Setup!PlanFromForm(f) \in Setup!Forms
    BY <1>6 DEF Setup!Run, Setup!PlanFromForm, Setup!Forms, Setup!ZoneToggle,
        Setup!NsToggle, Setup!SupportsNs, Setup!Registrars
  <2>2. PlanInv'
    <3>1. plan'.desktop = f.desktop /\ plan'.registrar = f.registrar
      BY <2>1 DEF Setup!PlanFromForm, Setup!Forms
    <3>2. plan'.create = (f.create /\ f.desktop)
      BY <2>1 DEF Setup!PlanFromForm, Setup!Forms, Setup!ZoneToggle
    <3>3. plan'.push => f.create /\ f.desktop /\ f.registrar = "api"
      BY <2>1 DEF Setup!PlanFromForm, Setup!Forms, Setup!ZoneToggle, Setup!NsToggle,
          Setup!SupportsNs
    <3> QED BY <3>1, <3>2, <3>3 DEF PlanInv
  <2>3. /\ step = [d \in Sites |-> Setup!Waiting] /\ touched = {} /\ pc' = "link"
        /\ UNCHANGED <<Setup!world, step, touched, faults>>
    BY <1>6 DEF Setup!Run, RunInv
  <2>4. \A d \in Sites : step[d].pc = "wait"
    BY <2>3 DEF Setup!Waiting
  <2>5. SetupTypeInv' /\ RunInv'
    BY <2>1, <2>3, <2>4 DEF SetupTypeInv, RunInv, Setup!world, Setup!InPc
  <2>6. \A d \in Sites : DomainInv(d)'
    BY <2>3, <2>4 DEF DomainInv
  <2> QED BY <2>2, <2>3, <2>5, <2>6
<1>7. ASSUME NEW d \in Sites,
             Setup!Begin(d) \/ Setup!EnsureZone(d) \/ Setup!SaveZoneId(d) \/ Setup!PushNameservers(d)
      PROVE  SetupInv'
  BY <1>7, DomainStep, AdvanceStep
<1> QED BY <1>1, <1>2, <1>3, <1>4, <1>5, <1>6, <1>7 DEF Setup!Next

\* What is in the world is said of the domains of the setup.
WorldInv == \A set \in {gone, linked, zone, saved, delegated} : set \subseteq Sites

\* The types of zones, records and registry, at first.
LEMMA WorldInit == Setup!Init => WorldInv
BY DEF Setup!Init, WorldInv

\* And after every action.
LEMMA WorldStep == WorldInv /\ [Setup!Next]_(Setup!vars) => WorldInv'
<1> SUFFICES ASSUME WorldInv, [Setup!Next]_(Setup!vars) PROVE WorldInv'
  OBVIOUS
<1> USE DEF WorldInv, Setup!world
<1>1. CASE UNCHANGED Setup!vars
  BY <1>1 DEF Setup!vars
<1>2. CASE Setup!AssignLinks
  BY <1>2 DEF Setup!AssignLinks
<1>3. CASE Setup!SyncLocalCache \/ Setup!LoseKey \/ Setup!Report \/ Setup!GiveUp \/ Setup!Again
  BY <1>3 DEF Setup!SyncLocalCache, Setup!LoseKey, Setup!Report, Setup!GiveUp, Setup!Again
<1>4. ASSUME NEW f \in Setup!Forms, Setup!Run(f) PROVE WorldInv'
  BY <1>4 DEF Setup!Run
<1>5. ASSUME NEW d \in Sites, Setup!Begin(d) \/ Setup!EnsureZone(d) PROVE WorldInv'
  BY <1>5 DEF Setup!Begin, Setup!EnsureZone
<1>6. ASSUME NEW d \in Sites, Setup!SaveZoneId(d) \/ Setup!PushNameservers(d) PROVE WorldInv'
  BY <1>6 DEF Setup!SaveZoneId, Setup!PushNameservers
<1>7. QED
  BY <1>1, <1>2, <1>3, <1>4, <1>5, <1>6 DEF Setup!Next

\* Both give the types (TypeOK).
LEMMA SetupIsTyped == SetupInv /\ WorldInv => Setup!TypeOK
BY DEF SetupInv, SetupTypeInv, WorldInv, StepRecord, StepPcs, Setup!Forms, Setup!TypeOK

\* A notice with no warning means that all was done (InfoMeansDone).
LEMMA InfoIsDone == SetupInv => Setup!InfoMeansDone
BY DEF SetupInv, SetupTypeInv, PlanInv, RunInv, DomainInv, StepRecord, StepPcs,
    Setup!InfoMeansDone, Setup!AllDone, Setup!Items, Setup!Aborted,
       Setup!Stopped, Setup!InPc, Setup!Forms

\* Every domain changed is in the report (ChangesAreReported).
LEMMA ReportIsWhole == SetupInv => Setup!ChangesAreReported
BY DEF SetupInv, PlanInv, RunInv, DomainInv, Setup!ChangesAreReported, Setup!Items,
    Setup!InPc

\* The number of domains not set up is that of the report (NotSetUpIsCounted).
LEMMA NotSetUpIsTold == Setup!IsFiniteSet(Sites) /\ SetupInv => Setup!NotSetUpIsCounted
<1> SUFFICES ASSUME Setup!IsFiniteSet(Sites), SetupInv, pc = "report", plan.create
             PROVE  /\ Setup!Aborted <=> Setup!NotSetUp > 0
                    /\ Setup!NotSetUp = Setup!Cardinality(Setup!InPc("failed") \union Setup!InPc("notstarted"))
  BY DEF Setup!NotSetUpIsCounted
<1> DEFINE Rest == Setup!InPc("failed") \union Setup!InPc("notstarted")
<1>1. Setup!IsFiniteSet(Setup!Items) /\ Setup!IsFiniteSet(Rest) /\ Setup!Items \intersect Rest = {}
  BY SetupSizes, FS_Subset DEF Setup!Items, Setup!InPc
<1>2. Setup!Targets = Setup!Items \union Rest
  BY DEF SetupInv, RunInv, Setup!Targets, Setup!Items, Setup!InPc
<1>3. Setup!Cardinality(Setup!Items \intersect Rest) = 0
  BY SetupSizes, <1>1, FS_EmptySet
<1>4. /\ Setup!Cardinality(Setup!Targets) = Setup!Cardinality(Setup!Items) + Setup!Cardinality(Rest)
      /\ Setup!Cardinality(Setup!Items) \in Nat /\ Setup!Cardinality(Rest) \in Nat
  <2> HIDE DEF Rest
  <2>1. Setup!Cardinality(Setup!Items) \in Nat /\ Setup!Cardinality(Rest) \in Nat
    BY SetupSizes, <1>1, FS_CardinalityType
  <2>2. Setup!Cardinality(Setup!Items \union Rest) = Setup!Cardinality(Setup!Items) + Setup!Cardinality(Rest) - 0
    BY SetupSizes, <1>1, <1>3, FS_Union
  <2> QED BY <2>1, <2>2, <1>2
<1>5. Setup!Cardinality(Rest) > 0 <=> Rest # {}
  <2> HIDE DEF Rest
  <2> QED BY SetupSizes, <1>1, <1>4, FS_EmptySet
<1>6. Rest # {} <=> Setup!Stopped
  BY DEF SetupInv, RunInv, Setup!Stopped
<1> QED BY <1>4, <1>5, <1>6 DEF Setup!Aborted, Setup!NotSetUp

\* A full setup of any sites that says nothing of failures did all it was to do, and
\* whatever it changed is in its report (runFullSetup, summarise).
THEOREM SetupAlwaysTells ==
    Setup!Spec => [](Setup!InfoMeansDone /\ Setup!ChangesAreReported)
<1> QED BY SetupInit, SetupStep, InfoIsDone, ReportIsWhole, PTL DEF Setup!Spec

-----------------------------------------------------------------------------
(***************************************************************************)
(* What the card says of a domain's delegation, for any number of pushes   *)
(* and faults.                                                             *)
(***************************************************************************)
PushRecord ==
    [list : Push!Lists, from : Push!From, pc : {"sent", "applied", "ok", "error", "late", "overdue"}]

\* The cache: what the registry has is among what it has had since the cache was made
\* old, and so is an answer on its way and the one that is shown as new.
CacheInv ==
    /\ answer \in Push!Lists \union {"unread"}
    /\ registry \in Push!Lists /\ registrar \in Push!Lists /\ registry \in since
    /\ flight \in Push!Lists \union {"none", "asked"} /\ since \subseteq Push!Lists
    /\ flight \in Push!Lists => flight \in since
    /\ Push!DelegationIsCurrent

\* The pushes: a set-up push with no answer yet is the one of the run under way; the
\* push noted last is the last one to end, or the run has one of the two.
EndInv ==
    /\ pushes \in Seq(PushRecord)
    /\ run \in 0..Len(pushes) /\ noted \in 0..Len(pushes) /\ settled \in 0..Len(pushes)
    /\ run # 0 => pushes[run].from = "setup"
    /\ \A i \in 1..Len(pushes) :
         pushes[i].from = "setup" /\ pushes[i].pc \in {"sent", "applied"} => i = run
    /\ \/ noted = settled
       \/ run # 0 /\ settled = run
       \/ noted # 0 /\ pushes[noted].from = "setup"
    /\ justPushed => noted # 0 /\ pushes[noted].pc = "ok"

PushInv == CacheInv /\ EndInv

\* What the page shows.
PageInv ==
    /\ busy \in 0..Len(pushes)
    /\ asking \in BOOLEAN /\ justPushed \in BOOLEAN /\ open \in BOOLEAN

\* They hold at first.
LEMMA PushInit == Push!Init => PushInv /\ PageInv
<1> SUFFICES ASSUME Push!Init PROVE PushInv /\ PageInv
  OBVIOUS
<1>1. Len(pushes) = 0 /\ pushes \in Seq(PushRecord) /\ 0 \in 0..Len(pushes)
  BY DEF Push!Init
<1>2. \A i \in 1..Len(pushes) : FALSE
  BY <1>1
<1>3. EndInv /\ PageInv
  BY <1>1, <1>2 DEF Push!Init, PageInv, EndInv
<1>4. CacheInv
  BY DEF Push!Init, CacheInv, Push!DelegationIsCurrent, Push!Lists
<1>5. QED
  BY <1>3, <1>4 DEF PushInv

\* A push noted with either outcome keeps the cache's part.
LEMMA NoteKeepsCache ==
    ASSUME CacheInv, NEW i, NEW a, Push!NoteNsPush(i, a), UNCHANGED <<registrar, registry, answer>>
    PROVE  CacheInv'
<1> DEFINE left == flight # "none" /\ (answer = "unread" \/ ~open)
<1>1. /\ asking' = (answer # "unread")
      /\ flight' = IF left \/ flight = "none" THEN flight ELSE "asked"
      /\ since' = IF left THEN since ELSE {registry}
  BY DEF Push!NoteNsPush
<1>2. "none" \notin Push!Lists /\ "asked" \notin Push!Lists
  BY DEF Push!Lists
<1>3. QED
  BY <1>1, <1>2 DEF CacheInv, Push!DelegationIsCurrent

\* Every action keeps the cache's part.
LEMMA CacheStep == CacheInv /\ EndInv /\ [Push!Next]_(Push!vars) => CacheInv'
<1> SUFFICES ASSUME CacheInv, EndInv, [Push!Next]_(Push!vars) PROVE CacheInv'
  OBVIOUS
<1>e. "none" \notin Push!Lists /\ "asked" \notin Push!Lists
  BY DEF Push!Lists
<1>1. CASE UNCHANGED <<Push!world, Push!cache>>
  BY <1>1 DEF Push!world, Push!cache, CacheInv, Push!DelegationIsCurrent
<1>2. CASE UNCHANGED Push!vars
  BY <1>1, <1>2 DEF Push!vars
<1>3. CASE Push!OpenCard
  <2>1. UNCHANGED <<registrar, registry, answer, flight, since>> /\ asking' \in {asking, answer # "unread"}
    BY <1>3 DEF Push!OpenCard, Push!world
  <2>2. QED
    BY <2>1 DEF CacheInv, Push!DelegationIsCurrent
<1>4. CASE Push!CloseCard \/ Push!Forget
  BY <1>1, <1>4 DEF Push!CloseCard, Push!Forget
<1>5. CASE Push!SetupPush \/ \E l \in Push!Lists : Push!SetNameservers(l)
  BY <1>1, <1>5 DEF Push!SetupPush, Push!SetNameservers, Push!Start
<1>6. ASSUME NEW i \in DOMAIN pushes, Push!Apply(i) PROVE CacheInv'
  <2>1. pushes[i].list \in Push!Lists
    <3>1. pushes[i] \in PushRecord
      BY DEF EndInv
    <3>2. QED
      BY <3>1 DEF PushRecord
  <2>2. registrar' = pushes[i].list /\ UNCHANGED <<registry, answer, asking, flight, since>>
    BY <1>6 DEF Push!Apply, Push!cache
  <2>3. QED
    BY <2>1, <2>2 DEF CacheInv, Push!DelegationIsCurrent
<1>7. CASE Push!Propagate
  BY <1>7 DEF Push!Propagate, CacheInv, Push!DelegationIsCurrent
<1>8. ASSUME NEW i \in DOMAIN pushes, NEW end \in {"ok", "error", "late"}, Push!Settle(i, end)
      PROVE  CacheInv'
  <2>1. CASE pushes[i].from = "card"
    BY <1>8, <2>1, NoteKeepsCache DEF Push!Settle, Push!world
  <2>2. CASE pushes[i].from # "card"
    BY <1>1, <1>8, <2>2 DEF Push!Settle, Push!world, Push!cache
  <2>3. QED
    BY <2>1, <2>2
<1>9. CASE Push!EndRun
  BY <1>9, NoteKeepsCache DEF Push!EndRun, Push!world
<1>10. CASE Push!AskRegistry
  BY <1>10, <1>e DEF Push!AskRegistry, Push!world, CacheInv, Push!DelegationIsCurrent
<1>11. CASE Push!RegistryAnswers
  BY <1>11 DEF Push!RegistryAnswers, Push!world, CacheInv, Push!DelegationIsCurrent
<1>12. CASE Push!ReadRegistry
  BY <1>12, <1>e DEF Push!ReadRegistry, Push!world, CacheInv, Push!DelegationIsCurrent
<1>13. CASE Push!LoseAnswer
  BY <1>13, <1>e DEF Push!LoseAnswer, Push!world, CacheInv, Push!DelegationIsCurrent
<1>14. QED
  BY <1>2, <1>3, <1>4, <1>5, <1>6, <1>7, <1>8, <1>9, <1>10, <1>11, <1>12, <1>13 DEF Push!Next

\* Every action keeps the part of the pushes, and what the page shows.
LEMMA EndStep == EndInv /\ PageInv /\ [Push!Next]_(Push!vars) => EndInv' /\ PageInv'
<1> SUFFICES ASSUME EndInv, PageInv, [Push!Next]_(Push!vars) PROVE EndInv' /\ PageInv'
  OBVIOUS
<1>a. /\ pushes \in Seq(PushRecord) /\ Len(pushes) \in Nat
      /\ \A i \in 1..Len(pushes) : pushes[i] \in PushRecord
  BY DEF EndInv
<1>1. CASE UNCHANGED <<pushes, busy, run, open, asking, justPushed, noted, settled>>
  BY <1>1 DEF EndInv, PageInv
<1>2. CASE UNCHANGED Push!vars
  BY <1>1, <1>2 DEF Push!vars, Push!notes, Push!cache
<1>3. CASE Push!OpenCard \/ Push!CloseCard \/ Push!Forget \/ Push!ReadRegistry
  <2>1. /\ UNCHANGED <<pushes, run, noted, settled>> /\ busy' \in {0, busy}
        /\ (justPushed' => justPushed) /\ justPushed' \in BOOLEAN
        /\ open' \in BOOLEAN /\ asking' \in BOOLEAN
    <3>1. asking \in BOOLEAN /\ justPushed \in BOOLEAN /\ open \in BOOLEAN
      BY DEF PageInv
    <3>2. CASE Push!OpenCard
      BY <3>1, <3>2 DEF Push!OpenCard, Push!notes
    <3>3. CASE Push!CloseCard
      BY <3>1, <3>3 DEF Push!CloseCard, Push!notes, Push!cache
    <3>4. CASE Push!Forget
      BY <3>1, <3>4 DEF Push!Forget, Push!cache
    <3>5. CASE Push!ReadRegistry
      BY <3>1, <3>5 DEF Push!ReadRegistry, Push!notes
    <3>6. QED
      BY <1>3, <3>2, <3>3, <3>4, <3>5
  <2>2. EndInv'
    BY <2>1 DEF EndInv
  <2>3. 0 \in 0..Len(pushes)
    BY <1>a
  <2>4. QED
    BY <2>1, <2>2, <2>3 DEF PageInv
<1>4. CASE Push!Propagate \/ Push!AskRegistry \/ Push!RegistryAnswers \/ Push!LoseAnswer
  BY <1>1, <1>4 DEF Push!Propagate, Push!AskRegistry, Push!RegistryAnswers, Push!LoseAnswer,
      Push!notes
<1>5. ASSUME NEW l \in Push!Lists, NEW f \in Push!From, Push!Start(l, f),
             \/ f = "card" /\ run' = run
             \/ f = "setup" /\ run = 0 /\ run' = Len(pushes) + 1,
             busy' \in {busy, Len(pushes) + 1}
      PROVE  EndInv' /\ PageInv'
  <2> DEFINE R == [list |-> l, from |-> f, pc |-> "sent"]
  <2>1. R \in PushRecord /\ R.from = f
    BY DEF PushRecord
  <2>2. pushes' = Append(pushes, R) /\ UNCHANGED <<open, asking, justPushed, noted, settled>>
    BY <1>5 DEF Push!Start, Push!cache, Push!notes
  <2> HIDE DEF R
  <2>3. /\ pushes' \in Seq(PushRecord) /\ Len(pushes') = Len(pushes) + 1
        /\ pushes'[Len(pushes) + 1] = R
        /\ \A i \in 1..Len(pushes) : pushes'[i] = pushes[i]
    BY <1>a, <2>1, <2>2
  <2>4. /\ 0..Len(pushes) \subseteq 0..Len(pushes') /\ Len(pushes) + 1 \in 0..Len(pushes')
        /\ \A i \in 0..Len(pushes) : i = 0 \/ i \in 1..Len(pushes)
        /\ \A i \in 1..Len(pushes') : i = Len(pushes) + 1 \/ i \in 1..Len(pushes)
        /\ Len(pushes) + 1 # 0
    BY <1>a, <2>3
  <2>5. PageInv'
    BY <1>5, <2>2, <2>4 DEF PageInv
  <2>6. run' \in 0..Len(pushes') /\ noted' \in 0..Len(pushes') /\ settled' \in 0..Len(pushes')
    BY <1>5, <2>2, <2>4 DEF EndInv
  <2>7. run' # 0 => pushes'[run'].from = "setup"
    BY <1>5, <2>1, <2>3, <2>4 DEF EndInv
  <2>8. \A i \in 1..Len(pushes') :
          pushes'[i].from = "setup" /\ pushes'[i].pc \in {"sent", "applied"} => i = run'
    <3> SUFFICES ASSUME NEW i \in 1..Len(pushes'), pushes'[i].from = "setup",
                        pushes'[i].pc \in {"sent", "applied"}
                 PROVE  i = run'
      OBVIOUS
    <3>1. CASE i = Len(pushes) + 1
      BY <1>5, <2>1, <2>3, <3>1
    <3>2. CASE i \in 1..Len(pushes)
      <4>1. i = run
        BY <2>3, <3>2 DEF EndInv
      <4>2. run # 0
        BY <3>2, <4>1
      <4>3. QED
        BY <1>5, <4>1, <4>2
    <3>3. QED
      BY <2>4, <3>1, <3>2
  <2>9. /\ \/ noted' = settled'
           \/ run' # 0 /\ settled' = run'
           \/ noted' # 0 /\ pushes'[noted'].from = "setup"
        /\ justPushed' => noted' # 0 /\ pushes'[noted'].pc = "ok"
    <3>1. noted \in 0..Len(pushes)
      BY DEF EndInv
    <3>2. noted # 0 => pushes'[noted] = pushes[noted]
      BY <2>3, <2>4, <3>1
    <3>3. run # 0 => run' = run
      BY <1>5
    <3>4. QED
      BY <2>2, <3>2, <3>3 DEF EndInv
  <2>10. QED
    BY <2>3, <2>5, <2>6, <2>7, <2>8, <2>9 DEF EndInv
<1>6. CASE Push!SetupPush \/ \E l \in Push!Lists : Push!SetNameservers(l)
  BY <1>5, <1>6 DEF Push!SetupPush, Push!SetNameservers, Push!Lists, Push!From
<1>7. ASSUME NEW i \in DOMAIN pushes, NEW n,
             n \in {"applied", "ok", "error", "late", "overdue"},
             pushes[i].pc \in {"sent", "applied", "late"},
             n = "applied" => pushes[i].pc = "sent",
             pushes' = [pushes EXCEPT ![i].pc = n]
      PROVE  /\ pushes' \in Seq(PushRecord) /\ Len(pushes') = Len(pushes) /\ pushes'[i].pc = n
             /\ \A j \in 1..Len(pushes) : pushes'[j].from = pushes[j].from
             /\ \A j \in 1..Len(pushes) : j # i => pushes'[j] = pushes[j]
             /\ \A j \in 1..Len(pushes) : pushes[j].pc = "ok" => pushes'[j].pc = "ok"
             /\ \A j \in 1..Len(pushes') :
                  pushes'[j].from = "setup" /\ pushes'[j].pc \in {"sent", "applied"} => j = run
  <2> DEFINE R == [pushes[i] EXCEPT !.pc = n]
  <2>1. pushes[i] \in PushRecord /\ i \in 1..Len(pushes)
    BY <1>a
  <2>2. R \in PushRecord /\ R.pc = n /\ R.from = pushes[i].from
    BY <1>7, <2>1 DEF PushRecord
  <2>3. pushes' = [pushes EXCEPT ![i] = R]
    BY <1>7
  <2> HIDE DEF R
  <2>4. pushes' \in Seq(PushRecord) /\ Len(pushes') = Len(pushes) /\ pushes'[i] = R
        /\ \A j \in 1..Len(pushes) : j # i => pushes'[j] = pushes[j]
    BY <1>a, <2>1, <2>2, <2>3
  <2>5. \A j \in 1..Len(pushes) : pushes[j].pc = "ok" => pushes'[j].pc = "ok"
    BY <1>7, <2>4
  <2>6. ASSUME NEW j \in 1..Len(pushes'), pushes'[j].from = "setup",
               pushes'[j].pc \in {"sent", "applied"}
        PROVE  j = run
    <3>1. CASE j = i
      BY <1>7, <2>1, <2>2, <2>4, <2>6, <3>1 DEF EndInv
    <3>2. CASE j # i
      BY <2>4, <2>6, <3>2 DEF EndInv
    <3>3. QED
      BY <3>1, <3>2
  <2>7. QED
    BY <2>2, <2>4, <2>5, <2>6
<1>8. ASSUME NEW i \in DOMAIN pushes, Push!Apply(i) PROVE EndInv' /\ PageInv'
  <2> DEFINE n == IF pushes[i].pc = "sent" THEN "applied" ELSE "overdue"
  <2>1. /\ pushes[i].pc \in {"sent", "late"} /\ pushes' = [pushes EXCEPT ![i].pc = n]
        /\ UNCHANGED <<busy, run, open, asking, justPushed, noted, settled>>
    BY <1>8 DEF Push!Apply, Push!cache, Push!notes
  <2>2. n \in {"applied", "overdue"} /\ (n = "applied" => pushes[i].pc = "sent")
    OBVIOUS
  <2> HIDE DEF n
  <2>3. /\ pushes' \in Seq(PushRecord) /\ Len(pushes') = Len(pushes)
        /\ \A j \in 1..Len(pushes) : pushes'[j].from = pushes[j].from
        /\ \A j \in 1..Len(pushes) : pushes[j].pc = "ok" => pushes'[j].pc = "ok"
        /\ \A j \in 1..Len(pushes') :
             pushes'[j].from = "setup" /\ pushes'[j].pc \in {"sent", "applied"} => j = run
    BY <1>7, <2>1, <2>2
  <2>4. \A j \in 0..Len(pushes) : j = 0 \/ j \in 1..Len(pushes)
    BY <1>a
  <2>5. PageInv'
    BY <2>1, <2>3 DEF PageInv
  <2>6. EndInv'
    BY <2>1, <2>3, <2>4 DEF EndInv
  <2>7. QED
    BY <2>5, <2>6
<1>9. ASSUME NEW i \in DOMAIN pushes, NEW end \in {"ok", "error", "late"}, Push!Settle(i, end)
      PROVE  EndInv' /\ PageInv'
  <2>1. /\ pushes[i].pc \in {"sent", "applied"} /\ pushes' = [pushes EXCEPT ![i].pc = end]
        /\ busy' \in {0, busy} /\ settled' = i /\ UNCHANGED <<run, open>>
    BY <1>9 DEF Push!Settle
  <2>2. /\ pushes' \in Seq(PushRecord) /\ Len(pushes') = Len(pushes) /\ pushes'[i].pc = end
        /\ \A j \in 1..Len(pushes) : pushes'[j].from = pushes[j].from
        /\ \A j \in 1..Len(pushes) : pushes[j].pc = "ok" => pushes'[j].pc = "ok"
        /\ \A j \in 1..Len(pushes') :
             pushes'[j].from = "setup" /\ pushes'[j].pc \in {"sent", "applied"} => j = run
    BY <1>7, <2>1
  <2>3. /\ \A j \in 0..Len(pushes) : j = 0 \/ j \in 1..Len(pushes)
        /\ i \in 1..Len(pushes) /\ i # 0 /\ i \in 0..Len(pushes) /\ 0 \in 0..Len(pushes)
    BY <1>a
  <2>4. CASE pushes[i].from = "card"
    <3>1. noted' = i /\ justPushed' = (end = "ok") /\ asking' = (answer # "unread")
      BY <1>9, <2>4 DEF Push!Settle, Push!NoteNsPush
    <3>2. PageInv'
      BY <2>1, <2>2, <2>3, <3>1 DEF PageInv
    <3>3. EndInv'
      BY <2>1, <2>2, <2>3, <3>1 DEF EndInv
    <3>4. QED
      BY <3>2, <3>3
  <2>5. CASE pushes[i].from # "card"
    <3>1. UNCHANGED <<noted, justPushed, asking>>
      BY <1>9, <2>5 DEF Push!Settle, Push!notes
    <3>2. pushes[i].from = "setup"
      BY <1>a, <2>3, <2>5 DEF PushRecord, Push!From
    <3>3. i = run
      BY <2>1, <2>3, <3>2 DEF EndInv
    <3>4. PageInv'
      BY <2>1, <2>2, <2>3, <3>1 DEF PageInv
    <3>5. EndInv'
      BY <2>1, <2>2, <2>3, <3>1, <3>3 DEF EndInv
    <3>6. QED
      BY <3>4, <3>5
  <2>6. QED
    BY <2>4, <2>5
<1>10. CASE Push!EndRun
  <2>1. /\ run # 0 /\ pushes[run].pc \notin {"sent", "applied"} /\ run' = 0
        /\ noted' = run /\ justPushed' = (pushes[run].pc = "ok") /\ asking' = (answer # "unread")
        /\ UNCHANGED <<pushes, busy, open, settled>>
    BY <1>10 DEF Push!EndRun, Push!NoteNsPush
  <2>2. PageInv'
    BY <2>1 DEF PageInv
  <2>3. \A i \in 1..Len(pushes) :
          ~(pushes[i].from = "setup" /\ pushes[i].pc \in {"sent", "applied"})
    BY <2>1 DEF EndInv
  <2>5. 0 \in 0..Len(pushes)
    BY <1>a
  <2>6. EndInv'
    BY <2>1, <2>3, <2>5 DEF EndInv
  <2>7. QED
    BY <2>2, <2>6
<1>11. QED
  BY <1>2, <1>3, <1>4, <1>6, <1>8, <1>9, <1>10 DEF Push!Next

\* Together: one step of the pushes.
LEMMA PushStep == PushInv /\ PageInv /\ [Push!Next]_(Push!vars) => PushInv' /\ PageInv'
BY CacheStep, EndStep DEF PushInv

\* They give the types, the delegation shown and what was just sent.
LEMMA PushKeeps ==
    PushInv /\ PageInv => Push!TypeOK /\ Push!DelegationIsCurrent /\ Push!JustSentIsTrue
BY DEF PushInv, CacheInv, EndInv, PageInv, PushRecord, Push!TypeOK, Push!JustSentIsTrue

\* It is an invariant of the card.
LEMMA PushInvariant == Push!Spec => [](PushInv /\ PageInv)
BY PushInit, PushStep, PTL DEF Push!Spec

(* An answer the card shows as new is one the registry has given since the last push
   was noted, however late the registry follows the registrar and however the answers
   cross (noteNsPush makes the cached answer old after every push). *)
THEOREM DelegationIsKept == Push!Spec => []Push!DelegationIsCurrent
<1>1. PushInv /\ PageInv => Push!DelegationIsCurrent
  BY PushKeeps
<1>2. QED
  BY <1>1, PushInvariant, PTL

(* "Just sent" is said only while the last push to end was accepted, a set-up run's
   late note apart (noteNsPush with the outcome of the push). *)
THEOREM JustSentIsKept == Push!Spec => []Push!JustSentIsTrue
<1>1. PushInv /\ PageInv => Push!JustSentIsTrue
  BY PushKeeps
<1>2. QED
  BY <1>1, PushInvariant, PTL
=============================================================================
