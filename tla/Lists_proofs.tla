---------------------------- MODULE Lists_proofs -----------------------------
(***************************************************************************)
(* Forms, lists and what they say of domains, servers and tokens, for any  *)
(* domains, sites, accounts and bounds.                                    *)
(***************************************************************************)
EXTENDS Integers, Sequences, FiniteSets, FiniteSetTheorems, TLAPS

CONSTANTS
    MaxCalls, MaxUpsets, MaxTime, Domains, CfAccounts, MaxTests

VARIABLES
    record, row, modal, put, upsets, theirs, mine, lost, text, revealed, wrong,
    draft, edit, failed, ways, refused, unasked, cache, read, tab, chip, tail,
    result, astray, now, cert, origin, facts, paid, last, actual, reading, sites,
    ask, bind, add, skipped, bound, elsewhere, carried, filter, focus, sel, dialog,
    assign, blind, narrowed, there, listed, single, batch, strays, visible, card,
    timer, loose, byHand, run, summary, doubled, retested

Forms == INSTANCE ServerForms
Exp   == INSTANCE ExpiryEdit
Facts == INSTANCE DomainServer
Rows  == INSTANCE DomainRows
Cmp   == INSTANCE SiteCompare
List  == INSTANCE DomainList
Del   == INSTANCE DomainDelete
Tok   == INSTANCE TokenTests

-----------------------------------------------------------------------------
(***************************************************************************)
(* The forms of a server, saved field by field.                            *)
(***************************************************************************)
Calls       == [form : Forms!Forms, value : Forms!Values, waited : BOOLEAN]
ModalRecord == [form : Forms!Forms \union {Forms!Nothing}, draft : Forms!Values \union {Forms!Nothing},
                typed : BOOLEAN, late : BOOLEAN, error : Forms!Forms \union {Forms!Nothing}]

FormTypeInv ==
    /\ MaxUpsets \in Nat /\ upsets \in 0..MaxUpsets
    /\ record \in [Forms!Forms -> Forms!Values] /\ row \in [Forms!Forms -> Forms!Values]
    /\ put \in SUBSET Calls /\ modal \in ModalRecord
    /\ modal.form # Forms!Nothing => modal.draft \in Forms!Values
    /\ theirs \subseteq Forms!Forms /\ mine \subseteq Forms!Forms

\* A value on its way is one this page has sent since; and the open form still says
\* what the save that is followed took from it, unless it was typed in beside it.
PutInv ==
    \A p \in put :
        /\ p.form \in mine
        /\ p.waited /\ p.form = modal.form /\ modal.typed => modal.late \/ modal.draft = p.value

FormInv ==
    /\ FormTypeInv /\ PutInv
    /\ Forms!EditsOfOthersSurvive /\ Forms!TypedTextSurvives /\ Forms!ErrorIsOwn

\* The invariant of the forms holds at first.
LEMMA FormInit == MaxUpsets \in Nat /\ Forms!Init => FormInv
BY DEF Forms!Init, FormInv, FormTypeInv, PutInv, Forms!Closed, ModalRecord, Calls, Forms!Forms,
       Forms!Values, Forms!Typed, Forms!Nothing, Forms!EditsOfOthersSurvive,
       Forms!TypedTextSurvives, Forms!ErrorIsOwn

\* A call nobody waits for any more is a call still.
LEMMA UnwaitedAreCalls ==
    ASSUME put \in SUBSET Calls
    PROVE  /\ Forms!Unwaited \in SUBSET Calls
           /\ \A q \in Forms!Unwaited : ~q.waited /\ \E p \in put : q.form = p.form
BY DEF Forms!Unwaited, Calls

\* Every action keeps it.
LEMMA FormStep == FormInv /\ [Forms!Next]_(Forms!vars) => FormInv'
<1> SUFFICES ASSUME FormInv, [Forms!Next]_(Forms!vars) PROVE FormInv'
  OBVIOUS
<1> USE DEF FormInv, FormTypeInv, Forms!EditsOfOthersSurvive, Forms!TypedTextSurvives,
    Forms!ErrorIsOwn
<1>0. /\ Forms!Closed \in ModalRecord /\ Forms!Closed.form = Forms!Nothing
      /\ Forms!Closed.error = Forms!Nothing /\ Forms!Nothing \notin Forms!Forms
      /\ Forms!Typed \subseteq Forms!Values /\ "theirs" \in Forms!Values
  BY DEF Forms!Closed, ModalRecord, Forms!Forms, Forms!Typed, Forms!Values, Forms!Nothing
<1>1. CASE UNCHANGED Forms!vars \/ Forms!Refetch
  BY <1>1 DEF Forms!vars, Forms!Refetch, PutInv
<1>2. CASE Forms!Close
  <2>1. modal' = Forms!Closed /\ UNCHANGED <<record, row, put, upsets, theirs, mine, lost>>
    BY <1>2 DEF Forms!Close
  <2> QED BY <1>0, <2>1 DEF PutInv, Calls
<1>3. ASSUME NEW v \in Forms!Typed, Forms!Type(v) PROVE FormInv'
  <2> DEFINE m == [modal EXCEPT !.draft = v, !.typed = TRUE, !.error = Forms!Nothing,
                                !.late = @ \/ Forms!Saving(modal.form)]
  <2>1. /\ m \in ModalRecord /\ m.form = modal.form /\ m.draft \in Forms!Values
        /\ m.error = Forms!Nothing /\ m.late = (modal.late \/ Forms!Saving(modal.form))
    <3>1. (modal.late \/ Forms!Saving(modal.form)) \in BOOLEAN
      BY DEF ModalRecord, Forms!Saving
    <3> QED BY <1>0, <3>1 DEF ModalRecord
  <2>2. modal' = m /\ UNCHANGED <<record, row, put, upsets, theirs, mine, lost>>
    BY <1>3 DEF Forms!Type
  <2> HIDE DEF m
  <2>3. PutInv'
    BY <2>1, <2>2 DEF PutInv, Forms!Saving
  <2> QED BY <2>1, <2>2, <2>3
<1>4. CASE Forms!Save
  <2> DEFINE f == modal.form
             c == [form |-> f, value |-> modal.draft, waited |-> TRUE]
             m == [modal EXCEPT !.error = Forms!Nothing, !.late = FALSE]
  <2>1. m \in ModalRecord /\ m.form = f /\ m.draft = modal.draft /\ m.error = Forms!Nothing
    BY DEF ModalRecord
  <2>2. /\ f \in Forms!Forms /\ modal.draft \in Forms!Values
        /\ put' = Forms!Unwaited \union {c} /\ modal' = m /\ mine' = mine \union {f}
        /\ UNCHANGED <<record, row, upsets, theirs, lost>>
    BY <1>4 DEF Forms!Save, ModalRecord
  <2>3. c \in Calls /\ c.form = f /\ c.value = modal.draft
    BY <2>2 DEF Calls
  <2> HIDE DEF f, m, c
  <2>4. FormTypeInv'
    BY <2>1, <2>2, <2>3, UnwaitedAreCalls
  <2>5. PutInv'
    BY <2>1, <2>2, <2>3, UnwaitedAreCalls DEF PutInv
  <2> QED BY <2>1, <2>2, <2>4, <2>5
<1>5. CASE Forms!Leave
  <2>1. /\ modal' = Forms!Closed /\ put' = Forms!Unwaited
        /\ UNCHANGED <<record, row, upsets, theirs, mine, lost>>
    BY <1>5 DEF Forms!Leave
  <2>2. FormTypeInv'
    BY <1>0, <2>1, UnwaitedAreCalls
  <2>3. PutInv'
    BY <1>0, <2>1, UnwaitedAreCalls DEF PutInv
  <2> QED BY <1>0, <2>1, <2>2, <2>3
<1>6. ASSUME NEW f \in Forms!Forms, Forms!EditElsewhere(f) PROVE FormInv'
  <2>1. /\ record' = [record EXCEPT ![f] = "theirs"] /\ theirs' = theirs \union {f}
        /\ mine' = (IF \E p \in put : p.form = f THEN mine ELSE mine \ {f})
        /\ upsets' \in 0..MaxUpsets /\ UNCHANGED <<row, modal, put, lost>>
    BY <1>6 DEF Forms!EditElsewhere, Forms!Upset
  <2>2. FormTypeInv'
    BY <1>0, <2>1
  <2>3. PutInv'
    BY <2>1 DEF PutInv
  <2> QED BY <2>1, <2>2, <2>3
<1>7. ASSUME NEW f \in Forms!Forms, Forms!Open(f) PROVE FormInv'
  <2> DEFINE m == [Forms!Closed EXCEPT !.form = f, !.draft = row[f]]
  <2>1. /\ m \in ModalRecord /\ m.form = f /\ m.draft \in Forms!Values
        /\ m.error = Forms!Nothing /\ m.typed = FALSE
    BY DEF Forms!Closed, ModalRecord
  <2>2. modal' = m /\ UNCHANGED <<record, row, put, upsets, theirs, mine, lost>>
    BY <1>7 DEF Forms!Open
  <2> HIDE DEF m
  <2> QED BY <2>1, <2>2 DEF PutInv
<1>8. ASSUME NEW p \in put, Forms!Delivered(p) PROVE FormInv'
  <2>1. /\ p.form \in Forms!Forms /\ p.value \in Forms!Values /\ p.form \in mine
    BY DEF Calls, PutInv
  <2>2. /\ put' = put \ {p} /\ record' = [record EXCEPT ![p.form] = p.value]
        /\ UNCHANGED <<row, upsets, theirs, mine>>
    BY <1>8 DEF Forms!Delivered
  <2>3. modal' \in {modal, Forms!Closed} /\ ~lost'
    BY <1>8 DEF Forms!Delivered, Forms!CloseOnSuccess, PutInv
  <2>4. FormTypeInv'
    BY <1>0, <2>1, <2>2, <2>3
  <2>5. PutInv'
    BY <1>0, <2>2, <2>3 DEF PutInv, Calls
  <2> QED BY <1>0, <2>1, <2>2, <2>3, <2>4, <2>5
<1>9. ASSUME NEW p \in put, Forms!Failed(p) PROVE FormInv'
  <2> DEFINE m == [modal EXCEPT !.error = p.form]
  <2>1. /\ m \in ModalRecord /\ m.form = modal.form /\ m.draft = modal.draft
        /\ m.typed = modal.typed /\ m.late = modal.late /\ m.error = p.form
        /\ p.form \in Forms!Forms /\ p.value \in Forms!Values /\ p.form \in mine
    BY DEF ModalRecord, Calls, PutInv
  <2>2. /\ put' = put \ {p} /\ upsets' \in 0..MaxUpsets
        /\ record' \in {record, [record EXCEPT ![p.form] = p.value]}
        /\ modal' = IF p.waited /\ modal.form = p.form THEN m ELSE modal
        /\ UNCHANGED <<row, theirs, mine, lost>>
    BY <1>9 DEF Forms!Failed, Forms!Upset
  <2> HIDE DEF m
  <2>3. FormTypeInv'
    BY <2>1, <2>2
  <2>4. PutInv'
    BY <2>1, <2>2 DEF PutInv
  <2>5. Forms!EditsOfOthersSurvive'
    BY <2>1, <2>2
  <2> QED BY <2>1, <2>2, <2>3, <2>4, <2>5
<1> QED BY <1>1, <1>2, <1>3, <1>4, <1>5, <1>6, <1>7, <1>8, <1>9 DEF Forms!Next

\* It gives that edits of others and typed text survive, and whose error is shown.
LEMMA FormKeeps ==
    FormInv => /\ Forms!TypeOK /\ Forms!EditsOfOthersSurvive /\ Forms!TypedTextSurvives
               /\ Forms!ErrorIsOwn
<1>1. FormTypeInv => Forms!TypeOK
  BY DEF FormTypeInv, Forms!TypeOK, ModalRecord, Calls, Forms!Forms
<1> QED BY <1>1 DEF FormInv

-----------------------------------------------------------------------------
(***************************************************************************)
(* The date of expiry, shown ahead of the record.                          *)
(***************************************************************************)
ExpTypeInv ==
    /\ MaxUpsets \in Nat /\ upsets \in 0..MaxUpsets /\ ways \in 0..2
    /\ record \in Exp!Stored /\ row \in Exp!Stored /\ text \in Exp!Texts /\ draft \in Exp!Drafts
    /\ edit \in [value : Exp!Dates, base : Exp!Stored, on : BOOLEAN] /\ put \in Exp!Dates \union {"no"}
    /\ revealed \in BOOLEAN /\ wrong \in BOOLEAN /\ failed \in BOOLEAN /\ refused \in BOOLEAN
    /\ unasked \in BOOLEAN /\ lost \in BOOLEAN

\* The field says of its text what the text is, and is open while a write is on.
FieldInv ==
    /\ draft \in Exp!Dates => text = draft
    /\ draft = "error" => wrong /\ ~revealed
    /\ draft = "settled" => (wrong /\ revealed) \/ (~wrong /\ text = "odd")
    /\ draft # "closed" /\ wrong => text \notin Exp!Stored
    /\ put # "no" => draft # "closed"

\* Until the row has moved it is what the write was laid over, after one move it is
\* not; and a write that was refused is told as failed until it is taken away.
OverlayInv ==
    /\ edit.on => (ways = 0 => row = edit.base) /\ (ways = 1 => row # edit.base)
    /\ refused => failed \/ ~edit.on

ExpInv == ExpTypeInv /\ FieldInv /\ OverlayInv /\ Exp!TypingIsSafe

\* The invariant of the date holds at first.
LEMMA ExpInit == MaxUpsets \in Nat /\ Exp!Init => ExpInv
<1> SUFFICES ASSUME MaxUpsets \in Nat, Exp!Init PROVE ExpInv
  OBVIOUS
<1>1. Exp!NoEdit \in [value : Exp!Dates, base : Exp!Stored, on : BOOLEAN] /\ ~Exp!NoEdit.on
  BY DEF Exp!NoEdit, Exp!Dates, Exp!Stored
<1>2. ExpTypeInv
  <2>1. /\ revealed \in BOOLEAN /\ wrong \in BOOLEAN /\ failed \in BOOLEAN /\ refused \in BOOLEAN
        /\ unasked \in BOOLEAN /\ lost \in BOOLEAN
    BY Zenon DEF Exp!Init
  <2>2. /\ MaxUpsets \in Nat /\ upsets \in 0..MaxUpsets /\ ways \in 0..2
        /\ record \in Exp!Stored /\ row \in Exp!Stored /\ text \in Exp!Texts /\ draft \in Exp!Drafts
        /\ put \in Exp!Dates \union {"no"}
    BY DEF Exp!Init, Exp!Dates, Exp!Stored, Exp!Texts, Exp!Drafts
  <2>3. edit \in [value : Exp!Dates, base : Exp!Stored, on : BOOLEAN]
    BY <1>1 DEF Exp!Init
  <2> QED BY <2>1, <2>2, <2>3 DEF ExpTypeInv
<1>3. FieldInv /\ OverlayInv /\ Exp!TypingIsSafe
  BY <1>1 DEF Exp!Init, FieldInv, OverlayInv, Exp!TypingIsSafe, Exp!Dates
<1> QED BY <1>2, <1>3 DEF ExpInv

\* What is shown is a date that was stored.
LEMMA ShownIsStored == ExpTypeInv => Exp!Shown \in Exp!Stored
BY DEF ExpTypeInv, Exp!Shown, Exp!Stored

\* The end of an edit closes the field, writes what it says, or leaves it open.
LEMMA FinishStep ==
    ASSUME ExpInv, NEW blur \in BOOLEAN, Exp!FinishEdit(blur), draft # "closed",
           UNCHANGED <<record, row, text, wrong, upsets, lost>>, revealed' \in BOOLEAN,
           wrong => revealed' = revealed
    PROVE  ExpInv'
<1> USE DEF ExpInv, ExpTypeInv
<1>1. CASE UNCHANGED draft /\ Exp!Stay
  BY <1>1 DEF Exp!Stay, FieldInv, OverlayInv, Exp!TypingIsSafe, Exp!Drafts, Exp!Dates
<1>2. CASE put = "no" /\ Exp!Close
  BY <1>2 DEF Exp!Close, Exp!Stay, FieldInv, OverlayInv, Exp!TypingIsSafe, Exp!Drafts,
      Exp!Dates
<1>3. ASSUME put = "no", ~Exp!IsError, ~(blur /\ failed /\ edit.on /\ draft = edit.value),
             Exp!Write(blur /\ refused /\ edit.on /\ draft = edit.value)
      PROVE  ExpInv'
  <2>1. draft \in Exp!Dates
    BY <1>3 DEF Exp!IsError, Exp!Drafts
  <2>2. ~(blur /\ refused /\ edit.on /\ draft = edit.value)
    BY <1>3 DEF OverlayInv
  <2> DEFINE e == [value |-> draft, base |-> row, on |-> TRUE]
  <2>3. e \in [value : Exp!Dates, base : Exp!Stored, on : BOOLEAN] /\ e.base = row
    BY <2>1
  <2>4. /\ edit' = e /\ put' = draft /\ failed' = FALSE /\ ways' = 0 /\ refused' = FALSE
        /\ UNCHANGED draft
    BY <1>3 DEF Exp!Write
  <2>5. unasked' = unasked
    BY <1>3, <2>2 DEF Exp!Write
  <2> HIDE DEF e
  <2>6. ExpTypeInv'
    <3>1. unasked' \in BOOLEAN /\ lost' \in BOOLEAN /\ wrong' \in BOOLEAN
      BY <2>5
    <3>2. failed' \in BOOLEAN /\ refused' \in BOOLEAN
      BY <2>4, Zenon
    <3>3. ways' \in 0..2
      BY <2>4
    <3> QED BY <2>1, <2>3, <2>4, <3>1, <3>2, <3>3
  <2>7. FieldInv' /\ OverlayInv' /\ Exp!TypingIsSafe'
    BY <2>1, <2>3, <2>4, <2>5 DEF FieldInv, OverlayInv, Exp!TypingIsSafe, Exp!Dates
  <2> QED BY <2>6, <2>7
<1> QED BY <1>1, <1>2, <1>3 DEF Exp!FinishEdit

\* Every action keeps it.
LEMMA ExpStep == ExpInv /\ [Exp!Next]_(Exp!vars) => ExpInv'
<1> SUFFICES ASSUME ExpInv, [Exp!Next]_(Exp!vars) PROVE ExpInv'
  OBVIOUS
<1> USE DEF ExpInv, ExpTypeInv
<1>1. CASE UNCHANGED Exp!vars
  BY <1>1 DEF Exp!vars, FieldInv, OverlayInv, Exp!TypingIsSafe
<1>2. ASSUME NEW d \in Exp!Stored, Exp!EditElsewhere(d) PROVE ExpInv'
  BY <1>2 DEF Exp!EditElsewhere, Exp!Upset, FieldInv, OverlayInv, Exp!TypingIsSafe
<1>3. CASE Exp!Refetch
  BY <1>3 DEF Exp!Refetch, FieldInv, OverlayInv, Exp!TypingIsSafe
<1>4. CASE Exp!Open
  <2>1. Exp!NoEdit \in [value : Exp!Dates, base : Exp!Stored, on : BOOLEAN] /\ ~Exp!NoEdit.on
    BY DEF Exp!NoEdit, Exp!Dates, Exp!Stored
  <2>2. /\ draft = "closed" /\ text' = Exp!Shown /\ revealed' = FALSE /\ wrong' = FALSE
        /\ draft' = (IF Exp!Shown \in Exp!Dates THEN Exp!Shown ELSE "settled")
        /\ failed' = FALSE /\ edit' = (IF failed THEN Exp!NoEdit ELSE edit)
        /\ Exp!Shown \in Exp!Stored
        /\ UNCHANGED <<record, row, put, upsets, ways, refused, unasked, lost>>
    BY <1>4, ShownIsStored DEF Exp!Open
  <2>3. ExpTypeInv'
    BY <2>1, <2>2 DEF Exp!Texts, Exp!Drafts
  <2>4. FieldInv' /\ OverlayInv' /\ Exp!TypingIsSafe'
    BY <2>1, <2>2 DEF FieldInv, OverlayInv, Exp!TypingIsSafe, Exp!Dates, Exp!Stored
  <2> QED BY <2>3, <2>4
<1>5. ASSUME NEW t \in Exp!Typed, Exp!Type(t) PROVE ExpInv'
  <2>1. /\ text' = t /\ revealed' \in BOOLEAN /\ wrong' = (t \notin Exp!Dates)
        /\ \/ t \in Exp!Dates /\ draft' = t
           \/ t \notin Exp!Stored /\ draft' = (IF revealed' THEN "settled" ELSE "error")
        /\ UNCHANGED <<record, row, edit, put, failed, upsets, ways, refused, unasked, lost>>
    BY <1>5 DEF Exp!Type, Exp!Typed, Exp!Stored
  <2>2. ExpTypeInv'
    BY <2>1 DEF Exp!Drafts, Exp!Typed
  <2>3. FieldInv' /\ OverlayInv' /\ Exp!TypingIsSafe'
    BY <2>1 DEF FieldInv, OverlayInv, Exp!TypingIsSafe, Exp!Dates, Exp!Stored
  <2> QED BY <2>2, <2>3
<1>6. CASE Exp!Blur
  <2>0. revealed' = TRUE /\ draft # "closed" /\ UNCHANGED <<record, row, text, wrong, upsets, lost>>
    BY <1>6 DEF Exp!Blur
  <2>1. CASE ~wrong
    BY <1>6, <2>0, <2>1, FinishStep DEF Exp!Blur
  <2>2. CASE wrong
    <3>1. draft' = "settled" /\ Exp!Stay
      BY <1>6, <2>2 DEF Exp!Blur
    <3> QED BY <2>0, <2>2, <3>1 DEF Exp!Stay, FieldInv, OverlayInv, Exp!TypingIsSafe, Exp!Dates,
        Exp!Drafts
  <2> QED BY <2>1, <2>2
<1>7. CASE Exp!Confirm
  <2>1. Exp!FinishEdit(FALSE) /\ draft # "closed"
        /\ UNCHANGED <<record, row, text, revealed, wrong, upsets, lost>>
    BY <1>7 DEF Exp!Confirm
  <2> QED BY <2>1, FinishStep
<1>8. CASE Exp!Escape
  BY <1>8 DEF Exp!Escape, Exp!Close, Exp!Stay, FieldInv, OverlayInv, Exp!TypingIsSafe,
      Exp!Dates, Exp!Drafts
<1>9. CASE Exp!Accepted
  <2>1. /\ put \in Exp!Dates /\ put' = "no" /\ record' = put
        /\ draft' \in {draft, "closed"} /\ (draft' = "closed" => text = put)
        /\ lost' = (lost \/ (draft' = "closed" /\ text # put))
        /\ UNCHANGED <<row, text, revealed, wrong, edit, failed, upsets, ways, refused, unasked>>
    BY <1>9 DEF Exp!Accepted, Exp!AfterSuccess, FieldInv
  <2>2. ExpTypeInv'
    BY <2>1 DEF Exp!Drafts, Exp!Stored
  <2>3. FieldInv' /\ OverlayInv' /\ Exp!TypingIsSafe'
    BY <2>1 DEF FieldInv, OverlayInv, Exp!TypingIsSafe, Exp!Dates
  <2> QED BY <2>2, <2>3
<1>10. CASE Exp!Refused
  BY <1>10 DEF Exp!Stored, Exp!Refused, Exp!Upset, FieldInv, OverlayInv, Exp!TypingIsSafe
<1> QED BY <1>1, <1>2, <1>3, <1>4, <1>5, <1>6, <1>7, <1>8, <1>9, <1>10 DEF Exp!Next

\* It gives when a date is shown ahead of the record, and that typing is safe.
LEMMA ExpKeeps ==
    ExpInv => /\ Exp!TypeOK /\ Exp!OverlayIsYoung /\ Exp!RejectedIsNotShown /\ Exp!TypingIsSafe
              /\ Exp!BlockedIsExplained
<1> SUFFICES ASSUME ExpInv
             PROVE  /\ Exp!TypeOK /\ Exp!OverlayIsYoung /\ Exp!RejectedIsNotShown /\ Exp!TypingIsSafe
                    /\ Exp!BlockedIsExplained
  OBVIOUS
<1>1. Exp!TypeOK
  BY DEF ExpInv, ExpTypeInv, Exp!TypeOK
<1>2. Exp!OverlayIsYoung /\ Exp!RejectedIsNotShown
  BY DEF ExpInv, ExpTypeInv, OverlayInv, Exp!OverlayIsYoung, Exp!RejectedIsNotShown,
      Exp!Shown, Exp!PendingEdit
<1>3. Exp!BlockedIsExplained
  BY DEF ExpInv, ExpTypeInv, FieldInv, Exp!BlockedIsExplained, Exp!Drafts, Exp!Dates, Exp!Stored
<1> QED BY <1>1, <1>2, <1>3 DEF ExpInv

-----------------------------------------------------------------------------
(***************************************************************************)
(* Facts and log lines of the server of a domain.                          *)
(***************************************************************************)
Hosts      == Facts!Machines \union {Facts!NoMachine}
SiteRecord == [server : Facts!Machines, facts : Hosts]
LineRecord == [file : Facts!Files \union {"none"}, from : Hosts]

FactTypeInv ==
    /\ MaxUpsets \in Nat /\ upsets \in 0..MaxUpsets
    /\ record \in SiteRecord /\ row \in SiteRecord /\ cache \in SiteRecord
    /\ put \subseteq Facts!Machines /\ read \in [pc : {"no", "pull", "ssh"}, host : Hosts]
    /\ tab \in {"card", "logs"} /\ chip \in Facts!Files
    /\ tail \subseteq [file : Facts!Files, host : Hosts, here : BOOLEAN]
    /\ result \in [path : Facts!Files \union {"none"}, lines : LineRecord]
    /\ astray \subseteq {"read", "facts", "lines"}

\* Facts, and a read that is at a machine, are of the machine of the domain unless
\* they have gone astray.
ReadInv ==
    /\ "facts" \notin astray => record.facts \in {Facts!NoMachine, record.server}
    /\ read.pc = "ssh" /\ "read" \notin astray => read.host = record.server

\* Lines kept, and lines asked for that will be kept, are of their file and of the
\* machine of the domain; a tab that is not shown has none of either.
TailInv ==
    /\ tab # "logs" => result = Facts!NoResult /\ \A r \in tail : ~r.here
    /\ result.lines # Facts!NoLines => result.lines.file = result.path
    /\ "lines" \notin astray =>
          /\ \A r \in tail : r.here => r.host = record.server
          /\ result.lines # Facts!NoLines => result.lines.from = record.server

FactInv == FactTypeInv /\ ReadInv /\ TailInv

\* Blank facts, no reading and no lines are of their types.
LEMMA FactShapes ==
    /\ \A s \in Facts!Machines : Facts!Blank(s) \in SiteRecord /\ Facts!Blank(s).server = s /\ Facts!Blank(s).facts = Facts!NoMachine
    /\ Facts!Idle \in [pc : {"no", "pull", "ssh"}, host : Hosts] /\ Facts!Idle.pc = "no"
    /\ Facts!NoResult \in [path : Facts!Files \union {"none"}, lines : LineRecord]
    /\ Facts!NoResult.lines = Facts!NoLines /\ Facts!NoLines \in LineRecord
BY DEF Facts!Blank, SiteRecord, Hosts, Facts!Idle, Facts!NoResult, Facts!NoLines, LineRecord

\* The invariant of the facts holds at first.
LEMMA FactInit == MaxUpsets \in Nat /\ Facts!Init => FactInv
<1> SUFFICES ASSUME MaxUpsets \in Nat, Facts!Init PROVE FactInv
  OBVIOUS
<1>1. 1 \in Facts!Machines /\ "access" \in Facts!Files
  BY DEF Facts!Machines, Facts!Files
<1>2. FactTypeInv
  BY <1>1, FactShapes DEF Facts!Init, FactTypeInv, Facts!Nothing
<1> QED BY <1>1, <1>2, FactShapes DEF Facts!Init, FactInv, ReadInv, TailInv

\* Every action keeps it.
LEMMA FactStep == FactInv /\ [Facts!Next]_(Facts!vars) => FactInv'
<1> SUFFICES ASSUME FactInv, [Facts!Next]_(Facts!vars) PROVE FactInv'
  OBVIOUS
<1> USE FactShapes DEF FactInv, FactTypeInv
<1>1. CASE UNCHANGED Facts!vars \/ Facts!Refetch
  <2>1. /\ UNCHANGED <<record, cache, put, read, tab, chip, tail, result, upsets, astray>>
        /\ row' \in {row, record}
    BY <1>1 DEF Facts!vars, Facts!store, Facts!logs, Facts!Refetch
  <2> QED BY <2>1 DEF ReadInv, TailInv
<1>2. ASSUME NEW t \in {"card", "logs"}, Facts!Show(t) PROVE FactInv'
  <2>1. /\ tab' = t /\ chip' = "access" /\ result' = Facts!NoResult
        /\ tail' = {[file |-> r.file, host |-> Facts!NoMachine, here |-> FALSE] : r \in tail}
        /\ astray' = astray \ {"lines"} /\ UNCHANGED <<record, cache, put, row, read, upsets>>
    BY <1>2 DEF Facts!Show, Facts!store
  <2>2. tail' \subseteq [file : Facts!Files, host : Hosts, here : BOOLEAN] /\ \A r \in tail' : ~r.here
    <3>1. ASSUME NEW q \in tail'
          PROVE  q \in [file : Facts!Files, host : Hosts, here : BOOLEAN] /\ ~q.here
      <4>1. PICK r \in tail : q = [file |-> r.file, host |-> Facts!NoMachine, here |-> FALSE]
        BY <2>1
      <4>2. r.file \in Facts!Files
        OBVIOUS
      <4> QED BY <4>1, <4>2 DEF Hosts
    <3> QED BY <3>1
  <2>3. FactTypeInv'
    BY <2>1, <2>2 DEF Facts!Files
  <2>4. ReadInv' /\ TailInv'
    BY <2>1, <2>2 DEF ReadInv, TailInv
  <2> QED BY <2>3, <2>4
<1>3. ASSUME NEW s \in Facts!Machines, Facts!PickServer(s) PROVE FactInv'
  BY <1>3 DEF Facts!PickServer, Facts!logs, ReadInv, TailInv
<1>4. CASE Facts!DeliverPick
  <2>1. PICK s \in put :
           /\ put' = Facts!Nothing /\ UNCHANGED <<cache, row, read, tab, Facts!logs>>
           /\ \/ Facts!Move(s) /\ UNCHANGED upsets
              \/ Facts!Upset /\ UNCHANGED <<record, astray>>
    BY <1>4 DEF Facts!DeliverPick
  <2>2. upsets' \in 0..MaxUpsets
    BY <2>1 DEF Facts!Upset
  <2>3. CASE UNCHANGED <<record, astray>>
    BY <2>1, <2>2, <2>3 DEF Facts!logs, Facts!Nothing, ReadInv, TailInv
  <2>4. CASE Facts!Move(s)
    <3>1. record' = (IF s = record.server THEN record ELSE Facts!Blank(s))
          /\ astray' = (IF s = record.server THEN astray
                        ELSE (astray \ {"facts"})
                             \union (IF read.pc = "ssh" THEN {"read"} ELSE {})
                             \union (IF tab = "logs" THEN {"lines"} ELSE {}))
      BY <2>4 DEF Facts!Move
    <3>2. FactTypeInv'
      BY <2>1, <2>2, <3>1 DEF Facts!logs, Facts!Nothing
    <3>3. ReadInv'
      BY <2>1, <3>1 DEF ReadInv
    <3>4. TailInv'
      BY <2>1, <3>1 DEF TailInv, Facts!logs
    <3> QED BY <3>2, <3>3, <3>4
  <2> QED BY <2>1, <2>3, <2>4
<1>5. CASE Facts!StartRead
  <2>1. read' \in [pc : {"no", "pull", "ssh"}, host : Hosts] /\ read'.pc = "pull"
    BY <1>5 DEF Facts!StartRead
  <2> QED BY <1>5, <2>1 DEF Facts!StartRead, Facts!store, Facts!logs, ReadInv, TailInv
<1>6. CASE Facts!Resolve
  <2>1. cache' \in SiteRecord /\ upsets' \in 0..MaxUpsets
    BY <1>6 DEF Facts!Resolve, Facts!Upset
  <2>2. /\ read' = [pc |-> "ssh", host |-> cache'.server]
        /\ astray' = (IF cache'.server # record.server THEN astray \union {"read"} ELSE astray)
        /\ UNCHANGED <<record, put, row, tab, Facts!logs>>
    BY <1>6 DEF Facts!Resolve
  <2>3. read' \in [pc : {"no", "pull", "ssh"}, host : Hosts]
    BY <2>1, <2>2 DEF SiteRecord, Hosts
  <2>4. FactTypeInv'
    BY <2>1, <2>2, <2>3 DEF Facts!logs
  <2>5. ReadInv' /\ TailInv'
    BY <2>2 DEF ReadInv, TailInv, Facts!logs
  <2> QED BY <2>4, <2>5
<1>7. CASE Facts!FinishRead
  <2>1. /\ record' \in SiteRecord /\ record'.server = record.server /\ upsets' \in 0..MaxUpsets
        /\ \/ /\ record'.facts = read.host
              /\ astray' = (IF "read" \in astray THEN (astray \ {"read"}) \union {"facts"}
                            ELSE astray \ {"facts"})
           \/ record'.facts = record.facts /\ astray' = astray \ {"read"}
    BY <1>7 DEF Facts!FinishRead, Facts!Upset, SiteRecord
  <2>2. read' = Facts!Idle /\ read.pc = "ssh" /\ UNCHANGED <<put, cache, row, tab, Facts!logs>>
    BY <1>7 DEF Facts!FinishRead
  <2>3. FactTypeInv'
    BY <2>1, <2>2 DEF Facts!logs
  <2>4. ReadInv' /\ TailInv'
    BY <2>1, <2>2 DEF ReadInv, TailInv, Facts!logs
  <2> QED BY <2>3, <2>4
<1>8. ASSUME NEW f \in Facts!Files, Facts!SelectChip(f) PROVE FactInv'
  BY <1>8 DEF Facts!SelectChip, Facts!store, ReadInv, TailInv
<1>9. ASSUME NEW f \in Facts!Files
      PROVE  /\ Facts!Fail(f, result) \in [path : Facts!Files \union {"none"}, lines : LineRecord]
             /\ Facts!Fail(f, result).path = f
             /\ Facts!Fail(f, result).lines # Facts!NoLines =>
                   Facts!Fail(f, result).lines = result.lines /\ result.path = f
  BY DEF Facts!Fail
<1>10. CASE Facts!ReadTail
  <2>1. /\ tab = "logs" /\ UNCHANGED <<record, cache, put, row, read, tab, chip, upsets>>
    BY <1>10 DEF Facts!ReadTail, Facts!store
  <2>2. CASE cache.facts = Facts!NoMachine
    <3>1. result' = Facts!Fail(chip, result) /\ UNCHANGED <<tail, astray>>
      BY <1>10, <2>2 DEF Facts!ReadTail
    <3>2. FactTypeInv'
      BY <1>9, <2>1, <3>1
    <3>3. ReadInv' /\ TailInv'
      BY <1>9, <2>1, <3>1 DEF ReadInv, TailInv
    <3> QED BY <3>2, <3>3
  <2>3. CASE cache.facts # Facts!NoMachine
    <3> DEFINE r == [file |-> chip, host |-> cache.server, here |-> TRUE]
    <3>1. /\ r \in [file : Facts!Files, host : Hosts, here : BOOLEAN] /\ r.host = cache.server
      BY DEF SiteRecord, Hosts
    <3>2. /\ tail' = tail \union {r} /\ UNCHANGED result
          /\ astray' = (IF cache.server # record.server THEN astray \union {"lines"} ELSE astray)
      BY <1>10, <2>3 DEF Facts!ReadTail
    <3> HIDE DEF r
    <3>3. FactTypeInv'
      BY <2>1, <3>1, <3>2
    <3>4. ReadInv' /\ TailInv'
      BY <2>1, <3>1, <3>2 DEF ReadInv, TailInv
    <3> QED BY <3>3, <3>4
  <2> QED BY <2>2, <2>3
<1>11. ASSUME NEW r \in tail, Facts!TailRead(r) PROVE FactInv'
  <2> DEFINE res == [path |-> r.file, lines |-> [file |-> r.file, from |-> r.host]]
  <2>1. /\ res \in [path : Facts!Files \union {"none"}, lines : LineRecord]
        /\ res.lines.file = res.path /\ res.lines.from = r.host
    BY DEF LineRecord, Hosts
  <2>2. /\ tail' = tail \ {r} /\ UNCHANGED <<record, cache, put, row, read, tab, chip, upsets, astray>>
        /\ result' = result \/ (r.here /\ result' \in {res, Facts!Fail(r.file, result)})
    BY <1>11 DEF Facts!TailRead, Facts!store
  <2> HIDE DEF res
  <2>3. FactTypeInv'
    BY <1>9, <2>1, <2>2
  <2>4. r.file \in Facts!Files
    OBVIOUS
  <2>5. TailInv'
    BY <1>9, <2>1, <2>2, <2>4 DEF TailInv
  <2> QED BY <2>2, <2>3, <2>5 DEF ReadInv
<1> QED BY <1>1, <1>2, <1>3, <1>4, <1>5, <1>6, <1>7, <1>8, <1>10, <1>11 DEF Facts!Next

\* It gives that facts are of the machine and lines of the file.
LEMMA FactKeeps == FactInv => Facts!TypeOK /\ Facts!FactsAreOfTheMachine /\ Facts!LinesAreOfTheFile
<1> SUFFICES ASSUME FactInv PROVE Facts!TypeOK /\ Facts!FactsAreOfTheMachine /\ Facts!LinesAreOfTheFile
  OBVIOUS
<1>1. Facts!TypeOK
  BY DEF FactInv, FactTypeInv, SiteRecord, Hosts, Facts!TypeOK
<1>2. Facts!FactsAreOfTheMachine /\ Facts!LinesAreOfTheFile
  BY DEF FactInv, ReadInv, TailInv, Facts!FactsAreOfTheMachine, Facts!LinesAreOfTheFile,
      Facts!Lines
<1> QED BY <1>1, <1>2

-----------------------------------------------------------------------------
(***************************************************************************)
(* The badges and the order of the rows.                                   *)
(***************************************************************************)
Dates == {Rows!Until(t) : t \in Rows!Moments}
Certs == {Rows!NoCert, Rows!Undated, Rows!ReadError} \union Dates

RowTypeInv ==
    /\ MaxTime \in Nat /\ now \in 0..MaxTime /\ origin \in BOOLEAN
    /\ cert \in {Rows!NoCert} \union Dates /\ facts \in [ssl : Certs, at : {Rows!Unknown} \union 0..now]
    /\ paid \in Rows!Periods \union {Rows!NoPeriod}
    /\ last \in [Rows!Aspects -> {Rows!Unknown} \union 0..now]

\* The histories are up to date with the server, and not older than facts that could
\* only be read when the server was so.
HistoryInv ==
    /\ \A k \in Rows!Aspects : Rows!Holds(k, cert, origin, now) => last[k] = now
    /\ facts.at # Rows!Unknown =>
          /\ Rows!InForce(facts.ssl, facts.at) => last["in force"] >= facts.at
          /\ facts.ssl.has /\ ~facts.ssl.error => last["some"] >= facts.at
          /\ ~facts.ssl.has => last["no file"] >= facts.at

RowInv == RowTypeInv /\ HistoryInv

\* The certificates there may be.
LEMMA CertShape ==
    /\ \A c \in Certs : c.has \in BOOLEAN /\ c.error \in BOOLEAN /\ c.exp \in {Rows!Unknown} \union Rows!Moments
    /\ \A c \in {Rows!NoCert} \union Dates : ~c.error /\ (c.has <=> c.exp \in Rows!Moments)
    /\ ~Rows!NoCert.has /\ ~Rows!NoCert.error /\ Rows!NoCert.exp = Rows!Unknown
    /\ Rows!Undated.has /\ ~Rows!Undated.error /\ Rows!Undated.exp = Rows!Unknown
    /\ Rows!ReadError.has /\ Rows!ReadError.error /\ Rows!ReadError.exp = Rows!Unknown
    /\ Rows!NoCert \in Certs /\ Rows!Undated \in Certs /\ Rows!ReadError \in Certs /\ Dates \subseteq Certs
    /\ \A t \in Rows!Moments : Rows!Until(t) \in Dates
<1>1. /\ ~Rows!NoCert.has /\ ~Rows!NoCert.error /\ Rows!NoCert.exp = Rows!Unknown
      /\ Rows!Undated.has /\ ~Rows!Undated.error /\ Rows!Undated.exp = Rows!Unknown
      /\ Rows!ReadError.has /\ Rows!ReadError.error /\ Rows!ReadError.exp = Rows!Unknown
      /\ \A t \in Rows!Moments : Rows!Until(t).has /\ ~Rows!Until(t).error /\ Rows!Until(t).exp = t
  BY DEF Rows!NoCert, Rows!Undated, Rows!ReadError, Rows!Until
<1>2. \A c \in Dates : \E t \in Rows!Moments : c = Rows!Until(t)
  BY DEF Dates
<1>3. Rows!NoCert.has \in BOOLEAN /\ Rows!NoCert.error \in BOOLEAN
      /\ Rows!Undated.has \in BOOLEAN /\ Rows!Undated.error \in BOOLEAN
      /\ Rows!ReadError.has \in BOOLEAN /\ Rows!ReadError.error \in BOOLEAN
      /\ \A t \in Rows!Moments : Rows!Until(t).has \in BOOLEAN /\ Rows!Until(t).error \in BOOLEAN
  BY DEF Rows!NoCert, Rows!Undated, Rows!ReadError, Rows!Until
<1>4. Rows!Unknown \notin Rows!Moments
  BY DEF Rows!Unknown, Rows!Moments
<1>5. \A t \in Rows!Moments : Rows!Until(t) \in Dates
  BY DEF Dates
<1>6. \A c \in Dates : c.has /\ ~c.error /\ c.exp \in Rows!Moments /\ c.has \in BOOLEAN /\ c.error \in BOOLEAN
  BY <1>1, <1>2, <1>3
<1>7. /\ Rows!NoCert \in Certs /\ Rows!Undated \in Certs /\ Rows!ReadError \in Certs /\ Dates \subseteq Certs
      /\ \A c \in Certs : c \in Dates \/ c = Rows!NoCert \/ c = Rows!Undated \/ c = Rows!ReadError
  BY DEF Certs
<1> HIDE DEF Certs
<1>8. \A c \in Certs : c.has \in BOOLEAN /\ c.error \in BOOLEAN /\ c.exp \in {Rows!Unknown} \union Rows!Moments
  BY <1>1, <1>3, <1>6, <1>7
<1>9. \A c \in {Rows!NoCert} \union Dates : ~c.error /\ (c.has <=> c.exp \in Rows!Moments)
  BY <1>1, <1>4, <1>6
<1> QED BY <1>1, <1>5, <1>7, <1>8, <1>9

\* What each aspect says, and that the three are all.
LEMMA AspectShape ==
    ASSUME NEW c \in Certs, NEW o \in BOOLEAN, NEW t
    PROVE  /\ Rows!Aspects = {"in force", "some", "no file"}
           /\ Rows!Holds("in force", c, o, t) <=> Rows!InForce(c, t)
           /\ Rows!Holds("some", c, o, t) <=> c.has
           /\ Rows!Holds("no file", c, o, t) <=> ~c.has \/ o
BY CertShape DEF Rows!Aspects, Rows!Holds, Rows!InForce

\* The invariant of the rows holds at first.
LEMMA RowInit == MaxTime \in Nat /\ Rows!Init => RowInv
<1> SUFFICES ASSUME MaxTime \in Nat, Rows!Init PROVE RowInv
  OBVIOUS
<1>1. /\ now = 0 /\ cert = Rows!NoCert /\ origin = FALSE /\ facts.at = Rows!Unknown
      /\ facts \in [ssl : Certs, at : {Rows!Unknown} \union 0..now]
      /\ paid \in Rows!Periods \union {Rows!NoPeriod}
      /\ last = [k \in Rows!Aspects |-> IF Rows!Holds(k, Rows!NoCert, FALSE, 0) THEN 0 ELSE Rows!Unknown]
  BY CertShape DEF Rows!Init, Rows!NoFacts
<1>2. RowTypeInv
  <2>1. \A k \in Rows!Aspects : (IF Rows!Holds(k, Rows!NoCert, FALSE, 0) THEN 0 ELSE Rows!Unknown)
                                 \in {Rows!Unknown} \union 0..now
    BY <1>1
  <2>2. last \in [Rows!Aspects -> {Rows!Unknown} \union 0..now]
    BY <1>1, <2>1
  <2>3. 0 \in 0..MaxTime /\ FALSE \in BOOLEAN /\ Rows!NoCert \in {Rows!NoCert} \union Dates
    OBVIOUS
  <2> QED BY <1>1, <2>2, <2>3 DEF RowTypeInv
<1>3. HistoryInv
  BY <1>1 DEF HistoryInv
<1> QED BY <1>2, <1>3 DEF RowInv

\* A moment noted keeps the histories: the last time of an aspect is now or as it was.
LEMMA NoteStep ==
    ASSUME RowInv, now' \in now..MaxTime, cert' \in {Rows!NoCert} \union Dates, origin' \in BOOLEAN,
           Rows!Note(cert', origin', now'), UNCHANGED <<facts, paid>>
    PROVE  RowInv'
<1> USE DEF RowInv, RowTypeInv
<1>1. \A k \in Rows!Aspects :
         last'[k] = IF Rows!Holds(k, cert', origin', now') THEN now' ELSE last[k]
  BY DEF Rows!Note
<1>2. \A k \in Rows!Aspects : last'[k] \in {Rows!Unknown} \union 0..now' /\ last'[k] >= last[k]
  BY <1>1 DEF Rows!Unknown
<1>3. RowTypeInv'
  BY <1>2 DEF Rows!Note, Rows!Unknown
<1>4. "in force" \in Rows!Aspects /\ "some" \in Rows!Aspects /\ "no file" \in Rows!Aspects
  BY DEF Rows!Aspects
<1>5. facts.at # Rows!Unknown => facts.at \in Int
  OBVIOUS
<1>6. \A k \in Rows!Aspects : last[k] \in Int /\ last'[k] \in Int
  BY <1>2 DEF Rows!Unknown
<1>7. ASSUME NEW k \in Rows!Aspects, facts.at # Rows!Unknown, last[k] >= facts.at PROVE last'[k] >= facts.at
  BY <1>2, <1>5, <1>6, <1>7
<1>8. Rows!InForce(facts.ssl, facts.at)' <=> Rows!InForce(facts.ssl, facts.at)
  BY DEF Rows!InForce
<1>9. HistoryInv'
  BY <1>1, <1>4, <1>7, <1>8 DEF HistoryInv
<1> QED BY <1>3, <1>9

\* What a read of the server tells is so: a date is the certificate's own, there is
\* none where there is no file, and any certificate it finds is there.
LEMMA CheckStep ==
    ASSUME RowInv, NEW told \in Rows!Told(cert, origin), Rows!Check(told) PROVE RowInv'
<1>1. /\ facts' = [ssl |-> told, at |-> now] /\ UNCHANGED <<now, cert, origin, paid, last>>
      /\ facts'.ssl = told /\ facts'.at = now
  BY DEF Rows!Check
<1>2. /\ cert \in Certs /\ origin \in BOOLEAN /\ cert.has \in BOOLEAN /\ (~cert.has => cert = Rows!NoCert)
  <2>1. cert \in {Rows!NoCert} \union Dates /\ origin \in BOOLEAN
    BY DEF RowInv, RowTypeInv
  <2>2. \A c \in Dates : c.has
    BY DEF Dates, Rows!Until
  <2>3. cert \in Certs
    BY <2>1, CertShape
  <2> QED BY <2>1, <2>2, <2>3, CertShape
<1>3. /\ told \in Certs
      /\ told = cert \/ (cert.has /\ (told = Rows!Undated \/ told = Rows!ReadError \/ (told = Rows!NoCert /\ origin)))
  BY <1>2, CertShape DEF Rows!Told
<1>4. RowTypeInv'
  <2>1. now \in Nat /\ now \in 0..now
    BY DEF RowInv, RowTypeInv
  <2> QED BY <1>1, <1>3, <2>1 DEF RowInv, RowTypeInv
<1>5. /\ Rows!InForce(cert, now) => last["in force"] = now
      /\ cert.has => last["some"] = now
      /\ ~cert.has \/ origin => last["no file"] = now
  <2>1. \A k \in Rows!Aspects : Rows!Holds(k, cert, origin, now) => last[k] = now
    BY DEF RowInv, HistoryInv
  <2> QED BY <1>2, <2>1, AspectShape
<1>6. now \in Int /\ now >= now
  BY DEF RowInv, RowTypeInv
<1>7. Rows!InForce(told, now) => last["in force"] >= now
  <2>1. Rows!InForce(told, now) => told = cert
    BY <1>3, <1>6, CertShape DEF Rows!InForce, Rows!Unknown, RowInv, RowTypeInv
  <2> QED BY <1>5, <1>6, <2>1
<1>8. told.has /\ ~told.error => last["some"] >= now
  <2>1. told.has => cert.has
    BY <1>3, CertShape
  <2> QED BY <1>5, <1>6, <2>1
<1>9. ~told.has => last["no file"] >= now
  <2>1. ~told.has => ~cert.has \/ origin
    BY <1>3, CertShape
  <2> QED BY <1>5, <1>6, <2>1
<1>10. HistoryInv'
  <2>1. \A k \in Rows!Aspects : Rows!Holds(k, cert, origin, now)' => last'[k] = now'
    BY <1>1 DEF RowInv, HistoryInv, Rows!Holds, Rows!InForce
  <2>2. Rows!InForce(facts.ssl, facts.at)' <=> Rows!InForce(told, now)
    BY <1>1 DEF Rows!InForce
  <2> QED BY <1>1, <1>7, <1>8, <1>9, <2>1, <2>2 DEF HistoryInv
<1> QED BY <1>4, <1>10 DEF RowInv

\* Every action keeps it.
LEMMA RowStep == RowInv /\ [Rows!Next]_(Rows!vars) => RowInv'
<1> SUFFICES ASSUME RowInv, [Rows!Next]_(Rows!vars) PROVE RowInv'
  OBVIOUS
<1> USE CertShape DEF RowInv, RowTypeInv
<1>1. CASE UNCHANGED Rows!vars
  BY <1>1 DEF Rows!vars, HistoryInv, Rows!InForce, Rows!Holds
<1>2. CASE Rows!Tick
  <2>1. /\ now' \in now..MaxTime /\ UNCHANGED <<cert, origin, facts, paid>>
        /\ Rows!Note(cert', origin', now')
    BY <1>2 DEF Rows!Tick, Rows!Note
  <2> QED BY <2>1, NoteStep
<1>3. ASSUME NEW c \in {Rows!NoCert, Rows!Until(now + 1), Rows!Until(now + Rows!SslExpiring + 1)},
             NEW o \in BOOLEAN, Rows!Replace(c, o)
      PROVE RowInv'
  <2>1. c \in {Rows!NoCert} \union Dates
    <3>1. now + 1 \in Rows!Moments /\ now + Rows!SslExpiring + 1 \in Rows!Moments
      BY DEF Rows!Moments, Rows!SslExpiring
    <3> QED BY <3>1
  <2>2. /\ cert' = c /\ origin' = o /\ now' \in now..MaxTime /\ UNCHANGED <<facts, paid>>
        /\ Rows!Note(cert', origin', now')
    BY <1>3 DEF Rows!Replace, Rows!Note
  <2> QED BY <2>1, <2>2, NoteStep
<1>4. ASSUME NEW told \in Rows!Told(cert, origin), Rows!Check(told) PROVE RowInv'
  BY <1>4, CheckStep
<1> QED BY <1>1, <1>2, <1>3, <1>4 DEF Rows!Next

\* What is no older than young facts is young.
LEMMA NotOlder ==
    ASSUME NEW n \in Nat, NEW f \in 0..n, NEW x \in {-1} \union 0..n, x >= f, n - f <= 2
    PROVE  x # -1 /\ n - x <= 2
<1>1. f \in Int /\ f >= 0 /\ x \in Int
  OBVIOUS
<1> QED BY <1>1

\* A badge is said of facts young enough to ground it (BadgeHasGround).
LEMMA BadgesAreGrounded == RowInv => Rows!BadgeHasGround
<1> SUFFICES ASSUME RowInv PROVE Rows!BadgeHasGround
  OBVIOUS
<1>0. /\ Rows!Moments \subseteq Nat /\ Rows!Unknown = -1 /\ Rows!Unknown \in Int
      /\ now \in Nat /\ Rows!FactsStale = 2 /\ \A t \in Rows!Moments : t \in Int
  BY DEF Rows!Moments, Rows!Unknown, Rows!SslExpiring, Rows!FactsStale, RowInv, RowTypeInv
<1>1. /\ facts.ssl \in Certs /\ facts.at \in {Rows!Unknown} \union 0..now
      /\ \A k \in {"in force", "some", "no file"} : last[k] \in {Rows!Unknown} \union 0..now
      /\ facts.ssl.exp \in {Rows!Unknown} \union Rows!Moments
      /\ facts.ssl.has \in BOOLEAN /\ facts.ssl.error \in BOOLEAN
  BY CertShape DEF RowInv, RowTypeInv, Rows!Aspects
<1>2. ASSUME NEW k \in {"in force", "some", "no file"},
             facts.at \in 0..now, now - facts.at <= Rows!FactsStale, last[k] >= facts.at
      PROVE  Rows!Recently(k)
  <2>1. last[k] \in {Rows!Unknown} \union 0..now
    BY <1>1
  <2>2. last[k] \in {-1} \union 0..now /\ now - facts.at <= 2
    BY <1>0, <1>2, <2>1
  <2>3. last[k] # -1 /\ now - last[k] <= 2
    BY <1>0, <1>2, <2>2, NotOlder
  <2> QED BY <1>0, <2>3 DEF Rows!Recently
<1>3. /\ Rows!SslState(facts) \in {"valid", "missing"} =>
            facts.at \in 0..now /\ now - facts.at <= Rows!FactsStale /\ ~facts.ssl.error
      /\ Rows!SslState(facts) = "valid" =>
            facts.ssl.has /\ (facts.ssl.exp = Rows!Unknown \/ facts.ssl.exp > now)
      /\ Rows!SslState(facts) = "missing" => ~facts.ssl.has
      /\ Rows!SslState(facts) = "expired" => facts.ssl.exp <= now
  <2>1. /\ facts.at \in Int /\ facts.ssl.exp \in Int
        /\ facts.ssl.error => facts.ssl.has /\ facts.ssl.exp = Rows!Unknown
    <3>1. facts.ssl.error => facts.ssl = Rows!ReadError
      <4>1. facts.ssl \in {Rows!NoCert} \union Dates => ~facts.ssl.error
        BY CertShape
      <4>2. facts.ssl = Rows!Undated => ~facts.ssl.error
        BY CertShape
      <4> QED BY <1>1, <4>1, <4>2 DEF Certs
    <3>2. facts.ssl.error => facts.ssl.has /\ facts.ssl.exp = Rows!Unknown
      BY <3>1, CertShape
    <3>3. facts.at \in Int /\ facts.ssl.exp \in Int
      <4>1. facts.ssl.exp = Rows!Unknown \/ facts.ssl.exp \in Rows!Moments
        BY <1>1
      <4>2. facts.ssl.exp \in Int
        BY <1>0, <4>1, Zenon
      <4>3. facts.at = Rows!Unknown \/ facts.at \in Int
        <5>1. facts.at = Rows!Unknown \/ facts.at \in 0..now
          BY <1>1
        <5>2. \A n \in 0..now : n \in Int
          OBVIOUS
        <5> QED BY <5>1, <5>2, Zenon
      <4> QED BY <1>0, <4>2, <4>3
    <3> QED BY <3>2, <3>3
  <2>2. CASE facts.at = Rows!Unknown
    BY <2>2 DEF Rows!SslState
  <2>3. CASE facts.at # Rows!Unknown /\ facts.ssl.error
    <3>1. Rows!SslState(facts) = "error"
      BY <1>0, <2>1, <2>3 DEF Rows!SslState
    <3> QED BY <3>1
  <2>4. CASE facts.at # Rows!Unknown /\ ~facts.ssl.error
    <3>1. facts.at \in 0..now
      BY <1>1, <2>4
    <3>2. CASE ~facts.ssl.has
      <4>1. Rows!SslState(facts) = IF Rows!IsFactsStale(facts.at) THEN "unchecked" ELSE "missing"
        BY <2>4, <3>2 DEF Rows!SslState
      <4> QED BY <1>0, <2>1, <2>4, <3>1, <3>2, <4>1 DEF Rows!IsFactsStale
    <3>3. CASE facts.ssl.has /\ facts.ssl.exp # Rows!Unknown /\ facts.ssl.exp <= now
      <4>1. ~(facts.ssl.exp > now)
        BY <1>0, <2>1, <3>3
      <4>2. Rows!SslState(facts) = "expired"
        BY <2>4, <3>3, <4>1 DEF Rows!SslState
      <4> QED BY <3>3, <4>2
    <3>4. CASE facts.ssl.has /\ (facts.ssl.exp = Rows!Unknown \/ facts.ssl.exp > now)
      <4>1. ~(facts.ssl.exp # Rows!Unknown /\ facts.ssl.exp <= now)
        BY <1>0, <2>1, <3>4
      <4>2. Rows!SslState(facts) \in {"expiring", IF Rows!IsFactsStale(facts.at) THEN "unchecked" ELSE "valid"}
        BY <2>4, <3>4, <4>1 DEF Rows!SslState
      <4> QED BY <1>0, <2>1, <2>4, <3>1, <3>4, <4>2 DEF Rows!IsFactsStale
    <3>5. facts.ssl.exp = Rows!Unknown \/ facts.ssl.exp > now \/ facts.ssl.exp <= now
      BY <1>0, <2>1
    <3> QED BY <1>1, <3>2, <3>3, <3>4, <3>5
  <2> QED BY <2>2, <2>3, <2>4
<1>4. Rows!SslState(facts) = "valid" =>
         Rows!Recently(IF facts.ssl.exp # Rows!Unknown THEN "in force" ELSE "some")
  <2> SUFFICES ASSUME Rows!SslState(facts) = "valid"
               PROVE  Rows!Recently(IF facts.ssl.exp # Rows!Unknown THEN "in force" ELSE "some")
    OBVIOUS
  <2>0. facts.at # Rows!Unknown
    BY <1>0, <1>3
  <2>1. CASE facts.ssl.exp = Rows!Unknown
    <3>1. last["some"] >= facts.at
      BY <1>3, <2>0 DEF RowInv, HistoryInv
    <3> QED BY <1>2, <1>3, <2>1, <3>1
  <2>2. CASE facts.ssl.exp # Rows!Unknown
    <3>1. facts.ssl.has /\ facts.ssl.exp > now /\ facts.ssl.exp \in Nat /\ facts.at \in 0..now
      BY <1>0, <1>1, <1>3, <2>2
    <3>3. Rows!InForce(facts.ssl, facts.at)
      BY <1>0, <3>1 DEF Rows!InForce
    <3>2. last["in force"] >= facts.at
      BY <2>0, <3>3 DEF RowInv, HistoryInv
    <3> QED BY <1>2, <1>3, <2>2, <3>2
  <2> QED BY <2>1, <2>2
<1>5. Rows!SslState(facts) = "missing" => Rows!Recently("no file")
  <2> SUFFICES ASSUME Rows!SslState(facts) = "missing" PROVE Rows!Recently("no file")
    OBVIOUS
  <2>1. last["no file"] >= facts.at
    <3>1. facts.at # Rows!Unknown /\ ~facts.ssl.has
      BY <1>0, <1>3
    <3> QED BY <3>1 DEF RowInv, HistoryInv
  <2> QED BY <1>2, <1>3, <2>1
<1>6. Rows!SslState(facts) = "expired" => cert # facts.ssl \/ ~Rows!InForce(cert, now)
  <2> SUFFICES ASSUME Rows!SslState(facts) = "expired", cert = facts.ssl, Rows!InForce(cert, now)
               PROVE  FALSE
    OBVIOUS
  <2>1. facts.ssl.exp <= now /\ facts.ssl.exp > now
    BY <1>3 DEF Rows!InForce
  <2>2. facts.ssl.exp \in Int
    <3>1. facts.ssl.exp = Rows!Unknown \/ facts.ssl.exp \in Rows!Moments
      BY <1>1
    <3> QED BY <1>0, <3>1, Zenon
  <2> QED BY <1>0, <2>1, <2>2
<1> QED BY <1>4, <1>5, <1>6 DEF Rows!BadgeHasGround

\* On its last day a domain is still paid for (LastDayIsPaid).
LEMMA LastDay == RowInv => Rows!LastDayIsPaid
<1> SUFFICES ASSUME RowInv, paid.whole, now \div Rows!Day <= paid.day PROVE Rows!ExpiryState(paid) # "expired"
  BY DEF Rows!LastDayIsPaid
<1>1. paid.day = 1 /\ now \in Nat
  BY DEF RowInv, RowTypeInv, Rows!Periods, Rows!NoPeriod
<1>2. now <= 3
  BY <1>1 DEF Rows!Day
<1>3. Rows!ExpiryTs(paid) = 4
  BY <1>1 DEF Rows!ExpiryTs, Rows!Day, Rows!Unknown
<1>4. (4 - now) \div Rows!Day >= 0
  BY <1>1, <1>2 DEF Rows!Day
<1>5. Rows!ExpiryTs(paid) # Rows!Unknown /\ ~((Rows!ExpiryTs(paid) - now) \div Rows!Day < 0)
  BY <1>1, <1>3, <1>4 DEF Rows!Unknown, Rows!Day
<1> QED BY <1>5, Zenon DEF Rows!ExpiryState

(***************************************************************************)
(* The order of the rows.                                                  *)
(***************************************************************************)
LEMMA SslRankIsANumber ==
    ASSUME NEW f PROVE /\ Rows!SslRank(Rows!SslState(f)) \in Int
                       /\ Rows!SslRank(Rows!SslState(f)) = Rows!Unknown <=> Rows!SslState(f) = "unchecked"
<1>1. Rows!SslState(f) \in {"unchecked", "error", "missing", "expired", "expiring", "valid"}
  BY DEF Rows!SslState
<1> DEFINE T == <<"missing", "expired", "expiring", "valid", "error">>
<1>2. ASSUME NEW s \in {"error", "missing", "expired", "expiring", "valid"}
      PROVE  Rows!SslRank(s) \in 0..4
  <2>1. \E i \in 0..4 : T[i + 1] = s
    <3>1. /\ T[0 + 1] = "missing" /\ T[1 + 1] = "expired" /\ T[2 + 1] = "expiring"
          /\ T[3 + 1] = "valid" /\ T[4 + 1] = "error"
      OBVIOUS
    <3> HIDE DEF T
    <3> QED BY <3>1
  <2> HIDE DEF T
  <2>2. (CHOOSE i \in 0..4 : T[i + 1] = s) \in 0..4
    BY <2>1
  <2> QED BY <2>2 DEF Rows!SslRank, T
<1>3. Rows!SslRank("unchecked") = Rows!Unknown
  BY DEF Rows!SslRank
<1> QED BY <1>1, <1>2, <1>3 DEF Rows!Unknown

\* The comparison of two facts is antisymmetric and puts the unknown last, both ways.
LEMMA UnknownIsLast ==
    ASSUME NEW a \in Int, NEW b \in Int, NEW asc \in BOOLEAN
    PROVE  /\ Rows!CompareUnknownLast(a, b, asc) \in Int
           /\ Rows!CompareUnknownLast(a, b, asc) = 0 - Rows!CompareUnknownLast(b, a, asc)
           /\ a # Rows!Unknown /\ b = Rows!Unknown => Rows!CompareUnknownLast(a, b, asc) < 0
BY DEF Rows!CompareUnknownLast, Rows!Unknown

\* Of two rows one comes first, and it is the one whose fact is known.
LEMMA CompareIsAnOrder ==
    ASSUME NEW s \in Rows!Sorts, NEW a, NEW b, a.name \in Int, b.name \in Int, a.name # b.name,
           a.facts.ssl.exp \in Int, b.facts.ssl.exp \in Int,
           Rows!ExpiryTs(a.paid) \in Int, Rows!ExpiryTs(b.paid) \in Int
    PROVE  /\ Rows!Known(s, a) /\ ~Rows!Known(s, b) => Rows!Compare(s, a, b) < 0
           /\ (Rows!Compare(s, a, b) < 0) # (Rows!Compare(s, b, a) < 0)
<1> DEFINE R(x) == Rows!SslRank(Rows!SslState(x.facts))
           ranks == Rows!CompareUnknownLast(R(a), R(b), s.asc)
           knar  == Rows!CompareUnknownLast(R(b), R(a), s.asc)
           dates == Rows!CompareUnknownLast(a.facts.ssl.exp, b.facts.ssl.exp, s.asc)
           setad == Rows!CompareUnknownLast(b.facts.ssl.exp, a.facts.ssl.exp, s.asc)
           paids == Rows!CompareUnknownLast(Rows!ExpiryTs(a.paid), Rows!ExpiryTs(b.paid), s.asc)
           sdiap == Rows!CompareUnknownLast(Rows!ExpiryTs(b.paid), Rows!ExpiryTs(a.paid), s.asc)
<1>0. s.asc \in BOOLEAN /\ s.key \in {"domain", "ssl", "expiry_date"}
  BY DEF Rows!Sorts
<1>1. CASE s.key = "domain"
  BY <1>0, <1>1 DEF Rows!Compare, Rows!Known
<1>2. CASE s.key = "ssl"
  <2>1. /\ ranks \in Int /\ knar \in Int /\ ranks = 0 - knar
        /\ Rows!Known(s, a) /\ ~Rows!Known(s, b) => ranks < 0
    <3>1. R(a) \in Int /\ R(b) \in Int
      BY SslRankIsANumber
    <3>2. Rows!Known(s, a) /\ ~Rows!Known(s, b) => R(a) # Rows!Unknown /\ R(b) = Rows!Unknown
      BY <1>2, SslRankIsANumber DEF Rows!Known
    <3> HIDE DEF R
    <3> QED BY <1>0, <3>1, <3>2, UnknownIsLast
  <2>2. dates \in Int /\ setad \in Int /\ dates = 0 - setad
    BY <1>0, UnknownIsLast
  <2>3. /\ Rows!Compare(s, a, b) = (LET m == IF ranks # 0 THEN ranks ELSE dates
                               IN  IF m # 0 THEN m ELSE a.name - b.name)
        /\ Rows!Compare(s, b, a) = (LET m == IF knar # 0 THEN knar ELSE setad
                               IN  IF m # 0 THEN m ELSE b.name - a.name)
    BY <1>2 DEF Rows!Compare
  <2> HIDE DEF ranks, knar, dates, setad
  <2>4. knar \in Int /\ setad \in Int /\ knar = 0 - ranks /\ setad = 0 - dates
    BY <2>1, <2>2
  <2> QED BY <2>1, <2>2, <2>3, <2>4
<1>3. CASE s.key = "expiry_date"
  <2>1. /\ paids \in Int /\ sdiap \in Int /\ paids = 0 - sdiap
        /\ Rows!ExpiryTs(a.paid) # Rows!Unknown /\ Rows!ExpiryTs(b.paid) = Rows!Unknown => paids < 0
    BY <1>0, UnknownIsLast
  <2>2. /\ Rows!Compare(s, a, b) = (IF paids # 0 THEN paids ELSE a.name - b.name)
        /\ Rows!Compare(s, b, a) = (IF sdiap # 0 THEN sdiap ELSE b.name - a.name)
    BY <1>3 DEF Rows!Compare
  <2>3. /\ Rows!Known(s, a) => Rows!ExpiryTs(a.paid) # Rows!Unknown
        /\ ~Rows!Known(s, b) => Rows!ExpiryTs(b.paid) = Rows!Unknown
    BY <1>3 DEF Rows!Known, Rows!ExpiryState
  <2> HIDE DEF paids, sdiap
  <2> QED BY <2>1, <2>2, <2>3
<1> QED BY <1>0, <1>1, <1>2, <1>3

\* So it is with the row of the page and any other (UnknownLast).
LEMMA RowsAreOrdered == RowInv => Rows!UnknownLast
<1> SUFFICES ASSUME RowInv, NEW s \in Rows!Sorts, NEW o \in Rows!Others
             PROVE  /\ Rows!Known(s, Rows!ThisRow) /\ ~Rows!Known(s, o) => Rows!Compare(s, Rows!ThisRow, o) < 0
                    /\ Rows!Known(s, o) /\ ~Rows!Known(s, Rows!ThisRow) => Rows!Compare(s, o, Rows!ThisRow) < 0
                    /\ (Rows!Compare(s, Rows!ThisRow, o) < 0) # (Rows!Compare(s, o, Rows!ThisRow) < 0)
  BY DEF Rows!UnknownLast
<1>1. /\ Rows!ThisRow.name = 1 /\ Rows!ThisRow.facts = facts /\ Rows!ThisRow.paid = paid
  BY DEF Rows!ThisRow
<1>2. /\ o.name \in {0, 2} /\ o.facts \in {Rows!NoFacts, [ssl |-> Rows!NoCert, at |-> 0], [ssl |-> Rows!Until(3), at |-> 0]}
      /\ o.paid \in {Rows!NoPeriod, [whole |-> TRUE, day |-> 1]}
  BY DEF Rows!Others
<1>3. facts.ssl.exp \in Int
  BY CertShape DEF RowInv, RowTypeInv, Rows!Moments, Rows!Unknown, Rows!SslExpiring
<1>4. o.facts.ssl.exp \in Int
  BY <1>2 DEF Rows!NoFacts, Rows!NoCert, Rows!Until, Rows!Unknown
<1>5. Rows!ExpiryTs(paid) \in Int
  BY DEF RowInv, RowTypeInv, Rows!Periods, Rows!NoPeriod, Rows!ExpiryTs, Rows!Day,
      Rows!Unknown
<1>6. Rows!ExpiryTs(o.paid) \in Int
  BY <1>2 DEF Rows!NoPeriod, Rows!ExpiryTs, Rows!Day, Rows!Unknown
<1> QED BY <1>1, <1>2, <1>3, <1>4, <1>5, <1>6, CompareIsAnOrder

\* It gives the types and the three properties of the rows.
LEMMA RowKeeps == RowInv => Rows!TypeOK /\ Rows!BadgeHasGround /\ Rows!LastDayIsPaid /\ Rows!UnknownLast
BY BadgesAreGrounded, LastDay, RowsAreOrdered, CertShape DEF RowInv, RowTypeInv, Rows!TypeOK

-----------------------------------------------------------------------------
(***************************************************************************)
(* The sites of a server, compared with the records.                       *)
(***************************************************************************)
PostRecord == [on : SUBSET Domains, told : SUBSET Domains, watched : BOOLEAN]

CmpTypeInv ==
    /\ MaxUpsets \in Nat /\ upsets \in 0..MaxUpsets
    /\ record \in [Domains -> Cmp!Bindings] /\ row \in [Domains -> Cmp!Bindings]
    /\ actual \subseteq Domains /\ (sites = Cmp!Unread \/ sites \subseteq Domains)
    /\ ask \in [what : {"none", "bind", "add"}, on : SUBSET Domains, told : SUBSET Domains]
    /\ bind \in PostRecord /\ add \in PostRecord
    /\ skipped \subseteq Domains /\ bound \subseteq Domains
    /\ elsewhere \subseteq Domains /\ carried \subseteq Domains

\* A domain that nobody edits elsewhere is bound to another server only as long as
\* the page has always seen it so: remedies bind to this server alone.
AwayIsSeen == \A d \in Domains \ elsewhere : record[d] = "away" => row[d] = "away"

\* What the question leaves out, and what is sent untold, is not on another server.
UntoldStays(on, told) == \A d \in (on \ told) \ elsewhere : record[d] # "away"

ToldInv ==
    /\ ask.what = "bind" => UntoldStays(ask.on, ask.told)
    /\ UntoldStays(bind.on, bind.told)

\* The page watches one remedy at a time, and a bind only with nothing said.
WatchInv ==
    /\ ~(bind.watched /\ add.watched)
    /\ bind.watched => skipped = {}

CmpInv == CmpTypeInv /\ AwayIsSeen /\ ToldInv /\ WatchInv /\ Cmp!MoveIsAnnounced /\ Cmp!SkippedIsTrue

\* No request and no question are of their types.
LEMMA CmpShapes ==
    /\ Cmp!NoPost \in PostRecord /\ ~Cmp!NoPost.watched /\ Cmp!NoPost.on = {}
    /\ Cmp!NoAsk \in [what : {"none", "bind", "add"}, on : SUBSET Domains, told : SUBSET Domains]
    /\ Cmp!NoAsk.what = "none"
    /\ \A p \in PostRecord : /\ Cmp!Forget(p) \in PostRecord /\ ~Cmp!Forget(p).watched
                             /\ Cmp!Forget(p).on = p.on /\ Cmp!Forget(p).told = p.told
BY DEF Cmp!NoPost, PostRecord, Cmp!NoAsk, Cmp!Forget

\* The invariant of the comparison holds at first.
LEMMA CmpInit == MaxUpsets \in Nat /\ Cmp!Init => CmpInv
<1> SUFFICES ASSUME MaxUpsets \in Nat, Cmp!Init PROVE CmpInv
  OBVIOUS
<1>1. CmpTypeInv
  BY CmpShapes DEF Cmp!Init, CmpTypeInv
<1>2. AwayIsSeen /\ ToldInv /\ WatchInv /\ Cmp!MoveIsAnnounced /\ Cmp!SkippedIsTrue
  BY CmpShapes DEF Cmp!Init, AwayIsSeen, ToldInv, UntoldStays, WatchInv,
      Cmp!MoveIsAnnounced, Cmp!SkippedIsTrue
<1> QED BY <1>1, <1>2 DEF CmpInv

\* A delivery that binds some domains here moves none of the others.
LEMMA BoundHere ==
    ASSUME CmpInv, NEW S \in SUBSET Domains,
           record' = [d \in Domains |-> IF d \in S THEN "here" ELSE record[d]],
           UNCHANGED <<row, elsewhere>>
    PROVE  /\ record' \in [Domains -> Cmp!Bindings] /\ AwayIsSeen'
           /\ \A on, told \in SUBSET Domains : UntoldStays(on, told) => UntoldStays(on, told)'
BY DEF CmpInv, CmpTypeInv, AwayIsSeen, UntoldStays, Cmp!Bindings

\* Every action keeps it.
LEMMA CmpStep == CmpInv /\ [Cmp!Next]_(Cmp!vars) => CmpInv'
<1> SUFFICES ASSUME CmpInv, [Cmp!Next]_(Cmp!vars) PROVE CmpInv'
  OBVIOUS
<1> USE CmpShapes DEF CmpInv, CmpTypeInv
<1>1. CASE UNCHANGED Cmp!vars \/ Cmp!Refetch
  BY <1>1 DEF Cmp!vars, Cmp!page, Cmp!Refetch, AwayIsSeen, ToldInv, UntoldStays, WatchInv,
      Cmp!MoveIsAnnounced,
              Cmp!SkippedIsTrue
<1>2. CASE Cmp!Compare
  BY <1>2 DEF Cmp!Compare, AwayIsSeen, ToldInv, UntoldStays, WatchInv,
      Cmp!MoveIsAnnounced, Cmp!SkippedIsTrue
<1>3. CASE Cmp!SitesRead
  BY <1>3 DEF Cmp!SitesRead, Cmp!Upset, AwayIsSeen, ToldInv, UntoldStays, WatchInv,
      Cmp!MoveIsAnnounced, Cmp!SkippedIsTrue
<1>4. ASSUME NEW d \in Domains, NEW b \in Cmp!Bindings, Cmp!EditElsewhere(d, b) PROVE CmpInv'
  BY <1>4 DEF Cmp!EditElsewhere, Cmp!Upset, Cmp!page, AwayIsSeen, ToldInv, UntoldStays,
      WatchInv, Cmp!MoveIsAnnounced,
              Cmp!SkippedIsTrue
<1>5. CASE Cmp!AskBind
  <2>1. /\ Cmp!NotBoundHere \subseteq Domains /\ Cmp!Moving \subseteq Domains
        /\ \A d \in Cmp!NotBoundHere \ Cmp!Moving : row[d] # "away"
    BY DEF Cmp!NotBoundHere, Cmp!Shown, Cmp!Moving
  <2>2. /\ ask' = [what |-> "bind", on |-> Cmp!NotBoundHere, told |-> Cmp!Moving]
        /\ UNCHANGED <<record, row, actual, sites, bind, add, skipped, bound, upsets, elsewhere, carried>>
    BY <1>5 DEF Cmp!AskBind
  <2>3. UntoldStays(Cmp!NotBoundHere, Cmp!Moving)
    BY <2>1 DEF UntoldStays, AwayIsSeen
  <2> QED BY <2>1, <2>2, <2>3 DEF AwayIsSeen, ToldInv, UntoldStays, WatchInv,
      Cmp!MoveIsAnnounced, Cmp!SkippedIsTrue
<1>6. CASE Cmp!AskAdd
  <2>1. Cmp!OnlyOnServer \subseteq Domains
    BY DEF Cmp!OnlyOnServer, Cmp!Shown
  <2>2. /\ ask' = [what |-> "add", on |-> Cmp!OnlyOnServer, told |-> {}]
        /\ UNCHANGED <<record, row, actual, sites, bind, add, skipped, bound, upsets, elsewhere, carried>>
    BY <1>6 DEF Cmp!AskAdd
  <2> QED BY <2>1, <2>2 DEF AwayIsSeen, ToldInv, UntoldStays, WatchInv,
      Cmp!MoveIsAnnounced, Cmp!SkippedIsTrue
<1>7. CASE Cmp!Decline
  BY <1>7 DEF Cmp!Decline, AwayIsSeen, ToldInv, UntoldStays, WatchInv,
      Cmp!MoveIsAnnounced, Cmp!SkippedIsTrue
<1>8. CASE Cmp!ConfirmBind
  <2>1. /\ bind' = [on |-> ask.on, told |-> ask.told, watched |-> TRUE] /\ bind' \in PostRecord
        /\ add' = Cmp!Forget(add) /\ skipped' = {} /\ bound' = {} /\ ask' = Cmp!NoAsk
        /\ UNCHANGED <<record, row, actual, sites, upsets, elsewhere, carried>>
    BY <1>8 DEF Cmp!ConfirmBind, PostRecord
  <2>2. UntoldStays(ask.on, ask.told)
    BY <1>8 DEF Cmp!ConfirmBind, ToldInv
  <2> QED BY <2>1, <2>2 DEF AwayIsSeen, ToldInv, UntoldStays, WatchInv,
      Cmp!MoveIsAnnounced, Cmp!SkippedIsTrue
<1>9. CASE Cmp!ConfirmAdd
  <2>1. /\ add' = [on |-> ask.on, told |-> {}, watched |-> TRUE] /\ add' \in PostRecord
        /\ bind' = Cmp!Forget(bind) /\ skipped' = {} /\ bound' = {} /\ ask' = Cmp!NoAsk
        /\ UNCHANGED <<record, row, actual, sites, upsets, elsewhere, carried>>
    BY <1>9 DEF Cmp!ConfirmAdd, PostRecord
  <2> QED BY <2>1 DEF AwayIsSeen, ToldInv, UntoldStays, WatchInv, Cmp!MoveIsAnnounced,
      Cmp!SkippedIsTrue
<1>10. CASE Cmp!BindDelivered
  <2> DEFINE touched == {d \in bind.on : record[d] # "absent"}
  <2>1. /\ bind' = Cmp!NoPost /\ UNCHANGED <<row, actual, sites, ask, add, skipped, elsewhere>>
        /\ \/ /\ record' = [d \in Domains |-> IF d \in touched THEN "here" ELSE record[d]]
              /\ carried' = carried \union {d \in touched \ bind.told : record[d] = "away"}
              /\ bound' = (IF bind.watched THEN touched ELSE bound) /\ UNCHANGED upsets
           \/ Cmp!Upset /\ UNCHANGED <<record, carried, bound>>
    BY <1>10 DEF Cmp!BindDelivered
  <2>2. touched \in SUBSET Domains /\ touched \subseteq bind.on
    BY DEF PostRecord
  <2> HIDE DEF touched
  <2>3. CASE Cmp!Upset /\ UNCHANGED <<record, carried, bound>>
    BY <2>1, <2>3 DEF Cmp!Upset, AwayIsSeen, ToldInv, UntoldStays, WatchInv,
        Cmp!MoveIsAnnounced, Cmp!SkippedIsTrue
  <2>4. ASSUME record' = [d \in Domains |-> IF d \in touched THEN "here" ELSE record[d]],
               carried' = carried \union {d \in touched \ bind.told : record[d] = "away"},
               bound' = (IF bind.watched THEN touched ELSE bound), UNCHANGED upsets
        PROVE  CmpInv'
    <3>1. record' \in [Domains -> Cmp!Bindings] /\ AwayIsSeen' /\ ToldInv'
      <4>1. ask.what = "bind" => UntoldStays(ask.on, ask.told)'
        BY <2>1, <2>2, <2>4, BoundHere DEF ToldInv
      <4> QED BY <2>1, <2>2, <2>4, <4>1, BoundHere DEF ToldInv, UntoldStays
    <3>2. carried' \subseteq elsewhere
      BY <2>2, <2>4 DEF Cmp!MoveIsAnnounced, ToldInv, UntoldStays
    <3> QED BY <2>1, <2>2, <2>4, <3>1, <3>2 DEF WatchInv, Cmp!MoveIsAnnounced,
        Cmp!SkippedIsTrue
  <2> QED BY <2>1, <2>3, <2>4
<1>11. CASE Cmp!AddDelivered
  <2> DEFINE taken == {d \in add.on : record[d] # "absent"}
             new   == add.on \ taken
  <2>1. /\ add' = Cmp!NoPost /\ UNCHANGED <<row, actual, sites, ask, bind, elsewhere, carried>>
        /\ \/ /\ record' = [d \in Domains |-> IF d \in new THEN "here" ELSE record[d]]
              /\ skipped' = (IF add.watched THEN taken ELSE skipped)
              /\ bound' = (IF add.watched THEN new ELSE bound) /\ UNCHANGED upsets
           \/ Cmp!Upset /\ UNCHANGED <<record, skipped, bound>>
    BY <1>11 DEF Cmp!AddDelivered
  <2>2. new \in SUBSET Domains /\ taken \in SUBSET Domains /\ new \intersect taken = {}
    BY DEF PostRecord
  <2> HIDE DEF taken, new
  <2>3. CASE Cmp!Upset /\ UNCHANGED <<record, skipped, bound>>
    BY <2>1, <2>3 DEF Cmp!Upset, AwayIsSeen, ToldInv, UntoldStays, WatchInv,
        Cmp!MoveIsAnnounced, Cmp!SkippedIsTrue
  <2>4. ASSUME record' = [d \in Domains |-> IF d \in new THEN "here" ELSE record[d]],
               skipped' = (IF add.watched THEN taken ELSE skipped),
               bound' = (IF add.watched THEN new ELSE bound), UNCHANGED upsets
        PROVE  CmpInv'
    <3>1. record' \in [Domains -> Cmp!Bindings] /\ AwayIsSeen' /\ ToldInv'
      <4>1. ask.what = "bind" => UntoldStays(ask.on, ask.told)'
        BY <2>1, <2>2, <2>4, BoundHere DEF ToldInv
      <4>2. UntoldStays(bind.on, bind.told)'
        BY <2>1, <2>2, <2>4, BoundHere DEF ToldInv, PostRecord
      <4> QED BY <2>1, <2>2, <2>4, <4>1, <4>2, BoundHere DEF ToldInv
    <3> QED BY <2>1, <2>2, <2>4, <3>1 DEF WatchInv, Cmp!MoveIsAnnounced, Cmp!SkippedIsTrue
  <2> QED BY <2>1, <2>3, <2>4
<1> QED BY <1>1, <1>2, <1>3, <1>4, <1>5, <1>6, <1>7, <1>8, <1>9, <1>10, <1>11 DEF Cmp!Next

\* It gives that moves are announced and that what is skipped is not bound.
LEMMA CmpKeeps == CmpInv => Cmp!TypeOK /\ Cmp!MoveIsAnnounced /\ Cmp!SkippedIsTrue
BY DEF CmpInv, CmpTypeInv, PostRecord, Cmp!TypeOK

-----------------------------------------------------------------------------
(***************************************************************************)
(* The page of all domains: filters, selection and assignment.             *)
(***************************************************************************)
\* The assignments a question can speak of.
Questions == [on : SUBSET Domains, to : List!Servers \union {"none"}, told : SUBSET Domains]

ListTypeInv ==
    /\ MaxUpsets \in Nat
    /\ record \in [Domains -> List!Bindings] /\ row \in [Domains -> List!Bindings]
    /\ filter \in List!Servers \union {"all"} /\ focus \in SUBSET Domains /\ sel \in SUBSET Domains
    /\ dialog \in BOOLEAN /\ narrowed \in BOOLEAN
    /\ ask \in Questions /\ assign \in Questions
    /\ ask.told \subseteq ask.on
    /\ blind \in SUBSET Domains /\ upsets \in 0..MaxUpsets

\* What is asked or under way is asked of one assignment at a time, and the
\* question has counted every domain that would move, but for the blind ones.
Counts(a) ==
    \A d \in (a.on \ a.told) \ blind : record[d] \notin List!Servers \ {a.to}

Named(a) == a = List!NoAsk \/ a.to \in List!Servers

AskedInv ==
    /\ ask = List!NoAsk \/ assign = List!NoAsk
    /\ Counts(ask)
    /\ Counts(assign)
    /\ Named(ask) /\ Named(assign)
    /\ carried = {}

ListInv == ListTypeInv /\ AskedInv /\ (List!Hidden # {} => narrowed)

\* The invariant of the list holds at first.
LEMMA ListInit == MaxUpsets \in Nat /\ List!Init => ListInv
<1> SUFFICES ASSUME MaxUpsets \in Nat, List!Init PROVE ListInv OBVIOUS
<1>1. List!NoAsk \in Questions /\ List!NoAsk.on = {} /\ List!NoAsk.told = {}
  BY DEF List!NoAsk, Questions
<1>2. record \in [Domains -> List!Bindings] /\ row \in [Domains -> List!Bindings]
  <2>1. record \in [Domains -> List!Bindings \ {"absent"}] /\ row = record BY DEF List!Init
  <2> QED BY <2>1
<1>3. ListTypeInv
  <2>1. upsets \in 0..MaxUpsets BY DEF List!Init
  <2>2. dialog \in BOOLEAN /\ narrowed \in BOOLEAN BY DEF List!Init
  <2>3. ask \in Questions /\ assign \in Questions /\ ask.told \subseteq ask.on
    BY <1>1 DEF List!Init
  <2> QED BY <1>2, <2>1, <2>2, <2>3 DEF List!Init, ListTypeInv
<1>4. AskedInv BY <1>1 DEF List!Init, AskedInv, Counts, Named
<1>5. List!Hidden = {} BY DEF List!Init, List!Hidden
<1> QED BY <1>3, <1>4, <1>5 DEF ListInv

\* A selection within the filtered rows keeps it.
LEMMA SelectStep ==
  ASSUME ListInv, NEW s \in SUBSET Domains, List!Select(s), s \ List!Filtered \subseteq sel \ List!Filtered
  PROVE  ListInv'
<1>1. ListTypeInv' BY DEF List!Select, ListInv, ListTypeInv
<1>2. AskedInv' BY DEF List!Select, ListInv, AskedInv, Counts, Named
<1>3. (List!Hidden # {} => narrowed)'
  <2>1. List!Filtered' = List!Filtered /\ List!Listed' = List!Listed
    BY DEF List!Select, List!Filtered, List!Listed
  <2>2. List!Hidden' \subseteq List!Hidden BY <2>1 DEF List!Select, List!Hidden
  <2>3. s = {} => List!Hidden' = {} BY DEF List!Select, List!Hidden
  <2> QED BY <2>2, <2>3 DEF List!Select, ListInv, ListTypeInv
<1> QED BY <1>1, <1>2, <1>3 DEF ListInv

\* Every action keeps it.
LEMMA ListStep == ListInv /\ [List!Next]_(List!vars) => ListInv'
<1> SUFFICES ASSUME ListInv, [List!Next]_(List!vars) PROVE ListInv' OBVIOUS
<1> USE DEF ListInv
<1>1. CASE List!Refetch
  <2>1. ListTypeInv' BY <1>1 DEF List!Refetch, List!screen, ListTypeInv, List!Narrow
  <2>2. AskedInv' BY <1>1 DEF List!Refetch, List!screen, AskedInv, Counts, Named
  <2>3. (List!Hidden # {} => narrowed)' BY <1>1 DEF List!Refetch, List!Narrow
  <2> QED BY <2>1, <2>2, <2>3
<1>2. CASE List!ToggleAll
  BY <1>2, SelectStep, List!Filtered \in SUBSET Domains DEF List!ToggleAll, List!Filtered,
      List!Listed
<1>3. CASE List!Assigned
  <2>1. UNCHANGED <<row, filter, focus, ask, blind>> /\ assign # List!NoAsk /\ assign' = List!NoAsk
    BY <1>3 DEF List!Assigned
  <2>2. ask = List!NoAsk /\ AskedInv BY <2>1 DEF AskedInv
  <2>3. ASSUME NEW d \in assign.on \ assign.told, record[d] \in List!Servers \ {assign.to}
        PROVE  d \in blind
    BY <2>2, <2>3 DEF AskedInv, Counts, Named
  <2>4. carried' = {} BY <1>3, <2>2, <2>3 DEF List!Assigned, AskedInv
  <2>5. record' \in [Domains -> List!Bindings]
    <3>1. assign.on \in SUBSET Domains /\ assign.to \in List!Servers \union {"none"}
      BY DEF ListTypeInv, Questions
    <3>2. assign.to \in List!Servers BY <2>1 DEF AskedInv, Named
    <3> QED BY <1>3, <3>1, <3>2 DEF List!Assigned, ListTypeInv, List!Bindings
  <2>6. AskedInv' BY <2>1, <2>2, <2>4 DEF AskedInv, Counts, Named, List!NoAsk
  <2>7. upsets' \in 0..MaxUpsets BY <1>3 DEF List!Assigned, List!Upset, ListTypeInv
  <2>8. sel' \in SUBSET Domains /\ dialog' \in BOOLEAN /\ narrowed' \in BOOLEAN
    BY <1>3 DEF List!Assigned, ListTypeInv
  <2>9. ListTypeInv' BY <2>1, <2>5, <2>7, <2>8, <2>2 DEF ListTypeInv
  <2>10. (List!Hidden # {} => narrowed)'
    BY <1>3 DEF List!Assigned, List!Hidden, List!Filtered, List!Listed
  <2> QED BY <2>6, <2>9, <2>10
<1>4. ASSUME NEW f \in List!Servers \union {"all"}, List!Filter(f) PROVE ListInv'
  <2>1. ListTypeInv' BY <1>4 DEF List!Filter, ListTypeInv, List!Narrow
  <2>2. AskedInv' BY <1>4 DEF List!Filter, AskedInv, Counts, Named
  <2>3. (List!Hidden # {} => narrowed)' BY <1>4 DEF List!Filter, List!Narrow
  <2> QED BY <2>1, <2>2, <2>3
<1>5. ASSUME NEW d \in Domains, List!Focus(d) PROVE ListInv'
  <2>1. ListTypeInv' BY <1>5 DEF List!Focus, ListTypeInv, List!Narrow
  <2>2. AskedInv' BY <1>5 DEF List!Focus, AskedInv, Counts, Named
  <2>3. (List!Hidden # {} => narrowed)' BY <1>5 DEF List!Focus, List!Narrow
  <2> QED BY <2>1, <2>2, <2>3
<1>6. ASSUME NEW d \in Domains, List!Toggle(d) PROVE ListInv'
  <2>1. d \in List!Filtered BY <1>6 DEF List!Toggle
  <2>2. CASE d \in sel BY <1>6, <2>1, <2>2, SelectStep DEF List!Toggle, ListTypeInv
  <2>3. CASE d \notin sel BY <1>6, <2>1, <2>3, SelectStep DEF List!Toggle, ListTypeInv
  <2> QED BY <2>2, <2>3
<1>7. ASSUME NEW open \in BOOLEAN, List!Dialog(open) PROVE ListInv'
  <2>1. ListTypeInv' BY <1>7 DEF List!Dialog, ListTypeInv
  <2>2. AskedInv' BY <1>7 DEF List!Dialog, AskedInv, Counts, Named
  <2>3. (List!Hidden # {} => narrowed)'
    BY <1>7 DEF List!Dialog, List!Hidden, List!Filtered, List!Listed
  <2> QED BY <2>1, <2>2, <2>3
<1>8. ASSUME NEW t \in List!Servers, List!AskAssign(t) PROVE ListInv'
  <2>1. UNCHANGED <<record, row, filter, focus, sel, dialog, assign, upsets, carried, narrowed>>
        /\ assign = List!NoAsk
    BY <1>8 DEF List!AskAssign
  <2>2. ask'.on = sel /\ ask'.to = t /\ ask'.told = List!Moving(t)
    BY <1>8 DEF List!AskAssign
  <2>3. List!Moving(t) \subseteq sel /\ sel \in SUBSET Domains
    BY DEF List!Moving, ListTypeInv
  <2>4. ask' \in Questions BY <1>8, <2>3 DEF List!AskAssign, Questions
  <2>5. ListTypeInv' BY <1>8, <2>1, <2>2, <2>3, <2>4 DEF List!AskAssign, ListTypeInv
  <2>6. Counts(ask)'
    BY <1>8, <2>1, <2>2, <2>3 DEF List!AskAssign, Counts, List!Moving
  <2>7. Counts(assign)' BY <2>1 DEF Counts, List!NoAsk
  <2>8. AskedInv' BY <2>1, <2>2, <2>6, <2>7 DEF AskedInv, Named
  <2>9. (List!Hidden # {} => narrowed)' BY <2>1 DEF List!Hidden, List!Filtered, List!Listed
  <2> QED BY <2>5, <2>8, <2>9
<1>9. ASSUME NEW yes \in BOOLEAN, List!Answer(yes) PROVE ListInv'
  <2>1. UNCHANGED <<record, row, filter, focus, sel, dialog, upsets, blind, carried, narrowed>>
        /\ ask # List!NoAsk /\ ask' = List!NoAsk /\ (assign' = ask \/ assign' = assign)
    BY <1>9 DEF List!Answer
  <2>2. List!NoAsk \in Questions /\ List!NoAsk.told \subseteq List!NoAsk.on
    BY DEF List!NoAsk, Questions
  <2>3. ListTypeInv' BY <2>1, <2>2 DEF ListTypeInv
  <2>4. Counts(ask)' BY <2>1 DEF Counts, List!NoAsk
  <2>5. AskedInv' BY <2>1, <2>4 DEF AskedInv, Counts, Named
  <2>6. (List!Hidden # {} => narrowed)' BY <2>1 DEF List!Hidden, List!Filtered, List!Listed
  <2> QED BY <2>3, <2>5, <2>6
<1>10. ASSUME NEW d \in Domains, NEW b \in List!Bindings, List!EditElsewhere(d, b) PROVE ListInv'
  <2>1. ListTypeInv' BY <1>10 DEF List!EditElsewhere, List!Upset, List!screen, ListTypeInv
  <2>2. \A e \in Domains \ {d} : record'[e] = record[e]
    BY <1>10 DEF List!EditElsewhere, ListTypeInv
  <2>3. ask.on \subseteq Domains /\ assign.on \subseteq Domains
    BY DEF ListTypeInv, Questions
  <2>4. Counts(ask)' /\ Counts(assign)'
    BY <1>10, <2>2, <2>3 DEF List!EditElsewhere, List!screen, Counts, AskedInv
  <2>5. AskedInv' BY <1>10, <2>4 DEF List!EditElsewhere, List!screen, AskedInv, Named
  <2>6. (List!Hidden # {} => narrowed)'
    BY <1>10 DEF List!EditElsewhere, List!screen, List!Hidden, List!Filtered, List!Listed
  <2> QED BY <2>1, <2>5, <2>6
<1>11. CASE UNCHANGED List!vars
  <2>1. ListTypeInv' BY <1>11 DEF List!vars, List!screen, ListTypeInv
  <2>2. AskedInv' BY <1>11 DEF List!vars, List!screen, AskedInv, Counts, Named
  <2>3. (List!Hidden # {} => narrowed)'
    BY <1>11 DEF List!vars, List!screen, List!Hidden, List!Filtered, List!Listed
  <2> QED BY <2>1, <2>2, <2>3
<1> QED
  BY <1>1, <1>2, <1>3, <1>4, <1>5, <1>6, <1>7, <1>8, <1>9, <1>10, <1>11 DEF List!Next

\* What the inductive invariant says of the properties that are checked.
LEMMA ListKeeps == ListInv => List!TypeOK /\ List!MoveIsAnnounced /\ List!HiddenHaveACause
<1> SUFFICES ASSUME ListInv PROVE List!TypeOK /\ List!MoveIsAnnounced /\ List!HiddenHaveACause OBVIOUS
<1>1. List!TypeOK BY DEF ListInv, ListTypeInv, AskedInv, List!TypeOK, Questions
<1> QED BY <1>1 DEF ListInv, AskedInv, List!MoveIsAnnounced, List!HiddenHaveACause

-----------------------------------------------------------------------------
(***************************************************************************)
(* The deletion of the selected domains.                                   *)
(***************************************************************************)
DelTypeInv ==
    /\ MaxUpsets \in Nat
    /\ there \subseteq Domains /\ listed \subseteq Domains /\ sel \subseteq Domains
    /\ strays \subseteq Domains /\ single \subseteq Domains
    /\ ask \in [on : SUBSET Domains, row : BOOLEAN] /\ upsets \in 0..MaxUpsets
    /\ batch \in [Del!Batches -> [left : SUBSET Domains, failed : BOOLEAN]]

\* While a domain that is gone is counted and nothing excuses it, some deletion of
\* the selected ones is under way that has not failed: its end clears the selection.
GhostsAreAwaited ==
    sel \ there \subseteq strays \/ \E b \in Del!Batches : batch[b].left # {} /\ ~batch[b].failed

DelInv == DelTypeInv /\ GhostsAreAwaited

\* The invariant of the deletion holds at first.
LEMMA DelInit == MaxUpsets \in Nat /\ Del!Init => DelInv
BY DEF Del!Init, DelInv, DelTypeInv, GhostsAreAwaited, Del!NoAsk, Del!NoBatch, Del!Batches

\* One domain deleted, or not, keeps it.
LEMMA DoneStep ==
    ASSUME DelInv, NEW b \in Del!Batches, NEW d \in Domains, NEW ok \in BOOLEAN, Del!Done(b, d, ok)
    PROVE  DelInv'
<1> DEFINE rest == [left |-> batch[b].left \ {d}, failed |-> batch[b].failed \/ ~ok]
           over == rest.left = {}
<1>1. /\ d \in batch[b].left /\ Del!Request(d, ok)
      /\ batch' = [batch EXCEPT ![b] = IF over THEN Del!NoBatch ELSE rest]
      /\ sel' = (IF over /\ ~rest.failed THEN {} ELSE sel)
      /\ strays' = (IF rest.failed THEN strays \union (Domains \ there') ELSE strays)
      /\ UNCHANGED <<listed, ask, single>>
  BY DEF Del!Done
<1>2. /\ batch[b].left \subseteq Domains /\ batch[b].failed \in BOOLEAN
      /\ rest.left = batch[b].left \ {d} /\ rest.failed = (batch[b].failed \/ ~ok)
      /\ rest \in [left : SUBSET Domains, failed : BOOLEAN]
      /\ Del!NoBatch \in [left : SUBSET Domains, failed : BOOLEAN]
  BY DEF DelInv, DelTypeInv, Del!NoBatch
<1>3. upsets' \in 0..MaxUpsets /\ there' \subseteq Domains /\ there \ {d} \subseteq there'
      /\ there' \subseteq there
  BY <1>1 DEF DelInv, DelTypeInv, Del!Request, Del!Upset
<1> HIDE DEF rest
<1>4. DelTypeInv'
  BY <1>1, <1>2, <1>3 DEF DelInv, DelTypeInv
<1>5. CASE rest.failed
  BY <1>1, <1>4, <1>5 DEF DelInv, GhostsAreAwaited, DelTypeInv
<1>6. CASE ~rest.failed /\ over
  BY <1>1, <1>4, <1>6 DEF DelInv, GhostsAreAwaited, DelTypeInv
<1>7. CASE ~rest.failed /\ ~over
  <2>1. batch'[b].left # {} /\ ~batch'[b].failed
    BY <1>1, <1>2, <1>7 DEF DelInv, DelTypeInv
  <2> QED BY <2>1, <1>4 DEF DelInv, GhostsAreAwaited
<1> QED BY <1>5, <1>6, <1>7

\* Every action keeps it.
LEMMA DelStep == DelInv /\ [Del!Next]_(Del!vars) => DelInv'
<1> SUFFICES ASSUME DelInv, [Del!Next]_(Del!vars) PROVE DelInv'
  OBVIOUS
<1> USE DEF DelInv, DelTypeInv, GhostsAreAwaited
<1>1. CASE UNCHANGED Del!vars \/ Del!Refetch
  BY <1>1 DEF Del!vars, Del!Refetch
<1>2. ASSUME NEW s \in SUBSET Domains, Del!Mark(s) PROVE DelInv'
  BY <1>2 DEF Del!Mark
<1>3. ASSUME NEW s \in SUBSET Domains, NEW r \in BOOLEAN, Del!Ask(s, r) PROVE DelInv'
  BY <1>3 DEF Del!Ask
<1>4. CASE Del!Decline \/ Del!ConfirmRow
  <2>1. Del!NoAsk \in [on : SUBSET Domains, row : BOOLEAN]
    BY DEF Del!NoAsk
  <2>2. ask' = Del!NoAsk /\ single' \subseteq Domains
        /\ UNCHANGED <<there, listed, sel, batch, upsets, strays>>
    BY <1>4 DEF Del!Decline, Del!ConfirmRow
  <2> QED BY <2>1, <2>2
<1>5. CASE Del!ConfirmSelected
  <2>1. PICK b \in Del!Batches :
           /\ Del!FreeBatch(b) /\ batch' = [batch EXCEPT ![b].left = ask.on] /\ ask' = Del!NoAsk
           /\ UNCHANGED <<there, listed, sel, single, upsets, strays>>
    BY <1>5 DEF Del!ConfirmSelected
  <2>2. batch[b].left = {} /\ ~batch[b].failed
    BY <2>1 DEF Del!FreeBatch, Del!NoBatch
  <2>3. DelTypeInv'
    BY <2>1 DEF Del!NoAsk
  <2>4. \A c \in Del!Batches : c # b => batch'[c] = batch[c]
    BY <2>1
  <2> QED BY <2>1, <2>2, <2>3, <2>4
<1>6. ASSUME NEW d \in Domains, Del!DeletedElsewhere(d) PROVE DelInv'
  BY <1>6 DEF Del!DeletedElsewhere, Del!Upset
<1>7. ASSUME NEW d \in Domains, Del!Toggle(d) PROVE DelInv'
  BY <1>7, <1>2 DEF Del!Toggle
<1>8. CASE Del!ToggleAll
  BY <1>8, <1>2 DEF Del!ToggleAll
<1>9. ASSUME Del!AskSelected \/ \E d \in Domains : Del!AskRow(d) PROVE DelInv'
  BY <1>9, <1>3 DEF Del!AskSelected, Del!AskRow
<1>10. ASSUME NEW d \in Domains, NEW ok \in BOOLEAN, Del!DoneRow(d, ok) PROVE DelInv'
  BY <1>10 DEF Del!DoneRow, Del!Request, Del!Upset
<1> QED BY <1>1, <1>4, <1>5, <1>6, <1>7, <1>8, <1>9, <1>10, DoneStep DEF Del!Next

\* It gives that a selected row that is gone has a cause.
LEMMA DelKeeps == DelInv => Del!TypeOK /\ Del!GhostsHaveACause
BY DEF DelInv, DelTypeInv, GhostsAreAwaited, Del!TypeOK, Del!GhostsHaveACause,
    Del!Deleting, Del!Batches

-----------------------------------------------------------------------------
(***************************************************************************)
(* The tests of Cloudflare tokens, one by one and all at once.             *)
(***************************************************************************)
(* The cardinality of a set, as TokenTests counts it. *)
LEMMA TokSizes ==
  /\ \A S : Tok!Cardinality(S) = Cardinality(S)
  /\ \A S : Tok!IsFiniteSet(S) <=> IsFiniteSet(S)
  BY DEF Tok!Cardinality, Tok!IsFiniteSet, Cardinality, IsFiniteSet

RunRecord == [on : BOOLEAN, todo : SUBSET CfAccounts, current : SUBSET CfAccounts,
              failed : SUBSET CfAccounts]

TokTypeInv ==
    /\ MaxTests \in Nat
    /\ there \subseteq CfAccounts /\ visible \subseteq CfAccounts
    /\ card \in [CfAccounts -> {"idle", "loading", "success", "error"}]
    /\ timer \in [CfAccounts -> BOOLEAN] /\ loose \in [CfAccounts -> Nat] /\ byHand \in [CfAccounts -> 0..MaxTests]
    /\ run \in RunRecord /\ (~run.on => run = Tok!NoRun)
    /\ summary = Tok!NoSummary \/ summary \subseteq CfAccounts

\* The run tests one account at a time and none twice, and has no summary yet.
RunInv ==
    /\ run.current = {} \/ \E a \in CfAccounts : run.current = {a}
    /\ run.todo \intersect (run.current \union run.failed) = {}
    /\ run.current \intersect run.failed = {}
    /\ run.on => summary = Tok!NoSummary

\* An account that is not doubled has at most one test in flight.
OneInFlight == \A a \in CfAccounts \ doubled :
    byHand[a] <= 1 /\ (byHand[a] > 0 => a \notin run.current)

\* A card that may yet turn green under a summary that calls it failed is excused.
FailedInv ==
    \A a \in run.failed \union (IF summary = Tok!NoSummary THEN {} ELSE summary) :
       Tok!InFlight(a) \/ card[a] = "success" => a \in retested \union doubled

TokInv ==
    /\ TokTypeInv /\ RunInv /\ OneInFlight /\ FailedInv
    /\ Tok!CardFollowsTheTest /\ Tok!CardsSettle

\* With no test begun the invariant holds.
LEMMA FreshIsFine ==
    /\ MaxTests \in Nat /\ Tok!Fresh /\ there \subseteq CfAccounts /\ visible \subseteq CfAccounts
    => TokInv
BY DEF Tok!Fresh, TokInv, TokTypeInv, RunRecord, RunInv, OneInFlight, FailedInv,
    Tok!NoRun, Tok!InFlight,
       Tok!CardFollowsTheTest, Tok!CardsSettle

\* The page opened again is as at first.
LEMMA FreshAgain ==
    /\ MaxTests \in Nat /\ Tok!Fresh' /\ there' \subseteq CfAccounts /\ visible' \subseteq CfAccounts
    => TokInv'
BY DEF Tok!Fresh, TokInv, TokTypeInv, RunRecord, RunInv, OneInFlight, FailedInv,
    Tok!NoRun, Tok!InFlight,
       Tok!CardFollowsTheTest, Tok!CardsSettle

\* The invariant of the tests holds at first.
LEMMA TokInit == MaxTests \in Nat /\ Tok!Init => TokInv
BY FreshIsFine DEF Tok!Init

\* The four actions on one account, each by what it makes of that account.
LEMMA TestStep ==
    ASSUME TokInv, NEW a \in CfAccounts, Tok!Test(a) PROVE TokInv'
<1> USE DEF TokInv, TokTypeInv, Tok!Test, Tok!BeginTest
<1>1. /\ card' = [card EXCEPT ![a] = "loading"] /\ timer' = [timer EXCEPT ![a] = FALSE]
      /\ byHand' = [byHand EXCEPT ![a] = byHand[a] + 1] /\ summary' = Tok!NoSummary
      /\ doubled' = (IF Tok!InFlight(a) THEN doubled \union {a}
                     ELSE IF loose[a] = 0 THEN doubled \ {a} ELSE doubled)
      /\ retested' = (IF a \in run.failed THEN retested \union {a} ELSE retested)
      /\ byHand[a] + 1 \in 0..MaxTests /\ byHand[a] + 1 > 0
      /\ UNCHANGED <<there, visible, run, loose>>
  BY DEF Tok!Double
<1>2. TokTypeInv' /\ RunInv'
  BY <1>1 DEF RunInv
<1>3. Tok!InFlight(a)' /\ \A b \in CfAccounts \ {a} : Tok!InFlight(b)' = Tok!InFlight(b)
  BY <1>1 DEF Tok!InFlight
<1>4. OneInFlight'
  BY <1>1 DEF OneInFlight, Tok!InFlight
<1>5. FailedInv'
  <2> QED BY <1>1, <1>3 DEF FailedInv, RunRecord
<1>6. Tok!CardFollowsTheTest' /\ Tok!CardsSettle'
  BY <1>1, <1>3 DEF Tok!CardFollowsTheTest, Tok!CardsSettle
<1> QED BY <1>2, <1>4, <1>5, <1>6

\* The end of a test by hand keeps it.
LEMMA TestedStep ==
    ASSUME TokInv, NEW a \in CfAccounts, NEW good \in BOOLEAN, Tok!Tested(a, good) PROVE TokInv'
<1> USE DEF TokInv, TokTypeInv
<1>1. /\ card' = [card EXCEPT ![a] = IF good THEN "success" ELSE "error"]
      /\ timer' = [timer EXCEPT ![a] = good \/ timer[a]]
      /\ loose' = [loose EXCEPT ![a] = IF good /\ timer[a] THEN loose[a] + 1 ELSE loose[a]]
      /\ byHand' = [byHand EXCEPT ![a] = byHand[a] - 1] /\ byHand[a] > 0
      /\ byHand[a] - 1 \in 0..MaxTests
      /\ UNCHANGED <<there, visible, run, summary, doubled, retested>>
  BY DEF Tok!Tested, Tok!EndTest
<1>2. TokTypeInv' /\ RunInv'
  BY <1>1 DEF RunInv
<1>3. Tok!InFlight(a) /\ \A b \in CfAccounts \ {a} : Tok!InFlight(b)' = Tok!InFlight(b)
  BY <1>1 DEF Tok!InFlight
<1>4. OneInFlight'
  BY <1>1 DEF OneInFlight
<1>5. a \notin doubled => ~Tok!InFlight(a)'
  BY <1>1 DEF Tok!InFlight, OneInFlight
<1>6. FailedInv'
  BY <1>1, <1>3 DEF FailedInv, RunRecord
<1>7. Tok!CardFollowsTheTest' /\ Tok!CardsSettle'
  BY <1>1, <1>3, <1>5 DEF Tok!CardFollowsTheTest, Tok!CardsSettle
<1> QED BY <1>2, <1>4, <1>6, <1>7

\* So does the card that fades.
LEMMA FadeStep ==
    ASSUME TokInv, NEW a \in CfAccounts, Tok!Fade(a) PROVE TokInv'
<1> USE DEF TokInv, TokTypeInv
<1>1. /\ card' = [card EXCEPT ![a] = "idle"]
      /\ \/ timer[a] /\ timer' = [timer EXCEPT ![a] = FALSE] /\ UNCHANGED loose
         \/ loose[a] > 0 /\ loose' = [loose EXCEPT ![a] = loose[a] - 1] /\ UNCHANGED timer
      /\ UNCHANGED <<there, visible, byHand, run, summary, doubled, retested>>
  BY DEF Tok!Fade
<1>2. TokTypeInv' /\ RunInv'
  <2>1. loose' \in [CfAccounts -> Nat] /\ timer' \in [CfAccounts -> BOOLEAN]
    <3>1. CASE UNCHANGED loose
      BY <1>1, <3>1
    <3>2. CASE loose[a] > 0 /\ loose' = [loose EXCEPT ![a] = loose[a] - 1] /\ UNCHANGED timer
      <4>1. loose[a] - 1 \in Nat
        BY <3>2
      <4> QED BY <3>2, <4>1
    <3> QED BY <1>1, <3>1, <3>2
  <2> QED BY <1>1, <2>1 DEF RunInv
<1>3. \A b \in CfAccounts : Tok!InFlight(b)' = Tok!InFlight(b)
  BY <1>1 DEF Tok!InFlight
<1>4. OneInFlight'
  BY <1>1 DEF OneInFlight, Tok!InFlight
<1>5. FailedInv'
  BY <1>1, <1>3 DEF FailedInv, RunRecord
<1>6. Tok!CardFollowsTheTest' /\ Tok!CardsSettle'
  BY <1>1, <1>3 DEF Tok!CardFollowsTheTest, Tok!CardsSettle
<1> QED BY <1>2, <1>4, <1>5, <1>6

\* So does the next test of a run.
LEMMA RunNextStep ==
    ASSUME TokInv, NEW a \in CfAccounts, Tok!RunNext(a) PROVE TokInv'
<1> USE DEF TokInv, TokTypeInv
<1>1. /\ card' = [card EXCEPT ![a] = "loading"] /\ timer' = [timer EXCEPT ![a] = FALSE]
      /\ doubled' = (IF Tok!InFlight(a) THEN doubled \union {a}
                     ELSE IF loose[a] = 0 THEN doubled \ {a} ELSE doubled)
      /\ a \in run.todo /\ run.current = {}
      /\ UNCHANGED <<there, visible, loose, byHand, summary, retested>>
  BY DEF Tok!RunNext, Tok!BeginTest, Tok!Double
<1>2. /\ run'.on /\ run'.todo = run.todo \ {a} /\ run'.current = {a} /\ run'.failed = run.failed
      /\ run' \in RunRecord
  BY DEF Tok!RunNext, RunRecord
<1>3. TokTypeInv' /\ RunInv'
  BY <1>1, <1>2 DEF RunInv, Tok!RunNext
<1>4. Tok!InFlight(a)' /\ \A b \in CfAccounts \ {a} : Tok!InFlight(b)' = Tok!InFlight(b)
  BY <1>1, <1>2 DEF Tok!InFlight
<1>5. OneInFlight'
  BY <1>1, <1>2 DEF OneInFlight, Tok!InFlight
<1>6. FailedInv'
  <2>1. summary = Tok!NoSummary /\ a \notin run.failed
    BY <1>1 DEF RunInv, Tok!RunNext
  <2> QED BY <1>1, <1>2, <1>4, <2>1 DEF FailedInv, RunRecord
<1>7. Tok!CardFollowsTheTest' /\ Tok!CardsSettle'
  BY <1>1, <1>4 DEF Tok!CardFollowsTheTest, Tok!CardsSettle
<1> QED BY <1>3, <1>5, <1>6, <1>7

\* So does the end of it.
LEMMA RunTestedStep ==
    ASSUME TokInv, NEW a \in CfAccounts, NEW good \in BOOLEAN, Tok!RunTested(a, good) PROVE TokInv'
<1> USE DEF TokInv, TokTypeInv
<1>1. /\ card' = [card EXCEPT ![a] = IF good THEN "success" ELSE "error"]
      /\ timer' = [timer EXCEPT ![a] = good \/ timer[a]]
      /\ loose' = [loose EXCEPT ![a] = IF good /\ timer[a] THEN loose[a] + 1 ELSE loose[a]]
      /\ a \in run.current
      /\ UNCHANGED <<there, visible, byHand, summary, doubled, retested>>
  BY DEF Tok!RunTested, Tok!EndTest
<1>2. /\ run'.on = run.on /\ run'.todo = run.todo /\ run'.current = {}
      /\ run'.failed = IF good THEN run.failed ELSE run.failed \union {a}
      /\ run' \in RunRecord /\ run.current = {a} /\ run.on
  <2>1. run.current = {a}
    BY <1>1 DEF RunInv
  <2>2. run.on
    BY <1>1 DEF Tok!NoRun
  <2>3. run' = [run EXCEPT !.current = {},
                           !.failed = IF good THEN run.failed ELSE run.failed \union {a}]
    BY DEF Tok!RunTested
  <2> QED BY <2>1, <2>2, <2>3 DEF RunRecord
<1>3. TokTypeInv' /\ RunInv'
  BY <1>1, <1>2 DEF RunInv
<1>4. /\ Tok!InFlight(a) /\ (a \notin doubled => ~Tok!InFlight(a)')
      /\ \A b \in CfAccounts \ {a} : Tok!InFlight(b)' = Tok!InFlight(b)
  BY <1>1, <1>2 DEF Tok!InFlight, OneInFlight
<1>5. OneInFlight'
  BY <1>1, <1>2 DEF OneInFlight, Tok!InFlight
<1>6. FailedInv'
  <2>1. summary = Tok!NoSummary /\ a \notin run.failed
    BY <1>1, <1>2 DEF RunInv
  <2> QED BY <1>1, <1>2, <1>4, <2>1 DEF FailedInv, RunRecord
<1>7. Tok!CardFollowsTheTest' /\ Tok!CardsSettle'
  BY <1>1, <1>4 DEF Tok!CardFollowsTheTest, Tok!CardsSettle
<1> QED BY <1>3, <1>5, <1>6, <1>7

\* Every action keeps it.
LEMMA TokStep == TokInv /\ [Tok!Next]_(Tok!vars) => TokInv'
<1> SUFFICES ASSUME TokInv, [Tok!Next]_(Tok!vars) PROVE TokInv'
  OBVIOUS
<1> USE DEF TokInv, TokTypeInv
<1>1. ASSUME UNCHANGED <<Tok!cards, run, doubled, retested>>, summary' \in {summary, Tok!NoSummary},
             there' \subseteq CfAccounts, visible' \subseteq CfAccounts
      PROVE  TokInv'
  <2>1. TokTypeInv'
    BY <1>1 DEF Tok!cards
  <2>2. \A a \in CfAccounts : Tok!InFlight(a)' = Tok!InFlight(a)
    BY <1>1 DEF Tok!cards, Tok!InFlight
  <2>3. FailedInv'
    BY <1>1, <2>2 DEF Tok!cards, FailedInv, RunRecord
  <2> QED BY <1>1, <2>1, <2>2, <2>3 DEF Tok!cards, RunInv, OneInFlight,
      Tok!CardFollowsTheTest, Tok!CardsSettle
<1>2. CASE UNCHANGED Tok!vars
  BY <1>1, <1>2 DEF Tok!vars
<1>3. ASSUME NEW v \in SUBSET CfAccounts, Tok!Search(v) PROVE TokInv'
  BY <1>1, <1>3 DEF Tok!Search
<1>4. ASSUME NEW a \in CfAccounts, Tok!Delete(a) PROVE TokInv'
  BY <1>1, <1>4 DEF Tok!Delete
<1>5. CASE Tok!Leave
  <2>1. MaxTests \in Nat /\ Tok!Fresh' /\ there' \subseteq CfAccounts /\ visible' \subseteq CfAccounts
    BY <1>5 DEF Tok!Leave, Tok!Fresh
  <2> QED BY <2>1, FreshAgain
<1>6. CASE Tok!TestAll
  <2>1. /\ run'.on /\ run'.todo \subseteq CfAccounts /\ run'.current = {} /\ run'.failed = {}
        /\ run' \in RunRecord /\ summary' = Tok!NoSummary /\ run.current = {}
        /\ UNCHANGED <<there, visible, card, timer, loose, byHand, doubled>>
    <3>1. run = Tok!NoRun /\ run' = [Tok!NoRun EXCEPT !.on = TRUE, !.todo = visible \intersect there]
      BY <1>6 DEF Tok!TestAll
    <3>2. /\ summary' = Tok!NoSummary
          /\ UNCHANGED <<there, visible, card, timer, loose, byHand, doubled>>
      BY <1>6 DEF Tok!TestAll, Tok!cards
    <3> QED BY <3>1, <3>2 DEF Tok!NoRun, RunRecord
  <2>2. \A a \in CfAccounts : Tok!InFlight(a)' = Tok!InFlight(a)
    BY <2>1 DEF Tok!InFlight
  <2> QED BY <2>1, <2>2 DEF RunInv, OneInFlight, FailedInv, Tok!CardFollowsTheTest,
      Tok!CardsSettle
<1>7. CASE Tok!RunEnds
  <2>1. /\ run' = Tok!NoRun /\ run.current = {} /\ run.on /\ summary' = run.failed
        /\ UNCHANGED <<there, visible, card, timer, loose, byHand, doubled, retested>>
    BY <1>7 DEF Tok!RunEnds, Tok!cards
  <2>2. Tok!NoRun \in RunRecord /\ ~Tok!NoRun.on /\ Tok!NoRun.current = {} /\ Tok!NoRun.todo = {} /\ Tok!NoRun.failed = {}
    BY DEF Tok!NoRun, RunRecord
  <2>3. \A a \in CfAccounts : Tok!InFlight(a)' = Tok!InFlight(a)
    BY <2>1, <2>2 DEF Tok!InFlight
  <2>4. TokTypeInv' /\ RunInv'
    BY <2>1, <2>2 DEF RunInv, RunRecord
  <2>5. FailedInv'
    BY <2>1, <2>2, <2>3 DEF FailedInv, RunRecord
  <2> QED BY <2>1, <2>2, <2>3, <2>4, <2>5 DEF OneInFlight, Tok!CardFollowsTheTest,
      Tok!CardsSettle
<1> QED BY <1>2, <1>3, <1>4, <1>5, <1>6, <1>7, TestStep, TestedStep, FadeStep, RunNextStep,
           RunTestedStep DEF Tok!Next

\* It gives that cards and summary agree, follow the tests and settle.
LEMMA TokKeeps ==
    TokInv => /\ Tok!TypeOK /\ Tok!SummaryAgreesWithCards /\ Tok!CardFollowsTheTest /\ Tok!CardsSettle
<1> SUFFICES ASSUME TokInv
             PROVE  Tok!TypeOK /\ Tok!SummaryAgreesWithCards /\ Tok!CardFollowsTheTest /\ Tok!CardsSettle
  OBVIOUS
<1>1. Tok!Cardinality(run.current) <= 1
  <2>1. CASE run.current = {}
    BY TokSizes, <2>1, FS_EmptySet
  <2>2. ASSUME NEW a, run.current = {a} PROVE Tok!Cardinality(run.current) <= 1
    <3>1. Cardinality({a}) = 1
      BY FS_Singleton
    <3>2. Tok!Cardinality({a}) = 1
      BY <3>1, TokSizes
    <3> QED BY <2>2, <3>2
  <2> QED BY <2>1, <2>2 DEF TokInv, RunInv
<1> QED BY <1>1 DEF TokInv, TokTypeInv, RunRecord, Tok!TypeOK, Tok!SummaryAgreesWithCards,
    FailedInv, Tok!NoRun
=============================================================================
