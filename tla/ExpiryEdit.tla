----------------------------- MODULE ExpiryEdit -----------------------------
(***************************************************************************)
(* The paid period in the head of a domain's card: a field that reads a    *)
(* date as it is typed, writes it when it is left or confirmed, and lays   *)
(* what was written over the record until that has been read again.        *)
(***************************************************************************)
EXTENDS Naturals

CONSTANT MaxUpsets    \* bound: edits made elsewhere and requests that fail

Dates  == {"none", "a", "b"}                \* dates the field can read, or no date
Stored == Dates \union {"odd"}              \* and one it cannot, as 0226-09-01
Texts  == Stored \union {"short", "bad"}    \* an empty text is no date
Typed  == Texts \ {"odd"}
Drafts == Dates \union {"closed", "error", "settled"}
NoEdit == [value |-> "none", base |-> "none", on |-> FALSE]

VARIABLES
    record, row,     \* the date in the database, and as the card has read it
    text, revealed,  \* DateField: its text, and whether typing counts as ended
    wrong,           \* DateField: the text, as it was typed, cannot be read
    draft,           \* what it last said of the text; or the field is closed
    edit,            \* the write laid over the row
    put,             \* the date of the PUT under way, or "no"
    failed,          \* the last one failed
    upsets,
    ways,            \* how often the row has moved since the write, up to 2
    refused,         \* the last write was refused, and none was asked for since
    unasked, lost    \* a refused date was sent again unasked; typed text went away

vars == <<record, row, text, revealed, wrong, draft, edit, put, failed, upsets, ways, refused,
          unasked, lost>>

TypeOK ==
    /\ {record, row} \subseteq Stored /\ text \in Texts /\ draft \in Drafts
    /\ edit \in [value : Dates, base : Stored, on : BOOLEAN] /\ put \in Dates \union {"no"}
    /\ {revealed, wrong, failed, refused, unasked, lost} \subseteq BOOLEAN
    /\ ways \in 0..2 /\ upsets \in 0..MaxUpsets

Init ==
    /\ record \in {"none", "a", "odd"} /\ row = record
    /\ text = "none" /\ revealed = FALSE /\ wrong = FALSE
    /\ draft = "closed" /\ edit = NoEdit /\ put = "no" /\ failed = FALSE /\ upsets = 0
    /\ ways = 0 /\ refused = FALSE /\ unasked = FALSE /\ lost = FALSE

Upset == upsets < MaxUpsets /\ upsets' = upsets + 1

PendingEdit == edit.on /\ ~failed /\ row = edit.base
Shown       == IF PendingEdit THEN edit.value ELSE row
IsError     == draft \in {"error", "settled"}

(***************************************************************************)
(* The record.                                                             *)
(***************************************************************************)
EditElsewhere(d) ==
    /\ Upset /\ d # record /\ record' = d
    /\ UNCHANGED <<row, text, revealed, wrong, draft, edit, put, failed, ways, refused>>
    /\ UNCHANGED <<unasked, lost>>

Refetch ==
    /\ row # record /\ row' = record /\ ways' = (IF ways < 2 THEN ways + 1 ELSE 2)
    /\ UNCHANGED <<record, text, revealed, wrong, draft, edit, put, failed, upsets, refused>>
    /\ UNCHANGED <<unasked, lost>>

(***************************************************************************)
(* The field.  Its text is its own: it is set when the field opens, and by *)
(* typing.                                                                 *)
(***************************************************************************)
\* The field speaks up as soon as it is there: a date from the database it cannot
\* read is reported as final, but not painted, for nobody has typed it.
Open ==
    /\ draft = "closed" /\ text' = Shown
    /\ draft' = (IF Shown \in Dates THEN Shown ELSE "settled")
    /\ revealed' = FALSE /\ wrong' = FALSE
    /\ failed' = FALSE /\ edit' = (IF failed THEN NoEdit ELSE edit)
    /\ UNCHANGED <<record, row, put, upsets, ways, refused, unasked, lost>>

Type(t) ==
    /\ draft # "closed" /\ t # text /\ text' = t /\ wrong' = (t \notin Dates)
    /\ LET settled == revealed \/ t = "bad" IN
       IF t \in Dates THEN draft' = t /\ revealed' = FALSE
       ELSE draft' = (IF settled THEN "settled" ELSE "error") /\ revealed' = settled
    /\ UNCHANGED <<record, row, edit, put, failed, upsets, ways, refused, unasked, lost>>

(***************************************************************************)
(* The end of an edit: a blur, or a confirmation.                          *)
(***************************************************************************)
Stay == UNCHANGED <<edit, put, failed, ways, refused, unasked>>

Close == draft' = "closed" /\ Stay

Write(again) ==
    /\ edit' = [value |-> draft, base |-> row, on |-> TRUE]
    /\ put' = draft /\ failed' = FALSE /\ ways' = 0 /\ refused' = FALSE
    /\ unasked' = (unasked \/ again) /\ UNCHANGED draft

FinishEdit(blur) ==
    IF put # "no" \/ IsError \/ (blur /\ failed /\ edit.on /\ draft = edit.value)
    THEN UNCHANGED draft /\ Stay
    ELSE IF draft = Shown THEN Close
    ELSE Write(blur /\ refused /\ edit.on /\ draft = edit.value)

\* DateField shows its error and says so, before the card hears of the blur.
Blur ==
    /\ draft # "closed" /\ revealed' = TRUE
    /\ IF wrong THEN draft' = "settled" /\ Stay ELSE FinishEdit(TRUE)
    /\ UNCHANGED <<record, row, text, wrong, upsets, lost>>

Confirm ==
    /\ draft # "closed" /\ FinishEdit(FALSE)
    /\ UNCHANGED <<record, row, text, revealed, wrong, upsets, lost>>

\* Not while a write is under way.
Escape ==
    /\ draft # "closed" /\ put = "no" /\ Close
    /\ UNCHANGED <<record, row, text, revealed, wrong, upsets, lost>>

(***************************************************************************)
(* The answer.  The field closes only on the text that was written.        *)
(***************************************************************************)
AfterSuccess == IF draft = put THEN "closed" ELSE draft

Accepted ==
    /\ put # "no" /\ put' = "no" /\ record' = put /\ draft' = AfterSuccess
    /\ lost' = (lost \/ (draft' = "closed" /\ text # put))
    /\ UNCHANGED <<row, text, revealed, wrong, edit, failed, upsets, ways, refused, unasked>>

\* Refused, or its answer is lost.
Refused ==
    /\ put # "no" /\ Upset /\ put' = "no" /\ failed' = TRUE /\ refused' = TRUE
    /\ record' \in {record, put}
    /\ UNCHANGED <<row, text, revealed, wrong, draft, edit, ways, unasked, lost>>

Next ==
    \/ Refetch \/ Open \/ Blur \/ Confirm \/ Escape \/ Accepted \/ Refused
    \/ \E d \in Stored : EditElsewhere(d)
    \/ \E t \in Typed : Type(t)

Spec == Init /\ [][Next]_vars
-----------------------------------------------------------------------------
\* The date shown differs from the one read only until the row has moved; but a row
\* that comes back to what it was brings the old write back over it, whatever
\* DomainExpiryField.tsx:265-266 says of its first move.
OverlayIsYoung == Shown # row => ways # 1

\* A date that was refused is not shown again as if it had been written.
RejectedIsNotShown == refused => Shown = row

\* Text typed over a write under way is not closed by that write's success, and
\* leaving the field never sends a refused date again.
TypingIsSafe == ~lost /\ ~unasked

\* The card explains why nothing is written when, and only when, the text cannot be
\* read and nobody is typing it: the field paints it as wrong, or the text is the
\* unreadable date it was opened on.
BlockedIsExplained ==
    draft # "closed" =>
        (draft = "settled" <=> (wrong /\ revealed) \/ (~wrong /\ text = "odd"))
=============================================================================
