----------------------------- MODULE ServerForms -----------------------------
(***************************************************************************)
(* The forms of the page of one server.  Each edits its own part of the    *)
(* row, and all share one mutation: the page follows the latest PUT, and   *)
(* no other.  Nothing stops the user from typing while one is under way,   *)
(* and nothing keeps him on the page.  Another desktop may edit the same   *)
(* server.                                                                 *)
(***************************************************************************)
EXTENDS Naturals, FiniteSets

CONSTANTS
    MaxCalls,     \* bound: PUTs under way
    MaxUpsets     \* bound: edits made elsewhere and requests that fail

Forms   == {"name", "ssh"}   \* address, provider and system are edited as the name is
Typed   == {"old", "mine"}
Values  == Typed \union {"theirs"}
Nothing == "nothing"

VARIABLES
    record,      \* what each form edits: of "ssh" it is the user and the port
    row,         \* the same as this page has read them
    modal,       \* the form that is open
    put,         \* the PUTs under way, and whether this page waits for them
    upsets,
    theirs,      \* what was edited elsewhere
    mine,        \* what this page has sent a value of since
    lost         \* a save that ended threw away what was typed with no save under way

vars == <<record, row, modal, put, upsets, theirs, mine, lost>>

Closed == [form |-> Nothing, draft |-> Nothing, typed |-> FALSE, late |-> FALSE, error |-> Nothing]

TypeOK ==
    /\ {record[f] : f \in Forms} \union {row[f] : f \in Forms} \subseteq Values
    /\ modal.form \in Forms \union {Nothing} /\ modal.error \in Forms \union {Nothing}
    /\ put \subseteq [form : Forms, value : Values, waited : BOOLEAN]
    /\ theirs \union mine \subseteq Forms /\ upsets \in 0..MaxUpsets

Init ==
    /\ record = [f \in Forms |-> "old"] /\ row = record
    /\ modal = Closed /\ put = {}
    /\ upsets = 0 /\ theirs = {} /\ mine = {} /\ lost = FALSE

Upset  == upsets < MaxUpsets /\ upsets' = upsets + 1
Saving(f) == \E p \in put : p.waited /\ p.form = f

Refetch ==
    /\ row # record /\ row' = record
    /\ UNCHANGED <<record, modal, put, upsets, theirs, mine, lost>>

EditElsewhere(f) ==
    /\ record[f] # "theirs" /\ Upset
    /\ record' = [record EXCEPT ![f] = "theirs"] /\ theirs' = theirs \union {f}
    /\ mine' = IF \E p \in put : p.form = f THEN mine ELSE mine \ {f}
    /\ UNCHANGED <<row, modal, put, lost>>

\* One form is open at a time; it starts from the row, and the cross of its title
\* closes it at any moment.
Open(f) ==
    /\ modal.form = Nothing
    /\ modal' = [Closed EXCEPT !.form = f, !.draft = row[f]]
    /\ UNCHANGED <<record, row, put, upsets, theirs, mine, lost>>

Close ==
    /\ modal.form # Nothing /\ modal' = Closed
    /\ UNCHANGED <<record, row, put, upsets, theirs, mine, lost>>

Type(v) ==
    /\ modal.form # Nothing /\ modal.draft # v
    /\ modal' = [modal EXCEPT !.draft = v, !.typed = TRUE, !.error = Nothing,
                              !.late = @ \/ Saving(modal.form)]
    /\ UNCHANGED <<record, row, put, upsets, theirs, mine, lost>>

\* The button of a field is off while the PUT the page follows is on; the button of
\* the SSH form only while its own save is.
Off(f) == IF f = "ssh" THEN Saving(f) ELSE \E p \in put : p.waited

\* The PUT that was followed before goes on without its callbacks.
Unwaited == {[p EXCEPT !.waited = FALSE] : p \in put}

Save ==
    LET f == modal.form IN
    /\ f # Nothing /\ ~Off(f) /\ Cardinality(put) < MaxCalls
    /\ put' = Unwaited \union {[form |-> f, value |-> modal.draft, waited |-> TRUE]}
    /\ modal' = [modal EXCEPT !.error = Nothing, !.late = FALSE]
    /\ mine' = mine \union {f}
    /\ UNCHANGED <<record, row, upsets, theirs, lost>>

\* A success closes the form it saved, whatever stands in it by then.
CloseOnSuccess(p) ==
    IF p.waited /\ modal.form = p.form
    THEN /\ modal' = Closed
         /\ lost' = (lost \/ (modal.typed /\ modal.draft # p.value /\ ~modal.late))
    ELSE UNCHANGED <<modal, lost>>

\* MUTANT of Delivered: a form sends the whole row it was opened on.
DeliveredWhole(p) ==
    /\ put' = put \ {p} /\ record' = [row EXCEPT ![p.form] = p.value]
    /\ CloseOnSuccess(p)
    /\ UNCHANGED <<row, upsets, theirs, mine>>

Delivered(p) ==
    /\ put' = put \ {p} /\ record' = [record EXCEPT ![p.form] = p.value]
    /\ CloseOnSuccess(p)
    /\ UNCHANGED <<row, upsets, theirs, mine>>

\* Refused, or only its answer is lost.
Failed(p) ==
    /\ Upset /\ put' = put \ {p}
    /\ record' \in {record, [record EXCEPT ![p.form] = p.value]}
    /\ modal' = IF p.waited /\ modal.form = p.form
                THEN [modal EXCEPT !.error = p.form] ELSE modal
    /\ UNCHANGED <<row, theirs, mine, lost>>

\* The page is left and opened again: the requests go on, nobody waits for them.
Leave ==
    /\ modal # Closed \/ \E p \in put : p.waited
    /\ modal' = Closed /\ put' = Unwaited
    /\ UNCHANGED <<record, row, upsets, theirs, mine, lost>>

Next ==
    \/ Refetch \/ Close \/ Save \/ Leave
    \/ \E v \in Typed : Type(v)
    \/ \E f \in Forms : EditElsewhere(f) \/ Open(f)
    \/ \E p \in put : Delivered(p) \/ Failed(p)

Spec == Init /\ [][Next]_vars
-----------------------------------------------------------------------------
\* An edit made on another desktop is lost only to a save of that same form: the
\* other forms, opened before it, leave it alone.
EditsOfOthersSurvive == \A f \in theirs \ mine : record[f] = "theirs"

\* What was typed into a form is thrown away by a save that ends only if a save of
\* that same form was under way when it was typed: the inputs stay enabled then, and
\* a success closes the form whatever stands in it.
TypedTextSurvives == ~lost

\* The error a form shows is of a save of that form, not of another one that used
\* the same mutation.
ErrorIsOwn == modal.error \in {Nothing, modal.form}
=============================================================================
