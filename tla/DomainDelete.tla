---------------------------- MODULE DomainDelete ----------------------------
(***************************************************************************)
(* Deleting domains from the page that lists them: those selected, with a  *)
(* request for each, or the one of a row.                                  *)
(***************************************************************************)
EXTENDS Naturals, FiniteSets

CONSTANTS
    Domains,     \* identifiers
    MaxUpsets    \* bound: deletions made elsewhere and answers that fail

Batches == {1, 2}        \* bound: deletions of the selected ones under way
NoBatch == [left |-> {}, failed |-> FALSE]

VARIABLES
    there,       \* the domains there are
    listed,      \* the same as the page has read them
    sel,         \* the selected ones
    ask,         \* the question on the screen: these domains
    single,      \* it is, and they are, deletions asked in a row
    batch,       \* the deletions of the selected ones
    upsets,
    strays       \* gone by something that leaves the selection alone, or marked too late

vars == <<there, listed, sel, ask, single, batch, upsets, strays>>

TypeOK ==
    /\ there \union listed \union sel \union strays \subseteq Domains
    /\ ask.on \union single \union UNION {batch[b].left : b \in Batches} \subseteq Domains
    /\ ask.row \in BOOLEAN /\ upsets \in 0..MaxUpsets

NoAsk == [on |-> {}, row |-> FALSE]

Init ==
    /\ there = Domains /\ listed = Domains /\ sel = {} /\ ask = NoAsk /\ single = {}
    /\ batch = [b \in Batches |-> NoBatch] /\ upsets = 0 /\ strays = {}

Upset == upsets < MaxUpsets /\ upsets' = upsets + 1

Refetch ==
    /\ listed # there /\ listed' = there
    /\ UNCHANGED <<there, sel, ask, single, batch, upsets, strays>>

DeletedElsewhere(d) ==
    /\ Upset /\ d \in there /\ there' = there \ {d} /\ strays' = strays \union {d}
    /\ UNCHANGED <<listed, sel, ask, single, batch>>

\* Only a row that is shown can be marked; the box in the head marks them all.
Mark(s) ==
    /\ ask = NoAsk /\ sel' = s /\ strays' = strays \union (s \ there)
    /\ UNCHANGED <<there, listed, ask, single, batch, upsets>>

Toggle(d) == d \in listed /\ Mark(IF d \in sel THEN sel \ {d} ELSE sel \union {d})
ToggleAll == Mark(IF Cardinality(sel) = Cardinality(listed) THEN {} ELSE listed)

(***************************************************************************)
(* The question, and the requests.  handleBulkDelete clears the selection  *)
(* when all of its requests have succeeded; the deletion of a row leaves   *)
(* it as it is.                                                            *)
(***************************************************************************)
Ask(s, r) ==
    /\ ask = NoAsk /\ s # {} /\ ask' = [on |-> s, row |-> r]
    /\ UNCHANGED <<there, listed, sel, single, batch, upsets, strays>>

AskSelected == Ask(sel, FALSE)
AskRow(d)   == d \in listed /\ Ask({d}, TRUE)

Decline ==
    /\ ask # NoAsk /\ ask' = NoAsk
    /\ UNCHANGED <<there, listed, sel, single, batch, upsets, strays>>

ConfirmRow ==
    /\ ask # NoAsk /\ ask.row /\ ask' = NoAsk /\ single' = single \union ask.on
    /\ UNCHANGED <<there, listed, sel, batch, upsets, strays>>

FreeBatch(b) == batch[b] = NoBatch /\ \A c \in 1..(b - 1) : batch[c] # NoBatch

ConfirmSelected ==
    /\ ask # NoAsk /\ ~ask.row /\ ask' = NoAsk
    /\ \E b \in Batches :
          FreeBatch(b) /\ batch' = [batch EXCEPT ![b].left = ask.on]
    /\ UNCHANGED <<there, listed, sel, single, upsets, strays>>

\* A domain that is not there is a 404; an answer that is lost leaves it deleted.
Request(d, ok) ==
    \/ ok /\ d \in there /\ there' = there \ {d} /\ UNCHANGED upsets
    \/ ~ok /\ d \notin there /\ UNCHANGED <<there, upsets>>
    \/ ~ok /\ Upset /\ there' \in {there, there \ {d}}

Done(b, d, ok) ==
    LET rest == [left |-> batch[b].left \ {d}, failed |-> batch[b].failed \/ ~ok]
        over == rest.left = {} IN
    /\ d \in batch[b].left /\ Request(d, ok)
    /\ batch' = [batch EXCEPT ![b] = IF over THEN NoBatch ELSE rest]
    /\ sel' = (IF over /\ ~rest.failed THEN {} ELSE sel)
    /\ strays' = (IF rest.failed THEN strays \union (Domains \ there') ELSE strays)
    /\ UNCHANGED <<listed, ask, single>>

DoneRow(d, ok) ==
    /\ d \in single /\ single' = single \ {d} /\ Request(d, ok)
    /\ strays' = strays \union {d}
    /\ UNCHANGED <<listed, sel, ask, batch>>

Next ==
    \/ Refetch \/ ToggleAll \/ AskSelected \/ Decline \/ ConfirmRow \/ ConfirmSelected
    \/ \E d \in Domains : DeletedElsewhere(d) \/ Toggle(d) \/ AskRow(d)
    \/ \E d \in Domains, ok \in BOOLEAN : DoneRow(d, ok) \/ \E b \in Batches : Done(b, d, ok)

Spec == Init /\ [][Next]_vars
-----------------------------------------------------------------------------
Deleting == UNION {batch[b].left : b \in Batches}

\* A domain that is gone stays counted in "N selected" only while a deletion of the
\* selected ones is under way, when one of its requests failed, when the domain was
\* deleted in its row or elsewhere, or when it was marked in a list out of date.
GhostsHaveACause == Deleting = {} => sel \ there \subseteq strays
=============================================================================
