----------------------------- MODULE DomainList -----------------------------
(***************************************************************************)
(* The page of all domains: the rows left by the filters, the selection,   *)
(* and the binding of the selected ones to a server.  Their deletion is in *)
(* DomainDelete.                                                           *)
(***************************************************************************)
EXTENDS Naturals, FiniteSets

CONSTANTS
    Domains,     \* identifiers
    MaxUpsets    \* bound: edits made elsewhere and answers that fail

\* Where a domain is bound: a server, none; or there is no such domain.
Servers  == {"one", "two"}
Bindings == Servers \union {"free", "absent"}
NoAsk    == [on |-> {}, to |-> "none", told |-> {}]

VARIABLES
    record,      \* the domains
    row,         \* the same as the page has read them
    filter,      \* a server, or "all"
    focus,       \* the domain the page was opened for, as a set
    sel,         \* the selected ones
    dialog,      \* the dialog that assigns a server is open
    ask,         \* its question on the screen, with what was said in it
    assign,      \* the POST that binds
    upsets,
    blind,       \* domains the question could not speak of, or edited after it
    carried,     \* domains carried away from another server without a word
    narrowed     \* rows have gone out of sight since the selection was made

screen == <<filter, focus, sel, dialog, ask>>
vars   == <<record, row, screen, assign, upsets, blind, carried, narrowed>>

TypeOK ==
    /\ \A d \in Domains : {record[d], row[d]} \subseteq Bindings
    /\ filter \in Servers \union {"all"} /\ focus \subseteq Domains /\ sel \subseteq Domains
    /\ ask.told \subseteq ask.on /\ assign.on \union blind \union carried \subseteq Domains
    /\ {dialog, narrowed} \subseteq BOOLEAN /\ upsets \in 0..MaxUpsets

Init ==
    /\ record \in [Domains -> Bindings \ {"absent"}] /\ row = record
    /\ filter = "all" /\ focus = {} /\ sel = {} /\ dialog = FALSE /\ ask = NoAsk
    /\ assign = NoAsk /\ upsets = 0 /\ blind = {} /\ carried = {} /\ narrowed = FALSE

Upset == upsets < MaxUpsets /\ upsets' = upsets + 1

Listed   == {d \in Domains : row[d] # "absent"}
Filtered == {d \in Listed : filter \in {"all", row[d]} /\ (focus = {} \/ d \in focus)}
Hidden   == (sel \intersect Listed) \ Filtered
Narrow   == narrowed' = (narrowed \/ Hidden' # {})

(***************************************************************************)
(* Rows, filters and selection.                                            *)
(***************************************************************************)
Refetch ==
    /\ row # record /\ row' = record
    /\ UNCHANGED <<record, screen, assign, upsets, blind, carried>> /\ Narrow

EditElsewhere(d, b) ==
    /\ Upset /\ record[d] # "absent" /\ b # record[d]
    /\ record' = [record EXCEPT ![d] = b] /\ blind' = blind \union {d}
    /\ UNCHANGED <<row, screen, assign, carried, narrowed>>

Free == ask = NoAsk /\ ~dialog

Filter(f) ==
    /\ Free /\ filter # f /\ filter' = f
    /\ UNCHANGED <<record, row, focus, sel, dialog, ask, assign, upsets, blind, carried>>
    /\ Narrow

\* The page is opened for one domain; nothing takes that back.
Focus(d) ==
    /\ Free /\ focus = {} /\ focus' = {d}
    /\ UNCHANGED <<record, row, filter, sel, dialog, ask, assign, upsets, blind, carried>>
    /\ Narrow

Select(s) ==
    /\ Free /\ sel' = s /\ narrowed' = (narrowed /\ s # {})
    /\ UNCHANGED <<record, row, filter, focus, dialog, ask, assign, upsets, blind, carried>>

Toggle(d) == d \in Filtered /\ Select(IF d \in sel THEN sel \ {d} ELSE sel \union {d})

\* The box in the head of the table compares the two sizes.
ToggleAll == Select(IF Cardinality(sel) = Cardinality(Filtered) THEN {} ELSE Filtered)

(***************************************************************************)
(* Binding the selected ones to a server.  The answer clears the selection *)
(* as it is by then.                                                       *)
(***************************************************************************)
Dialog(open) ==
    /\ ask = NoAsk /\ dialog = ~open /\ sel # {} /\ dialog' = open
    /\ UNCHANGED <<record, row, filter, focus, sel, ask, assign, upsets, blind, carried, narrowed>>

Moving(t) == {d \in sel : row[d] \in Servers \ {t}}

AskAssign(t) ==
    /\ ask = NoAsk /\ dialog /\ assign = NoAsk /\ sel # {}
    /\ ask' = [on |-> sel, to |-> t, told |-> Moving(t)]
    /\ blind' = {d \in Domains : row[d] # record[d]}
    /\ UNCHANGED <<record, row, filter, focus, sel, dialog, assign, upsets, carried, narrowed>>

Answer(yes) ==
    /\ ask # NoAsk /\ ask' = NoAsk /\ assign' = (IF yes THEN ask ELSE assign)
    /\ UNCHANGED <<record, row, filter, focus, sel, dialog, upsets, blind, carried, narrowed>>

\* bulk_assign_server touches the domains that are still there.
Assigned ==
    LET there == {d \in assign.on : record[d] # "absent"} IN
    /\ assign # NoAsk /\ assign' = NoAsk
    /\ \/ /\ record' = [d \in Domains |-> IF d \in there THEN assign.to ELSE record[d]]
          /\ carried' = carried \union
                        ({d \in there \ assign.told : record[d] \in Servers \ {assign.to}} \ blind)
          /\ sel' = {} /\ dialog' = FALSE /\ narrowed' = FALSE /\ UNCHANGED upsets
       \/ Upset /\ UNCHANGED <<record, carried, sel, dialog, narrowed>>
    /\ UNCHANGED <<row, filter, focus, ask, blind>>

Next ==
    \/ Refetch \/ ToggleAll \/ Assigned
    \/ \E f \in Servers \union {"all"} : Filter(f)
    \/ \E t \in Servers : AskAssign(t)
    \/ \E yes \in BOOLEAN : Dialog(yes) \/ Answer(yes)
    \/ \E d \in Domains : Focus(d) \/ Toggle(d)
    \/ \E d \in Domains, b \in Bindings : EditElsewhere(d, b)

Spec == Init /\ [][Next]_vars
-----------------------------------------------------------------------------
\* No domain is carried over from another server without the question having
\* counted it, unless the page had not read it by then or it was edited after.
MoveIsAnnounced == carried = {}

\* A selected row that is out of sight was put there by a filter or by new data.
HiddenHaveACause == Hidden # {} => narrowed
=============================================================================
