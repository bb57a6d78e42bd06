---------------------------- MODULE DomainServer ----------------------------
(***************************************************************************)
(* The server of one domain that has one: the facts recorded of the site   *)
(* on it, the read that records them, the log files shown of it.  A change *)
(* of the server moves the record and not the site, so the facts are       *)
(* forgotten.                                                              *)
(***************************************************************************)
EXTENDS Naturals, FiniteSets

CONSTANT MaxUpsets    \* bound: steps that fail

NoMachine == 0
Machines == {1, 2}
Files    == {"access", "error"}
Nothing  == {}

VARIABLES
    record,      \* server_id, and the machine the facts are of
    row,         \* the same as the page has read it
    cache,       \* the same as the desktop has pulled it
    put,         \* a change of server on its way
    read,        \* the machine domain_read_facts is at, its gate with it
    tab, chip,   \* the tab Logs or another one, and the log file selected there
    tail,        \* reads of log files on their way: [file, host, here]
    result,      \* what useReadLogTail keeps
    upsets,
    astray       \* what a move may have left at another machine: "read" (under
                 \* way), "facts" (recorded by it), "lines" (of the tab that is open)

store  == <<record, cache, put>>
logs   == <<chip, tail, result>>
vars   == <<store, row, read, tab, logs, upsets, astray>>

Idle     == [pc |-> "no", host |-> NoMachine]
NoLines  == [file |-> "none", from |-> NoMachine]
NoResult == [path |-> "none", lines |-> NoLines]
Blank(s) == [server |-> s, facts |-> NoMachine]

TypeOK ==
    /\ \A r \in {record, row, cache} :
          r.server \in Machines /\ r.facts \in Machines \union {NoMachine}
    /\ put \subseteq Machines /\ tab \in {"card", "logs"}
    /\ read.pc \in {"no", "pull", "ssh"}
    /\ astray \subseteq {"read", "facts", "lines"}
    /\ chip \in Files /\ {t.file : t \in tail} \subseteq Files /\ upsets \in 0..MaxUpsets

Init ==
    /\ record = Blank(1)
    /\ row = record /\ cache = record /\ put = Nothing
    /\ read = Idle /\ tab = "card"
    /\ chip = "access" /\ tail = {} /\ result = NoResult
    /\ upsets = 0 /\ astray = {}

Upset == upsets < MaxUpsets /\ upsets' = upsets + 1

(***************************************************************************)
(* The tabs of the card, closed or open: one that is left forgets what it   *)
(* showed.                                                                 *)
(***************************************************************************)
Show(t) ==
    /\ t # tab /\ tab' = t /\ chip' = "access" /\ result' = NoResult
    /\ tail' = {[file |-> r.file, host |-> NoMachine, here |-> FALSE] : r \in tail}
    /\ astray' = astray \ {"lines"}
    /\ UNCHANGED <<store, row, read, upsets>>

Refetch ==
    /\ row # record /\ row' = record
    /\ UNCHANGED <<store, read, tab, logs, upsets, astray>>

(***************************************************************************)
(* A new server: update of the domain, _FORGOTTEN_ON_MOVE with it.  A move  *)
(* made elsewhere is as one of this card that takes its time.              *)
(***************************************************************************)
Move(s) ==
    /\ record' = (IF s = record.server THEN record ELSE Blank(s))
    /\ astray' = (IF s = record.server THEN astray
                  ELSE (astray \ {"facts"})
                       \union (IF read.pc = "ssh" THEN {"read"} ELSE {})
                       \union (IF tab = "logs" THEN {"lines"} ELSE {}))

PickServer(s) ==
    /\ tab = "card" /\ put = Nothing /\ s # row.server /\ put' = {s}
    /\ UNCHANGED <<record, cache, row, read, tab, logs, upsets, astray>>

DeliverPick ==
    \E s \in put :
       /\ put' = Nothing /\ UNCHANGED <<cache, row, read, tab, logs>>
       /\ \/ Move(s) /\ UNCHANGED upsets
          \/ Upset /\ UNCHANGED <<record, astray>>

(***************************************************************************)
(* The read resolves the server from the cache, works there for a while,   *)
(* and writes to the domain, whatever server that has by then.             *)
(***************************************************************************)
Offered == tab = "card" \/ (tab = "logs" /\ row.facts = NoMachine)

StartRead ==
    /\ Offered /\ read.pc = "no" /\ read' = [read EXCEPT !.pc = "pull"]
    /\ UNCHANGED <<store, row, tab, logs, upsets, astray>>

Resolve ==
    /\ read.pc = "pull"
    /\ \/ cache' = record /\ UNCHANGED upsets
       \/ Upset /\ UNCHANGED cache
    /\ read' = [pc |-> "ssh", host |-> cache'.server]
    /\ astray' = (IF cache'.server # record.server THEN astray \union {"read"} ELSE astray)
    /\ UNCHANGED <<record, put, row, tab, logs>>

\* A failed read records its error and leaves the facts as they are.
FinishRead ==
    /\ read.pc = "ssh" /\ read' = Idle
    /\ \/ /\ record' = [record EXCEPT !.facts = read.host] /\ UNCHANGED upsets
          /\ astray' = (IF "read" \in astray THEN (astray \ {"read"}) \union {"facts"}
                        ELSE astray \ {"facts"})
       \/ Upset /\ UNCHANGED record /\ astray' = astray \ {"read"}
    /\ UNCHANGED <<put, cache, row, tab, logs>>

(***************************************************************************)
(* The log files are those of the facts; their lines live in the tab.      *)
(***************************************************************************)
Chips == IF row.facts = NoMachine THEN {} ELSE Files

SelectChip(f) ==
    /\ tab = "logs" /\ f \in Chips \ {chip} /\ chip' = f
    /\ UNCHANGED <<store, row, read, tab, tail, result, upsets, astray>>

\* The result of useReadLogTail: lines stay under an error of the same file.
Fail(f, r) == [path |-> f, lines |-> IF r.path = f THEN r.lines ELSE NoLines]

\* The path must be in the facts of the cache, which is not pulled for this.
ReadTail ==
    /\ tab = "logs" /\ chip \in Chips /\ \A r \in tail : r.file # chip
    /\ IF cache.facts = NoMachine
       THEN result' = Fail(chip, result) /\ UNCHANGED <<tail, astray>>
       ELSE /\ tail' = tail \union {[file |-> chip, host |-> cache.server, here |-> TRUE]}
            /\ astray' = (IF cache.server # record.server THEN astray \union {"lines"} ELSE astray)
            /\ UNCHANGED result
    /\ UNCHANGED <<store, row, read, tab, chip, upsets>>

\* A read that fails fares as one that is refused, above.
TailRead(r) ==
    /\ tail' = tail \ {r}
    /\ \/ result' = IF r.here
                    THEN [path |-> r.file, lines |-> [file |-> r.file, from |-> r.host]] ELSE result
       \/ r.here /\ result' = Fail(r.file, result)
    /\ UNCHANGED <<store, row, read, tab, chip, upsets, astray>>

\* What the tab shows: only a result that was got for the file selected.
Lines == IF result.path = chip /\ chip \in Chips THEN result.lines ELSE NoLines

Next ==
    \/ Refetch \/ DeliverPick \/ StartRead \/ Resolve \/ FinishRead \/ ReadTail
    \/ \E t \in {"card", "logs"} : Show(t)
    \/ \E s \in Machines : PickServer(s)
    \/ \E f \in Files : SelectChip(f)
    \/ \E r \in tail : TailRead(r)

Spec == Init /\ [][Next]_vars
-----------------------------------------------------------------------------
\* The facts recorded of the site are of the machine the domain is on, unless the
\* read that wrote them was there when the domain was moved, or began at an old
\* server because the pull before it failed: domain_service.py:296-299 speaks as if
\* no move could leave the facts of the old machine, and apply_facts does not look.
FactsAreOfTheMachine ==
    record.facts # NoMachine /\ "facts" \notin astray => record.facts = record.server

\* The lines on the screen are of the file selected, though another was when they
\* were asked for; and of the machine of the domain, unless it was moved with the
\* tab open or lines were asked for there before the cache had heard of the move.
LinesAreOfTheFile ==
    Lines # NoLines =>
       /\ Lines.file = chip
       /\ "lines" \notin astray => Lines.from = record.server
=============================================================================
