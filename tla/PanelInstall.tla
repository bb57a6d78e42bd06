---------------------------- MODULE PanelInstall ----------------------------
(***************************************************************************)
(* FastPanel on one server: installed by the button of its page or by a    *)
(* deep link, or connected when it is there already.  A panel is named by  *)
(* the number of its password: 1 if it was there before, more if a run of  *)
(* the installer made it.                                                  *)
(***************************************************************************)
EXTENDS Naturals, Sequences, FiniteSets

CONSTANTS
    MaxPanels,   \* bound: panels made
    MaxSaves,    \* bound: saves of Connect Existing under way
    MaxFaults    \* bound: steps that fail

Runs    == {"button", "link"}
NoPanel == 0
Panels  == 1..MaxPanels
MadeHere == 2..MaxPanels
States  == {"none", "installed", "connected"}   \* connected: with a password in the vault
Fates   == {"open", "shown", "failed", "gone"}

VARIABLES
    panel,       \* the panel the server has
    status,      \* fastpanel_status of the record, and whether it names a blob
    stored,      \* the panel whose password is in that blob
    cached, row, \* the status in the cache of the desktop, and on the page
    open,        \* the page of the server is open
    run,         \* the command, by who started it
    form,        \* Connect Existing: is it open, and the panel whose password is typed
    save,        \* its saves under way: each goes on when the form or the page is closed
    workspace, queue,
    fate,        \* what became of the password of a panel made here
    faults,
    blind,       \* an install or a connection was begun beside another, or on an
                 \* old status
    replaced     \* a panel that was recorded has been replaced

screen == <<row, open, form, save, workspace, queue>>
vars   == <<panel, status, stored, cached, screen, run, fate, faults, blind, replaced>>

NoRun  == [pc |-> "no", made |-> NoPanel, heard |-> TRUE]
NoForm == [open |-> FALSE, typed |-> NoPanel]
Active(r) == run[r].pc \notin {"no", "confirm"}

TypeOK ==
    /\ {panel, stored, form.typed} \subseteq Panels \union {NoPanel}
    /\ {status, cached, row} \subseteq States
    /\ \A r \in Runs :
          /\ run[r].pc \in {"no", "confirm", "pull", "check", "steps", "back", "deliver"}
          /\ run[r].heard \in BOOLEAN
    /\ save \subseteq [pc : {"blob", "record"}, typed : Panels, over : BOOLEAN, live : BOOLEAN]
    /\ queue \in Seq(Panels) /\ fate \in [Panels -> Fates] /\ faults \in 0..MaxFaults

Init ==
    /\ panel \in {NoPanel, 1} /\ status = "none" /\ stored = NoPanel
    /\ cached = "none" /\ row = "none" /\ open = FALSE
    /\ run = [r \in Runs |-> NoRun] /\ form = NoForm /\ save = {}
    /\ workspace = TRUE /\ queue = <<>> /\ fate = [p \in Panels |-> "open"]
    /\ faults = 0 /\ blind = FALSE /\ replaced = FALSE

Fault == faults < MaxFaults /\ faults' = faults + 1
Fine  == UNCHANGED faults
Step(r, j) == run' = [run EXCEPT ![r] = j]

(***************************************************************************)
(* Starting.  The button is off while its own installation is on, whoever  *)
(* has come back to the page; a link asks, and knows no gate.              *)
(***************************************************************************)
Beside(r) == save # {} \/ \E q \in Runs \ {r} : Active(q)

Begin(r) ==
    /\ Step(r, [NoRun EXCEPT !.pc = "pull"])
    /\ blind' = (blind \/ Beside(r))
    /\ UNCHANGED <<panel, status, stored, cached, screen, fate, faults, replaced>>

Install ==
    /\ workspace /\ open /\ row = "none" /\ run["button"].pc = "no" /\ ~form.open
    /\ Begin("button")

FollowLink ==
    /\ workspace /\ run["link"].pc = "no" /\ Step("link", [NoRun EXCEPT !.pc = "confirm"])
    /\ UNCHANGED <<panel, status, stored, cached, screen, fate, faults, blind, replaced>>

Decline ==
    /\ run["link"].pc = "confirm" /\ Step("link", NoRun)
    /\ UNCHANGED <<panel, status, stored, cached, screen, fate, faults, blind, replaced>>

Confirm == run["link"].pc = "confirm" /\ Begin("link")

(***************************************************************************)
(* install_fastpanel.                                                      *)
(***************************************************************************)
\* A pull that fails is not fatal: the command goes on with the cache it has.
Pull(r) ==
    /\ run[r].pc = "pull" /\ Step(r, [run[r] EXCEPT !.pc = "check"])
    /\ \/ cached' = status /\ Fine
       \/ Fault /\ UNCHANGED cached
    /\ UNCHANGED <<panel, status, stored, screen, fate, blind, replaced>>

ReadsOld == cached = "none" /\ status # "none"

\* MUTANT of Check: the command does not look whether there is a panel already.
CheckNothing(r) ==
    /\ run[r].pc = "check" /\ Step(r, [run[r] EXCEPT !.pc = "steps"])
    /\ blind' = (blind \/ ReadsOld \/ Beside(r))
    /\ UNCHANGED <<panel, status, stored, cached, screen, fate, faults, replaced>>

Check(r) ==
    /\ run[r].pc = "check"
    /\ Step(r, IF cached = "none" THEN [run[r] EXCEPT !.pc = "steps"] ELSE NoRun)
    /\ blind' = (blind \/ ReadsOld \/ Beside(r))
    /\ UNCHANGED <<panel, status, stored, cached, screen, fate, faults, replaced>>

NewPanel ==
    /\ panel < MaxPanels /\ replaced' = (replaced \/ status # "none")
    /\ panel' = IF panel = NoPanel THEN 2 ELSE panel + 1

\* The installer: a new panel, and its password if it can be found in the output.
Installed(r) ==
    /\ run[r].pc = "steps" /\ NewPanel
    /\ \/ Step(r, [run[r] EXCEPT !.pc = "back", !.made = panel']) /\ Fine /\ UNCHANGED fate
       \/ /\ Step(r, [run[r] EXCEPT !.pc = "back"]) /\ Fault
          /\ fate' = [fate EXCEPT ![panel'] = "failed"]
    /\ UNCHANGED <<status, stored, cached, screen, blind>>

\* A step fails or is not waited for: the server may have a new panel all the same.
StepsFailed(r) ==
    /\ run[r].pc = "steps" /\ Fault /\ Step(r, NoRun)
    /\ \/ NewPanel /\ fate' = [fate EXCEPT ![panel'] = "failed"]
       \/ UNCHANGED <<panel, replaced, fate>>
    /\ UNCHANGED <<status, stored, cached, screen, blind>>

WriteBack(r) ==
    /\ run[r].pc = "back" /\ Step(r, [run[r] EXCEPT !.pc = "deliver"])
    /\ \/ status' = (IF status = "none" THEN "installed" ELSE status) /\ Fine
       \/ Fault /\ UNCHANGED status
    /\ UNCHANGED <<panel, stored, cached, screen, fate, blind, replaced>>

\* onCreds, from inside the mutation: the page may be gone, the workspace must not.
Deliver(r) ==
    /\ run[r].pc = "deliver" /\ Step(r, NoRun)
    /\ LET made == run[r].made IN
       IF made = NoPanel THEN UNCHANGED <<queue, fate>>
       ELSE IF run[r].heard THEN queue' = Append(queue, made) /\ UNCHANGED fate
       ELSE fate' = [fate EXCEPT ![made] = "gone"] /\ UNCHANGED queue
    /\ UNCHANGED <<panel, status, stored, cached, row, open, form, save, workspace>>
    /\ UNCHANGED <<faults, blind, replaced>>

(***************************************************************************)
(* The page and the workspace.                                             *)
(***************************************************************************)
\* A save goes on without the page it was begun on.
Unwatched == {[s EXCEPT !.live = FALSE] : s \in save}

Turn ==
    /\ workspace /\ open' = ~open /\ form' = NoForm /\ save' = Unwatched
    /\ UNCHANGED <<row, workspace, queue, fate>>

Refetch == row # status /\ row' = status
           /\ UNCHANGED <<open, form, save, workspace, queue, fate>>

Dismiss == /\ queue # <<>> /\ queue' = Tail(queue)
           /\ fate' = [fate EXCEPT ![Head(queue)] = "shown"]
           /\ UNCHANGED <<row, open, form, save, workspace>>

\* The user signs out, or locks the desktop: both unmount the workspace.  The queue is
\* gone, and nobody is listening any more to a run begun before.
Unmount ==
    /\ workspace /\ workspace' = FALSE /\ open' = FALSE /\ UNCHANGED row
    /\ form' = NoForm /\ save' = Unwatched /\ queue' = <<>>
    /\ fate' = [p \in Panels |-> IF \E i \in DOMAIN queue : queue[i] = p THEN "gone" ELSE fate[p]]
    /\ run' = [r \in Runs |-> IF run[r].pc = "confirm" THEN NoRun ELSE [run[r] EXCEPT !.heard = FALSE]]
    /\ UNCHANGED <<panel, status, stored, cached, faults, blind, replaced>>

Return == ~workspace /\ workspace' = TRUE /\ UNCHANGED <<row, open, form, save, queue, fate>>

(***************************************************************************)
(* Connect Existing.                                                       *)
(***************************************************************************)
OpenConnect ==
    /\ open /\ row = "none" /\ run["button"].pc = "no" /\ ~form.open
    /\ form' = [NoForm EXCEPT !.open = TRUE]
    /\ UNCHANGED <<row, open, save, workspace, queue, fate>>

\* By the cross or the overlay, at any moment: only Cancel waits for a save.
CloseConnect == /\ form.open /\ form' = NoForm
                /\ UNCHANGED <<row, open, save, workspace, queue, fate>>

\* The password of the panel there is; the form demands one.
TypePassword ==
    /\ form.open /\ panel # NoPanel /\ form' = [form EXCEPT !.typed = panel]
    /\ UNCHANGED <<row, open, save, workspace, queue, fate>>

SaveConnect ==
    /\ form.open /\ form.typed # NoPanel /\ Cardinality(save) < MaxSaves
    /\ ~\E s \in save : s.live
    /\ save' = save \union {[pc |-> "blob", typed |-> form.typed, over |-> row = "connected",
                             live |-> TRUE]}
    /\ blind' = (blind \/ form.typed # panel \/ \E r \in Runs : Active(r))
    /\ UNCHANGED <<row, open, form, workspace, queue, fate>>

Screen ==
    /\ UNCHANGED <<panel, status, stored, cached, run, faults, replaced>>
    /\ \/ (Turn \/ Refetch \/ Dismiss \/ Return \/ OpenConnect \/ CloseConnect \/ TypePassword)
          /\ UNCHANGED blind
       \/ SaveConnect

\* The blob is written first, into the one the page had read if there was one.
PutBlob(s) ==
    /\ s.pc = "blob"
    /\ \/ /\ save' = (save \ {s}) \union {[s EXCEPT !.pc = "record"]} /\ Fine
          /\ stored' = IF s.over THEN s.typed ELSE stored
       \/ Fault /\ save' = save \ {s} /\ UNCHANGED stored
    /\ UNCHANGED <<panel, status, cached, run, row, open, form, workspace, queue, fate, blind>>
    /\ UNCHANGED replaced

\* It closes the form of its page; when it fails the answer alone may be lost.
PersistConnect(s) ==
    /\ s.pc = "record" /\ save' = save \ {s}
    /\ \/ Fine /\ form' = (IF s.live THEN NoForm ELSE form)
       \/ Fault /\ UNCHANGED form
    /\ \/ status' = "connected" /\ stored' = s.typed
       \/ faults' # faults /\ UNCHANGED <<status, stored>>
    /\ UNCHANGED <<panel, cached, run, row, open, workspace, queue, fate, blind, replaced>>

Next ==
    \/ Install \/ FollowLink \/ Decline \/ Confirm \/ Screen \/ Unmount
    \/ \E s \in save : PutBlob(s) \/ PersistConnect(s)
    \/ \E r \in Runs : Pull(r) \/ Check(r) \/ Installed(r) \/ StepsFailed(r) \/ WriteBack(r) \/ Deliver(r)

Spec == Init /\ [][Next]_vars
-----------------------------------------------------------------------------
\* A panel the record knows of is not installed over, whatever steps fail, unless two
\* things were begun side by side, which only a link or a password typed before
\* allows, or a run started from a record older than the one there is.
PanelIsNotReplaced == replaced => blind

\* The password in the vault opens the panel of the server, with the same excuse.
PasswordFits == stored # NoPanel => stored = panel \/ blind

InFlight(p) == \E r \in Runs : run[r].made = p

\* The password of a panel made here is on its way, on the screen or dismissed, though
\* the page be left and other steps fail, unless its own installer did not give it
\* or the workspace was unmounted before it was dismissed: a lock does that too,
\* although servers.ts:364-369 relies on a workspace that is always mounted.
CredsAreShown ==
    \A p \in MadeHere :
       p <= panel /\ fate[p] = "open" => InFlight(p) \/ \E i \in DOMAIN queue : queue[i] = p
=============================================================================
