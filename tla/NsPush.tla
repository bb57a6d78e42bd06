------------------------------ MODULE NsPush ------------------------------
(***************************************************************************)
(* Pushes of a domain's nameservers, from its card and from a full setup,  *)
(* and what the card says afterwards: DELEGATED or MISMATCH by the answer  *)
(* of the registry it keeps for five minutes, and "just sent". The         *)
(* registry of the top-level domain follows the registrar in its own time. *)
(***************************************************************************)
EXTENDS Naturals, Sequences

CONSTANTS
    MaxPushes,   \* bound: pushes
    MaxFaults    \* bound: refusals and lost answers

Lists == {"zone", "own"}      \* the nameservers of the bound zone, or others
From  == {"card", "setup"}

VARIABLES
    registrar,   \* the list the registrar was last given
    registry,    \* the list the registry of the top-level domain answers with
    pushes,      \* the pushes in the order they were started
    busy,        \* the push whose end the open card waits for, 0 if none
    run,         \* the push of the set-up run that is under way, 0 if none
    open,        \* the card is open
    answer,      \* the registry's answer in the cache, "unread" if none
    asking,      \* it is too old to be trusted, and will be asked for again
    flight,      \* the question on its way: "none", "asked", or what it was answered
    since,       \* what the registry has had since the cache was last made old
    justPushed,  \* lastPush holds a time that is not five minutes old
    noted,       \* the push noted last, 0 if none
    settled,     \* the last push to end, 0 if none
    faults

cache == <<answer, asking, flight, since>>
notes == <<justPushed, noted>>
world == <<registrar, registry>>
vars  == <<world, pushes, busy, run, open, cache, notes, settled, faults>>

TypeOK ==
    /\ {registrar, registry} \subseteq Lists /\ answer \in Lists \union {"unread"}
    /\ flight \in Lists \union {"none", "asked"} /\ since \subseteq Lists
    /\ pushes \in Seq([list : Lists, from : From, pc : {"sent", "applied", "ok", "error", "late", "overdue"}])
    /\ {busy, run, noted, settled} \subseteq 0..Len(pushes)
    /\ {asking, justPushed, open} \subseteq BOOLEAN

Init ==
    /\ registrar \in Lists /\ registry = registrar
    /\ pushes = <<>> /\ busy = 0 /\ run = 0 /\ open = FALSE
    /\ answer = "unread" /\ asking = FALSE /\ flight = "none" /\ since = {registry}
    /\ justPushed = FALSE /\ noted = 0 /\ settled = 0 /\ faults = 0

\* The pending state belongs to the card that is open: a card opened anew offers
\* the button again while the push of the one before is still on. It may find the
\* registry's answer older than five minutes.
OpenCard ==
    /\ ~open /\ open' = TRUE
    /\ asking' \in {asking, answer # "unread"}
    /\ UNCHANGED <<world, pushes, busy, run, answer, flight, since, notes, settled, faults>>

CloseCard == open /\ open' = FALSE /\ busy' = 0
             /\ UNCHANGED <<world, pushes, run, cache, notes, settled, faults>>

Start(l, f) ==
    /\ Len(pushes) < MaxPushes
    /\ pushes' = Append(pushes, [list |-> l, from |-> f, pc |-> "sent"])
    /\ UNCHANGED <<world, open, cache, notes, settled, faults>>

SetNameservers(l) ==
    open /\ busy = 0 /\ Start(l, "card") /\ busy' = Len(pushes) + 1 /\ UNCHANGED run

\* One bulk run at a time (runExclusive).
SetupPush == run = 0 /\ Start("zone", "setup") /\ run' = Len(pushes) + 1 /\ UNCHANGED busy

Apply(i) ==
    /\ pushes[i].pc \in {"sent", "late"}
    /\ pushes' = [pushes EXCEPT ![i].pc = IF @ = "sent" THEN "applied" ELSE "overdue"]
    /\ registrar' = pushes[i].list
    /\ UNCHANGED <<registry, busy, run, open, cache, notes, settled, faults>>

\* The registry learns of what the registrar has, 20 seconds to hours later.
Propagate ==
    /\ registry # registrar /\ registry' = registrar
    /\ since' = since \union {registrar}
    /\ UNCHANGED <<registrar, pushes, busy, run, open, answer, asking, flight, notes, settled, faults>>

Fault == faults < MaxFaults /\ faults' = faults + 1

\* One call for both consequences of a push, applied or refused. A question already
\* on its way is asked anew only under an open card that has an answer to show:
\* any other is left to arrive, and counts as new.
NoteNsPush(i, applied) ==
    LET left == flight # "none" /\ (answer = "unread" \/ ~open) IN
    /\ justPushed' = applied /\ noted' = i
    /\ asking' = (answer # "unread")
    /\ flight' = IF left \/ flight = "none" THEN flight ELSE "asked"
    /\ since' = IF left THEN since ELSE {registry}

\* A failure is a refusal, a lost answer, or a timeout after which the registrar
\* may still apply what it was sent. The card notes the end at once.
Settle(i, end) ==
    /\ CASE end = "ok"    -> pushes[i].pc = "applied" /\ UNCHANGED faults
         [] end = "error" -> pushes[i].pc \in {"sent", "applied"} /\ Fault
         [] OTHER         -> pushes[i].pc = "sent" /\ Fault
    /\ pushes' = [pushes EXCEPT ![i].pc = end]
    /\ busy' = IF busy = i THEN 0 ELSE busy
    /\ settled' = i
    /\ IF pushes[i].from = "card"
         THEN NoteNsPush(i, end = "ok") ELSE UNCHANGED <<notes, asking, flight, since>>
    /\ UNCHANGED <<world, run, open, answer>>

\* The set-up run notes its pushes only when all of its domains are done.
EndRun ==
    /\ run # 0 /\ pushes[run].pc \notin {"sent", "applied"}
    /\ NoteNsPush(run, pushes[run].pc = "ok") /\ run' = 0
    /\ UNCHANGED <<world, pushes, busy, open, answer, settled, faults>>

AskRegistry ==
    /\ open /\ flight = "none" /\ (answer = "unread" \/ asking) /\ flight' = "asked"
    /\ UNCHANGED <<world, pushes, busy, run, open, answer, asking, since, notes, settled, faults>>

RegistryAnswers ==
    /\ flight = "asked" /\ flight' = registry
    /\ UNCHANGED <<world, pushes, busy, run, open, answer, asking, since, notes, settled, faults>>

\* The answer arrives, also after the card was closed; or the question failed.
ReadRegistry ==
    /\ flight \in Lists /\ answer' = flight /\ asking' = FALSE /\ flight' = "none"
    /\ UNCHANGED <<world, pushes, busy, run, open, since, notes, settled, faults>>

LoseAnswer ==
    /\ flight # "none" /\ flight' = "none" /\ Fault
    /\ UNCHANGED <<world, pushes, busy, run, open, answer, asking, since, notes, settled>>

\* Five minutes later.
Forget ==
    /\ justPushed /\ justPushed' = FALSE
    /\ UNCHANGED <<world, pushes, busy, run, open, cache, noted, settled, faults>>

Next ==
    \/ OpenCard \/ CloseCard \/ SetupPush \/ EndRun \/ Propagate \/ Forget
    \/ AskRegistry \/ RegistryAnswers \/ ReadRegistry \/ LoseAnswer
    \/ \E l \in Lists : SetNameservers(l)
    \/ \E i \in DOMAIN pushes : Apply(i) \/ \E end \in {"ok", "error", "late"} : Settle(i, end)

Spec == Init /\ [][Next]_vars
-----------------------------------------------------------------------------
\* An answer the card shows without asking again is one the registry has given
\* since the last push was noted. Left out: a question that was on its way then, and
\* was the first one or of a closed card (NoteNsPush lets it arrive and count).  What
\* the registry has now it need not be: the answer is kept while the registry follows,
\* so a MISMATCH may be an old one, which domains.ts:565-567 excludes.
DelegationIsCurrent == answer # "unread" /\ ~asking => answer \in since

\* "Just sent" is said only while the last push to end was accepted: one that was
\* refused takes back what an earlier one had left. Left out: a set-up run, whose
\* push is noted only at the end of the run, after what ended in the meantime, and
\* not "as soon as the outcome is known" (api/nsPush.ts:61).
JustSentIsTrue ==
    justPushed =>
        /\ noted # 0 /\ pushes[noted].pc = "ok"
        /\ noted = settled \/ settled = run \/ pushes[noted].from = "setup"
=============================================================================
