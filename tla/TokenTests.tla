----------------------------- MODULE TokenTests -----------------------------
(***************************************************************************)
(* The page of the Cloudflare accounts: the test of one account's token,   *)
(* asked on its card, and the run over all the cards the search has left.  *)
(* The two share the cards, the green of a card goes out after a while,    *)
(* and the summary of a run stays until the next action.                   *)
(***************************************************************************)
EXTENDS Naturals, FiniteSets

CONSTANTS
    CfAccounts,
    MaxTests     \* bound: tests asked on one card and not answered, and timers
                 \* let loose on it before a test begins

NoRun     == [on |-> FALSE, todo |-> {}, current |-> {}, failed |-> {}]
NoSummary == {"none"}

VARIABLES
    there,       \* the accounts
    visible,     \* the ones the search has left
    card,        \* what each card says of the last test
    timer,       \* the timer of resetTimers that is to put its green out
    loose,       \* timers of the account that resetTimers has lost
    byHand,      \* tests asked on each card, not answered
    run,         \* handleTestAll: still to test, under test, failed
    summary,     \* names that failed in the last complete run, or NoSummary
    doubled,     \* accounts tested twice at once since their card was idle
    retested     \* accounts the run found failed, then tested by hand while it was on

cards == <<card, timer, loose, byHand>>
vars  == <<there, visible, cards, run, summary, doubled, retested>>

TypeOK ==
    /\ there \subseteq CfAccounts /\ visible \subseteq CfAccounts
    /\ \A a \in CfAccounts : /\ card[a] \in {"idle", "loading", "success", "error"}
                           /\ timer[a] \in BOOLEAN /\ byHand[a] \in 0..MaxTests
                           /\ loose[a] \in Nat
    /\ run.todo \union run.current \union run.failed \subseteq CfAccounts
    /\ Cardinality(run.current) <= 1 /\ (run = NoRun <=> ~run.on)
    /\ summary = NoSummary \/ summary \subseteq CfAccounts

Fresh ==
    /\ card = [a \in CfAccounts |-> "idle"] /\ timer = [a \in CfAccounts |-> FALSE]
    /\ loose = [a \in CfAccounts |-> 0] /\ byHand = [a \in CfAccounts |-> 0]
    /\ run = NoRun /\ summary = NoSummary
    /\ doubled = {} /\ retested = {}

Init == there = CfAccounts /\ visible = CfAccounts /\ Fresh

InFlight(a) == byHand[a] > 0 \/ a \in run.current

(***************************************************************************)
(* runTest.  What it shows is the last answer to come.  The next test of    *)
(* the account clears the timer that is known, and a second green loses    *)
(* the one before it.  An answer may be good of an account deleted since.  *)
(***************************************************************************)
Double(a) ==
    doubled' = (IF InFlight(a) THEN doubled \union {a}
                ELSE IF loose[a] = 0 THEN doubled \ {a} ELSE doubled)

\* MUTANT of BeginTest: the timer of the answer before goes on.
BeginTestWithTimer(a) ==
    /\ loose[a] <= MaxTests
    /\ card' = [card EXCEPT ![a] = "loading"] /\ UNCHANGED <<timer, loose>> /\ Double(a)

BeginTest(a) ==
    /\ loose[a] <= MaxTests
    /\ card' = [card EXCEPT ![a] = "loading"] /\ timer' = [timer EXCEPT ![a] = FALSE]
    /\ UNCHANGED loose /\ Double(a)

EndTest(a, good) ==
    /\ card' = [card EXCEPT ![a] = IF good THEN "success" ELSE "error"]
    /\ timer' = [timer EXCEPT ![a] = good \/ timer[a]]
    /\ loose' = [loose EXCEPT ![a] = IF good /\ timer[a] THEN @ + 1 ELSE @]

Test(a) ==
    /\ a \in there \intersect visible /\ card[a] # "loading" /\ byHand[a] < MaxTests
    /\ BeginTest(a) /\ byHand' = [byHand EXCEPT ![a] = @ + 1] /\ summary' = NoSummary
    /\ retested' = (IF a \in run.failed THEN retested \union {a} ELSE retested)
    /\ UNCHANGED <<there, visible, run>>

Tested(a, good) ==
    /\ byHand[a] > 0 /\ EndTest(a, good) /\ byHand' = [byHand EXCEPT ![a] = @ - 1]
    /\ UNCHANGED <<there, visible, run, summary, doubled, retested>>

Fade(a) ==
    /\ \/ timer[a] /\ timer' = [timer EXCEPT ![a] = FALSE] /\ UNCHANGED loose
       \/ loose[a] > 0 /\ loose' = [loose EXCEPT ![a] = @ - 1] /\ UNCHANGED timer
    /\ card' = [card EXCEPT ![a] = "idle"]
    /\ UNCHANGED <<there, visible, byHand, run, summary, doubled, retested>>

(***************************************************************************)
(* handleTestAll: a snapshot of the visible accounts, one after another.   *)
(***************************************************************************)
TestAll ==
    /\ ~run.on /\ Cardinality(there) > 1 /\ visible \intersect there # {}
    /\ run' = [NoRun EXCEPT !.on = TRUE, !.todo = visible \intersect there]
    /\ summary' = NoSummary /\ retested' = {}
    /\ UNCHANGED <<there, visible, cards, doubled>>

\* MUTANT of RunNext: the next test is begun without waiting for the last.
RunAtOnce(a) ==
    /\ run.on /\ a \in run.todo /\ BeginTest(a)
    /\ run' = [run EXCEPT !.todo = @ \ {a}, !.current = @ \union {a}]
    /\ UNCHANGED <<there, visible, byHand, summary, retested>>

RunNext(a) ==
    /\ run.on /\ run.current = {} /\ a \in run.todo /\ BeginTest(a)
    /\ run' = [run EXCEPT !.todo = @ \ {a}, !.current = {a}]
    /\ UNCHANGED <<there, visible, byHand, summary, retested>>

RunTested(a, good) ==
    /\ a \in run.current /\ EndTest(a, good)
    /\ run' = [run EXCEPT !.current = {}, !.failed = IF good THEN @ ELSE @ \union {a}]
    /\ UNCHANGED <<there, visible, byHand, summary, doubled, retested>>

RunEnds ==
    /\ run.on /\ run.current = {} /\ run.todo = {}
    /\ run' = NoRun /\ summary' = run.failed
    /\ UNCHANGED <<there, visible, cards, doubled, retested>>

(***************************************************************************)
(* The search, a deletion, and another tab: the page is unmounted with its *)
(* timers, and the run goes no further.                                    *)
(***************************************************************************)
Search(v) ==
    /\ v # visible /\ v # {} /\ visible' = v
    /\ UNCHANGED <<there, cards, run, summary, doubled, retested>>

Delete(a) ==
    /\ a \in there \intersect visible /\ there' = there \ {a} /\ summary' = NoSummary
    /\ UNCHANGED <<visible, cards, run, doubled, retested>>

Leave ==
    /\ card' = [a \in CfAccounts |-> "idle"] /\ timer' = [a \in CfAccounts |-> FALSE]
    /\ loose' = [a \in CfAccounts |-> 0]
    /\ byHand' = [a \in CfAccounts |-> 0] /\ run' = NoRun /\ summary' = NoSummary
    /\ doubled' = {} /\ retested' = {} /\ visible' = CfAccounts /\ UNCHANGED there

Next ==
    \/ TestAll \/ RunEnds \/ Leave
    \/ \E a \in CfAccounts : Test(a) \/ Fade(a) \/ RunNext(a) \/ Delete(a)
    \/ \E a \in CfAccounts, good \in BOOLEAN : Tested(a, good) \/ RunTested(a, good)
    \/ \E v \in SUBSET CfAccounts : Search(v)

Spec == Init /\ [][Next]_vars
-----------------------------------------------------------------------------
\* The summary of a run does not call failed a token whose card says it is fine,
\* unless the run had found it failed and it was tested by hand before the run
\* ended, or two tests of it overlapped.  The first is what Cloudflare.tsx:576-578
\* means to prevent: it clears the summary that stands, not the one still to come.
SummaryAgreesWithCards ==
    summary # NoSummary => \A a \in summary : card[a] = "success" => a \in retested \union doubled

\* A card says that a test is under way exactly while one is, and an error stays
\* until the next test, unless two tests of the account have overlapped.
CardFollowsTheTest ==
    \A a \in CfAccounts \ doubled :
       /\ card[a] = "loading" <=> InFlight(a)
       /\ timer[a] => card[a] = "success"
       /\ loose[a] = 0

\* No card is left with a green that nothing will put out, or waits for nothing.
CardsSettle ==
    \A a \in CfAccounts : /\ card[a] = "success" => timer[a]
                        /\ card[a] = "loading" => InFlight(a)
=============================================================================
