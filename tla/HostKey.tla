------------------------------ MODULE HostKey ------------------------------
(***************************************************************************)
(* The question about the unknown SSH key of one address.  The process     *)
(* refuses a connection to a host it does not know and emits an event; the *)
(* page asks the user and saves the key; a command that was refused waits  *)
(* for the answer and is run once more.                                    *)
(***************************************************************************)
EXTENDS Naturals, Sequences, FiniteSets

CONSTANTS
    Execs,         \* SSH tests and metrics collections, each one call at a time
    MaxCalls,      \* bound: calls, runs of other commands included
    MaxQuestions   \* bound: dialogs

HostKeys  == {"key", "newkey"}
Questions == 1..MaxQuestions
NoQuestion == 0

VARIABLES
    hostKey,       \* what the server shows
    known,         \* known_hosts of the address; the first line counts
    listening,     \* the workspace and its subscription are mounted
    events,        \* prompts on their way to the page: who was refused, which key
    asked,         \* inFlight: the open question about each key
    answer,        \* how each question stands
    seq, decision, \* the publications counted, and the last one nobody has taken
    exec,          \* each command
    calls

page == <<listening, events, asked, answer, seq, decision>>
vars == <<hostKey, known, page, exec, calls>>

NoDecision == [seq |-> 0, on |-> NoQuestion]
NoCall     == [pc |-> "idle", since |-> 0, on |-> NoQuestion, end |-> "none",
               old |-> {}, heard |-> FALSE, alone |-> TRUE]
Settled    == {"accepted", "save-failed", "declined", "broken"}

TypeOK ==
    /\ hostKey \in HostKeys /\ known \in Seq(HostKeys) /\ listening \in BOOLEAN
    /\ events \subseteq (Execs \union {"other"}) \X HostKeys
    /\ \A k \in HostKeys : asked[k] \in Questions \union {NoQuestion}
    /\ \A q \in Questions : answer[q].is \in Settled \union {"none", "open", "saving"}
    /\ \A x \in Execs : exec[x].pc \in {"idle", "first", "refused", "waiting", "decided", "retry"}

Init ==
    /\ hostKey = "key" /\ known = <<>> /\ listening = TRUE /\ events = {}
    /\ asked = [k \in HostKeys |-> NoQuestion]
    /\ answer = [q \in Questions |-> [is |-> "none", key |-> "key"]]
    /\ seq = 0 /\ decision = NoDecision
    /\ exec = [x \in Execs |-> NoCall] /\ calls = 0

(***************************************************************************)
(* The connection: the first line of known_hosts for the address decides.  *)
(***************************************************************************)
Known    == known # <<>> /\ known[1] = hostKey
Mismatch == known # <<>> /\ known[1] # hostKey

Emit(who) == events' = events \union {<<who, hostKey>>}
Call(x, j) == exec' = [exec EXCEPT ![x] = j]
Busy(x)  == exec[x].pc # "idle"
End(x, how) == Call(x, [exec[x] EXCEPT !.pc = "idle", !.end = how])

\* execOnServer: the counter is read before the call is made.
Start(x) ==
    /\ ~Busy(x) /\ calls < MaxCalls /\ calls' = calls + 1
    /\ exec' = [y \in Execs |->
          IF y = x THEN [NoCall EXCEPT !.pc = "first", !.since = seq,
                            !.old = {q \in Questions : answer[q].is \in Settled},
                            !.alone = \A z \in Execs \ {x} : ~Busy(z)]
          ELSE [exec[y] EXCEPT !.alone = FALSE]]
    /\ UNCHANGED <<hostKey, known, page>>

\* ssh_exec runs, or emits the event and refuses.
Connect(x) ==
    /\ exec[x].pc \in {"first", "retry"} /\ UNCHANGED <<hostKey, known, calls>>
    /\ \/ Known /\ End(x, "ran") /\ UNCHANGED page
       \/ Mismatch /\ End(x, "mismatch") /\ UNCHANGED page
       \/ /\ known = <<>> /\ Emit(x)
          /\ IF exec[x].pc = "first"
             THEN Call(x, [exec[x] EXCEPT !.pc = "refused"])
             ELSE End(x, "unknown again")
          /\ UNCHANGED <<listening, asked, answer, seq, decision>>

\* A session of another command, which is not repeated.
OtherConnect ==
    /\ known = <<>> /\ calls < MaxCalls /\ calls' = calls + 1 /\ Emit("other")
    /\ UNCHANGED <<hostKey, known, listening, asked, answer, seq, decision, exec>>

\* The server is reinstalled, or another answers at its address.
NewKey ==
    /\ hostKey = "key" /\ hostKey' = "newkey" /\ UNCHANGED <<known, page, exec, calls>>

(***************************************************************************)
(* handleHostKeyPrompt, in one turn: an open question about the same key   *)
(* is not asked again, and every event publishes the question's answer.    *)
(***************************************************************************)
Waiting == {x \in Execs : exec[x].pc = "waiting"}

Publish(q, who) ==
    /\ seq' = seq + 1
    /\ decision' = IF Waiting = {} THEN [seq |-> seq + 1, on |-> q] ELSE NoDecision
    /\ exec' = [x \in Execs |->
          LET j == [exec[x] EXCEPT !.heard = @ \/ (x = who /\ exec[x].pc \in {"refused", "waiting"})]
          IN IF x \in Waiting THEN [j EXCEPT !.pc = "decided", !.on = q] ELSE j]

HandleHostKeyPrompt(e) ==
    /\ listening /\ e \in events /\ events' = events \ {e}
    /\ IF asked[e[2]] # NoQuestion
       THEN Publish(asked[e[2]], e[1]) /\ UNCHANGED <<asked, answer>>
       ELSE \E q \in Questions :
               /\ answer[q].is = "none" /\ \A p \in 1..(q - 1) : answer[p].is # "none"
               /\ asked' = [asked EXCEPT ![e[2]] = q]
               /\ answer' = [answer EXCEPT ![q] = [is |-> "open", key |-> e[2]]]
               /\ Publish(q, e[1])
    /\ UNCHANGED <<hostKey, known, listening, calls>>

\* The event finds nobody listening.
Unheard(e) ==
    /\ ~listening /\ e \in events /\ events' = events \ {e}
    /\ UNCHANGED <<hostKey, known, listening, asked, answer, seq, decision, exec, calls>>

Mount == listening' = ~listening
         /\ UNCHANGED <<hostKey, known, events, asked, answer, seq, decision, exec, calls>>

\* The user answers, or the dialog breaks; a question that is settled is closed.
Settle(q, how) ==
    /\ answer' = [answer EXCEPT ![q].is = how]
    /\ asked' = IF how \in Settled /\ asked[answer[q].key] = q
                THEN [asked EXCEPT ![answer[q].key] = NoQuestion] ELSE asked
    /\ UNCHANGED <<hostKey, listening, events, seq, decision, exec, calls>>

Answer(q) ==
    /\ answer[q].is = "open" /\ UNCHANGED known
    /\ \E how \in {"saving", "declined", "broken"} : Settle(q, how)

\* ssh_accept_host_key appends a line.
Save(q) ==
    /\ answer[q].is = "saving"
    /\ \/ Settle(q, "accepted") /\ known' = Append(known, answer[q].key)
       \/ Settle(q, "save-failed") /\ UNCHANGED known

(***************************************************************************)
(* sshExecWithHostKeyRetry after the refusal.                              *)
(***************************************************************************)
\* MUTANT of AwaitDecision: whatever was last published is taken.
AwaitAnyDecision(x) ==
    /\ exec[x].pc = "refused"
    /\ IF decision # NoDecision
       THEN /\ decision' = NoDecision
            /\ Call(x, [exec[x] EXCEPT !.pc = "decided", !.on = decision.on])
       ELSE Call(x, [exec[x] EXCEPT !.pc = "waiting"]) /\ UNCHANGED decision
    /\ UNCHANGED <<hostKey, known, listening, events, asked, answer, seq, calls>>

\* A decision published since the call began is taken at once, and is gone.
AwaitDecision(x) ==
    /\ exec[x].pc = "refused"
    /\ IF decision.seq > exec[x].since
       THEN /\ decision' = NoDecision
            /\ Call(x, [exec[x] EXCEPT !.pc = "decided", !.on = decision.on])
       ELSE Call(x, [exec[x] EXCEPT !.pc = "waiting"]) /\ UNCHANGED decision
    /\ UNCHANGED <<hostKey, known, listening, events, asked, answer, seq, calls>>

\* Fifteen seconds without an event.
GiveUp(x) ==
    /\ exec[x].pc = "waiting" /\ End(x, "unconfirmed")
    /\ UNCHANGED <<hostKey, known, page, calls>>

Decided(x) ==
    /\ exec[x].pc = "decided" /\ answer[exec[x].on].is \in Settled
    /\ IF answer[exec[x].on].is = "accepted"
       THEN Call(x, [exec[x] EXCEPT !.pc = "retry"])
       ELSE End(x, answer[exec[x].on].is)
    /\ UNCHANGED <<hostKey, known, page, calls>>

Next ==
    \/ OtherConnect \/ NewKey \/ Mount
    \/ \E e \in events : HandleHostKeyPrompt(e) \/ Unheard(e)
    \/ \E q \in Questions : Answer(q) \/ Save(q)
    \/ \E x \in Execs : Start(x) \/ Connect(x) \/ AwaitDecision(x) \/ GiveUp(x) \/ Decided(x)

Spec == Init /\ [][Next]_vars
-----------------------------------------------------------------------------
Open(q) == answer[q].is \in {"open", "saving"}

\* However many connections one key refuses, there is one dialog about it at a time.
OneQuestionPerKey ==
    \A p, q \in Questions :
       Open(p) /\ Open(q) /\ answer[p].key = answer[q].key => p = q

\* The answer a command acts upon was given after the command was started: a "yes"
\* left over from another command starts no retry.
AnswerIsNotOld ==
    \A x \in Execs : exec[x].pc \in {"decided", "retry"} => exec[x].on \notin exec[x].old

\* A command is repeated only after the accepted key has been written.
RetryAfterSave == \A x \in Execs : exec[x].pc = "retry" => known # <<>>

\* A command whose question was asked is answered by it, and reports that nobody
\* confirmed the key only when another command ran beside it and took the answer.
SilenceHasACause ==
    \A x \in Execs : exec[x].end = "unconfirmed" /\ exec[x].heard => ~exec[x].alone

\* The four of them: the promise of the question about a host key.
HostKeysAreAsked ==
    OneQuestionPerKey /\ AnswerIsNotOld /\ RetryAfterSave /\ SilenceHasACause
=============================================================================
