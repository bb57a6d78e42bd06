-------------------------- MODULE Installs_proofs ----------------------------
(***************************************************************************)
(* What the desktop does on a server, for any commands, domains, panels    *)
(* and faults: the question about a host key, provisioning with its        *)
(* passwords, and the installation of FastPanel.                           *)
(***************************************************************************)
EXTENDS Integers, Sequences, FiniteSets, FiniteSetTheorems, TLAPS

CONSTANTS
    Execs, MaxCalls, MaxQuestions, Domains, MaxFaults, MaxPanels, MaxSaves

VARIABLES
    hostKey, known, listening, events, asked, answer, seq, decision, exec, calls,
    user, workspace, run, gate, account, stored, queue, dismissed, record, faults,
    died, unsaved, unseen, crashed, panel, status, cached, row, open, form, save,
    fate, blind, replaced

Host  == INSTANCE HostKey
Prov  == INSTANCE Provision
Panel == INSTANCE PanelInstall

-----------------------------------------------------------------------------
(***************************************************************************)
(* The question about a host key, for any number of commands, calls and    *)
(* dialogs.                                                                *)
(***************************************************************************)
AnswerRecord == [is : Host!Settled \union {"none", "open", "saving"}, key : Host!HostKeys]
ExecRecord ==
    [pc : {"idle", "first", "refused", "waiting", "decided", "retry"}, since : Nat,
     on : Host!Questions \union {Host!NoQuestion},
     end : {"none", "ran", "mismatch", "unknown again", "unconfirmed"} \union Host!Settled,
     old : SUBSET Host!Questions, heard : BOOLEAN, alone : BOOLEAN]

HostTypeInv ==
    /\ hostKey \in Host!HostKeys /\ known \in Seq(Host!HostKeys)
    /\ events \subseteq (Execs \union {"other"}) \X Host!HostKeys
    /\ asked \in [Host!HostKeys -> Host!Questions \union {Host!NoQuestion}]
    /\ answer \in [Host!Questions -> AnswerRecord]
    /\ seq \in Nat /\ decision \in [seq : Nat, on : Host!Questions \union {Host!NoQuestion}]
    /\ exec \in [Execs -> ExecRecord]

(***************************************************************************)
(* The inductive invariant.                                                *)
(***************************************************************************)
\* inFlight names the open question about each key and no other.
AskedIsOpen ==
    /\ \A q \in Host!Questions : Host!Open(q) => asked[answer[q].key] = q
    /\ \A k \in Host!HostKeys : asked[k] # Host!NoQuestion =>
          Host!Open(asked[k]) /\ answer[asked[k]].key = k
    /\ \A q \in Host!Questions : answer[q].is = "accepted" => known # <<>>

\* What a command acts upon, or may, was published for a question open after it
\* was started.
ActsOnNew(x) ==
    /\ exec[x].since <= seq
    /\ \A q \in exec[x].old : answer[q].is \in Host!Settled
    /\ decision.seq > exec[x].since => decision.on \in Host!Questions \ exec[x].old
    /\ exec[x].pc \in {"decided", "retry"} => exec[x].on \in Host!Questions \ exec[x].old
    /\ exec[x].pc = "retry" => known # <<>>

DecisionIsNew == decision.seq <= seq /\ \A x \in Execs : ActsOnNew(x)

\* While a command is alone, nobody takes the decision it heard being published.
HearsAlone(x) ==
    /\ Host!Busy(x) => exec[x].end = "none"
    /\ exec[x].pc = "first" => ~exec[x].heard
    /\ Host!Busy(x) /\ exec[x].alone =>
          /\ \A y \in Execs \ {x} : ~Host!Busy(y)
          /\ exec[x].pc = "refused" /\ exec[x].heard => decision.seq > exec[x].since
          /\ exec[x].pc = "waiting" => ~exec[x].heard
    /\ exec[x].end = "unconfirmed" /\ exec[x].heard => ~exec[x].alone

AloneIsHeard == \A x \in Execs : HearsAlone(x)

HostInv == HostTypeInv /\ AskedIsOpen /\ DecisionIsNew /\ AloneIsHeard

-----------------------------------------------------------------------------
(***************************************************************************)
(* Types.                                                                  *)
(***************************************************************************)
LEMMA CallType ==
  ASSUME HostTypeInv, NEW x \in Execs, NEW j \in ExecRecord, Host!Call(x, j)
  PROVE  exec' \in [Execs -> ExecRecord]
BY DEF Host!Call, HostTypeInv

\* A decision published is of its type.
LEMMA PublishType ==
  ASSUME HostTypeInv, NEW q \in Host!Questions, NEW who, Host!Publish(q, who)
  PROVE  /\ seq' \in Nat /\ decision' \in [seq : Nat, on : Host!Questions \union {Host!NoQuestion}]
         /\ exec' \in [Execs -> ExecRecord]
<1>1. seq' \in Nat /\ decision' \in [seq : Nat, on : Host!Questions \union {Host!NoQuestion}]
  <2>1. seq' \in Nat
    <3>1. seq' = seq + 1
      BY DEF Host!Publish
    <3>2. QED
      BY <3>1 DEF HostTypeInv
  <2>2. /\ [seq |-> seq + 1, on |-> q] \in [seq : Nat, on : Host!Questions \union {Host!NoQuestion}]
        /\ Host!NoDecision \in [seq : Nat, on : Host!Questions \union {Host!NoQuestion}]
    BY DEF HostTypeInv, Host!NoDecision
  <2>3. QED
    BY <2>1, <2>2 DEF Host!Publish
<1>2. ASSUME NEW x \in Execs PROVE exec'[x] \in ExecRecord
  <2>1. exec[x] \in ExecRecord
    BY DEF HostTypeInv
  <2>2. [exec[x] EXCEPT !.heard = @ \/ (x = who /\ exec[x].pc \in {"refused", "waiting"})]
           \in ExecRecord
    BY <2>1 DEF ExecRecord
  <2>3. [[exec[x] EXCEPT !.heard = @ \/ (x = who /\ exec[x].pc \in {"refused", "waiting"})]
            EXCEPT !.pc = "decided", !.on = q] \in ExecRecord
    BY <2>1 DEF ExecRecord
  <2>4. QED
    BY <2>2, <2>3 DEF Host!Publish
<1>3. exec' = [x \in Execs |-> exec'[x]]
  BY DEF Host!Publish
<1>4. QED
  BY <1>1, <1>2, <1>3

\* Every action keeps the types.
LEMMA HostTypeStep == HostTypeInv /\ [Host!Next]_(Host!vars) => HostTypeInv'
<1> SUFFICES ASSUME HostTypeInv, [Host!Next]_(Host!vars) PROVE HostTypeInv'
  OBVIOUS
<1> USE DEF Host!page
<1>1. CASE Host!OtherConnect \/ Host!NewKey \/ Host!Mount \/ UNCHANGED Host!vars
  BY <1>1 DEF Host!OtherConnect, Host!NewKey, Host!Mount, Host!vars, HostTypeInv,
      Host!Emit, Host!HostKeys
<1>2. ASSUME NEW e \in events, Host!HandleHostKeyPrompt(e) PROVE HostTypeInv'
  <2>1. e[2] \in Host!HostKeys /\ events' \subseteq (Execs \union {"other"}) \X Host!HostKeys
    BY <1>2 DEF Host!HandleHostKeyPrompt, HostTypeInv
  <2>2. CASE asked[e[2]] # Host!NoQuestion
    <3>1. asked[e[2]] \in Host!Questions
      BY <2>1, <2>2 DEF HostTypeInv
    <3>2. Host!Publish(asked[e[2]], e[1]) /\ UNCHANGED <<asked, answer, hostKey, known>>
      BY <1>2, <2>2 DEF Host!HandleHostKeyPrompt
    <3>3. QED
      BY <2>1, <3>1, <3>2, PublishType DEF HostTypeInv
  <2>3. CASE asked[e[2]] = Host!NoQuestion
    <3>1. PICK q \in Host!Questions :
             /\ asked' = [asked EXCEPT ![e[2]] = q]
             /\ answer' = [answer EXCEPT ![q] = [is |-> "open", key |-> e[2]]]
             /\ Host!Publish(q, e[1])
      BY <1>2, <2>3 DEF Host!HandleHostKeyPrompt
    <3>2. asked' \in [Host!HostKeys -> Host!Questions \union {Host!NoQuestion}]
      BY <3>1 DEF HostTypeInv
    <3>3. answer' \in [Host!Questions -> AnswerRecord]
      BY <2>1, <3>1 DEF HostTypeInv, AnswerRecord
    <3>4. UNCHANGED <<hostKey, known>>
      BY <1>2 DEF Host!HandleHostKeyPrompt
    <3>5. QED
      BY <2>1, <3>1, <3>2, <3>3, <3>4, PublishType DEF HostTypeInv
  <2>4. QED
    BY <2>2, <2>3
<1>3. ASSUME NEW e \in events, Host!Unheard(e) PROVE HostTypeInv'
  BY <1>3 DEF Host!Unheard, HostTypeInv
<1>4. ASSUME NEW q \in Host!Questions, NEW how \in Host!Settled \union {"saving"}, Host!Settle(q, how)
      PROVE  answer' \in [Host!Questions -> AnswerRecord]
             /\ asked' \in [Host!HostKeys -> Host!Questions \union {Host!NoQuestion}]
             /\ UNCHANGED <<hostKey, events, seq, decision, exec>>
  <2>1. [answer[q] EXCEPT !.is = how] \in AnswerRecord
    BY DEF HostTypeInv, AnswerRecord
  <2>2. answer' = [answer EXCEPT ![q] = [answer[q] EXCEPT !.is = how]]
    BY <1>4 DEF Host!Settle
  <2>3. answer' \in [Host!Questions -> AnswerRecord]
    BY <2>1, <2>2 DEF HostTypeInv
  <2>4. QED
    BY <1>4, <2>3 DEF Host!Settle, HostTypeInv
<1>5. ASSUME NEW q \in Host!Questions, Host!Answer(q) PROVE HostTypeInv'
  BY <1>4, <1>5 DEF Host!Answer, HostTypeInv, Host!Settled
<1>6. ASSUME NEW q \in Host!Questions, Host!Save(q) PROVE HostTypeInv'
  <2>1. answer[q].key \in Host!HostKeys
    BY DEF HostTypeInv, AnswerRecord
  <2>2. known' \in Seq(Host!HostKeys)
    BY <1>6, <2>1 DEF Host!Save, HostTypeInv
  <2>3. PICK how \in Host!Settled : Host!Settle(q, how)
    BY <1>6 DEF Host!Save, Host!Settled
  <2>4. QED
    BY <1>4, <2>2, <2>3 DEF HostTypeInv
<1>7. ASSUME NEW x \in Execs, Host!Start(x) PROVE HostTypeInv'
  <2> DEFINE N == [Host!NoCall EXCEPT !.pc = "first", !.since = seq,
                      !.old = {q \in Host!Questions : answer[q].is \in Host!Settled},
                      !.alone = \A z \in Execs \ {x} : ~Host!Busy(z)]
  <2>1. N \in ExecRecord
    BY DEF HostTypeInv, ExecRecord, Host!NoCall, Host!Settled
  <2>2. \A y \in Execs : [exec[y] EXCEPT !.alone = FALSE] \in ExecRecord
    BY DEF HostTypeInv, ExecRecord
  <2>3. exec' = [y \in Execs |-> IF y = x THEN N ELSE [exec[y] EXCEPT !.alone = FALSE]]
        /\ UNCHANGED <<hostKey, known, Host!page>>
    BY <1>7 DEF Host!Start
  <2> HIDE DEF N
  <2>4. exec' \in [Execs -> ExecRecord]
    BY <2>1, <2>2, <2>3
  <2>5. QED
    BY <2>3, <2>4 DEF HostTypeInv
<1>8. ASSUME NEW x \in Execs, NEW how \in {"ran", "mismatch", "unknown again", "unconfirmed"}
                                       \union Host!Settled, Host!End(x, how)
      PROVE  exec' \in [Execs -> ExecRecord]
  <2>1. [exec[x] EXCEPT !.pc = "idle", !.end = how] \in ExecRecord
    BY DEF HostTypeInv, ExecRecord
  <2>2. QED
    BY <1>8, <2>1, CallType DEF Host!End
<1>9. ASSUME NEW x \in Execs, Host!Connect(x) PROVE HostTypeInv'
  <2>1. [exec[x] EXCEPT !.pc = "refused"] \in ExecRecord
    BY DEF HostTypeInv, ExecRecord
  <2>2. Host!Call(x, [exec[x] EXCEPT !.pc = "refused"]) => exec' \in [Execs -> ExecRecord]
    BY <2>1, CallType
  <2>3. exec' \in [Execs -> ExecRecord]
    BY <1>8, <1>9, <2>2 DEF Host!Connect
  <2>4. UNCHANGED <<hostKey, known, asked, answer, seq, decision>>
    BY <1>9 DEF Host!Connect
  <2>5. events' \subseteq (Execs \union {"other"}) \X Host!HostKeys
    <3>1. <<x, hostKey>> \in (Execs \union {"other"}) \X Host!HostKeys
      BY DEF HostTypeInv
    <3>2. events' = events \/ events' = events \union {<<x, hostKey>>}
      BY <1>9 DEF Host!Connect, Host!Emit
    <3>3. events \subseteq (Execs \union {"other"}) \X Host!HostKeys
      BY DEF HostTypeInv
    <3>4. QED
      BY <3>1, <3>2, <3>3
  <2>6. QED
    BY <2>3, <2>4, <2>5 DEF HostTypeInv
<1>10. ASSUME NEW x \in Execs, Host!AwaitDecision(x) PROVE HostTypeInv'
  <2>1. [exec[x] EXCEPT !.pc = "waiting"] \in ExecRecord
        /\ [exec[x] EXCEPT !.pc = "decided", !.on = decision.on] \in ExecRecord
    BY DEF HostTypeInv, ExecRecord
  <2>2. exec' \in [Execs -> ExecRecord]
    BY <1>10, <2>1, CallType DEF Host!AwaitDecision
  <2>3. QED
    BY <1>10, <2>2 DEF Host!AwaitDecision, HostTypeInv, Host!NoDecision
<1>11. ASSUME NEW x \in Execs, Host!GiveUp(x) PROVE HostTypeInv'
  BY <1>8, <1>11 DEF Host!GiveUp, HostTypeInv
<1>12. ASSUME NEW x \in Execs, Host!Decided(x) PROVE HostTypeInv'
  <2>1. [exec[x] EXCEPT !.pc = "retry"] \in ExecRecord
    BY DEF HostTypeInv, ExecRecord
  <2>2. exec' \in [Execs -> ExecRecord]
    BY <1>8, <1>12, <2>1, CallType DEF Host!Decided
  <2>3. QED
    BY <1>12, <2>2 DEF Host!Decided, HostTypeInv
<1>13. QED
  BY <1>1, <1>2, <1>3, <1>5, <1>6, <1>7, <1>9, <1>10, <1>11, <1>12 DEF Host!Next

-----------------------------------------------------------------------------
(***************************************************************************)
(* inFlight.                                                               *)
(***************************************************************************)
\* The steps that leave the questions and the known keys alone.
LEMMA QuietQuestions ==
  ASSUME AskedIsOpen, UNCHANGED <<asked, answer, known>> PROVE AskedIsOpen'
BY DEF AskedIsOpen, Host!Open

\* An answer that settles a question frees its key and no other.
LEMMA SettleKeepsAsked ==
  ASSUME HostTypeInv, AskedIsOpen, NEW q \in Host!Questions, Host!Open(q),
         NEW how \in Host!Settled \union {"saving"}, Host!Settle(q, how),
         how = "accepted" => known' # <<>>, known # <<>> => known' # <<>>
  PROVE  AskedIsOpen'
<1>1. /\ answer' \in [Host!Questions -> AnswerRecord]
      /\ answer'[q].is = how /\ answer'[q].key = answer[q].key
      /\ \A p \in Host!Questions \ {q} : answer'[p] = answer[p]
  <2>1. answer[q] \in AnswerRecord /\ [answer[q] EXCEPT !.is = how] \in AnswerRecord
    BY DEF HostTypeInv, AnswerRecord
  <2>2. answer' = [answer EXCEPT ![q] = [answer[q] EXCEPT !.is = how]]
    BY DEF Host!Settle
  <2>3. [answer[q] EXCEPT !.is = how].is = how
        /\ [answer[q] EXCEPT !.is = how].key = answer[q].key
    BY <2>1 DEF AnswerRecord
  <2>4. QED
    BY <2>1, <2>2, <2>3 DEF HostTypeInv
<1>2. asked[answer[q].key] = q /\ answer[q].key \in Host!HostKeys
  BY DEF AskedIsOpen, HostTypeInv, AnswerRecord
<1>3. asked' = IF how \in Host!Settled THEN [asked EXCEPT ![answer[q].key] = Host!NoQuestion] ELSE asked
  BY <1>2 DEF Host!Settle
<1>4. \A p \in Host!Questions : Host!Open(p)' => asked'[answer'[p].key] = p
  <2> SUFFICES ASSUME NEW p \in Host!Questions, Host!Open(p)' PROVE asked'[answer'[p].key] = p
    OBVIOUS
  <2>1. CASE p = q
    <3>1. how \notin Host!Settled
      BY <1>1, <2>1 DEF Host!Open, Host!Settled
    <3>2. QED
      BY <1>1, <1>2, <1>3, <2>1, <3>1
  <2>2. CASE p # q
    <3>1. asked[answer[p].key] = p /\ answer'[p] = answer[p]
      BY <1>1, <2>2 DEF AskedIsOpen, Host!Open
    <3>2. answer[p].key \in Host!HostKeys /\ answer[p].key # answer[q].key
      BY <1>2, <2>2, <3>1 DEF HostTypeInv, AnswerRecord
    <3>3. QED
      BY <1>3, <3>1, <3>2 DEF HostTypeInv
  <2>3. QED
    BY <2>1, <2>2
<1>5. \A k \in Host!HostKeys : asked'[k] # Host!NoQuestion =>
           Host!Open(asked[k])' /\ answer'[asked'[k]].key = k
  <2> SUFFICES ASSUME NEW k \in Host!HostKeys, asked'[k] # Host!NoQuestion
               PROVE  Host!Open(asked[k])' /\ answer'[asked'[k]].key = k
    OBVIOUS
  <2>1. asked'[k] = asked[k] /\ (k = answer[q].key => how = "saving")
    BY <1>3 DEF HostTypeInv
  <2>2. Host!Open(asked[k]) /\ asked[k] \in Host!Questions /\ answer[asked[k]].key = k
    BY <2>1 DEF AskedIsOpen, HostTypeInv
  <2>3. CASE asked[k] = q
    BY <1>1, <2>1, <2>2, <2>3 DEF Host!Open
  <2>4. CASE asked[k] # q
    BY <1>1, <2>1, <2>2, <2>4 DEF Host!Open
  <2>5. QED
    BY <2>3, <2>4
<1>6. \A p \in Host!Questions : answer'[p].is = "accepted" => known' # <<>>
  BY <1>1 DEF AskedIsOpen
<1>7. QED
  BY <1>4, <1>5, <1>6 DEF AskedIsOpen

\* Every action keeps that a key has one open question at most.
LEMMA AskedStep == HostTypeInv /\ AskedIsOpen /\ [Host!Next]_(Host!vars) => AskedIsOpen'
<1> SUFFICES ASSUME HostTypeInv, AskedIsOpen, [Host!Next]_(Host!vars) PROVE AskedIsOpen'
  OBVIOUS
<1>1. CASE Host!OtherConnect \/ Host!NewKey \/ Host!Mount \/ UNCHANGED Host!vars
  BY <1>1, QuietQuestions DEF Host!OtherConnect, Host!NewKey, Host!Mount, Host!vars,
      Host!page
<1>2. ASSUME NEW e \in events, Host!Unheard(e) PROVE AskedIsOpen'
  BY <1>2, QuietQuestions DEF Host!Unheard
<1>3. ASSUME NEW x \in Execs,
             Host!Start(x) \/ Host!Connect(x) \/ Host!AwaitDecision(x) \/ Host!GiveUp(x) \/ Host!Decided(x)
      PROVE  AskedIsOpen'
  BY <1>3, QuietQuestions DEF Host!Start, Host!Connect, Host!AwaitDecision, Host!GiveUp,
      Host!Decided, Host!page
<1>4. ASSUME NEW e \in events, Host!HandleHostKeyPrompt(e) PROVE AskedIsOpen'
  <2>1. e[2] \in Host!HostKeys /\ UNCHANGED known
    BY <1>4 DEF Host!HandleHostKeyPrompt, HostTypeInv
  <2>2. CASE asked[e[2]] # Host!NoQuestion
    BY <1>4, <2>1, <2>2, QuietQuestions DEF Host!HandleHostKeyPrompt
  <2>3. CASE asked[e[2]] = Host!NoQuestion
    <3>1. PICK q \in Host!Questions :
             /\ answer[q].is = "none"
             /\ asked' = [asked EXCEPT ![e[2]] = q]
             /\ answer' = [answer EXCEPT ![q] = [is |-> "open", key |-> e[2]]]
      BY <1>4, <2>3 DEF Host!HandleHostKeyPrompt
    <3>2. answer'[q].is = "open" /\ answer'[q].key = e[2]
          /\ \A p \in Host!Questions \ {q} : answer'[p] = answer[p]
      BY <3>1 DEF HostTypeInv
    <3>3. asked'[e[2]] = q /\ \A k \in Host!HostKeys \ {e[2]} : asked'[k] = asked[k]
      BY <2>1, <3>1 DEF HostTypeInv
    <3>4. \A p \in Host!Questions \ {q} : Host!Open(p) => answer[p].key \in Host!HostKeys \ {e[2]}
      <4> SUFFICES ASSUME NEW p \in Host!Questions \ {q}, Host!Open(p)
                   PROVE  answer[p].key \in Host!HostKeys \ {e[2]}
        OBVIOUS
      <4>1. asked[answer[p].key] = p /\ answer[p].key \in Host!HostKeys
        BY DEF AskedIsOpen, HostTypeInv, AnswerRecord
      <4>2. p # Host!NoQuestion
        BY DEF Host!NoQuestion, Host!Questions
      <4>3. QED
        BY <2>3, <4>1, <4>2
    <3>5. \A p \in Host!Questions : Host!Open(p)' => asked'[answer'[p].key] = p
      BY <3>2, <3>3, <3>4 DEF AskedIsOpen, Host!Open
    <3>6. \A k \in Host!HostKeys : asked'[k] # Host!NoQuestion =>
           Host!Open(asked[k])' /\ answer'[asked'[k]].key = k
      <4> SUFFICES ASSUME NEW k \in Host!HostKeys \ {e[2]}, asked'[k] # Host!NoQuestion
                   PROVE  Host!Open(asked[k])' /\ answer'[asked'[k]].key = k
        BY <3>2, <3>3 DEF Host!Open
      <4>1. asked'[k] = asked[k] /\ asked[k] \in Host!Questions /\ Host!Open(asked[k])
            /\ answer[asked[k]].key = k
        BY <3>3 DEF AskedIsOpen, HostTypeInv
      <4>2. asked[k] # q
        BY <3>1, <4>1 DEF Host!Open
      <4>3. QED
        BY <3>2, <4>1, <4>2 DEF Host!Open
    <3>7. \A p \in Host!Questions : answer'[p].is = "accepted" => known' # <<>>
      BY <2>1, <3>2 DEF AskedIsOpen
    <3>8. QED
      BY <3>5, <3>6, <3>7 DEF AskedIsOpen
  <2>4. QED
    BY <2>2, <2>3
<1>5. ASSUME NEW q \in Host!Questions, Host!Answer(q) PROVE AskedIsOpen'
  <2>1. PICK how \in {"saving", "declined", "broken"} : Host!Settle(q, how)
    BY <1>5 DEF Host!Answer
  <2>2. Host!Open(q) /\ UNCHANGED known /\ how # "accepted" /\ how \in Host!Settled \union {"saving"}
    BY <1>5 DEF Host!Answer, Host!Open, Host!Settled
  <2>3. QED
    BY <2>1, <2>2, SettleKeepsAsked
<1>6. ASSUME NEW q \in Host!Questions, Host!Save(q) PROVE AskedIsOpen'
  <2>1. Host!Open(q)
    BY <1>6 DEF Host!Save, Host!Open
  <2>2. CASE Host!Settle(q, "accepted") /\ known' = Append(known, answer[q].key)
    <3>1. answer[q].key \in Host!HostKeys /\ known \in Seq(Host!HostKeys)
      BY DEF HostTypeInv, AnswerRecord
    <3>2. known' # <<>>
      BY <2>2, <3>1
    <3>3. QED
      BY <2>1, <2>2, <3>2, SettleKeepsAsked DEF Host!Settled
  <2>3. CASE Host!Settle(q, "save-failed") /\ UNCHANGED known
    BY <2>1, <2>3, SettleKeepsAsked DEF Host!Settled
  <2>4. QED
    BY <1>6, <2>2, <2>3 DEF Host!Save
<1>7. QED
  BY <1>1, <1>2, <1>3, <1>4, <1>5, <1>6 DEF Host!Next

-----------------------------------------------------------------------------
(***************************************************************************)
(* What the steps of a command do to its record and to those of others.    *)
(***************************************************************************)
LEMMA CallOnly ==
  ASSUME HostTypeInv, NEW x \in Execs, NEW j, Host!Call(x, j)
  PROVE  exec'[x] = j /\ \A y \in Execs \ {x} : exec'[y] = exec[y]
BY DEF Host!Call, HostTypeInv

\* A call that is over keeps what it was started with.
LEMMA EndOnly ==
  ASSUME HostTypeInv, NEW x \in Execs, NEW how, Host!End(x, how)
  PROVE  /\ exec'[x].pc = "idle" /\ exec'[x].end = how
         /\ exec'[x].since = exec[x].since /\ exec'[x].old = exec[x].old
         /\ exec'[x].heard = exec[x].heard /\ exec'[x].alone = exec[x].alone
         /\ \A y \in Execs \ {x} : exec'[y] = exec[y]
<1>1. exec[x] \in ExecRecord
  BY DEF HostTypeInv
<1>2. /\ exec'[x] = [exec[x] EXCEPT !.pc = "idle", !.end = how]
      /\ \A y \in Execs \ {x} : exec'[y] = exec[y]
  BY CallOnly DEF Host!End
<1>3. QED
  BY <1>1, <1>2 DEF ExecRecord

\* A call that goes on.
LEMMA GoOnOnly ==
  ASSUME HostTypeInv, NEW x \in Execs, NEW pc, Host!Call(x, [exec[x] EXCEPT !.pc = pc])
  PROVE  /\ exec'[x].pc = pc /\ exec'[x].end = exec[x].end /\ exec'[x].on = exec[x].on
         /\ exec'[x].since = exec[x].since /\ exec'[x].old = exec[x].old
         /\ exec'[x].heard = exec[x].heard /\ exec'[x].alone = exec[x].alone
         /\ \A y \in Execs \ {x} : exec'[y] = exec[y]
<1>1. exec[x] \in ExecRecord
  BY DEF HostTypeInv
<1>2. /\ exec'[x] = [exec[x] EXCEPT !.pc = pc]
      /\ \A y \in Execs \ {x} : exec'[y] = exec[y]
  BY CallOnly
<1>3. QED
  BY <1>1, <1>2 DEF ExecRecord

\* A call that takes a decision.
LEMMA TakeOnly ==
  ASSUME HostTypeInv, NEW x \in Execs, NEW q,
         Host!Call(x, [exec[x] EXCEPT !.pc = "decided", !.on = q])
  PROVE  /\ exec'[x].pc = "decided" /\ exec'[x].end = exec[x].end /\ exec'[x].on = q
         /\ exec'[x].since = exec[x].since /\ exec'[x].old = exec[x].old
         /\ exec'[x].heard = exec[x].heard /\ exec'[x].alone = exec[x].alone
         /\ \A y \in Execs \ {x} : exec'[y] = exec[y]
<1>1. exec[x] \in ExecRecord
  BY DEF HostTypeInv
<1>2. /\ exec'[x] = [exec[x] EXCEPT !.pc = "decided", !.on = q]
      /\ \A y \in Execs \ {x} : exec'[y] = exec[y]
  BY CallOnly
<1>3. QED
  BY <1>1, <1>2 DEF ExecRecord

\* What the start of a command writes.
LEMMA StartOnly ==
  ASSUME HostTypeInv, NEW x \in Execs, Host!Start(x)
  PROVE  /\ exec'[x].pc = "first" /\ exec'[x].end = "none" /\ exec'[x].since = seq
         /\ exec'[x].old = {q \in Host!Questions : answer[q].is \in Host!Settled}
         /\ exec'[x].heard = FALSE
         /\ exec'[x].alone => \A z \in Execs \ {x} : ~Host!Busy(z)
         /\ \A y \in Execs \ {x} :
               /\ exec'[y].alone = FALSE
               /\ exec'[y].pc = exec[y].pc /\ exec'[y].end = exec[y].end
               /\ exec'[y].on = exec[y].on /\ exec'[y].since = exec[y].since
               /\ exec'[y].old = exec[y].old /\ exec'[y].heard = exec[y].heard
<1>1. \A y \in Execs : exec[y] \in ExecRecord
  BY DEF HostTypeInv
<1>2. exec'[x] = [Host!NoCall EXCEPT !.pc = "first", !.since = seq,
                     !.old = {q \in Host!Questions : answer[q].is \in Host!Settled},
                     !.alone = \A z \in Execs \ {x} : ~Host!Busy(z)]
  BY DEF Host!Start
<1>3. ASSUME NEW y \in Execs \ {x} PROVE exec'[y] = [exec[y] EXCEPT !.alone = FALSE]
  BY DEF Host!Start
<1>4. ASSUME NEW y \in Execs \ {x}
      PROVE  /\ exec'[y].alone = FALSE
             /\ exec'[y].pc = exec[y].pc /\ exec'[y].end = exec[y].end
             /\ exec'[y].on = exec[y].on /\ exec'[y].since = exec[y].since
             /\ exec'[y].old = exec[y].old /\ exec'[y].heard = exec[y].heard
  BY <1>1, <1>3 DEF ExecRecord
<1>5. QED
  BY <1>2, <1>4 DEF Host!NoCall

\* What a decision published writes.
LEMMA PublishOnly ==
  ASSUME HostTypeInv, NEW q \in Host!Questions, NEW who, Host!Publish(q, who), NEW x \in Execs
  PROVE  /\ exec'[x].end = exec[x].end /\ exec'[x].since = exec[x].since
         /\ exec'[x].old = exec[x].old /\ exec'[x].alone = exec[x].alone
         /\ exec[x].pc = "waiting" => exec'[x].pc = "decided" /\ exec'[x].on = q
         /\ exec[x].pc # "waiting" => exec'[x].pc = exec[x].pc /\ exec'[x].on = exec[x].on
         /\ exec[x].pc \notin {"refused", "waiting"} => exec'[x].heard = exec[x].heard
<1> DEFINE h == exec[x].heard \/ (x = who /\ exec[x].pc \in {"refused", "waiting"})
<1>1. exec[x] \in ExecRecord
  BY DEF HostTypeInv
<1>2. exec'[x] = IF x \in Host!Waiting THEN [[exec[x] EXCEPT !.heard = h] EXCEPT !.pc = "decided", !.on = q]
                 ELSE [exec[x] EXCEPT !.heard = h]
  BY <1>1 DEF Host!Publish, ExecRecord
<1>3. x \in Host!Waiting <=> exec[x].pc = "waiting"
  BY DEF Host!Waiting
<1>4. exec[x].pc \notin {"refused", "waiting"} => h = exec[x].heard
  BY <1>1 DEF ExecRecord
<1> HIDE DEF h
<1>5. QED
  BY <1>1, <1>2, <1>3, <1>4 DEF ExecRecord

\* A decision published is counted, and lies ready only if nobody waits for it.
LEMMA PublishSeq ==
  ASSUME HostTypeInv, NEW q \in Host!Questions, NEW who, Host!Publish(q, who)
  PROVE  /\ seq' = seq + 1
         /\ \/ /\ \A x \in Execs : exec[x].pc # "waiting"
               /\ decision'.seq = seq + 1 /\ decision'.on = q
            \/ /\ \E x \in Execs : exec[x].pc = "waiting"
               /\ decision'.seq = 0
<1>1. seq' = seq + 1 /\ decision' = IF Host!Waiting = {} THEN [seq |-> seq + 1, on |-> q] ELSE Host!NoDecision
  BY DEF Host!Publish
<1>2. Host!NoDecision.seq = 0
  BY DEF Host!NoDecision
<1>3. Host!Waiting = {} <=> \A x \in Execs : exec[x].pc # "waiting"
  BY DEF Host!Waiting
<1>4. QED
  BY <1>1, <1>2, <1>3

-----------------------------------------------------------------------------
(***************************************************************************)
(* A command acts on what is new.                                          *)
(***************************************************************************)
\* No step unsettles a question or forgets a key.
LEMMA QuestionsStaySettled ==
  ASSUME HostTypeInv, [Host!Next]_(Host!vars)
  PROVE  /\ \A q \in Host!Questions : answer[q].is \in Host!Settled => answer'[q] = answer[q]
         /\ known # <<>> => known' # <<>>
<1>1. CASE Host!OtherConnect \/ Host!NewKey \/ Host!Mount \/ UNCHANGED Host!vars
  BY <1>1 DEF Host!OtherConnect, Host!NewKey, Host!Mount, Host!vars, Host!page
<1>2. CASE \E e \in events : Host!HandleHostKeyPrompt(e) \/ Host!Unheard(e)
  BY <1>2 DEF Host!HandleHostKeyPrompt, Host!Unheard, HostTypeInv, Host!Settled
<1>3. ASSUME NEW q \in Host!Questions, Host!Answer(q) \/ Host!Save(q)
      PROVE  /\ \A p \in Host!Questions : answer[p].is \in Host!Settled => answer'[p] = answer[p]
             /\ known # <<>> => known' # <<>>
  <2>1. answer[q].is \notin Host!Settled
    BY <1>3 DEF Host!Answer, Host!Save, Host!Settled
  <2>2. PICK how : Host!Settle(q, how)
    BY <1>3 DEF Host!Answer, Host!Save
  <2>3. \A p \in Host!Questions \ {q} : answer'[p] = answer[p]
    BY <2>2 DEF Host!Settle, HostTypeInv
  <2>4. known # <<>> => known' # <<>>
    <3>1. answer[q].key \in Host!HostKeys /\ known \in Seq(Host!HostKeys)
      BY DEF HostTypeInv, AnswerRecord
    <3>2. known' = known \/ known' = Append(known, answer[q].key)
      BY <1>3 DEF Host!Answer, Host!Save
    <3>3. QED
      BY <3>1, <3>2
  <2>5. QED
    BY <2>1, <2>3, <2>4
<1>4. CASE \E x \in Execs :
             Host!Start(x) \/ Host!Connect(x) \/ Host!AwaitDecision(x) \/ Host!GiveUp(x) \/ Host!Decided(x)
  BY <1>4 DEF Host!Start, Host!Connect, Host!AwaitDecision, Host!GiveUp, Host!Decided,
      Host!page
<1>5. QED
  BY <1>1, <1>2, <1>3, <1>4 DEF Host!Next

\* A command whose record did not change in what matters.
LEMMA ActsOnSame ==
  ASSUME HostTypeInv, [Host!Next]_(Host!vars), NEW y \in Execs, ActsOnNew(y),
         exec'[y].since = exec[y].since, exec'[y].old = exec[y].old,
         exec'[y].pc = exec[y].pc, exec'[y].on = exec[y].on,
         UNCHANGED <<seq, decision>>
  PROVE  ActsOnNew(y)'
<1>1. exec[y].old \subseteq Host!Questions
  BY DEF HostTypeInv, ExecRecord
<1>2. QED
  BY <1>1, QuestionsStaySettled DEF ActsOnNew

\* A decision published keeps that commands act on new ones only.
LEMMA PublishIsNew ==
  ASSUME HostTypeInv, DecisionIsNew, [Host!Next]_(Host!vars), NEW q \in Host!Questions, NEW who,
         Host!Publish(q, who), answer[q].is \notin Host!Settled
  PROVE  DecisionIsNew'
<1>1. seq' = seq + 1 /\ seq \in Nat /\ decision'.seq <= seq'
  BY PublishSeq DEF HostTypeInv
<1>2. ASSUME NEW x \in Execs PROVE ActsOnNew(x)'
  <2>1. ActsOnNew(x)
    BY DEF DecisionIsNew
  <2>2. /\ exec[x].since \in Nat /\ exec[x].old \subseteq Host!Questions
    BY DEF HostTypeInv, ExecRecord
  <2>3. q \in Host!Questions \ exec[x].old
    BY <2>1 DEF ActsOnNew
  <2>4. exec'[x].since = exec[x].since /\ exec'[x].old = exec[x].old
    BY PublishOnly
  <2>5. decision'.seq > exec'[x].since => decision'.on \in Host!Questions \ exec'[x].old
    BY <2>2, <2>3, <2>4, PublishSeq
  <2>6. exec'[x].pc \in {"decided", "retry"} => exec'[x].on \in Host!Questions \ exec'[x].old
    <3>1. CASE exec[x].pc = "waiting"
      BY <2>3, <2>4, <3>1, PublishOnly
    <3>2. CASE exec[x].pc # "waiting"
      BY <2>1, <2>4, <3>2, PublishOnly DEF ActsOnNew
    <3>3. QED
      BY <3>1, <3>2
  <2>7. exec'[x].pc = "retry" => known' # <<>>
    <3>1. exec'[x].pc = "retry" => exec[x].pc = "retry"
      BY PublishOnly
    <3>2. QED
      BY <2>1, <3>1, QuestionsStaySettled DEF ActsOnNew
  <2>8. \A p \in exec'[x].old : answer'[p].is \in Host!Settled
    BY <2>1, <2>2, <2>4, QuestionsStaySettled DEF ActsOnNew
  <2>9. exec'[x].since <= seq'
    BY <1>1, <2>1, <2>2, <2>4 DEF ActsOnNew
  <2>10. QED
    BY <2>5, <2>6, <2>7, <2>8, <2>9 DEF ActsOnNew
<1>3. QED
  BY <1>1, <1>2 DEF DecisionIsNew

\* Every action keeps that a command acts on a new decision.
LEMMA DecisionStep == HostTypeInv /\ AskedIsOpen /\ DecisionIsNew /\ [Host!Next]_(Host!vars) => DecisionIsNew'
<1> SUFFICES ASSUME HostTypeInv, AskedIsOpen, DecisionIsNew, [Host!Next]_(Host!vars) PROVE DecisionIsNew'
  OBVIOUS
<1>a. \A y \in Execs : ActsOnNew(y)
  BY DEF DecisionIsNew
<1>b. \A y \in Execs : exec[y].since \in Nat /\ exec[y].old \subseteq Host!Questions
  BY DEF HostTypeInv, ExecRecord
<1>1. ASSUME UNCHANGED <<seq, decision, exec>> PROVE DecisionIsNew'
  BY <1>1, <1>a, ActsOnSame DEF DecisionIsNew
<1>2. CASE Host!OtherConnect \/ Host!NewKey \/ Host!Mount \/ UNCHANGED Host!vars
  BY <1>1, <1>2 DEF Host!OtherConnect, Host!NewKey, Host!Mount, Host!vars, Host!page
<1>3. CASE \E e \in events : Host!Unheard(e)
  BY <1>1, <1>3 DEF Host!Unheard
<1>4. CASE \E q \in Host!Questions : Host!Answer(q) \/ Host!Save(q)
  BY <1>1, <1>4 DEF Host!Answer, Host!Save, Host!Settle
<1>5. ASSUME NEW e \in events, Host!HandleHostKeyPrompt(e) PROVE DecisionIsNew'
  <2>1. e[2] \in Host!HostKeys
    BY DEF HostTypeInv
  <2>2. PICK q \in Host!Questions : Host!Publish(q, e[1]) /\ answer[q].is \notin Host!Settled
    <3>1. CASE asked[e[2]] # Host!NoQuestion
      <4>1. asked[e[2]] \in Host!Questions /\ Host!Open(asked[e[2]])
        BY <2>1, <3>1 DEF HostTypeInv, AskedIsOpen
      <4>2. Host!Publish(asked[e[2]], e[1])
        BY <1>5, <3>1 DEF Host!HandleHostKeyPrompt
      <4>3. QED
        BY <4>1, <4>2 DEF Host!Open, Host!Settled
    <3>2. CASE asked[e[2]] = Host!NoQuestion
      BY <1>5, <3>2 DEF Host!HandleHostKeyPrompt, Host!Settled
    <3>3. QED
      BY <3>1, <3>2
  <2>3. QED
    BY <2>2, PublishIsNew
<1>6. ASSUME NEW x \in Execs, Host!Start(x) PROVE DecisionIsNew'
  <2>1. UNCHANGED <<seq, decision, answer, known>>
    BY <1>6 DEF Host!Start, Host!page
  <2>2. ActsOnNew(x)'
    <3>1. exec'[x].since = seq /\ exec'[x].pc = "first"
          /\ exec'[x].old = {q \in Host!Questions : answer[q].is \in Host!Settled}
      BY <1>6, StartOnly
    <3>2. seq \in Nat /\ decision.seq \in Nat /\ decision.seq <= seq
      BY DEF HostTypeInv, DecisionIsNew
    <3>3. QED
      BY <2>1, <3>1, <3>2 DEF ActsOnNew
  <2>3. ASSUME NEW y \in Execs \ {x} PROVE ActsOnNew(y)'
    BY <1>6, <1>a, <2>1, StartOnly, ActsOnSame
  <2>4. QED
    BY <2>1, <2>2, <2>3 DEF DecisionIsNew
\* The other steps of a command leave the others as they were.
<1>7. ASSUME NEW x \in Execs, \A y \in Execs \ {x} : exec'[y] = exec[y],
             ActsOnNew(x)', UNCHANGED <<seq, decision>>
      PROVE  DecisionIsNew'
  BY <1>7, <1>a, ActsOnSame DEF DecisionIsNew
<1>8. ASSUME NEW x \in Execs, NEW how, Host!End(x, how), UNCHANGED <<seq, decision>>
      PROVE  DecisionIsNew'
  <2>1. ActsOnNew(x)'
    BY <1>8, <1>a, <1>b, EndOnly, QuestionsStaySettled DEF ActsOnNew
  <2>2. QED
    BY <1>7, <1>8, <2>1, EndOnly
<1>9. ASSUME NEW x \in Execs, NEW pc \in {"refused", "waiting", "retry"},
             Host!Call(x, [exec[x] EXCEPT !.pc = pc]),
             pc = "retry" => exec[x].pc = "decided" /\ known' # <<>>,
             UNCHANGED <<seq, decision>>
      PROVE  DecisionIsNew'
  <2>1. ActsOnNew(x)'
    <3>1. ActsOnNew(x)
      BY <1>a
    <3>2. /\ exec'[x].pc = pc /\ exec'[x].on = exec[x].on
          /\ exec'[x].since = exec[x].since /\ exec'[x].old = exec[x].old
      BY <1>9, GoOnOnly
    <3>3. QED
      BY <1>9, <1>b, <3>1, <3>2, QuestionsStaySettled DEF ActsOnNew
  <2>2. QED
    BY <1>7, <1>9, <2>1, GoOnOnly
<1>10. ASSUME NEW x \in Execs, Host!Connect(x) PROVE DecisionIsNew'
  <2>1. UNCHANGED <<seq, decision>>
    BY <1>10 DEF Host!Connect, Host!page
  <2>2. Host!Call(x, [exec[x] EXCEPT !.pc = "refused"]) \/ \E how : Host!End(x, how)
    BY <1>10 DEF Host!Connect
  <2>3. QED
    BY <1>8, <1>9, <2>1, <2>2
<1>11. ASSUME NEW x \in Execs, Host!AwaitDecision(x) PROVE DecisionIsNew'
  <2>1. CASE decision.seq > exec[x].since
    <3>1. decision' = Host!NoDecision /\ Host!Call(x, [exec[x] EXCEPT !.pc = "decided", !.on = decision.on])
          /\ UNCHANGED seq
      BY <1>11, <2>1 DEF Host!AwaitDecision
    <3>2. decision'.seq = 0 /\ seq \in Nat
      BY <3>1 DEF Host!NoDecision, HostTypeInv
    <3>3. decision.on \in Host!Questions \ exec[x].old
      BY <1>a, <2>1 DEF ActsOnNew
    <3>4. ActsOnNew(x)'
      <4>1. ActsOnNew(x)
        BY <1>a
      <4>2. /\ exec'[x].pc = "decided" /\ exec'[x].on = decision.on
            /\ exec'[x].since = exec[x].since /\ exec'[x].old = exec[x].old
        BY <3>1, TakeOnly
      <4>3. QED
        BY <1>b, <3>1, <3>2, <3>3, <4>1, <4>2, QuestionsStaySettled DEF ActsOnNew
    <3>5. ASSUME NEW y \in Execs \ {x} PROVE ActsOnNew(y)'
      <4>1. exec'[y] = exec[y] /\ ActsOnNew(y) /\ exec[y].since \in Nat
        BY <1>a, <1>b, <3>1, TakeOnly
      <4>2. QED
        BY <1>b, <3>1, <3>2, <4>1, QuestionsStaySettled DEF ActsOnNew
    <3>6. QED
      BY <3>1, <3>2, <3>4, <3>5 DEF DecisionIsNew
  <2>2. CASE ~ (decision.seq > exec[x].since)
    BY <1>9, <1>11, <2>2 DEF Host!AwaitDecision
  <2>3. QED
    BY <2>1, <2>2
<1>12. ASSUME NEW x \in Execs, Host!GiveUp(x) PROVE DecisionIsNew'
  BY <1>8, <1>12 DEF Host!GiveUp, Host!page
<1>13. ASSUME NEW x \in Execs, Host!Decided(x) PROVE DecisionIsNew'
  <2>1. UNCHANGED <<seq, decision, known>>
    BY <1>13 DEF Host!Decided, Host!page
  <2>2. CASE answer[exec[x].on].is = "accepted"
    <3>1. exec[x].on \in Host!Questions /\ exec[x].pc = "decided"
      BY <1>13, <1>a DEF Host!Decided, ActsOnNew
    <3>2. known' # <<>>
      BY <2>1, <2>2, <3>1 DEF AskedIsOpen
    <3>3. Host!Call(x, [exec[x] EXCEPT !.pc = "retry"])
      BY <1>13, <2>2 DEF Host!Decided
    <3>4. QED
      BY <1>9, <2>1, <3>1, <3>2, <3>3
  <2>3. CASE answer[exec[x].on].is # "accepted"
    BY <1>8, <1>13, <2>1, <2>3 DEF Host!Decided
  <2>4. QED
    BY <2>2, <2>3
<1>14. QED
  BY <1>2, <1>3, <1>4, <1>5, <1>6, <1>10, <1>11, <1>12, <1>13 DEF Host!Next

-----------------------------------------------------------------------------
(***************************************************************************)
(* Only a command that is not alone misses its answer.                     *)
(***************************************************************************)
LEMMA PublishIsHeard ==
  ASSUME HostTypeInv, DecisionIsNew, AloneIsHeard, NEW q \in Host!Questions, NEW who, Host!Publish(q, who)
  PROVE  AloneIsHeard'
<1> SUFFICES ASSUME NEW x \in Execs PROVE HearsAlone(x)'
  BY DEF AloneIsHeard
<1>1. HearsAlone(x) /\ exec[x].since <= seq /\ exec[x].since \in Nat /\ seq \in Nat
  BY DEF AloneIsHeard, DecisionIsNew, ActsOnNew, HostTypeInv, ExecRecord
<1>2. \A y \in Execs : Host!Busy(y)' <=> Host!Busy(y)
  BY PublishOnly DEF Host!Busy
<1>3. /\ exec'[x].end = exec[x].end /\ exec'[x].since = exec[x].since
      /\ exec'[x].alone = exec[x].alone /\ exec'[x].pc # "waiting"
      /\ exec'[x].pc = "refused" => exec[x].pc = "refused"
      /\ exec'[x].pc = "first" => exec[x].pc = "first" /\ exec'[x].heard = exec[x].heard
      /\ ~Host!Busy(x) => exec'[x].heard = exec[x].heard
  BY PublishOnly DEF Host!Busy
<1>4. ASSUME Host!Busy(x), exec[x].alone, exec[x].pc = "refused"
      PROVE  decision'.seq > exec'[x].since
  <2>1. \A y \in Execs : exec[y].pc # "waiting"
    BY <1>1, <1>4 DEF HearsAlone, Host!Busy
  <2>2. decision'.seq = seq + 1
    BY <2>1, PublishSeq
  <2>3. QED
    BY <1>1, <1>3, <2>2
<1>5. exec'[x].end = "unconfirmed" /\ exec'[x].heard => ~exec'[x].alone
  BY <1>1, <1>3 DEF HearsAlone
<1>6. QED
  BY <1>1, <1>2, <1>3, <1>4, <1>5 DEF HearsAlone, Host!Busy

\* Every action keeps that a command alone hears its decision.
LEMMA HearStep == HostTypeInv /\ DecisionIsNew /\ AloneIsHeard /\ [Host!Next]_(Host!vars) => AloneIsHeard'
<1> SUFFICES ASSUME HostTypeInv, DecisionIsNew, AloneIsHeard, [Host!Next]_(Host!vars) PROVE AloneIsHeard'
  OBVIOUS
<1>a. \A y \in Execs : HearsAlone(y) /\ exec[y] \in ExecRecord
  BY DEF AloneIsHeard, HostTypeInv
<1>1. ASSUME UNCHANGED <<decision, exec>> PROVE AloneIsHeard'
  BY <1>1 DEF AloneIsHeard, HearsAlone, Host!Busy
<1>2. CASE Host!OtherConnect \/ Host!NewKey \/ Host!Mount \/ UNCHANGED Host!vars
  BY <1>1, <1>2 DEF Host!OtherConnect, Host!NewKey, Host!Mount, Host!vars, Host!page
<1>3. CASE \E e \in events : Host!Unheard(e)
  BY <1>1, <1>3 DEF Host!Unheard
<1>4. CASE \E q \in Host!Questions : Host!Answer(q) \/ Host!Save(q)
  BY <1>1, <1>4 DEF Host!Answer, Host!Save, Host!Settle
<1>5. ASSUME NEW e \in events, Host!HandleHostKeyPrompt(e) PROVE AloneIsHeard'
  <2>1. PICK q \in Host!Questions : Host!Publish(q, e[1])
    <3>1. e[2] \in Host!HostKeys
      BY DEF HostTypeInv
    <3>2. CASE asked[e[2]] # Host!NoQuestion
      <4>1. asked[e[2]] \in Host!Questions
        BY <3>1, <3>2 DEF HostTypeInv
      <4>2. QED
        BY <1>5, <3>2, <4>1 DEF Host!HandleHostKeyPrompt
    <3>3. CASE asked[e[2]] = Host!NoQuestion
      BY <1>5, <3>3 DEF Host!HandleHostKeyPrompt
    <3>4. QED
      BY <3>2, <3>3
  <2>2. QED
    BY <2>1, PublishIsHeard
<1>6. ASSUME NEW x \in Execs, Host!Start(x) PROVE AloneIsHeard'
  <2>1. HearsAlone(x)'
    <3>1. /\ exec'[x].pc = "first" /\ exec'[x].end = "none" /\ exec'[x].heard = FALSE
          /\ exec'[x].alone => \A z \in Execs \ {x} : ~Host!Busy(z)
      BY <1>6, StartOnly
    <3>2. \A z \in Execs \ {x} : Host!Busy(z)' <=> Host!Busy(z)
      BY <1>6, StartOnly DEF Host!Busy
    <3>3. QED
      BY <3>1, <3>2 DEF HearsAlone
  <2>2. ASSUME NEW y \in Execs \ {x} PROVE HearsAlone(y)'
    <3>1. /\ exec'[y].alone = FALSE /\ exec'[y].end = exec[y].end
          /\ exec'[y].pc = exec[y].pc /\ exec'[y].heard = exec[y].heard
      BY <1>6, StartOnly
    <3>2. QED
      BY <1>a, <3>1 DEF HearsAlone, Host!Busy
  <2>3. QED
    BY <2>1, <2>2 DEF AloneIsHeard
\* A step of one command, while it is busy.
<1>7. ASSUME NEW x \in Execs, Host!Busy(x), \A y \in Execs \ {x} : exec'[y] = exec[y],
             HearsAlone(x)'
      PROVE  AloneIsHeard'
  <2>1. ASSUME NEW y \in Execs \ {x} PROVE HearsAlone(y)'
    <3>1. exec'[y] = exec[y] /\ HearsAlone(y)
      BY <1>7, <1>a
    <3>2. Host!Busy(y) => exec[y].alone = FALSE
      BY <1>7, <1>a, <3>1 DEF HearsAlone, ExecRecord
    <3>3. QED
      BY <3>1, <3>2 DEF HearsAlone, Host!Busy
  <2>2. QED
    BY <1>7, <2>1 DEF AloneIsHeard
\* Its call ends, and not in silence.
<1>8. ASSUME NEW x \in Execs, NEW how, Host!Busy(x), Host!End(x, how),
             how = "unconfirmed" => exec[x].pc = "waiting"
      PROVE  AloneIsHeard'
  <2>1. HearsAlone(x)'
    <3>1. /\ exec'[x].pc = "idle" /\ exec'[x].end = how
          /\ exec'[x].heard = exec[x].heard /\ exec'[x].alone = exec[x].alone
      BY <1>8, EndOnly
    <3>2. how = "unconfirmed" /\ exec[x].heard => ~exec[x].alone
      BY <1>8, <1>a DEF HearsAlone
    <3>3. QED
      BY <3>1, <3>2 DEF HearsAlone, Host!Busy
  <2>2. QED
    BY <1>7, <1>8, <2>1, EndOnly
\* Its call goes on.
<1>9. ASSUME NEW x \in Execs, NEW pc \in {"refused", "waiting", "retry"}, Host!Busy(x),
             Host!Call(x, [exec[x] EXCEPT !.pc = pc]), UNCHANGED decision,
             pc = "refused" => exec[x].heard = FALSE,
             pc = "waiting" => exec[x].pc = "refused" /\ ~ (decision.seq > exec[x].since)
      PROVE  AloneIsHeard'
  <2>1. HearsAlone(x)'
    <3>1. /\ exec'[x].pc = pc /\ exec'[x].end = exec[x].end
          /\ exec'[x].heard = exec[x].heard /\ exec'[x].alone = exec[x].alone
          /\ \A y \in Execs \ {x} : exec'[y] = exec[y]
      BY <1>9, GoOnOnly
    <3>2. \A y \in Execs \ {x} : Host!Busy(y)' <=> Host!Busy(y)
      BY <3>1 DEF Host!Busy
    <3>3. QED
      BY <1>9, <1>a, <3>1, <3>2 DEF HearsAlone, Host!Busy
  <2>2. QED
    BY <1>7, <1>9, <2>1, GoOnOnly
<1>10. ASSUME NEW x \in Execs, Host!Connect(x) PROVE AloneIsHeard'
  <2>1. UNCHANGED decision /\ Host!Busy(x)
    BY <1>10 DEF Host!Connect, Host!page, Host!Busy
  <2>2. \/ exec[x].pc = "first" /\ Host!Call(x, [exec[x] EXCEPT !.pc = "refused"])
        \/ \E how \in {"ran", "mismatch", "unknown again"} : Host!End(x, how)
    BY <1>10 DEF Host!Connect
  <2>3. exec[x].pc = "first" => exec[x].heard = FALSE
    BY <1>a DEF HearsAlone, ExecRecord
  <2>4. QED
    BY <1>8, <1>9, <2>1, <2>2, <2>3
<1>11. ASSUME NEW x \in Execs, Host!AwaitDecision(x) PROVE AloneIsHeard'
  <2>1. CASE decision.seq > exec[x].since
    <3>1. Host!Call(x, [exec[x] EXCEPT !.pc = "decided", !.on = decision.on]) /\ Host!Busy(x)
      BY <1>11, <2>1 DEF Host!AwaitDecision, Host!Busy
    <3>2. HearsAlone(x)'
      <4>1. /\ exec'[x].pc = "decided" /\ exec'[x].end = exec[x].end
            /\ exec'[x].heard = exec[x].heard /\ exec'[x].alone = exec[x].alone
            /\ \A y \in Execs \ {x} : exec'[y] = exec[y]
        BY <3>1, TakeOnly
      <4>2. \A y \in Execs \ {x} : Host!Busy(y)' <=> Host!Busy(y)
        BY <4>1 DEF Host!Busy
      <4>3. QED
        BY <1>a, <3>1, <4>1, <4>2 DEF HearsAlone, Host!Busy
    <3>3. QED
      BY <1>7, <3>1, <3>2, TakeOnly
  <2>2. CASE ~ (decision.seq > exec[x].since)
    BY <1>9, <1>11, <2>2 DEF Host!AwaitDecision, Host!Busy
  <2>3. QED
    BY <2>1, <2>2
<1>12. ASSUME NEW x \in Execs, Host!GiveUp(x) PROVE AloneIsHeard'
  BY <1>8, <1>12 DEF Host!GiveUp, Host!Busy
<1>13. ASSUME NEW x \in Execs, Host!Decided(x) PROVE AloneIsHeard'
  <2>1. UNCHANGED decision /\ Host!Busy(x)
    BY <1>13 DEF Host!Decided, Host!page, Host!Busy
  <2>2. CASE answer[exec[x].on].is = "accepted"
    BY <1>9, <1>13, <2>1, <2>2 DEF Host!Decided
  <2>3. CASE answer[exec[x].on].is # "accepted"
    BY <1>8, <1>13, <2>1, <2>3 DEF Host!Decided, Host!Settled
  <2>4. QED
    BY <2>2, <2>3
<1>14. QED
  BY <1>2, <1>3, <1>4, <1>5, <1>6, <1>10, <1>11, <1>12, <1>13 DEF Host!Next

-----------------------------------------------------------------------------
\* The invariant holds at first.
LEMMA HostInit == Host!Init => HostInv
<1> SUFFICES ASSUME Host!Init PROVE HostInv
  OBVIOUS
<1>1. Host!NoCall \in ExecRecord /\ \A x \in Execs : exec[x] = Host!NoCall
  BY DEF Host!Init, Host!NoCall, ExecRecord
<1>2. HostTypeInv
  BY <1>1 DEF Host!Init, HostTypeInv, Host!HostKeys, AnswerRecord, Host!NoDecision
<1>3. AskedIsOpen
  BY DEF Host!Init, AskedIsOpen, Host!Open
<1>4. DecisionIsNew
  BY <1>1 DEF Host!Init, DecisionIsNew, ActsOnNew, Host!NoDecision, Host!NoCall
<1>5. AloneIsHeard
  BY <1>1 DEF AloneIsHeard, HearsAlone, Host!Busy, Host!NoCall
<1>6. QED
  BY <1>2, <1>3, <1>4, <1>5 DEF HostInv

\* Every action keeps it.
LEMMA HostStep == HostInv /\ [Host!Next]_(Host!vars) => HostInv'
BY HostTypeStep, AskedStep, DecisionStep, HearStep DEF HostInv

\* It gives HostKeysAreAsked: one question, no old answer, no early retry.
LEMMA HostKeeps == HostInv => Host!HostKeysAreAsked
<1> SUFFICES ASSUME HostInv PROVE Host!HostKeysAreAsked
  OBVIOUS
<1>1. Host!OneQuestionPerKey
  BY DEF HostInv, AskedIsOpen, Host!OneQuestionPerKey
<1>2. Host!AnswerIsNotOld /\ Host!RetryAfterSave
  BY DEF HostInv, DecisionIsNew, ActsOnNew, Host!AnswerIsNotOld, Host!RetryAfterSave
<1>3. Host!SilenceHasACause
  BY DEF HostInv, AloneIsHeard, HearsAlone, Host!SilenceHasACause
<1>4. QED
  BY <1>1, <1>2, <1>3 DEF Host!HostKeysAreAsked

(* However many commands meet an unknown key, whatever is asked, answered, saved or
   published late: one dialog asks about a key, an answer counts only for the commands
   started before it, none is repeated before the key is written, and a command that
   hears nothing had another beside it (handleHostKeyPrompt, awaitHostKeyDecision). *)
THEOREM KeysAreAsked == Host!Spec => []Host!HostKeysAreAsked
BY HostInit, HostStep, HostKeeps, PTL DEF Host!Spec

\* The window listens or it does not.
ListenInv == listening \in BOOLEAN

\* What a page listens to, and the bound of calls, at first.
LEMMA ListenInit == Host!Init => ListenInv
BY DEF Host!Init, ListenInv

\* And after every action.
LEMMA ListenStep == ListenInv /\ [Host!Next]_(Host!vars) => ListenInv'
<1> SUFFICES ASSUME ListenInv, [Host!Next]_(Host!vars) PROVE ListenInv'
  OBVIOUS
<1> USE DEF ListenInv, Host!page
<1>1. CASE UNCHANGED Host!vars
  BY <1>1 DEF Host!vars
<1>2. CASE Host!OtherConnect \/ Host!NewKey \/ Host!Mount
  BY <1>2 DEF Host!OtherConnect, Host!NewKey, Host!Mount
<1>3. ASSUME NEW e \in events, Host!HandleHostKeyPrompt(e) \/ Host!Unheard(e) PROVE ListenInv'
  BY <1>3 DEF Host!HandleHostKeyPrompt, Host!Unheard
<1>4. ASSUME NEW q \in Host!Questions, Host!Answer(q) \/ Host!Save(q) PROVE ListenInv'
  BY <1>4 DEF Host!Answer, Host!Save, Host!Settle
<1>5. ASSUME NEW x \in Execs,
             Host!Start(x) \/ Host!Connect(x) \/ Host!AwaitDecision(x) \/ Host!GiveUp(x) \/ Host!Decided(x)
      PROVE  ListenInv'
  BY <1>5 DEF Host!Start, Host!Connect, Host!AwaitDecision, Host!GiveUp, Host!Decided
<1>6. QED
  BY <1>1, <1>2, <1>3, <1>4, <1>5 DEF Host!Next

\* Both give the types (TypeOK).
LEMMA HostIsTyped == HostInv /\ ListenInv => Host!TypeOK
BY DEF HostInv, HostTypeInv, AnswerRecord, ExecRecord, ListenInv, Host!TypeOK

-----------------------------------------------------------------------------
(***************************************************************************)
(* Gates, records and passwords of provisioning, for any set of domains    *)
(* and any number of faults.                                               *)
(***************************************************************************)
(* The cardinality of a set, as Provision counts it. *)
LEMMA ProvSizes ==
  /\ \A S : Prov!Cardinality(S) = Cardinality(S)
  /\ \A S : Prov!IsFiniteSet(S) <=> IsFiniteSet(S)
  BY DEF Prov!Cardinality, Prov!IsFiniteSet, Cardinality, IsFiniteSet

ProvRunRecord == [pc : {"no", "confirm", "ssh", "save"}, targets : SUBSET Domains,
              todo : SUBSET Domains, made : Seq(Domains), heard : BOOLEAN]

ProvTypeInv ==
    /\ run \in [Prov!Runs -> ProvRunRecord]
    /\ gate \in [Domains -> {"free", "single", "bulk"}]
    /\ record \in [SUBSET Domains -> {"open", "running", "done"}]
    /\ queue \in Seq(Domains)
    /\ user \in BOOLEAN /\ workspace \in BOOLEAN /\ faults \in Nat
    /\ crashed \in BOOLEAN

(***************************************************************************)
(* The inductive invariant.                                                *)
(***************************************************************************)
\* The runs that are on share no domain, and their targets are what is shut.
Disjoint ==
    \A q, r \in Prov!Runs :
       Prov!Active(q) /\ Prov!Active(r) /\ run[q].targets \cap run[r].targets # {} => q = r

GateInv == Disjoint /\ Prov!GateFollowsTheRuns

\* What a set still has to do is all that may be missing on the servers.
SetIsHalfDone ==
    \A r \in Prov!Bulks :
       /\ run[r].pc # "no" => run[r].targets # {}
       /\ run[r].pc = "ssh" => run[r].targets \subseteq account \union run[r].todo

RecordInv == SetIsHalfDone /\ Prov!RecordIsTrue

\* What a run need not save any more is in the vault or could not be saved; a run
\* over one domain has made nothing while it is on the server.
RunSaves(r) ==
    /\ run[r].pc = "save" => run[r].todo \subseteq Prov!Made(run[r].made)
    /\ run[r].pc = "save" =>
          Prov!Made(run[r].made) \subseteq stored \union unsaved \union run[r].todo
    /\ run[r].pc = "ssh" /\ r \notin Prov!Bulks => Prov!Made(run[r].made) = {}

SavedSoFar == \A r \in Prov!Runs : RunSaves(r)

PasswordInv == SavedSoFar /\ Prov!PasswordIsStored /\ Prov!PasswordIsShown

ProvisionInv == ProvTypeInv /\ GateInv /\ RecordInv /\ PasswordInv

-----------------------------------------------------------------------------
(***************************************************************************)
(* The runs, one by one.                                                   *)
(***************************************************************************)
LEMMA KindOfRun ==
  /\ \A r \in Prov!Singles : Prov!Kind(r) = "single" /\ r \in Prov!Runs /\ r \notin Prov!Bulks
  /\ \A r \in Prov!Bulks : Prov!Kind(r) = "bulk" /\ r \in Prov!Runs
  /\ \A r \in Prov!Runs : Prov!Kind(r) = "bulk" <=> r \in Prov!Bulks
<1>1. \A r \in Prov!Singles : r[1] = "single"
  BY DEF Prov!Singles
<1>2. \A r \in Prov!Bulks : r[1] = "bulk"
  BY DEF Prov!Bulks
<1>3. QED
  BY <1>1, <1>2 DEF Prov!Kind, Prov!Runs

\* The domains made are among those of the run.
LEMMA MadeIsDomains ==
  /\ \A m \in Seq(Domains) : Prov!Made(m) \subseteq Domains
  /\ Prov!Made(<<>>) = {}
  /\ \A m \in Seq(Domains), d \in Domains :
        Append(m, d) \in Seq(Domains) /\ Prov!Made(Append(m, d)) = Prov!Made(m) \union {d}
<1>1. \A m \in Seq(Domains) : Prov!Made(m) \subseteq Domains
  BY DEF Prov!Made
<1>2. Prov!Made(<<>>) = {}
  BY DEF Prov!Made
<1>3. ASSUME NEW m \in Seq(Domains), NEW d \in Domains
      PROVE  Append(m, d) \in Seq(Domains) /\ Prov!Made(Append(m, d)) = Prov!Made(m) \union {d}
  <2>1. /\ Append(m, d) \in Seq(Domains) /\ Len(Append(m, d)) = Len(m) + 1
        /\ Append(m, d)[Len(m) + 1] = d
        /\ \A i \in 1..Len(m) : Append(m, d)[i] = m[i]
    OBVIOUS
  <2>2. DOMAIN Append(m, d) = 1..(Len(m) + 1) /\ DOMAIN m = 1..Len(m) /\ Len(m) \in Nat
    BY <2>1
  <2>3. \A x : x \in Prov!Made(Append(m, d)) <=> x \in Prov!Made(m) \union {d}
    BY <2>1, <2>2 DEF Prov!Made
  <2>4. QED
    BY <2>1, <2>3
<1>4. QED
  BY <1>1, <1>2, <1>3

\* A step of one run is no matter of the others.
LEMMA StepOnly ==
  ASSUME ProvTypeInv, NEW r \in Prov!Runs, NEW j, Prov!Step(r, j)
  PROVE  /\ run'[r] = j /\ \A q \in Prov!Runs \ {r} : run'[q] = run[q]
         /\ j \in ProvRunRecord => run' \in [Prov!Runs -> ProvRunRecord]
BY DEF Prov!Step, ProvTypeInv

\* No run is a record of the type of runs, and has nothing.
LEMMA NoRunType ==
  /\ Prov!NoRun \in ProvRunRecord /\ Prov!NoRun.pc = "no" /\ Prov!NoRun.targets = {} /\ Prov!NoRun.todo = {}
  /\ Prov!NoRun.heard = TRUE /\ Prov!NoRun.made = <<>>
BY DEF Prov!NoRun, ProvRunRecord

\* A run that claims its domains is of the type of runs.
LEMMA ClaimType ==
  ASSUME NEW ds, NEW k \in {"free", "single", "bulk"}, ProvTypeInv, Prov!Claim(ds, k)
  PROVE  gate' \in [Domains -> {"free", "single", "bulk"}]
BY DEF Prov!Claim, ProvTypeInv

\* A run that is begun.
LEMMA RunSingleOnly ==
  ASSUME ProvTypeInv, NEW d \in Domains, Prov!RunSingle(d)
  PROVE  /\ <<"single", d>> \in Prov!Singles
         /\ run'[<<"single", d>>] \in ProvRunRecord
         /\ run'[<<"single", d>>].pc = "ssh" /\ run'[<<"single", d>>].targets = {d}
         /\ run'[<<"single", d>>].made = <<>> /\ run'[<<"single", d>>].heard = TRUE
         /\ run'[<<"single", d>>].todo = {d}
         /\ \A q \in Prov!Runs \ {<<"single", d>>} : run'[q] = run[q]
         /\ run' \in [Prov!Runs -> ProvRunRecord]
<1> DEFINE j == [Prov!NoRun EXCEPT !.pc = "ssh", !.targets = {d}, !.todo = {d}]
<1>1. <<"single", d>> \in Prov!Singles /\ <<"single", d>> \in Prov!Runs
  BY DEF Prov!Singles, Prov!Runs
<1>2. /\ j \in ProvRunRecord /\ j.pc = "ssh" /\ j.targets = {d} /\ j.todo = {d} /\ j.made = <<>>
      /\ j.heard = TRUE
  BY NoRunType DEF ProvRunRecord
<1>3. Prov!Step(<<"single", d>>, j)
  BY DEF Prov!RunSingle
<1> HIDE DEF j
<1>4. QED
  BY <1>1, <1>2, <1>3, StepOnly

\* What asking for a bulk run writes.
LEMMA AskBulkOnly ==
  ASSUME ProvTypeInv, NEW r \in Prov!Bulks, NEW ds \in SUBSET Domains, Prov!AskBulk(r, ds)
  PROVE  /\ run[r].pc = "no" /\ run'[r].pc = "confirm" /\ run'[r].targets = ds /\ ds # {}
         /\ run'[r].heard = TRUE /\ run'[r].todo = {} /\ run'[r].made = <<>>
         /\ \A q \in Prov!Runs \ {r} : run'[q] = run[q]
         /\ run' \in [Prov!Runs -> ProvRunRecord]
<1> DEFINE j == [Prov!NoRun EXCEPT !.pc = "confirm", !.targets = ds]
<1>1. /\ j \in ProvRunRecord /\ j.pc = "confirm" /\ j.targets = ds /\ j.heard = TRUE
      /\ j.todo = {} /\ j.made = <<>>
  BY NoRunType DEF ProvRunRecord
<1>2. Prov!Step(r, j) /\ run[r].pc = "no" /\ ds # {} /\ r \in Prov!Runs
  BY DEF Prov!AskBulk, Prov!Runs
<1> HIDE DEF j
<1>3. QED
  BY <1>1, <1>2, StepOnly

\* A set that is begun, or that its record refuses.
LEMMA ConfirmOnly ==
  ASSUME ProvTypeInv, NEW r \in Prov!Bulks, Prov!ConfirmBulk(r)
  PROVE  /\ r \in Prov!Runs /\ run[r].pc = "confirm" /\ user
         /\ \A d \in run[r].targets : gate[d] = "free"
         /\ \A q \in Prov!Runs \ {r} : run'[q] = run[q]
         /\ run' \in [Prov!Runs -> ProvRunRecord]
         /\ \/ run'[r] = Prov!NoRun /\ UNCHANGED <<gate, record>>
            \/ /\ run'[r].pc = "ssh" /\ run'[r].targets = run[r].targets
               /\ run'[r].todo = run[r].targets /\ run'[r].heard = run[r].heard
               /\ run'[r].made = run[r].made
               /\ Prov!Claim(run[r].targets, "bulk")
               /\ record' = [record EXCEPT ![run[r].targets] = "running"]
<1>1. r \in Prov!Runs /\ run[r] \in ProvRunRecord
  BY DEF Prov!Runs, ProvTypeInv
<1> DEFINE j == [run[r] EXCEPT !.pc = "ssh", !.todo = run[r].targets]
<1>2. /\ j \in ProvRunRecord /\ j.pc = "ssh" /\ j.targets = run[r].targets
      /\ j.todo = run[r].targets /\ j.heard = run[r].heard /\ j.made = run[r].made
  BY <1>1 DEF ProvRunRecord
<1>3. \/ Prov!Step(r, Prov!NoRun) /\ UNCHANGED <<gate, record>>
      \/ /\ Prov!Step(r, j) /\ Prov!Claim(run[r].targets, "bulk")
         /\ record' = [record EXCEPT ![run[r].targets] = "running"]
  BY DEF Prov!ConfirmBulk
<1>4. \A d \in run[r].targets : gate[d] = "free"
  BY DEF Prov!ConfirmBulk, Prov!AlreadyProvisioning
<1>5. run[r].pc = "confirm" /\ user
  BY DEF Prov!ConfirmBulk
<1> HIDE DEF j
<1>6. CASE Prov!Step(r, Prov!NoRun) /\ UNCHANGED <<gate, record>>
  BY <1>1, <1>4, <1>5, <1>6, StepOnly, NoRunType
<1>7. CASE Prov!Step(r, j) /\ Prov!Claim(run[r].targets, "bulk")
           /\ record' = [record EXCEPT ![run[r].targets] = "running"]
  BY <1>1, <1>2, <1>4, <1>5, <1>7, StepOnly
<1>8. QED
  BY <1>3, <1>6, <1>7

\* One domain more is done, or the last.
LEMMA ProvisionedOnly ==
  ASSUME ProvTypeInv, NEW r \in Prov!Runs, Prov!Provisioned(r)
  PROVE  \E d \in run[r].todo :
            /\ d \in Domains /\ run[r].pc = "ssh" /\ account' = account \union {d}
            /\ run'[r].targets = run[r].targets /\ run'[r].heard = run[r].heard
            /\ Prov!Made(run'[r].made) = Prov!Made(run[r].made) \union ({d} \ account)
            /\ \/ /\ run'[r].pc = "ssh" /\ run'[r].todo = run[r].todo \ {d}
                  /\ record' = record
               \/ /\ run'[r].pc = "save" /\ run'[r].todo = Prov!Made(run'[r].made)
                  /\ IF Prov!Kind(r) = "bulk"
                     THEN /\ run[r].todo = {d}
                          /\ record' = [record EXCEPT ![run[r].targets] = "done"]
                     ELSE record' = record
            /\ \A q \in Prov!Runs \ {r} : run'[q] = run[q]
            /\ run' \in [Prov!Runs -> ProvRunRecord]
            /\ UNCHANGED <<Prov!screen, gate, stored, faults, Prov!fates>>
<1>1. run[r] \in ProvRunRecord
  BY DEF ProvTypeInv
<1>2. PICK d \in run[r].todo :
         LET rest == run[r].todo \ {d}
             made == IF d \in account THEN run[r].made ELSE Append(run[r].made, d)
         IN /\ run[r].pc = "ssh"
            /\ account' = account \union {d}
            /\ IF Prov!Kind(r) = "bulk" /\ rest # {}
               THEN Prov!Step(r, [run[r] EXCEPT !.todo = rest, !.made = made])
               ELSE Prov!Step(r, [run[r] EXCEPT !.pc = "save", !.todo = Prov!Made(made), !.made = made])
            /\ record' = IF Prov!Kind(r) = "bulk" /\ rest = {}
                         THEN [record EXCEPT ![run[r].targets] = "done"] ELSE record
            /\ UNCHANGED <<Prov!screen, gate, stored, faults, Prov!fates>>
  BY DEF Prov!Provisioned
<1> DEFINE m == IF d \in account THEN run[r].made ELSE Append(run[r].made, d)
           j == [run[r] EXCEPT !.todo = run[r].todo \ {d}, !.made = m]
           k == [run[r] EXCEPT !.pc = "save", !.todo = Prov!Made(m), !.made = m]
<1>3. d \in Domains /\ run[r].made \in Seq(Domains) /\ run[r].todo \subseteq Domains
  BY <1>1 DEF ProvRunRecord
<1>4. m \in Seq(Domains) /\ Prov!Made(m) = Prov!Made(run[r].made) \union ({d} \ account)
  BY <1>3, MadeIsDomains
<1>5. Prov!Made(m) \subseteq Domains
  BY <1>4, MadeIsDomains
<1>6. /\ Prov!Kind(r) = "bulk" /\ run[r].todo \ {d} # {} => Prov!Step(r, j)
      /\ ~ (Prov!Kind(r) = "bulk" /\ run[r].todo \ {d} # {}) => Prov!Step(r, k)
  BY <1>2
<1> HIDE DEF m
<1>7. /\ j \in ProvRunRecord /\ j.pc = run[r].pc /\ j.todo = run[r].todo \ {d} /\ j.made = m
      /\ j.targets = run[r].targets /\ j.heard = run[r].heard
  BY <1>1, <1>3, <1>4 DEF ProvRunRecord
<1>8. /\ k \in ProvRunRecord /\ k.pc = "save" /\ k.todo = Prov!Made(m) /\ k.made = m
      /\ k.targets = run[r].targets /\ k.heard = run[r].heard
  BY <1>1, <1>3, <1>4, <1>5 DEF ProvRunRecord
<1> HIDE DEF j, k
<1>9. CASE Prov!Kind(r) = "bulk" /\ run[r].todo \ {d} # {}
  <2>1. /\ run'[r] = j /\ \A q \in Prov!Runs \ {r} : run'[q] = run[q]
        /\ run' \in [Prov!Runs -> ProvRunRecord]
    BY <1>6, <1>7, <1>9, StepOnly
  <2>2. record' = record
    BY <1>2, <1>9
  <2>3. QED
    BY <1>2, <1>3, <1>4, <1>7, <2>1, <2>2
<1>10. CASE ~ (Prov!Kind(r) = "bulk" /\ run[r].todo \ {d} # {})
  <2>1. /\ run'[r] = k /\ \A q \in Prov!Runs \ {r} : run'[q] = run[q]
        /\ run' \in [Prov!Runs -> ProvRunRecord]
    BY <1>6, <1>8, <1>10, StepOnly
  <2>2. IF Prov!Kind(r) = "bulk"
        THEN run[r].todo = {d} /\ record' = [record EXCEPT ![run[r].targets] = "done"]
        ELSE record' = record
    BY <1>2, <1>10
  <2>3. QED
    BY <1>2, <1>3, <1>4, <1>8, <2>1, <2>2
<1>11. QED
  BY <1>9, <1>10

\* A run that fails: a set keeps what it has made, a single domain is let go.
LEMMA RunFailedOnly ==
  ASSUME ProvTypeInv, NEW r \in Prov!Runs, Prov!RunFailed(r)
  PROVE  /\ run[r].pc = "ssh" /\ faults' = faults + 1
         /\ account \subseteq account' /\ died \subseteq died' /\ account' \ account \subseteq died'
         /\ \/ /\ Prov!Kind(r) = "bulk" /\ record' = [record EXCEPT ![run[r].targets] = "open"]
               /\ run'[r].pc = "save" /\ run'[r].todo = Prov!Made(run[r].made)
               /\ run'[r].made = run[r].made /\ run'[r].targets = run[r].targets
               /\ run'[r].heard = run[r].heard
               /\ UNCHANGED gate
            \/ /\ Prov!Kind(r) # "bulk" /\ run'[r] = Prov!NoRun /\ Prov!Release(r) /\ UNCHANGED record
         /\ \A q \in Prov!Runs \ {r} : run'[q] = run[q]
         /\ run' \in [Prov!Runs -> ProvRunRecord]
         /\ UNCHANGED <<Prov!screen, stored, unsaved, unseen, crashed>>
<1> DEFINE j == [run[r] EXCEPT !.pc = "save", !.todo = Prov!Made(run[r].made)]
<1>1. run[r] \in ProvRunRecord /\ Prov!Made(run[r].made) \subseteq Domains
  <2>1. run[r] \in ProvRunRecord
    BY DEF ProvTypeInv
  <2>2. QED
    BY <2>1, MadeIsDomains DEF ProvRunRecord
<1>2. /\ j \in ProvRunRecord /\ j.pc = "save" /\ j.todo = Prov!Made(run[r].made) /\ j.made = run[r].made
      /\ j.targets = run[r].targets /\ j.heard = run[r].heard
  BY <1>1 DEF ProvRunRecord
<1>3. /\ run[r].pc = "ssh" /\ faults' = faults + 1
      /\ account \subseteq account' /\ died \subseteq died' /\ account' \ account \subseteq died'
      /\ UNCHANGED <<Prov!screen, stored, unsaved, unseen, crashed>>
      /\ \/ /\ Prov!Kind(r) = "bulk" /\ record' = [record EXCEPT ![run[r].targets] = "open"]
            /\ Prov!Step(r, j) /\ UNCHANGED gate
         \/ Prov!Kind(r) # "bulk" /\ Prov!Step(r, Prov!NoRun) /\ Prov!Release(r) /\ UNCHANGED record
  BY DEF Prov!RunFailed, Prov!Fault
<1> HIDE DEF j
<1>4. QED
  BY <1>2, <1>3, StepOnly, NoRunType

\* One password less to keep.
LEMMA SaveSecretOnly ==
  ASSUME ProvTypeInv, NEW r \in Prov!Runs, Prov!SaveSecret(r)
  PROVE  \E d :
            /\ d = run[r].made[Len(run[r].made) - Prov!Cardinality(run[r].todo) + 1]
            /\ run[r].pc = "save" /\ run[r].todo # {}
            /\ \/ stored' = stored \union {d} /\ UNCHANGED unsaved
               \/ unsaved' = unsaved \union {d} /\ UNCHANGED stored
            /\ faults' \in {faults, faults + 1}
            /\ run'[r].pc = "save" /\ run'[r].todo = run[r].todo \ {d}
            /\ run'[r].made = run[r].made /\ run'[r].targets = run[r].targets
            /\ run'[r].heard = run[r].heard
            /\ \A q \in Prov!Runs \ {r} : run'[q] = run[q]
            /\ run' \in [Prov!Runs -> ProvRunRecord]
            /\ UNCHANGED <<Prov!screen, gate, account, record, died, unseen, crashed>>
<1> DEFINE d == run[r].made[Len(run[r].made) - Prov!Cardinality(run[r].todo) + 1]
           j == [run[r] EXCEPT !.todo = run[r].todo \ {d}]
<1>1. run[r] \in ProvRunRecord
  BY DEF ProvTypeInv
<1>2. /\ run[r].pc = "save" /\ run[r].todo # {} /\ Prov!Step(r, j)
      /\ \/ stored' = stored \union {d} /\ UNCHANGED unsaved
         \/ unsaved' = unsaved \union {d} /\ UNCHANGED stored
      /\ faults' \in {faults, faults + 1}
      /\ UNCHANGED <<Prov!screen, gate, account, record, died, unseen, crashed>>
  BY DEF Prov!SaveSecret, Prov!Fault
<1> HIDE DEF d
<1>3. /\ j \in ProvRunRecord /\ j.pc = run[r].pc /\ j.todo = run[r].todo \ {d}
      /\ j.made = run[r].made /\ j.targets = run[r].targets /\ j.heard = run[r].heard
  BY <1>1 DEF ProvRunRecord
<1> HIDE DEF j
<1>4. /\ run'[r] = j /\ \A q \in Prov!Runs \ {r} : run'[q] = run[q]
      /\ run' \in [Prov!Runs -> ProvRunRecord]
  BY <1>2, <1>3, StepOnly
<1>5. d = run[r].made[Len(run[r].made) - Prov!Cardinality(run[r].todo) + 1]
  BY DEF d
<1>6. QED
  BY <1>2, <1>3, <1>4, <1>5

\* What the delivery of a password writes.
LEMMA DeliverOnly ==
  ASSUME ProvTypeInv, NEW r \in Prov!Runs, Prov!Deliver(r)
  PROVE  /\ run[r].pc = "save" /\ run[r].todo = {} /\ run'[r] = Prov!NoRun /\ Prov!Release(r)
         /\ \A q \in Prov!Runs \ {r} : run'[q] = run[q]
         /\ run' \in [Prov!Runs -> ProvRunRecord]
         /\ IF run[r].heard
            THEN queue' = queue \o run[r].made /\ unseen' = unseen
            ELSE unseen' = unseen \union Prov!Made(run[r].made) /\ queue' = queue
BY StepOnly, NoRunType DEF Prov!Deliver

\* Leaving the workspace drops the questions and forgets who would have listened.
LEMMA UnmountOnly ==
  ASSUME ProvTypeInv, Prov!Unmount
  PROVE  /\ run' \in [Prov!Runs -> ProvRunRecord]
         /\ \A r \in Prov!Runs :
               \/ run[r].pc = "confirm" /\ run'[r] = Prov!NoRun
               \/ /\ run[r].pc # "confirm" /\ run'[r].pc = run[r].pc
                  /\ run'[r].targets = run[r].targets /\ run'[r].todo = run[r].todo
                  /\ run'[r].made = run[r].made
<1>1. ASSUME NEW r \in Prov!Runs
      PROVE  /\ run'[r] \in ProvRunRecord
             /\ \/ run[r].pc = "confirm" /\ run'[r] = Prov!NoRun
                \/ /\ run[r].pc # "confirm" /\ run'[r].pc = run[r].pc
                   /\ run'[r].targets = run[r].targets /\ run'[r].todo = run[r].todo
                   /\ run'[r].made = run[r].made
  <2>1. run[r] \in ProvRunRecord
    BY DEF ProvTypeInv
  <2>2. run'[r] = IF run[r].pc = "confirm" THEN Prov!NoRun
                  ELSE [run[r] EXCEPT !.heard = (run[r].pc = "no")]
    BY DEF Prov!Unmount
  <2>3. QED
    BY <2>1, <2>2, NoRunType DEF ProvRunRecord
<1>2. run' = [r \in Prov!Runs |-> run'[r]]
  BY DEF Prov!Unmount
<1>3. QED
  BY <1>1, <1>2

-----------------------------------------------------------------------------
\* Every action keeps the types.
LEMMA ProvTypeStep == ProvTypeInv /\ [Prov!Next]_(Prov!vars) => ProvTypeInv'
<1> SUFFICES ASSUME ProvTypeInv, [Prov!Next]_(Prov!vars) PROVE ProvTypeInv'
  OBVIOUS
<1> USE DEF Prov!screen, Prov!fates
<1>a. \A r \in Prov!Runs : run[r] \in ProvRunRecord
  BY DEF ProvTypeInv
<1>1. CASE UNCHANGED Prov!vars
  BY <1>1 DEF Prov!vars, ProvTypeInv
<1>2. CASE Prov!Dismiss \/ Prov!SignIn
  <2>1. Prov!Dismiss => queue' \in Seq(Domains)
    BY DEF Prov!Dismiss, ProvTypeInv
  <2>2. QED
    BY <1>2, <2>1 DEF Prov!Dismiss, Prov!SignIn, ProvTypeInv
<1>3. CASE Prov!Lock \/ Prov!Logout
  <2>1. Prov!Unmount
    BY <1>3 DEF Prov!Lock, Prov!Logout
  <2>2. queue' = <<>> /\ workspace' = FALSE
    BY <2>1 DEF Prov!Unmount
  <2>3. user' \in BOOLEAN
    BY <1>3 DEF Prov!Lock, Prov!Logout, ProvTypeInv
  <2>4. UNCHANGED <<gate, record, faults, crashed>>
    BY <2>1 DEF Prov!Unmount
  <2>5. run' \in [Prov!Runs -> ProvRunRecord] /\ queue' \in Seq(Domains)
    BY <2>1, <2>2, UnmountOnly
  <2>6. QED
    BY <2>2, <2>3, <2>4, <2>5 DEF ProvTypeInv
<1>4. CASE Prov!Crash
  <2>1. run' \in [Prov!Runs -> ProvRunRecord]
    BY <1>4, NoRunType DEF Prov!Crash
  <2>2. gate' \in [Domains -> {"free", "single", "bulk"}] /\ queue' \in Seq(Domains)
    BY <1>4 DEF Prov!Crash
  <2>3. /\ user' \in BOOLEAN /\ workspace' \in BOOLEAN
        /\ crashed' \in BOOLEAN /\ faults' = faults + 1 /\ UNCHANGED record
    BY <1>4 DEF Prov!Crash, Prov!Fault
  <2>4. QED
    BY <2>1, <2>2, <2>3 DEF ProvTypeInv
<1>5. ASSUME NEW d \in Domains, Prov!RunSingle(d) PROVE ProvTypeInv'
  <2>1. run' \in [Prov!Runs -> ProvRunRecord]
    BY <1>5, RunSingleOnly
  <2>2. gate' \in [Domains -> {"free", "single", "bulk"}]
    BY <1>5, ClaimType DEF Prov!RunSingle
  <2>3. QED
    BY <1>5, <2>1, <2>2 DEF Prov!RunSingle, ProvTypeInv
<1>6. ASSUME NEW k \in SUBSET Domains, Prov!GrowStale(k) PROVE ProvTypeInv'
  BY <1>6 DEF Prov!GrowStale, ProvTypeInv
<1>7. ASSUME NEW k \in SUBSET Domains, NEW r \in Prov!Bulks, Prov!AskBulk(r, k) PROVE ProvTypeInv'
  <2>1. run' \in [Prov!Runs -> ProvRunRecord]
    BY <1>7, AskBulkOnly
  <2>2. QED
    BY <1>7, <2>1 DEF Prov!AskBulk, ProvTypeInv
<1>8. ASSUME NEW r \in Prov!Bulks, Prov!Declined(r) PROVE ProvTypeInv'
  <2>1. run' \in [Prov!Runs -> ProvRunRecord]
    BY <1>8, StepOnly, NoRunType DEF Prov!Declined, Prov!Runs
  <2>2. QED
    BY <1>8, <2>1 DEF Prov!Declined, ProvTypeInv
<1>9. ASSUME NEW r \in Prov!Bulks, Prov!ConfirmBulk(r) PROVE ProvTypeInv'
  <2>1. run' \in [Prov!Runs -> ProvRunRecord] /\ run[r].targets \in SUBSET Domains
    BY <1>9, <1>a, ConfirmOnly DEF ProvRunRecord
  <2>2. gate' \in [Domains -> {"free", "single", "bulk"}]
    BY <1>9, ConfirmOnly, ClaimType DEF ProvTypeInv
  <2>3. record' \in [SUBSET Domains -> {"open", "running", "done"}]
    BY <1>9, <2>1, ConfirmOnly DEF ProvTypeInv
  <2>4. QED
    BY <1>9, <2>1, <2>2, <2>3 DEF Prov!ConfirmBulk, ProvTypeInv
<1>10. ASSUME NEW r \in Prov!Runs, Prov!Provisioned(r) PROVE ProvTypeInv'
  <2>1. run[r].targets \in SUBSET Domains
    BY <1>a DEF ProvRunRecord
  <2>2. run' \in [Prov!Runs -> ProvRunRecord] /\ UNCHANGED <<Prov!screen, gate, stored, faults, Prov!fates>>
    BY <1>10, ProvisionedOnly
  <2>3. record' = record \/ record' = [record EXCEPT ![run[r].targets] = "done"]
    BY <1>10 DEF Prov!Provisioned
  <2>4. QED
    BY <2>1, <2>2, <2>3 DEF ProvTypeInv
<1>11. ASSUME NEW r \in Prov!Runs, Prov!RunFailed(r) PROVE ProvTypeInv'
  <2>1. run[r].targets \in SUBSET Domains
    BY <1>a DEF ProvRunRecord
  <2>2. /\ run' \in [Prov!Runs -> ProvRunRecord] /\ faults' = faults + 1
        /\ UNCHANGED <<Prov!screen, crashed>>
    BY <1>11, RunFailedOnly
  <2>3. record' = record \/ record' = [record EXCEPT ![run[r].targets] = "open"]
    BY <1>11, RunFailedOnly
  <2>4. gate' \in [Domains -> {"free", "single", "bulk"}]
    BY <1>11, RunFailedOnly, ClaimType DEF Prov!Release, ProvTypeInv
  <2>5. QED
    BY <2>1, <2>2, <2>3, <2>4 DEF ProvTypeInv
<1>12. ASSUME NEW r \in Prov!Runs, Prov!SaveSecret(r) PROVE ProvTypeInv'
  BY <1>12, SaveSecretOnly DEF ProvTypeInv
<1>13. ASSUME NEW r \in Prov!Runs, Prov!Deliver(r) PROVE ProvTypeInv'
  <2>1. run' \in [Prov!Runs -> ProvRunRecord] /\ gate' \in [Domains -> {"free", "single", "bulk"}]
    BY <1>13, DeliverOnly, ClaimType DEF Prov!Release
  <2>2. run[r].made \in Seq(Domains)
    BY <1>a DEF ProvRunRecord
  <2>3. queue' \in Seq(Domains)
    <3>1. queue' = queue \o run[r].made \/ queue' = queue
      BY <1>13, DeliverOnly
    <3>2. queue \in Seq(Domains) /\ queue \o run[r].made \in Seq(Domains)
      BY <2>2 DEF ProvTypeInv
    <3>3. QED
      BY <3>1, <3>2
  <2>4. QED
    BY <1>13, <2>1, <2>3 DEF Prov!Deliver, ProvTypeInv
<1>14. QED
  BY <1>1, <1>2, <1>3, <1>4, <1>5, <1>6, <1>7, <1>8, <1>9, <1>10, <1>11, <1>12,
      <1>13 DEF Prov!Next

-----------------------------------------------------------------------------
(***************************************************************************)
(* The gates.                                                              *)
(***************************************************************************)
\* The runs that are on stay on with their targets.
LEMMA GateSame ==
  ASSUME GateInv, UNCHANGED gate,
         \A r \in Prov!Runs : Prov!Active(r)' = Prov!Active(r) /\ (Prov!Active(r) => run'[r].targets = run[r].targets)
  PROVE  GateInv'
BY DEF GateInv, Disjoint, Prov!GateFollowsTheRuns

\* One is begun, and shuts the gates it found open.
LEMMA GateTaken ==
  ASSUME GateInv, NEW r \in Prov!Runs, ~ Prov!Active(r), Prov!Active(r)',
         \A q \in Prov!Runs \ {r} : run'[q] = run[q],
         \A d \in run'[r].targets : gate[d] = "free" /\ d \in Domains,
         NEW k \in {"single", "bulk"}, Prov!Claim(run'[r].targets, k)
  PROVE  GateInv'
<1>1. \A q \in Prov!Runs \ {r} : Prov!Active(q)' = Prov!Active(q) /\ run'[q].targets = run[q].targets
  BY DEF Prov!Active
<1>2. \A d \in Domains : gate'[d] = IF d \in run'[r].targets THEN k ELSE gate[d]
  BY DEF Prov!Claim
<1>3. \A q \in Prov!Runs \ {r} : Prov!Active(q) => run[q].targets \cap run'[r].targets = {}
  BY DEF GateInv, Prov!GateFollowsTheRuns
<1>4. Disjoint'
  BY <1>1, <1>3 DEF GateInv, Disjoint
<1>5. ASSUME NEW d \in Domains
      PROVE  gate'[d] # "free" <=> \E q \in Prov!Runs : Prov!Active(q)' /\ d \in run'[q].targets
  <2>1. gate[d] # "free" <=> \E q \in Prov!Runs \ {r} : Prov!Active(q) /\ d \in run[q].targets
    BY DEF GateInv, Prov!GateFollowsTheRuns
  <2>2. QED
    BY <1>1, <1>2, <2>1
<1>6. QED
  BY <1>4, <1>5 DEF GateInv, Prov!GateFollowsTheRuns

\* One is over, and opens its gates again.
LEMMA GateReleased ==
  ASSUME GateInv, NEW r \in Prov!Runs, Prov!Active(r), ~ Prov!Active(r)',
         \A q \in Prov!Runs \ {r} : run'[q] = run[q], Prov!Release(r)
  PROVE  GateInv'
<1>1. \A q \in Prov!Runs \ {r} : Prov!Active(q)' = Prov!Active(q) /\ run'[q].targets = run[q].targets
  BY DEF Prov!Active
<1>2. \A d \in Domains : gate'[d] = IF d \in run[r].targets THEN "free" ELSE gate[d]
  BY DEF Prov!Release, Prov!Claim
<1>3. \A q \in Prov!Runs \ {r} : Prov!Active(q) => run[q].targets \cap run[r].targets = {}
  BY DEF GateInv, Disjoint
<1>4. Disjoint'
  BY <1>1 DEF GateInv, Disjoint
<1>5. ASSUME NEW d \in Domains
      PROVE  gate'[d] # "free" <=> \E q \in Prov!Runs : Prov!Active(q)' /\ d \in run'[q].targets
  <2>1. gate[d] # "free" <=> \E q \in Prov!Runs : Prov!Active(q) /\ d \in run[q].targets
    BY DEF GateInv, Prov!GateFollowsTheRuns
  <2>2. CASE d \in run[r].targets
    BY <1>1, <1>2, <1>3, <2>2
  <2>3. CASE d \notin run[r].targets
    BY <1>1, <1>2, <2>1, <2>3
  <2>4. QED
    BY <2>2, <2>3
<1>6. QED
  BY <1>4, <1>5 DEF GateInv, Prov!GateFollowsTheRuns

\* Every action keeps that the gate is shut for the targets of active runs.
LEMMA GateStep == ProvTypeInv /\ GateInv /\ [Prov!Next]_(Prov!vars) => GateInv'
<1> SUFFICES ASSUME ProvTypeInv, GateInv, [Prov!Next]_(Prov!vars) PROVE GateInv'
  OBVIOUS
<1>1. CASE UNCHANGED Prov!vars
  BY <1>1, GateSame DEF Prov!vars, Prov!Active
<1>2. CASE Prov!Dismiss \/ Prov!SignIn
  BY <1>2, GateSame DEF Prov!Dismiss, Prov!SignIn, Prov!Active
<1>3. CASE Prov!Lock \/ Prov!Logout
  <2>1. Prov!Unmount
    BY <1>3 DEF Prov!Lock, Prov!Logout
  <2>2. UNCHANGED gate
    BY <2>1 DEF Prov!Unmount
  <2>3. ASSUME NEW r \in Prov!Runs
        PROVE  Prov!Active(r)' = Prov!Active(r) /\ (Prov!Active(r) => run'[r].targets = run[r].targets)
    <3>1. CASE run[r].pc = "confirm" /\ run'[r] = Prov!NoRun
      BY <3>1, NoRunType DEF Prov!Active
    <3>2. CASE run'[r].pc = run[r].pc /\ run'[r].targets = run[r].targets
      BY <3>2 DEF Prov!Active
    <3>3. QED
      BY <2>1, <3>1, <3>2, UnmountOnly
  <2>4. QED
    BY <2>2, <2>3, GateSame
<1>4. CASE Prov!Crash
  <2>1. \A r \in Prov!Runs : ~ Prov!Active(r)'
    BY <1>4, NoRunType DEF Prov!Crash, Prov!Active
  <2>2. \A d \in Domains : gate'[d] = "free"
    BY <1>4 DEF Prov!Crash
  <2>3. QED
    BY <2>1, <2>2 DEF GateInv, Disjoint, Prov!GateFollowsTheRuns
<1>5. ASSUME NEW d \in Domains, Prov!RunSingle(d) PROVE GateInv'
  <2> DEFINE r == <<"single", d>>
  <2>1. /\ r \in Prov!Runs /\ run[r].pc = "no" /\ run'[r].pc = "ssh" /\ run'[r].targets = {d}
        /\ \A q \in Prov!Runs \ {r} : run'[q] = run[q]
        /\ gate[d] = "free" /\ Prov!Claim({d}, "single")
    BY <1>5, RunSingleOnly DEF Prov!RunSingle, Prov!Runs
  <2> HIDE DEF r
  <2>2. ~ Prov!Active(r) /\ Prov!Active(r)'
    BY <2>1 DEF Prov!Active
  <2>3. QED
    BY <2>1, <2>2, GateTaken
<1>6. ASSUME NEW k \in SUBSET Domains, Prov!GrowStale(k) PROVE GateInv'
  BY <1>6, GateSame DEF Prov!GrowStale, Prov!Active
<1>7. ASSUME NEW k \in SUBSET Domains, NEW r \in Prov!Bulks, Prov!AskBulk(r, k) PROVE GateInv'
  <2>1. UNCHANGED gate
    BY <1>7 DEF Prov!AskBulk
  <2>2. /\ r \in Prov!Runs /\ run[r].pc = "no" /\ run'[r].pc = "confirm"
        /\ \A q \in Prov!Runs \ {r} : run'[q] = run[q]
    BY <1>7, AskBulkOnly, KindOfRun
  <2>3. QED
    BY <2>1, <2>2, GateSame DEF Prov!Active
<1>8. ASSUME NEW r \in Prov!Bulks, Prov!Declined(r) PROVE GateInv'
  <2>1. /\ r \in Prov!Runs /\ run[r].pc = "confirm" /\ run'[r] = Prov!NoRun /\ UNCHANGED gate
        /\ \A q \in Prov!Runs \ {r} : run'[q] = run[q]
    BY <1>8, StepOnly DEF Prov!Declined, Prov!Runs
  <2>2. QED
    BY <2>1, GateSame, NoRunType DEF Prov!Active
<1>9. ASSUME NEW r \in Prov!Bulks, Prov!ConfirmBulk(r) PROVE GateInv'
  <2>1. /\ r \in Prov!Runs /\ run[r].pc = "confirm"
        /\ \A d \in run[r].targets : gate[d] = "free" /\ d \in Domains
        /\ \A q \in Prov!Runs \ {r} : run'[q] = run[q]
    <3>1. r \in Prov!Runs /\ run[r] \in ProvRunRecord
      BY DEF Prov!Runs, ProvTypeInv
    <3>2. QED
      BY <1>9, <3>1, ConfirmOnly DEF ProvRunRecord
  <2>2. CASE run'[r] = Prov!NoRun /\ UNCHANGED gate
    BY <2>1, <2>2, GateSame, NoRunType DEF Prov!Active
  <2>3. CASE /\ run'[r].pc = "ssh" /\ run'[r].targets = run[r].targets
             /\ Prov!Claim(run[r].targets, "bulk")
    <3>1. ~ Prov!Active(r) /\ Prov!Active(r)'
      BY <2>1, <2>3 DEF Prov!Active
    <3>2. QED
      BY <2>1, <2>3, <3>1, GateTaken
  <2>4. QED
    BY <1>9, <2>2, <2>3, ConfirmOnly
<1>10. ASSUME NEW r \in Prov!Runs, Prov!Provisioned(r) PROVE GateInv'
  <2>1. /\ Prov!Active(r) /\ Prov!Active(r)' /\ run'[r].targets = run[r].targets /\ UNCHANGED gate
        /\ \A q \in Prov!Runs \ {r} : run'[q] = run[q]
    BY <1>10, ProvisionedOnly DEF Prov!Active
  <2>2. QED
    BY <2>1, GateSame DEF Prov!Active
<1>11. ASSUME NEW r \in Prov!Runs, Prov!RunFailed(r) PROVE GateInv'
  <2>1. Prov!Active(r) /\ \A q \in Prov!Runs \ {r} : run'[q] = run[q]
    BY <1>11, RunFailedOnly DEF Prov!Active
  <2>2. CASE run'[r].pc = "save" /\ run'[r].targets = run[r].targets /\ UNCHANGED gate
    BY <2>1, <2>2, GateSame DEF Prov!Active
  <2>3. CASE run'[r] = Prov!NoRun /\ Prov!Release(r)
    <3>1. ~ Prov!Active(r)'
      BY <2>3, NoRunType DEF Prov!Active
    <3>2. QED
      BY <2>1, <2>3, <3>1, GateReleased
  <2>4. QED
    BY <1>11, <2>2, <2>3, RunFailedOnly
<1>12. ASSUME NEW r \in Prov!Runs, Prov!SaveSecret(r) PROVE GateInv'
  <2>1. /\ Prov!Active(r) /\ Prov!Active(r)' /\ run'[r].targets = run[r].targets /\ UNCHANGED gate
        /\ \A q \in Prov!Runs \ {r} : run'[q] = run[q]
    BY <1>12, SaveSecretOnly DEF Prov!Active
  <2>2. QED
    BY <2>1, GateSame DEF Prov!Active
<1>13. ASSUME NEW r \in Prov!Runs, Prov!Deliver(r) PROVE GateInv'
  <2>1. /\ Prov!Active(r) /\ ~ Prov!Active(r)' /\ Prov!Release(r)
        /\ \A q \in Prov!Runs \ {r} : run'[q] = run[q]
    BY <1>13, DeliverOnly, NoRunType DEF Prov!Active
  <2>2. QED
    BY <2>1, GateReleased
<1>14. QED
  BY <1>1, <1>2, <1>3, <1>4, <1>5, <1>6, <1>7, <1>8, <1>9, <1>10, <1>11, <1>12,
      <1>13 DEF Prov!Next

-----------------------------------------------------------------------------
(***************************************************************************)
(* The record of sets.                                                     *)
(***************************************************************************)
\* The sets under way stay so, and no account is lost.
LEMMA RecordSame ==
  ASSUME RecordInv, UNCHANGED record, account \subseteq account', crashed => crashed',
         \A r \in Prov!Bulks :
            /\ run'[r].pc # "no" => run'[r].targets # {}
            /\ run'[r].pc = "ssh" <=> run[r].pc = "ssh"
            /\ run[r].pc = "ssh" =>
                  run'[r].targets = run[r].targets /\ run'[r].todo = run[r].todo
  PROVE  RecordInv'
<1>1. SetIsHalfDone'
  BY DEF RecordInv, SetIsHalfDone
<1>2. Prov!RecordIsTrue'
  BY DEF RecordInv, Prov!RecordIsTrue
<1>3. QED
  BY <1>1, <1>2 DEF RecordInv

\* The record of the set of one run changes with that run.
LEMMA RecordOf ==
  ASSUME ProvTypeInv, RecordInv, NEW r \in Prov!Bulks, NEW v,
         run[r].pc # "no", run'[r].targets = run[r].targets,
         record' = [record EXCEPT ![run[r].targets] = v],
         v = "done" => run[r].targets \subseteq account',
         v = "running" => run'[r].pc = "ssh",
         run'[r].pc = "ssh" => run[r].targets \subseteq account' \union run'[r].todo,
         \A q \in Prov!Runs \ {r} : run'[q] = run[q],
         account \subseteq account', UNCHANGED crashed
  PROVE  RecordInv'
<1>1. r \in Prov!Runs /\ \A q \in Prov!Bulks : q \in Prov!Runs
  BY DEF Prov!Runs
<1>2. run[r].targets \in SUBSET Domains
  BY <1>1 DEF ProvTypeInv, ProvRunRecord
<1>3. SetIsHalfDone'
  <2> SUFFICES ASSUME NEW q \in Prov!Bulks
               PROVE  /\ run'[q].pc # "no" => run'[q].targets # {}
                      /\ run'[q].pc = "ssh" => run'[q].targets \subseteq account' \union run'[q].todo
    BY DEF SetIsHalfDone
  <2>1. /\ run[q].pc # "no" => run[q].targets # {}
        /\ run[q].pc = "ssh" => run[q].targets \subseteq account \union run[q].todo
    BY DEF RecordInv, SetIsHalfDone
  <2>2. CASE q = r
    BY <2>1, <2>2
  <2>3. CASE q # r
    <3>1. run'[q] = run[q]
      BY <1>1, <2>3
    <3>2. QED
      BY <2>1, <3>1
  <2>4. QED
    BY <2>2, <2>3
<1>4. ASSUME NEW k \in SUBSET Domains \ {{}}
      PROVE  /\ record'[k] = "done" => k \subseteq account'
             /\ record'[k] = "running" /\ ~crashed' =>
                   \E q \in Prov!Bulks : run'[q].pc = "ssh" /\ run'[q].targets = k
  <2>1. CASE k = run[r].targets
    <3>1. record'[k] = v
      BY <1>2, <2>1 DEF ProvTypeInv
    <3>2. QED
      BY <2>1, <3>1
  <2>2. CASE k # run[r].targets
    <3>1. record'[k] = record[k]
      BY <1>2, <2>2 DEF ProvTypeInv
    <3>2. record[k] = "done" => k \subseteq account
      BY DEF RecordInv, Prov!RecordIsTrue
    <3>3. ASSUME record[k] = "running", ~crashed
          PROVE  \E q \in Prov!Bulks : run'[q].pc = "ssh" /\ run'[q].targets = k
      <4>1. PICK q \in Prov!Bulks : run[q].pc = "ssh" /\ run[q].targets = k
        BY <3>3 DEF RecordInv, Prov!RecordIsTrue
      <4>2. q # r /\ run'[q] = run[q]
        BY <1>1, <2>2, <4>1
      <4>3. QED
        BY <4>1, <4>2
    <3>4. QED
      BY <3>1, <3>2, <3>3
  <2>3. QED
    BY <2>1, <2>2
<1>5. QED
  BY <1>3, <1>4 DEF RecordInv, Prov!RecordIsTrue

\* Every action keeps what the record of a run says.
LEMMA RecordStep == ProvTypeInv /\ RecordInv /\ [Prov!Next]_(Prov!vars) => RecordInv'
<1> SUFFICES ASSUME ProvTypeInv, RecordInv, [Prov!Next]_(Prov!vars) PROVE RecordInv'
  OBVIOUS
<1>a. \A r \in Prov!Bulks : r \in Prov!Runs /\ run[r] \in ProvRunRecord
  BY DEF Prov!Runs, ProvTypeInv
<1>b. \A r \in Prov!Bulks :
         /\ run[r].pc # "no" => run[r].targets # {}
         /\ run[r].pc = "ssh" => run[r].targets \subseteq account \union run[r].todo
  BY DEF RecordInv, SetIsHalfDone
<1>1. ASSUME UNCHANGED <<record, account, crashed, run>> PROVE RecordInv'
  BY <1>1, <1>b, RecordSame
<1>2. CASE UNCHANGED Prov!vars
  BY <1>1, <1>2 DEF Prov!vars, Prov!fates
<1>3. CASE Prov!Dismiss \/ Prov!SignIn
  BY <1>1, <1>3 DEF Prov!Dismiss, Prov!SignIn, Prov!fates
<1>4. CASE Prov!Lock \/ Prov!Logout
  <2>1. Prov!Unmount
    BY <1>4 DEF Prov!Lock, Prov!Logout
  <2>2. UNCHANGED <<record, account, crashed>>
    BY <2>1 DEF Prov!Unmount
  <2>3. ASSUME NEW r \in Prov!Bulks
        PROVE  /\ run'[r].pc # "no" => run'[r].targets # {}
               /\ run'[r].pc = "ssh" <=> run[r].pc = "ssh"
               /\ run[r].pc = "ssh" =>
                     run'[r].targets = run[r].targets /\ run'[r].todo = run[r].todo
    BY <1>a, <1>b, <2>1, UnmountOnly, NoRunType
  <2>4. QED
    BY <2>2, <2>3, RecordSame
<1>5. CASE Prov!Crash
  <2>1. /\ \A r \in Prov!Runs : run'[r].pc = "no"
        /\ crashed' = (crashed \/ \E r \in Prov!Runs : Prov!Active(r))
        /\ record' = record /\ account \subseteq account'
    BY <1>5, NoRunType DEF Prov!Crash
  <2>2. SetIsHalfDone'
    BY <1>a, <2>1 DEF SetIsHalfDone
  <2>3. ASSUME NEW k \in SUBSET Domains \ {{}}, record[k] = "running", ~crashed' PROVE FALSE
    <3>1. PICK r \in Prov!Bulks : run[r].pc = "ssh"
      BY <2>1, <2>3 DEF RecordInv, Prov!RecordIsTrue
    <3>2. QED
      BY <1>a, <2>1, <2>3, <3>1 DEF Prov!Active
  <2>4. Prov!RecordIsTrue'
    BY <2>1, <2>3 DEF RecordInv, Prov!RecordIsTrue
  <2>5. QED
    BY <2>2, <2>4 DEF RecordInv
<1>6. ASSUME NEW d \in Domains, Prov!RunSingle(d) PROVE RecordInv'
  <2>1. \A r \in Prov!Bulks : run'[r] = run[r]
    BY <1>6, <1>a, RunSingleOnly, KindOfRun
  <2>2. UNCHANGED <<record, account, crashed>>
    BY <1>6 DEF Prov!RunSingle, Prov!fates
  <2>3. QED
    BY <1>b, <2>1, <2>2, RecordSame
<1>7. ASSUME NEW k \in SUBSET Domains, Prov!GrowStale(k) PROVE RecordInv'
  <2>1. record' = [record EXCEPT ![k] = "open"] /\ UNCHANGED <<run, account, crashed>>
    BY <1>7 DEF Prov!GrowStale, Prov!fates
  <2>2. SetIsHalfDone'
    BY <1>b, <2>1 DEF SetIsHalfDone
  <2>3. \A l \in SUBSET Domains : record'[l] = IF l = k THEN "open" ELSE record[l]
    BY <2>1 DEF ProvTypeInv
  <2>4. Prov!RecordIsTrue'
    BY <2>1, <2>3 DEF RecordInv, Prov!RecordIsTrue
  <2>5. QED
    BY <2>2, <2>4 DEF RecordInv
<1>8. ASSUME NEW k \in SUBSET Domains, NEW r \in Prov!Bulks, Prov!AskBulk(r, k) PROVE RecordInv'
  <2>1. /\ run[r].pc = "no" /\ run'[r].pc = "confirm" /\ run'[r].targets = k /\ k # {}
        /\ \A q \in Prov!Runs \ {r} : run'[q] = run[q]
    BY <1>8, AskBulkOnly
  <2>2. UNCHANGED <<record, account, crashed>>
    BY <1>8 DEF Prov!AskBulk, Prov!fates
  <2>3. QED
    BY <1>a, <1>b, <2>1, <2>2, RecordSame
<1>9. ASSUME NEW r \in Prov!Bulks, run[r].pc # "ssh", run'[r] = Prov!NoRun,
             \A q \in Prov!Runs \ {r} : run'[q] = run[q], UNCHANGED <<record, account, crashed>>
      PROVE  RecordInv'
  BY <1>9, <1>a, <1>b, NoRunType, RecordSame
<1>10. ASSUME NEW r \in Prov!Bulks, Prov!Declined(r) PROVE RecordInv'
  <2>1. /\ run[r].pc = "confirm" /\ run'[r] = Prov!NoRun /\ UNCHANGED <<record, account, crashed>>
        /\ \A q \in Prov!Runs \ {r} : run'[q] = run[q]
    BY <1>10, <1>a, StepOnly DEF Prov!Declined, Prov!fates
  <2>2. QED
    BY <1>9, <2>1
<1>11. ASSUME NEW r \in Prov!Bulks, Prov!ConfirmBulk(r) PROVE RecordInv'
  <2>1. run[r].pc = "confirm" /\ UNCHANGED <<account, crashed>>
        /\ \A q \in Prov!Runs \ {r} : run'[q] = run[q]
    BY <1>11, ConfirmOnly DEF Prov!ConfirmBulk, Prov!fates
  <2>2. CASE run'[r] = Prov!NoRun /\ UNCHANGED record
    BY <1>9, <2>1, <2>2
  <2>3. CASE /\ run'[r].pc = "ssh" /\ run'[r].targets = run[r].targets
             /\ run'[r].todo = run[r].targets
             /\ record' = [record EXCEPT ![run[r].targets] = "running"]
    BY <2>1, <2>3, RecordOf
  <2>4. QED
    BY <1>11, <2>2, <2>3, ConfirmOnly
\* A run of a single domain touches no record.
<1>12. ASSUME NEW r \in Prov!Runs, r \notin Prov!Bulks, \A q \in Prov!Runs \ {r} : run'[q] = run[q],
              UNCHANGED <<record, crashed>>, account \subseteq account'
       PROVE  RecordInv'
  BY <1>12, <1>a, <1>b, RecordSame
<1>13. ASSUME NEW r \in Prov!Runs, Prov!Provisioned(r) PROVE RecordInv'
  <2>1. PICK d \in run[r].todo :
            /\ run[r].pc = "ssh" /\ account' = account \union {d}
            /\ run'[r].targets = run[r].targets
            /\ \/ /\ run'[r].pc = "ssh" /\ run'[r].todo = run[r].todo \ {d}
                  /\ record' = record
               \/ /\ run'[r].pc = "save" /\ run'[r].todo = Prov!Made(run'[r].made)
                  /\ IF Prov!Kind(r) = "bulk"
                     THEN /\ run[r].todo = {d}
                          /\ record' = [record EXCEPT ![run[r].targets] = "done"]
                     ELSE record' = record
            /\ \A q \in Prov!Runs \ {r} : run'[q] = run[q]
            /\ UNCHANGED <<Prov!screen, gate, stored, faults, Prov!fates>>
    BY <1>13, ProvisionedOnly
  <2>2. UNCHANGED crashed
    BY <2>1 DEF Prov!fates
  <2>3. CASE r \notin Prov!Bulks
    <3>1. record' = record
      BY <2>1, <2>3, KindOfRun
    <3>2. QED
      BY <1>12, <2>1, <2>2, <2>3, <3>1
  <2>4. CASE r \in Prov!Bulks
    <3>1. Prov!Kind(r) = "bulk" /\ run[r].targets # {}
          /\ run[r].targets \subseteq account \union run[r].todo
      BY <1>b, <2>1, <2>4, KindOfRun
    <3>2. CASE run'[r].pc = "ssh" /\ run'[r].todo = run[r].todo \ {d} /\ record' = record
      <4>1. SetIsHalfDone'
        BY <1>a, <1>b, <2>1, <3>1, <3>2 DEF SetIsHalfDone
      <4>2. \A q \in Prov!Bulks : run'[q].pc = run[q].pc /\ run'[q].targets = run[q].targets
        BY <1>a, <2>1, <3>2
      <4>3. Prov!RecordIsTrue'
        BY <2>1, <2>2, <3>2, <4>2 DEF RecordInv, Prov!RecordIsTrue
      <4>4. QED
        BY <4>1, <4>3 DEF RecordInv
    <3>3. CASE run'[r].pc = "save" /\ run[r].todo = {d}
               /\ record' = [record EXCEPT ![run[r].targets] = "done"]
      <4>1. run[r].targets \subseteq account'
        BY <2>1, <3>1, <3>3
      <4>2. QED
        BY <2>1, <2>2, <2>4, <3>3, <4>1, RecordOf
    <3>4. QED
      BY <2>1, <3>1, <3>2, <3>3
  <2>5. QED
    BY <2>3, <2>4
<1>14. ASSUME NEW r \in Prov!Runs, Prov!RunFailed(r) PROVE RecordInv'
  <2>1. run[r].pc = "ssh" /\ account \subseteq account' /\ UNCHANGED crashed
        /\ \A q \in Prov!Runs \ {r} : run'[q] = run[q]
    BY <1>14, RunFailedOnly DEF Prov!fates
  <2>2. CASE r \notin Prov!Bulks
    <3>1. record' = record
      BY <1>14, <2>2, RunFailedOnly, KindOfRun
    <3>2. QED
      BY <1>12, <2>1, <2>2, <3>1
  <2>3. CASE r \in Prov!Bulks
    <3>1. /\ record' = [record EXCEPT ![run[r].targets] = "open"]
          /\ run'[r].pc = "save" /\ run'[r].targets = run[r].targets
      BY <1>14, <2>3, RunFailedOnly, KindOfRun
    <3>2. QED
      BY <2>1, <2>3, <3>1, RecordOf
  <2>4. QED
    BY <2>2, <2>3
\* What happens to a run that saves its passwords is nothing to the record.
<1>15. ASSUME NEW r \in Prov!Runs, Prov!SaveSecret(r) PROVE RecordInv'
  <2>1. /\ run[r].pc = "save" /\ run'[r].pc = "save" /\ run'[r].targets = run[r].targets
        /\ \A q \in Prov!Runs \ {r} : run'[q] = run[q]
        /\ UNCHANGED <<account, record, crashed>>
    BY <1>15, SaveSecretOnly DEF Prov!fates
  <2>2. QED
    BY <1>a, <1>b, <2>1, RecordSame
<1>16. ASSUME NEW r \in Prov!Runs, Prov!Deliver(r) PROVE RecordInv'
  <2>1. /\ run[r].pc = "save" /\ run'[r] = Prov!NoRun
        /\ \A q \in Prov!Runs \ {r} : run'[q] = run[q]
        /\ UNCHANGED <<account, record, crashed>>
    BY <1>16, DeliverOnly DEF Prov!Deliver, Prov!fates
  <2>2. CASE r \in Prov!Bulks
    BY <1>9, <2>1, <2>2
  <2>3. CASE r \notin Prov!Bulks
    BY <1>12, <2>1, <2>3
  <2>4. QED
    BY <2>2, <2>3
<1>17. QED
  BY <1>2, <1>3, <1>4, <1>5, <1>6, <1>7, <1>8, <1>10, <1>11, <1>13, <1>14, <1>15,
      <1>16 DEF Prov!Next

-----------------------------------------------------------------------------
(***************************************************************************)
(* The passwords.                                                          *)
(***************************************************************************)
\* The next password to save is one the run has made.
LEMMA NextIsMade ==
  ASSUME NEW m \in Seq(Domains), NEW T \in SUBSET Prov!Made(m), T # {}
  PROVE  m[Len(m) - Prov!Cardinality(T) + 1] \in Prov!Made(m)
<1> DEFINE f == [i \in 1..Len(m) |-> m[i]]
<1>1. Len(m) \in Nat /\ DOMAIN m = 1..Len(m)
  OBVIOUS
<1>2. f \in Surjection(1..Len(m), Prov!Made(m))
  BY <1>1 DEF Surjection, Prov!Made
<1>3. Prov!IsFiniteSet(1..Len(m)) /\ Prov!Cardinality(1..Len(m)) = Len(m)
  <2>1. IsFiniteSet(1..Len(m)) /\ Cardinality(1..Len(m)) = Len(m)
    BY <1>1, FS_Interval
  <2> QED BY <2>1, ProvSizes
<1>4. Prov!IsFiniteSet(Prov!Made(m)) /\ Prov!Cardinality(Prov!Made(m)) <= Len(m)
  BY ProvSizes, <1>2, <1>3, FS_Surjection
<1>5. Prov!IsFiniteSet(T) /\ Prov!Cardinality(T) <= Prov!Cardinality(Prov!Made(m))
  BY ProvSizes, <1>4, FS_Subset
<1>6. Prov!Cardinality(T) \in Nat /\ Prov!Cardinality(Prov!Made(m)) \in Nat /\ Prov!Cardinality(T) # 0
  BY ProvSizes, <1>4, <1>5, FS_CardinalityType, FS_EmptySet
<1>7. Len(m) - Prov!Cardinality(T) + 1 \in 1..Len(m)
  BY <1>1, <1>4, <1>5, <1>6
<1>8. QED
  BY <1>1, <1>7 DEF Prov!Made

\* A password on its way stays so, until it is delivered.
LEMMA InFlightKept ==
  ASSUME \A r \in Prov!Runs :
            Prov!Active(r) => Prov!Active(r)' /\ Prov!Made(run[r].made) \subseteq Prov!Made(run'[r].made)
  PROVE  \A d : Prov!InFlight(d) => Prov!InFlight(d)'
BY DEF Prov!InFlight

\* Every action keeps that what a run need not save any more is accounted for.
LEMMA SavedStep == ProvTypeInv /\ SavedSoFar /\ [Prov!Next]_(Prov!vars) => SavedSoFar'
<1> SUFFICES ASSUME ProvTypeInv, SavedSoFar, [Prov!Next]_(Prov!vars) PROVE SavedSoFar'
  OBVIOUS
<1> USE DEF Prov!screen, Prov!fates
<1>a. \A q \in Prov!Runs : run[q] \in ProvRunRecord /\ RunSaves(q)
  BY DEF ProvTypeInv, SavedSoFar
<1>b. \A r \in Prov!Bulks : r \in Prov!Runs
  BY DEF Prov!Runs
\* The steps that leave the runs and the passwords alone.
<1>1. ASSUME UNCHANGED <<stored, unsaved, run>> PROVE SavedSoFar'
  BY <1>1, <1>a DEF SavedSoFar, RunSaves
<1>2. ASSUME NEW r \in Prov!Runs, \A q \in Prov!Runs \ {r} : run'[q] = run[q], RunSaves(r)',
             stored \subseteq stored', unsaved \subseteq unsaved'
      PROVE  SavedSoFar'
  BY <1>2, <1>a DEF SavedSoFar, RunSaves
<1>3. CASE UNCHANGED Prov!vars
  BY <1>1, <1>3 DEF Prov!vars
<1>4. CASE Prov!Dismiss \/ Prov!SignIn
  BY <1>1, <1>4 DEF Prov!Dismiss, Prov!SignIn
<1>6. CASE Prov!Lock \/ Prov!Logout
  <2>1. Prov!Unmount
    BY <1>6 DEF Prov!Lock, Prov!Logout
  <2>2. UNCHANGED <<stored, unsaved>>
    BY <2>1 DEF Prov!Unmount
  <2>3. ASSUME NEW q \in Prov!Runs PROVE RunSaves(q)'
    BY <1>a, <2>1, <2>2, UnmountOnly, NoRunType DEF RunSaves
  <2>4. QED
    BY <2>3 DEF SavedSoFar
<1>7. CASE Prov!Crash
  <2>1. \A q \in Prov!Runs : run'[q] = Prov!NoRun
    BY <1>7 DEF Prov!Crash
  <2>2. QED
    BY <2>1, NoRunType DEF SavedSoFar, RunSaves
<1>8. ASSUME NEW d \in Domains, Prov!RunSingle(d) PROVE SavedSoFar'
  <2> DEFINE r == <<"single", d>>
  <2>1. /\ r \in Prov!Runs /\ run'[r].pc = "ssh" /\ run'[r].made = <<>>
        /\ \A q \in Prov!Runs \ {r} : run'[q] = run[q]
    BY <1>8, RunSingleOnly, KindOfRun
  <2>2. UNCHANGED <<stored, unsaved>>
    BY <1>8 DEF Prov!RunSingle
  <2> HIDE DEF r
  <2>3. RunSaves(r)'
    BY <2>1, MadeIsDomains DEF RunSaves
  <2>4. QED
    BY <1>2, <2>1, <2>2, <2>3
<1>9. ASSUME NEW k \in SUBSET Domains, Prov!GrowStale(k) PROVE SavedSoFar'
  BY <1>1, <1>9 DEF Prov!GrowStale
<1>10. ASSUME NEW k \in SUBSET Domains, NEW r \in Prov!Bulks, Prov!AskBulk(r, k) PROVE SavedSoFar'
  <2>1. run'[r].pc = "confirm" /\ \A q \in Prov!Runs \ {r} : run'[q] = run[q]
    BY <1>10, AskBulkOnly
  <2>2. UNCHANGED <<stored, unsaved>>
    BY <1>10 DEF Prov!AskBulk
  <2>3. RunSaves(r)'
    BY <2>1 DEF RunSaves
  <2>4. QED
    BY <1>2, <1>b, <2>1, <2>2, <2>3
<1>11. ASSUME NEW r \in Prov!Runs, run'[r] = Prov!NoRun PROVE RunSaves(r)'
  BY <1>11, NoRunType DEF RunSaves
<1>12. ASSUME NEW r \in Prov!Bulks, Prov!Declined(r) PROVE SavedSoFar'
  <2>1. run'[r] = Prov!NoRun /\ \A q \in Prov!Runs \ {r} : run'[q] = run[q]
    BY <1>12, <1>b, StepOnly DEF Prov!Declined
  <2>2. UNCHANGED <<stored, unsaved>>
    BY <1>12 DEF Prov!Declined
  <2>3. QED
    BY <1>2, <1>11, <1>b, <2>1, <2>2
<1>13. ASSUME NEW r \in Prov!Bulks, Prov!ConfirmBulk(r) PROVE SavedSoFar'
  <2>1. \A q \in Prov!Runs \ {r} : run'[q] = run[q]
    BY <1>13, ConfirmOnly
  <2>2. UNCHANGED <<stored, unsaved>>
    BY <1>13 DEF Prov!ConfirmBulk
  <2>3. RunSaves(r)'
    <3>1. CASE run'[r] = Prov!NoRun
      BY <1>11, <1>b, <3>1
    <3>2. CASE run'[r].pc = "ssh"
      BY <3>2 DEF RunSaves
    <3>3. QED
      BY <1>13, <3>1, <3>2, ConfirmOnly
  <2>4. QED
    BY <1>2, <1>b, <2>1, <2>2, <2>3
<1>14. ASSUME NEW r \in Prov!Runs, Prov!Provisioned(r) PROVE SavedSoFar'
  <2>1. /\ \/ run'[r].pc = "ssh" /\ r \in Prov!Bulks
           \/ run'[r].pc = "save" /\ run'[r].todo = Prov!Made(run'[r].made)
        /\ \A q \in Prov!Runs \ {r} : run'[q] = run[q]
        /\ UNCHANGED <<stored, unsaved>>
    <3>1. Prov!Kind(r) # "bulk" => run'[r].pc = "save"
      <4>1. run[r] \in ProvRunRecord /\ (Prov!Kind(r) # "bulk" => \E m :
               Prov!Step(r, [run[r] EXCEPT !.pc = "save", !.todo = Prov!Made(m), !.made = m]))
        BY <1>14, <1>a DEF Prov!Provisioned
      <4>2. ASSUME NEW m, Prov!Step(r, [run[r] EXCEPT !.pc = "save", !.todo = Prov!Made(m), !.made = m])
            PROVE  run'[r].pc = "save"
        <5> DEFINE j == [run[r] EXCEPT !.pc = "save", !.todo = Prov!Made(m), !.made = m]
        <5>1. j.pc = "save"
          BY <1>a DEF ProvRunRecord
        <5>2. run'[r] = j
          BY <4>2, StepOnly
        <5>3. QED
          BY <5>1, <5>2
      <4>3. QED
        BY <4>1, <4>2
    <3>2. QED
      BY <1>14, <3>1, ProvisionedOnly, KindOfRun
  <2>2. RunSaves(r)'
    BY <2>1 DEF RunSaves
  <2>3. QED
    BY <1>2, <2>1, <2>2
<1>15. ASSUME NEW r \in Prov!Runs, Prov!RunFailed(r) PROVE SavedSoFar'
  <2>1. /\ \A q \in Prov!Runs \ {r} : run'[q] = run[q]
        /\ UNCHANGED <<stored, unsaved>>
    BY <1>15, RunFailedOnly
  <2>2. RunSaves(r)'
    <3>1. CASE run'[r] = Prov!NoRun
      BY <1>11, <3>1
    <3>2. CASE /\ run'[r].pc = "save" /\ run'[r].todo = Prov!Made(run[r].made)
               /\ run'[r].made = run[r].made
      BY <3>2 DEF RunSaves
    <3>3. QED
      BY <1>15, <3>1, <3>2, RunFailedOnly
  <2>3. QED
    BY <1>2, <2>1, <2>2
<1>16. ASSUME NEW r \in Prov!Runs, Prov!SaveSecret(r) PROVE SavedSoFar'
  <2>1. PICK d :
            /\ run[r].pc = "save"
            /\ \/ stored' = stored \union {d} /\ UNCHANGED unsaved
               \/ unsaved' = unsaved \union {d} /\ UNCHANGED stored
            /\ run'[r].pc = "save" /\ run'[r].todo = run[r].todo \ {d}
            /\ run'[r].made = run[r].made
            /\ \A q \in Prov!Runs \ {r} : run'[q] = run[q]
    BY <1>16, SaveSecretOnly
  <2>2. RunSaves(r)'
    BY <1>a, <2>1 DEF RunSaves
  <2>3. QED
    BY <1>2, <2>1, <2>2
<1>17. ASSUME NEW r \in Prov!Runs, Prov!Deliver(r) PROVE SavedSoFar'
  <2>1. run'[r] = Prov!NoRun /\ \A q \in Prov!Runs \ {r} : run'[q] = run[q]
    BY <1>17, DeliverOnly
  <2>2. UNCHANGED <<stored, unsaved>>
    BY <1>17 DEF Prov!Deliver
  <2>3. QED
    BY <1>2, <1>11, <2>1, <2>2
<1>18. QED
  BY <1>3, <1>4, <1>6, <1>7, <1>8, <1>9, <1>10, <1>12, <1>13, <1>14, <1>15, <1>16,
     <1>17 DEF Prov!Next

\* Nothing is delivered, saved, made or lost.
LEMMA PasswordsSame ==
  ASSUME Prov!PasswordIsStored, Prov!PasswordIsShown, \A d : Prov!InFlight(d) => Prov!InFlight(d)',
         UNCHANGED <<account, stored, queue, dismissed, Prov!fates>>
  PROVE  Prov!PasswordIsStored' /\ Prov!PasswordIsShown'
<1>1. Prov!PasswordIsStored'
  BY DEF Prov!PasswordIsStored, Prov!fates
<1>2. Prov!PasswordIsShown'
  BY DEF Prov!PasswordIsShown, Prov!fates, Prov!Made
<1>3. QED
  BY <1>1, <1>2

\* The password at the head is dismissed, the others stay in the queue.
LEMMA TailMade ==
  ASSUME NEW q \in Seq(Domains), q # <<>>, NEW d \in Prov!Made(q), d # Head(q)
  PROVE  d \in Prov!Made(Tail(q))
<1>1. PICK i \in 1..Len(q) : q[i] = d
  BY DEF Prov!Made
<1>2. i # 1 /\ i - 1 \in 1..Len(Tail(q)) /\ Tail(q)[i - 1] = d
  BY <1>1
<1>3. Tail(q) \in Seq(Domains) /\ DOMAIN Tail(q) = 1..Len(Tail(q))
  OBVIOUS
<1>4. QED
  BY <1>2, <1>3 DEF Prov!Made

\* A delivery adds its passwords to those of the queue.
LEMMA JoinMade ==
  ASSUME NEW q \in Seq(Domains), NEW m \in Seq(Domains)
  PROVE  Prov!Made(q) \union Prov!Made(m) \subseteq Prov!Made(q \o m)
<1>1. ASSUME NEW d \in Prov!Made(q) PROVE d \in Prov!Made(q \o m)
  <2>1. PICK i \in 1..Len(q) : q[i] = d
    BY DEF Prov!Made
  <2>2. i \in 1..Len(q \o m) /\ (q \o m)[i] = d
    BY <2>1
  <2>3. QED
    BY <2>2 DEF Prov!Made
<1>2. ASSUME NEW d \in Prov!Made(m) PROVE d \in Prov!Made(q \o m)
  <2>1. PICK i \in 1..Len(m) : m[i] = d
    BY DEF Prov!Made
  <2>2. Len(q) + i \in 1..Len(q \o m) /\ (q \o m)[Len(q) + i] = d
    BY <2>1
  <2>3. QED
    BY <2>2 DEF Prov!Made
<1>3. QED
  BY <1>1, <1>2

\* Every action keeps both properties of passwords.
LEMMA PasswordStep ==
  ProvTypeInv /\ SavedSoFar /\ Prov!PasswordIsStored /\ Prov!PasswordIsShown /\ [Prov!Next]_(Prov!vars)
    => Prov!PasswordIsStored' /\ Prov!PasswordIsShown'
<1> SUFFICES ASSUME ProvTypeInv, SavedSoFar, Prov!PasswordIsStored, Prov!PasswordIsShown, [Prov!Next]_(Prov!vars)
             PROVE  Prov!PasswordIsStored' /\ Prov!PasswordIsShown'
  OBVIOUS
<1> USE DEF Prov!screen, Prov!fates
<1>a. /\ queue \in Seq(Domains)
      /\ \A q \in Prov!Runs : run[q] \in ProvRunRecord /\ RunSaves(q)
  BY DEF ProvTypeInv, SavedSoFar
<1>b. \A r \in Prov!Bulks : r \in Prov!Runs
  BY DEF Prov!Runs
<1>1. ASSUME UNCHANGED run PROVE \A d : Prov!InFlight(d) => Prov!InFlight(d)'
  BY <1>1 DEF Prov!InFlight, Prov!Active
\* A run that steps and had made nothing, or goes on with what it had.
<1>2. ASSUME NEW r \in Prov!Runs, \A q \in Prov!Runs \ {r} : run'[q] = run[q],
             Prov!Active(r) => \/ Prov!Made(run[r].made) = {}
                               \/ Prov!Active(r)' /\ Prov!Made(run[r].made) \subseteq Prov!Made(run'[r].made)
      PROVE  \A d : Prov!InFlight(d) => Prov!InFlight(d)'
  BY <1>2 DEF Prov!InFlight, Prov!Active
<1>3. CASE UNCHANGED Prov!vars
  BY <1>1, <1>3, PasswordsSame DEF Prov!vars
<1>4. CASE Prov!SignIn
  BY <1>1, <1>4, PasswordsSame DEF Prov!SignIn
<1>5. CASE Prov!Dismiss
  <2>1. /\ queue # <<>> /\ dismissed' = dismissed \union {Head(queue)} /\ queue' = Tail(queue)
        /\ UNCHANGED <<run, account, stored, Prov!fates>>
    BY <1>5 DEF Prov!Dismiss
  <2>2. Prov!PasswordIsStored'
    BY <1>1, <2>1 DEF Prov!PasswordIsStored
  <2>3. \A d \in Prov!Made(queue) : d \in dismissed' \/ d \in Prov!Made(queue')
    BY <1>a, <2>1, TailMade
  <2>4. Prov!PasswordIsShown'
    BY <1>1, <2>1, <2>3 DEF Prov!PasswordIsShown
  <2>5. QED
    BY <2>2, <2>4
<1>6. CASE Prov!Lock \/ Prov!Logout
  <2>1. Prov!Unmount
    BY <1>6 DEF Prov!Lock, Prov!Logout
  <2>2. /\ UNCHANGED <<dismissed, account, stored, died, unsaved>>
        /\ unseen' = unseen \union Prov!Made(queue)
    BY <2>1 DEF Prov!Unmount
  <2>3. \A d : Prov!InFlight(d) => Prov!InFlight(d)'
    <3>1. ASSUME NEW r \in Prov!Runs, Prov!Active(r)
          PROVE  Prov!Active(r)' /\ Prov!Made(run[r].made) \subseteq Prov!Made(run'[r].made)
      <4>1. run'[r].pc = run[r].pc /\ run'[r].made = run[r].made
        BY <2>1, <3>1, UnmountOnly DEF Prov!Active
      <4>2. QED
        BY <3>1, <4>1 DEF Prov!Active
    <3>2. QED
      BY <3>1, InFlightKept
  <2>4. Prov!PasswordIsStored'
    BY <2>2, <2>3 DEF Prov!PasswordIsStored
  <2>5. Prov!PasswordIsShown'
    BY <2>2, <2>3 DEF Prov!PasswordIsShown
  <2>6. QED
    BY <2>4, <2>5
<1>7. CASE Prov!Crash
  <2>1. /\ UNCHANGED <<dismissed, stored, unsaved>>
        /\ unseen' = unseen \union Prov!Made(queue)
    BY <1>7 DEF Prov!Crash
  <2>2. PICK m : /\ account' = account \union m
                 /\ died' = died \union (m \ account) \union {d \in Domains : Prov!InFlight(d)}
    BY <1>7 DEF Prov!Crash
  <2>3. \A d : Prov!InFlight(d) => d \in Domains
    BY <1>a, MadeIsDomains DEF Prov!InFlight, ProvRunRecord
  <2>4. \A d \in account' \ died' : d \in account \ died /\ ~ Prov!InFlight(d)
    BY <2>2, <2>3
  <2>5. Prov!PasswordIsStored'
    BY <2>1, <2>4 DEF Prov!PasswordIsStored
  <2>6. Prov!PasswordIsShown'
    BY <2>1, <2>4 DEF Prov!PasswordIsShown
  <2>7. QED
    BY <2>5, <2>6
<1>8. ASSUME NEW d \in Domains, Prov!RunSingle(d) PROVE Prov!PasswordIsStored' /\ Prov!PasswordIsShown'
  <2> DEFINE r == <<"single", d>>
  <2>1. r \in Prov!Runs /\ ~ Prov!Active(r) /\ \A q \in Prov!Runs \ {r} : run'[q] = run[q]
    BY <1>8, RunSingleOnly, KindOfRun DEF Prov!RunSingle, Prov!Active
  <2> HIDE DEF r
  <2>2. \A e : Prov!InFlight(e) => Prov!InFlight(e)'
    BY <1>2, <2>1
  <2>3. QED
    BY <1>8, <2>2, PasswordsSame DEF Prov!RunSingle
<1>9. ASSUME NEW k \in SUBSET Domains, Prov!GrowStale(k) PROVE Prov!PasswordIsStored' /\ Prov!PasswordIsShown'
  BY <1>1, <1>9, PasswordsSame DEF Prov!GrowStale
<1>10. ASSUME NEW k \in SUBSET Domains, NEW r \in Prov!Bulks, Prov!AskBulk(r, k)
       PROVE  Prov!PasswordIsStored' /\ Prov!PasswordIsShown'
  <2>1. ~ Prov!Active(r) /\ \A q \in Prov!Runs \ {r} : run'[q] = run[q]
    BY <1>10, AskBulkOnly DEF Prov!Active
  <2>2. \A e : Prov!InFlight(e) => Prov!InFlight(e)'
    BY <1>2, <1>b, <2>1
  <2>3. QED
    BY <1>10, <2>2, PasswordsSame DEF Prov!AskBulk
<1>11. ASSUME NEW r \in Prov!Bulks, Prov!Declined(r) PROVE Prov!PasswordIsStored' /\ Prov!PasswordIsShown'
  <2>1. ~ Prov!Active(r) /\ \A q \in Prov!Runs \ {r} : run'[q] = run[q]
    BY <1>11, <1>b, StepOnly DEF Prov!Declined, Prov!Active
  <2>2. \A e : Prov!InFlight(e) => Prov!InFlight(e)'
    BY <1>2, <1>b, <2>1
  <2>3. QED
    BY <1>11, <2>2, PasswordsSame DEF Prov!Declined
<1>12. ASSUME NEW r \in Prov!Bulks, Prov!ConfirmBulk(r) PROVE Prov!PasswordIsStored' /\ Prov!PasswordIsShown'
  <2>1. ~ Prov!Active(r) /\ \A q \in Prov!Runs \ {r} : run'[q] = run[q]
    BY <1>12, ConfirmOnly DEF Prov!Active
  <2>2. \A e : Prov!InFlight(e) => Prov!InFlight(e)'
    BY <1>2, <1>b, <2>1
  <2>3. QED
    BY <1>12, <2>2, PasswordsSame DEF Prov!ConfirmBulk
<1>13. ASSUME NEW r \in Prov!Runs, Prov!Provisioned(r) PROVE Prov!PasswordIsStored' /\ Prov!PasswordIsShown'
  <2>1. PICK d \in run[r].todo :
            /\ run[r].pc = "ssh" /\ account' = account \union {d}
            /\ Prov!Made(run'[r].made) = Prov!Made(run[r].made) \union ({d} \ account)
            /\ run'[r].pc = "ssh" \/ run'[r].pc = "save"
            /\ \A q \in Prov!Runs \ {r} : run'[q] = run[q]
            /\ UNCHANGED <<Prov!screen, gate, stored, faults, Prov!fates>>
    BY <1>13, ProvisionedOnly
  <2>2. Prov!Active(r)' /\ Prov!Made(run[r].made) \subseteq Prov!Made(run'[r].made)
    BY <2>1 DEF Prov!Active
  <2>3. \A e : Prov!InFlight(e) => Prov!InFlight(e)'
    BY <1>2, <2>1, <2>2
  <2>4. d \notin account => Prov!InFlight(d)'
    BY <2>1, <2>2 DEF Prov!InFlight
  <2>5. Prov!PasswordIsStored'
    BY <2>1, <2>3, <2>4 DEF Prov!PasswordIsStored
  <2>6. Prov!PasswordIsShown'
    BY <2>1, <2>3, <2>4 DEF Prov!PasswordIsShown
  <2>7. QED
    BY <2>5, <2>6
<1>14. ASSUME NEW r \in Prov!Runs, Prov!RunFailed(r) PROVE Prov!PasswordIsStored' /\ Prov!PasswordIsShown'
  <2>1. /\ run[r].pc = "ssh" /\ \A q \in Prov!Runs \ {r} : run'[q] = run[q]
        /\ account' \ died' \subseteq account \ died
        /\ UNCHANGED <<Prov!screen, stored, unsaved, unseen>>
    BY <1>14, RunFailedOnly
  <2>2. \A e : Prov!InFlight(e) => Prov!InFlight(e)'
    <3>1. CASE run'[r].pc = "save" /\ run'[r].made = run[r].made
      <4>1. Prov!Active(r)'
        BY <3>1 DEF Prov!Active
      <4>2. QED
        BY <1>2, <2>1, <3>1, <4>1
    <3>2. CASE Prov!Kind(r) # "bulk"
      <4>1. Prov!Made(run[r].made) = {}
        BY <1>a, <2>1, <3>2, KindOfRun DEF RunSaves
      <4>2. QED
        BY <1>2, <2>1, <4>1
    <3>3. QED
      BY <1>14, <3>1, <3>2, RunFailedOnly
  <2>3. Prov!PasswordIsStored'
    BY <2>1, <2>2 DEF Prov!PasswordIsStored
  <2>4. Prov!PasswordIsShown'
    BY <2>1, <2>2 DEF Prov!PasswordIsShown
  <2>5. QED
    BY <2>3, <2>4
<1>15. ASSUME NEW r \in Prov!Runs, Prov!SaveSecret(r) PROVE Prov!PasswordIsStored' /\ Prov!PasswordIsShown'
  <2>1. PICK d :
            /\ run[r].pc = "save"
            /\ \/ stored' = stored \union {d} /\ UNCHANGED unsaved
               \/ unsaved' = unsaved \union {d} /\ UNCHANGED stored
            /\ run'[r].pc = "save" /\ run'[r].made = run[r].made
            /\ \A q \in Prov!Runs \ {r} : run'[q] = run[q]
            /\ UNCHANGED <<Prov!screen, account, died, unseen>>
    BY <1>15, SaveSecretOnly
  <2>2. Prov!Active(r)'
    BY <2>1 DEF Prov!Active
  <2>3. \A e : Prov!InFlight(e) => Prov!InFlight(e)'
    BY <1>2, <2>1, <2>2
  <2>4. Prov!PasswordIsStored'
    BY <2>1, <2>3 DEF Prov!PasswordIsStored
  <2>5. Prov!PasswordIsShown'
    BY <2>1, <2>3 DEF Prov!PasswordIsShown
  <2>6. QED
    BY <2>4, <2>5
<1>16. ASSUME NEW r \in Prov!Runs, Prov!Deliver(r) PROVE Prov!PasswordIsStored' /\ Prov!PasswordIsShown'
  <2>1. /\ run[r].pc = "save" /\ run[r].todo = {}
        /\ \A q \in Prov!Runs \ {r} : run'[q] = run[q]
        /\ UNCHANGED <<dismissed, account, stored, died, unsaved>>
    BY <1>16, DeliverOnly DEF Prov!Deliver
  <2>2. run[r].made \in Seq(Domains)
    BY <1>a DEF ProvRunRecord
  <2>3. ASSUME NEW e, Prov!InFlight(e), e \notin Prov!Made(run[r].made) PROVE Prov!InFlight(e)'
    BY <2>1, <2>3 DEF Prov!InFlight, Prov!Active
  <2>4. Prov!Made(run[r].made) \subseteq stored \union unsaved
    BY <1>a, <2>1 DEF RunSaves
  <2>5. Prov!PasswordIsStored'
    BY <2>1, <2>3, <2>4 DEF Prov!PasswordIsStored
  <2>6. /\ unseen \subseteq unseen' /\ Prov!Made(queue) \subseteq Prov!Made(queue')
        /\ Prov!Made(run[r].made) \subseteq unseen' \union Prov!Made(queue')
    BY <1>16, <1>a, <2>2, DeliverOnly, JoinMade
  <2>7. Prov!PasswordIsShown'
    BY <2>1, <2>3, <2>6 DEF Prov!PasswordIsShown
  <2>8. QED
    BY <2>5, <2>7
<1>17. QED
  BY <1>3, <1>4, <1>5, <1>6, <1>7, <1>8, <1>9, <1>10, <1>11, <1>12, <1>13, <1>14, <1>15,
     <1>16 DEF Prov!Next

-----------------------------------------------------------------------------
\* The invariant holds at first.
LEMMA ProvisionInit == Prov!Init => ProvisionInv
<1> SUFFICES ASSUME Prov!Init PROVE ProvisionInv
  OBVIOUS
<1>1. \A r \in Prov!Runs : run[r] = Prov!NoRun
  BY DEF Prov!Init
<1>2. ProvTypeInv
  <2>1. run \in [Prov!Runs -> ProvRunRecord]
    BY NoRunType DEF Prov!Init
  <2>2. gate \in [Domains -> {"free", "single", "bulk"}]
    BY DEF Prov!Init
  <2>3. record \in [SUBSET Domains -> {"open", "running", "done"}]
    BY DEF Prov!Init
  <2>4. queue \in Seq(Domains)
    BY DEF Prov!Init
  <2>5. user \in BOOLEAN /\ workspace \in BOOLEAN /\ faults \in Nat /\ crashed \in BOOLEAN
    BY DEF Prov!Init
  <2>6. QED
    BY <2>1, <2>2, <2>3, <2>4, <2>5 DEF ProvTypeInv
<1>3. GateInv
  BY <1>1, NoRunType DEF Prov!Init, GateInv, Disjoint, Prov!GateFollowsTheRuns, Prov!Active
<1>4. RecordInv
  <2>1. \A r \in Prov!Bulks : r \in Prov!Runs
    BY DEF Prov!Runs
  <2>2. QED
    BY <1>1, <2>1, NoRunType DEF Prov!Init, RecordInv, SetIsHalfDone, Prov!RecordIsTrue
<1>5. PasswordInv
  BY <1>1, NoRunType DEF Prov!Init, PasswordInv, SavedSoFar, RunSaves, Prov!Active,
     Prov!PasswordIsStored, Prov!PasswordIsShown
<1>6. QED
  BY <1>2, <1>3, <1>4, <1>5 DEF ProvisionInv

\* Every action keeps it.
LEMMA ProvisionStep == ProvisionInv /\ [Prov!Next]_(Prov!vars) => ProvisionInv'
BY ProvTypeStep, GateStep, RecordStep, SavedStep, PasswordStep DEF ProvisionInv, PasswordInv

\* It is an invariant of provisioning.
LEMMA ProvisionInvariant == Prov!Spec => []ProvisionInv
BY ProvisionInit, ProvisionStep, PTL DEF Prov!Spec

\* A run works for its targets only, and what is made and kept is of domains.
ReachInv ==
    /\ MaxFaults \in Nat /\ faults \in 0..MaxFaults
    /\ stored \subseteq Domains /\ account \subseteq Domains
    /\ died \subseteq Domains /\ unsaved \subseteq Domains /\ unseen \subseteq Domains
    /\ \A r \in Prov!Runs : run[r].todo \subseteq run[r].targets /\ Prov!Made(run[r].made) \subseteq run[r].targets

\* The bounds and the remaining types, at first.
LEMMA ReachInit == MaxFaults \in Nat /\ Prov!Init => ReachInv
BY NoRunType, MadeIsDomains DEF Prov!Init, ReachInv

\* And after every action.
LEMMA ReachStep == ProvisionInv /\ ReachInv /\ [Prov!Next]_(Prov!vars) => ReachInv'
<1> SUFFICES ASSUME ProvisionInv, ReachInv, [Prov!Next]_(Prov!vars) PROVE ReachInv'
  OBVIOUS
<1> USE DEF Prov!screen, Prov!fates
<1>a. /\ ProvTypeInv /\ SavedSoFar /\ \A r \in Prov!Runs : run[r] \in ProvRunRecord
      /\ MaxFaults \in Nat /\ faults \in 0..MaxFaults
      /\ stored \subseteq Domains /\ account \subseteq Domains
      /\ died \subseteq Domains /\ unsaved \subseteq Domains /\ unseen \subseteq Domains
      /\ queue \in Seq(Domains)
      /\ \A r \in Prov!Runs : run[r].todo \subseteq run[r].targets /\ Prov!Made(run[r].made) \subseteq run[r].targets
  BY DEF ProvisionInv, PasswordInv, ReachInv, ProvTypeInv
<1>b. Prov!Fault => faults' \in 0..MaxFaults
  BY <1>a DEF Prov!Fault
<1>c. Prov!Made(<<>>) = {}
  BY MadeIsDomains
<1>d. \A r \in Prov!Bulks : r \in Prov!Runs
  BY DEF Prov!Runs
\* One run moves on, and the rest of what is kept stays.
<1>e. ASSUME NEW r \in Prov!Runs, \A q \in Prov!Runs \ {r} : run'[q] = run[q],
             run'[r].todo \subseteq run'[r].targets, Prov!Made(run'[r].made) \subseteq run'[r].targets
      PROVE  \A q \in Prov!Runs : run'[q].todo \subseteq run'[q].targets
                            /\ Prov!Made(run'[q].made) \subseteq run'[q].targets
  BY <1>a, <1>e
<1>1. CASE UNCHANGED Prov!vars
  BY <1>a, <1>1 DEF Prov!vars, ReachInv
<1>2. CASE Prov!Dismiss \/ Prov!SignIn
  BY <1>a, <1>2 DEF Prov!Dismiss, Prov!SignIn, ReachInv
<1>3. CASE Prov!Lock \/ Prov!Logout
  <2>1. Prov!Unmount
    BY <1>3 DEF Prov!Lock, Prov!Logout
  <2>2. /\ UNCHANGED <<account, stored, faults, died, unsaved>>
        /\ unseen' = unseen \union Prov!Made(queue)
    BY <2>1 DEF Prov!Unmount
  <2>3. \A r \in Prov!Runs : run'[r].todo \subseteq run'[r].targets
                       /\ Prov!Made(run'[r].made) \subseteq run'[r].targets
    BY <1>a, <1>c, <2>1, UnmountOnly, NoRunType
  <2>4. QED
    BY <1>a, <2>2, <2>3, MadeIsDomains DEF ReachInv
<1>4. CASE Prov!Crash
  <2>1. \A r \in Prov!Runs : run'[r] = Prov!NoRun
    BY <1>4 DEF Prov!Crash
  <2>2. /\ faults' \in 0..MaxFaults /\ UNCHANGED <<stored, unsaved>>
        /\ unseen' = unseen \union Prov!Made(queue)
    BY <1>b, <1>4 DEF Prov!Crash
  <2>3. PICK made \in SUBSET UNION {run[r].todo : r \in {r \in Prov!Runs : run[r].pc = "ssh"}} :
           /\ account' = account \union made
           /\ died' = died \union (made \ account) \union {d \in Domains : Prov!InFlight(d)}
    BY <1>4 DEF Prov!Crash
  <2>4. made \subseteq Domains
    BY <1>a DEF ProvRunRecord
  <2>5. QED
    BY <1>a, <1>c, <2>1, <2>2, <2>3, <2>4, MadeIsDomains, NoRunType DEF ReachInv
<1>5. ASSUME NEW d \in Domains, Prov!RunSingle(d) PROVE ReachInv'
  <2>1. UNCHANGED <<account, stored, faults, died, unsaved, unseen>> /\ <<"single", d>> \in Prov!Runs
    BY <1>5 DEF Prov!RunSingle, Prov!Runs, Prov!Singles
  <2>2. QED
    BY <1>a, <1>c, <1>e, <1>5, <2>1, RunSingleOnly DEF ReachInv
<1>6. ASSUME NEW k \in SUBSET Domains, Prov!GrowStale(k) PROVE ReachInv'
  BY <1>a, <1>6 DEF Prov!GrowStale, ReachInv
<1>7. ASSUME NEW k \in SUBSET Domains, NEW r \in Prov!Bulks, Prov!AskBulk(r, k) PROVE ReachInv'
  <2>1. UNCHANGED <<account, stored, faults, died, unsaved, unseen>>
    BY <1>7 DEF Prov!AskBulk
  <2>2. QED
    BY <1>a, <1>c, <1>d, <1>e, <1>7, <2>1, AskBulkOnly DEF ReachInv
<1>8. ASSUME NEW r \in Prov!Bulks, Prov!Declined(r) PROVE ReachInv'
  <2>1. UNCHANGED <<account, stored, faults, died, unsaved, unseen>> /\ Prov!Step(r, Prov!NoRun)
    BY <1>8 DEF Prov!Declined
  <2>2. QED
    BY <1>a, <1>c, <1>d, <1>e, <2>1, StepOnly, NoRunType DEF ReachInv
<1>9. ASSUME NEW r \in Prov!Bulks, Prov!ConfirmBulk(r) PROVE ReachInv'
  <2>1. UNCHANGED <<account, stored, faults, died, unsaved, unseen>>
    BY <1>9 DEF Prov!ConfirmBulk
  <2>2. run'[r].todo \subseteq run'[r].targets /\ Prov!Made(run'[r].made) \subseteq run'[r].targets
    BY <1>a, <1>c, <1>d, <1>9, ConfirmOnly, NoRunType
  <2>3. QED
    BY <1>a, <1>d, <1>e, <1>9, <2>1, <2>2, ConfirmOnly DEF ReachInv
<1>10. ASSUME NEW r \in Prov!Runs, Prov!Provisioned(r) PROVE ReachInv'
  <2>1. PICK d \in run[r].todo :
            /\ d \in Domains /\ account' = account \union {d}
            /\ run'[r].targets = run[r].targets
            /\ Prov!Made(run'[r].made) = Prov!Made(run[r].made) \union ({d} \ account)
            /\ run'[r].todo = run[r].todo \ {d} \/ run'[r].todo = Prov!Made(run'[r].made)
            /\ \A q \in Prov!Runs \ {r} : run'[q] = run[q]
            /\ UNCHANGED <<stored, faults, died, unsaved, unseen>>
    BY <1>a, <1>10, ProvisionedOnly
  <2>2. Prov!Made(run'[r].made) \subseteq run'[r].targets
    BY <1>a, <2>1
  <2>3. run'[r].todo \subseteq run'[r].targets
    BY <1>a, <2>1, <2>2
  <2>4. QED
    BY <1>a, <1>e, <2>1, <2>2, <2>3 DEF ReachInv
<1>11. ASSUME NEW r \in Prov!Runs, Prov!RunFailed(r) PROVE ReachInv'
  <2>1. faults' \in 0..MaxFaults /\ UNCHANGED <<stored, unsaved, unseen>>
    BY <1>b, <1>11 DEF Prov!RunFailed
  <2>2. account' \subseteq Domains /\ died' \subseteq Domains
    BY <1>a, <1>11 DEF Prov!RunFailed, ProvRunRecord
  <2>3. run'[r].todo \subseteq run'[r].targets /\ Prov!Made(run'[r].made) \subseteq run'[r].targets
    BY <1>a, <1>c, <1>11, RunFailedOnly, NoRunType
  <2>4. QED
    BY <1>a, <1>e, <1>11, <2>1, <2>2, <2>3, RunFailedOnly DEF ReachInv
<1>12. ASSUME NEW r \in Prov!Runs, Prov!SaveSecret(r) PROVE ReachInv'
  <2>1. PICK d :
            /\ d = run[r].made[Len(run[r].made) - Prov!Cardinality(run[r].todo) + 1]
            /\ run[r].pc = "save" /\ run[r].todo # {}
            /\ stored' = stored \union {d} \/ stored' = stored
            /\ unsaved' = unsaved \union {d} \/ unsaved' = unsaved
            /\ run'[r].todo = run[r].todo \ {d}
            /\ run'[r].made = run[r].made /\ run'[r].targets = run[r].targets
            /\ \A q \in Prov!Runs \ {r} : run'[q] = run[q]
            /\ UNCHANGED <<account, died, unseen>>
    BY <1>a, <1>12, SaveSecretOnly
  <2>2. run[r].made \in Seq(Domains) /\ run[r].todo \in SUBSET Prov!Made(run[r].made)
    BY <1>a, <2>1 DEF ProvRunRecord, SavedSoFar, RunSaves
  <2>3. d \in Domains
    BY <2>1, <2>2, NextIsMade, MadeIsDomains
  <2>4. faults' \in 0..MaxFaults
    BY <1>a, <1>b, <1>12 DEF Prov!SaveSecret
  <2>5. QED
    BY <1>a, <1>e, <2>1, <2>3, <2>4 DEF ReachInv
<1>13. ASSUME NEW r \in Prov!Runs, Prov!Deliver(r) PROVE ReachInv'
  <2>1. UNCHANGED <<account, stored, faults, died, unsaved>>
    BY <1>13 DEF Prov!Deliver
  <2>2. unseen' \subseteq Domains
    BY <1>a, <1>13, DeliverOnly, MadeIsDomains DEF ProvRunRecord
  <2>3. QED
    BY <1>a, <1>c, <1>e, <1>13, <2>1, <2>2, DeliverOnly, NoRunType DEF ReachInv
<1>14. QED
  BY <1>1, <1>2, <1>3, <1>4, <1>5, <1>6, <1>7, <1>8, <1>9, <1>10, <1>11, <1>12,
      <1>13 DEF Prov!Next

\* Both give the types (TypeOK).
LEMMA ProvisionIsTyped == ProvisionInv /\ ReachInv => Prov!TypeOK
<1> SUFFICES ASSUME ProvisionInv, ReachInv PROVE Prov!TypeOK
  OBVIOUS
<1>1. \A r \in Prov!Runs : run[r].pc \in {"no", "confirm", "ssh", "save"} /\ run[r].targets \subseteq Domains
  BY DEF ProvisionInv, ProvTypeInv, ProvRunRecord
<1>2. \A k \in SUBSET Domains : record[k] \in {"open", "running", "done"}
  BY DEF ProvisionInv, ProvTypeInv
<1>3. QED
  BY <1>1, <1>2 DEF ProvisionInv, ProvTypeInv, ReachInv, Prov!TypeOK

\* The invariant gives RunsAreGated: one run per domain, the gate and the record.
LEMMA RunsAreKept == ProvisionInv => Prov!RunsAreGated
<1> SUFFICES ASSUME ProvisionInv PROVE Prov!RunsAreGated
  OBVIOUS
<1>1. ASSUME NEW d \in Domains PROVE Prov!Cardinality(Prov!OnServer(d)) <= 1
  <2>1. \A q, r \in Prov!OnServer(d) : q = r
    BY DEF Prov!OnServer, ProvisionInv, GateInv, Disjoint, Prov!Active
  <2>2. CASE Prov!OnServer(d) = {}
    BY ProvSizes, <2>2, FS_EmptySet
  <2>3. CASE Prov!OnServer(d) # {}
    <3>1. PICK r : Prov!OnServer(d) = {r}
      BY <2>1, <2>3
    <3>2. QED
      <4>1. Cardinality({r}) = 1
        BY FS_Singleton
      <4>2. Prov!Cardinality({r}) = 1
        BY <4>1, ProvSizes
      <4> QED BY <3>1, <4>2
  <2>4. QED
    BY <2>2, <2>3
<1>2. QED
  BY <1>1 DEF ProvisionInv, GateInv, RecordInv, Prov!RunsAreGated, Prov!OneRunPerDomain

\* It gives PasswordsAreDelivered: what was made is stored and shown.
LEMMA PasswordsAreKept == ProvisionInv => Prov!PasswordsAreDelivered
BY DEF ProvisionInv, PasswordInv, Prov!PasswordsAreDelivered

(* For any set of domains, however runs from the card, the toolbar and a link start,
   fail, are left behind or die with the application: no domain is in two of them, its
   gate is shut exactly while one has it, and the record of a set is true
   (runProvisionDomain, runBulkProvisionDomains, bulk_runs). *)
THEOREM RunsKeepTheirGates == Prov!Spec => []Prov!RunsAreGated
BY RunsAreKept, ProvisionInvariant, PTL

(* An FTP password that a run has made reaches the vault, unless a step failed or the
   user signed out, and the screen, unless the workspace was left, whatever sets it was
   made in (persistProvisionSecrets, provisionQueue). *)
THEOREM PasswordsReachTheUser == Prov!Spec => []Prov!PasswordsAreDelivered
BY PasswordsAreKept, ProvisionInvariant, PTL

-----------------------------------------------------------------------------
(***************************************************************************)
(* FastPanel on one server: a panel on record is not replaced, and its     *)
(* password is kept and shown.                                             *)
(***************************************************************************)
PcOfRun    == {"no", "confirm", "pull", "check", "steps", "back", "deliver"}
PanelRunRecord == [pc : PcOfRun, made : 0..MaxPanels, heard : BOOLEAN]
FormRecord == [open : BOOLEAN, typed : 0..MaxPanels]
SaveRecord == [pc : {"blob", "record"}, typed : Panel!Panels, over : BOOLEAN, live : BOOLEAN]

PanelTypeInv ==
    /\ MaxPanels \in Nat /\ MaxPanels >= 2 /\ MaxFaults \in Nat
    /\ panel \in 0..MaxPanels /\ stored \in 0..MaxPanels
    /\ status \in Panel!States /\ cached \in Panel!States /\ row \in Panel!States
    /\ run \in [Panel!Runs -> PanelRunRecord]
    /\ form \in FormRecord /\ save \in SUBSET SaveRecord
    /\ queue \in Seq(Panel!Panels) /\ fate \in [Panel!Panels -> Panel!Fates]
    /\ faults \in 0..MaxFaults
    /\ blind \in BOOLEAN /\ replaced \in BOOLEAN
    /\ workspace \in BOOLEAN /\ open \in BOOLEAN

\* A run has made a panel only once the installer is through.
MadeInv == \A r \in Panel!Runs : run[r].made # Panel!NoPanel => run[r].pc \in {"back", "deliver"}

\* The record names a blob from the first connection on, and only then.
BlobInv ==
    /\ status # "connected" => stored = Panel!NoPanel
    /\ row = "connected" => status = "connected"
    /\ \A s \in save : s.over => status = "connected"

\* Without an excuse, one run or the saves of one password are at work, and a run that
\* installs knows the record.
AloneInv ==
    ~blind => /\ ~replaced
              /\ stored # Panel!NoPanel => stored = panel
              /\ \A s \in save : s.typed = panel
              /\ save # {} => \A r \in Panel!Runs : ~Panel!Active(r)
              /\ \A r, q \in Panel!Runs : Panel!Active(r) /\ Panel!Active(q) => r = q
              /\ \A r \in Panel!Runs : run[r].pc = "steps" => status = "none"

PanelInv == PanelTypeInv /\ MadeInv /\ BlobInv /\ AloneInv /\ Panel!CredsAreShown

\* The records of nothing.
LEMMA PanelIdle ==
  MaxPanels \in Nat =>
    /\ Panel!NoRun \in PanelRunRecord /\ Panel!NoRun.pc = "no" /\ Panel!NoRun.made = Panel!NoPanel
    /\ Panel!NoForm \in FormRecord
    /\ \A p \in Panel!MadeHere : p # Panel!NoPanel /\ p \in Panel!Panels
  BY DEF Panel!NoRun, PanelRunRecord, PcOfRun, Panel!NoPanel, Panel!NoForm, FormRecord,
         Panel!MadeHere, Panel!Panels

\* The invariant of the installation holds at first.
LEMMA PanelInit == MaxPanels \in Nat /\ MaxPanels >= 2 /\ MaxFaults \in Nat /\ Panel!Init => PanelInv
<1> SUFFICES ASSUME MaxPanels \in Nat, MaxPanels >= 2, MaxFaults \in Nat, Panel!Init PROVE PanelInv
  OBVIOUS
<1>1. PanelTypeInv
  <2>1. run \in [Panel!Runs -> PanelRunRecord] /\ form \in FormRecord
    BY PanelIdle DEF Panel!Init
  <2>2. queue \in Seq(Panel!Panels) /\ fate \in [Panel!Panels -> Panel!Fates]
    BY DEF Panel!Init, Panel!Fates
  <2>3. panel \in 0..MaxPanels /\ stored \in 0..MaxPanels /\ faults \in 0..MaxFaults
    BY DEF Panel!Init, Panel!NoPanel
  <2>4. blind \in BOOLEAN /\ replaced \in BOOLEAN /\ workspace \in BOOLEAN /\ open \in BOOLEAN
    BY DEF Panel!Init
  <2> QED BY <2>1, <2>2, <2>3, <2>4 DEF Panel!Init, PanelTypeInv, Panel!States
<1>2. \A r \in Panel!Runs : run[r] = Panel!NoRun BY DEF Panel!Init
<1>3. MadeInv /\ BlobInv /\ AloneInv
  BY <1>2, PanelIdle DEF MadeInv, BlobInv, AloneInv, Panel!Init, Panel!Active
<1>4. Panel!CredsAreShown
  BY DEF Panel!CredsAreShown, Panel!MadeHere, Panel!Init, Panel!NoPanel
<1> QED BY <1>1, <1>3, <1>4 DEF PanelInv

\* A run that takes a step, with what it changes in itself.
LEMMA RunType ==
  ASSUME PanelInv, NEW r \in Panel!Runs, NEW j \in PanelRunRecord, Panel!Step(r, j)
  PROVE  /\ run' \in [Panel!Runs -> PanelRunRecord] /\ run'[r] = j
         /\ \A q \in Panel!Runs \ {r} : run'[q] = run[q]
  BY DEF PanelInv, PanelTypeInv, Panel!Step

\* A run that is not at work may ask, be declined or begin.
LEMMA AskStep ==
  ASSUME PanelInv, NEW r \in Panel!Runs, NEW j \in PanelRunRecord, Panel!Step(r, j),
         ~Panel!Active(r), j.pc \in {"no", "confirm", "pull"}, j.made = Panel!NoPanel,
         UNCHANGED <<panel, status, stored, cached, Panel!screen, fate, faults, replaced>>,
         \/ blind' = blind /\ j.pc \in {"no", "confirm"}
         \/ blind' = (blind \/ Panel!Beside(r))
  PROVE  PanelInv'
<1> USE DEF PanelInv
<1>1. run' \in [Panel!Runs -> PanelRunRecord] /\ run'[r] = j /\ \A q \in Panel!Runs \ {r} : run'[q] = run[q]
  BY RunType
<1>2. blind' \in BOOLEAN BY DEF PanelTypeInv
<1>3. PanelTypeInv' BY <1>1, <1>2 DEF PanelTypeInv, Panel!screen
<1>4. MadeInv' /\ BlobInv' BY <1>1 DEF MadeInv, BlobInv, Panel!screen
<1>5. AloneInv' BY <1>1 DEF AloneInv, Panel!Beside, Panel!Active, Panel!screen
<1>6. run[r].made = Panel!NoPanel BY DEF MadeInv, Panel!Active
<1>7. \A p \in Panel!MadeHere : Panel!InFlight(p) => Panel!InFlight(p)'
  BY <1>1, <1>6, PanelIdle DEF Panel!InFlight, PanelTypeInv
<1>8. Panel!CredsAreShown' BY <1>7 DEF Panel!CredsAreShown, Panel!screen
<1> QED BY <1>3, <1>4, <1>5, <1>8

\* A run at work goes a step on without making a panel.
LEMMA OnStep ==
  ASSUME PanelInv, NEW r \in Panel!Runs, NEW j \in PanelRunRecord, Panel!Step(r, j),
         Panel!Active(r), j.made = run[r].made,
         j.pc = "no" \/ j.pc = "steps" \/ j.pc = "check" \/ j.pc = "deliver",
         j.made # Panel!NoPanel => j.pc = "deliver",
         UNCHANGED <<panel, stored, Panel!screen, fate, replaced>>,
         cached' \in Panel!States, faults' \in 0..MaxFaults, blind' \in BOOLEAN,
         blind => blind',
         \/ UNCHANGED status
         \/ status = "none" /\ status' = "installed" /\ j.pc # "steps",
         j.pc = "steps" /\ ~blind' => status = "none"
  PROVE  PanelInv'
<1> USE DEF PanelInv
<1>1. run' \in [Panel!Runs -> PanelRunRecord] /\ run'[r] = j /\ \A q \in Panel!Runs \ {r} : run'[q] = run[q]
  BY RunType
<1>2. status' \in Panel!States /\ (status = "connected" <=> status' = "connected")
  BY DEF PanelTypeInv, Panel!States
<1>3. PanelTypeInv' BY <1>1, <1>2 DEF PanelTypeInv, Panel!screen
<1>4. MadeInv' BY <1>1 DEF MadeInv
<1>5. BlobInv' BY <1>2 DEF BlobInv, Panel!screen
<1>6. AloneInv'
  <2> SUFFICES ASSUME ~blind' PROVE AloneInv' BY DEF AloneInv
  <2>1. ~blind BY DEF PanelTypeInv
  <2>2. \A q \in Panel!Runs : Panel!Active(q)' => Panel!Active(q)
    BY <1>1 DEF Panel!Active
  <2>3. \A q \in Panel!Runs \ {r} : run'[q].pc # "steps"
    BY <1>1, <2>1 DEF AloneInv, Panel!Active
  <2>4. \A q \in Panel!Runs : run'[q].pc = "steps" => status' = "none"
    BY <1>1, <2>3
  <2> QED BY <2>1, <2>2, <2>4 DEF AloneInv, Panel!screen
<1>7. \A p \in Panel!MadeHere : Panel!InFlight(p) => Panel!InFlight(p)'
  BY <1>1 DEF Panel!InFlight
<1>8. Panel!CredsAreShown' BY <1>7 DEF Panel!CredsAreShown, Panel!screen
<1> QED BY <1>3, <1>4, <1>5, <1>6, <1>8

\* The installer is through: there is a new panel, given, not given or not told of.
LEMMA InstallStep ==
  ASSUME PanelInv, NEW r \in Panel!Runs, NEW j \in PanelRunRecord, Panel!Step(r, j),
         run[r].pc = "steps", Panel!NewPanel,
         \/ j.pc = "back" /\ j.made = panel' /\ UNCHANGED fate
         \/ /\ j.pc \in {"no", "back"} /\ j.made = Panel!NoPanel
            /\ fate' = [fate EXCEPT ![panel'] = "failed"],
         faults' \in 0..MaxFaults, UNCHANGED <<status, stored, cached, Panel!screen, blind>>
  PROVE  PanelInv'
<1> USE DEF PanelInv
<1>1. run' \in [Panel!Runs -> PanelRunRecord] /\ run'[r] = j /\ \A q \in Panel!Runs \ {r} : run'[q] = run[q]
  BY RunType
<1>2. /\ panel' \in Panel!Panels /\ panel' \in 0..MaxPanels /\ replaced' \in BOOLEAN
      /\ \A p \in Panel!MadeHere : p <= panel' => p <= panel \/ p = panel'
  BY DEF Panel!NewPanel, PanelTypeInv, Panel!NoPanel, Panel!MadeHere, Panel!Panels
<1>3. fate' \in [Panel!Panels -> Panel!Fates]
  BY DEF PanelTypeInv, Panel!Fates
<1>4. PanelTypeInv' BY <1>1, <1>2, <1>3 DEF PanelTypeInv, Panel!screen
<1>5. MadeInv' BY <1>1 DEF MadeInv
<1>6. BlobInv' BY DEF BlobInv, Panel!screen
<1>7. AloneInv'
  <2> SUFFICES ASSUME ~blind' PROVE AloneInv' BY DEF AloneInv
  <2>1. Panel!Active(r) /\ ~blind BY DEF Panel!Active
  <2>2. status = "none" /\ save = {} /\ ~replaced BY <2>1 DEF AloneInv
  <2>3. stored = Panel!NoPanel /\ ~replaced' BY <2>2 DEF BlobInv, Panel!NewPanel
  <2>4. \A q \in Panel!Runs : Panel!Active(q)' => Panel!Active(q)
    BY <1>1, <2>1 DEF Panel!Active
  <2> QED BY <1>1, <2>1, <2>2, <2>3, <2>4 DEF AloneInv, Panel!screen
<1>8. run[r].made = Panel!NoPanel BY DEF MadeInv
<1>9. \A p \in Panel!MadeHere : Panel!InFlight(p) => Panel!InFlight(p)'
  BY <1>1, <1>8, PanelIdle DEF Panel!InFlight, PanelTypeInv
<1>10. (\E q \in Panel!Runs : run'[q].made = panel') \/ fate'[panel'] # "open"
  BY <1>1, <1>2 DEF PanelTypeInv
<1>11. \A p \in Panel!Panels : fate'[p] = "open" => fate[p] = "open"
  BY <1>2 DEF PanelTypeInv
<1>12. Panel!CredsAreShown'
  <2> SUFFICES ASSUME NEW p \in Panel!MadeHere, p <= panel', fate'[p] = "open"
               PROVE  Panel!InFlight(p)' \/ \E i \in DOMAIN queue' : queue'[i] = p
    BY DEF Panel!CredsAreShown
  <2>1. p \in Panel!Panels BY PanelIdle DEF PanelTypeInv
  <2>2. CASE p = panel'
    BY <1>10, <2>2 DEF Panel!InFlight
  <2>3. CASE p <= panel
    BY <1>9, <1>11, <2>1, <2>3 DEF Panel!CredsAreShown, Panel!screen
  <2> QED BY <1>2, <2>2, <2>3
<1> QED BY <1>4, <1>5, <1>6, <1>7, <1>12

\* The password reaches the queue if the workspace it was begun in is there.
LEMMA DeliverStep == ASSUME PanelInv, NEW r \in Panel!Runs, Panel!Deliver(r) PROVE PanelInv'
<1> USE DEF PanelInv
<1> DEFINE made == run[r].made
<1>1. run' \in [Panel!Runs -> PanelRunRecord] /\ run'[r] = Panel!NoRun /\ \A q \in Panel!Runs \ {r} : run'[q] = run[q]
  BY RunType, PanelIdle DEF Panel!Deliver, PanelTypeInv
<1>2. /\ UNCHANGED <<panel, status, stored, cached, row, open, form, save, workspace,
                     faults, blind, replaced>>
      /\ \/ made = Panel!NoPanel /\ UNCHANGED <<queue, fate>>
         \/ made # Panel!NoPanel /\ queue' = Append(queue, made) /\ UNCHANGED fate
         \/ made # Panel!NoPanel /\ fate' = [fate EXCEPT ![made] = "gone"] /\ UNCHANGED queue
  BY DEF Panel!Deliver
<1>3. made \in 0..MaxPanels /\ (made # Panel!NoPanel => made \in Panel!Panels)
  BY DEF PanelTypeInv, PanelRunRecord, Panel!Panels, Panel!NoPanel
<1> HIDE DEF made
<1>4. /\ queue' \in Seq(Panel!Panels) /\ fate' \in [Panel!Panels -> Panel!Fates]
      /\ \A p \in Panel!Panels : fate'[p] = "open" => fate[p] = "open"
  BY <1>2, <1>3 DEF PanelTypeInv, Panel!Fates
<1>5. \A p : (\E i \in DOMAIN queue : queue[i] = p) => \E i \in DOMAIN queue' : queue'[i] = p
  <2>1. CASE UNCHANGED queue BY <2>1
  <2>2. CASE queue' = Append(queue, made)
    <3>1. /\ Len(queue) \in Nat /\ DOMAIN queue = 1..Len(queue) /\ DOMAIN queue' = 1..(Len(queue) + 1)
          /\ \A i \in 1..Len(queue) : queue'[i] = queue[i]
      BY <2>2 DEF PanelTypeInv
    <3> QED BY <3>1
  <2> QED BY <1>2, <2>1, <2>2
<1>6. made \in Panel!MadeHere => fate'[made] # "open" \/ \E i \in DOMAIN queue' : queue'[i] = made
  <2> SUFFICES ASSUME made \in Panel!MadeHere
               PROVE  fate'[made] # "open" \/ \E i \in DOMAIN queue' : queue'[i] = made
    OBVIOUS
  <2>1. made # Panel!NoPanel /\ made \in Panel!Panels BY PanelIdle DEF PanelTypeInv
  <2>2. CASE queue' = Append(queue, made)
    <3>1. /\ Len(queue) \in Nat /\ DOMAIN queue' = 1..(Len(queue) + 1)
          /\ queue'[Len(queue) + 1] = made
      BY <1>3, <2>1, <2>2 DEF PanelTypeInv
    <3> QED BY <3>1
  <2>3. CASE fate' = [fate EXCEPT ![made] = "gone"] BY <2>1, <2>3 DEF PanelTypeInv
  <2> QED BY <1>2, <2>1, <2>2, <2>3
<1>7. PanelTypeInv' BY <1>1, <1>2, <1>4 DEF PanelTypeInv
<1>8. MadeInv' /\ BlobInv' BY <1>1, <1>2, PanelIdle DEF MadeInv, BlobInv, PanelTypeInv
<1>9. AloneInv'
  <2>1. Panel!Active(r) BY DEF Panel!Deliver, Panel!Active
  <2>2. \A q \in Panel!Runs : Panel!Active(q)' => Panel!Active(q)
    BY <1>1, <2>1 DEF Panel!Active
  <2>3. \A q \in Panel!Runs : run'[q].pc = "steps" => run[q].pc = "steps"
    BY <1>1, PanelIdle DEF PanelTypeInv
  <2> QED BY <1>2, <2>2, <2>3 DEF AloneInv
<1>10. \A p \in Panel!MadeHere : Panel!InFlight(p) => Panel!InFlight(p)' \/ p = made
  BY <1>1 DEF Panel!InFlight, made
<1>11. \A p \in Panel!MadeHere : p \in Panel!Panels BY PanelIdle DEF PanelTypeInv
<1>12. Panel!CredsAreShown'
  BY <1>2, <1>4, <1>5, <1>6, <1>10, <1>11 DEF Panel!CredsAreShown
<1> QED BY <1>7, <1>8, <1>9, <1>12

\* The page, the form and the workspace leave the runs alone.
LEMMA ScreenStep == ASSUME PanelInv, Panel!Screen PROVE PanelInv'
<1> USE DEF PanelInv
<1>0. UNCHANGED <<panel, status, stored, cached, run, faults, replaced>> BY DEF Panel!Screen
<1>1. /\ Panel!Unwatched \in SUBSET SaveRecord
      /\ \A s \in Panel!Unwatched : \E t \in save : s.typed = t.typed /\ s.over = t.over
  BY DEF Panel!Unwatched, PanelTypeInv, SaveRecord
<1>2. \A p : Panel!InFlight(p)' <=> Panel!InFlight(p) BY <1>0 DEF Panel!InFlight
<1>3. \A r \in Panel!Runs : Panel!Active(r)' <=> Panel!Active(r) BY <1>0 DEF Panel!Active
<1>4. MadeInv' BY <1>0 DEF MadeInv
<1>5. ASSUME UNCHANGED <<queue, fate, blind>>, form' \in FormRecord, save' \in {save, Panel!Unwatched},
             row' \in {row, status}, open' \in BOOLEAN, workspace' \in BOOLEAN
      PROVE  PanelInv'
  <2>1. \A s \in save' : \E t \in save : s.typed = t.typed /\ s.over = t.over BY <1>1, <1>5
  <2>2. PanelTypeInv' BY <1>0, <1>1, <1>5 DEF PanelTypeInv
  <2>3. BlobInv' BY <1>0, <1>5, <2>1 DEF BlobInv
  <2>4. AloneInv' BY <1>0, <1>3, <1>5, <2>1 DEF AloneInv
  <2>5. Panel!CredsAreShown' BY <1>0, <1>2, <1>5 DEF Panel!CredsAreShown
  <2> QED BY <1>4, <2>2, <2>3, <2>4, <2>5
<1>6. Panel!NoForm \in FormRecord /\ form \in FormRecord /\ open \in BOOLEAN /\ workspace \in BOOLEAN
  BY PanelIdle DEF PanelTypeInv
<1>7. CASE (Panel!Turn \/ Panel!Refetch) /\ UNCHANGED blind
  <2>1. (~open) \in BOOLEAN OBVIOUS
  <2> QED BY <1>5, <1>6, <1>7, <2>1 DEF Panel!Turn, Panel!Refetch
<1>8. CASE (Panel!Return \/ Panel!CloseConnect) /\ UNCHANGED blind
  BY <1>5, <1>6, <1>8 DEF Panel!Return, Panel!CloseConnect
<1>9. CASE (Panel!OpenConnect \/ Panel!TypePassword) /\ UNCHANGED blind
  <2>1. form' \in FormRecord
    <3>1. [Panel!NoForm EXCEPT !.open = TRUE] \in FormRecord BY <1>6 DEF FormRecord
    <3>2. [form EXCEPT !.typed = panel] \in FormRecord BY <1>6 DEF FormRecord, PanelTypeInv
    <3> QED BY <1>9, <3>1, <3>2 DEF Panel!OpenConnect, Panel!TypePassword
  <2> QED BY <1>5, <1>6, <1>9, <2>1 DEF Panel!OpenConnect, Panel!TypePassword
<1>10. CASE Panel!SaveConnect
  <2> DEFINE s == [pc |-> "blob", typed |-> form.typed, over |-> row = "connected", live |-> TRUE]
  <2>1. /\ save' = save \union {s} /\ UNCHANGED <<row, open, form, workspace, queue, fate>>
        /\ blind' = (blind \/ form.typed # panel \/ \E r \in Panel!Runs : Panel!Active(r))
    BY <1>10 DEF Panel!SaveConnect
  <2>2. s \in SaveRecord /\ s.typed = form.typed /\ s.over = (row = "connected")
    BY <1>10 DEF Panel!SaveConnect, SaveRecord, PanelTypeInv, FormRecord, Panel!Panels, Panel!NoPanel
  <2> HIDE DEF s
  <2>3. blind' \in BOOLEAN BY <2>1 DEF PanelTypeInv
  <2>4. PanelTypeInv' BY <1>0, <2>1, <2>2, <2>3 DEF PanelTypeInv
  <2>5. BlobInv' BY <1>0, <2>1, <2>2 DEF BlobInv
  <2>6. AloneInv' BY <1>0, <1>3, <2>1, <2>2 DEF AloneInv
  <2>7. Panel!CredsAreShown' BY <1>0, <1>2, <2>1 DEF Panel!CredsAreShown
  <2> QED BY <1>4, <2>4, <2>5, <2>6, <2>7
<1>11. CASE Panel!Dismiss /\ UNCHANGED blind
  <2>1. /\ UNCHANGED <<row, open, form, save, workspace, blind>> /\ queue # <<>> /\ queue' = Tail(queue)
        /\ fate' = [fate EXCEPT ![Head(queue)] = "shown"]
    BY <1>11 DEF Panel!Dismiss
  <2>2. /\ queue' \in Seq(Panel!Panels) /\ Head(queue) \in Panel!Panels /\ Head(queue) = queue[1]
        /\ Len(queue) \in Nat /\ DOMAIN queue = 1..Len(queue) /\ DOMAIN queue' = 1..(Len(queue) - 1)
        /\ \A i \in 1..(Len(queue) - 1) : queue'[i] = queue[i + 1]
    BY <2>1 DEF PanelTypeInv
  <2>3. fate' \in [Panel!Panels -> Panel!Fates] BY <2>1 DEF PanelTypeInv, Panel!Fates
  <2>4. PanelTypeInv' BY <1>0, <2>1, <2>2, <2>3 DEF PanelTypeInv
  <2>5. BlobInv' /\ AloneInv' BY <1>0, <1>3, <2>1 DEF BlobInv, AloneInv
  <2>6. Panel!CredsAreShown'
    <3> SUFFICES ASSUME NEW p \in Panel!MadeHere, p <= panel', fate'[p] = "open"
                 PROVE  Panel!InFlight(p)' \/ \E i \in DOMAIN queue' : queue'[i] = p
      BY DEF Panel!CredsAreShown
    <3>1. p \in Panel!Panels BY PanelIdle DEF PanelTypeInv
    <3>2. p # queue[1] /\ fate[p] = "open" BY <2>1, <2>2, <3>1 DEF PanelTypeInv
    <3>3. CASE Panel!InFlight(p) BY <1>2, <3>3
    <3>4. ASSUME NEW i \in DOMAIN queue, queue[i] = p PROVE \E k \in DOMAIN queue' : queue'[k] = p
      <4>1. i - 1 \in DOMAIN queue' /\ queue'[i - 1] = p BY <2>2, <3>2, <3>4
      <4> QED BY <4>1
    <3> QED BY <1>0, <3>2, <3>3, <3>4 DEF Panel!CredsAreShown
  <2> QED BY <1>4, <2>4, <2>5, <2>6
<1> QED BY <1>7, <1>8, <1>9, <1>10, <1>11 DEF Panel!Screen

\* Signing out or locking: what is on the screen goes, what is under way goes on.
LEMMA UnmountStep == ASSUME PanelInv, Panel!Unmount PROVE PanelInv'
<1> USE DEF PanelInv
<1>0. /\ UNCHANGED <<row, panel, status, stored, cached, faults, blind, replaced>>
      /\ workspace' = FALSE /\ open' = FALSE /\ form' = Panel!NoForm /\ queue' = <<>>
      /\ save' = Panel!Unwatched
      /\ fate' = [p \in Panel!Panels |-> IF \E i \in DOMAIN queue : queue[i] = p THEN "gone" ELSE fate[p]]
  BY DEF Panel!Unmount
<1>1. /\ Panel!Unwatched \in SUBSET SaveRecord
      /\ \A s \in Panel!Unwatched : \E t \in save : s.typed = t.typed /\ s.over = t.over
  BY DEF Panel!Unwatched, PanelTypeInv, SaveRecord
<1>2. ASSUME NEW r \in Panel!Runs
      PROVE  /\ run'[r] \in PanelRunRecord /\ run'[r].made = run[r].made
             /\ run'[r].pc = run[r].pc \/ (run'[r].pc = "no" /\ run[r].pc = "confirm")
  <2>1. run[r] \in PanelRunRecord BY DEF PanelTypeInv
  <2>2. run'[r] = IF run[r].pc = "confirm" THEN Panel!NoRun ELSE [run[r] EXCEPT !.heard = FALSE]
    BY DEF Panel!Unmount
  <2>3. CASE run[r].pc = "confirm" BY <2>2, <2>3, PanelIdle DEF MadeInv, PanelTypeInv
  <2>4. CASE run[r].pc # "confirm" BY <2>1, <2>2, <2>4 DEF PanelRunRecord
  <2> QED BY <2>3, <2>4
<1>3. run' \in [Panel!Runs -> PanelRunRecord]
  <2>1. run' = [r \in Panel!Runs |-> run'[r]] BY DEF Panel!Unmount
  <2> QED BY <1>2, <2>1
<1>4. fate' \in [Panel!Panels -> Panel!Fates] BY <1>0 DEF PanelTypeInv, Panel!Fates
<1>5. workspace' \in BOOLEAN /\ open' \in BOOLEAN /\ queue' \in Seq(Panel!Panels)
  <2>1. workspace' \in BOOLEAN /\ open' \in BOOLEAN BY <1>0
  <2>2. queue' \in Seq(Panel!Panels) BY <1>0
  <2> QED BY <2>1, <2>2
<1>6. PanelTypeInv' BY <1>0, <1>1, <1>3, <1>4, <1>5, PanelIdle DEF PanelTypeInv
<1>7. MadeInv' /\ BlobInv' BY <1>0, <1>1, <1>2 DEF MadeInv, BlobInv
<1>8. AloneInv'
  <2>1. \A r \in Panel!Runs : /\ Panel!Active(r)' <=> Panel!Active(r)
                              /\ run'[r].pc = "steps" => run[r].pc = "steps"
    BY <1>2 DEF Panel!Active
  <2> QED BY <1>0, <1>1, <2>1 DEF AloneInv
<1>9. \A p : Panel!InFlight(p) => Panel!InFlight(p)' BY <1>2 DEF Panel!InFlight
<1>10. \A p \in Panel!MadeHere : p \in Panel!Panels BY PanelIdle DEF PanelTypeInv
<1>11. Panel!CredsAreShown' BY <1>0, <1>9, <1>10 DEF Panel!CredsAreShown
<1> QED BY <1>6, <1>7, <1>8, <1>11

\* The two steps of a save of Connect Existing.
LEMMA SaveStep ==
  ASSUME PanelInv, NEW s \in save, Panel!PutBlob(s) \/ Panel!PersistConnect(s) PROVE PanelInv'
<1> USE DEF PanelInv
<1>1. s \in SaveRecord /\ s.typed \in 0..MaxPanels
  BY DEF PanelTypeInv, SaveRecord, Panel!Panels
<1>2. UNCHANGED <<panel, cached, run, row, open, workspace, queue, fate, blind, replaced>>
  BY DEF Panel!PutBlob, Panel!PersistConnect
<1>3. faults' \in 0..MaxFaults
  BY DEF Panel!PutBlob, Panel!PersistConnect, Panel!Fine, Panel!Fault, PanelTypeInv
<1>4. form' \in FormRecord
  BY PanelIdle DEF Panel!PutBlob, Panel!PersistConnect, PanelTypeInv
<1>5. /\ save' \in SUBSET SaveRecord
      /\ \A t \in save' : \E u \in save : t.typed = u.typed /\ t.over = u.over
  <2>1. /\ [s EXCEPT !.pc = "record"] \in SaveRecord
        /\ [s EXCEPT !.pc = "record"].typed = s.typed /\ [s EXCEPT !.pc = "record"].over = s.over
    BY <1>1 DEF SaveRecord
  <2>2. save' = save \ {s} \/ save' = (save \ {s}) \union {[s EXCEPT !.pc = "record"]}
    BY DEF Panel!PutBlob, Panel!PersistConnect
  <2> QED BY <2>1, <2>2 DEF PanelTypeInv
<1>6. /\ status' \in {status, "connected"} /\ stored' \in {stored, s.typed}
      /\ stored' # stored => status' = "connected"
  BY DEF Panel!PutBlob, Panel!PersistConnect, BlobInv
<1>7. PanelTypeInv' BY <1>1, <1>2, <1>3, <1>4, <1>5, <1>6 DEF PanelTypeInv, Panel!States
<1>8. MadeInv' BY <1>2 DEF MadeInv
<1>9. BlobInv' BY <1>2, <1>5, <1>6 DEF BlobInv
<1>10. AloneInv'
  <2>1. \A r \in Panel!Runs : Panel!Active(r)' <=> Panel!Active(r) BY <1>2 DEF Panel!Active
  <2>2. ~blind => \A r \in Panel!Runs : run[r].pc # "steps" BY DEF AloneInv, Panel!Active
  <2> QED BY <1>2, <1>5, <1>6, <2>1, <2>2 DEF AloneInv
<1>11. \A p : Panel!InFlight(p)' <=> Panel!InFlight(p) BY <1>2 DEF Panel!InFlight
<1>12. Panel!CredsAreShown' BY <1>2, <1>11 DEF Panel!CredsAreShown
<1> QED BY <1>7, <1>8, <1>9, <1>10, <1>12

\* Every action keeps the invariant.
LEMMA PanelStep == PanelInv /\ [Panel!Next]_(Panel!vars) => PanelInv'
<1> SUFFICES ASSUME PanelInv, [Panel!Next]_(Panel!vars) PROVE PanelInv' OBVIOUS
<1> USE DEF PanelInv
<1>0. MaxPanels \in Nat /\ \A r \in Panel!Runs : run[r] \in PanelRunRecord BY DEF PanelTypeInv
<1>1. "button" \in Panel!Runs /\ "link" \in Panel!Runs BY DEF Panel!Runs
<1>2. CASE UNCHANGED Panel!vars
  <2>1. PanelTypeInv' /\ MadeInv' /\ BlobInv'
    BY <1>2 DEF Panel!vars, Panel!screen, PanelTypeInv, MadeInv, BlobInv
  <2>2. AloneInv' /\ Panel!CredsAreShown'
    BY <1>2 DEF Panel!vars, Panel!screen, AloneInv, Panel!Active, Panel!CredsAreShown, Panel!InFlight
  <2> QED BY <2>1, <2>2
<1>3. ASSUME NEW r \in Panel!Runs, Panel!Begin(r), ~Panel!Active(r) PROVE PanelInv'
  <2> DEFINE j == [Panel!NoRun EXCEPT !.pc = "pull"]
  <2>1. j \in PanelRunRecord /\ j.pc = "pull" /\ j.made = Panel!NoPanel
    BY <1>0, PanelIdle DEF PanelRunRecord, PcOfRun
  <2>2. Panel!Step(r, j) BY <1>3 DEF Panel!Begin
  <2> HIDE DEF j
  <2> QED BY <1>3, <2>1, <2>2, AskStep DEF Panel!Begin
<1>4. CASE Panel!Install \/ Panel!Confirm
  BY <1>1, <1>3, <1>4 DEF Panel!Install, Panel!Confirm, Panel!Active
<1>5. CASE Panel!FollowLink
  <2> DEFINE j == [Panel!NoRun EXCEPT !.pc = "confirm"]
  <2>1. j \in PanelRunRecord /\ j.pc = "confirm" /\ j.made = Panel!NoPanel
    BY <1>0, PanelIdle DEF PanelRunRecord, PcOfRun
  <2>2. Panel!Step("link", j) /\ ~Panel!Active("link") BY <1>5 DEF Panel!FollowLink, Panel!Active
  <2> HIDE DEF j
  <2> QED BY <1>1, <1>5, <2>1, <2>2, AskStep DEF Panel!FollowLink
<1>6. CASE Panel!Decline
  <2>1. Panel!Step("link", Panel!NoRun) /\ ~Panel!Active("link") BY <1>6 DEF Panel!Decline, Panel!Active
  <2> QED BY <1>0, <1>1, <1>6, <2>1, PanelIdle, AskStep DEF Panel!Decline
<1>7. ASSUME NEW r \in Panel!Runs, Panel!Pull(r) PROVE PanelInv'
  <2> DEFINE j == [run[r] EXCEPT !.pc = "check"]
  <2>1. run[r].pc = "pull" /\ run[r].made = Panel!NoPanel BY <1>7 DEF Panel!Pull, MadeInv
  <2>2. j \in PanelRunRecord /\ j.pc = "check" /\ j.made = run[r].made
    BY <1>0 DEF PanelRunRecord, PcOfRun
  <2>3. Panel!Step(r, j) BY <1>7 DEF Panel!Pull
  <2> HIDE DEF j
  <2>4. /\ cached' \in Panel!States /\ faults' \in 0..MaxFaults
        /\ UNCHANGED <<panel, status, stored, Panel!screen, fate, blind, replaced>>
    BY <1>7 DEF Panel!Pull, Panel!Fault, Panel!Fine, PanelTypeInv
  <2>5. blind' \in BOOLEAN /\ Panel!Active(r) BY <2>1, <2>4 DEF PanelTypeInv, Panel!Active
  <2> QED BY <2>1, <2>2, <2>3, <2>4, <2>5, OnStep
<1>8. ASSUME NEW r \in Panel!Runs, Panel!Check(r) PROVE PanelInv'
  <2> DEFINE j == IF cached = "none" THEN [run[r] EXCEPT !.pc = "steps"] ELSE Panel!NoRun
  <2>1. run[r].pc = "check" /\ run[r].made = Panel!NoPanel BY <1>8 DEF Panel!Check, MadeInv
  <2>2. j \in PanelRunRecord /\ j.pc \in {"steps", "no"} /\ j.made = run[r].made
        /\ (j.pc = "steps" => cached = "none")
    <3>1. CASE cached = "none" BY <1>0, <3>1 DEF PanelRunRecord, PcOfRun
    <3>2. CASE cached # "none" BY <1>0, <2>1, <3>2, PanelIdle
    <3> QED BY <3>1, <3>2
  <2>3. Panel!Step(r, j) BY <1>8 DEF Panel!Check
  <2> HIDE DEF j
  <2>4. /\ blind' = (blind \/ Panel!ReadsOld \/ Panel!Beside(r))
        /\ UNCHANGED <<panel, status, stored, cached, Panel!screen, fate, faults, replaced>>
    BY <1>8 DEF Panel!Check
  <2>5. blind' \in BOOLEAN /\ Panel!Active(r) /\ (cached = "none" /\ ~blind' => status = "none")
    BY <2>1, <2>4 DEF PanelTypeInv, Panel!Active, Panel!ReadsOld
  <2>6. cached' \in Panel!States /\ faults' \in 0..MaxFaults BY <2>4 DEF PanelTypeInv
  <2> QED BY <2>1, <2>2, <2>3, <2>4, <2>5, <2>6, OnStep
<1>9. ASSUME NEW r \in Panel!Runs, Panel!WriteBack(r) PROVE PanelInv'
  <2> DEFINE j == [run[r] EXCEPT !.pc = "deliver"]
  <2>1. run[r].pc = "back" BY <1>9 DEF Panel!WriteBack
  <2>2. j \in PanelRunRecord /\ j.pc = "deliver" /\ j.made = run[r].made
    BY <1>0 DEF PanelRunRecord, PcOfRun
  <2>3. Panel!Step(r, j) BY <1>9 DEF Panel!WriteBack
  <2> HIDE DEF j
  <2>4. /\ UNCHANGED status \/ (status = "none" /\ status' = "installed")
        /\ faults' \in 0..MaxFaults
        /\ UNCHANGED <<panel, stored, cached, Panel!screen, fate, blind, replaced>>
    BY <1>9 DEF Panel!WriteBack, Panel!Fault, Panel!Fine, PanelTypeInv
  <2>5. blind' \in BOOLEAN /\ Panel!Active(r) /\ cached' \in Panel!States
    BY <2>1, <2>4 DEF PanelTypeInv, Panel!Active
  <2> QED BY <2>1, <2>2, <2>3, <2>4, <2>5, OnStep
<1>10. ASSUME NEW r \in Panel!Runs, Panel!Installed(r) PROVE PanelInv'
  <2>1. run[r].pc = "steps" /\ run[r].made = Panel!NoPanel BY <1>10 DEF Panel!Installed, MadeInv
  <2>2. panel' \in 0..MaxPanels
    BY <1>10 DEF Panel!Installed, Panel!NewPanel, PanelTypeInv, Panel!NoPanel
  <2>3. /\ Panel!NewPanel /\ faults' \in 0..MaxFaults
        /\ UNCHANGED <<status, stored, cached, Panel!screen, blind>>
    BY <1>10 DEF Panel!Installed, Panel!Fault, Panel!Fine, PanelTypeInv
  <2>4. CASE Panel!Step(r, [run[r] EXCEPT !.pc = "back", !.made = panel']) /\ UNCHANGED fate
    <3>1. /\ [run[r] EXCEPT !.pc = "back", !.made = panel'] \in PanelRunRecord
          /\ [run[r] EXCEPT !.pc = "back", !.made = panel'].pc = "back"
          /\ [run[r] EXCEPT !.pc = "back", !.made = panel'].made = panel'
      BY <1>0, <2>2 DEF PanelRunRecord, PcOfRun
    <3> QED BY <2>1, <2>3, <2>4, <3>1, InstallStep
  <2>5. CASE /\ Panel!Step(r, [run[r] EXCEPT !.pc = "back"])
             /\ fate' = [fate EXCEPT ![panel'] = "failed"]
    <3>1. /\ [run[r] EXCEPT !.pc = "back"] \in PanelRunRecord
          /\ [run[r] EXCEPT !.pc = "back"].pc = "back"
          /\ [run[r] EXCEPT !.pc = "back"].made = Panel!NoPanel
      BY <1>0, <2>1 DEF PanelRunRecord, PcOfRun
    <3> QED BY <2>1, <2>3, <2>5, <3>1, InstallStep
  <2> QED BY <1>10, <2>4, <2>5 DEF Panel!Installed
<1>11. ASSUME NEW r \in Panel!Runs, Panel!StepsFailed(r) PROVE PanelInv'
  <2>1. /\ run[r].pc = "steps" /\ run[r].made = Panel!NoPanel /\ Panel!Step(r, Panel!NoRun)
        /\ Panel!Active(r) /\ UNCHANGED <<status, stored, cached, Panel!screen, blind>>
    BY <1>11 DEF Panel!StepsFailed, MadeInv, Panel!Active
  <2>2. faults' \in 0..MaxFaults /\ blind' \in BOOLEAN /\ cached' \in Panel!States
    BY <1>11, <2>1 DEF Panel!StepsFailed, Panel!Fault, PanelTypeInv
  <2>3. CASE Panel!NewPanel /\ fate' = [fate EXCEPT ![panel'] = "failed"]
    BY <1>0, <2>1, <2>2, <2>3, PanelIdle, InstallStep
  <2>4. CASE UNCHANGED <<panel, replaced, fate>>
    BY <1>0, <2>1, <2>2, <2>4, PanelIdle, OnStep
  <2> QED BY <1>11, <2>3, <2>4 DEF Panel!StepsFailed
<1> QED
  BY <1>2, <1>4, <1>5, <1>6, <1>7, <1>8, <1>9, <1>10, <1>11, DeliverStep, ScreenStep,
     UnmountStep, SaveStep
  DEF Panel!Next

\* What the inductive invariant says of the properties that are checked.
LEMMA PanelKeeps == PanelInv => Panel!TypeOK /\ Panel!PanelIsNotReplaced /\ Panel!PasswordFits /\ Panel!CredsAreShown
<1> SUFFICES ASSUME PanelInv PROVE Panel!TypeOK /\ Panel!PanelIsNotReplaced /\ Panel!PasswordFits /\ Panel!CredsAreShown
  OBVIOUS
<1> USE DEF PanelInv
<1>1. Panel!TypeOK
  <2>1. \A r \in Panel!Runs : run[r].pc \in PcOfRun /\ run[r].heard \in BOOLEAN
    BY DEF PanelTypeInv, PanelRunRecord
  <2>2. form.typed \in 0..MaxPanels BY DEF PanelTypeInv, FormRecord
  <2>3. save \subseteq SaveRecord BY DEF PanelTypeInv
  <2> QED
    BY <2>1, <2>2, <2>3
    DEF PanelTypeInv, Panel!TypeOK, PcOfRun, SaveRecord, Panel!Panels, Panel!NoPanel
<1>2. Panel!PanelIsNotReplaced /\ Panel!PasswordFits
  BY DEF AloneInv, Panel!PanelIsNotReplaced, Panel!PasswordFits
<1> QED BY <1>1, <1>2
=============================================================================
