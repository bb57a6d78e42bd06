---------------------------- MODULE Keys_proofs ------------------------------
(***************************************************************************)
(* The keys and secrets of the front end, for any desktops, passwords,     *)
(* users and bounds: the account and its phrases, the vault key of a       *)
(* browser tab, and the secrets of registrar accounts.                     *)
(***************************************************************************)
EXTENDS Integers, Sequences, FiniteSets, FiniteSetTheorems, TLAPS

CONSTANTS
    Desktops, Passwords, MaxMint, MaxFaults, Users, Reveals, MaxKeys, MaxAccounts,
    MaxBlobs

VARIABLES
    vaultKey, hash, wrapper, recovery, sessions, keychain, page, shown, job, late,
    paper, minted, faults, unseen, overtaken, user, session, wrapped, bytes, made,
    idleTimer, copies, unlocking, reveal, account, blob, created, list, form, forgetting,
    overlapped

Acc   == INSTANCE Account
Vault == INSTANCE WebVault
Save  == INSTANCE SecretSave

-----------------------------------------------------------------------------
(***************************************************************************)
(* The keys and the phrases of one account, for any desktops and passwords *)
(* and any number of salts, phrases and faults.                            *)
(***************************************************************************)
\* A password is never the name of no key.
PasswordsAreTyped == "none" \notin Passwords

AnyKey    == (Passwords \union {"none", "random"}) \X Nat
AnyPhrase == Nat \union {Acc!NoPhrase}
Steps     == {"idle", "start", "send", "prepare", "verified", "open", "answer"}
JobRecord ==
    [op : Acc!Ops, pc : Steps, pw : Passwords \union {"none"}, new : Passwords \union {"none"},
     salt : Nat, mint : Nat, phrase : AnyPhrase, key : AnyKey, under : AnyKey,
     seen : AnyPhrase]

TypeInv ==
    /\ vaultKey \in AnyKey /\ hash \in AnyKey
    /\ wrapper \in [key : AnyKey, under : AnyKey]
    /\ recovery \in [key : AnyKey, phrase : AnyPhrase, proof : AnyPhrase]
    /\ keychain \in [Desktops -> AnyKey] /\ page \in [Desktops -> Acc!Pages]
    /\ shown \in [Desktops -> AnyPhrase]
    /\ job \in [Desktops -> JobRecord] /\ late \in [Desktops -> JobRecord]
    /\ paper \subseteq Nat /\ minted \in Nat
    /\ unseen \in BOOLEAN /\ overtaken \in BOOLEAN

(***************************************************************************)
(* The inductive invariant.                                                *)
(***************************************************************************)
\* What the server holds.
ServerInv ==
    /\ Acc!WrapperFollowsThePassword /\ Acc!UnwrappedIsDerived
    /\ recovery.phrase # Acc!NoPhrase => hash # Acc!NoKey /\ recovery.key = vaultKey
    /\ recovery.proof # Acc!NoPhrase /\ ~overtaken => recovery.phrase = recovery.proof

\* What a command has in hand is the vault key of an account that exists: it will
\* be written to the server or to the keychain, whatever is written before.
InHand(j) ==
    /\ j.op \in {"change", "setup", "restore"} /\ j.pc \in {"send", "verified", "answer"} =>
          hash # Acc!NoKey /\ j.key = vaultKey
    /\ j.op \in {"register", "login"} /\ j.pc = "answer" => hash # Acc!NoKey /\ j.key = vaultKey
    /\ j.op = "login" /\ j.pc \in {"verified", "open"} =>
          hash # Acc!NoKey /\ vaultKey = IF j.under = Acc!NoKey THEN Acc!Typed(j) ELSE j.key

WellFormed(j) ==
    /\ j.op = "login" => j.pw \in Passwords
    /\ j.op \in {"register", "change", "restore"} => j.new \in Passwords
    /\ j.op \in {"register", "restore"} => j.phrase \in Nat
    /\ j.op = "setup" /\ j.pc \in {"send", "verified", "answer"} => j.phrase \in Nat
    /\ j.op = "restore" /\ j.pc = "verified" => j.seen = j.phrase
    /\ j.op = "none" => j.pc = "idle"
    /\ j.pc = "open" => j.op = "login"

JobsInv ==
    \A d \in Desktops :
       /\ InHand(job[d]) /\ WellFormed(job[d])
       /\ InHand(late[d]) /\ WellFormed(late[d])

KeychainInv == \A d \in Desktops : keychain[d] # Acc!NoKey => hash # Acc!NoKey /\ keychain[d] = vaultKey

\* A phrase is shown on a page of its own, where nothing else is begun.
ScreenAt(d) ==
    /\ shown[d] # Acc!NoPhrase <=> page[d] \in {"phrase", "newphrase"}
    /\ page[d] \in {"phrase", "newphrase"} => Acc!Free(d)
    /\ Acc!Mints(late[d]) => unseen

ScreenInv == \A d \in Desktops : ScreenAt(d)

AccountInv == TypeInv /\ ServerInv /\ JobsInv /\ KeychainInv /\ ScreenInv /\ Acc!PhraseIsKnown

CoreInv == TypeInv /\ ServerInv /\ JobsInv /\ KeychainInv

-----------------------------------------------------------------------------
(***************************************************************************)
(* What one command does to the jobs.                                      *)
(***************************************************************************)
LEMMA IdleJob ==
  /\ Acc!Idle \in JobRecord /\ InHand(Acc!Idle) /\ WellFormed(Acc!Idle)
  /\ Acc!Idle.op = "none" /\ Acc!Idle.pc = "idle" /\ ~Acc!Mints(Acc!Idle)
<1>1. Acc!Idle \in JobRecord
  BY DEF Acc!Idle, JobRecord, Acc!Ops, Steps, AnyKey, AnyPhrase, Acc!NoKey, Acc!NoPhrase
<1>2. Acc!Idle.op = "none" /\ Acc!Idle.pc = "idle"
  BY DEF Acc!Idle
<1>3. QED
  BY <1>1, <1>2 DEF InHand, WellFormed, Acc!Mints

\* What is in hand stays the vault key whatever other commands write.
LEMMA OneMoves ==
  ASSUME TypeInv, JobsInv, NEW d \in Desktops,
         hash # Acc!NoKey => hash' # Acc!NoKey /\ vaultKey' = vaultKey,
         \A e \in Desktops \ {d} : job'[e] = job[e] /\ late'[e] = late[e],
         InHand(job[d])', WellFormed(job[d])', InHand(late[d])', WellFormed(late[d])'
  PROVE  JobsInv'
<1> SUFFICES ASSUME NEW e \in Desktops \ {d}
             PROVE  InHand(job[e])' /\ WellFormed(job[e])' /\ InHand(late[e])' /\ WellFormed(late[e])'
  BY DEF JobsInv
<1>1. /\ InHand(job[e]) /\ WellFormed(job[e]) /\ InHand(late[e]) /\ WellFormed(late[e])
      /\ job'[e] = job[e] /\ late'[e] = late[e]
  BY DEF JobsInv
<1>2. InHand(job[e])' /\ InHand(late[e])'
  BY <1>1 DEF InHand, Acc!Typed
<1>3. WellFormed(job[e])' /\ WellFormed(late[e])'
  BY <1>1 DEF WellFormed
<1>4. QED
  BY <1>2, <1>3

\* A step that writes nothing on the server and leaves sound jobs at one desktop.
LEMMA LocalStep ==
  ASSUME TypeInv, ServerInv, JobsInv, NEW d \in Desktops,
         NEW J \in JobRecord, InHand(J), WellFormed(J),
         NEW K \in JobRecord, InHand(K), WellFormed(K),
         job' = [job EXCEPT ![d] = J], late' = [late EXCEPT ![d] = K],
         UNCHANGED <<vaultKey, hash, wrapper, recovery, overtaken>>
  PROVE  /\ ServerInv' /\ JobsInv'
         /\ job' \in [Desktops -> JobRecord] /\ late' \in [Desktops -> JobRecord]
<1>1. ServerInv'
  BY DEF ServerInv, Acc!WrapperFollowsThePassword, Acc!UnwrappedIsDerived
<1>2. /\ job' \in [Desktops -> JobRecord] /\ late' \in [Desktops -> JobRecord]
      /\ job'[d] = J /\ late'[d] = K
      /\ \A e \in Desktops \ {d} : job'[e] = job[e] /\ late'[e] = late[e]
  BY DEF TypeInv
<1>3. InHand(job[d])' /\ InHand(late[d])'
  BY <1>2 DEF InHand, Acc!Typed
<1>4. WellFormed(job[d])' /\ WellFormed(late[d])'
  BY <1>2 DEF WellFormed
<1>5. QED
  BY <1>1, <1>2, <1>3, <1>4, OneMoves

\* The same, when nothing but the job (and the salts drawn) has changed.
LEMMA GoStep ==
  ASSUME CoreInv, NEW d \in Desktops, NEW J \in JobRecord, InHand(J), WellFormed(J),
         job' = [job EXCEPT ![d] = J], UNCHANGED <<Acc!server, Acc!desktop, late, Acc!ghosts>>,
         minted' \in Nat
  PROVE  CoreInv'
<1>1. late[d] \in JobRecord /\ InHand(late[d]) /\ WellFormed(late[d])
      /\ late' = [late EXCEPT ![d] = late[d]]
  BY DEF CoreInv, TypeInv, JobsInv
<1>2. /\ ServerInv' /\ JobsInv'
      /\ job' \in [Desktops -> JobRecord] /\ late' \in [Desktops -> JobRecord]
  BY <1>1, LocalStep DEF CoreInv, Acc!server, Acc!ghosts
<1>3. TypeInv'
  BY <1>2 DEF CoreInv, TypeInv, Acc!server, Acc!desktop, Acc!ghosts
<1>4. KeychainInv'
  BY DEF CoreInv, KeychainInv, Acc!server, Acc!desktop
<1>5. QED
  BY <1>2, <1>3, <1>4 DEF CoreInv

\* A request that fails leaves the server as it is and the form idle.
LEMMA FailStep == ASSUME CoreInv, NEW d \in Desktops, Acc!Fail(d) PROVE CoreInv'
BY IdleJob, GoStep DEF Acc!Fail, Acc!End, CoreInv, TypeInv

-----------------------------------------------------------------------------
(***************************************************************************)
(* The keys: what the server writes and what the desktops keep.            *)
(***************************************************************************)
LEMMA TypedKeys ==
  ASSUME TypeInv, NEW j \in JobRecord
  PROVE  Acc!Typed(j) \in AnyKey /\ Acc!NewKey(j) \in AnyKey /\ j.key \in AnyKey /\ j.under \in AnyKey
         /\ j.phrase \in AnyPhrase
BY DEF Acc!Typed, Acc!NewKey, JobRecord, AnyKey

\* A typed password never gives the key of no password.
LEMMA RealKeys ==
  ASSUME PasswordsAreTyped, NEW j
  PROVE  /\ j.pw \in Passwords => Acc!Typed(j) # Acc!NoKey
         /\ j.new \in Passwords => Acc!NewKey(j) # Acc!NoKey
  BY DEF PasswordsAreTyped, Acc!Typed, Acc!NewKey, Acc!NoKey

\* What a verified request writes fits: the new wrapper is under the new password.
LEMMA WriteStep ==
  ASSUME PasswordsAreTyped, TypeInv, ServerInv, NEW d \in Desktops, NEW j \in JobRecord,
         InHand(j), WellFormed(j), j.pc = "verified", Acc!Write(d, j)
  PROVE  /\ ServerInv'
         /\ vaultKey' \in AnyKey /\ hash' \in AnyKey
         /\ wrapper' \in [key : AnyKey, under : AnyKey]
         /\ recovery' \in [key : AnyKey, phrase : AnyPhrase, proof : AnyPhrase]
         /\ overtaken' \in BOOLEAN
         /\ hash # Acc!NoKey => hash' # Acc!NoKey /\ vaultKey' = vaultKey
         /\ j.op # "login" => hash' # Acc!NoKey /\ vaultKey' = j.key
         /\ j.op \in {"register", "login", "change", "setup", "restore"}
<1> USE TypedKeys, RealKeys
<1>1. CASE Acc!WriteRegister(j)
  <2>1. Acc!NewKey(j) # Acc!NoKey
    BY <1>1 DEF Acc!WriteRegister, WellFormed
  <2>2. Acc!NewWrapper(j) \in [key : AnyKey, under : AnyKey]
        /\ Acc!NewWrapper(j).key = j.key /\ Acc!NewWrapper(j).under = Acc!NewKey(j)
    BY DEF Acc!NewWrapper
  <2>3. recovery' = [key |-> j.key, phrase |-> j.phrase, proof |-> j.phrase]
        /\ vaultKey' = j.key /\ hash' = Acc!NewKey(j) /\ wrapper' = Acc!NewWrapper(j)
        /\ overtaken' = overtaken /\ j.op = "register" /\ hash = Acc!NoKey
    BY <1>1 DEF Acc!WriteRegister
  <2>4. ServerInv'
    <3>1. Acc!WrapperFollowsThePassword'
      BY <2>3 DEF Acc!WrapperFollowsThePassword, Acc!NewWrapper
    <3>2. Acc!UnwrappedIsDerived'
      BY <2>1, <2>2, <2>3 DEF Acc!UnwrappedIsDerived, Acc!NoWrapper
    <3>3. QED
      BY <2>1, <2>3, <3>1, <3>2 DEF ServerInv
  <2>5. QED
    BY <2>1, <2>2, <2>3, <2>4 DEF TypeInv
<1>2. CASE Acc!WriteSession(d, j)
  BY <1>2 DEF Acc!WriteSession, ServerInv, Acc!WrapperFollowsThePassword,
      Acc!UnwrappedIsDerived, TypeInv
<1>3. CASE Acc!WriteChange(j)
  <2>1. Acc!NewKey(j) # Acc!NoKey /\ hash # Acc!NoKey /\ j.key = vaultKey
    BY <1>3 DEF Acc!WriteChange, WellFormed, InHand
  <2>2. Acc!NewWrapper(j) \in [key : AnyKey, under : AnyKey]
        /\ Acc!NewWrapper(j).key = j.key /\ Acc!NewWrapper(j).under = Acc!NewKey(j)
    BY DEF Acc!NewWrapper
  <2>3. UNCHANGED <<vaultKey, recovery, overtaken>> /\ hash' = Acc!NewKey(j)
        /\ wrapper' = Acc!NewWrapper(j) /\ j.op = "change"
    BY <1>3 DEF Acc!WriteChange
  <2>4. ServerInv'
    <3>1. Acc!WrapperFollowsThePassword'
      BY <2>1, <2>3 DEF Acc!WrapperFollowsThePassword, Acc!NewWrapper
    <3>2. Acc!UnwrappedIsDerived'
      BY <2>1, <2>2, <2>3 DEF Acc!UnwrappedIsDerived, Acc!NoWrapper
    <3>3. QED
      BY <2>1, <2>3, <3>1, <3>2 DEF ServerInv
  <2>5. QED
    BY <2>1, <2>2, <2>3, <2>4 DEF TypeInv
<1>4. CASE Acc!WriteSetup(j)
  <2>1. hash # Acc!NoKey /\ j.key = vaultKey
    BY <1>4 DEF Acc!WriteSetup, InHand
  <2>2. UNCHANGED <<vaultKey, hash, wrapper, overtaken>> /\ j.op = "setup"
        /\ recovery' = [key |-> j.key, phrase |-> j.phrase, proof |-> j.phrase]
    BY <1>4 DEF Acc!WriteSetup
  <2>3. ServerInv'
    BY <2>1, <2>2 DEF ServerInv, Acc!WrapperFollowsThePassword, Acc!UnwrappedIsDerived
  <2>4. QED
    BY <2>1, <2>2, <2>3 DEF TypeInv
<1>5. CASE Acc!WriteRestore(j)
  <2>1. Acc!NewKey(j) # Acc!NoKey /\ hash # Acc!NoKey /\ j.key = vaultKey /\ j.seen = j.phrase
    BY <1>5 DEF Acc!WriteRestore, WellFormed, InHand
  <2>2. Acc!NewWrapper(j) \in [key : AnyKey, under : AnyKey]
        /\ Acc!NewWrapper(j).key = j.key /\ Acc!NewWrapper(j).under = Acc!NewKey(j)
    BY DEF Acc!NewWrapper
  <2>3. vaultKey' = vaultKey /\ hash' = Acc!NewKey(j) /\ wrapper' = Acc!NewWrapper(j)
        /\ recovery' = [recovery EXCEPT !.key = j.key, !.phrase = j.phrase]
        /\ overtaken' = (overtaken \/ recovery.proof # j.seen) /\ j.op = "restore"
    BY <1>5 DEF Acc!WriteRestore
  <2>4. /\ recovery' \in [key : AnyKey, phrase : AnyPhrase, proof : AnyPhrase]
        /\ recovery'.key = j.key /\ recovery'.phrase = j.phrase
        /\ recovery'.proof = recovery.proof
    BY <2>3 DEF TypeInv
  <2>5. ServerInv'
    <3>1. Acc!WrapperFollowsThePassword'
      BY <2>1, <2>3 DEF Acc!WrapperFollowsThePassword, Acc!NewWrapper
    <3>2. Acc!UnwrappedIsDerived'
      BY <2>1, <2>2, <2>3 DEF Acc!UnwrappedIsDerived, Acc!NoWrapper
    <3>3. QED
      BY <2>1, <2>3, <2>4, <3>1, <3>2 DEF ServerInv
  <2>6. QED
    BY <2>1, <2>2, <2>3, <2>4, <2>5 DEF TypeInv
<1>6. QED
  BY <1>1, <1>2, <1>3, <1>4, <1>5 DEF Acc!Write

\* What the check of a request leaves in hand: for a sign-in, the wrapper of the
\* row its password was checked against.
LEMMA ReadStep ==
  ASSUME PasswordsAreTyped, TypeInv, ServerInv, NEW d \in Desktops, NEW j \in JobRecord,
         InHand(j), WellFormed(j), j.pc = "send", Acc!Accepts(d, j)
  PROVE  Acc!Read(j) \in JobRecord /\ InHand(Acc!Read(j)) /\ WellFormed(Acc!Read(j)) /\ Acc!Read(j).op = j.op
         /\ Acc!Read(j).pc = "verified"
<1>1. CASE j.op = "login"
  <2> DEFINE J == [j EXCEPT !.pc = "verified", !.key = wrapper.key, !.under = wrapper.under]
  <2>1. Acc!Read(j) = J
    BY <1>1 DEF Acc!Read
  <2>2. J \in JobRecord
    BY DEF TypeInv, JobRecord, Steps
  <2>3. J.op = "login" /\ J.pc = "verified" /\ J.pw = j.pw /\ J.salt = j.salt
        /\ J.key = wrapper.key /\ J.under = wrapper.under
    BY <1>1 DEF JobRecord
  <2> HIDE DEF J
  <2>4. hash = Acc!Typed(j) /\ hash # Acc!NoKey /\ Acc!Typed(J) = Acc!Typed(j) /\ J.pw \in Passwords
    BY <1>1, <2>3, RealKeys DEF Acc!Accepts, WellFormed, Acc!Typed
  <2>5. vaultKey = IF J.under = Acc!NoKey THEN Acc!Typed(J) ELSE J.key
    <3>1. CASE wrapper = Acc!NoWrapper
      BY <2>3, <2>4, <3>1 DEF Acc!NoWrapper, ServerInv, Acc!UnwrappedIsDerived
    <3>2. CASE wrapper # Acc!NoWrapper
      BY <2>3, <2>4, <3>2 DEF ServerInv, Acc!WrapperFollowsThePassword
    <3>3. QED
      BY <3>1, <3>2
  <2>6. InHand(J) /\ WellFormed(J)
    BY <2>3, <2>4, <2>5 DEF InHand, WellFormed
  <2>7. QED
    BY <1>1, <2>1, <2>2, <2>3, <2>6
<1>2. CASE j.op # "login"
  <2> DEFINE J == [j EXCEPT !.pc = "verified", !.seen = recovery.proof]
  <2>1. Acc!Read(j) = J
    BY <1>2 DEF Acc!Read
  <2>2. J \in JobRecord
    BY DEF TypeInv, JobRecord, Steps
  <2>3. J.op = j.op /\ J.pc = "verified" /\ J.new = j.new /\ J.phrase = j.phrase
        /\ J.key = j.key /\ J.seen = recovery.proof
    BY DEF JobRecord
  <2> HIDE DEF J
  <2>4. j.op = "restore" => recovery.proof = j.phrase
    BY DEF Acc!Accepts
  <2>5. InHand(J) /\ WellFormed(J)
    BY <1>2, <2>3, <2>4 DEF InHand, WellFormed
  <2>6. QED
    BY <2>1, <2>2, <2>3, <2>5
<1>3. QED
  BY <1>1, <1>2

-----------------------------------------------------------------------------
(***************************************************************************)
(* One step per action.                                                    *)
(***************************************************************************)
LEMMA InitCore == PasswordsAreTyped /\ Acc!Init => AccountInv
<1> SUFFICES ASSUME PasswordsAreTyped, Acc!Init PROVE AccountInv
  OBVIOUS
<1>1. Acc!NoKey \in AnyKey /\ Acc!NoPhrase \in AnyPhrase /\ 0 \in AnyPhrase /\ Acc!NoPhrase # 0
      /\ \A p \in Passwords : <<p, 0>> \in AnyKey /\ <<p, 0>> # Acc!NoKey
  BY DEF Acc!NoKey, AnyKey, AnyPhrase, Acc!NoPhrase, PasswordsAreTyped
<1>2. /\ wrapper = Acc!NoWrapper /\ wrapper \in [key : AnyKey, under : AnyKey]
      /\ keychain = [d \in Desktops |-> Acc!NoKey] /\ page = [d \in Desktops |-> "login"]
      /\ shown = [d \in Desktops |-> Acc!NoPhrase] /\ job = [d \in Desktops |-> Acc!Idle]
      /\ late = [d \in Desktops |-> Acc!Idle]
      /\ minted = 0 /\ unseen = FALSE /\ overtaken = FALSE
  BY <1>1 DEF Acc!Init, Acc!NoWrapper
<1>3. TypeInv /\ ServerInv /\ recovery.proof = Acc!NoPhrase
  <2>1. CASE /\ vaultKey = Acc!NoKey /\ hash = Acc!NoKey /\ paper = {}
             /\ recovery = [key |-> Acc!NoKey, phrase |-> Acc!NoPhrase, proof |-> Acc!NoPhrase]
    BY <1>1, <1>2, <2>1, IdleJob
       DEF TypeInv, ServerInv, Acc!Pages, Acc!WrapperFollowsThePassword,
        Acc!UnwrappedIsDerived
  <2>2. ASSUME NEW p \in Passwords, vaultKey = <<p, 0>>, hash = <<p, 0>>, paper = {0},
               recovery = [key |-> <<p, 0>>, phrase |-> 0, proof |-> Acc!NoPhrase]
        PROVE  TypeInv /\ ServerInv /\ recovery.proof = Acc!NoPhrase
    <3>1. <<p, 0>> \in AnyKey /\ <<p, 0>> # Acc!NoKey /\ paper \subseteq Nat
      BY <1>1, <2>2
    <3>2. recovery \in [key : AnyKey, phrase : AnyPhrase, proof : AnyPhrase]
          /\ recovery.key = vaultKey /\ recovery.proof = Acc!NoPhrase
      BY <1>1, <2>2, <3>1
    <3>3. ServerInv
      BY <1>2, <2>2, <3>1, <3>2 DEF ServerInv, Acc!WrapperFollowsThePassword,
          Acc!UnwrappedIsDerived
    <3>4. TypeInv
      BY <1>1, <1>2, <2>2, <3>1, <3>2, IdleJob DEF TypeInv, Acc!Pages
    <3>5. QED
      BY <3>2, <3>3, <3>4
  <2>3. QED
    BY <2>1, <2>2 DEF Acc!Init
<1>4. JobsInv /\ KeychainInv /\ ScreenInv
  BY <1>2, IdleJob DEF JobsInv, KeychainInv, ScreenInv, ScreenAt, Acc!Free
<1>5. QED
  BY <1>3, <1>4 DEF AccountInv, Acc!PhraseIsKnown

\* A step of the pages: no key moves except out of the keychain.
LEMMA PageStep ==
  ASSUME CoreInv, NEW d \in Desktops,
         UNCHANGED <<vaultKey, hash, wrapper, recovery, overtaken, job, late, minted>>,
         page' \in [Desktops -> Acc!Pages], shown' \in [Desktops -> AnyPhrase],
         paper' \subseteq Nat, unseen' \in BOOLEAN,
         keychain' = keychain \/ keychain' = [keychain EXCEPT ![d] = Acc!NoKey]
  PROVE  CoreInv'
<1>1. TypeInv'
  <2>1. Acc!NoKey \in AnyKey
    BY DEF AnyKey, Acc!NoKey
  <2>2. keychain' \in [Desktops -> AnyKey]
    BY <2>1 DEF CoreInv, TypeInv
  <2>3. QED
    BY <2>2 DEF CoreInv, TypeInv
<1>2. ServerInv'
  BY DEF CoreInv, ServerInv, Acc!WrapperFollowsThePassword, Acc!UnwrappedIsDerived
<1>3. JobsInv'
  BY DEF CoreInv, JobsInv, InHand, WellFormed, Acc!Typed
<1>4. KeychainInv'
  BY DEF CoreInv, TypeInv, KeychainInv
<1>5. QED
  BY <1>1, <1>2, <1>3, <1>4 DEF CoreInv

\* Pages, phrases put away, locks and sign-outs keep the core.
LEMMA PagesCore ==
  ASSUME CoreInv, ScreenInv, NEW d \in Desktops,
         Acc!Visit(d) \/ Acc!SavePhrase(d) \/ Acc!AbandonPhrase(d) \/ Acc!Lock(d) \/ Acc!Logout(d)
  PROVE  CoreInv'
<1> USE DEF CoreInv, TypeInv, Acc!Pages, Acc!server, Acc!ghosts
<1>1. CASE Acc!Visit(d)
  BY <1>1, PageStep DEF Acc!Visit
<1>2. CASE Acc!SavePhrase(d)
  <2>1. paper' \subseteq Nat
    <3>1. shown[d] \in Nat /\ paper' = paper \union {shown[d]}
      BY <1>2 DEF Acc!SavePhrase, ScreenInv, ScreenAt, AnyPhrase
    <3>2. QED
      BY <3>1
  <2>2. page' \in [Desktops -> Acc!Pages] /\ shown' \in [Desktops -> AnyPhrase]
    BY <1>2 DEF Acc!SavePhrase, AnyPhrase
  <2>3. QED
    BY <1>2, <2>1, <2>2, PageStep DEF Acc!SavePhrase
<1>3. CASE Acc!AbandonPhrase(d)
  BY <1>3, PageStep DEF Acc!AbandonPhrase, AnyPhrase
<1>4. CASE Acc!Lock(d)
  BY <1>4, PageStep DEF Acc!Lock
<1>5. CASE Acc!Logout(d)
  BY <1>5, PageStep DEF Acc!Logout
<1>6. QED
  BY <1>1, <1>2, <1>3, <1>4, <1>5

\* So does every submit, with whatever is typed or on paper.
LEMMA SubmitCore ==
  ASSUME CoreInv, NEW d \in Desktops, NEW p \in Passwords,
         \/ Acc!SubmitRegister(d, p) \/ Acc!SubmitLogin(d, p) \/ Acc!SubmitSetup(d, p)
         \/ \E q \in Passwords : Acc!SubmitChange(d, p, q)
         \/ \E f \in paper : Acc!SubmitRestore(d, f, p)
  PROVE  CoreInv'
<1> DEFINE Submitted(J) == Acc!Start(d, J) /\ minted' \in Nat
<1>1. ASSUME NEW J \in JobRecord, J.pc \in {"send", "start"}, J.op # "none", WellFormed(J),
             J.pc = "send" => J.op = "register", Submitted(J)
      PROVE  CoreInv'
  <2>1. InHand(J)
    BY <1>1 DEF InHand
  <2>2. QED
    BY <1>1, <2>1, GoStep DEF Acc!Start, Acc!ghosts
<1> HIDE DEF Submitted
<1>2. minted \in Nat /\ minted + 1 \in Nat /\ paper \subseteq Nat
  BY DEF CoreInv, TypeInv
<1> USE DEF JobRecord, Steps, Acc!Ops, AnyKey, AnyPhrase, Acc!Idle, Acc!NoKey, Acc!RandomKey, Acc!NoPhrase
<1>3. CASE Acc!SubmitRegister(d, p)
  <2> DEFINE J == [Acc!Idle EXCEPT !.op = "register", !.pc = "send", !.new = p,
                      !.mint = minted + 1, !.phrase = minted + 1, !.key = Acc!RandomKey]
  <2>1. J \in JobRecord /\ J.pc = "send" /\ J.op = "register" /\ J.new = p
        /\ J.phrase \in Nat
    BY <1>2
  <2>2. Submitted(J)
    BY <1>2, <1>3 DEF Acc!SubmitRegister, Submitted
  <2> HIDE DEF J
  <2>3. QED
    BY <1>1, <2>1, <2>2 DEF WellFormed
<1>4. CASE Acc!SubmitLogin(d, p)
  <2> DEFINE J == [Acc!Idle EXCEPT !.op = "login", !.pc = "start", !.pw = p]
  <2>1. J \in JobRecord /\ J.pc = "start" /\ J.op = "login" /\ J.pw = p
    OBVIOUS
  <2>2. Submitted(J)
    BY <1>2, <1>4 DEF Acc!SubmitLogin, Submitted
  <2> HIDE DEF J
  <2>3. QED
    BY <1>1, <2>1, <2>2 DEF WellFormed
<1>5. CASE Acc!SubmitSetup(d, p)
  <2> DEFINE J == [Acc!Idle EXCEPT !.op = "setup", !.pc = "start", !.pw = p]
  <2>1. J \in JobRecord /\ J.pc = "start" /\ J.op = "setup"
    OBVIOUS
  <2>2. Submitted(J)
    BY <1>2, <1>5 DEF Acc!SubmitSetup, Submitted
  <2> HIDE DEF J
  <2>3. QED
    BY <1>1, <2>1, <2>2 DEF WellFormed
<1>6. ASSUME NEW q \in Passwords, Acc!SubmitChange(d, p, q) PROVE CoreInv'
  <2> DEFINE J == [Acc!Idle EXCEPT !.op = "change", !.pc = "start", !.pw = p, !.new = q]
  <2>1. J \in JobRecord /\ J.pc = "start" /\ J.op = "change" /\ J.new = q
    OBVIOUS
  <2>2. Submitted(J)
    BY <1>2, <1>6 DEF Acc!SubmitChange, Submitted
  <2> HIDE DEF J
  <2>3. QED
    BY <1>1, <2>1, <2>2 DEF WellFormed
<1>7. ASSUME NEW f \in paper, Acc!SubmitRestore(d, f, p) PROVE CoreInv'
  <2> DEFINE J == [Acc!Idle EXCEPT !.op = "restore", !.pc = "start", !.phrase = f, !.new = p]
  <2>1. J \in JobRecord /\ J.pc = "start" /\ J.op = "restore" /\ J.phrase \in Nat /\ J.new = p
    BY <1>2
  <2>2. Submitted(J)
    BY <1>2, <1>7 DEF Acc!SubmitRestore, Submitted
  <2> HIDE DEF J
  <2>3. QED
    BY <1>1, <2>1, <2>2 DEF WellFormed
<1>8. QED
  BY <1>3, <1>4, <1>5, <1>6, <1>7

\* What the core says of the two requests of one desktop.
LEMMA JobAt ==
  ASSUME CoreInv, NEW d \in Desktops
  PROVE  /\ job[d] \in JobRecord /\ InHand(job[d]) /\ WellFormed(job[d])
         /\ late[d] \in JobRecord /\ InHand(late[d]) /\ WellFormed(late[d])
         /\ late = [late EXCEPT ![d] = late[d]] /\ minted \in Nat
BY DEF CoreInv, TypeInv, JobsInv

\* The steps of a command that write nothing on the server.
LEMMA RequestCore ==
  ASSUME PasswordsAreTyped, CoreInv, NEW d \in Desktops,
         Acc!ReadSalt(d) \/ Acc!Prepare(d) \/ Acc!ReadBlob(d) \/ Acc!Verify(d)
  PROVE  CoreInv'
<1>1. /\ job[d] \in JobRecord /\ InHand(job[d]) /\ WellFormed(job[d])
      /\ minted \in Nat /\ minted + 1 \in Nat
      /\ job[d].phrase \in AnyPhrase
  BY JobAt DEF JobRecord
<1>2. CASE Acc!ReadSalt(d) /\ ~Acc!Fail(d)
  <2> DEFINE J == [job[d] EXCEPT !.salt = hash[2],
                      !.pc = IF job[d].op = "login" THEN "send" ELSE "prepare"]
  <2>1. hash[2] \in Nat
    BY DEF CoreInv, TypeInv, AnyKey
  <2>2. J \in JobRecord
    BY <1>1, <2>1 DEF JobRecord, Steps
  <2>3. J.op = job[d].op /\ J.pw = job[d].pw /\ J.new = job[d].new
        /\ J.pc = IF job[d].op = "login" THEN "send" ELSE "prepare"
    BY <1>1 DEF JobRecord
  <2>4. job[d].op \in {"login", "change", "setup"} /\ Acc!Go(d, J) /\ UNCHANGED minted
    BY <1>2 DEF Acc!ReadSalt
  <2> HIDE DEF J
  <2>5. InHand(J) /\ WellFormed(J)
    BY <1>1, <2>3, <2>4 DEF InHand, WellFormed
  <2>6. QED
    BY <1>1, <2>2, <2>4, <2>5, GoStep DEF Acc!Go
<1>3. CASE Acc!Prepare(d) /\ ~Acc!Fail(d)
  <2> DEFINE J == [job[d] EXCEPT !.key = keychain[d], !.mint = minted + 1,
                                 !.phrase = minted + 1, !.pc = "send"]
  <2>1. keychain[d] \in AnyKey
    BY DEF CoreInv, TypeInv
  <2>2. J \in JobRecord
    BY <1>1, <2>1 DEF JobRecord, Steps, AnyPhrase
  <2>3. J.op = job[d].op /\ J.pw = job[d].pw /\ J.new = job[d].new /\ J.pc = "send"
        /\ J.phrase = minted + 1 /\ J.key = keychain[d]
    BY <1>1 DEF JobRecord
  <2>4. job[d].pc = "prepare" /\ Acc!Go(d, J) /\ minted' = minted + 1 /\ keychain[d] # Acc!NoKey
    BY <1>2, <1>3 DEF Acc!Prepare
  <2> HIDE DEF J
  <2>5. hash # Acc!NoKey /\ keychain[d] = vaultKey
    BY <2>4 DEF CoreInv, KeychainInv
  <2>6. InHand(J)
    BY <2>3, <2>5 DEF InHand
  <2>7. WellFormed(J)
    BY <1>1, <2>3, <2>4 DEF WellFormed
  <2>8. QED
    BY <1>1, <2>2, <2>4, <2>6, <2>7, GoStep DEF Acc!Go
<1>4. CASE Acc!ReadBlob(d) /\ ~Acc!Fail(d)
  <2> DEFINE J == [job[d] EXCEPT !.key = recovery.key, !.mint = minted + 1, !.pc = "send"]
  <2>1. recovery.key \in AnyKey
    BY DEF CoreInv, TypeInv
  <2>2. J \in JobRecord
    BY <1>1, <2>1 DEF JobRecord, Steps
  <2>3. J.op = job[d].op /\ J.pw = job[d].pw /\ J.new = job[d].new /\ J.pc = "send"
        /\ J.phrase = job[d].phrase /\ J.key = recovery.key
    BY <1>1 DEF JobRecord
  <2>4. job[d].op = "restore" /\ Acc!Go(d, J) /\ minted' = minted + 1
        /\ recovery.phrase = job[d].phrase
    BY <1>4 DEF Acc!ReadBlob
  <2> HIDE DEF J
  <2>5. recovery.phrase # Acc!NoPhrase
    BY <1>1, <2>4 DEF WellFormed, Acc!NoPhrase
  <2>6. hash # Acc!NoKey /\ recovery.key = vaultKey
    BY <2>5 DEF CoreInv, ServerInv
  <2>7. InHand(J)
    BY <2>3, <2>6 DEF InHand
  <2>8. WellFormed(J)
    BY <1>1, <2>3, <2>4 DEF WellFormed
  <2>9. QED
    BY <1>1, <2>2, <2>4, <2>7, <2>8, GoStep DEF Acc!Go
<1>5. CASE Acc!Verify(d) /\ ~Acc!Fail(d)
  <2>1. job[d].pc = "send" /\ Acc!Accepts(d, job[d]) /\ UNCHANGED minted /\ Acc!Go(d, Acc!Read(job[d]))
    BY <1>5 DEF Acc!Verify
  <2>2. Acc!Read(job[d]) \in JobRecord /\ InHand(Acc!Read(job[d])) /\ WellFormed(Acc!Read(job[d]))
    BY <1>1, <2>1, ReadStep DEF CoreInv
  <2>3. QED
    BY <1>1, <2>1, <2>2, GoStep DEF Acc!Go
<1>6. QED
  BY <1>2, <1>3, <1>4, <1>5, FailStep

\* Opening the wrapper and adopting its key keep the core.
LEMMA SignInCore ==
  ASSUME PasswordsAreTyped, CoreInv, NEW d \in Desktops,
         Acc!OpenWrapper(d) \/ Acc!Adopt(d) \/ Acc!AdoptConflict(d) \/ Acc!AdoptUnpinned(d) \/ Acc!RegisterConflict(d)
  PROVE  CoreInv'
<1>1. /\ job[d] \in JobRecord /\ InHand(job[d]) /\ WellFormed(job[d])
      /\ minted \in Nat /\ Acc!Typed(job[d]) \in AnyKey
      /\ late[d] \in JobRecord /\ InHand(late[d]) /\ WellFormed(late[d])
      /\ late = [late EXCEPT ![d] = late[d]]
  BY JobAt, TypedKeys DEF CoreInv
<1> DEFINE Opened(k) == [job[d] EXCEPT !.pc = "answer", !.key = k]
<1>2. ASSUME NEW k \in AnyKey
      PROVE  /\ Opened(k) \in JobRecord /\ Opened(k).op = job[d].op /\ Opened(k).pc = "answer"
             /\ Opened(k).key = k /\ Opened(k).pw = job[d].pw /\ Opened(k).new = job[d].new
             /\ Opened(k).phrase = job[d].phrase
  BY <1>1 DEF JobRecord, Steps
<1> HIDE DEF Opened
<1>3. ASSUME NEW k \in AnyKey, job[d].op = "login", hash # Acc!NoKey, k = vaultKey
      PROVE  InHand(Opened(k)) /\ WellFormed(Opened(k))
  BY <1>1, <1>2, <1>3 DEF InHand, WellFormed
<1>4. ASSUME job[d].pc = "open"
      PROVE  /\ job[d].op = "login" /\ hash # Acc!NoKey
             /\ vaultKey = IF job[d].under = Acc!NoKey THEN Acc!Typed(job[d]) ELSE job[d].key
  BY <1>1, <1>4 DEF InHand, WellFormed
<1>5. ASSUME NEW k \in AnyKey, job[d].pc = "open", k = vaultKey,
             job' = [job EXCEPT ![d] = Opened(k)],
             UNCHANGED <<Acc!server, Acc!desktop, late, Acc!ghosts, minted>>
      PROVE  CoreInv'
  <2>1. Opened(k) \in JobRecord /\ InHand(Opened(k)) /\ WellFormed(Opened(k))
    BY <1>2, <1>3, <1>4, <1>5
  <2>2. QED
    BY <1>1, <1>5, <2>1, GoStep
<1>6. CASE Acc!OpenWrapper(d) /\ ~Acc!Fail(d)
  <2> DEFINE J == [job[d] EXCEPT !.pc = "answer"]
  <2>1. job[d].pc = "open" /\ job[d].under # Acc!NoKey /\ UNCHANGED minted /\ Acc!Go(d, J)
    BY <1>6 DEF Acc!OpenWrapper
  <2>2. J \in JobRecord /\ J.op = job[d].op /\ J.pc = "answer" /\ J.key = job[d].key
        /\ J.pw = job[d].pw /\ J.new = job[d].new /\ J.phrase = job[d].phrase
    BY <1>1 DEF JobRecord, Steps
  <2> HIDE DEF J
  <2>3. InHand(J) /\ WellFormed(J)
    BY <1>1, <1>4, <2>1, <2>2 DEF InHand, WellFormed
  <2>4. QED
    BY <1>1, <2>1, <2>2, <2>3, GoStep DEF Acc!Go
<1>7. CASE Acc!Adopt(d)
  <2>1. job[d].pc = "open" /\ job[d].under = Acc!NoKey /\ wrapper = Acc!NoWrapper
        /\ wrapper' = [key |-> Acc!Typed(job[d]), under |-> Acc!Typed(job[d])]
        /\ job' = [job EXCEPT ![d].pc = "answer", ![d].key = Acc!Typed(job[d])]
        /\ UNCHANGED <<vaultKey, hash, recovery, sessions, Acc!desktop, late, Acc!ghosts, minted>>
    BY <1>7 DEF Acc!Adopt, Acc!Adopting
  <2>2. Acc!Typed(job[d]) = vaultKey /\ hash # Acc!NoKey /\ hash = vaultKey
    BY <1>4, <2>1 DEF CoreInv, ServerInv, Acc!UnwrappedIsDerived
  <2> DEFINE J == Opened(Acc!Typed(job[d]))
  <2>3. job' = [job EXCEPT ![d] = J]
    BY <1>1, <2>1 DEF Opened, CoreInv, TypeInv, JobRecord
  <2>4. /\ J \in JobRecord /\ InHand(J) /\ WellFormed(J)
        /\ J.op = "login" /\ J.pc = "answer" /\ J.key = vaultKey
    BY <1>1, <1>2, <1>3, <1>4, <2>1, <2>2
  <2> HIDE DEF J
  <2>5. /\ job' \in [Desktops -> JobRecord] /\ job'[d] = J
        /\ \A e \in Desktops \ {d} : job'[e] = job[e] /\ late'[e] = late[e]
    BY <2>1, <2>3, <2>4 DEF CoreInv, TypeInv
  <2>6. InHand(job[d])' /\ InHand(late[d])'
    BY <1>1, <2>1, <2>4, <2>5 DEF InHand, Acc!Typed
  <2>7. WellFormed(job[d])' /\ WellFormed(late[d])'
    BY <1>1, <2>1, <2>4, <2>5 DEF WellFormed
  <2>8. JobsInv'
    BY <2>1, <2>5, <2>6, <2>7, OneMoves DEF CoreInv
  <2>9. wrapper' \in [key : AnyKey, under : AnyKey] /\ wrapper'.under # Acc!NoKey
        /\ wrapper' = [key |-> vaultKey', under |-> hash']
    BY <1>1, <2>1, <2>2
  <2>10. ServerInv'
    <3>1. wrapper' # Acc!NoWrapper
      BY <2>9 DEF Acc!NoWrapper
    <3>2. QED
      BY <2>1, <2>9, <3>1
         DEF CoreInv, ServerInv, Acc!WrapperFollowsThePassword, Acc!UnwrappedIsDerived,
          Acc!ghosts
  <2>11. TypeInv'
    BY <2>1, <2>5, <2>9 DEF CoreInv, TypeInv, Acc!desktop, Acc!ghosts
  <2>12. KeychainInv'
    BY <2>1 DEF CoreInv, KeychainInv, Acc!desktop
  <2>13. QED
    BY <2>8, <2>10, <2>11, <2>12 DEF CoreInv
<1>8. CASE Acc!AdoptConflict(d) /\ ~Acc!Fail(d)
  <2> DEFINE k == wrapper.key
  <2>1. job[d].pc = "open" /\ wrapper # Acc!NoWrapper /\ UNCHANGED minted
        /\ Acc!Go(d, [job[d] EXCEPT !.pc = "answer", !.key = k])
    BY <1>8 DEF Acc!AdoptConflict, Acc!Adopting
  <2>2. k = vaultKey /\ k \in AnyKey
    BY <2>1 DEF CoreInv, TypeInv, ServerInv, Acc!WrapperFollowsThePassword
  <2>3. QED
    BY <1>5, <2>1, <2>2 DEF Acc!Go, Opened
<1>9. CASE Acc!AdoptUnpinned(d)
  <2>1. job[d].pc = "open" /\ job[d].under = Acc!NoKey
        /\ job' = [job EXCEPT ![d].pc = "answer", ![d].key = Acc!Typed(job[d])]
        /\ UNCHANGED <<Acc!server, Acc!desktop, late, Acc!ghosts, minted>>
    BY <1>9 DEF Acc!AdoptUnpinned, Acc!Adopting
  <2>2. job' = [job EXCEPT ![d] = Opened(Acc!Typed(job[d]))]
    BY <1>1, <2>1 DEF Opened, CoreInv, TypeInv, JobRecord
  <2>3. Acc!Typed(job[d]) = vaultKey
    BY <1>4, <2>1
  <2>4. QED
    BY <1>1, <1>5, <2>1, <2>2, <2>3
<1>10. CASE Acc!RegisterConflict(d)
  BY <1>10, FailStep DEF Acc!RegisterConflict
<1>11. QED
  BY <1>6, <1>7, <1>8, <1>9, <1>10, FailStep

\* A step in which the server writes what the check of request j let through.
LEMMA WriteCore ==
  ASSUME PasswordsAreTyped, CoreInv, NEW d \in Desktops,
         NEW j \in JobRecord, InHand(j), WellFormed(j), j.pc = "verified", Acc!Write(d, j),
         UNCHANGED <<Acc!desktop, paper, unseen, minted>>,
         job' \in [Desktops -> JobRecord], late' \in [Desktops -> JobRecord],
         \A e \in Desktops \ {d} : job'[e] = job[e] /\ late'[e] = late[e],
         InHand(job[d])', WellFormed(job[d])', InHand(late[d])', WellFormed(late[d])'
  PROVE  CoreInv'
<1>1. /\ ServerInv'
      /\ vaultKey' \in AnyKey /\ hash' \in AnyKey
      /\ wrapper' \in [key : AnyKey, under : AnyKey]
      /\ recovery' \in [key : AnyKey, phrase : AnyPhrase, proof : AnyPhrase]
      /\ overtaken' \in BOOLEAN
      /\ hash # Acc!NoKey => hash' # Acc!NoKey /\ vaultKey' = vaultKey
  BY WriteStep DEF CoreInv
<1>2. JobsInv'
  BY <1>1, OneMoves DEF CoreInv
<1>3. TypeInv'
  BY <1>1 DEF CoreInv, TypeInv, Acc!desktop
<1>4. KeychainInv'
  BY <1>1 DEF CoreInv, KeychainInv, Acc!desktop
<1>5. QED
  BY <1>1, <1>2, <1>3, <1>4 DEF CoreInv

\* The commit of a request keeps the core.
LEMMA CommitCore ==
  ASSUME PasswordsAreTyped, CoreInv, NEW d \in Desktops, Acc!Commit(d)
  PROVE  CoreInv'
<1>1. /\ job[d] \in JobRecord /\ InHand(job[d]) /\ WellFormed(job[d])
      /\ late[d] \in JobRecord /\ InHand(late[d]) /\ WellFormed(late[d])
  BY JobAt
<1> DEFINE J == [job[d] EXCEPT !.pc = IF job[d].op = "login" THEN "open" ELSE "answer"]
<1>2. job[d].pc = "verified" /\ Acc!Write(d, job[d])
      /\ job' = [job EXCEPT ![d] = J] /\ UNCHANGED <<Acc!desktop, late, paper, unseen, minted>>
  BY <1>1 DEF Acc!Commit, CoreInv, TypeInv
<1>3. /\ J \in JobRecord /\ J.op = job[d].op /\ J.key = job[d].key /\ J.under = job[d].under
      /\ J.pw = job[d].pw /\ J.new = job[d].new /\ J.salt = job[d].salt
      /\ J.phrase = job[d].phrase
      /\ J.pc = IF job[d].op = "login" THEN "open" ELSE "answer"
  BY <1>1 DEF JobRecord, Steps
<1> HIDE DEF J
<1>4. /\ job' \in [Desktops -> JobRecord] /\ job'[d] = J /\ late' \in [Desktops -> JobRecord]
      /\ \A e \in Desktops \ {d} : job'[e] = job[e] /\ late'[e] = late[e]
      /\ late'[d] = late[d]
  BY <1>2, <1>3 DEF CoreInv, TypeInv
<1>5. /\ hash # Acc!NoKey => hash' # Acc!NoKey /\ vaultKey' = vaultKey
      /\ job[d].op # "login" => hash' # Acc!NoKey /\ vaultKey' = job[d].key
      /\ job[d].op \in {"register", "login", "change", "setup", "restore"}
  BY <1>1, <1>2, WriteStep DEF CoreInv
<1>6. InHand(job[d])'
  BY <1>1, <1>2, <1>3, <1>4, <1>5 DEF InHand, Acc!Typed
<1>7. InHand(late[d])'
  BY <1>1, <1>4, <1>5 DEF InHand, Acc!Typed
<1>8. WellFormed(job[d])' /\ WellFormed(late[d])'
  BY <1>1, <1>2, <1>3, <1>4, <1>5 DEF WellFormed
<1>9. QED
  BY <1>1, <1>2, <1>4, <1>6, <1>7, <1>8, WriteCore

\* So does the answer, when it arrives.
LEMMA SettleCore ==
  ASSUME CoreInv, NEW d \in Desktops, Acc!Settle(d)
  PROVE  CoreInv'
<1>1. /\ job[d] \in JobRecord /\ InHand(job[d]) /\ WellFormed(job[d])
      /\ late[d] \in JobRecord /\ InHand(late[d]) /\ WellFormed(late[d])
      /\ late = [late EXCEPT ![d] = late[d]]
      /\ job[d].key \in AnyKey /\ job[d].phrase \in AnyPhrase /\ job[d].op \in Acc!Ops
  BY JobAt DEF JobRecord
<1>2. /\ job[d].pc = "answer" /\ UNCHANGED <<Acc!server, late, Acc!ghosts, minted>>
      /\ job' = [job EXCEPT ![d] = Acc!Idle]
      /\ keychain' = [keychain EXCEPT ![d] =
            IF job[d].op \in {"register", "login", "restore"} THEN job[d].key ELSE keychain[d]]
      /\ page' = [page EXCEPT ![d] = CASE job[d].op = "register" -> "phrase"
                                       [] job[d].op = "setup"    -> "newphrase"
                                       [] job[d].op = "restore"  -> "login"
                                       [] OTHER                  -> "home"]
      /\ shown' = [shown EXCEPT ![d] = IF job[d].op \in {"register", "setup"}
                                       THEN job[d].phrase ELSE shown[d]]
  BY DEF Acc!Settle, Acc!End, CoreInv, TypeInv
<1>3. /\ ServerInv' /\ JobsInv'
      /\ job' \in [Desktops -> JobRecord] /\ late' \in [Desktops -> JobRecord]
  BY <1>1, <1>2, IdleJob, LocalStep DEF CoreInv, Acc!server, Acc!ghosts
<1>4. page' \in [Desktops -> Acc!Pages]
  BY <1>2 DEF CoreInv, TypeInv, Acc!Pages
<1>5. keychain' \in [Desktops -> AnyKey] /\ shown' \in [Desktops -> AnyPhrase]
  BY <1>1, <1>2 DEF CoreInv, TypeInv
<1>6. TypeInv'
  BY <1>2, <1>3, <1>4, <1>5 DEF CoreInv, TypeInv, Acc!server, Acc!ghosts
<1>7. KeychainInv'
  <2>1. job[d].op \in {"register", "login", "restore"} => hash # Acc!NoKey /\ job[d].key = vaultKey
    BY <1>1, <1>2 DEF InHand
  <2>2. QED
    BY <1>2, <2>1 DEF CoreInv, TypeInv, KeychainInv, Acc!server
<1>8. QED
  BY <1>3, <1>6, <1>7 DEF CoreInv

\* So does an answer lost or a request given up.
LEMMA FaultCore ==
  ASSUME CoreInv, NEW d \in Desktops, Acc!Lose(d) \/ Acc!GiveUp(d)
  PROVE  CoreInv'
<1>1. /\ job[d] \in JobRecord /\ InHand(job[d]) /\ WellFormed(job[d])
      /\ late[d] \in JobRecord /\ InHand(late[d]) /\ WellFormed(late[d])
      /\ late = [late EXCEPT ![d] = late[d]]
  BY JobAt
<1>2. /\ UNCHANGED <<Acc!server, Acc!desktop, paper, overtaken, minted>> /\ unseen' \in BOOLEAN
      /\ job' = [job EXCEPT ![d] = Acc!Idle]
      /\ late' = [late EXCEPT ![d] = job[d]] \/ late' = [late EXCEPT ![d] = late[d]]
  <2>1. unseen' \in BOOLEAN
    BY DEF Acc!Lose, Acc!GiveUp, CoreInv, TypeInv
  <2>2. QED
    BY <1>1, <2>1 DEF Acc!Lose, Acc!GiveUp, Acc!End
<1>3. /\ ServerInv' /\ JobsInv'
      /\ job' \in [Desktops -> JobRecord] /\ late' \in [Desktops -> JobRecord]
  BY <1>1, <1>2, IdleJob, LocalStep DEF CoreInv, Acc!server
<1>4. TypeInv'
  BY <1>2, <1>3 DEF CoreInv, TypeInv, Acc!server, Acc!desktop
<1>5. KeychainInv'
  BY <1>2 DEF CoreInv, KeychainInv, Acc!server, Acc!desktop
<1>6. QED
  BY <1>3, <1>4, <1>5 DEF CoreInv

\* So does a request the desktop gave up that commits all the same.
LEMMA FinishLateCore ==
  ASSUME PasswordsAreTyped, CoreInv, NEW d \in Desktops, Acc!FinishLate(d)
  PROVE  CoreInv'
<1>1. /\ job[d] \in JobRecord /\ InHand(job[d]) /\ WellFormed(job[d])
      /\ late[d] \in JobRecord /\ InHand(late[d]) /\ WellFormed(late[d])
      /\ job = [job EXCEPT ![d] = job[d]]
  BY JobAt DEF CoreInv, TypeInv
<1>2. UNCHANGED <<Acc!desktop, job, paper, unseen, minted>>
  BY DEF Acc!FinishLate
<1>3. ASSUME NEW K \in JobRecord, InHand(K), WellFormed(K), late' = [late EXCEPT ![d] = K],
             UNCHANGED <<Acc!server, overtaken>>
      PROVE  CoreInv'
  <2>1. /\ ServerInv' /\ JobsInv'
        /\ job' \in [Desktops -> JobRecord] /\ late' \in [Desktops -> JobRecord]
    <3>1. job' = [job EXCEPT ![d] = job[d]] /\ late' = [late EXCEPT ![d] = K]
          /\ UNCHANGED <<vaultKey, hash, wrapper, recovery, overtaken>>
      BY <1>1, <1>2, <1>3 DEF Acc!server
    <3>2. QED
      BY <1>1, <1>3, <3>1, LocalStep DEF CoreInv
  <2>2. TypeInv'
    BY <1>2, <1>3, <2>1 DEF CoreInv, TypeInv, Acc!server, Acc!desktop
  <2>3. KeychainInv'
    BY <1>2, <1>3 DEF CoreInv, KeychainInv, Acc!server, Acc!desktop
  <2>4. QED
    BY <2>1, <2>2, <2>3 DEF CoreInv
<1>4. CASE late[d].pc = "send" /\ Acc!Accepts(d, late[d]) /\ late' = [late EXCEPT ![d] = Acc!Read(late[d])]
           /\ UNCHANGED <<Acc!server, overtaken>>
  BY <1>1, <1>3, <1>4, ReadStep DEF CoreInv
<1>5. CASE late' = [late EXCEPT ![d] = Acc!Idle] /\ UNCHANGED <<Acc!server, overtaken>>
  BY <1>3, <1>5, IdleJob
<1>6. CASE late[d].pc = "verified" /\ Acc!Write(d, late[d]) /\ late' = [late EXCEPT ![d] = Acc!Idle]
  <2>1. hash # Acc!NoKey => hash' # Acc!NoKey /\ vaultKey' = vaultKey
    BY <1>1, <1>6, WriteStep DEF CoreInv
  <2>2. /\ late' \in [Desktops -> JobRecord] /\ job' \in [Desktops -> JobRecord]
        /\ late'[d] = Acc!Idle /\ job'[d] = job[d]
        /\ \A e \in Desktops \ {d} : job'[e] = job[e] /\ late'[e] = late[e]
    BY <1>2, <1>6, IdleJob DEF CoreInv, TypeInv
  <2>3. InHand(job[d])'
    BY <1>1, <2>1, <2>2 DEF InHand, Acc!Typed
  <2>4. WellFormed(job[d])'
    BY <1>1, <2>2 DEF WellFormed
  <2>5. InHand(late[d])' /\ WellFormed(late[d])'
    BY <2>2, IdleJob DEF InHand, WellFormed
  <2>6. QED
    BY <1>1, <1>2, <1>6, <2>2, <2>3, <2>4, <2>5, WriteCore
<1>7. QED
  BY <1>4, <1>5, <1>6 DEF Acc!FinishLate

\* Every step keeps the core.
LEMMA CoreStep ==
  ASSUME PasswordsAreTyped, CoreInv, ScreenInv, [Acc!Next]_(Acc!vars)
  PROVE  CoreInv'
<1>1. CASE UNCHANGED Acc!vars
  BY <1>1 DEF Acc!vars, Acc!server, Acc!desktop, Acc!ghosts, CoreInv, TypeInv, ServerInv,
      JobsInv, KeychainInv,
              Acc!WrapperFollowsThePassword, Acc!UnwrappedIsDerived, InHand, WellFormed,
      Acc!Typed
<1>2. ASSUME NEW d \in Desktops, Acc!User(d) PROVE CoreInv'
  BY <1>2, PagesCore, SubmitCore DEF Acc!User
<1>3. ASSUME NEW d \in Desktops, Acc!Work(d) PROVE CoreInv'
  BY <1>3, RequestCore, SignInCore, CommitCore, SettleCore DEF Acc!Work
<1>4. ASSUME NEW d \in Desktops, Acc!Lose(d) \/ Acc!GiveUp(d) \/ Acc!FinishLate(d) PROVE CoreInv'
  BY <1>4, FaultCore, FinishLateCore
<1>5. QED
  BY <1>1, <1>2, <1>3, <1>4 DEF Acc!Next

-----------------------------------------------------------------------------
(***************************************************************************)
(* The screens and the phrases.  A step moves one desktop only, and most   *)
(* steps of a command leave its screen and every phrase where they are.    *)
(***************************************************************************)
Phrases == <<recovery.proof, paper, unseen>>

\* The command is done, or fails, or goes on; the page stays.
Quietly(d) ==
    /\ ~Acc!Free(d) /\ job[d].pc # "answer"
    /\ UNCHANGED <<page, shown, Phrases>>
    /\ \A e \in Desktops \ {d} : job'[e] = job[e]
    /\ \A e \in Desktops : Acc!Mints(late'[e]) => Acc!Mints(late[e])

\* The steps of a request before its answer show nothing and forget nothing.
LEMMA WorkIsQuiet ==
  ASSUME CoreInv, NEW d \in Desktops,
         \/ Acc!ReadSalt(d) \/ Acc!Prepare(d) \/ Acc!ReadBlob(d) \/ Acc!Verify(d) \/ Acc!RegisterConflict(d)
         \/ Acc!OpenWrapper(d) \/ Acc!Adopt(d) \/ Acc!AdoptConflict(d) \/ Acc!AdoptUnpinned(d)
  PROVE  Quietly(d)
<1>1. job[d] \in JobRecord /\ WellFormed(job[d])
  BY JobAt
<1>2. ~Acc!Free(d) /\ job[d].pc # "answer"
  BY <1>1 DEF Acc!ReadSalt, Acc!Prepare, Acc!ReadBlob, Acc!Verify, Acc!RegisterConflict,
      Acc!OpenWrapper, Acc!Adopt,
              Acc!AdoptConflict, Acc!AdoptUnpinned, Acc!Adopting, WellFormed, Acc!Free
<1>3. UNCHANGED <<page, shown, late, recovery, paper, unseen>>
  BY DEF Acc!ReadSalt, Acc!Prepare, Acc!ReadBlob, Acc!Verify, Acc!RegisterConflict,
      Acc!OpenWrapper, Acc!Adopt,
         Acc!AdoptConflict, Acc!AdoptUnpinned, Acc!Fail, Acc!Go, Acc!server, Acc!desktop,
      Acc!ghosts
<1>4. \A e \in Desktops \ {d} : job'[e] = job[e]
  BY DEF Acc!ReadSalt, Acc!Prepare, Acc!ReadBlob, Acc!Verify, Acc!RegisterConflict,
      Acc!OpenWrapper, Acc!Adopt,
         Acc!AdoptConflict, Acc!AdoptUnpinned, Acc!Fail, Acc!Go, Acc!End, CoreInv, TypeInv
<1>5. QED
  BY <1>2, <1>3, <1>4 DEF Quietly, Phrases

\* A step of one desktop is no matter of the screens of the others.
LEMMA ScreenOne ==
  ASSUME ScreenInv, NEW d \in Desktops, unseen => unseen',
         \A e \in Desktops \ {d} :
            job'[e] = job[e] /\ late'[e] = late[e] /\ page'[e] = page[e] /\ shown'[e] = shown[e],
         ScreenAt(d)'
  PROVE  ScreenInv'
<1>1. ASSUME NEW e \in Desktops \ {d} PROVE ScreenAt(e)'
  BY <1>1 DEF ScreenInv, ScreenAt, Acc!Free, Acc!Mints
<1>2. QED
  BY <1>1 DEF ScreenInv

\* Every step keeps what is known of the screens.
LEMMA ScreenStep ==
  ASSUME CoreInv, ScreenInv, [Acc!Next]_(Acc!vars)
  PROVE  ScreenInv'
<1> USE DEF Acc!Mints
<1>1. CASE UNCHANGED Acc!vars
  BY <1>1 DEF Acc!vars, Acc!desktop, Acc!ghosts, ScreenInv, ScreenAt, Acc!Free
<1>2. ASSUME NEW d \in Desktops, Quietly(d) PROVE ScreenInv'
  <2>1. page[d] \notin {"phrase", "newphrase"}
    BY <1>2 DEF Quietly, ScreenInv, ScreenAt
  <2>2. QED
    BY <1>2, <2>1 DEF Quietly, Phrases, ScreenInv, ScreenAt, Acc!Free
<1>3. ASSUME NEW d \in Desktops, NEW j, Acc!Start(d, j), page[d] \notin {"phrase", "newphrase"}
      PROVE  ScreenInv'
  <2>1. /\ UNCHANGED <<page, shown, late, unseen>>
        /\ \A e \in Desktops \ {d} : job'[e] = job[e]
    BY <1>3 DEF Acc!Start, Acc!desktop, Acc!ghosts, CoreInv, TypeInv
  <2>2. ScreenAt(d)'
    BY <1>3, <2>1 DEF ScreenInv, ScreenAt
  <2>3. QED
    BY <2>1, <2>2, ScreenOne
<1>4. ASSUME NEW d \in Desktops, Acc!User(d) PROVE ScreenInv'
  <2>1. ASSUME Acc!Visit(d) \/ Acc!SavePhrase(d) \/ Acc!AbandonPhrase(d) \/ Acc!Lock(d) \/ Acc!Logout(d)
        PROVE  ScreenInv'
    <3>1. /\ UNCHANGED <<job, late>>
          /\ unseen => unseen'
          /\ \A e \in Desktops \ {d} : page'[e] = page[e] /\ shown'[e] = shown[e]
          /\ page'[d] \notin {"phrase", "newphrase"}
          /\ \/ shown'[d] = Acc!NoPhrase
             \/ shown'[d] = shown[d] /\ page[d] \notin {"phrase", "newphrase"}
      BY <2>1 DEF Acc!Visit, Acc!SavePhrase, Acc!AbandonPhrase, Acc!Lock, Acc!Logout,
          Acc!ghosts, CoreInv, TypeInv
    <3>2. ScreenAt(d)'
      BY <3>1 DEF ScreenInv, ScreenAt
    <3>3. QED
      BY <3>1, <3>2, ScreenOne
  <2>2. ASSUME NEW p \in Passwords,
               \/ Acc!SubmitRegister(d, p) \/ Acc!SubmitLogin(d, p) \/ Acc!SubmitSetup(d, p)
               \/ \E q \in Passwords : Acc!SubmitChange(d, p, q)
               \/ \E f \in paper : Acc!SubmitRestore(d, f, p)
        PROVE  ScreenInv'
    BY <1>3, <2>2 DEF Acc!SubmitRegister, Acc!SubmitLogin, Acc!SubmitSetup,
        Acc!SubmitChange, Acc!SubmitRestore
  <2>3. QED
    BY <1>4, <2>1, <2>2 DEF Acc!User
<1>5. ASSUME NEW d \in Desktops, Acc!Commit(d) PROVE ScreenInv'
  <2>1. /\ ~Acc!Free(d) /\ UNCHANGED <<page, shown, late, unseen>>
        /\ \A e \in Desktops \ {d} : job'[e] = job[e]
    BY <1>5, JobAt DEF Acc!Commit, Acc!desktop, WellFormed, Acc!Free, CoreInv, TypeInv
  <2>2. ScreenAt(d)'
    BY <2>1 DEF ScreenInv, ScreenAt
  <2>3. QED
    BY <2>1, <2>2, ScreenOne
<1>6. ASSUME NEW d \in Desktops, Acc!Settle(d) PROVE ScreenInv'
  <2>1. /\ ~Acc!Free(d) /\ job[d].pc = "answer" /\ UNCHANGED <<late, unseen>>
        /\ \A e \in Desktops \ {d} :
              job'[e] = job[e] /\ page'[e] = page[e] /\ shown'[e] = shown[e]
        /\ job'[d] = Acc!Idle
        /\ page'[d] = CASE job[d].op = "register" -> "phrase"
                        [] job[d].op = "setup"    -> "newphrase"
                        [] job[d].op = "restore"  -> "login"
                        [] OTHER                  -> "home"
        /\ shown'[d] = IF job[d].op \in {"register", "setup"} THEN job[d].phrase ELSE shown[d]
    BY <1>6, JobAt DEF Acc!Settle, Acc!End, Acc!ghosts, WellFormed, Acc!Free, CoreInv,
        TypeInv
  <2>2. shown[d] = Acc!NoPhrase
    BY <2>1 DEF ScreenInv, ScreenAt
  <2>3. job[d].op \in {"register", "setup"} => job[d].phrase # Acc!NoPhrase
    BY <2>1, JobAt DEF WellFormed, Acc!NoPhrase
  <2>4. shown'[d] # Acc!NoPhrase <=> page'[d] \in {"phrase", "newphrase"}
    BY <2>1, <2>2, <2>3
  <2>5. ScreenAt(d)'
    BY <2>1, <2>4, IdleJob DEF ScreenInv, ScreenAt, Acc!Free
  <2>6. QED
    BY <2>1, <2>5, ScreenOne
<1>7. ASSUME NEW d \in Desktops, Acc!Lose(d) \/ Acc!GiveUp(d) PROVE ScreenInv'
  <2>1. /\ UNCHANGED <<page, shown>>
        /\ unseen => unseen'
        /\ \A e \in Desktops \ {d} : job'[e] = job[e] /\ late'[e] = late[e]
        /\ job'[d] = Acc!Idle
        /\ Acc!Mints(late'[d]) => unseen'
    BY <1>7 DEF Acc!Lose, Acc!GiveUp, Acc!End, Acc!desktop, ScreenInv, ScreenAt, CoreInv,
        TypeInv
  <2>2. ScreenAt(d)'
    BY <2>1, IdleJob DEF ScreenInv, ScreenAt, Acc!Free
  <2>3. QED
    BY <2>1, <2>2, ScreenOne
<1>8. ASSUME NEW d \in Desktops, Acc!FinishLate(d) PROVE ScreenInv'
  <2>1. /\ UNCHANGED <<page, shown, job, unseen>>
        /\ \A e \in Desktops \ {d} : late'[e] = late[e]
        /\ late'[d] = Acc!Idle \/ late'[d] = Acc!Read(late[d])
    BY <1>8 DEF Acc!FinishLate, Acc!desktop, CoreInv, TypeInv
  <2>2. Acc!Read(late[d]).op = late[d].op
    BY JobAt DEF Acc!Read, JobRecord
  <2>3. ScreenAt(d)'
    BY <2>1, <2>2, IdleJob DEF ScreenInv, ScreenAt, Acc!Free
  <2>4. QED
    BY <2>1, <2>3, ScreenOne
<1>9. ASSUME NEW d \in Desktops, Acc!Work(d) PROVE ScreenInv'
  BY <1>2, <1>5, <1>6, <1>9, WorkIsQuiet DEF Acc!Work
<1>10. QED
  BY <1>1, <1>4, <1>7, <1>8, <1>9 DEF Acc!Next

\* What the server asks a proof of has changed only to a phrase just sent.
LEMMA ProofOnly ==
  ASSUME TypeInv, NEW d \in Desktops, NEW j \in JobRecord, Acc!Write(d, j)
  PROVE  IF Acc!Mints(j) THEN recovery'.proof = j.phrase ELSE recovery'.proof = recovery.proof
<1>1. CASE Acc!WriteRegister(j) \/ Acc!WriteSetup(j)
  BY <1>1 DEF Acc!WriteRegister, Acc!WriteSetup, Acc!Mints
<1>2. CASE Acc!WriteSession(d, j) \/ Acc!WriteChange(j)
  BY <1>2 DEF Acc!WriteSession, Acc!WriteChange, Acc!Mints
<1>3. CASE Acc!WriteRestore(j)
  <2>1. recovery' = [recovery EXCEPT !.key = j.key, !.phrase = j.phrase] /\ ~Acc!Mints(j)
    BY <1>3 DEF Acc!WriteRestore, Acc!Mints
  <2>2. recovery'.proof = recovery.proof
    BY <2>1 DEF TypeInv
  <2>3. QED
    BY <2>1, <2>2
<1>4. QED
  BY <1>1, <1>2, <1>3 DEF Acc!Write

\* The holder of the phrase the server asks for keeps it, or hands it on.
LEMMA PhraseKept ==
  ASSUME Acc!PhraseIsKnown, recovery'.proof = recovery.proof, unseen => unseen',
         recovery.proof \in paper => recovery.proof \in paper',
         \A e \in Desktops : shown[e] = recovery.proof =>
            unseen' \/ recovery.proof \in paper' \/ shown'[e] = recovery.proof,
         \A e \in Desktops : job[e].pc = "answer" /\ Acc!Mints(job[e]) =>
            unseen' \/ job'[e] = job[e] \/ shown'[e] = job[e].phrase
  PROVE  Acc!PhraseIsKnown'
<1> SUFFICES ASSUME recovery'.proof # Acc!NoPhrase, ~unseen'
             PROVE  \/ recovery'.proof \in paper'
                    \/ \E e \in Desktops :
                          \/ shown'[e] = recovery'.proof
                          \/ /\ job'[e].pc = "answer" /\ Acc!Mints(job'[e])
                             /\ job'[e].phrase = recovery'.proof
  BY DEF Acc!PhraseIsKnown, Acc!Mints
<1>1. CASE recovery.proof \in paper
  BY <1>1
<1>2. ASSUME NEW e \in Desktops, shown[e] = recovery.proof
      PROVE  recovery'.proof \in paper' \/ shown'[e] = recovery'.proof
  BY <1>2
<1>3. ASSUME NEW e \in Desktops, job[e].pc = "answer", Acc!Mints(job[e]),
             job[e].phrase = recovery.proof
      PROVE  \/ shown'[e] = recovery'.proof
             \/ /\ job'[e].pc = "answer" /\ Acc!Mints(job'[e])
                /\ job'[e].phrase = recovery'.proof
  BY <1>3
<1>4. QED
  BY <1>1, <1>2, <1>3 DEF Acc!PhraseIsKnown

\* The phrase of the recovery record stays known.
LEMMA PhraseStep ==
  ASSUME CoreInv, ScreenInv, Acc!PhraseIsKnown, [Acc!Next]_(Acc!vars)
  PROVE  Acc!PhraseIsKnown'
<1>1. CASE UNCHANGED Acc!vars
  BY <1>1, PhraseKept DEF Acc!vars, Acc!server, Acc!desktop, Acc!ghosts
<1>2. ASSUME NEW d \in Desktops, Quietly(d) PROVE Acc!PhraseIsKnown'
  <2>1. \A e \in Desktops : job[e].pc = "answer" => job'[e] = job[e]
    BY <1>2 DEF Quietly
  <2>2. QED
    BY <1>2, <2>1, PhraseKept DEF Quietly, Phrases
<1>3. ASSUME NEW d \in Desktops, NEW j, Acc!Start(d, j) PROVE Acc!PhraseIsKnown'
  <2>1. \A e \in Desktops : job[e].pc = "answer" /\ Acc!Mints(job[e]) => job'[e] = job[e]
    BY <1>3 DEF Acc!Start, Acc!Free, Acc!Mints, CoreInv, TypeInv
  <2>2. QED
    BY <1>3, <2>1, PhraseKept DEF Acc!Start, Acc!server, Acc!desktop, Acc!ghosts
<1>4. ASSUME NEW d \in Desktops, Acc!User(d) PROVE Acc!PhraseIsKnown'
  <2>1. ASSUME Acc!Visit(d) \/ Acc!Lock(d) \/ Acc!Logout(d) PROVE Acc!PhraseIsKnown'
    BY <2>1, PhraseKept DEF Acc!Visit, Acc!Lock, Acc!Logout, Acc!server, Acc!ghosts
  <2>2. ASSUME Acc!SavePhrase(d) PROVE Acc!PhraseIsKnown'
    <3>1. /\ paper' = paper \union {shown[d]} /\ UNCHANGED <<Acc!server, job, unseen>>
          /\ \A e \in Desktops \ {d} : shown'[e] = shown[e]
      BY <2>2 DEF Acc!SavePhrase, CoreInv, TypeInv
    <3>2. QED
      BY <3>1, PhraseKept DEF Acc!server
  <2>3. ASSUME Acc!AbandonPhrase(d) PROVE Acc!PhraseIsKnown'
    BY <2>3 DEF Acc!AbandonPhrase, Acc!PhraseIsKnown
  <2>4. ASSUME NEW p \in Passwords,
               \/ Acc!SubmitRegister(d, p) \/ Acc!SubmitLogin(d, p) \/ Acc!SubmitSetup(d, p)
               \/ \E q \in Passwords : Acc!SubmitChange(d, p, q)
               \/ \E f \in paper : Acc!SubmitRestore(d, f, p)
        PROVE  Acc!PhraseIsKnown'
    BY <1>3, <2>4 DEF Acc!SubmitRegister, Acc!SubmitLogin, Acc!SubmitSetup,
        Acc!SubmitChange, Acc!SubmitRestore
  <2>5. QED
    BY <1>4, <2>1, <2>2, <2>3, <2>4 DEF Acc!User
<1>5. ASSUME NEW d \in Desktops, Acc!Commit(d) PROVE Acc!PhraseIsKnown'
  <2>1. /\ job[d] \in JobRecord /\ job[d].pc = "verified" /\ Acc!Write(d, job[d])
        /\ job' = [job EXCEPT ![d].pc = IF job[d].op = "login" THEN "open" ELSE "answer"]
        /\ UNCHANGED <<shown, paper, unseen>>
    BY <1>5, JobAt DEF Acc!Commit, Acc!desktop
  <2>2. CASE Acc!Mints(job[d])
    <3>1. /\ recovery'.proof = job[d].phrase
          /\ job'[d].pc = "answer" /\ job'[d].op = job[d].op /\ job'[d].phrase = job[d].phrase
      BY <2>1, <2>2, ProofOnly DEF CoreInv, TypeInv, JobRecord, Acc!Mints
    <3>2. QED
      BY <2>2, <3>1 DEF Acc!PhraseIsKnown, Acc!Mints
  <2>3. CASE ~Acc!Mints(job[d])
    <3>1. recovery'.proof = recovery.proof
      BY <2>1, <2>3, ProofOnly DEF CoreInv
    <3>2. \A e \in Desktops : job[e].pc = "answer" => job'[e] = job[e]
      BY <2>1 DEF CoreInv, TypeInv
    <3>3. QED
      BY <2>1, <3>1, <3>2, PhraseKept
  <2>4. QED
    BY <2>2, <2>3
<1>6. ASSUME NEW d \in Desktops, Acc!Settle(d) PROVE Acc!PhraseIsKnown'
  <2>1. /\ UNCHANGED <<Acc!server, paper, unseen>>
        /\ \A e \in Desktops \ {d} : job'[e] = job[e] /\ shown'[e] = shown[e]
        /\ shown'[d] = IF Acc!Mints(job[d]) THEN job[d].phrase ELSE shown[d]
        /\ ~Acc!Free(d)
    BY <1>6, JobAt DEF Acc!Settle, Acc!End, Acc!ghosts, Acc!Mints, WellFormed, Acc!Free,
        CoreInv, TypeInv
  <2>2. shown[d] = Acc!NoPhrase
    BY <2>1 DEF ScreenInv, ScreenAt
  <2>3. CASE recovery.proof = Acc!NoPhrase
    BY <2>1, <2>3 DEF Acc!PhraseIsKnown, Acc!server
  <2>4. CASE recovery.proof # Acc!NoPhrase
    <3>1. \A e \in Desktops : shown[e] = recovery.proof => shown'[e] = recovery.proof
      BY <2>1, <2>2, <2>4
    <3>2. \A e \in Desktops : job[e].pc = "answer" /\ Acc!Mints(job[e]) =>
             job'[e] = job[e] \/ shown'[e] = job[e].phrase
      BY <2>1
    <3>3. QED
      BY <2>1, <3>1, <3>2, PhraseKept DEF Acc!server
  <2>5. QED
    BY <2>3, <2>4
<1>7. ASSUME NEW d \in Desktops, Acc!Lose(d) \/ Acc!GiveUp(d) PROVE Acc!PhraseIsKnown'
  <2>1. /\ UNCHANGED <<Acc!server, shown, paper>>
        /\ unseen => unseen'
        /\ \A e \in Desktops \ {d} : job'[e] = job[e]
        /\ job[d].pc = "answer" /\ Acc!Mints(job[d]) => unseen'
    BY <1>7 DEF Acc!Lose, Acc!GiveUp, Acc!End, Acc!desktop, CoreInv, TypeInv
  <2>2. QED
    BY <2>1, PhraseKept DEF Acc!server
<1>8. ASSUME NEW d \in Desktops, Acc!FinishLate(d) PROVE Acc!PhraseIsKnown'
  <2>1. UNCHANGED <<shown, job, paper, unseen>> /\ late[d] \in JobRecord
    BY <1>8, JobAt DEF Acc!FinishLate, Acc!desktop
  <2>2. CASE unseen
    BY <2>1, <2>2 DEF Acc!PhraseIsKnown
  <2>3. CASE ~unseen
    <3>1. ~Acc!Mints(late[d])
      BY <2>3 DEF ScreenInv, ScreenAt
    <3>2. recovery'.proof = recovery.proof
      BY <1>8, <2>1, <3>1, ProofOnly DEF Acc!FinishLate, Acc!server, CoreInv
    <3>3. QED
      BY <2>1, <3>2, PhraseKept
  <2>4. QED
    BY <2>2, <2>3
<1>9. ASSUME NEW d \in Desktops, Acc!Work(d) PROVE Acc!PhraseIsKnown'
  BY <1>2, <1>5, <1>6, <1>9, WorkIsQuiet DEF Acc!Work
<1>10. QED
  BY <1>1, <1>4, <1>7, <1>8, <1>9 DEF Acc!Next

-----------------------------------------------------------------------------
(***************************************************************************)
(* The theorems.                                                           *)
(***************************************************************************)
LEMMA AccountStep == ASSUME PasswordsAreTyped PROVE AccountInv /\ [Acc!Next]_(Acc!vars) => AccountInv'
<1> SUFFICES ASSUME AccountInv, [Acc!Next]_(Acc!vars) PROVE AccountInv'
  OBVIOUS
<1>1. CoreInv /\ ScreenInv /\ Acc!PhraseIsKnown
  BY DEF AccountInv, CoreInv
<1>2. CoreInv' /\ ScreenInv' /\ Acc!PhraseIsKnown'
  BY <1>1, CoreStep, ScreenStep, PhraseStep
<1>3. QED
  BY <1>2 DEF AccountInv, CoreInv

\* The invariant of the account.
LEMMA AccountIsKept == ASSUME PasswordsAreTyped PROVE Acc!Spec => []AccountInv
<1>1. Acc!Init => AccountInv
  BY InitCore
<1>2. AccountInv /\ [Acc!Next]_(Acc!vars) => AccountInv'
  BY AccountStep
<1>3. QED
  BY <1>1, <1>2, PTL DEF Acc!Spec

\* It gives that the keys fit (KeysFit): wrapper, password hash and keychains.
LEMMA KeysAreKept == AccountInv => Acc!KeysFit
<1> SUFFICES ASSUME AccountInv PROVE Acc!KeysFit
  OBVIOUS
<1>1. ASSUME NEW d \in Desktops
      PROVE  /\ keychain[d] \in {Acc!NoKey, vaultKey}
             /\ job[d].pc = "answer" /\ job[d].op \in {"register", "login", "restore"}
                   => job[d].key = vaultKey
  <2>1. keychain[d] \in {Acc!NoKey, vaultKey}
    BY DEF AccountInv, KeychainInv
  <2>2. InHand(job[d])
    BY DEF AccountInv, JobsInv
  <2>3. QED
    BY <2>1, <2>2 DEF InHand
<1>2. QED
  BY <1>1 DEF AccountInv, ServerInv, Acc!KeysFit, Acc!KeychainHoldsTheVaultKey

\* It gives that the recovery record opens, with a phrase that is known (RecoveryWorks).
LEMMA RecoveryIsKept == AccountInv => Acc!RecoveryWorks
BY DEF AccountInv, ServerInv, Acc!RecoveryWorks, Acc!RecoveryOpens

\* The hash, the wrapper and the vault key stay in step, and every keychain holds
\* the key the stored secrets are encrypted with, whatever registrations,
\* sign-ins, password changes and recoveries overlap or are lost half-way.
THEOREM KeysAlwaysFit == ASSUME PasswordsAreTyped PROVE Acc!Spec => []Acc!KeysFit
BY KeysAreKept, AccountIsKept, PTL

\* The recovery record holds the vault key and opens with the phrase it asks a
\* proof of, except after an overtaken restore; and the user holds that phrase
\* unless the answer that carried it was lost or its screen was left.
THEOREM RecoveryAlwaysWorks == ASSUME PasswordsAreTyped PROVE Acc!Spec => []Acc!RecoveryWorks
BY RecoveryIsKept, AccountIsKept, PTL

-----------------------------------------------------------------------------
(***************************************************************************)
(* The types: no salt or phrase is beyond those drawn, and no key is of    *)
(* another kind.                                                           *)
(***************************************************************************)
Numbers == 0..MaxMint

CountInv ==
    /\ MaxMint \in Nat /\ minted \in Numbers
    /\ MaxFaults \in Nat /\ faults \in 0..MaxFaults

ServerKeys ==
    /\ vaultKey \in Acc!Keys /\ hash \in Acc!Keys /\ wrapper.key \in Acc!Keys /\ wrapper.under \in Acc!Keys
    /\ recovery.key \in Acc!Keys /\ recovery.phrase \in Acc!NoPhrase..MaxMint
    /\ recovery.proof \in Acc!NoPhrase..MaxMint /\ sessions \subseteq Desktops

Small(j) ==
    /\ j.salt \in Numbers /\ j.mint \in Numbers /\ j.phrase \in Acc!NoPhrase..MaxMint
    /\ j.key \in Acc!Keys /\ j.under \in Acc!Keys

JobKeys == \A d \in Desktops : Small(job[d]) /\ Small(late[d])

DesktopKeys ==
    /\ \A d \in Desktops : keychain[d] \in Acc!Keys /\ shown[d] \in Acc!NoPhrase..MaxMint
    /\ paper \subseteq Numbers

BoundInv == CountInv /\ ServerKeys /\ JobKeys /\ DesktopKeys

\* An idle request holds no key.
LEMMA SmallIdle == MaxMint \in Nat => Small(Acc!Idle)
BY DEF Acc!Idle, Small, Numbers, Acc!Keys, Acc!NoKey, Acc!NoPhrase

\* The kinds of keys there are.
LEMMA KeyKinds ==
  /\ \A p \in Passwords, n \in Numbers : <<p, n>> \in Acc!Keys
  /\ Acc!NoKey \in Acc!Keys /\ Acc!RandomKey \in Acc!Keys
  /\ MaxMint \in Nat => \A k \in Acc!Keys : k[2] \in Numbers
BY DEF Acc!Keys, Acc!Derived, Numbers, Acc!NoKey, Acc!RandomKey

\* The bounds hold at first.
LEMMA BoundInit == MaxMint \in Nat /\ MaxFaults \in Nat /\ Acc!Init => BoundInv
<1> SUFFICES ASSUME MaxMint \in Nat, MaxFaults \in Nat, Acc!Init PROVE BoundInv
  OBVIOUS
<1>1. 0 \in Numbers /\ 0 \in Acc!NoPhrase..MaxMint /\ Acc!NoPhrase \in Acc!NoPhrase..MaxMint
  BY DEF Numbers, Acc!NoPhrase
<1>2. CountInv
  BY <1>1 DEF Acc!Init, CountInv
<1>3. ServerKeys /\ paper \subseteq Numbers
  BY <1>1, KeyKinds DEF Acc!Init, ServerKeys, Acc!NoWrapper
<1>4. JobKeys
  BY SmallIdle DEF Acc!Init, JobKeys
<1>5. \A d \in Desktops : keychain[d] \in Acc!Keys /\ shown[d] \in Acc!NoPhrase..MaxMint
  BY <1>1, KeyKinds DEF Acc!Init
<1>6. QED
  BY <1>2, <1>3, <1>4, <1>5 DEF BoundInv, DesktopKeys

\* One job moves on.
LEMMA JobMoves ==
  ASSUME TypeInv, JobKeys, NEW d \in Desktops, NEW J, Small(J),
         job' = [job EXCEPT ![d] = J], late' = late
  PROVE  JobKeys'
<1>1. \A e \in Desktops : job'[e] = IF e = d THEN J ELSE job[e]
  BY DEF TypeInv
<1>2. QED
  BY <1>1 DEF JobKeys, Small

\* A command that computes or asks, or ends in an error.
LEMMA GoBounds ==
  ASSUME TypeInv, BoundInv, NEW d \in Desktops, NEW J, Small(J), Acc!Go(d, J), minted' \in Numbers
  PROVE  BoundInv'
<1>1. JobKeys'
  BY JobMoves DEF BoundInv, Acc!Go
<1>2. QED
  BY <1>1 DEF BoundInv, CountInv, ServerKeys, DesktopKeys, Acc!Go, Acc!server,
      Acc!desktop, Acc!ghosts

\* A failure keeps the bounds.
LEMMA FailBounds ==
  ASSUME TypeInv, BoundInv, NEW d \in Desktops, Acc!Fail(d)
  PROVE  BoundInv'
<1>1. Acc!Go(d, Acc!Idle) /\ minted' \in Numbers /\ Small(Acc!Idle)
  BY SmallIdle DEF Acc!Fail, Acc!End, Acc!Go, BoundInv, CountInv
<1>2. QED
  BY <1>1, GoBounds

\* What a request writes: keys of typed passwords, or the key in hand.
LEMMA WriteBounds ==
  ASSUME TypeInv, CountInv, ServerKeys, NEW d \in Desktops, NEW j \in JobRecord, Small(j),
         WellFormed(j), Acc!Write(d, j)
  PROVE  ServerKeys'
<1>1. j.op \in {"register", "change", "restore"} =>
         /\ Acc!NewKey(j) \in Acc!Keys /\ Acc!NewWrapper(j).key \in Acc!Keys /\ Acc!NewWrapper(j).under \in Acc!Keys
  BY KeyKinds DEF WellFormed, Small, Acc!NewKey, Acc!NewWrapper
<1>2. j.key \in Acc!Keys /\ j.phrase \in Acc!NoPhrase..MaxMint
  BY DEF Small
<1>3. CASE Acc!WriteRegister(j)
  BY <1>1, <1>2, <1>3 DEF Acc!WriteRegister, ServerKeys
<1>4. CASE Acc!WriteSession(d, j)
  BY <1>4 DEF Acc!WriteSession, ServerKeys
<1>5. CASE Acc!WriteChange(j)
  BY <1>1, <1>5 DEF Acc!WriteChange, ServerKeys
<1>6. CASE Acc!WriteSetup(j)
  BY <1>2, <1>6 DEF Acc!WriteSetup, ServerKeys
<1>7. CASE Acc!WriteRestore(j)
  <2>1. recovery'.key = j.key /\ recovery'.phrase = j.phrase /\ recovery'.proof = recovery.proof
    BY <1>7 DEF Acc!WriteRestore, TypeInv
  <2>2. QED
    BY <1>1, <1>2, <1>7, <2>1 DEF Acc!WriteRestore, ServerKeys
<1>8. QED
  BY <1>3, <1>4, <1>5, <1>6, <1>7 DEF Acc!Write

\* So does what is read of the server.
LEMMA ReadBounds ==
  ASSUME ServerKeys, NEW j \in JobRecord, Small(j)
  PROVE  Small(Acc!Read(j))
BY DEF Acc!Read, Small, ServerKeys, JobRecord

\* So does what the user does.
LEMMA UserBounds ==
  ASSUME TypeInv, ScreenInv, BoundInv, NEW d \in Desktops, Acc!User(d)
  PROVE  BoundInv'
<1> USE DEF BoundInv
<1>1. CASE Acc!Visit(d) \/ Acc!Lock(d)
  BY <1>1 DEF Acc!Visit, Acc!Lock, CountInv, ServerKeys, JobKeys, Small, DesktopKeys,
      Acc!server, Acc!ghosts
<1>2. CASE Acc!SavePhrase(d) \/ Acc!AbandonPhrase(d)
  <2>1. /\ UNCHANGED <<Acc!server, keychain, job, late, minted, faults>>
        /\ shown' = [shown EXCEPT ![d] = Acc!NoPhrase]
        /\ paper' = paper \/ (page[d] \in {"phrase", "newphrase"} /\ paper' = paper \union {shown[d]})
    BY <1>2 DEF Acc!SavePhrase, Acc!AbandonPhrase
  <2>2. CountInv' /\ ServerKeys' /\ JobKeys'
    BY <2>1 DEF CountInv, ServerKeys, JobKeys, Small, Acc!server
  <2>3. \A e \in Desktops : keychain'[e] \in Acc!Keys /\ shown'[e] \in Acc!NoPhrase..MaxMint
    BY <2>1 DEF TypeInv, DesktopKeys, CountInv, Acc!NoPhrase
  <2>4. page[d] \in {"phrase", "newphrase"} => shown[d] \in Numbers
    BY DEF ScreenInv, ScreenAt, DesktopKeys, CountInv, Numbers, Acc!NoPhrase
  <2>5. paper' \subseteq Numbers
    BY <2>1, <2>4 DEF DesktopKeys
  <2>6. QED
    BY <2>2, <2>3, <2>5 DEF DesktopKeys
<1>3. CASE Acc!Logout(d)
  <2>1. CountInv'
    BY <1>3 DEF Acc!Logout, CountInv
  <2>2. ServerKeys' /\ JobKeys'
    BY <1>3 DEF Acc!Logout, ServerKeys, JobKeys, Small
  <2>3. DesktopKeys'
    BY <1>3, KeyKinds DEF Acc!Logout, DesktopKeys, TypeInv, Acc!ghosts
  <2>4. QED
    BY <2>1, <2>2, <2>3
<1>4. ASSUME NEW J, Small(J), Acc!Start(d, J), minted' \in Numbers PROVE BoundInv'
  <2>1. JobKeys'
    BY <1>4, JobMoves DEF Acc!Start
  <2>2. QED
    BY <1>4, <2>1 DEF Acc!Start, CountInv, ServerKeys, DesktopKeys, Acc!server,
        Acc!desktop, Acc!ghosts
<1>5. ASSUME NEW p \in Passwords, Acc!SubmitRegister(d, p) PROVE BoundInv'
  <2> DEFINE J == [Acc!Idle EXCEPT !.op = "register", !.pc = "send", !.new = p,
                               !.mint = minted + 1, !.phrase = minted + 1, !.key = Acc!RandomKey]
  <2>1. minted' = minted + 1 /\ minted + 1 \in Numbers /\ minted + 1 \in Acc!NoPhrase..MaxMint
    BY <1>5 DEF Acc!SubmitRegister, CountInv, Numbers, Acc!NoPhrase
  <2>2. /\ J.salt = Acc!Idle.salt /\ J.mint = minted + 1 /\ J.phrase = minted + 1
        /\ J.key = Acc!RandomKey /\ J.under = Acc!Idle.under
    BY DEF Acc!Idle
  <2>3. Acc!Start(d, J)
    BY <1>5 DEF Acc!SubmitRegister
  <2> HIDE DEF J
  <2>4. Small(J)
    BY <2>1, <2>2, SmallIdle, KeyKinds DEF Small, CountInv
  <2>5. QED
    BY <1>4, <2>1, <2>3, <2>4
<1>6. ASSUME NEW p \in Passwords, NEW q \in Passwords, NEW f \in Acc!NoPhrase..MaxMint,
             Acc!SubmitLogin(d, p) \/ Acc!SubmitSetup(d, p) \/ Acc!SubmitChange(d, p, q) \/ Acc!SubmitRestore(d, f, p)
      PROVE  BoundInv'
  <2>1. PICK J : /\ Acc!Start(d, J) /\ J.salt = Acc!Idle.salt /\ J.mint = Acc!Idle.mint /\ J.key = Acc!Idle.key
                 /\ J.under = Acc!Idle.under /\ J.phrase \in {Acc!Idle.phrase, f} /\ minted' = minted
    <3>1. CASE Acc!SubmitLogin(d, p)
      BY <3>1 DEF Acc!SubmitLogin, Acc!Idle
    <3>2. CASE Acc!SubmitSetup(d, p)
      BY <3>2 DEF Acc!SubmitSetup, Acc!Idle
    <3>3. CASE Acc!SubmitChange(d, p, q)
      BY <3>3 DEF Acc!SubmitChange, Acc!Idle
    <3>4. CASE Acc!SubmitRestore(d, f, p)
      BY <3>4 DEF Acc!SubmitRestore, Acc!Idle
    <3>5. QED
      BY <1>6, <3>1, <3>2, <3>3, <3>4
  <2>2. Small(J)
    BY <2>1, SmallIdle DEF Small, CountInv
  <2>3. QED
    BY <1>4, <2>1, <2>2 DEF CountInv
<1>7. paper \subseteq Acc!NoPhrase..MaxMint /\ Acc!NoPhrase \in Acc!NoPhrase..MaxMint
  BY DEF DesktopKeys, CountInv, Numbers, Acc!NoPhrase
<1>8. QED
  BY <1>7, <1>1, <1>2, <1>3, <1>5, <1>6 DEF Acc!User

\* So do the steps of a request.
LEMMA WorkBounds ==
  ASSUME TypeInv, JobsInv, BoundInv, NEW d \in Desktops, Acc!Work(d)
  PROVE  BoundInv'
<1>a. job[d] \in JobRecord /\ WellFormed(job[d]) /\ Small(job[d])
  BY DEF TypeInv, JobsInv, BoundInv, JobKeys
<1>b. CountInv /\ ServerKeys /\ JobKeys /\ DesktopKeys
  BY DEF BoundInv
<1>c. minted < MaxMint => minted + 1 \in Numbers /\ minted + 1 \in Acc!NoPhrase..MaxMint
  BY <1>b DEF CountInv, Numbers, Acc!NoPhrase
<1>1. CASE Acc!Fail(d)
  BY <1>1, FailBounds
<1>2. CASE Acc!ReadSalt(d) /\ ~Acc!Fail(d)
  <2> DEFINE J == [job[d] EXCEPT !.salt = hash[2],
                                 !.pc = IF job[d].op = "login" THEN "send" ELSE "prepare"]
  <2>1. Acc!Go(d, J) /\ minted' = minted
    BY <1>2 DEF Acc!ReadSalt
  <2>2. /\ J.salt = hash[2] /\ J.mint = job[d].mint /\ J.phrase = job[d].phrase
        /\ J.key = job[d].key /\ J.under = job[d].under
    BY <1>a DEF JobRecord
  <2> HIDE DEF J
  <2>3. Small(J)
    BY <1>a, <1>b, <2>2, KeyKinds DEF Small, CountInv, ServerKeys
  <2>4. QED
    BY <1>b, <2>1, <2>3, GoBounds DEF CountInv
<1>3. CASE Acc!Prepare(d) /\ ~Acc!Fail(d)
  <2> DEFINE J == [job[d] EXCEPT !.key = keychain[d], !.mint = minted + 1,
                                 !.phrase = minted + 1, !.pc = "send"]
  <2>1. Acc!Go(d, J) /\ minted < MaxMint /\ minted' = minted + 1
    BY <1>3 DEF Acc!Prepare
  <2>2. /\ J.salt = job[d].salt /\ J.mint = minted + 1 /\ J.phrase = minted + 1
        /\ J.key = keychain[d] /\ J.under = job[d].under
    BY <1>a DEF JobRecord
  <2> HIDE DEF J
  <2>3. Small(J)
    BY <1>a, <1>b, <1>c, <2>1, <2>2 DEF Small, DesktopKeys
  <2>4. QED
    BY <1>c, <2>1, <2>3, GoBounds
<1>4. CASE Acc!ReadBlob(d) /\ ~Acc!Fail(d)
  <2> DEFINE J == [job[d] EXCEPT !.key = recovery.key, !.mint = minted + 1, !.pc = "send"]
  <2>1. Acc!Go(d, J) /\ minted < MaxMint /\ minted' = minted + 1
    BY <1>4 DEF Acc!ReadBlob
  <2>2. /\ J.salt = job[d].salt /\ J.mint = minted + 1 /\ J.phrase = job[d].phrase
        /\ J.key = recovery.key /\ J.under = job[d].under
    BY <1>a DEF JobRecord
  <2> HIDE DEF J
  <2>3. Small(J)
    BY <1>a, <1>b, <1>c, <2>1, <2>2 DEF Small, ServerKeys
  <2>4. QED
    BY <1>c, <2>1, <2>3, GoBounds
<1>5. CASE Acc!Verify(d) /\ ~Acc!Fail(d)
  <2>1. Acc!Go(d, Acc!Read(job[d])) /\ minted' = minted
    BY <1>5 DEF Acc!Verify
  <2>2. Small(Acc!Read(job[d]))
    BY <1>a, <1>b, ReadBounds
  <2>3. QED
    BY <1>b, <2>1, <2>2, GoBounds DEF CountInv
<1>6. CASE Acc!OpenWrapper(d) /\ ~Acc!Fail(d)
  <2> DEFINE J == [job[d] EXCEPT !.pc = "answer"]
  <2>1. Acc!Go(d, J) /\ minted' = minted
    BY <1>6 DEF Acc!OpenWrapper
  <2>2. Small(J)
    BY <1>a DEF Small, JobRecord
  <2> HIDE DEF J
  <2>3. QED
    BY <1>b, <2>1, <2>2, GoBounds DEF CountInv
<1>7. CASE Acc!AdoptConflict(d) /\ ~Acc!Fail(d)
  <2> DEFINE J == [job[d] EXCEPT !.pc = "answer", !.key = wrapper.key]
  <2>1. Acc!Go(d, J) /\ minted' = minted
    BY <1>7 DEF Acc!AdoptConflict
  <2>2. Small(J)
    BY <1>a, <1>b DEF Small, JobRecord, ServerKeys
  <2> HIDE DEF J
  <2>3. QED
    BY <1>b, <2>1, <2>2, GoBounds DEF CountInv
<1>8. CASE Acc!Commit(d)
  <2> DEFINE J == [job[d] EXCEPT !.pc = IF job[d].op = "login" THEN "open" ELSE "answer"]
  <2>1. /\ Acc!Write(d, job[d]) /\ job' = [job EXCEPT ![d] = J]
        /\ UNCHANGED <<Acc!desktop, late, paper, minted, faults>>
    BY <1>8 DEF Acc!Commit, TypeInv
  <2>2. Small(J)
    BY <1>a DEF Small, JobRecord
  <2> HIDE DEF J
  <2>3. ServerKeys'
    BY <1>a, <1>b, <2>1, WriteBounds
  <2>4. JobKeys'
    BY <1>b, <2>1, <2>2, JobMoves
  <2>5. QED
    BY <1>b, <2>1, <2>3, <2>4 DEF BoundInv, CountInv, DesktopKeys, Acc!desktop
<1>d. Acc!Adopting(d) => Acc!Typed(job[d]) \in Acc!Keys
  BY <1>a, KeyKinds DEF Acc!Adopting, WellFormed, Small, Acc!Typed
<1>9. CASE Acc!Adopt(d) \/ Acc!AdoptUnpinned(d)
  <2> DEFINE J == [job[d] EXCEPT !.pc = "answer", !.key = Acc!Typed(job[d])]
  <2>1. Acc!Adopting(d)
    BY <1>9 DEF Acc!Adopt, Acc!AdoptUnpinned
  <2>2. job' = [job EXCEPT ![d] = J]
    BY <1>9 DEF Acc!Adopt, Acc!AdoptUnpinned, TypeInv
  <2>3. Small(J)
    BY <1>a, <1>d, <2>1 DEF Small, JobRecord
  <2> HIDE DEF J
  <2>4. UNCHANGED <<Acc!desktop, late, paper, minted>>
    BY <1>9 DEF Acc!Adopt, Acc!AdoptUnpinned, Acc!ghosts
  <2>5. JobKeys'
    BY <1>b, <2>2, <2>3, <2>4, JobMoves
  <2>6. ServerKeys'
    BY <1>b, <1>d, <1>9, <2>1 DEF Acc!Adopt, Acc!AdoptUnpinned, ServerKeys, Acc!server
  <2>7. CountInv'
    BY <1>b, <1>9, <2>4 DEF Acc!Adopt, Acc!AdoptUnpinned, CountInv
  <2>8. QED
    BY <1>b, <2>4, <2>5, <2>6, <2>7 DEF BoundInv, DesktopKeys, Acc!desktop
<1>10. CASE Acc!Settle(d)
  <2>1. /\ job' = [job EXCEPT ![d] = Acc!Idle] /\ UNCHANGED <<Acc!server, late, Acc!ghosts, minted, faults>>
    BY <1>10 DEF Acc!Settle, Acc!End
  <2>2. JobKeys'
    BY <1>b, <2>1, JobMoves, SmallIdle DEF CountInv
  <2>3. \A e \in Desktops : keychain'[e] \in Acc!Keys
    BY <1>a, <1>b, <1>10 DEF Acc!Settle, TypeInv, DesktopKeys, Small
  <2>4. \A e \in Desktops : shown'[e] \in Acc!NoPhrase..MaxMint
    BY <1>a, <1>b, <1>10 DEF Acc!Settle, TypeInv, DesktopKeys, Small
  <2>5. QED
    BY <1>b, <2>1, <2>2, <2>3, <2>4 DEF BoundInv, CountInv, ServerKeys, DesktopKeys,
        Acc!server, Acc!ghosts
<1>11. QED
  BY <1>1, <1>2, <1>3, <1>4, <1>5, <1>6, <1>7, <1>8, <1>9, <1>10 DEF Acc!Work,
      Acc!RegisterConflict

\* So do the faults.
LEMMA FaultBounds ==
  ASSUME TypeInv, JobsInv, BoundInv, NEW d \in Desktops, Acc!Lose(d) \/ Acc!GiveUp(d) \/ Acc!FinishLate(d)
  PROVE  BoundInv'
<1>a. late[d] \in JobRecord /\ WellFormed(late[d]) /\ Small(late[d]) /\ Small(job[d])
  BY DEF TypeInv, JobsInv, BoundInv, JobKeys
<1>b. CountInv /\ ServerKeys /\ JobKeys /\ DesktopKeys /\ Small(Acc!Idle)
  BY SmallIdle DEF BoundInv, CountInv
<1>1. CASE Acc!Lose(d)
  <2>1. /\ job' = [job EXCEPT ![d] = Acc!Idle] /\ faults < MaxFaults /\ faults' = faults + 1
        /\ UNCHANGED <<Acc!server, Acc!desktop, late, paper, minted>>
    BY <1>1 DEF Acc!Lose, Acc!End
  <2>2. JobKeys'
    BY <1>b, <2>1, JobMoves
  <2>3. QED
    BY <1>b, <2>1, <2>2 DEF BoundInv, CountInv, ServerKeys, DesktopKeys, Acc!server,
        Acc!desktop
<1>2. ASSUME NEW J, Small(J), late' = [late EXCEPT ![d] = J],
             job' = job \/ job' = [job EXCEPT ![d] = Acc!Idle]
      PROVE  JobKeys'
  <2>1. /\ \A e \in Desktops : late'[e] = IF e = d THEN J ELSE late[e]
        /\ \A e \in Desktops : job'[e] \in {Acc!Idle, job[e]}
    BY <1>2 DEF TypeInv
  <2>2. QED
    BY <1>b, <1>2, <2>1 DEF JobKeys, Small
<1>3. CASE Acc!GiveUp(d)
  <2>1. /\ late' = [late EXCEPT ![d] = job[d]] /\ job' = [job EXCEPT ![d] = Acc!Idle]
        /\ faults < MaxFaults /\ faults' = faults + 1
        /\ UNCHANGED <<Acc!server, Acc!desktop, paper, minted>>
    BY <1>3 DEF Acc!GiveUp, Acc!End
  <2>2. JobKeys'
    BY <1>a, <1>2, <2>1
  <2>3. QED
    BY <1>b, <2>1, <2>2 DEF BoundInv, CountInv, ServerKeys, DesktopKeys, Acc!server,
        Acc!desktop
<1>4. CASE Acc!FinishLate(d)
  <2>1. UNCHANGED <<Acc!desktop, job, paper, minted, faults>>
    BY <1>4 DEF Acc!FinishLate
  <2>2. PICK J : Small(J) /\ late' = [late EXCEPT ![d] = J]
    BY <1>a, <1>b, <1>4, ReadBounds DEF Acc!FinishLate
  <2>3. JobKeys'
    BY <1>2, <2>1, <2>2
  <2>4. ServerKeys'
    <3>1. CASE UNCHANGED Acc!server
      BY <1>b, <3>1 DEF ServerKeys, Acc!server
    <3>2. CASE Acc!Write(d, late[d])
      BY <1>a, <1>b, <3>2, WriteBounds
    <3>3. QED
      BY <1>4, <3>1, <3>2 DEF Acc!FinishLate
  <2>5. QED
    BY <1>b, <2>1, <2>3, <2>4 DEF BoundInv, CountInv, DesktopKeys, Acc!desktop
<1>5. QED
  BY <1>1, <1>3, <1>4

\* Every step keeps the bounds.
LEMMA BoundStep == AccountInv /\ BoundInv /\ [Acc!Next]_(Acc!vars) => BoundInv'
<1> SUFFICES ASSUME AccountInv, BoundInv, [Acc!Next]_(Acc!vars) PROVE BoundInv'
  OBVIOUS
<1>1. TypeInv /\ JobsInv /\ ScreenInv
  BY DEF AccountInv
<1>2. CASE UNCHANGED Acc!vars
  BY <1>2 DEF Acc!vars, BoundInv, CountInv, ServerKeys, JobKeys, Small, DesktopKeys,
      Acc!server,
              Acc!desktop, Acc!ghosts
<1>3. ASSUME NEW d \in Desktops,
             Acc!User(d) \/ Acc!Work(d) \/ Acc!Lose(d) \/ Acc!GiveUp(d) \/ Acc!FinishLate(d)
      PROVE  BoundInv'
  BY <1>1, <1>3, UserBounds, WorkBounds, FaultBounds
<1>4. QED
  BY <1>2, <1>3 DEF Acc!Next

\* Both invariants give the types (TypeOK) of the account.
LEMMA AccountIsTyped == AccountInv /\ BoundInv => Acc!TypeOK
<1> SUFFICES ASSUME AccountInv, BoundInv PROVE Acc!TypeOK
  OBVIOUS
<1>1. \A d \in Desktops : /\ keychain[d] \in Acc!Keys /\ page[d] \in Acc!Pages
                          /\ shown[d] \in Acc!NoPhrase..MaxMint
  BY DEF AccountInv, TypeInv, BoundInv, DesktopKeys
<1>2. ASSUME NEW d \in Desktops, NEW j \in {job[d], late[d]}
      PROVE  j.op \in Acc!Ops /\ j.key \in Acc!Keys /\ j.under \in Acc!Keys
  BY <1>2 DEF AccountInv, TypeInv, JobRecord, BoundInv, JobKeys, Small
<1>3. QED
  BY <1>1, <1>2 DEF BoundInv, CountInv, ServerKeys, DesktopKeys, Numbers, Acc!TypeOK

-----------------------------------------------------------------------------
(***************************************************************************)
(* The promise of the vault in a browser tab, for any number of accounts   *)
(* that sign in, fields that reveal a secret and keys that are made.       *)
(***************************************************************************)
RevealRecord ==
    [pc : {"button", "modal", "loading", "text", "error"}, key : Nat,
     text : Users \union {"nobody"}]

UnlockRecord ==
    [pc : {"no", "me", "derive"}, typed : Users \union {"nobody", "junk"},
     of : Users \union {"nobody"}, wrapper : BOOLEAN]

\* A page that shows anything belongs to a user who is signed in, and the cookie
\* opens either nothing or the account of that user.
TabInv ==
    /\ user \in Users \union {"nobody"} /\ session \in Users \union {"nobody"}
    /\ user = "nobody" \/ session = "nobody" \/ session = user
    /\ reveal \in [Reveals -> RevealRecord]
    /\ user = "nobody" => \A r \in Reveals : reveal[r].pc = "button"

KeyInv ==
    /\ bytes \in [Vault!Arrays -> Users \union {"junk", "zero"}]
    /\ vaultKey \in Nat /\ made \in Nat
    /\ unlocking \in [Reveals -> UnlockRecord]
    /\ \A r \in Reveals : unlocking[r].pc = "derive" => unlocking[r].of \in Users

VaultInv == TabInv /\ KeyInv /\ Vault!VaultIsTheUsers

\* No unlock under way is a record of the type of unlocks.
LEMMA NotUnlockingType == Vault!NotUnlocking \in UnlockRecord /\ Vault!NotUnlocking.pc = "no"
BY DEF Vault!NotUnlocking, UnlockRecord

\* A covered text is a record of the type of texts.
LEMMA CoveredType == Vault!Covered \in RevealRecord /\ Vault!Covered.pc = "button"
BY DEF Vault!Covered, RevealRecord, Vault!NoArray

\* Zeroing the current key leaves only zeroes behind.
LEMMA ClearingZeroes ==
    ASSUME KeyInv, Vault!DroppedKeysAreZero
    PROVE  /\ Vault!Cleared(bytes) \in [Vault!Arrays -> Users \union {"junk", "zero"}]
           /\ \A a \in Vault!Arrays : Vault!Cleared(bytes)[a] = "zero"
BY DEF KeyInv, Vault!Cleared, Vault!DroppedKeysAreZero

\* The invariant of the tab holds at first.
LEMMA VaultInit == Vault!Init => VaultInv
<1> SUFFICES ASSUME Vault!Init PROVE VaultInv
  OBVIOUS
<1>1. TabInv
  BY CoveredType DEF Vault!Init, TabInv
<1>2. KeyInv
  BY NotUnlockingType DEF Vault!Init, KeyInv, Vault!NoArray
<1>3. Vault!VaultIsTheUsers
  BY DEF Vault!Init, Vault!VaultIsTheUsers, Vault!DroppedKeysAreZero, Vault!KeyIsOnATimer,
      Vault!TextIsTheUsersOwn, Vault!Covered
<1>4. QED
  BY <1>1, <1>2, <1>3 DEF VaultInv

\* Every action keeps it, whichever unlock or reveal it ends.
LEMMA VaultStep == VaultInv /\ [Vault!Next]_(Vault!vars) => VaultInv'
<1> SUFFICES ASSUME VaultInv, [Vault!Next]_(Vault!vars) PROVE VaultInv'
  OBVIOUS
<1> USE DEF VaultInv
<1>1. Vault!Cleared(bytes) \in [Vault!Arrays -> Users \union {"junk", "zero"}]
      /\ \A a \in Vault!Arrays : Vault!Cleared(bytes)[a] = "zero"
  BY ClearingZeroes DEF Vault!VaultIsTheUsers
<1>2. CASE UNCHANGED Vault!vars
  BY <1>2 DEF Vault!vars, Vault!tab, Vault!keys, TabInv, KeyInv, Vault!VaultIsTheUsers,
      Vault!DroppedKeysAreZero,
              Vault!KeyIsOnATimer, Vault!TextIsTheUsersOwn
<1>3. ASSUME NEW u \in Users, Vault!SignIn(u) PROVE VaultInv'
  BY <1>3 DEF Vault!SignIn, Vault!keys, TabInv, KeyInv, Vault!VaultIsTheUsers,
      Vault!DroppedKeysAreZero,
              Vault!KeyIsOnATimer, Vault!TextIsTheUsersOwn
<1>4. ASSUME NEW u \in Users, Vault!Migrate(u) PROVE VaultInv'
  BY <1>4 DEF Vault!Migrate, Vault!keys, TabInv, KeyInv, Vault!VaultIsTheUsers,
      Vault!DroppedKeysAreZero,
              Vault!KeyIsOnATimer, Vault!TextIsTheUsersOwn
<1>5. CASE Vault!SessionEnds
  BY <1>5 DEF Vault!SessionEnds, Vault!keys, TabInv, KeyInv, Vault!VaultIsTheUsers,
      Vault!DroppedKeysAreZero,
              Vault!KeyIsOnATimer, Vault!TextIsTheUsersOwn
<1>6. CASE Vault!Lock
  BY <1>1, <1>6 DEF Vault!Lock, Vault!ClearVaultKey, Vault!tab, TabInv, KeyInv,
      Vault!VaultIsTheUsers,
                    Vault!DroppedKeysAreZero, Vault!KeyIsOnATimer,
      Vault!TextIsTheUsersOwn, Vault!NoArray
<1>7. CASE Vault!IdleTimeout
  BY <1>1, <1>7 DEF Vault!IdleTimeout, Vault!tab, TabInv, KeyInv, Vault!VaultIsTheUsers,
                    Vault!DroppedKeysAreZero, Vault!KeyIsOnATimer,
      Vault!TextIsTheUsersOwn, Vault!NoArray
<1>8. CASE Vault!Logout
  <2>1. TabInv'
    BY <1>8, CoveredType DEF Vault!Logout, TabInv
  <2>2. KeyInv'
    BY <1>1, <1>8 DEF Vault!Logout, Vault!ClearVaultKey, KeyInv, Vault!NoArray
  <2>3. Vault!VaultIsTheUsers'
    BY <1>1, <1>8, CoveredType DEF Vault!Logout, Vault!ClearVaultKey,
        Vault!VaultIsTheUsers, Vault!DroppedKeysAreZero,
                                   Vault!KeyIsOnATimer, Vault!TextIsTheUsersOwn
  <2>4. QED
    BY <2>1, <2>2, <2>3
<1>9. ASSUME NEW r \in Reveals, Vault!Click(r) PROVE VaultInv'
  <2> DEFINE M == [reveal[r] EXCEPT !.pc = "modal"]
             L == [pc |-> "loading", key |-> vaultKey, text |-> "nobody"]
  <2>1. M \in RevealRecord /\ M.pc = "modal" /\ L \in RevealRecord /\ L.pc = "loading"
    BY DEF TabInv, KeyInv, RevealRecord
  <2>2. \/ reveal' = [reveal EXCEPT ![r] = M] /\ idleTimer' = idleTimer
        \/ reveal' = [reveal EXCEPT ![r] = L] /\ idleTimer'
    BY <1>9 DEF Vault!Click, TabInv
  <2>3. user # "nobody" /\ UNCHANGED <<Vault!tab, vaultKey, bytes, made, unlocking>>
    BY <1>9 DEF Vault!Click
  <2> HIDE DEF M, L
  <2>4. TabInv' /\ Vault!TextIsTheUsersOwn'
    BY <2>1, <2>2, <2>3 DEF Vault!tab, TabInv, Vault!VaultIsTheUsers,
        Vault!TextIsTheUsersOwn
  <2>5. KeyInv' /\ Vault!DroppedKeysAreZero' /\ Vault!KeyIsOnATimer'
    BY <2>2, <2>3 DEF KeyInv, Vault!VaultIsTheUsers, Vault!DroppedKeysAreZero,
        Vault!KeyIsOnATimer
  <2>6. QED
    BY <2>4, <2>5 DEF Vault!VaultIsTheUsers
<1>10. ASSUME NEW r \in Reveals, Vault!Revealed(r) PROVE VaultInv'
  <2> DEFINE T == [Vault!Covered EXCEPT !.pc = "text", !.text = session]
             E == [Vault!Covered EXCEPT !.pc = "error"]
  <2>1. /\ T \in RevealRecord /\ T.pc = "text" /\ T.text = session
        /\ E \in RevealRecord /\ E.pc = "error"
    BY DEF TabInv, Vault!Covered, Vault!NoArray, RevealRecord
  <2>2. user # "nobody"
    BY <1>10 DEF Vault!Revealed, TabInv
  <2>3. \/ reveal' = [reveal EXCEPT ![r] = T] /\ session # "nobody"
        \/ reveal' = [reveal EXCEPT ![r] = E]
    BY <1>10 DEF Vault!Revealed
  <2>4. session # "nobody" => session = user
    BY <2>2 DEF TabInv
  <2>5. UNCHANGED <<Vault!tab, Vault!keys, unlocking>>
    BY <1>10 DEF Vault!Revealed
  <2> HIDE DEF T, E
  <2>6. TabInv' /\ Vault!TextIsTheUsersOwn'
    BY <2>1, <2>2, <2>3, <2>4, <2>5 DEF Vault!tab, TabInv, Vault!VaultIsTheUsers,
        Vault!TextIsTheUsersOwn
  <2>7. QED
    BY <2>5, <2>6 DEF Vault!keys, KeyInv, Vault!VaultIsTheUsers, Vault!DroppedKeysAreZero,
        Vault!KeyIsOnATimer
<1>11. ASSUME NEW r \in Reveals, Vault!Cover(r) \/ Vault!Cancel(r) PROVE VaultInv'
  <2>1. reveal' = [reveal EXCEPT ![r] = Vault!Covered] /\ UNCHANGED <<Vault!tab, Vault!keys, unlocking>>
    BY <1>11 DEF Vault!Cover, Vault!Cancel
  <2>2. TabInv' /\ Vault!TextIsTheUsersOwn'
    BY <2>1, CoveredType DEF Vault!tab, TabInv, Vault!VaultIsTheUsers,
        Vault!TextIsTheUsersOwn
  <2>3. QED
    BY <2>1, <2>2 DEF Vault!keys, KeyInv, Vault!VaultIsTheUsers, Vault!DroppedKeysAreZero,
        Vault!KeyIsOnATimer
<1>12. ASSUME NEW r \in Reveals, \E p \in Users \union {"junk"} : Vault!Unlock(r, p) PROVE VaultInv'
  <2>1. PICK p \in Users \union {"junk"} : Vault!Unlock(r, p)
    BY <1>12
  <2> DEFINE J == [Vault!NotUnlocking EXCEPT !.pc = "me", !.typed = p]
  <2>a. J \in UnlockRecord /\ J.pc = "me" /\ unlocking' = [unlocking EXCEPT ![r] = J]
    BY <2>1 DEF Vault!Unlock, Vault!NotUnlocking, UnlockRecord
  <2> HIDE DEF J
  <2>2. KeyInv'
    BY <2>1, <2>a DEF Vault!Unlock, Vault!keys, KeyInv
  <2>3. QED
    BY <2>1, <2>2 DEF Vault!Unlock, Vault!tab, Vault!keys, TabInv, Vault!VaultIsTheUsers,
        Vault!DroppedKeysAreZero,
                      Vault!KeyIsOnATimer, Vault!TextIsTheUsersOwn
<1>13. ASSUME NEW r \in Reveals, Vault!Me(r) \/ Vault!Mismatch(r) PROVE VaultInv'
  <2> DEFINE b == session \in wrapped
             J == [unlocking[r] EXCEPT !.pc = "derive", !.of = session, !.wrapper = b]
  <2>a. \/ unlocking' = [unlocking EXCEPT ![r] = Vault!NotUnlocking]
        \/ session # "nobody" /\ unlocking' = [unlocking EXCEPT ![r] = J]
    BY <1>13 DEF Vault!Me, Vault!Mismatch
  <2>b. session # "nobody" => J \in UnlockRecord /\ J.of \in Users
    <3>1. unlocking[r] \in UnlockRecord /\ b \in BOOLEAN
          /\ (session # "nobody" => session \in Users)
      BY DEF TabInv, KeyInv
    <3> HIDE DEF b
    <3>2. QED
      BY <3>1 DEF UnlockRecord
  <2>c. UNCHANGED <<Vault!tab, Vault!keys, reveal>>
    BY <1>13 DEF Vault!Me, Vault!Mismatch
  <2> HIDE DEF J
  <2>1. KeyInv'
    BY <2>a, <2>b, <2>c, NotUnlockingType DEF Vault!keys, KeyInv
  <2>2. QED
    BY <1>13, <2>1 DEF Vault!Me, Vault!Mismatch, Vault!tab, Vault!keys, TabInv,
        Vault!VaultIsTheUsers, Vault!DroppedKeysAreZero,
                       Vault!KeyIsOnATimer, Vault!TextIsTheUsersOwn
<1>14. ASSUME NEW r \in Reveals, Vault!Unwrapped(r) PROVE VaultInv'
  <2>1. Vault!KeyOf(unlocking[r]) \in Users \union {"junk"}
    BY <1>14 DEF Vault!Unwrapped, Vault!KeyOf, KeyInv
  <2>a. /\ unlocking' = [unlocking EXCEPT ![r] = Vault!NotUnlocking]
        /\ bytes' = [Vault!Cleared(bytes) EXCEPT ![made + 1] = Vault!KeyOf(unlocking[r])]
        /\ vaultKey' = made + 1 /\ made' = made + 1
    BY <1>14 DEF Vault!Unwrapped
  <2>2. KeyInv'
    <3>1. bytes' \in [Vault!Arrays -> Users \union {"junk", "zero"}]
      BY <1>1, <2>1, <2>a
    <3>2. made + 1 \in Nat /\ unlocking \in [Reveals -> UnlockRecord]
      BY DEF KeyInv
    <3>3. unlocking' \in [Reveals -> UnlockRecord]
      BY <2>a, <3>2, NotUnlockingType
    <3>4. \A q \in Reveals : unlocking'[q].pc = "derive" => unlocking'[q].of \in Users
      BY <2>a, <3>2, NotUnlockingType DEF KeyInv
    <3>5. QED
      BY <2>a, <3>1, <3>2, <3>3, <3>4 DEF KeyInv
  <2>3. TabInv' /\ Vault!TextIsTheUsersOwn'
    BY <1>14, CoveredType DEF Vault!Unwrapped, Vault!tab, TabInv, Vault!VaultIsTheUsers,
        Vault!TextIsTheUsersOwn
  <2>4. Vault!DroppedKeysAreZero' /\ Vault!KeyIsOnATimer'
    BY <1>1, <1>14 DEF Vault!Unwrapped, Vault!DroppedKeysAreZero, Vault!KeyIsOnATimer
  <2>5. QED
    BY <2>2, <2>3, <2>4 DEF Vault!VaultIsTheUsers
<1>15. QED
  BY <1>2, <1>3, <1>4, <1>5, <1>6, <1>7, <1>8, <1>9, <1>10, <1>11, <1>12, <1>13,
      <1>14 DEF Vault!Next

\* The key in the store is one of the arrays made so far.
ArrayInv == MaxKeys \in Nat /\ made \in 0..MaxKeys /\ vaultKey \in 0..made

\* The arrays made are within the bound at first.
LEMMA ArrayInit == MaxKeys \in Nat /\ Vault!Init => ArrayInv
BY DEF Vault!Init, ArrayInv, Vault!NoArray

\* And stay so.
LEMMA ArrayStep == ArrayInv /\ [Vault!Next]_(Vault!vars) => ArrayInv'
<1> SUFFICES ASSUME ArrayInv, [Vault!Next]_(Vault!vars) PROVE ArrayInv'
  OBVIOUS
<1>1. CASE UNCHANGED Vault!vars
  BY <1>1 DEF Vault!vars, Vault!keys, ArrayInv
<1>2. CASE Vault!Lock \/ Vault!IdleTimeout \/ Vault!Logout
  <2>1. vaultKey' = 0 /\ made' = made
    BY <1>2 DEF Vault!Lock, Vault!IdleTimeout, Vault!Logout, Vault!ClearVaultKey,
        Vault!NoArray
  <2>2. QED
    BY <2>1 DEF ArrayInv
<1>3. ASSUME NEW r \in Reveals, Vault!Unwrapped(r) PROVE ArrayInv'
  <2>1. made < MaxKeys /\ vaultKey' = made + 1 /\ made' = made + 1
    BY <1>3 DEF Vault!Unwrapped
  <2>2. QED
    BY <2>1 DEF ArrayInv
<1>4. CASE Vault!SessionEnds \/ \E u \in Users : Vault!SignIn(u) \/ Vault!Migrate(u)
  BY <1>4 DEF Vault!SessionEnds, Vault!SignIn, Vault!Migrate, Vault!keys, ArrayInv
<1>5. ASSUME NEW r \in Reveals,
             \/ Vault!Click(r) \/ Vault!Revealed(r) \/ Vault!Cover(r) \/ Vault!Cancel(r) \/ Vault!Me(r) \/ Vault!Mismatch(r)
             \/ \E p \in Users \union {"junk"} : Vault!Unlock(r, p)
      PROVE  ArrayInv'
  <2>1. UNCHANGED <<vaultKey, made>>
    BY <1>5 DEF Vault!Click, Vault!Revealed, Vault!Cover, Vault!Cancel, Vault!Me,
        Vault!Mismatch, Vault!Unlock, Vault!keys
  <2>2. QED
    BY <2>1 DEF ArrayInv
<1>6. QED
  BY <1>1, <1>2, <1>3, <1>4, <1>5 DEF Vault!Next

\* A reveal under way has taken a key that is there, and what is left in a copy is
\* the bytes of such a key.
CopyInv ==
    /\ copies \subseteq Users \union {"junk"}
    /\ \A r \in Reveals : reveal[r].pc = "loading" => reveal[r].key \in Vault!Arrays

\* No copy is left at first.
LEMMA CopyInit == Vault!Init => CopyInv
BY DEF Vault!Init, Vault!Covered, CopyInv

\* Every step keeps that: a click takes the key of the store, which is one of those
\* made, and only a decryption that throws leaves a copy.
LEMMA CopyStep ==
    VaultInv /\ ArrayInv /\ CopyInv /\ [Vault!Next]_(Vault!vars) => CopyInv'
<1> SUFFICES ASSUME VaultInv, ArrayInv, CopyInv, [Vault!Next]_(Vault!vars) PROVE CopyInv'
  OBVIOUS
<1>1. reveal \in [Reveals -> RevealRecord]
  BY DEF VaultInv, TabInv
<1>2. CASE UNCHANGED Vault!vars
  BY <1>2 DEF Vault!vars, CopyInv
<1>3. CASE \/ Vault!SessionEnds \/ Vault!Lock \/ Vault!IdleTimeout
           \/ \E u \in Users : Vault!SignIn(u) \/ Vault!Migrate(u)
           \/ \E r \in Reveals : \/ Vault!Me(r) \/ Vault!Mismatch(r)
                               \/ \E p \in Users \union {"junk"} : Vault!Unlock(r, p)
  <2>1. UNCHANGED <<copies, reveal>>
    BY <1>3 DEF Vault!SessionEnds, Vault!Lock, Vault!IdleTimeout, Vault!SignIn,
        Vault!Migrate, Vault!Me, Vault!Mismatch, Vault!Unlock
  <2>2. QED
    BY <2>1 DEF CopyInv
<1>4. CASE Vault!Logout \/ \E r \in Reveals : Vault!Cover(r) \/ Vault!Cancel(r) \/ Vault!Unwrapped(r)
  <2>1. /\ copies' = copies
        /\ \/ reveal' = [q \in Reveals |-> Vault!Covered]
           \/ \E r \in Reveals : reveal' = [reveal EXCEPT ![r] = Vault!Covered]
           \/ reveal' = reveal
    BY <1>4 DEF Vault!Logout, Vault!Cover, Vault!Cancel, Vault!Unwrapped
  <2>2. QED
    BY <1>1, <2>1, CoveredType DEF CopyInv
<1>5. ASSUME NEW r \in Reveals, Vault!Click(r) PROVE CopyInv'
  <2> DEFINE M == [reveal[r] EXCEPT !.pc = "modal"]
             L == [pc |-> "loading", key |-> vaultKey, text |-> "nobody"]
  <2>1. M.pc = "modal" /\ L.key = vaultKey
    BY <1>1 DEF RevealRecord
  <2>2. /\ copies' = copies
        /\ \/ reveal' = [reveal EXCEPT ![r] = M]
           \/ reveal' = [reveal EXCEPT ![r] = L] /\ vaultKey # 0
    BY <1>5 DEF Vault!Click, Vault!NoArray
  <2>3. vaultKey # 0 => vaultKey \in Vault!Arrays
    BY DEF ArrayInv, Vault!Arrays
  <2> HIDE DEF M, L
  <2>4. QED
    BY <1>1, <2>1, <2>2, <2>3 DEF CopyInv
<1>6. ASSUME NEW r \in Reveals, Vault!Revealed(r) PROVE CopyInv'
  <2> DEFINE T == [Vault!Covered EXCEPT !.pc = "text", !.text = session]
             E == [Vault!Covered EXCEPT !.pc = "error"]
             B == bytes[reveal[r].key]
  <2>1. T.pc = "text" /\ E.pc = "error"
    BY DEF Vault!Covered
  <2>2. B \in Users \union {"junk", "zero"}
    BY <1>6 DEF Vault!Revealed, CopyInv, VaultInv, KeyInv
  <2>3. /\ copies' = copies \/ copies' = copies \union ({B} \ {"zero"})
        /\ \/ reveal' = [reveal EXCEPT ![r] = T]
           \/ reveal' = [reveal EXCEPT ![r] = E]
    BY <1>6 DEF Vault!Revealed
  <2> HIDE DEF T, E, B
  <2>4. copies' \subseteq Users \union {"junk"}
    BY <2>2, <2>3 DEF CopyInv
  <2>5. QED
    BY <1>1, <2>1, <2>3, <2>4 DEF CopyInv
<1>7. QED
  BY <1>2, <1>3, <1>4, <1>5, <1>6 DEF Vault!Next

\* They give the types and VaultIsTheUsers.
LEMMA VaultKeeps ==
    VaultInv /\ ArrayInv /\ CopyInv => Vault!TypeOK /\ Vault!VaultIsTheUsers
BY DEF VaultInv, TabInv, KeyInv, ArrayInv, CopyInv, RevealRecord, Vault!TypeOK

(* Every key array the store let go of is zeroed, a key in the store is on its
   timer, and a text on the screen was decrypted with the vault key of the user who
   is signed in (store/auth.ts, UnlockModal, RevealSecret). *)
THEOREM VaultIsKept == Vault!Spec => []Vault!VaultIsTheUsers
<1>1. VaultInv => Vault!VaultIsTheUsers
  BY DEF VaultInv
<1>2. QED
  BY <1>1, VaultInit, VaultStep, PTL DEF Vault!Spec

-----------------------------------------------------------------------------
(***************************************************************************)
(* The secrets of registrar accounts: no reference dangles, and a blob     *)
(* nobody names has a cause.                                               *)
(***************************************************************************)
Refs       == [Save!SecretKeys -> 0..MaxBlobs]
Records    == [provider : Save!Providers \union {"none"}, refs : Refs]
FormRecord == [pc : {"closed", "open", "put", "persist"}, id : 0..MaxAccounts, seen : Refs,
               provider : Save!Providers, typed : [Save!SecretKeys -> Save!Providers \union {"blank"}],
               asked : SUBSET Save!SecretKeys, todo : SUBSET Save!SecretKeys, ids : Refs]

SaveTypeInv ==
    /\ MaxBlobs \in Nat /\ MaxAccounts \in Nat /\ MaxFaults \in Nat
    /\ account \in [Save!Accounts -> Records]
    /\ blob \in [Save!Blobs -> Save!Providers \union {"none"}]
    /\ minted \in 0..MaxBlobs /\ created \in 0..MaxAccounts
    /\ list \in [Desktops -> [Save!Accounts -> Records]]
    /\ form \in [Desktops -> FormRecord]
    /\ forgetting \in [Desktops -> SUBSET Save!Blobs]
    /\ faults \in Nat /\ overlapped \in BOOLEAN

\* What a form is at any moment: it has written what it asked for but what is
\* still to do, and the account it edits had every secret of its provider.
Sane(f) ==
    /\ \A k \in Save!SecretKeys : f.typed[k] \in {"blank", f.provider}
    /\ f.pc \in {"closed", "open"} => f.asked = {} /\ f.todo = {}
    /\ f.pc = "put" => f.todo # {}
    /\ f.pc = "persist" => f.todo = {}
    /\ f.todo \subseteq f.asked /\ f.asked \subseteq Save!RegistrarSecrets(f.provider)
    /\ \A k \in f.asked : f.typed[k] # "blank"
    /\ f.id = 0 /\ f.pc \in {"put", "persist"} => f.asked = Save!RegistrarSecrets(f.provider)
    /\ \A k \in Save!SecretKeys : f.ids[k] # Save!NoBlob <=> k \in f.asked \ f.todo
    /\ f.id = 0 => f.seen = Save!NoRefs
    /\ f.id # 0 => \A k \in Save!SecretKeys : /\ f.seen[k] # Save!NoBlob <=> k \in Save!RegistrarSecrets(f.provider)
                                              /\ f.ids[k] \in {Save!NoBlob, f.seen[k]}

\* An account has exactly the secrets of its provider.
Fits(x) == x # Save!NoAccount => /\ x.provider \in Save!Providers
                                 /\ \A k \in Save!SecretKeys : x.refs[k] # Save!NoBlob <=> k \in Save!RegistrarSecrets(x.provider)

\* An account does not change before it is deleted, and its number is not used
\* again: a row or a form that speaks of it agrees with it as long as it is there.
RowsInv ==
    /\ \A a \in Save!Accounts : Fits(account[a])
    /\ \A d \in Desktops, a \in Save!Accounts :
          /\ Fits(list[d][a])
          /\ list[d][a] # Save!NoAccount /\ account[a] # Save!NoAccount => list[d][a] = account[a]
    /\ \A a \in Save!Accounts : a > created =>
          account[a] = Save!NoAccount /\ \A d \in Desktops : list[d][a] = Save!NoAccount
    /\ \A d \in Desktops :
          /\ Sane(form[d]) /\ form[d].id <= created
          /\ form[d].id # 0 => form[d].id \in Save!Accounts /\
                (account[form[d].id] # Save!NoAccount =>
                    /\ account[form[d].id].refs = form[d].seen
                    /\ account[form[d].id].provider = form[d].provider)

\* Blobs are numbered as they are made.
MintInv ==
    /\ \A a \in Save!Accounts : \A b \in Save!RefsOf(account[a].refs) : b \in 1..minted
    /\ \A d \in Desktops, a \in Save!Accounts : \A b \in Save!RefsOf(list[d][a].refs) : b \in 1..minted
    /\ \A d \in Desktops :
          \A b \in Save!RefsOf(form[d].seen) \union Save!RefsOf(form[d].ids) \union forgetting[d] : b \in 1..minted

\* The blobs of an account, whether it is still there or only remembered.
Belongs(b, a) ==
    \/ b \in Save!RefsOf(account[a].refs)
    \/ \E d \in Desktops : b \in Save!RefsOf(list[d][a].refs)
    \/ \E d \in Desktops : form[d].id = a /\ b \in Save!RefsOf(form[d].seen)

\* A blob is of one account; one that is to be forgotten is of none that is there;
\* and what a form has written for a new account is of nobody else.
OwnInv ==
    /\ \A b : \A a, c \in Save!Accounts : Belongs(b, a) /\ Belongs(b, c) => a = c
    /\ \A d \in Desktops, a \in Save!Accounts : forgetting[d] \intersect Save!RefsOf(account[a].refs) = {}
    /\ \A d \in Desktops : form[d].id = 0 => \A b \in Save!RefsOf(form[d].ids) :
          /\ blob[b] = form[d].provider
          /\ \A a \in Save!Accounts : ~Belongs(b, a)
          /\ \A e \in Desktops : b \notin forgetting[e] /\ (e # d => b \notin Save!RefsOf(form[e].ids))

LiveInv == \A a \in Save!Accounts : \A b \in Save!RefsOf(account[a].refs) : blob[b] = account[a].provider

SaveInv == SaveTypeInv /\ RowsInv /\ MintInv /\ OwnInv /\ LiveInv /\ Save!OrphansHaveACause

\* What a record of references refers to.
LEMMA RefsOfIs == \A refs : \A b : b \in Save!RefsOf(refs) <=> b # Save!NoBlob /\ \E k \in Save!SecretKeys : refs[k] = b
  BY DEF Save!RefsOf

\* Records with no references refer to nothing.
LEMMA Empty ==
  /\ Save!RefsOf(Save!NoRefs) = {} /\ Save!RefsOf(Save!NoAccount.refs) = {}
  /\ \A k \in Save!SecretKeys : Save!NoRefs[k] = Save!NoBlob
  /\ Fits(Save!NoAccount)
  BY DEF Save!RefsOf, Save!NoRefs, Save!NoAccount, Fits

\* The secrets of a provider are among the keys there are.
LEMMA SecretsAreKeys == \A p : Save!RegistrarSecrets(p) \in SUBSET Save!SecretKeys
  BY DEF Save!RegistrarSecrets

\* No account, no references and the closed form are of their types.
LEMMA NoneIsTyped ==
  ASSUME SaveTypeInv PROVE Save!NoRefs \in Refs /\ Save!NoAccount \in Records /\ Save!Closed \in FormRecord /\ Sane(Save!Closed)
<1>1. Save!NoRefs \in Refs BY DEF Save!NoRefs, Refs, Save!NoBlob, SaveTypeInv
<1>2. Save!NoAccount \in Records BY <1>1 DEF Save!NoAccount, Records
<1>3. Save!Closed \in FormRecord
  BY <1>1 DEF Save!Closed, FormRecord, Save!Blank, Save!Providers, SaveTypeInv
<1>4. Sane(Save!Closed) BY DEF Save!Closed, Sane, Save!Blank, Save!NoRefs
<1> QED BY <1>1, <1>2, <1>3, <1>4

\* The invariant of the secrets holds at first.
LEMMA SaveInit == MaxBlobs \in Nat /\ MaxAccounts \in Nat /\ MaxFaults \in Nat /\ Save!Init => SaveInv
<1> SUFFICES ASSUME MaxBlobs \in Nat, MaxAccounts \in Nat, MaxFaults \in Nat, Save!Init PROVE SaveInv
  OBVIOUS
<1>0. Save!NoRefs \in Refs /\ Save!NoAccount \in Records
  BY DEF Save!NoRefs, Refs, Save!NoBlob, Save!NoAccount, Records
<1>1. Save!Closed \in FormRecord
  BY <1>0 DEF Save!Closed, FormRecord, Save!Blank, Save!Providers
<1>2. SaveTypeInv
  <2>1. account \in [Save!Accounts -> Records] BY <1>0 DEF Save!Init
  <2>2. blob \in [Save!Blobs -> Save!Providers \union {"none"}] BY DEF Save!Init
  <2>3. list \in [Desktops -> [Save!Accounts -> Records]] BY <2>1 DEF Save!Init
  <2>4. form \in [Desktops -> FormRecord] BY <1>1 DEF Save!Init
  <2>5. forgetting \in [Desktops -> SUBSET Save!Blobs] BY DEF Save!Init
  <2>6. overlapped \in BOOLEAN BY DEF Save!Init
  <2>7. minted \in 0..MaxBlobs /\ created \in 0..MaxAccounts /\ faults \in Nat
    BY DEF Save!Init
  <2> QED BY <2>1, <2>2, <2>3, <2>4, <2>5, <2>6, <2>7 DEF SaveTypeInv
<1>3. /\ Sane(Save!Closed) /\ Save!Closed.id = 0 /\ Save!RefsOf(Save!Closed.seen) = {} /\ Save!RefsOf(Save!Closed.ids) = {}
      /\ Save!Closed.pc = "closed"
  BY <1>2, NoneIsTyped, Empty DEF Save!Closed
<1>4. /\ \A a \in Save!Accounts : account[a] = Save!NoAccount
      /\ \A d \in Desktops, a \in Save!Accounts : list[d][a] = Save!NoAccount
      /\ \A d \in Desktops : form[d] = Save!Closed /\ forgetting[d] = {}
      /\ \A b \in Save!Blobs : blob[b] = "none"
  BY DEF Save!Init
<1>5. RowsInv BY <1>2, <1>3, <1>4, Empty DEF RowsInv, SaveTypeInv
<1>6. MintInv BY <1>3, <1>4, Empty DEF MintInv
<1>7. OwnInv BY <1>3, <1>4, Empty DEF OwnInv, Belongs
<1>8. LiveInv BY <1>4, Empty DEF LiveInv
<1>9. Save!OrphansHaveACause BY <1>4 DEF Save!OrphansHaveACause, Save!Live
<1> QED BY <1>2, <1>5, <1>6, <1>7, <1>8, <1>9 DEF SaveInv

\* A form replaced by a form of the type.
LEMMA FormType ==
  ASSUME SaveInv, NEW d \in Desktops, NEW f \in FormRecord, form' = [form EXCEPT ![d] = f]
  PROVE  /\ form' \in [Desktops -> FormRecord] /\ form'[d] = f
         /\ \A e \in Desktops \ {d} : form'[e] = form[e]
  BY DEF SaveInv, SaveTypeInv

\* What a form that is not being saved has written.
LEMMA NothingWritten ==
  ASSUME NEW f \in FormRecord, Sane(f), f.pc \in {"closed", "open"} \/ f.asked = {}
  PROVE  Save!RefsOf(f.ids) = {}
<1>1. \A k \in Save!SecretKeys : f.ids[k] = Save!NoBlob BY DEF Sane, FormRecord
<1> QED BY <1>1, RefsOfIs

\* A form that is not being saved becomes another one that is not.
LEMMA EditsStep ==
  ASSUME SaveInv, NEW d \in Desktops, NEW f \in FormRecord, Sane(f), Save!Edits(d, f),
         Save!RefsOf(f.ids) = Save!RefsOf(form[d].ids), f.id <= created,
         f.id = 0 => (form[d].id = 0 /\ f.provider = form[d].provider) \/ Save!RefsOf(f.ids) = {},
         \/ f.id = 0
         \/ (f.id = form[d].id /\ f.seen = form[d].seen /\ f.provider = form[d].provider)
         \/ (f.id \in Save!Accounts /\ list[d][f.id] # Save!NoAccount /\ f.seen = list[d][f.id].refs
             /\ f.provider = list[d][f.id].provider)
  PROVE  SaveInv'
<1> USE DEF SaveInv
<1>1. form' \in [Desktops -> FormRecord] /\ form'[d] = f /\ \A e \in Desktops \ {d} : form'[e] = form[e]
  BY FormType DEF Save!Edits
<1>2. UNCHANGED <<account, blob, minted, created, list, forgetting, faults, overlapped>>
  BY DEF Save!Edits, Save!server
<1>3. SaveTypeInv' BY <1>1, <1>2 DEF SaveTypeInv
<1>4. RowsInv' BY <1>1, <1>2 DEF RowsInv
<1>5. \/ Save!RefsOf(f.seen) = {}
      \/ (f.seen = form[d].seen /\ f.id = form[d].id)
      \/ (f.id \in Save!Accounts /\ f.seen = list[d][f.id].refs)
  BY Empty DEF Sane
<1>6. MintInv' BY <1>1, <1>2, <1>5 DEF MintInv
<1>7. \A b : \A a \in Save!Accounts : Belongs(b, a)' => Belongs(b, a)
  BY <1>1, <1>2, <1>5 DEF Belongs
<1>8. \A e \in Desktops : Save!RefsOf(form'[e].ids) = Save!RefsOf(form[e].ids) BY <1>1
<1>9. OwnInv'
  <2>1. (\A b : \A a, c \in Save!Accounts : Belongs(b, a) /\ Belongs(b, c) => a = c)'
    BY <1>7 DEF OwnInv
  <2>2. (\A e \in Desktops, a \in Save!Accounts : forgetting[e] \intersect Save!RefsOf(account[a].refs) = {})'
    BY <1>2 DEF OwnInv
  <2>3. ASSUME NEW e \in Desktops, form'[e].id = 0, NEW b \in Save!RefsOf(form'[e].ids)
        PROVE  /\ blob'[b] = form'[e].provider
               /\ \A a \in Save!Accounts : ~Belongs(b, a)'
               /\ \A g \in Desktops : b \notin forgetting'[g] /\ (g # e => b \notin Save!RefsOf(form'[g].ids))
    <3>1. form[e].id = 0 /\ form'[e].provider = form[e].provider /\ b \in Save!RefsOf(form[e].ids)
      BY <1>1, <1>8, <2>3
    <3> QED BY <1>2, <1>7, <1>8, <3>1 DEF OwnInv
  <2> QED BY <2>1, <2>2, <2>3 DEF OwnInv
<1>10. LiveInv' BY <1>2 DEF LiveInv
<1>11. Save!OrphansHaveACause' BY <1>2, <1>8 DEF Save!OrphansHaveACause, Save!Live
<1> QED BY <1>3, <1>4, <1>6, <1>9, <1>10, <1>11

\* A save that fails leaves nothing of itself in the form.
LEMMA RefusedForm ==
  ASSUME SaveTypeInv, NEW f \in FormRecord, Sane(f)
  PROVE  /\ Save!Refused(f) \in FormRecord /\ Sane(Save!Refused(f)) /\ Save!RefsOf(Save!Refused(f).ids) = {}
         /\ Save!Refused(f).id = f.id /\ Save!Refused(f).seen = f.seen /\ Save!Refused(f).provider = f.provider
         /\ Save!Refused(f).pc = "open"
<1> DEFINE m == [f EXCEPT !.pc = "open", !.asked = {}, !.todo = {}, !.ids = Save!NoRefs]
<1>1. Save!Refused(f) = m BY DEF Save!Refused
<1>2. /\ m.pc = "open" /\ m.asked = {} /\ m.todo = {} /\ m.ids = Save!NoRefs /\ m.id = f.id
      /\ m.seen = f.seen /\ m.provider = f.provider /\ m.typed = f.typed
  BY DEF FormRecord
<1>3. m \in FormRecord BY NoneIsTyped DEF FormRecord
<1> HIDE DEF m
<1>4. Sane(m) BY <1>2, Empty DEF Sane
<1> QED BY <1>1, <1>2, <1>3, <1>4, Empty

\* A blob put keeps the invariant: it is fresh and of the form.
LEMMA PutStep ==
  ASSUME SaveInv, NEW d \in Desktops, Save!Put(d)
  PROVE  SaveInv'
<1> USE DEF SaveInv
<1> DEFINE f == form[d]
           k == Save!FirstOf(f.todo)
           b == Save!BlobIdFor(f, k)
<1>1. f \in FormRecord /\ Sane(f) BY DEF SaveTypeInv, RowsInv
<1>2. f.pc = "put" /\ b \in Save!Blobs BY DEF Save!Put
<1>3. k \in f.todo /\ k \in Save!SecretKeys
  <2>1. f.todo # {} /\ f.todo \subseteq Save!SecretKeys BY <1>1, <1>2 DEF Sane, FormRecord
  <2> QED BY <2>1 DEF Save!FirstOf, Save!SecretKeys
<1>4. f.typed[k] = f.provider /\ f.provider \in Save!Providers /\ f.ids[k] = Save!NoBlob
      /\ k \in Save!RegistrarSecrets(f.provider)
  BY <1>1, <1>3 DEF Sane, FormRecord
<1>5. \/ (f.id # 0 /\ b = f.seen[k] /\ b \in Save!RefsOf(f.seen) /\ Belongs(b, f.id) /\ f.id \in Save!Accounts)
      \/ (f.id = 0 /\ b = minted + 1)
  <2>1. CASE f.id = 0 BY <1>1, <1>3, <2>1, Empty DEF Sane, Save!BlobIdFor
  <2>2. CASE f.id # 0
    <3>1. f.seen[k] # Save!NoBlob BY <1>1, <1>3, <1>4, <2>2 DEF Sane
    <3>2. b = f.seen[k] BY <3>1 DEF Save!BlobIdFor
    <3>3. b \in Save!RefsOf(f.seen) BY <1>3, <3>1, <3>2, RefsOfIs
    <3> QED BY <2>2, <3>2, <3>3 DEF Belongs, RowsInv
  <2> QED BY <2>1, <2>2
<1>6. /\ UNCHANGED <<account, created, list, forgetting>>
      /\ minted' = IF b > minted THEN b ELSE minted
      /\ overlapped' = (overlapped \/ Save!Overtaken(f.id, f.seen))
      /\ blob' \in {blob, [blob EXCEPT ![b] = f.provider]}
  BY <1>4 DEF Save!Put
<1> DEFINE m == [f EXCEPT !.ids = [f.ids EXCEPT ![k] = b], !.todo = f.todo \ {k},
                          !.pc = IF f.todo = {k} THEN "persist" ELSE "put"]
<1>7. \/ (form' = [form EXCEPT ![d] = m] /\ faults' = faults /\ blob' = [blob EXCEPT ![b] = f.provider])
      \/ (form' = [form EXCEPT ![d] = Save!Refused(f)] /\ faults' = faults + 1)
  BY <1>1, <1>4 DEF Save!Put, SaveTypeInv
<1>8. minted' \in 0..MaxBlobs /\ minted <= minted' /\ b <= minted' /\ b # Save!NoBlob /\ b <= MaxBlobs
  BY <1>2, <1>6 DEF SaveTypeInv, Save!Blobs, Save!NoBlob
<1> HIDE DEF b, k
<1>9. /\ m.pc = (IF f.todo = {k} THEN "persist" ELSE "put") /\ m.asked = f.asked
      /\ m.todo = f.todo \ {k} /\ m.ids = [f.ids EXCEPT ![k] = b] /\ m.id = f.id
      /\ m.seen = f.seen /\ m.provider = f.provider /\ m.typed = f.typed
      /\ m \in FormRecord
  <2> DEFINE i == [f.ids EXCEPT ![k] = b]
             t == f.todo \ {k}
             p == IF f.todo = {k} THEN "persist" ELSE "put"
  <2>1. i \in Refs /\ t \in SUBSET Save!SecretKeys /\ p \in {"put", "persist"}
    <3>1. b \in 0..MaxBlobs BY <1>2 DEF Save!Blobs, SaveTypeInv
    <3>2. f.ids \in Refs /\ f.todo \in SUBSET Save!SecretKeys BY <1>1 DEF FormRecord
    <3> HIDE DEF f
    <3>3. i \in Refs BY <1>3, <3>1, <3>2 DEF Refs
    <3>4. t \in SUBSET Save!SecretKeys BY <3>2
    <3>5. p \in {"put", "persist"} OBVIOUS
    <3> QED BY <3>3, <3>4, <3>5
  <2>2. m = [f EXCEPT !.ids = i, !.todo = t, !.pc = p] OBVIOUS
  <2> HIDE DEF i, t, p, m, f
  <2>3. /\ m.pc = p /\ m.asked = f.asked /\ m.todo = t /\ m.ids = i /\ m.id = f.id
        /\ m.seen = f.seen /\ m.provider = f.provider /\ m.typed = f.typed
    BY <1>1, <2>2 DEF FormRecord
  <2>4. m \in FormRecord BY <1>1, <2>1, <2>2 DEF FormRecord
  <2> QED BY <2>3, <2>4 DEF i, t, p
<1> HIDE DEF m
<1>10. /\ m.ids[k] = b /\ \A h \in Save!SecretKeys \ {k} : m.ids[h] = f.ids[h]
  BY <1>1, <1>3, <1>9 DEF FormRecord, Refs
<1>11. Sane(m)
  <2>1. \A h \in Save!SecretKeys : m.ids[h] # Save!NoBlob <=> h \in m.asked \ m.todo
    BY <1>1, <1>3, <1>8, <1>9, <1>10 DEF Sane
  <2>2. m.id # 0 => \A h \in Save!SecretKeys : m.ids[h] \in {Save!NoBlob, m.seen[h]}
    BY <1>1, <1>5, <1>9, <1>10 DEF Sane
  <2>3. m.pc = "put" => m.todo # {} BY <1>1, <1>3, <1>9
  <2>4. m.pc = "persist" => m.todo = {} BY <1>1, <1>3, <1>9
  <2>5. m.pc \in {"put", "persist"} BY <1>9
  <2> QED BY <1>1, <1>2, <1>9, <2>1, <2>2, <2>3, <2>4, <2>5 DEF Sane
<1>12. Save!RefsOf(m.ids) = Save!RefsOf(f.ids) \union {b}
  BY <1>3, <1>4, <1>8, <1>10, RefsOfIs
<1>13. PICK g \in FormRecord :
         /\ form' = [form EXCEPT ![d] = g] /\ Sane(g)
         /\ g.id = f.id /\ g.seen = f.seen /\ g.provider = f.provider
         /\ \/ (Save!RefsOf(g.ids) = Save!RefsOf(f.ids) \union {b} /\ faults' = faults
                /\ blob' = [blob EXCEPT ![b] = f.provider])
            \/ (Save!RefsOf(g.ids) = {} /\ faults' = faults + 1)
  BY <1>1, <1>7, <1>9, <1>11, <1>12, RefusedForm
<1>14. form' \in [Desktops -> FormRecord] /\ form'[d] = g /\ \A e \in Desktops \ {d} : form'[e] = form[e]
  BY <1>13, FormType
<1>15. /\ blob' \in [Save!Blobs -> Save!Providers \union {"none"}]
       /\ \A x \in Save!Blobs \ {b} : blob'[x] = blob[x]
       /\ blob'[b] \in {blob[b], f.provider}
  BY <1>2, <1>4, <1>6 DEF SaveTypeInv
<1>16. faults' \in Nat /\ overlapped' \in BOOLEAN /\ (overlapped => overlapped')
       /\ (faults' = 0 => faults = 0 /\ faults' = faults)
  BY <1>6, <1>13 DEF SaveTypeInv
<1> HIDE DEF f
<1>17. SaveTypeInv' BY <1>6, <1>8, <1>14, <1>15, <1>16 DEF SaveTypeInv
<1>18. RowsInv' BY <1>6, <1>13, <1>14 DEF RowsInv, f
<1>19. Save!RefsOf(g.ids) \subseteq Save!RefsOf(f.ids) \union {b} BY <1>13
<1> USE DEF f
<1>20. 1..minted \subseteq 1..minted' /\ b \in 1..minted'
  BY <1>2, <1>8 DEF SaveTypeInv, Save!Blobs
<1>21. MintInv'
  <2>1. (\A a \in Save!Accounts : \A x \in Save!RefsOf(account[a].refs) : x \in 1..minted)'
    BY <1>6, <1>20 DEF MintInv
  <2>2. (\A e \in Desktops, a \in Save!Accounts : \A x \in Save!RefsOf(list[e][a].refs) : x \in 1..minted)'
    BY <1>6, <1>20 DEF MintInv
  <2>3. (\A e \in Desktops :
           \A x \in Save!RefsOf(form[e].seen) \union Save!RefsOf(form[e].ids) \union forgetting[e] : x \in 1..minted)'
    BY <1>6, <1>13, <1>14, <1>19, <1>20 DEF MintInv
  <2> QED BY <2>1, <2>2, <2>3 DEF MintInv
<1>22. \A x : \A a \in Save!Accounts : Belongs(x, a)' => Belongs(x, a)
  BY <1>6, <1>13, <1>14 DEF Belongs
\* The blob that is written is of nobody but the account this form is about.
<1>23. /\ \A a \in Save!Accounts : b \in Save!RefsOf(account[a].refs) => f.provider = account[a].provider
       /\ \A e \in Desktops \ {d} : form[e].id = 0 => b \notin Save!RefsOf(form[e].ids)
  <2>1. CASE f.id # 0 /\ b \in Save!RefsOf(f.seen) /\ Belongs(b, f.id) /\ f.id \in Save!Accounts
    <3>1. ASSUME NEW a \in Save!Accounts, b \in Save!RefsOf(account[a].refs)
          PROVE  f.provider = account[a].provider
      <4>1. a = f.id BY <2>1, <3>1 DEF OwnInv, Belongs
      <4>2. account[a] # Save!NoAccount BY <3>1, Empty
      <4> QED BY <2>1, <4>1, <4>2 DEF RowsInv
    <3>2. \A e \in Desktops \ {d} : form[e].id = 0 => b \notin Save!RefsOf(form[e].ids)
      BY <2>1 DEF OwnInv
    <3> QED BY <3>1, <3>2
  <2>2. CASE f.id = 0 /\ b = minted + 1
    <3>1. b \notin 1..minted BY <2>2 DEF SaveTypeInv
    <3> QED BY <3>1 DEF MintInv
  <2> QED BY <1>5, <2>1, <2>2
<1>24. f.id = 0 => /\ \A a \in Save!Accounts : ~Belongs(b, a)
                   /\ \A e \in Desktops : b \notin forgetting[e] /\ b \notin Save!RefsOf(form[e].ids)
  <2>1. SUFFICES ASSUME f.id = 0
                 PROVE  /\ \A a \in Save!Accounts : ~Belongs(b, a)
                        /\ \A e \in Desktops : b \notin forgetting[e] /\ b \notin Save!RefsOf(form[e].ids)
    OBVIOUS
  <2>2. b \notin 1..minted BY <1>5, <2>1 DEF SaveTypeInv
  <2> QED BY <2>2 DEF MintInv, Belongs
<1>25. OwnInv'
  <2>1. (\A x : \A a, c \in Save!Accounts : Belongs(x, a) /\ Belongs(x, c) => a = c)'
    BY <1>22 DEF OwnInv
  <2>2. (\A e \in Desktops, a \in Save!Accounts : forgetting[e] \intersect Save!RefsOf(account[a].refs) = {})'
    BY <1>6 DEF OwnInv
  <2>3. ASSUME NEW e \in Desktops, form'[e].id = 0, NEW x \in Save!RefsOf(form'[e].ids)
        PROVE  /\ blob'[x] = form'[e].provider
               /\ \A a \in Save!Accounts : ~Belongs(x, a)'
               /\ \A h \in Desktops : x \notin forgetting'[h] /\ (h # e => x \notin Save!RefsOf(form'[h].ids))
    <3>0. x \in Save!Blobs
      <4>1. x \in 1..minted' BY <1>21, <2>3 DEF MintInv
      <4>2. MaxBlobs \in Nat /\ minted' \in 0..MaxBlobs BY <1>17 DEF SaveTypeInv
      <4> QED BY <4>1, <4>2 DEF Save!Blobs
    <3>1. CASE e # d
      <4>1. form[e].id = 0 /\ form'[e] = form[e] BY <1>14, <2>3, <3>1
      <4>2. /\ blob[x] = form[e].provider /\ \A a \in Save!Accounts : ~Belongs(x, a)
            /\ \A h \in Desktops : x \notin forgetting[h] /\ (h # e => x \notin Save!RefsOf(form[h].ids))
        BY <2>3, <4>1 DEF OwnInv
      <4>3. x # b BY <1>23, <2>3, <3>1, <4>1
      <4>4. x \notin Save!RefsOf(g.ids) BY <1>19, <3>1, <4>2, <4>3
      <4> QED BY <1>6, <1>14, <1>15, <1>22, <3>0, <4>1, <4>2, <4>3, <4>4
    <3>2. CASE e = d
      <4>1. f.id = 0 /\ x \in Save!RefsOf(g.ids) BY <1>13, <1>14, <2>3, <3>2
      <4>2. Save!RefsOf(g.ids) = Save!RefsOf(f.ids) \union {b} /\ blob' = [blob EXCEPT ![b] = f.provider]
        BY <1>13, <4>1
      <4>3. CASE x = b
        <5>1. blob'[x] = f.provider BY <1>2, <4>2, <4>3 DEF SaveTypeInv
        <5> QED BY <1>6, <1>13, <1>14, <1>22, <1>24, <3>2, <4>1, <4>3, <5>1
      <4>4. CASE x # b
        <5>1. /\ blob[x] = f.provider /\ \A a \in Save!Accounts : ~Belongs(x, a)
              /\ \A h \in Desktops : x \notin forgetting[h] /\ (h # d => x \notin Save!RefsOf(form[h].ids))
          BY <4>1, <4>2, <4>4 DEF OwnInv
        <5> QED BY <1>6, <1>13, <1>14, <1>15, <1>22, <3>0, <3>2, <4>4, <5>1
      <4> QED BY <4>3, <4>4
    <3> QED BY <3>1, <3>2
  <2> QED BY <2>1, <2>2, <2>3 DEF OwnInv
<1>26. LiveInv'
  <2>1. SUFFICES ASSUME NEW a \in Save!Accounts, NEW x \in Save!RefsOf(account[a].refs)
                 PROVE  blob'[x] = account[a].provider
    BY <1>6 DEF LiveInv
  <2>0. x \in 1..minted BY <2>1 DEF MintInv
  <2>2. blob[x] = account[a].provider /\ x \in Save!Blobs
    BY <2>0, <2>1 DEF LiveInv, Save!Blobs, SaveTypeInv
  <2>3. CASE x = b BY <1>15, <1>23, <2>1, <2>2, <2>3
  <2>4. CASE x # b BY <1>15, <2>2, <2>4
  <2> QED BY <2>3, <2>4
<1>27. Save!OrphansHaveACause'
  <2>1. SUFFICES ASSUME faults' = 0, ~overlapped', NEW x \in Save!Blobs, blob'[x] # "none"
                 PROVE  \/ \E a \in Save!Accounts : x \in Save!RefsOf(account'[a].refs)
                        \/ \E e \in Desktops : x \in Save!RefsOf(form'[e].ids) \union forgetting'[e]
    BY DEF Save!OrphansHaveACause, Save!Live
  <2>2. faults = 0 /\ ~overlapped /\ faults' = faults BY <1>16, <2>1
  <2>3. Save!RefsOf(g.ids) = Save!RefsOf(f.ids) \union {b} BY <1>13, <2>2
  <2>4. CASE x = b BY <1>14, <2>3, <2>4
  <2>5. CASE x # b
    <3>1. blob[x] # "none" BY <1>15, <2>1, <2>5
    <3>2. \/ \E a \in Save!Accounts : x \in Save!RefsOf(account[a].refs)
          \/ \E e \in Desktops : x \in Save!RefsOf(form[e].ids) \union forgetting[e]
      BY <2>2, <3>1 DEF Save!OrphansHaveACause, Save!Live
    <3> QED BY <1>6, <1>14, <2>3, <3>2
  <2> QED BY <2>4, <2>5
<1> QED BY <1>17, <1>18, <1>21, <1>25, <1>26, <1>27

\* A save is over, and what it has written is an account's or has an excuse.
LEMMA FormEnds ==
  ASSUME SaveInv, NEW d \in Desktops, NEW g \in FormRecord, Sane(g), Save!RefsOf(g.ids) = {},
         form' = [form EXCEPT ![d] = g],
         UNCHANGED <<account, blob, minted, created, list, forgetting>>,
         faults' \in Nat, overlapped' \in BOOLEAN,
         faults' = 0 /\ ~overlapped' =>
            /\ faults = 0 /\ ~overlapped
            /\ \A b \in Save!RefsOf(form[d].ids) : \E a \in Save!Accounts : b \in Save!RefsOf(account[a].refs),
         \/ g.id = 0
         \/ (g.id = form[d].id /\ g.seen = form[d].seen /\ g.provider = form[d].provider)
  PROVE  SaveInv'
<1> USE DEF SaveInv
<1>1. form' \in [Desktops -> FormRecord] /\ form'[d] = g /\ \A e \in Desktops \ {d} : form'[e] = form[e]
  BY FormType
<1>2. SaveTypeInv' BY <1>1 DEF SaveTypeInv
<1>3. g.id <= created BY DEF RowsInv, SaveTypeInv
<1>4. RowsInv' BY <1>1, <1>3 DEF RowsInv
<1>5. Save!RefsOf(g.seen) = {} \/ (g.seen = form[d].seen /\ g.id = form[d].id)
  BY Empty DEF Sane
<1>6. MintInv' BY <1>1, <1>5 DEF MintInv
<1>7. \A b : \A a \in Save!Accounts : Belongs(b, a)' => Belongs(b, a)
  BY <1>1, <1>5 DEF Belongs
<1>8. OwnInv'
  <2>1. (\A b : \A a, c \in Save!Accounts : Belongs(b, a) /\ Belongs(b, c) => a = c)'
    BY <1>7 DEF OwnInv
  <2>2. (\A e \in Desktops, a \in Save!Accounts : forgetting[e] \intersect Save!RefsOf(account[a].refs) = {})'
    BY DEF OwnInv
  <2>3. ASSUME NEW e \in Desktops, form'[e].id = 0, NEW b \in Save!RefsOf(form'[e].ids)
        PROVE  /\ blob'[b] = form'[e].provider
               /\ \A a \in Save!Accounts : ~Belongs(b, a)'
               /\ \A h \in Desktops : b \notin forgetting'[h] /\ (h # e => b \notin Save!RefsOf(form'[h].ids))
    <3>1. e # d /\ form'[e] = form[e] BY <1>1, <2>3
    <3>2. /\ blob[b] = form[e].provider /\ \A a \in Save!Accounts : ~Belongs(b, a)
          /\ \A h \in Desktops : b \notin forgetting[h] /\ (h # e => b \notin Save!RefsOf(form[h].ids))
      BY <2>3, <3>1 DEF OwnInv
    <3> QED BY <1>1, <1>7, <3>1, <3>2
  <2> QED BY <2>1, <2>2, <2>3 DEF OwnInv
<1>9. LiveInv' BY DEF LiveInv
<1>10. Save!OrphansHaveACause'
  <2>1. SUFFICES ASSUME faults' = 0, ~overlapped', NEW b \in Save!Blobs, blob[b] # "none"
                 PROVE  \/ \E a \in Save!Accounts : b \in Save!RefsOf(account[a].refs)
                        \/ \E e \in Desktops : b \in Save!RefsOf(form'[e].ids) \union forgetting[e]
    BY DEF Save!OrphansHaveACause, Save!Live
  <2>2. \/ \E a \in Save!Accounts : b \in Save!RefsOf(account[a].refs)
        \/ \E e \in Desktops : b \in Save!RefsOf(form[e].ids) \union forgetting[e]
    BY <2>1 DEF Save!OrphansHaveACause, Save!Live
  <2> QED BY <1>1, <2>1, <2>2
<1> QED BY <1>2, <1>4, <1>6, <1>8, <1>9, <1>10

\* What PUT or POST of an account makes of it.
LEMMA PatchedAccount ==
  ASSUME SaveInv, NEW d \in Desktops, form[d].pc = "persist"
  PROVE  /\ form[d].id = 0 => /\ Save!Patched(form[d]) \in Records /\ Fits(Save!Patched(form[d]))
                              /\ Save!Patched(form[d]).refs = form[d].ids
                              /\ Save!Patched(form[d]).provider = form[d].provider
         /\ form[d].id # 0 /\ account[form[d].id] # Save!NoAccount =>
               /\ form[d].id \in Save!Accounts /\ Save!Patched(form[d]) = account[form[d].id]
               /\ Save!RefsOf(form[d].ids) \subseteq Save!RefsOf(account[form[d].id].refs)
<1> USE DEF SaveInv
<1> DEFINE f == form[d]
<1>1. f \in FormRecord /\ Sane(f) /\ f.todo = {} BY DEF SaveTypeInv, RowsInv, Sane
<1>2. ASSUME f.id = 0
      PROVE  /\ Save!Patched(f) \in Records /\ Fits(Save!Patched(f))
             /\ Save!Patched(f).refs = f.ids /\ Save!Patched(f).provider = f.provider
  <2>1. f.asked = Save!RegistrarSecrets(f.provider) BY <1>1, <1>2 DEF Sane
  <2>2. \A k \in Save!SecretKeys : f.ids[k] = IF k \in f.asked THEN f.ids[k] ELSE Save!NoBlob
    BY <1>1 DEF Sane
  <2>3. f.ids = [k \in Save!SecretKeys |-> f.ids[k]] BY <1>1 DEF FormRecord, Refs
  <2>4. Save!Patched(f) = [provider |-> f.provider, refs |-> f.ids]
    BY <1>2, <2>2, <2>3 DEF Save!Patched
  <2>5. f.provider \in Save!Providers /\ f.ids \in Refs BY <1>1 DEF FormRecord
  <2>6. \A k \in Save!SecretKeys : f.ids[k] # Save!NoBlob <=> k \in Save!RegistrarSecrets(f.provider)
    BY <1>1, <2>1 DEF Sane
  <2> HIDE DEF f
  <2> QED BY <2>4, <2>5, <2>6 DEF Records, Fits
<1>3. ASSUME f.id # 0, account[f.id] # Save!NoAccount
      PROVE  /\ f.id \in Save!Accounts /\ Save!Patched(f) = account[f.id]
             /\ Save!RefsOf(f.ids) \subseteq Save!RefsOf(account[f.id].refs)
  <2>1. /\ f.id \in Save!Accounts /\ account[f.id].refs = f.seen /\ account[f.id].provider = f.provider
        /\ account[f.id] \in Records
    BY <1>3 DEF RowsInv, SaveTypeInv
  <2>2. \A k \in Save!SecretKeys : k \in f.asked => f.ids[k] = f.seen[k]
    BY <1>1, <1>3 DEF Sane
  <2>3. \A k \in Save!SecretKeys : f.ids[k] # Save!NoBlob => f.ids[k] = f.seen[k]
    BY <1>1, <1>3 DEF Sane
  <2> DEFINE x == account[f.id]
  <2>4. x = [provider |-> x.provider, refs |-> x.refs] /\ x.refs = [k \in Save!SecretKeys |-> x.refs[k]]
    BY <2>1 DEF Records, Refs
  <2>5. Save!Patched(f) = x BY <1>3, <2>1, <2>2, <2>4 DEF Save!Patched
  <2>6. Save!RefsOf(f.ids) \subseteq Save!RefsOf(f.seen) BY <2>3, RefsOfIs
  <2> QED BY <2>1, <2>5, <2>6
<1> QED BY <1>2, <1>3

\* So does the row written, with its references.
LEMMA PersistStep ==
  ASSUME SaveInv, NEW d \in Desktops, Save!Persist(d)
  PROVE  SaveInv'
<1> USE DEF SaveInv
<1> DEFINE f == form[d]
           a == Save!TargetOf(f)
<1>1. f \in FormRecord /\ Sane(f) /\ f.pc = "persist"
  BY DEF SaveTypeInv, RowsInv, Save!Persist
<1>2. /\ a \in Save!Accounts /\ (f.id # 0 => account[a] # Save!NoAccount /\ a = f.id)
      /\ (f.id = 0 => a = created + 1)
      /\ UNCHANGED <<blob, minted, list, forgetting>>
      /\ overlapped' = (overlapped \/ Save!Overtaken(f.id, f.seen))
  BY DEF Save!Persist, Save!TargetOf
<1>3. PICK g \in FormRecord :
        /\ form' = [form EXCEPT ![d] = g] /\ Sane(g) /\ Save!RefsOf(g.ids) = {}
        /\ g.id = 0 \/ (g.id = f.id /\ g.seen = f.seen /\ g.provider = f.provider)
        /\ \/ (faults' = faults + 1 /\ UNCHANGED <<account, created>>)
           \/ (faults' \in {faults, faults + 1} /\ account' = [account EXCEPT ![a] = Save!Patched(f)]
               /\ created' = IF f.id = 0 THEN a ELSE created)
  <2>1. /\ Save!Closed \in FormRecord /\ Sane(Save!Closed) /\ Save!RefsOf(Save!Closed.ids) = {} /\ Save!Closed.id = 0
    BY NoneIsTyped, Empty DEF Save!Closed
  <2>2. form' = [form EXCEPT ![d] = Save!Closed] \/ form' = [form EXCEPT ![d] = Save!Refused(f)]
    BY DEF Save!Persist
  <2>3. \/ (faults' = faults + 1 /\ UNCHANGED <<account, created>>)
        \/ (faults' \in {faults, faults + 1} /\ account' = [account EXCEPT ![a] = Save!Patched(f)]
            /\ created' = IF f.id = 0 THEN a ELSE created)
    BY DEF Save!Persist
  <2> QED BY <1>1, <2>1, <2>2, <2>3, RefusedForm
<1>4. faults' \in Nat /\ overlapped' \in BOOLEAN /\ (overlapped => overlapped')
      /\ (faults' = 0 => faults = 0 /\ faults' = faults)
  BY <1>2, <1>3 DEF SaveTypeInv
<1>5. CASE faults' = faults + 1 /\ UNCHANGED <<account, created>>
  <2>1. faults' # 0 BY <1>5 DEF SaveTypeInv
  <2> QED BY <1>2, <1>3, <1>4, <1>5, <2>1, FormEnds
<1>6. CASE f.id # 0 /\ account' = [account EXCEPT ![a] = Save!Patched(f)] /\ created' = created
  <2>1. Save!Patched(f) = account[a] /\ Save!RefsOf(f.ids) \subseteq Save!RefsOf(account[a].refs)
    BY <1>1, <1>2, <1>6, PatchedAccount
  <2>2. account' = account BY <1>6, <2>1 DEF SaveTypeInv
  <2> QED BY <1>2, <1>3, <1>4, <1>6, <2>1, <2>2, FormEnds
<1>7. CASE f.id = 0 /\ account' = [account EXCEPT ![a] = Save!Patched(f)] /\ created' = a
  <2> DEFINE x == Save!Patched(f)
  <2>1. x \in Records /\ Fits(x) /\ x.refs = f.ids /\ x.provider = f.provider
    BY <1>1, <1>7, PatchedAccount
  <2> HIDE DEF x, a
  <2>2. /\ account' \in [Save!Accounts -> Records] /\ account'[a] = x
        /\ \A c \in Save!Accounts \ {a} : account'[c] = account[c]
    BY <1>2, <1>7, <2>1 DEF SaveTypeInv, x
  <2>3. form' \in [Desktops -> FormRecord] /\ form'[d] = g /\ \A e \in Desktops \ {d} : form'[e] = form[e]
    BY <1>3, FormType
  <2>4. a = created + 1 /\ a \in 1..MaxAccounts BY <1>2, <1>7 DEF Save!Accounts
  <2>5. SaveTypeInv' BY <1>2, <1>4, <1>7, <2>2, <2>3, <2>4 DEF SaveTypeInv
  <2>6. /\ account[a] = Save!NoAccount /\ \A e \in Desktops : list[e][a] = Save!NoAccount /\ form[e].id # a
        /\ Save!RefsOf(account[a].refs) = {} /\ \A e \in Desktops : Save!RefsOf(list[e][a].refs) = {}
    <3>1. a > created /\ created \in Nat /\ a \in Save!Accounts
      BY <1>2, <2>4 DEF SaveTypeInv
    <3>2. account[a] = Save!NoAccount /\ \A e \in Desktops : list[e][a] = Save!NoAccount
      BY <3>1 DEF RowsInv
    <3>3. ASSUME NEW e \in Desktops PROVE form[e].id # a
      <4>1. form[e].id <= created /\ form[e].id \in Nat
        BY DEF RowsInv, SaveTypeInv, FormRecord
      <4> QED BY <2>4, <3>1, <4>1
    <3> QED BY <3>2, <3>3, Empty
  <2>7. g.id = 0 /\ g.seen = Save!NoRefs BY <1>3, <1>7 DEF Sane
  <2>8. RowsInv'
    <3>1. (\A c \in Save!Accounts : Fits(account[c]))' BY <2>1, <2>2 DEF RowsInv
    <3>2. (\A e \in Desktops, c \in Save!Accounts :
             /\ Fits(list[e][c])
             /\ list[e][c] # Save!NoAccount /\ account[c] # Save!NoAccount => list[e][c] = account[c])'
      BY <1>2, <2>2, <2>6 DEF RowsInv
    <3>3. (\A c \in Save!Accounts : c > created =>
             account[c] = Save!NoAccount /\ \A e \in Desktops : list[e][c] = Save!NoAccount)'
      BY <1>2, <1>7, <2>2, <2>4 DEF RowsInv, SaveTypeInv, Save!Accounts
    <3>4. ASSUME NEW e \in Desktops
          PROVE  /\ Sane(form'[e]) /\ form'[e].id <= created'
                 /\ form'[e].id # 0 => /\ form'[e].id \in Save!Accounts
                                       /\ account'[form'[e].id] # Save!NoAccount =>
                                            /\ account'[form'[e].id].refs = form'[e].seen
                                            /\ account'[form'[e].id].provider = form'[e].provider
      <4>1. CASE e = d BY <1>3, <1>7, <2>3, <2>4, <2>7, <4>1 DEF SaveTypeInv
      <4>2. CASE e # d
        <5>1. form'[e] = form[e] /\ Sane(form[e]) /\ form[e].id <= created /\ form[e].id # a
          BY <2>3, <2>6, <4>2 DEF RowsInv
        <5>2. form[e].id \in Nat BY DEF SaveTypeInv, FormRecord
        <5>3. form[e].id <= created' BY <1>7, <2>4, <5>1, <5>2 DEF SaveTypeInv
        <5>4. form[e].id # 0 => form[e].id \in Save!Accounts /\ account'[form[e].id] = account[form[e].id]
          BY <2>2, <5>1 DEF RowsInv
        <5> QED BY <5>1, <5>3, <5>4 DEF RowsInv
      <4> QED BY <4>1, <4>2
    <3> QED BY <3>1, <3>2, <3>3, <3>4 DEF RowsInv
  <2>9. MintInv'
    <3>1. (\A c \in Save!Accounts : \A b \in Save!RefsOf(account[c].refs) : b \in 1..minted)'
      BY <1>2, <2>1, <2>2 DEF MintInv
    <3>2. (\A e \in Desktops, c \in Save!Accounts : \A b \in Save!RefsOf(list[e][c].refs) : b \in 1..minted)'
      BY <1>2 DEF MintInv
    <3>3. (\A e \in Desktops :
             \A b \in Save!RefsOf(form[e].seen) \union Save!RefsOf(form[e].ids) \union forgetting[e] : b \in 1..minted)'
      BY <1>2, <1>3, <2>3, <2>7, Empty DEF MintInv
    <3> QED BY <3>1, <3>2, <3>3 DEF MintInv
  <2>10. \A b : \A c \in Save!Accounts : Belongs(b, c)' => (c # a /\ Belongs(b, c)) \/ (c = a /\ b \in Save!RefsOf(f.ids))
    BY <1>2, <2>1, <2>2, <2>3, <2>6, <2>7, Empty DEF Belongs
  <2>11. \A b \in Save!RefsOf(f.ids) :
           /\ blob[b] = f.provider /\ \A c \in Save!Accounts : ~Belongs(b, c)
           /\ \A e \in Desktops : b \notin forgetting[e] /\ (e # d => b \notin Save!RefsOf(form[e].ids))
    BY <1>7 DEF OwnInv
  <2>12. OwnInv'
    <3>1. (\A b : \A c, h \in Save!Accounts : Belongs(b, c) /\ Belongs(b, h) => c = h)'
      BY <2>10, <2>11 DEF OwnInv
    <3>2. (\A e \in Desktops, c \in Save!Accounts : forgetting[e] \intersect Save!RefsOf(account[c].refs) = {})'
      BY <1>2, <2>1, <2>2, <2>11 DEF OwnInv
    <3>3. ASSUME NEW e \in Desktops, form'[e].id = 0, NEW b \in Save!RefsOf(form'[e].ids)
          PROVE  /\ blob'[b] = form'[e].provider
                 /\ \A c \in Save!Accounts : ~Belongs(b, c)'
                 /\ \A h \in Desktops : b \notin forgetting'[h] /\ (h # e => b \notin Save!RefsOf(form'[h].ids))
      <4>1. e # d /\ form'[e] = form[e] BY <1>3, <2>3, <3>3
      <4>2. /\ blob[b] = form[e].provider /\ \A c \in Save!Accounts : ~Belongs(b, c)
            /\ \A h \in Desktops : b \notin forgetting[h] /\ (h # e => b \notin Save!RefsOf(form[h].ids))
        BY <3>3, <4>1 DEF OwnInv
      <4>3. b \notin Save!RefsOf(f.ids) BY <4>1, <4>2
      <4> QED BY <1>2, <1>3, <2>3, <2>10, <4>1, <4>2, <4>3
    <3> QED BY <3>1, <3>2, <3>3 DEF OwnInv
  <2>13. LiveInv' BY <1>2, <2>1, <2>2, <2>11 DEF LiveInv
  <2>14. Save!OrphansHaveACause'
    <3>1. SUFFICES ASSUME faults' = 0, ~overlapped', NEW b \in Save!Blobs, blob[b] # "none"
                   PROVE  \/ \E c \in Save!Accounts : b \in Save!RefsOf(account'[c].refs)
                          \/ \E e \in Desktops : b \in Save!RefsOf(form'[e].ids) \union forgetting[e]
      BY <1>2 DEF Save!OrphansHaveACause, Save!Live
    <3>2. \/ \E c \in Save!Accounts : b \in Save!RefsOf(account[c].refs)
          \/ \E e \in Desktops : b \in Save!RefsOf(form[e].ids) \union forgetting[e]
      BY <1>4, <3>1 DEF Save!OrphansHaveACause, Save!Live
    <3> QED BY <1>2, <2>1, <2>2, <2>3, <2>6, <3>2
  <2> QED BY <2>5, <2>8, <2>9, <2>12, <2>13, <2>14
<1> QED BY <1>3, <1>5, <1>6, <1>7

\* So does the deletion of the row.
LEMMA DeleteStep ==
  ASSUME SaveInv, NEW d \in Desktops, NEW a \in Save!Accounts, Save!Delete(d, a)
  PROVE  SaveInv'
<1> USE DEF SaveInv
<1>1. /\ list[d][a] # Save!NoAccount /\ account[a] # Save!NoAccount /\ list[d][a] = account[a]
      /\ account' = [account EXCEPT ![a] = Save!NoAccount] /\ forgetting[d] = {}
      /\ overlapped' = (overlapped \/ Save!Overtaken(a, list[d][a].refs))
      /\ UNCHANGED <<blob, minted, created, list, form>>
  BY DEF Save!Delete, RowsInv
<1>2. \/ (forgetting' = [forgetting EXCEPT ![d] = Save!RefsOf(account[a].refs)] /\ faults' = faults)
      \/ (forgetting' = forgetting /\ faults' = faults + 1)
  BY <1>1 DEF Save!Delete
<1>3. /\ account' \in [Save!Accounts -> Records] /\ account'[a] = Save!NoAccount
      /\ \A c \in Save!Accounts \ {a} : account'[c] = account[c]
  BY <1>1, NoneIsTyped DEF SaveTypeInv
<1>4. Save!RefsOf(account[a].refs) \subseteq 1..minted /\ 1..minted \subseteq Save!Blobs
  BY DEF MintInv, SaveTypeInv, Save!Blobs
<1>5. /\ forgetting' \in [Desktops -> SUBSET Save!Blobs]
      /\ \A e \in Desktops : forgetting'[e] = forgetting[e] \/ (e = d /\ forgetting'[e] = Save!RefsOf(account[a].refs))
  BY <1>2, <1>4 DEF SaveTypeInv
<1>6. faults' \in Nat /\ overlapped' \in BOOLEAN /\ (overlapped => overlapped')
      /\ (faults' = 0 => faults = 0 /\ forgetting'[d] = Save!RefsOf(account[a].refs))
  BY <1>1, <1>2 DEF SaveTypeInv
<1>7. SaveTypeInv' BY <1>1, <1>3, <1>5, <1>6 DEF SaveTypeInv
<1>8. \A c \in Save!Accounts : account'[c] = account[c] \/ account'[c] = Save!NoAccount
  BY <1>3
<1>9. RowsInv' BY <1>1, <1>8, Empty DEF RowsInv
<1>10. \A c \in Save!Accounts : Save!RefsOf(account'[c].refs) \subseteq Save!RefsOf(account[c].refs)
  BY <1>8, Empty
<1>11. MintInv' BY <1>1, <1>4, <1>5, <1>10 DEF MintInv
<1>12. \A b : \A c \in Save!Accounts : Belongs(b, c)' => Belongs(b, c)
  BY <1>1, <1>10 DEF Belongs
<1>13. \A b \in Save!RefsOf(account[a].refs) : Belongs(b, a) BY DEF Belongs
<1>14. OwnInv'
  <2>1. (\A b : \A c, h \in Save!Accounts : Belongs(b, c) /\ Belongs(b, h) => c = h)'
    BY <1>12 DEF OwnInv
  <2>2. ASSUME NEW e \in Desktops, NEW c \in Save!Accounts, NEW b \in forgetting'[e], b \in Save!RefsOf(account'[c].refs)
        PROVE  FALSE
    <3>1. b \in Save!RefsOf(account[c].refs) /\ c # a BY <1>3, <1>10, <2>2, Empty
    <3>2. b \in forgetting[e] \/ b \in Save!RefsOf(account[a].refs) BY <1>5, <2>2
    <3> QED BY <3>1, <3>2, <1>13 DEF OwnInv, Belongs
  <2>3. ASSUME NEW e \in Desktops, form'[e].id = 0, NEW b \in Save!RefsOf(form'[e].ids)
        PROVE  /\ blob'[b] = form'[e].provider
               /\ \A c \in Save!Accounts : ~Belongs(b, c)'
               /\ \A h \in Desktops : b \notin forgetting'[h] /\ (h # e => b \notin Save!RefsOf(form'[h].ids))
    <3>1. /\ blob[b] = form[e].provider /\ \A c \in Save!Accounts : ~Belongs(b, c)
          /\ \A h \in Desktops : b \notin forgetting[h] /\ (h # e => b \notin Save!RefsOf(form[h].ids))
      BY <1>1, <2>3 DEF OwnInv
    <3> QED BY <1>1, <1>5, <1>12, <1>13, <3>1
  <2> QED BY <2>1, <2>2, <2>3 DEF OwnInv
<1>15. LiveInv'
  BY <1>1, <1>3, Empty DEF LiveInv
<1>16. Save!OrphansHaveACause'
  <2>1. SUFFICES ASSUME faults' = 0, ~overlapped', NEW b \in Save!Blobs, blob[b] # "none"
                 PROVE  \/ \E c \in Save!Accounts : b \in Save!RefsOf(account'[c].refs)
                        \/ \E e \in Desktops : b \in Save!RefsOf(form[e].ids) \union forgetting'[e]
    BY <1>1 DEF Save!OrphansHaveACause, Save!Live
  <2>2. \/ \E c \in Save!Accounts : b \in Save!RefsOf(account[c].refs)
        \/ \E e \in Desktops : b \in Save!RefsOf(form[e].ids) \union forgetting[e]
    BY <1>6, <2>1 DEF Save!OrphansHaveACause, Save!Live
  <2>3. forgetting'[d] = Save!RefsOf(account[a].refs) /\ forgetting[d] = {}
    BY <1>1, <1>6, <2>1
  <2>4. \A e \in Desktops : forgetting[e] \subseteq forgetting'[e] BY <1>5, <2>3
  <2>5. CASE b \in Save!RefsOf(account[a].refs) BY <2>3, <2>5
  <2>6. CASE b \notin Save!RefsOf(account[a].refs) BY <1>3, <2>2, <2>4, <2>6
  <2> QED BY <2>5, <2>6
<1> QED BY <1>7, <1>9, <1>11, <1>14, <1>15, <1>16

\* So does the deletion of a blob after it.
LEMMA ForgetStep ==
  ASSUME SaveInv, NEW d \in Desktops, Save!ForgetSecretBlobs(d)
  PROVE  SaveInv'
<1> USE DEF SaveInv
<1>1. PICK b \in forgetting[d] :
        /\ forgetting' = [forgetting EXCEPT ![d] = forgetting[d] \ {b}]
        /\ \/ (blob' = [blob EXCEPT ![b] = "none"] /\ faults' = faults)
           \/ (faults' = faults + 1 /\ blob' = blob)
        /\ UNCHANGED <<account, minted, created, list, form, overlapped>>
  BY DEF Save!ForgetSecretBlobs, SaveTypeInv
<1>2. b \in Save!Blobs BY DEF SaveTypeInv
<1>3. /\ forgetting' \in [Desktops -> SUBSET Save!Blobs] /\ forgetting'[d] = forgetting[d] \ {b}
      /\ \A e \in Desktops : forgetting'[e] \subseteq forgetting[e] /\ (e # d => forgetting'[e] = forgetting[e])
  BY <1>1 DEF SaveTypeInv
<1>4. /\ blob' \in [Save!Blobs -> Save!Providers \union {"none"}]
      /\ \A x \in Save!Blobs \ {b} : blob'[x] = blob[x]
      /\ faults' = faults \/ faults' = faults + 1
      /\ faults' = faults => blob'[b] = "none"
  BY <1>1, <1>2 DEF SaveTypeInv
<1>5. faults' \in Nat /\ (faults' = 0 => faults = 0 /\ faults' = faults)
  BY <1>4 DEF SaveTypeInv
<1>6. SaveTypeInv' BY <1>1, <1>3, <1>4, <1>5 DEF SaveTypeInv
<1>7. RowsInv' BY <1>1 DEF RowsInv
<1>8. MintInv' BY <1>1, <1>3 DEF MintInv
<1>9. \A x : \A a \in Save!Accounts : Belongs(x, a)' <=> Belongs(x, a) BY <1>1 DEF Belongs
<1>10. 1..minted \subseteq Save!Blobs BY DEF SaveTypeInv, Save!Blobs
<1>11. OwnInv'
  <2>1. (\A x : \A a, c \in Save!Accounts : Belongs(x, a) /\ Belongs(x, c) => a = c)'
    BY <1>9 DEF OwnInv
  <2>2. (\A e \in Desktops, a \in Save!Accounts : forgetting[e] \intersect Save!RefsOf(account[a].refs) = {})'
    BY <1>1, <1>3 DEF OwnInv
  <2>3. ASSUME NEW e \in Desktops, form'[e].id = 0, NEW x \in Save!RefsOf(form'[e].ids)
        PROVE  /\ blob'[x] = form'[e].provider
               /\ \A a \in Save!Accounts : ~Belongs(x, a)'
               /\ \A h \in Desktops : x \notin forgetting'[h] /\ (h # e => x \notin Save!RefsOf(form'[h].ids))
    <3>1. /\ blob[x] = form[e].provider /\ \A a \in Save!Accounts : ~Belongs(x, a)
          /\ \A h \in Desktops : x \notin forgetting[h] /\ (h # e => x \notin Save!RefsOf(form[h].ids))
      BY <1>1, <2>3 DEF OwnInv
    <3>2. x \in Save!Blobs BY <1>1, <1>10, <2>3 DEF MintInv
    <3>3. x # b BY <3>1
    <3> QED BY <1>1, <1>3, <1>4, <1>9, <3>1, <3>2, <3>3
  <2> QED BY <2>1, <2>2, <2>3 DEF OwnInv
<1>12. LiveInv'
  <2>1. SUFFICES ASSUME NEW a \in Save!Accounts, NEW x \in Save!RefsOf(account[a].refs)
                 PROVE  blob'[x] = account[a].provider
    BY <1>1 DEF LiveInv
  <2>2. blob[x] = account[a].provider /\ x \in Save!Blobs BY <1>10 DEF LiveInv, MintInv
  <2>3. x # b BY DEF OwnInv
  <2> QED BY <1>4, <2>2, <2>3
<1>13. Save!OrphansHaveACause'
  <2>1. SUFFICES ASSUME faults' = 0, ~overlapped, NEW x \in Save!Blobs, blob'[x] # "none"
                 PROVE  \/ \E a \in Save!Accounts : x \in Save!RefsOf(account[a].refs)
                        \/ \E e \in Desktops : x \in Save!RefsOf(form[e].ids) \union forgetting'[e]
    BY <1>1 DEF Save!OrphansHaveACause, Save!Live
  <2>2. x # b /\ blob'[x] = blob[x] BY <1>4, <1>5, <2>1
  <2>3. \/ \E a \in Save!Accounts : x \in Save!RefsOf(account[a].refs)
        \/ \E e \in Desktops : x \in Save!RefsOf(form[e].ids) \union forgetting[e]
    BY <1>5, <2>1, <2>2 DEF Save!OrphansHaveACause, Save!Live
  <2> QED BY <1>3, <2>2, <2>3
<1> QED BY <1>6, <1>7, <1>8, <1>11, <1>12, <1>13

\* So does the list read again.
LEMMA RefetchStep ==
  ASSUME SaveInv, NEW d \in Desktops, Save!Refetch(d)
  PROVE  SaveInv'
<1> USE DEF SaveInv
<1>1. /\ list' = [list EXCEPT ![d] = account]
      /\ UNCHANGED <<account, blob, minted, created, form, forgetting, faults, overlapped>>
  BY DEF Save!Refetch, Save!server
<1>2. /\ list' \in [Desktops -> [Save!Accounts -> Records]]
      /\ \A e \in Desktops, a \in Save!Accounts : list'[e][a] = list[e][a] \/ list'[e][a] = account[a]
  BY <1>1 DEF SaveTypeInv
<1>3. SaveTypeInv' BY <1>1, <1>2 DEF SaveTypeInv
<1>4. RowsInv' BY <1>1, <1>2 DEF RowsInv
<1>5. MintInv' BY <1>1, <1>2 DEF MintInv
<1>6. \A b : \A a \in Save!Accounts : Belongs(b, a)' => Belongs(b, a)
  BY <1>1, <1>2 DEF Belongs
<1>7. OwnInv' BY <1>1, <1>6 DEF OwnInv
<1>8. LiveInv' /\ Save!OrphansHaveACause'
  BY <1>1 DEF LiveInv, Save!OrphansHaveACause, Save!Live
<1> QED BY <1>3, <1>4, <1>5, <1>7, <1>8

\* Every step keeps the invariant.
LEMMA SaveStep == SaveInv /\ [Save!Next]_(Save!vars) => SaveInv'
<1> SUFFICES ASSUME SaveInv, [Save!Next]_(Save!vars) PROVE SaveInv' OBVIOUS
<1> USE DEF SaveInv
<1>1. ASSUME NEW d \in Desktops, Save!OpenAdd(d) PROVE SaveInv'
  <2> DEFINE g == [Save!Closed EXCEPT !.pc = "open"]
  <2>1. Save!Closed \in FormRecord /\ Sane(Save!Closed) /\ Save!Closed.id = 0 /\ Save!RefsOf(Save!Closed.ids) = {}
    BY NoneIsTyped, Empty DEF Save!Closed
  <2>2. /\ g \in FormRecord /\ g.id = 0 /\ g.ids = Save!NoRefs /\ g.pc = "open"
        /\ g.typed = Save!Blank /\ g.asked = {} /\ g.todo = {} /\ g.seen = Save!NoRefs /\ g.provider = "hostiq"
    BY <2>1 DEF Save!Closed, FormRecord
  <2>3. Save!Edits(d, g) /\ form[d].pc = "closed" BY <1>1 DEF Save!OpenAdd
  <2> HIDE DEF g
  <2>4. Sane(g) BY <2>2, Empty DEF Sane, Save!Blank
  <2>5. Save!RefsOf(form[d].ids) = {} BY <2>3, NothingWritten DEF SaveTypeInv, RowsInv
  <2>6. g.id <= created BY <2>2 DEF SaveTypeInv
  <2>7. Save!RefsOf(g.ids) = Save!RefsOf(form[d].ids) BY <2>2, <2>5, Empty
  <2>8. Save!RefsOf(g.ids) = {} BY <2>5, <2>7
  <2> QED BY <2>2, <2>3, <2>4, <2>6, <2>7, <2>8, EditsStep
<1>2. ASSUME NEW d \in Desktops, Save!CloseIfIdle(d) PROVE SaveInv'
  <2>1. /\ Save!Closed \in FormRecord /\ Sane(Save!Closed) /\ Save!Closed.id = 0 /\ Save!RefsOf(Save!Closed.ids) = {}
    BY NoneIsTyped, Empty DEF Save!Closed
  <2>2. Save!Edits(d, Save!Closed) /\ form[d].pc = "open" BY <1>2 DEF Save!CloseIfIdle
  <2>3. Save!RefsOf(form[d].ids) = {} BY <2>2, NothingWritten DEF SaveTypeInv, RowsInv
  <2>4. Save!Closed.id <= created BY <2>1 DEF SaveTypeInv
  <2> QED BY <2>1, <2>2, <2>3, <2>4, EditsStep
<1>3. ASSUME NEW d \in Desktops, Save!SaveAll(d) PROVE SaveInv'
  <2> DEFINE f == form[d]
             p == IF Save!Asked(f) = {} THEN "persist" ELSE "put"
             g == [f EXCEPT !.pc = p, !.asked = Save!Asked(f), !.todo = Save!Asked(f)]
  <2>1. f \in FormRecord /\ Sane(f) /\ f.id <= created BY DEF SaveTypeInv, RowsInv
  <2>2. Save!Edits(d, g) /\ f.pc = "open" /\ Save!Missing(f) = {} BY <1>3 DEF Save!SaveAll
  <2>3. /\ Save!Asked(f) \in SUBSET Save!SecretKeys /\ Save!Asked(f) \subseteq Save!RegistrarSecrets(f.provider)
        /\ f.id = 0 => Save!Asked(f) = Save!RegistrarSecrets(f.provider)
        /\ \A k \in Save!Asked(f) : f.typed[k] # "blank"
    BY <2>2, SecretsAreKeys DEF Save!Asked, Save!Missing
  <2> HIDE DEF f
  <2>4. /\ g.pc = p /\ g.asked = Save!Asked(f) /\ g.todo = Save!Asked(f) /\ g.id = f.id /\ g.ids = f.ids
        /\ g.seen = f.seen /\ g.provider = f.provider /\ g.typed = f.typed
        /\ g \in FormRecord
    BY <2>1, <2>3 DEF FormRecord
  <2>5. p \in {"persist", "put"} /\ (p = "put" => Save!Asked(f) # {}) /\ (p = "persist" => Save!Asked(f) = {})
    OBVIOUS
  <2>6. \A k \in Save!SecretKeys : f.ids[k] = Save!NoBlob BY <2>1, <2>2 DEF Sane
  <2> HIDE DEF g, p
  <2>7. Sane(g) BY <2>1, <2>3, <2>4, <2>5, <2>6 DEF Sane
  <2> QED BY <2>1, <2>2, <2>4, <2>7, EditsStep DEF f
<1>4. ASSUME NEW d \in Desktops, NEW k \in Save!SecretKeys, Save!Type(d, k) PROVE SaveInv'
  <2> DEFINE f == form[d]
             t == [f.typed EXCEPT ![k] = f.provider]
             g == [f EXCEPT !.typed = t]
  <2>1. f \in FormRecord /\ Sane(f) /\ f.id <= created BY DEF SaveTypeInv, RowsInv
  <2>2. f.pc = "open" /\ Save!Edits(d, [f EXCEPT !.typed[k] = f.provider])
    BY <1>4 DEF Save!Type
  <2>3. t \in [Save!SecretKeys -> Save!Providers \union {"blank"}] /\ \A h \in Save!SecretKeys : t[h] \in {f.typed[h], f.provider}
    BY <2>1 DEF FormRecord
  <2>4. [f EXCEPT !.typed[k] = f.provider] = g BY <2>1 DEF FormRecord
  <2> HIDE DEF f, t
  <2>5. /\ g.pc = f.pc /\ g.asked = f.asked /\ g.todo = f.todo /\ g.id = f.id /\ g.ids = f.ids
        /\ g.seen = f.seen /\ g.provider = f.provider /\ g.typed = t
        /\ g \in FormRecord
    BY <2>1, <2>3 DEF FormRecord
  <2> HIDE DEF g
  <2>6. Sane(g) BY <2>1, <2>2, <2>3, <2>5 DEF Sane
  <2> QED BY <2>1, <2>2, <2>4, <2>5, <2>6, EditsStep DEF f
<1>5. ASSUME NEW d \in Desktops, NEW p \in Save!Providers, Save!SwitchProvider(d, p) PROVE SaveInv'
  <2> DEFINE f == form[d]
             g == [f EXCEPT !.provider = p, !.typed = Save!Blank]
  <2>1. f \in FormRecord /\ Sane(f) /\ f.id <= created BY DEF SaveTypeInv, RowsInv
  <2>2. f.pc = "open" /\ f.id = 0 /\ Save!Edits(d, g) BY <1>5 DEF Save!SwitchProvider
  <2>3. Save!Blank \in [Save!SecretKeys -> Save!Providers \union {"blank"}] /\ \A h \in Save!SecretKeys : Save!Blank[h] = "blank"
    BY DEF Save!Blank
  <2>4. Save!RefsOf(f.ids) = {} BY <2>1, <2>2, NothingWritten
  <2> HIDE DEF f
  <2>5. /\ g.pc = f.pc /\ g.asked = f.asked /\ g.todo = f.todo /\ g.id = f.id /\ g.ids = f.ids
        /\ g.seen = f.seen /\ g.provider = p /\ g.typed = Save!Blank
        /\ g \in FormRecord
    BY <2>1, <2>3 DEF FormRecord
  <2> HIDE DEF g
  <2>6. Sane(g) BY <2>1, <2>2, <2>3, <2>5 DEF Sane
  <2> QED BY <2>1, <2>2, <2>4, <2>5, <2>6, EditsStep DEF f
<1>6. ASSUME NEW d \in Desktops, NEW a \in Save!Accounts, Save!OpenEdit(d, a) PROVE SaveInv'
  <2> DEFINE g == [Save!Closed EXCEPT !.pc = "open", !.id = a, !.seen = list[d][a].refs,
                                 !.provider = list[d][a].provider]
  <2>1. form[d].pc = "closed" /\ list[d][a] # Save!NoAccount /\ Save!Edits(d, g)
    BY <1>6 DEF Save!OpenEdit
  <2>2. /\ list[d][a] \in Records /\ Fits(list[d][a]) /\ list[d][a].provider \in Save!Providers
        /\ list[d][a].refs \in Refs
    BY <2>1 DEF SaveTypeInv, RowsInv, Fits, Records
  <2>3. a <= created /\ a \in 0..MaxAccounts /\ a # 0
    BY <2>1 DEF RowsInv, SaveTypeInv, Save!Accounts
  <2>4. Save!Closed \in FormRecord /\ Sane(Save!Closed) BY NoneIsTyped
  <2>5. /\ g \in FormRecord /\ g.id = a /\ g.ids = Save!NoRefs /\ g.pc = "open"
        /\ g.typed = Save!Blank /\ g.asked = {} /\ g.todo = {}
        /\ g.seen = list[d][a].refs /\ g.provider = list[d][a].provider
    BY <2>2, <2>3, <2>4 DEF Save!Closed, FormRecord
  <2> HIDE DEF g
  <2>6. Sane(g) BY <2>1, <2>2, <2>3, <2>5, Empty DEF Sane, Save!Blank, Fits
  <2>7. Save!RefsOf(form[d].ids) = {} BY <2>1, NothingWritten DEF SaveTypeInv, RowsInv
  <2> QED BY <2>1, <2>3, <2>5, <2>6, <2>7, Empty, EditsStep
<1>7. ASSUME NEW d \in Desktops, Save!PersistGone(d) PROVE SaveInv'
  <2>1. form[d] \in FormRecord /\ Sane(form[d]) BY DEF SaveTypeInv, RowsInv
  <2>2. /\ form' = [form EXCEPT ![d] = Save!Refused(form[d])] /\ overlapped' = TRUE
        /\ UNCHANGED <<account, blob, minted, created, list, forgetting, faults>>
    BY <1>7 DEF Save!PersistGone, Save!server, SaveTypeInv
  <2>3. overlapped' \in BOOLEAN /\ faults' \in Nat BY <2>2 DEF SaveTypeInv
  <2> QED BY <2>1, <2>2, <2>3, RefusedForm, FormEnds
<1>8. CASE UNCHANGED Save!vars
  <2>1. UNCHANGED <<account, blob, minted, created, list, form, forgetting, faults, overlapped>>
    BY <1>8 DEF Save!vars, Save!server
  <2>2. SaveTypeInv' BY <2>1 DEF SaveTypeInv
  <2>3. RowsInv' /\ MintInv' BY <2>1 DEF RowsInv, MintInv
  <2>4. OwnInv' BY <2>1 DEF OwnInv, Belongs
  <2>5. LiveInv' /\ Save!OrphansHaveACause'
    BY <2>1 DEF LiveInv, Save!OrphansHaveACause, Save!Live
  <2> QED BY <2>2, <2>3, <2>4, <2>5
<1> HIDE DEF SaveInv
<1> QED
  BY <1>1, <1>2, <1>3, <1>4, <1>5, <1>6, <1>7, <1>8,
     PutStep, PersistStep, DeleteStep, ForgetStep, RefetchStep
  DEF Save!Next

\* What the inductive invariant says of the properties that are checked.
LEMMA SaveKeeps ==
  SaveInv => Save!TypeOK /\ Save!NoDanglingReference /\ Save!SecretsFitTheProvider /\ Save!OrphansHaveACause
<1> SUFFICES ASSUME SaveInv
             PROVE  Save!TypeOK /\ Save!NoDanglingReference /\ Save!SecretsFitTheProvider /\ Save!OrphansHaveACause
  OBVIOUS
<1> USE DEF SaveInv
<1>1. Save!TypeOK
  <2>1. ASSUME NEW a \in Save!Accounts PROVE account[a].refs \in [Save!SecretKeys -> 0..minted]
    <3>1. account[a].refs \in Refs BY DEF SaveTypeInv, Records
    <3>2. ASSUME NEW k \in Save!SecretKeys PROVE account[a].refs[k] \in 0..minted
      <4>1. CASE account[a].refs[k] = Save!NoBlob BY <4>1 DEF Save!NoBlob, SaveTypeInv
      <4>2. CASE account[a].refs[k] # Save!NoBlob
        <5>1. account[a].refs[k] \in 1..minted BY <4>2, RefsOfIs DEF MintInv
        <5> QED BY <5>1 DEF SaveTypeInv
      <4> QED BY <4>1, <4>2
    <3> QED BY <3>1, <3>2 DEF Refs
  <2>2. \A d \in Desktops : form[d].pc \in {"closed", "open", "put", "persist"}
    BY DEF SaveTypeInv, FormRecord
  <2>3. \A d \in Desktops : forgetting[d] \subseteq Save!Blobs BY DEF SaveTypeInv
  <2>4. \A b \in Save!Blobs : blob[b] \in Save!Providers \union {"none"} BY DEF SaveTypeInv
  <2> QED BY <2>1, <2>2, <2>3, <2>4 DEF SaveTypeInv, Save!TypeOK
<1>2. ASSUME NEW a \in Save!Accounts, account[a] # Save!NoAccount
      PROVE  /\ account[a].provider \in Save!Providers
             /\ {k \in Save!SecretKeys : account[a].refs[k] # Save!NoBlob} = Save!RegistrarSecrets(account[a].provider)
  BY <1>2, SecretsAreKeys DEF RowsInv, Fits
<1>3. Save!SecretsFitTheProvider BY <1>2 DEF Save!SecretsFitTheProvider, LiveInv
<1>4. Save!NoDanglingReference
  <2>1. SUFFICES ASSUME NEW a \in Save!Accounts, NEW b \in Save!RefsOf(account[a].refs) PROVE blob[b] # "none"
    BY DEF Save!NoDanglingReference, Save!Live
  <2>2. account[a] # Save!NoAccount BY Empty
  <2> QED BY <1>2, <2>2 DEF LiveInv, Save!Providers
<1> QED BY <1>1, <1>3, <1>4
=============================================================================
