------------------------------ MODULE Account ------------------------------
(***************************************************************************)
(* One account: the server's record of it, and the desktops on which it is *)
(* registered, signed in to, recovered and given a new password or phrase. *)
(*                                                                         *)
(* A key is <<password, salt>> when Argon2id derives it, RandomKey when it *)
(* is drawn.  The password encrypts nothing: its key only wraps the vault  *)
(* key, the one every stored secret is encrypted with and which nothing    *)
(* ever changes.  An account older than the wrapper has the derived key of *)
(* its first password for its vault key.                                   *)
(***************************************************************************)
EXTENDS Integers, FiniteSets

CONSTANTS
    Desktops,   \* installed copies of the application, one keychain each
    Passwords,  \* what may be typed as a password
    MaxMint,    \* bound: salts and phrases drawn after the first
    MaxFaults   \* bound: requests or answers that are lost

NoKey     == <<"none", 0>>
RandomKey == <<"random", 0>>
Derived   == Passwords \X (0..MaxMint)
Keys      == Derived \union {RandomKey, NoKey}

NoWrapper == [key |-> NoKey, under |-> NoKey]
NoPhrase  == -1

(***************************************************************************)
(* hash: the key whose hash is auth_key_hash, with user.salt as its second *)
(* half; wrapper: wrapped_vault_key; recovery: the RecoveryBlob, the key   *)
(* in it, the phrase that opens it and the phrase whose proof it accepts.  *)
(***************************************************************************)
VARIABLES
    vaultKey, hash, wrapper, recovery, sessions,   \* the server
    keychain, page, shown, job,                    \* each desktop
    late,         \* a request whose caller has given up and the server has not
    paper,        \* the phrases the user has confirmed to have written down
    minted, faults,
    unseen,       \* some phrase was minted that no screen has shown to the end
    overtaken     \* a restore wrote over a phrase set since it read the record

server  == <<vaultKey, hash, wrapper, recovery, sessions>>
desktop == <<keychain, page, shown>>
ghosts  == <<paper, unseen, overtaken>>
vars    == <<server, desktop, job, late, ghosts, minted, faults>>

Pages == {"login", "register", "phrase", "newphrase", "recover", "lock", "home"}
Ops   == {"none", "register", "login", "change", "setup", "restore"}

Idle == [op |-> "none", pc |-> "idle", pw |-> "none", new |-> "none", salt |-> 0,
         mint |-> 0, phrase |-> NoPhrase, key |-> NoKey, under |-> NoKey, seen |-> NoPhrase]

TypeOK ==
    /\ {vaultKey, hash, wrapper.key, wrapper.under, recovery.key} \subseteq Keys
    /\ {recovery.phrase, recovery.proof} \subseteq NoPhrase..MaxMint /\ minted \in 0..MaxMint
    /\ sessions \subseteq Desktops
    /\ \A d \in Desktops :
          /\ keychain[d] \in Keys /\ page[d] \in Pages /\ shown[d] \in NoPhrase..MaxMint
          /\ \A j \in {job[d], late[d]} : j.op \in Ops /\ {j.key, j.under} \subseteq Keys
    /\ paper \subseteq 0..MaxMint /\ faults \in 0..MaxFaults

\* Phrase 0 and salt 0 are those of an account from before the wrapper, whose
\* recovery record has no proof (registered before migration 014).
Init ==
    /\ \/ /\ vaultKey = NoKey /\ hash = NoKey
          /\ recovery = [key |-> NoKey, phrase |-> NoPhrase, proof |-> NoPhrase]
          /\ paper = {}
       \/ \E p \in Passwords :
          /\ vaultKey = <<p, 0>> /\ hash = <<p, 0>>
          /\ recovery = [key |-> <<p, 0>>, phrase |-> 0, proof |-> NoPhrase]
          /\ paper = {0}
    /\ minted = 0 /\ wrapper = NoWrapper /\ sessions = {}
    /\ keychain = [d \in Desktops |-> NoKey] /\ page = [d \in Desktops |-> "login"]
    /\ shown = [d \in Desktops |-> NoPhrase] /\ job = [d \in Desktops |-> Idle]
    /\ late = [d \in Desktops |-> Idle]
    /\ faults = 0 /\ unseen = FALSE /\ overtaken = FALSE

(***************************************************************************)
(* The pages.  Each form has one request at a time (its button is disabled *)
(* while busy) and its fields are required.                                *)
(***************************************************************************)
Free(d) == job[d].op = "none"

\* App.tsx and the links of the pages without a session.
Visit(d) ==
    /\ Free(d) /\ page[d] \in {"login", "register", "recover"}
    /\ \E to \in {"login", "register", "recover"} \ {page[d]} :
          page' = [page EXCEPT ![d] = to]
    /\ UNCHANGED <<server, keychain, shown, job, late, ghosts, minted, faults>>

Start(d, j) ==
    /\ Free(d) /\ job' = [job EXCEPT ![d] = j]
    /\ UNCHANGED <<server, desktop, late, ghosts, faults>>

SubmitRegister(d, p) ==
    /\ page[d] = "register" /\ minted < MaxMint
    /\ minted' = minted + 1
    /\ Start(d, [Idle EXCEPT !.op = "register", !.pc = "send", !.new = p,
                             !.mint = minted + 1, !.phrase = minted + 1, !.key = RandomKey])

\* The login page, and the lock screen, which signs in again.
SubmitLogin(d, p) ==
    /\ page[d] \in {"login", "lock"} /\ UNCHANGED minted
    /\ Start(d, [Idle EXCEPT !.op = "login", !.pc = "start", !.pw = p])

SubmitRestore(d, f, p) ==
    /\ page[d] = "recover" /\ UNCHANGED minted
    /\ Start(d, [Idle EXCEPT !.op = "restore", !.pc = "start", !.phrase = f, !.new = p])

\* The new password is typed twice and the two must agree.
SubmitChange(d, p, q) ==
    /\ page[d] = "home" /\ UNCHANGED minted
    /\ Start(d, [Idle EXCEPT !.op = "change", !.pc = "start", !.pw = p, !.new = q])

SubmitSetup(d, p) ==
    /\ page[d] = "home" /\ UNCHANGED minted
    /\ Start(d, [Idle EXCEPT !.op = "setup", !.pc = "start", !.pw = p])

\* The 24 words are on the screen; four of them typed back close it.
SavePhrase(d) ==
    /\ page[d] \in {"phrase", "newphrase"}
    /\ paper' = paper \union {shown[d]}
    /\ page' = [page EXCEPT ![d] = IF @ = "newphrase" THEN "home" ELSE "login"]
    /\ shown' = [shown EXCEPT ![d] = NoPhrase]
    /\ UNCHANGED <<server, keychain, job, late, unseen, overtaken, minted, faults>>

\* The words live in the page's navigation state only; a closed window loses them.
AbandonPhrase(d) ==
    /\ page[d] \in {"phrase", "newphrase"}
    /\ unseen' = TRUE
    /\ page' = [page EXCEPT ![d] = "login"]
    /\ shown' = [shown EXCEPT ![d] = NoPhrase]
    /\ UNCHANGED <<server, keychain, job, late, paper, overtaken, minted, faults>>

Lock(d) ==
    /\ Free(d) /\ page[d] = "home"
    /\ page' = [page EXCEPT ![d] = "lock"]
    /\ UNCHANGED <<server, keychain, shown, job, late, ghosts, minted, faults>>

\* handleLogout clears the store whatever auth_logout answers; the key is
\* forgotten only after the server has answered.
Logout(d) ==
    /\ Free(d) /\ page[d] = "home"
    /\ page' = [page EXCEPT ![d] = "login"]
    /\ \/ /\ sessions' = sessions \ {d} /\ keychain' = [keychain EXCEPT ![d] = NoKey]
          /\ UNCHANGED faults
       \/ /\ faults < MaxFaults /\ faults' = faults + 1 /\ UNCHANGED <<sessions, keychain>>
    /\ UNCHANGED <<vaultKey, hash, wrapper, recovery, shown, job, late, ghosts, minted>>

(***************************************************************************)
(* The handlers of the server.  Each reads and checks before its first     *)
(* write, and other requests may commit between the two.                   *)
(***************************************************************************)
Typed(j) == <<j.pw, j.salt>>

Accepts(d, j) ==
    CASE j.op = "register" -> hash = NoKey
      [] j.op = "login"    -> hash = Typed(j)
      [] j.op = "restore"  -> recovery.proof # NoPhrase /\ recovery.proof = j.phrase
      [] OTHER             -> d \in sessions /\ hash = Typed(j)

\* What the handler has read when the check passes: login_finish answers with
\* the wrapper of the row it checked the password against.
Read(j) == IF j.op = "login"
           THEN [j EXCEPT !.pc = "verified", !.key = wrapper.key, !.under = wrapper.under]
           ELSE [j EXCEPT !.pc = "verified", !.seen = recovery.proof]

\* The derived key and the wrapper that change_password and recovery_finish
\* write come from the one new salt.
NewKey(j)     == <<j.new, j.mint>>
NewWrapper(j) == [key |-> j.key, under |-> NewKey(j)]

WriteRegister(j) ==
    /\ j.op = "register" /\ hash = NoKey
    /\ vaultKey' = j.key /\ hash' = NewKey(j) /\ wrapper' = NewWrapper(j)
    /\ recovery' = [key |-> j.key, phrase |-> j.phrase, proof |-> j.phrase]
    /\ UNCHANGED <<sessions, overtaken>>

WriteSession(d, j) ==
    /\ j.op = "login"
    /\ sessions' = sessions \union {d}
    /\ UNCHANGED <<vaultKey, hash, wrapper, recovery, overtaken>>

\* MUTANT of WriteChange: the wrapper stays under the old password.
WriteChangeKeepingWrapper(j) ==
    /\ j.op = "change"
    /\ hash' = NewKey(j)
    /\ UNCHANGED <<vaultKey, wrapper, recovery, sessions, overtaken>>

WriteChange(j) ==
    /\ j.op = "change"
    /\ hash' = NewKey(j) /\ wrapper' = NewWrapper(j)
    /\ UNCHANGED <<vaultKey, recovery, sessions, overtaken>>

\* MUTANT of WriteSetup: the proof of the old phrase stays in its column.
WriteSetupKeepingProof(j) ==
    /\ j.op = "setup"
    /\ recovery' = [recovery EXCEPT !.key = j.key, !.phrase = j.phrase]
    /\ UNCHANGED <<vaultKey, hash, wrapper, sessions, overtaken>>

WriteSetup(j) ==
    /\ j.op = "setup"
    /\ recovery' = [key |-> j.key, phrase |-> j.phrase, proof |-> j.phrase]
    /\ UNCHANGED <<vaultKey, hash, wrapper, sessions, overtaken>>

\* The blob is sealed again under the same phrase; the proof is not sent, so its
\* column is not written; every session ends.
WriteRestore(j) ==
    /\ j.op = "restore"
    /\ hash' = NewKey(j) /\ wrapper' = NewWrapper(j)
    /\ recovery' = [recovery EXCEPT !.key = j.key, !.phrase = j.phrase]
    /\ overtaken' = (overtaken \/ recovery.proof # j.seen)
    /\ sessions' = {}
    /\ UNCHANGED vaultKey

Write(d, j) ==
    \/ WriteRegister(j) \/ WriteSession(d, j) \/ WriteChange(j)
    \/ WriteSetup(j) \/ WriteRestore(j)

(***************************************************************************)
(* The commands.  A step of a job is one request or one local computation. *)
(***************************************************************************)
End(d) == job' = [job EXCEPT ![d] = Idle]

\* An error ends a command wherever it is; the form shows it and is free again.
Fail(d) == End(d) /\ UNCHANGED <<server, desktop, late, ghosts, minted, faults>>

Go(d, j) == job' = [job EXCEPT ![d] = j] /\ UNCHANGED <<server, desktop, late, ghosts, faults>>

\* auth_login, auth_change_password, auth_recovery_setup: POST /auth/login/start,
\* the last two after GET /auth/me, which needs a session.  An unknown address
\* gets a made-up salt.
ReadSalt(d) ==
    /\ job[d].op \in {"login", "change", "setup"} /\ job[d].pc = "start"
    /\ IF job[d].op # "login" /\ d \notin sessions
       THEN Fail(d)
       ELSE /\ UNCHANGED minted
            /\ Go(d, [job[d] EXCEPT !.salt = hash[2],
                                    !.pc = IF job[d].op = "login" THEN "send" ELSE "prepare"])

\* The key out of the keychain, a salt or a phrase drawn, both payloads computed.
Prepare(d) ==
    /\ job[d].pc = "prepare"
    /\ IF keychain[d] = NoKey
       THEN Fail(d)
       ELSE /\ minted < MaxMint /\ minted' = minted + 1
            /\ Go(d, [job[d] EXCEPT !.key = keychain[d], !.mint = minted + 1,
                                    !.phrase = minted + 1, !.pc = "send"])

\* POST /auth/recovery/start, and recovery_payload: a phrase that does not open
\* the blob is refused before anything is sent.
ReadBlob(d) ==
    /\ job[d].op = "restore" /\ job[d].pc = "start"
    /\ IF recovery.phrase # job[d].phrase
       THEN Fail(d)
       ELSE /\ minted < MaxMint /\ minted' = minted + 1
            /\ Go(d, [job[d] EXCEPT !.key = recovery.key, !.mint = minted + 1, !.pc = "send"])

Verify(d) ==
    /\ job[d].pc = "send"
    /\ IF Accepts(d, job[d])
       THEN UNCHANGED minted /\ Go(d, Read(job[d]))
       ELSE Fail(d)

Commit(d) ==
    /\ job[d].pc = "verified"
    /\ Write(d, job[d])
    /\ job' = [job EXCEPT ![d].pc = IF job[d].op = "login" THEN "open" ELSE "answer"]
    /\ UNCHANGED <<desktop, late, paper, unseen, minted, faults>>

\* The address is unique: the later of two registrations ends in an error.
RegisterConflict(d) == job[d].pc = "verified" /\ job[d].op = "register" /\ hash # NoKey /\ Fail(d)

\* auth_login: the wrapper opens with the key of the typed password, or there is
\* none and the account is from before it.
OpenWrapper(d) ==
    /\ job[d].pc = "open" /\ job[d].under # NoKey
    /\ IF job[d].under = Typed(job[d])
       THEN UNCHANGED minted /\ Go(d, [job[d] EXCEPT !.pc = "answer"])
       ELSE Fail(d)

\* adopt_vault_key: POST /auth/vault-key/init writes the column only while it is
\* NULL.  The key of the typed password is the vault key, whatever comes back,
\* unless a 409 is followed by a wrapper this password does not open.
Adopting(d) == job[d].pc = "open" /\ job[d].under = NoKey

Adopt(d) ==
    /\ Adopting(d) /\ d \in sessions /\ wrapper = NoWrapper
    /\ wrapper' = [key |-> Typed(job[d]), under |-> Typed(job[d])]
    /\ job' = [job EXCEPT ![d].pc = "answer", ![d].key = Typed(job[d])]
    /\ UNCHANGED <<vaultKey, hash, recovery, sessions, desktop, late, ghosts, minted, faults>>

AdoptConflict(d) ==
    /\ Adopting(d) /\ d \in sessions /\ wrapper # NoWrapper
    /\ IF wrapper.under = Typed(job[d])
       THEN UNCHANGED minted /\ Go(d, [job[d] EXCEPT !.pc = "answer", !.key = wrapper.key])
       ELSE Fail(d)

\* Any other answer, or none: the sign-in goes on with the key in hand.  The
\* session may have been ended by a recovery in the meantime (401).
AdoptUnpinned(d) ==
    /\ Adopting(d)
    /\ \/ d \notin sessions /\ UNCHANGED faults
       \/ faults < MaxFaults /\ faults' = faults + 1
    /\ job' = [job EXCEPT ![d].pc = "answer", ![d].key = Typed(job[d])]
    /\ UNCHANGED <<server, desktop, late, ghosts, minted>>

\* The answer reaches the command, which stores the key and returns to its page.
Settle(d) ==
    LET op == job[d].op IN
    /\ job[d].pc = "answer"
    /\ keychain' = [keychain EXCEPT ![d] =
                       IF op \in {"register", "login", "restore"} THEN job[d].key ELSE @]
    /\ page' = [page EXCEPT ![d] = CASE op = "register" -> "phrase"
                                     [] op = "setup"    -> "newphrase"
                                     [] op = "restore"  -> "login"
                                     [] OTHER           -> "home"]
    /\ shown' = [shown EXCEPT ![d] = IF op \in {"register", "setup"} THEN job[d].phrase ELSE @]
    /\ End(d)
    /\ UNCHANGED <<server, late, ghosts, minted, faults>>

(***************************************************************************)
(* Faults: a request or an answer is lost, or the caller gives up (30 s)   *)
(* on a request the server goes on with.                                   *)
(***************************************************************************)
Mints(j) == j.op \in {"register", "setup"}

Lose(d) ==
    /\ job[d].pc \in {"start", "send", "answer"} \union (IF job[d].op = "login" THEN {"verified"} ELSE {})
    /\ faults < MaxFaults /\ faults' = faults + 1
    /\ unseen' = (unseen \/ (job[d].pc = "answer" /\ Mints(job[d])))
    /\ End(d)
    /\ UNCHANGED <<server, desktop, late, paper, overtaken, minted>>

GiveUp(d) ==
    /\ job[d].pc \in {"send", "verified"} /\ job[d].op # "login" /\ late[d] = Idle
    /\ faults < MaxFaults /\ faults' = faults + 1
    /\ late' = [late EXCEPT ![d] = job[d]]
    /\ unseen' = (unseen \/ Mints(job[d]))
    /\ End(d)
    /\ UNCHANGED <<server, desktop, paper, overtaken, minted>>

FinishLate(d) ==
    /\ \/ /\ late[d].pc = "send" /\ Accepts(d, late[d])
          /\ late' = [late EXCEPT ![d] = Read(late[d])]
          /\ UNCHANGED <<server, overtaken>>
       \/ /\ late[d].pc = "send" /\ ~Accepts(d, late[d])
          /\ late' = [late EXCEPT ![d] = Idle]
          /\ UNCHANGED <<server, overtaken>>
       \/ /\ late[d].pc = "verified" /\ Write(d, late[d])
          /\ late' = [late EXCEPT ![d] = Idle]
    /\ UNCHANGED <<desktop, job, paper, unseen, minted, faults>>

User(d) ==
    \/ Visit(d) \/ SavePhrase(d) \/ AbandonPhrase(d) \/ Lock(d) \/ Logout(d)
    \/ \E p \in Passwords :
          \/ SubmitRegister(d, p) \/ SubmitLogin(d, p) \/ SubmitSetup(d, p)
          \/ \E q \in Passwords : SubmitChange(d, p, q)
          \/ \E f \in paper : SubmitRestore(d, f, p)

Work(d) ==
    \/ ReadSalt(d) \/ Prepare(d) \/ ReadBlob(d) \/ Verify(d) \/ Commit(d)
    \/ RegisterConflict(d) \/ OpenWrapper(d) \/ Adopt(d) \/ AdoptConflict(d)
    \/ AdoptUnpinned(d) \/ Settle(d)

Next == \E d \in Desktops : User(d) \/ Work(d) \/ Lose(d) \/ GiveUp(d) \/ FinishLate(d)

Spec == Init /\ [][Next]_vars
-----------------------------------------------------------------------------
\* The password that signs in opens the wrapper, and the vault key is in it: no
\* order of registrations, first sign-ins, password changes and recoveries on
\* several desktops puts the salt, the hash and the wrapper out of step.
WrapperFollowsThePassword ==
    wrapper # NoWrapper => wrapper = [key |-> vaultKey, under |-> hash]

\* While the server has no wrapper the typed password still derives the vault
\* key, so an account whose wrapper could not be pinned stays readable.
UnwrappedIsDerived == hash # NoKey /\ wrapper = NoWrapper => hash = vaultKey

\* What a desktop keeps in its keychain, and what a command is about to put
\* there, is the key the stored secrets are encrypted with.
KeychainHoldsTheVaultKey ==
    \A d \in Desktops :
       /\ keychain[d] \in {NoKey, vaultKey}
       /\ job[d].pc = "answer" /\ job[d].op \in {"register", "login", "restore"}
             => job[d].key = vaultKey

\* The recovery record opens with the phrase it asks a proof of, and holds the
\* vault key, except where a restore wrote its own phrase's blob over a phrase
\* set up after it had read the record.
RecoveryOpens ==
    /\ recovery.phrase # NoPhrase => recovery.key = vaultKey
    /\ recovery.proof # NoPhrase /\ ~overtaken => recovery.phrase = recovery.proof

\* The user holds the phrase that recovers the account, or it is on a screen or
\* on its way to one, unless the answer that carried it was lost or its screen
\* was left.
PhraseIsKnown ==
    recovery.proof # NoPhrase /\ ~unseen =>
       \/ recovery.proof \in paper
       \/ \E d \in Desktops :
             \/ shown[d] = recovery.proof
             \/ job[d].pc = "answer" /\ Mints(job[d]) /\ job[d].phrase = recovery.proof

\* The promise of the keys, and that of the phrases.
KeysFit == WrapperFollowsThePassword /\ UnwrappedIsDerived /\ KeychainHoldsTheVaultKey
RecoveryWorks == RecoveryOpens /\ PhraseIsKnown
=============================================================================
