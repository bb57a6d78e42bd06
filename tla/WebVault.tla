----------------------------- MODULE WebVault -----------------------------
(***************************************************************************)
(* The vault key in a browser tab: unlocking it with the password, reading *)
(* stored secrets with it, and the ways it leaves the tab.                 *)
(*                                                                         *)
(* A key is an array the code zeroes in place, so everyone who still holds *)
(* it holds zeroes.  Arrays are numbered as they are made; bytes says whose *)
(* vault key is in each: a user's, "junk" (an account without a wrapper    *)
(* accepts any password) or "zero".  A reveal decrypts with a copy of its  *)
(* own, which it zeroes when it has the text and lets go of as it is when  *)
(* the decryption throws: copies holds what is left lying in such copies.  *)
(***************************************************************************)
EXTENDS Naturals, FiniteSets

CONSTANTS
    Users,      \* accounts that sign in to this tab, one after another
    Reveals,    \* RevealSecret components on the page
    MaxKeys     \* bound: key arrays made

NoArray == 0
Arrays  == 1..MaxKeys

VARIABLES
    user,       \* userId of the store, "nobody" when signed out
    session,    \* the account the cookie still opens
    wrapped,    \* accounts whose wrapper a desktop has stored
    vaultKey,   \* vaultKey of the store: an array or NoArray
    bytes, made,
    copies,     \* bytes of the copies a reveal has let go of without zeroing them
    idleTimer,  \* bumpVaultKeyActivity has armed the five minutes
    unlocking,  \* an unlock per RevealSecret; closing its modal does not stop it
    reveal      \* each RevealSecret

tab  == <<user, session, wrapped>>
keys == <<vaultKey, bytes, made, idleTimer>>
vars == <<tab, keys, copies, unlocking, reveal>>

NotUnlocking == [pc |-> "no", typed |-> "nobody", of |-> "nobody", wrapper |-> FALSE]
Covered      == [pc |-> "button", key |-> NoArray, text |-> "nobody"]

TypeOK ==
    /\ user \in Users \union {"nobody"} /\ session \in Users \union {"nobody"}
    /\ vaultKey \in 0..made /\ made \in 0..MaxKeys
    /\ \A a \in Arrays : bytes[a] \in Users \union {"junk", "zero"}
    /\ copies \subseteq Users \union {"junk"}
    /\ \A r \in Reveals : reveal[r].pc \in {"button", "modal", "loading", "text", "error"}

Init ==
    /\ user = "nobody" /\ session = "nobody" /\ wrapped \in SUBSET Users
    /\ vaultKey = NoArray /\ bytes = [a \in Arrays |-> "zero"] /\ made = 0 /\ copies = {}
    /\ idleTimer = FALSE
    /\ unlocking = [r \in Reveals |-> NotUnlocking]
    /\ reveal = [r \in Reveals |-> Covered]

SignIn(u) ==
    /\ user = "nobody" /\ user' = u /\ session' = u
    /\ UNCHANGED <<wrapped, keys, copies, unlocking, reveal>>

\* A desktop signs in and stores the wrapper of an account that had none.
Migrate(u) ==
    /\ u \notin wrapped /\ wrapped' = wrapped \union {u}
    /\ UNCHANGED <<user, session, keys, copies, unlocking, reveal>>

SessionEnds ==
    /\ session # "nobody" /\ session' = "nobody"
    /\ UNCHANGED <<user, wrapped, keys, copies, unlocking, reveal>>

\* MUTANT of Cleared: the array is let go of and not zeroed.
ClearedUnwiped(b) == b

\* clearVaultKey: zero the array first, then let go of it.
Cleared(b) == [a \in Arrays |-> IF a = vaultKey THEN "zero" ELSE b[a]]
ClearVaultKey ==
    /\ bytes' = Cleared(bytes) /\ vaultKey' = NoArray /\ UNCHANGED <<made, idleTimer>>

Lock == user # "nobody" /\ ClearVaultKey /\ UNCHANGED <<tab, copies, unlocking, reveal>>

\* The timer is armed again when a reveal starts, and a reveal ends within the
\* 30 seconds of its request: the five minutes never run out during one.
IdleTimeout ==
    /\ idleTimer /\ \A r \in Reveals : reveal[r].pc # "loading"
    /\ bytes' = Cleared(bytes) /\ vaultKey' = NoArray /\ idleTimer' = FALSE
    /\ UNCHANGED <<made, tab, copies, unlocking, reveal>>

\* handleLogout: clear() even when the request failed; the page goes, and with it
\* the components, but not the unlocks they have started.
Logout ==
    /\ user # "nobody" /\ user' = "nobody" /\ session' \in {session, "nobody"}
    /\ ClearVaultKey
    /\ reveal' = [r \in Reveals |-> Covered]
    /\ UNCHANGED <<wrapped, copies, unlocking>>

(***************************************************************************)
(* RevealSecret.                                                           *)
(***************************************************************************)
Click(r) ==
    /\ user # "nobody" /\ reveal[r].pc \in {"button", "error"}
    /\ IF vaultKey = NoArray
       THEN reveal' = [reveal EXCEPT ![r].pc = "modal"] /\ UNCHANGED idleTimer
       ELSE /\ reveal' = [reveal EXCEPT ![r] = [pc |-> "loading", key |-> vaultKey, text |-> "nobody"]]
            /\ idleTimer' = TRUE
    /\ UNCHANGED <<tab, vaultKey, bytes, made, copies, unlocking>>

\* The answer comes, with a blob that may be damaged; or the request fails.  The
\* array taken at the click is copied now, and only a decryption that succeeds
\* comes to the line that zeroes the copy.
Revealed(r) ==
    /\ reveal[r].pc = "loading"
    /\ \/ /\ reveal' = [reveal EXCEPT ![r] = [Covered EXCEPT !.pc = "error"]]
          /\ UNCHANGED copies
       \/ /\ session # "nobody" /\ bytes[reveal[r].key] = session
          /\ reveal' = [reveal EXCEPT ![r] = [Covered EXCEPT !.pc = "text", !.text = session]]
          /\ UNCHANGED copies
       \/ /\ session # "nobody"
          /\ reveal' = [reveal EXCEPT ![r] = [Covered EXCEPT !.pc = "error"]]
          /\ copies' = copies \union ({bytes[reveal[r].key]} \ {"zero"})
    /\ UNCHANGED <<tab, keys, unlocking>>

\* Thirty seconds, or the page is left.
Cover(r) ==
    /\ reveal[r].pc = "text" /\ reveal' = [reveal EXCEPT ![r] = Covered]
    /\ UNCHANGED <<tab, keys, copies, unlocking>>

(***************************************************************************)
(* UnlockModal.  "typed" is the account the password belongs to, "junk"    *)
(* when it is mistyped.                                                    *)
(***************************************************************************)
Unlock(r, p) ==
    /\ reveal[r].pc = "modal" /\ unlocking[r].pc = "no"
    /\ unlocking' = [unlocking EXCEPT ![r] = [NotUnlocking EXCEPT !.pc = "me", !.typed = p]]
    /\ UNCHANGED <<tab, keys, copies, reveal>>

Cancel(r) ==
    /\ reveal[r].pc = "modal" /\ reveal' = [reveal EXCEPT ![r] = Covered]
    /\ UNCHANGED <<tab, keys, copies, unlocking>>

\* GET /auth/me, then half a second and more of Argon2id.
Me(r) ==
    /\ unlocking[r].pc = "me"
    /\ unlocking' = [unlocking EXCEPT ![r] =
          IF session = "nobody" THEN NotUnlocking
          ELSE [@ EXCEPT !.pc = "derive", !.of = session, !.wrapper = session \in wrapped]]
    /\ UNCHANGED <<tab, keys, copies, reveal>>

\* unwrapVaultKey: a wrapper that does not open is an error and makes no key;
\* without a wrapper the derived key is taken as it is.
Opens(j)  == j.typed = j.of
KeyOf(j)  == IF Opens(j) THEN j.of ELSE "junk"

Unwrapped(r) ==
    /\ unlocking[r].pc = "derive" /\ (unlocking[r].wrapper => Opens(unlocking[r]))
    /\ made < MaxKeys /\ made' = made + 1
    /\ bytes' = [Cleared(bytes) EXCEPT ![made + 1] = KeyOf(unlocking[r])]
    /\ vaultKey' = made + 1 /\ idleTimer' = TRUE
    /\ unlocking' = [unlocking EXCEPT ![r] = NotUnlocking]
    /\ reveal' = IF reveal[r].pc = "modal" THEN [reveal EXCEPT ![r] = Covered] ELSE reveal
    /\ UNCHANGED <<tab, copies>>

Mismatch(r) ==
    /\ unlocking[r].pc = "derive" /\ unlocking[r].wrapper /\ ~Opens(unlocking[r])
    /\ unlocking' = [unlocking EXCEPT ![r] = NotUnlocking]
    /\ UNCHANGED <<tab, keys, copies, reveal>>

Next ==
    \/ SessionEnds \/ Lock \/ IdleTimeout \/ Logout
    \/ \E u \in Users : SignIn(u) \/ Migrate(u)
    \/ \E r \in Reveals :
          \/ Click(r) \/ Revealed(r) \/ Cover(r) \/ Cancel(r) \/ Me(r)
          \/ Unwrapped(r) \/ Mismatch(r)
          \/ \E p \in Users \union {"junk"} : Unlock(r, p)

Spec == Init /\ [][Next]_vars
-----------------------------------------------------------------------------
\* Whatever order unlocks, locks, timeouts and sign-outs come in, every array the
\* store has let go of is zeroed.  Not so the copies made outside it: one on which a
\* decryption throws stays as it is (copies), although auth.ts:39-40 says why a key
\* must not be merely let go of.
DroppedKeysAreZero == \A a \in Arrays : a # vaultKey => bytes[a] = "zero"

\* No key stays in the store without the five minutes running, not even one that
\* an unlock stores after the tab was locked or signed out.
KeyIsOnATimer == vaultKey # NoArray => idleTimer

\* A text on the screen was decrypted with the vault key of the account that is
\* signed in: a key zeroed or replaced while the blob was fetched shows an error.
TextIsTheUsersOwn == \A r \in Reveals : reveal[r].pc = "text" => reveal[r].text = user

\* The three of them: the promise of the vault in a browser tab.
VaultIsTheUsers == DroppedKeysAreZero /\ KeyIsOnATimer /\ TextIsTheUsersOwn
=============================================================================
