---------------------------- MODULE SecretSave ----------------------------
(***************************************************************************)
(* The secrets of registrar accounts, as the settings page of two desktops *)
(* saves, replaces and forgets them: every secret is a blob of its own and *)
(* the account refers to it, so each save is several requests.             *)
(***************************************************************************)
EXTENDS Naturals, FiniteSets

CONSTANTS
    Desktops,      \* each has one modal of the settings page open at a time
    MaxAccounts, MaxBlobs, MaxFaults   \* bounds

(***************************************************************************)
(* registrarProviders.ts and registrarCaps.ts: which secrets each kind of  *)
(* account has.  Any other name is an account kept by hand.                *)
(***************************************************************************)
Providers        == {"hostiq", "namecheap", "manual"}
HasApi(p)        == p \in {"hostiq", "namecheap"}
NeedsClientIp(p) == p = "namecheap"
SecretKeys       == {"apiKey", "apiSecret"}
RegistrarSecrets(p) == {k \in SecretKeys : HasApi(p) /\ (k = "apiSecret" => NeedsClientIp(p))}

NoBlob    == 0
Blobs     == 1..MaxBlobs
Accounts  == 1..MaxAccounts
NoRefs    == [k \in SecretKeys |-> NoBlob]
NoAccount == [provider |-> "none", refs |-> NoRefs]
Blank     == [k \in SecretKeys |-> "blank"]
Closed    == [pc |-> "closed", id |-> 0, seen |-> NoRefs, provider |-> "hostiq",
              typed |-> Blank, asked |-> {}, todo |-> {}, ids |-> NoRefs]

\* A secret is the provider it was typed for; a blob holds one or is "none".
VARIABLES
    account, blob,           \* the server
    minted, created,         \* blob ids and accounts made so far
    list,                    \* the accounts each desktop last fetched
    form,                    \* the modal of each desktop
    forgetting,              \* blobs of an account it has deleted
    faults,
    overlapped               \* a desktop acted on an account another had changed

server == <<account, blob>>
vars   == <<server, minted, created, list, form, forgetting, faults, overlapped>>

TypeOK ==
    /\ \A a \in Accounts : account[a].refs \in [SecretKeys -> 0..minted]
    /\ \A b \in Blobs : blob[b] \in Providers \union {"none"}
    /\ minted \in 0..MaxBlobs /\ created \in 0..MaxAccounts
    /\ \A d \in Desktops : /\ form[d].pc \in {"closed", "open", "put", "persist"}
                           /\ forgetting[d] \subseteq Blobs

Init ==
    /\ account = [a \in Accounts |-> NoAccount] /\ blob = [b \in Blobs |-> "none"]
    /\ minted = 0 /\ created = 0
    /\ list = [d \in Desktops |-> account] /\ form = [d \in Desktops |-> Closed]
    /\ forgetting = [d \in Desktops |-> {}]
    /\ faults = 0 /\ overlapped = FALSE

Refetch(d) ==
    /\ list[d] # account /\ list' = [list EXCEPT ![d] = account]
    /\ UNCHANGED <<server, minted, created, form, forgetting, faults, overlapped>>

Edits(d, f) ==
    /\ form' = [form EXCEPT ![d] = f]
    /\ UNCHANGED <<server, minted, created, list, forgetting, faults, overlapped>>

OpenAdd(d) == form[d].pc = "closed" /\ Edits(d, [Closed EXCEPT !.pc = "open"])

\* The modal keeps the row it was opened with.
OpenEdit(d, a) ==
    /\ form[d].pc = "closed" /\ list[d][a] # NoAccount
    /\ Edits(d, [Closed EXCEPT !.pc = "open", !.id = a, !.seen = list[d][a].refs,
                               !.provider = list[d][a].provider])

Type(d, k) ==
    /\ form[d].pc = "open" /\ form[d].typed[k] = "blank"
    /\ k \in RegistrarSecrets(form[d].provider)
    /\ Edits(d, [form[d] EXCEPT !.typed[k] = form[d].provider])

\* MUTANT of SwitchProvider: what was typed for one provider stays for the next.
SwitchProviderKeepingTyped(d, p) ==
    /\ form[d].pc = "open" /\ form[d].id = 0 /\ p # form[d].provider
    /\ Edits(d, [form[d] EXCEPT !.provider = p])

\* Only a new account may change its provider, not while saving, and what was
\* typed is dropped.
SwitchProvider(d, p) ==
    /\ form[d].pc = "open" /\ form[d].id = 0 /\ p # form[d].provider
    /\ Edits(d, [form[d] EXCEPT !.provider = p, !.typed = Blank])

CloseIfIdle(d) == form[d].pc = "open" /\ Edits(d, Closed)

\* handleAdd asks for every secret of the provider; handleSave only for those typed.
Asked(f) == IF f.id = 0 THEN RegistrarSecrets(f.provider)
            ELSE {k \in RegistrarSecrets(f.provider) : f.typed[k] # "blank"}

Missing(f) == {k \in Asked(f) : f.typed[k] = "blank"}

SaveAll(d) ==
    /\ form[d].pc = "open" /\ Missing(form[d]) = {}
    /\ Edits(d, [form[d] EXCEPT !.pc = IF Asked(form[d]) = {} THEN "persist" ELSE "put",
                                !.asked = Asked(form[d]), !.todo = Asked(form[d])])

\* The account is no longer what this desktop acts upon.
Overtaken(a, refs) == a # 0 /\ refs # account[a].refs

(***************************************************************************)
(* saveAll: the blobs first, in the order of the keys, under the id the    *)
(* account has or a new one; the account last.  An error, of a request or  *)
(* of its answer, leaves the form as it was typed.                         *)
(***************************************************************************)
FirstOf(keys) == IF "apiKey" \in keys THEN "apiKey" ELSE "apiSecret"

\* The ids of a failed save are dropped with it.
Refused(f) == [f EXCEPT !.pc = "open", !.asked = {}, !.todo = {}, !.ids = NoRefs]

BlobIdFor(f, k) == IF f.seen[k] # NoBlob THEN f.seen[k] ELSE minted + 1

Put(d) ==
    LET f == form[d]  k == FirstOf(f.todo)  b == BlobIdFor(f, k) IN
    /\ f.pc = "put" /\ b \in Blobs
    /\ minted' = IF b > minted THEN b ELSE minted
    /\ overlapped' = (overlapped \/ Overtaken(f.id, f.seen))
    /\ \/ /\ blob' = [blob EXCEPT ![b] = f.typed[k]]
          /\ form' = [form EXCEPT ![d].ids[k] = b, ![d].todo = @ \ {k},
                                  ![d].pc = IF f.todo = {k} THEN "persist" ELSE "put"]
          /\ UNCHANGED faults
       \/ /\ faults < MaxFaults /\ faults' = faults + 1
          /\ blob' \in {blob, [blob EXCEPT ![b] = f.typed[k]]}
          /\ form' = [form EXCEPT ![d] = Refused(f)]
    /\ UNCHANGED <<account, created, list, forgetting>>

\* The body names only the blobs just written; a key that is absent stays.
Patched(f) == [provider |-> f.provider,
               refs |-> [k \in SecretKeys |->
                           IF k \in f.asked THEN f.ids[k]
                           ELSE IF f.id = 0 THEN NoBlob ELSE account[f.id].refs[k]]]

TargetOf(f) == IF f.id = 0 THEN created + 1 ELSE f.id

Persist(d) ==
    LET f == form[d]  a == TargetOf(f)
        Stored == /\ account' = [account EXCEPT ![a] = Patched(f)]
                  /\ created' = IF f.id = 0 THEN a ELSE created
    IN
    /\ f.pc = "persist" /\ a \in Accounts /\ (f.id # 0 => account[a] # NoAccount)
    /\ \/ Stored /\ form' = [form EXCEPT ![d] = Closed] /\ UNCHANGED faults
       \/ /\ faults < MaxFaults /\ faults' = faults + 1
          /\ form' = [form EXCEPT ![d] = Refused(f)]
          /\ Stored \/ UNCHANGED <<account, created>>
    /\ overlapped' = (overlapped \/ Overtaken(f.id, f.seen))
    /\ UNCHANGED <<blob, minted, list, forgetting>>

\* PUT of an account that has been deleted.
PersistGone(d) ==
    /\ form[d].pc = "persist" /\ form[d].id # 0 /\ account[form[d].id] = NoAccount
    /\ overlapped' = TRUE
    /\ form' = [form EXCEPT ![d] = Refused(@)]
    /\ UNCHANGED <<server, minted, created, list, forgetting, faults>>

(***************************************************************************)
(* useDeleteRegistrarAccount: the account first, then the blobs the row on *)
(* the screen names; a blob that cannot be deleted is left and not said.   *)
(***************************************************************************)
RefsOf(refs) == {refs[k] : k \in SecretKeys} \ {NoBlob}

Delete(d, a) ==
    /\ form[d].pc = "closed" /\ forgetting[d] = {}
    /\ list[d][a] # NoAccount /\ account[a] # NoAccount
    /\ account' = [account EXCEPT ![a] = NoAccount]
    /\ overlapped' = (overlapped \/ Overtaken(a, list[d][a].refs))
    /\ \/ forgetting' = [forgetting EXCEPT ![d] = RefsOf(list[d][a].refs)] /\ UNCHANGED faults
       \/ faults < MaxFaults /\ faults' = faults + 1 /\ UNCHANGED forgetting
    /\ UNCHANGED <<blob, minted, created, list, form>>

ForgetSecretBlobs(d) ==
    \E b \in forgetting[d] :
       /\ forgetting' = [forgetting EXCEPT ![d] = @ \ {b}]
       /\ \/ blob' = [blob EXCEPT ![b] = "none"] /\ UNCHANGED faults
          \/ faults < MaxFaults /\ faults' = faults + 1 /\ UNCHANGED blob
       /\ UNCHANGED <<account, minted, created, list, form, overlapped>>

Next == \E d \in Desktops :
    \/ Refetch(d) \/ OpenAdd(d) \/ CloseIfIdle(d) \/ SaveAll(d)
    \/ Put(d) \/ Persist(d) \/ PersistGone(d) \/ ForgetSecretBlobs(d)
    \/ \E k \in SecretKeys : Type(d, k)
    \/ \E p \in Providers : SwitchProvider(d, p)
    \/ \E a \in Accounts : OpenEdit(d, a) \/ Delete(d, a)

Spec == Init /\ [][Next]_vars
-----------------------------------------------------------------------------
Live(b) == blob[b] # "none"

\* An account never names a blob that was not written or has been deleted,
\* whatever failed and however two desktops edit and delete it.
NoDanglingReference ==
    \A a \in Accounts : \A b \in RefsOf(account[a].refs) : Live(b)

\* The secrets of an account were typed for its provider, and it has exactly
\* those its provider needs.
SecretsFitTheProvider ==
    \A a \in Accounts : account[a] # NoAccount =>
       /\ {k \in SecretKeys : account[a].refs[k] # NoBlob} = RegistrarSecrets(account[a].provider)
       /\ \A b \in RefsOf(account[a].refs) : blob[b] = account[a].provider

\* A secret nobody refers to is left only by a request that failed or by a
\* desktop that acted on an outdated row.
OrphansHaveACause ==
    faults = 0 /\ ~overlapped =>
       \A b \in Blobs : Live(b) =>
          \/ \E a \in Accounts : b \in RefsOf(account[a].refs)
          \/ \E d \in Desktops : b \in RefsOf(form[d].ids) \union forgetting[d]
=============================================================================
