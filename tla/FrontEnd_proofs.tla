-------------------------- MODULE FrontEnd_proofs ----------------------------
(***************************************************************************)
(* The invariants of the run of the front end, for every value of its      *)
(* constants. The steps of each part are proved about in Keys_proofs,      *)
(* Installs_proofs, Zones_proofs and Lists_proofs; those modules are       *)
(* instantiated here once each, with the variables of the run in the place *)
(* of theirs, and the invariant of the run is that of the part at work.    *)
(***************************************************************************)
EXTENDS MCFrontEnd, TLAPS

Keys == INSTANCE Keys_proofs WITH
    vaultKey <- v1, hash <- v6, wrapper <- v11, recovery <- v8, sessions <- v7,
    keychain <- v12, page <- v15, shown <- v5, job <- v9, late <- v10, paper <- v13,
    minted <- v3, faults <- v2, unseen <- v14, overtaken <- v4, user <- v5,
    session <- v2, wrapped <- v4, bytes <- v8, made <- v9, idleTimer <- v6,
    copies <- v10, unlocking <- v7, reveal <- v3, account <- v1, blob <- v4,
    created <- v7, list <- v8, form <- v10, forgetting <- v5, overlapped <- v6
Installs == INSTANCE Installs_proofs WITH
    hostKey <- v7, known <- v8, listening <- v10, events <- v9, asked <- v6,
    answer <- v1, seq <- v4, decision <- v3, exec <- v2, calls <- v5, user <- v5,
    workspace <- v9, run <- v4, gate <- v12, account <- v1, stored <- v8,
    queue <- v7, dismissed <- v6, record <- v3, faults <- v2, died <- v11,
    unsaved <- v13, unseen <- v14, crashed <- v10, panel <- v15, status <- v11,
    cached <- v12, row <- v1, open <- v3, form <- v10, save <- v13, fate <- v6,
    blind <- v5, replaced <- v14
Zones == INSTANCE Zones_proofs WITH
    server <- v5, row <- v1, seen <- v8, open <- v3, draft <- v4, attempted <- v12,
    pick <- v9, auto <- v11, following <- v6, upsets <- v2, excused <- v7,
    silent <- v10, zoneIn <- v7, record <- v3, run <- v4, banner <- v8, away <- v5,
    faults <- v2, due <- v6, gone <- v4, key <- v7, linked <- v1, zone <- v3,
    saved <- v10, delegated <- v5, plan <- v11, pc <- v8, step <- v6, touched <- v9,
    registrar <- v9, pushes <- v7, busy <- v14, answer <- v1, asking <- v5,
    justPushed <- v6, settled <- v8, registry <- v11, flight <- v10, since <- v13,
    noted <- v12
Lists == INSTANCE Lists_proofs WITH
    record <- v3, row <- v1, modal <- v9, put <- v5, upsets <- v2, theirs <- v8,
    mine <- v4, lost <- v7, text <- v8, revealed <- v9, wrong <- v14, draft <- v4,
    edit <- v12, failed <- v10, ways <- v6, refused <- v13, unasked <- v11,
    cache <- v7, read <- v10, tab <- v11, chip <- v8, tail <- v9, result <- v6,
    astray <- v4, now <- v6, cert <- v5, origin <- v3, facts <- v4, paid <- v2,
    last <- v1, actual <- v11, reading <- v10, sites <- v7, ask <- v4, bind <- v12,
    add <- v5, skipped <- v8, bound <- v13, elsewhere <- v9, carried <- v6,
    filter <- v8, focus <- v10, sel <- v7, dialog <- v11, assign <- v9, blind <- v5,
    narrowed <- v12, there <- v1, listed <- v8, single <- v3, batch <- v6,
    strays <- v5, visible <- v3, card <- v5, timer <- v6, loose <- v10, byHand <- v8,
    run <- v4, summary <- v9, doubled <- v2, retested <- v7

-----------------------------------------------------------------------------
(***************************************************************************)
(* Accounts: the keys of passwords, wrappers, keychains and recovery.      *)
(***************************************************************************)
AccInv == Keys!AccountInv /\ Keys!BoundInv

\* The invariant holds of the initial states.
LEMMA AccStarts == Acc!Init => AccInv
<1>1. Acc!Init => Keys!Acc!Init
    BY DEF Acc!NoKey, Acc!NoWrapper, Acc!NoPhrase, Acc!Idle, Acc!Init, Keys!Acc!NoKey,
        Keys!Acc!NoWrapper, Keys!Acc!NoPhrase, Keys!Acc!Idle, Keys!Acc!Init
<1> QED
    BY <1>1, Keys!InitCore, Keys!BoundInit, BoundsAreNumbers, NoneIsNoPassword DEF AccInv,
        Keys!PasswordsAreTyped

\* Every step keeps the invariant.
LEMMA AccGoes == AccInv /\ [Acc!Next]_(Acc!vars) => AccInv'
<1>1. Acc!Next => Keys!Acc!Next
    BY DEF Acc!NoKey, Acc!RandomKey, Acc!NoWrapper, Acc!NoPhrase, Acc!server,
        Acc!desktop, Acc!ghosts, Acc!Idle, Acc!Free, Acc!Visit, Acc!Start,
        Acc!SubmitRegister, Acc!SubmitLogin, Acc!SubmitRestore, Acc!SubmitChange,
        Acc!SubmitSetup, Acc!SavePhrase, Acc!AbandonPhrase, Acc!Lock, Acc!Logout,
        Acc!Typed, Acc!Accepts, Acc!Read, Acc!NewKey, Acc!NewWrapper,
        Acc!WriteRegister, Acc!WriteSession, Acc!WriteChange, Acc!WriteSetup,
        Acc!WriteRestore, Acc!Write, Acc!End, Acc!Fail, Acc!Go, Acc!ReadSalt,
        Acc!Prepare, Acc!ReadBlob, Acc!Verify, Acc!Commit, Acc!RegisterConflict,
        Acc!OpenWrapper, Acc!Adopting, Acc!Adopt, Acc!AdoptConflict,
        Acc!AdoptUnpinned, Acc!Settle, Acc!Mints, Acc!Lose, Acc!GiveUp,
        Acc!FinishLate, Acc!User, Acc!Work, Acc!Next, Keys!Acc!NoKey,
        Keys!Acc!RandomKey, Keys!Acc!NoWrapper, Keys!Acc!NoPhrase, Keys!Acc!server,
        Keys!Acc!desktop, Keys!Acc!ghosts, Keys!Acc!Idle, Keys!Acc!Free,
        Keys!Acc!Visit, Keys!Acc!Start, Keys!Acc!SubmitRegister, Keys!Acc!SubmitLogin,
        Keys!Acc!SubmitRestore, Keys!Acc!SubmitChange, Keys!Acc!SubmitSetup,
        Keys!Acc!SavePhrase, Keys!Acc!AbandonPhrase, Keys!Acc!Lock, Keys!Acc!Logout,
        Keys!Acc!Typed, Keys!Acc!Accepts, Keys!Acc!Read, Keys!Acc!NewKey,
        Keys!Acc!NewWrapper, Keys!Acc!WriteRegister, Keys!Acc!WriteSession,
        Keys!Acc!WriteChange, Keys!Acc!WriteSetup, Keys!Acc!WriteRestore,
        Keys!Acc!Write, Keys!Acc!End, Keys!Acc!Fail, Keys!Acc!Go, Keys!Acc!ReadSalt,
        Keys!Acc!Prepare, Keys!Acc!ReadBlob, Keys!Acc!Verify, Keys!Acc!Commit,
        Keys!Acc!RegisterConflict, Keys!Acc!OpenWrapper, Keys!Acc!Adopting,
        Keys!Acc!Adopt, Keys!Acc!AdoptConflict, Keys!Acc!AdoptUnpinned,
        Keys!Acc!Settle, Keys!Acc!Mints, Keys!Acc!Lose, Keys!Acc!GiveUp,
        Keys!Acc!FinishLate, Keys!Acc!User, Keys!Acc!Work, Keys!Acc!Next
<1>2. UNCHANGED Acc!vars => UNCHANGED Keys!Acc!vars
    BY DEF Acc!server, Acc!desktop, Acc!ghosts, Acc!vars, Keys!Acc!server,
        Keys!Acc!desktop, Keys!Acc!ghosts, Keys!Acc!vars
<1> QED
    BY <1>1, <1>2, Keys!AccountStep, Keys!BoundStep, BoundsAreNumbers,
        NoneIsNoPassword DEF AccInv, Keys!PasswordsAreTyped

\* The invariant gives the fit of the keys and of the recovery record.
LEMMA AccHolds == AccInv =>
    /\ Acc!TypeOK
    /\ Acc!KeysFit
    /\ Acc!RecoveryWorks
<1>1. Keys!Acc!TypeOK => Acc!TypeOK
    BY DEF Acc!NoKey, Acc!RandomKey, Acc!Derived, Acc!Keys, Acc!NoPhrase, Acc!Pages,
        Acc!Ops, Acc!TypeOK, Keys!Acc!NoKey, Keys!Acc!RandomKey, Keys!Acc!Derived,
        Keys!Acc!Keys, Keys!Acc!NoPhrase, Keys!Acc!Pages, Keys!Acc!Ops,
        Keys!Acc!TypeOK
<1>2. Keys!Acc!KeysFit => Acc!KeysFit
    BY DEF Acc!NoKey, Acc!NoWrapper, Acc!WrapperFollowsThePassword,
        Acc!UnwrappedIsDerived, Acc!KeychainHoldsTheVaultKey, Acc!KeysFit,
        Keys!Acc!NoKey, Keys!Acc!NoWrapper, Keys!Acc!WrapperFollowsThePassword,
        Keys!Acc!UnwrappedIsDerived, Keys!Acc!KeychainHoldsTheVaultKey,
        Keys!Acc!KeysFit
<1>3. Keys!Acc!RecoveryWorks => Acc!RecoveryWorks
    BY DEF Acc!NoPhrase, Acc!Mints, Acc!RecoveryOpens, Acc!PhraseIsKnown,
        Acc!RecoveryWorks, Keys!Acc!NoPhrase, Keys!Acc!Mints, Keys!Acc!RecoveryOpens,
        Keys!Acc!PhraseIsKnown, Keys!Acc!RecoveryWorks
<1> QED
    BY <1>1, <1>2, <1>3, Keys!KeysAreKept, Keys!RecoveryIsKept, Keys!AccountIsTyped,
        BoundsAreNumbers, NoneIsNoPassword DEF AccInv, Keys!PasswordsAreTyped

(***************************************************************************)
(* The key of the vault in the web page.                                   *)
(***************************************************************************)
VaultInv == Keys!VaultInv /\ Keys!ArrayInv /\ Keys!CopyInv

\* The invariant holds of the initial states.
LEMMA VaultStarts == Vault!Init => VaultInv
<1>1. Vault!Init => Keys!Vault!Init
    BY DEF Vault!NoArray, Vault!Arrays, Vault!NotUnlocking, Vault!Covered, Vault!Init,
        Keys!Vault!NoArray, Keys!Vault!Arrays, Keys!Vault!NotUnlocking,
        Keys!Vault!Covered, Keys!Vault!Init
<1> QED
    BY <1>1, Keys!VaultInit, Keys!ArrayInit, Keys!CopyInit, BoundsAreNumbers DEF VaultInv

\* Every step keeps the invariant.
LEMMA VaultGoes == VaultInv /\ [Vault!Next]_(Vault!vars) => VaultInv'
<1>1. Vault!Next => Keys!Vault!Next
    BY DEF Vault!NoArray, Vault!Arrays, Vault!tab, Vault!keys, Vault!NotUnlocking,
        Vault!Covered, Vault!SignIn, Vault!Migrate, Vault!SessionEnds, Vault!Cleared,
        Vault!ClearVaultKey, Vault!Lock, Vault!IdleTimeout, Vault!Logout, Vault!Click,
        Vault!Revealed, Vault!Cover, Vault!Unlock, Vault!Cancel, Vault!Me,
        Vault!Opens, Vault!KeyOf, Vault!Unwrapped, Vault!Mismatch, Vault!Next,
        Keys!Vault!NoArray, Keys!Vault!Arrays, Keys!Vault!tab,
        Keys!Vault!keys, Keys!Vault!NotUnlocking, Keys!Vault!Covered,
        Keys!Vault!SignIn, Keys!Vault!Migrate, Keys!Vault!SessionEnds,
        Keys!Vault!Cleared, Keys!Vault!ClearVaultKey, Keys!Vault!Lock,
        Keys!Vault!IdleTimeout, Keys!Vault!Logout, Keys!Vault!Click,
        Keys!Vault!Revealed, Keys!Vault!Cover, Keys!Vault!Unlock,
        Keys!Vault!Cancel, Keys!Vault!Me, Keys!Vault!Opens, Keys!Vault!KeyOf,
        Keys!Vault!Unwrapped, Keys!Vault!Mismatch, Keys!Vault!Next
<1>2. UNCHANGED Vault!vars => UNCHANGED Keys!Vault!vars
    BY DEF Vault!tab, Vault!keys, Vault!vars, Keys!Vault!tab, Keys!Vault!keys,
        Keys!Vault!vars
<1> QED
    BY <1>1, <1>2, Keys!VaultStep, Keys!ArrayStep, Keys!CopyStep, BoundsAreNumbers
    DEF VaultInv

\* The invariant gives that keys the store dropped are zeroed and texts are the user's.
LEMMA VaultHolds == VaultInv => Vault!TypeOK /\ Vault!VaultIsTheUsers
<1>1. Keys!Vault!TypeOK => Vault!TypeOK
    BY DEF Vault!Arrays, Vault!TypeOK, Keys!Vault!Arrays, Keys!Vault!TypeOK
<1>2. Keys!Vault!VaultIsTheUsers => Vault!VaultIsTheUsers
    BY DEF Vault!NoArray, Vault!Arrays, Vault!DroppedKeysAreZero, Vault!KeyIsOnATimer,
        Vault!TextIsTheUsersOwn, Vault!VaultIsTheUsers, Keys!Vault!NoArray,
        Keys!Vault!Arrays, Keys!Vault!DroppedKeysAreZero,
        Keys!Vault!KeyIsOnATimer, Keys!Vault!TextIsTheUsersOwn,
        Keys!Vault!VaultIsTheUsers
<1> QED
    BY <1>1, <1>2, Keys!VaultKeeps, BoundsAreNumbers DEF VaultInv

(***************************************************************************)
(* The secrets of registrar accounts.                                      *)
(***************************************************************************)
SaveInv == Keys!SaveInv

\* The invariant holds of the initial states.
LEMMA SaveStarts == Save!Init => SaveInv
<1>1. Save!Init => Keys!Save!Init
    BY DEF Save!SecretKeys, Save!NoBlob, Save!Blobs, Save!Accounts, Save!NoRefs,
        Save!NoAccount, Save!Blank, Save!Closed, Save!Init, Keys!Save!SecretKeys,
        Keys!Save!NoBlob, Keys!Save!Blobs, Keys!Save!Accounts, Keys!Save!NoRefs,
        Keys!Save!NoAccount, Keys!Save!Blank, Keys!Save!Closed, Keys!Save!Init
<1> QED
    BY <1>1, Keys!SaveInit, BoundsAreNumbers DEF SaveInv

\* Every step keeps the invariant.
LEMMA SaveGoes == SaveInv /\ [Save!Next]_(Save!vars) => SaveInv'
<1>1. Save!Next => Keys!Save!Next
    BY DEF Save!Providers, Save!HasApi, Save!NeedsClientIp, Save!SecretKeys,
        Save!RegistrarSecrets, Save!NoBlob, Save!Blobs, Save!Accounts, Save!NoRefs,
        Save!NoAccount, Save!Blank, Save!Closed, Save!server, Save!Refetch,
        Save!Edits, Save!OpenAdd, Save!OpenEdit, Save!Type, Save!SwitchProvider,
        Save!CloseIfIdle, Save!Asked, Save!Missing, Save!SaveAll, Save!Overtaken,
        Save!FirstOf, Save!Refused, Save!BlobIdFor, Save!Put, Save!Patched,
        Save!TargetOf, Save!Persist, Save!PersistGone, Save!RefsOf, Save!Delete,
        Save!ForgetSecretBlobs, Save!Next, Keys!Save!Providers, Keys!Save!HasApi,
        Keys!Save!NeedsClientIp, Keys!Save!SecretKeys, Keys!Save!RegistrarSecrets,
        Keys!Save!NoBlob, Keys!Save!Blobs, Keys!Save!Accounts, Keys!Save!NoRefs,
        Keys!Save!NoAccount, Keys!Save!Blank, Keys!Save!Closed, Keys!Save!server,
        Keys!Save!Refetch, Keys!Save!Edits, Keys!Save!OpenAdd, Keys!Save!OpenEdit,
        Keys!Save!Type, Keys!Save!SwitchProvider, Keys!Save!CloseIfIdle,
        Keys!Save!Asked, Keys!Save!Missing, Keys!Save!SaveAll,
        Keys!Save!Overtaken, Keys!Save!FirstOf, Keys!Save!Refused,
        Keys!Save!BlobIdFor, Keys!Save!Put, Keys!Save!Patched, Keys!Save!TargetOf,
        Keys!Save!Persist, Keys!Save!PersistGone, Keys!Save!RefsOf,
        Keys!Save!Delete, Keys!Save!ForgetSecretBlobs, Keys!Save!Next
<1>2. UNCHANGED Save!vars => UNCHANGED Keys!Save!vars
    BY DEF Save!server, Save!vars, Keys!Save!server, Keys!Save!vars
<1> QED
    BY <1>1, <1>2, Keys!SaveStep, BoundsAreNumbers DEF SaveInv

\* The invariant gives that no reference dangles and no blob is an orphan uncaused.
LEMMA SaveHolds == SaveInv =>
    /\ Save!TypeOK
    /\ Save!NoDanglingReference
    /\ Save!SecretsFitTheProvider
    /\ Save!OrphansHaveACause
<1>1. Keys!Save!TypeOK => Save!TypeOK
    BY DEF Save!Providers, Save!SecretKeys, Save!Blobs, Save!Accounts, Save!TypeOK,
        Keys!Save!Providers, Keys!Save!SecretKeys, Keys!Save!Blobs,
        Keys!Save!Accounts, Keys!Save!TypeOK
<1>2. Keys!Save!NoDanglingReference => Save!NoDanglingReference
    BY DEF Save!SecretKeys, Save!NoBlob, Save!Accounts, Save!RefsOf, Save!Live,
        Save!NoDanglingReference, Keys!Save!SecretKeys, Keys!Save!NoBlob,
        Keys!Save!Accounts, Keys!Save!RefsOf, Keys!Save!Live,
        Keys!Save!NoDanglingReference
<1>3. Keys!Save!SecretsFitTheProvider => Save!SecretsFitTheProvider
    BY DEF Save!HasApi, Save!NeedsClientIp, Save!SecretKeys, Save!RegistrarSecrets,
        Save!NoBlob, Save!Accounts, Save!NoRefs, Save!NoAccount, Save!RefsOf,
        Save!SecretsFitTheProvider, Keys!Save!HasApi, Keys!Save!NeedsClientIp,
        Keys!Save!SecretKeys, Keys!Save!RegistrarSecrets, Keys!Save!NoBlob,
        Keys!Save!Accounts, Keys!Save!NoRefs, Keys!Save!NoAccount,
        Keys!Save!RefsOf, Keys!Save!SecretsFitTheProvider
<1>4. Keys!Save!OrphansHaveACause => Save!OrphansHaveACause
    BY DEF Save!SecretKeys, Save!NoBlob, Save!Blobs, Save!Accounts, Save!RefsOf,
        Save!Live, Save!OrphansHaveACause, Keys!Save!SecretKeys, Keys!Save!NoBlob,
        Keys!Save!Blobs, Keys!Save!Accounts, Keys!Save!RefsOf, Keys!Save!Live,
        Keys!Save!OrphansHaveACause
<1> QED
    BY <1>1, <1>2, <1>3, <1>4, Keys!SaveKeeps, BoundsAreNumbers DEF SaveInv

(***************************************************************************)
(* Bulk provisioning and its passwords.                                    *)
(***************************************************************************)
ProvInv == Installs!ProvisionInv /\ Installs!ReachInv

\* The invariant holds of the initial states.
LEMMA ProvStarts == Prov!Init => ProvInv
<1>1. Prov!Init => Installs!Prov!Init
    BY DEF Prov!Singles, Prov!Bulks, Prov!Runs, Prov!NoRun, Prov!Init,
        Installs!Prov!Singles, Installs!Prov!Bulks, Installs!Prov!Runs, Installs!Prov!NoRun,
        Installs!Prov!Init
<1> QED
    BY <1>1, Installs!ProvisionInit, Installs!ReachInit, BoundsAreNumbers DEF ProvInv

\* Every step keeps the invariant.
LEMMA ProvGoes == ProvInv /\ [Prov!Next]_(Prov!vars) => ProvInv'
<1>1. Prov!Next => Installs!Prov!Next
    BY DEF Prov!Singles, Prov!Bulks, Prov!Runs, Prov!NoRun, Prov!screen, Prov!fates,
        Prov!Fault, Prov!Made, Prov!Kind, Prov!Active, Prov!Claim, Prov!Release,
        Prov!InFlight, Prov!Step, Prov!RunSingle, Prov!AskBulk,
        Prov!AlreadyProvisioning, Prov!Declined, Prov!Blocks, Prov!ConfirmBulk,
        Prov!Provisioned, Prov!RunFailed, Prov!SaveSecret, Prov!Deliver,
        Prov!Dismiss, Prov!Unmount, Prov!Lock, Prov!Logout, Prov!SignIn, Prov!Crash,
        Prov!GrowStale, Prov!Next, Installs!Prov!Singles, Installs!Prov!Bulks,
        Installs!Prov!Runs, Installs!Prov!NoRun, Installs!Prov!screen,
        Installs!Prov!fates, Installs!Prov!Fault, Installs!Prov!Made,
        Installs!Prov!Kind, Installs!Prov!Active, Installs!Prov!Claim,
        Installs!Prov!Release, Installs!Prov!InFlight, Installs!Prov!Step,
        Installs!Prov!RunSingle, Installs!Prov!AskBulk,
        Installs!Prov!AlreadyProvisioning, Installs!Prov!Declined,
        Installs!Prov!Blocks, Installs!Prov!ConfirmBulk, Installs!Prov!Provisioned,
        Installs!Prov!RunFailed, Installs!Prov!SaveSecret, Installs!Prov!Deliver,
        Installs!Prov!Dismiss, Installs!Prov!Unmount, Installs!Prov!Lock,
        Installs!Prov!Logout, Installs!Prov!SignIn, Installs!Prov!Crash,
        Installs!Prov!GrowStale, Installs!Prov!Next, Prov!Cardinality,
        Installs!Prov!Cardinality, Prov!IsFiniteSet, Installs!Prov!IsFiniteSet
<1>2. UNCHANGED Prov!vars => UNCHANGED Installs!Prov!vars
    BY DEF Prov!screen, Prov!fates, Prov!vars, Installs!Prov!screen,
        Installs!Prov!fates, Installs!Prov!vars
<1> QED
    BY <1>1, <1>2, Installs!ProvisionStep, Installs!ReachStep, BoundsAreNumbers DEF ProvInv

\* The invariant gives the gates of runs and the delivery of passwords.
LEMMA ProvHolds == ProvInv =>
    /\ Prov!TypeOK
    /\ Prov!RunsAreGated
    /\ Prov!PasswordsAreDelivered
<1>1. Installs!Prov!TypeOK => Prov!TypeOK
    BY DEF Prov!Singles, Prov!Bulks, Prov!Runs, Prov!TypeOK, Installs!Prov!Singles,
        Installs!Prov!Bulks, Installs!Prov!Runs, Installs!Prov!TypeOK
<1>2. Installs!Prov!RunsAreGated => Prov!RunsAreGated
    BY DEF Prov!Singles, Prov!Bulks, Prov!Runs, Prov!Active, Prov!OnServer,
        Prov!OneRunPerDomain, Prov!GateFollowsTheRuns, Prov!RecordIsTrue,
        Prov!RunsAreGated, Installs!Prov!Singles, Installs!Prov!Bulks, Installs!Prov!Runs,
        Installs!Prov!Active, Installs!Prov!OnServer, Installs!Prov!OneRunPerDomain,
        Installs!Prov!GateFollowsTheRuns, Installs!Prov!RecordIsTrue,
        Installs!Prov!RunsAreGated, Prov!Cardinality, Installs!Prov!Cardinality,
        Prov!IsFiniteSet, Installs!Prov!IsFiniteSet
<1>3. Installs!Prov!PasswordsAreDelivered => Prov!PasswordsAreDelivered
    BY DEF Prov!Singles, Prov!Bulks, Prov!Runs, Prov!Made, Prov!Active, Prov!InFlight,
        Prov!PasswordIsStored, Prov!PasswordIsShown, Prov!PasswordsAreDelivered,
        Installs!Prov!Singles, Installs!Prov!Bulks, Installs!Prov!Runs, Installs!Prov!Made,
        Installs!Prov!Active, Installs!Prov!InFlight, Installs!Prov!PasswordIsStored,
        Installs!Prov!PasswordIsShown, Installs!Prov!PasswordsAreDelivered
<1> QED
    BY <1>1, <1>2, <1>3, Installs!ProvisionIsTyped, Installs!RunsAreKept,
        Installs!PasswordsAreKept, BoundsAreNumbers DEF ProvInv

(***************************************************************************)
(* The card of a domain: zone and nameservers.                             *)
(***************************************************************************)
CardInv == Zones!CardInv

\* The invariant holds of the initial states.
LEMMA CardStarts == Card!Init => CardInv
<1>1. Card!Init => Zones!Card!Init
    BY DEF Card!NoAccount, Card!Accounts, Card!NoZone, Card!Unread, Card!NoDraft,
        Card!Init, Zones!Card!NoAccount, Zones!Card!Accounts, Zones!Card!NoZone,
        Zones!Card!Unread, Zones!Card!NoDraft, Zones!Card!Init
<1> QED
    BY <1>1, Zones!CardInit, BoundsAreNumbers DEF CardInv

\* Every step keeps the invariant.
LEMMA CardGoes == CardInv /\ [Card!Next]_(Card!vars) => CardInv'
<1>1. Card!Next => Zones!Card!Next
    BY DEF Card!NoAccount, Card!Accounts, Card!NoZone, Card!Unread, Card!Zones,
        Card!AccountOf, Card!Named, Card!Texts, Card!binding, Card!saves, Card!ghosts,
        Card!NoDraft, Card!ZoneKnown, Card!ZoneShown, Card!Resolve, Card!Mirror,
        Card!AutoSaves, Card!Render, Card!OpenCard, Card!CloseCard, Card!Refetch,
        Card!Upset, Card!ZonesOf, Card!ReadZones, Card!PickAccount, Card!Picked,
        Card!DeliverPick, Card!DeliverAuto, Card!BulkAssign, Card!EditDraft,
        Card!RestoreDraft, Card!FromDetachedZone, Card!PushNs, Card!Next,
        Zones!Card!NoAccount, Zones!Card!Accounts, Zones!Card!NoZone,
        Zones!Card!Unread, Zones!Card!Zones, Zones!Card!AccountOf, Zones!Card!Named,
        Zones!Card!Texts, Zones!Card!binding, Zones!Card!saves, Zones!Card!ghosts,
        Zones!Card!NoDraft, Zones!Card!ZoneKnown, Zones!Card!ZoneShown,
        Zones!Card!Resolve, Zones!Card!Mirror, Zones!Card!AutoSaves,
        Zones!Card!Render, Zones!Card!OpenCard, Zones!Card!CloseCard,
        Zones!Card!Refetch, Zones!Card!Upset, Zones!Card!ZonesOf,
        Zones!Card!ReadZones, Zones!Card!PickAccount, Zones!Card!Picked,
        Zones!Card!DeliverPick, Zones!Card!DeliverAuto, Zones!Card!BulkAssign,
        Zones!Card!EditDraft, Zones!Card!RestoreDraft, Zones!Card!FromDetachedZone,
        Zones!Card!PushNs, Zones!Card!Next, Card!Cardinality, Zones!Card!Cardinality,
        Card!IsFiniteSet, Zones!Card!IsFiniteSet
<1>2. UNCHANGED Card!vars => UNCHANGED Zones!Card!vars
    BY DEF Card!binding, Card!saves, Card!ghosts, Card!vars, Zones!Card!binding,
        Zones!Card!saves, Zones!Card!ghosts, Zones!Card!vars
<1> QED
    BY <1>1, <1>2, Zones!CardStep, BoundsAreNumbers DEF CardInv

\* The invariant gives the zone of the account and the warning before a push.
LEMMA CardHolds == CardInv =>
    /\ Card!TypeOK
    /\ Card!ZoneIsInTheAccount
    /\ Card!ForeignPushIsWarned
<1>1. Zones!Card!TypeOK => Card!TypeOK
    BY DEF Card!NoAccount, Card!Accounts, Card!NoZone, Card!Unread, Card!Zones,
        Card!Texts, Card!TypeOK, Zones!Card!NoAccount, Zones!Card!Accounts,
        Zones!Card!NoZone, Zones!Card!Unread, Zones!Card!Zones, Zones!Card!Texts,
        Zones!Card!TypeOK
<1>2. Zones!Card!ZoneIsInTheAccount => Card!ZoneIsInTheAccount
    BY DEF Card!NoZone, Card!AccountOf, Card!ZoneIsInTheAccount, Zones!Card!NoZone,
        Zones!Card!AccountOf, Zones!Card!ZoneIsInTheAccount
<1>3. Zones!Card!ForeignPushIsWarned => Card!ForeignPushIsWarned
    BY DEF Card!ForeignPushIsWarned, Zones!Card!ForeignPushIsWarned
<1> QED
    BY <1>1, <1>2, <1>3, Zones!CardKeeps, BoundsAreNumbers DEF CardInv

(***************************************************************************)
(* Binding of a domain to a zone.                                          *)
(***************************************************************************)
BindInv == Zones!BindInv

\* The invariant holds of the initial states.
LEMMA BindStarts == Bind!Init => BindInv
<1>1. Bind!Init => Zones!Bind!Init
    BY DEF Bind!Accounts, Bind!Unbound, Bind!Modes, Bind!NoRun, Bind!Init,
        Zones!Bind!Accounts, Zones!Bind!Unbound, Zones!Bind!Modes, Zones!Bind!NoRun,
        Zones!Bind!Init
<1> QED
    BY <1>1, Zones!BindInit DEF BindInv

\* Every step keeps the invariant.
LEMMA BindGoes == BindInv /\ [Bind!Next]_(Bind!vars) => BindInv'
<1>1. Bind!Next => Zones!Bind!Next
    BY DEF Bind!Accounts, Bind!Unbound, Bind!Modes, Bind!data, Bind!NoRun, Bind!Fault,
        Bind!Pick, Bind!Refetch, Bind!Dismiss, Bind!LeavePage, Bind!Start, Bind!Match,
        Bind!ReadZones, Bind!Check, Bind!Written, Bind!Silent, Bind!Report,
        Bind!Failure, Bind!Next, Zones!Bind!Accounts, Zones!Bind!Unbound,
        Zones!Bind!Modes, Zones!Bind!data, Zones!Bind!NoRun, Zones!Bind!Fault,
        Zones!Bind!Pick, Zones!Bind!Refetch, Zones!Bind!Dismiss, Zones!Bind!LeavePage,
        Zones!Bind!Start, Zones!Bind!Match, Zones!Bind!ReadZones, Zones!Bind!Check,
        Zones!Bind!Written, Zones!Bind!Silent, Zones!Bind!Report, Zones!Bind!Failure,
        Zones!Bind!Next, Bind!Cardinality, Zones!Bind!Cardinality, Bind!IsFiniteSet,
        Zones!Bind!IsFiniteSet
<1>2. UNCHANGED Bind!vars => UNCHANGED Zones!Bind!vars
    BY DEF Bind!data, Bind!vars, Zones!Bind!data, Zones!Bind!vars
<1> QED
    BY <1>1, <1>2, Zones!BindStep DEF BindInv

\* The invariant gives unambiguous bindings and the notice that stays.
LEMMA BindHolds == BindInv =>
    /\ Bind!TypeOK
    /\ Bind!BoundIsUnambiguous
    /\ Bind!ManualNoticeStays
<1>1. Zones!Bind!TypeOK => Bind!TypeOK
    BY DEF Bind!Accounts, Bind!Unbound, Bind!Modes, Bind!TypeOK, Zones!Bind!Accounts,
        Zones!Bind!Unbound, Zones!Bind!Modes, Zones!Bind!TypeOK
<1>2. Zones!Bind!BoundIsUnambiguous => Bind!BoundIsUnambiguous
    BY DEF Bind!Modes, Bind!BoundIsUnambiguous, Zones!Bind!Modes,
        Zones!Bind!BoundIsUnambiguous
<1>3. Zones!Bind!ManualNoticeStays => Bind!ManualNoticeStays
    BY DEF Bind!ManualNoticeStays, Zones!Bind!ManualNoticeStays
<1> QED
    BY <1>1, <1>2, <1>3, Zones!BindKeeps DEF BindInv

(***************************************************************************)
(* The full setup.                                                         *)
(***************************************************************************)
SetupInv == Zones!SetupInv /\ Zones!WorldInv

\* The sites are finitely many in the instance too.
LEMMA FiniteForSetup == Zones!Setup!IsFiniteSet(Sites)
BY SitesAreFinite DEF Zones!Setup!IsFiniteSet, IsFiniteSet

\* The invariant holds of the initial states.
LEMMA SetupStarts == Setup!Init => SetupInv
<1>1. Setup!Init => Zones!Setup!Init
    BY DEF Setup!NoPlan, Setup!Waiting, Setup!Init, Zones!Setup!NoPlan,
        Zones!Setup!Waiting, Zones!Setup!Init, Setup!Cardinality,
        Zones!Setup!Cardinality, Setup!IsFiniteSet, Zones!Setup!IsFiniteSet
<1> QED
    BY <1>1, Zones!SetupInit, Zones!WorldInit DEF SetupInv

\* Every step keeps the invariant.
LEMMA SetupGoes == SetupInv /\ [Setup!Next]_(Setup!vars) => SetupInv'
<1>1. Setup!Next => Zones!Setup!Next
    BY DEF Setup!world, Setup!Registrars, Setup!NoPlan, Setup!Waiting, Setup!Off,
        Setup!Fault, Setup!Sound, Setup!SupportsNs, Setup!ZoneToggle, Setup!NsToggle,
        Setup!PlanFromForm, Setup!Forms, Setup!Run, Setup!AssignLinks,
        Setup!SyncLocalCache, Setup!Targets, Setup!InPc, Setup!Working, Setup!Stopped,
        Setup!SetStep, Setup!LoseKey, Setup!Next2, Setup!Begin, Setup!EnsureZone,
        Setup!SaveZoneId, Setup!NsPlan, Setup!PushNameservers, Setup!Report,
        Setup!GiveUp, Setup!Again, Setup!Next, Zones!Setup!world,
        Zones!Setup!Registrars, Zones!Setup!NoPlan, Zones!Setup!Waiting,
        Zones!Setup!Off, Zones!Setup!Fault, Zones!Setup!Sound,
        Zones!Setup!SupportsNs, Zones!Setup!ZoneToggle, Zones!Setup!NsToggle,
        Zones!Setup!PlanFromForm, Zones!Setup!Forms, Zones!Setup!Run,
        Zones!Setup!AssignLinks, Zones!Setup!SyncLocalCache, Zones!Setup!Targets,
        Zones!Setup!InPc, Zones!Setup!Working, Zones!Setup!Stopped,
        Zones!Setup!SetStep, Zones!Setup!LoseKey, Zones!Setup!Next2,
        Zones!Setup!Begin, Zones!Setup!EnsureZone, Zones!Setup!SaveZoneId,
        Zones!Setup!NsPlan, Zones!Setup!PushNameservers, Zones!Setup!Report,
        Zones!Setup!GiveUp, Zones!Setup!Again, Zones!Setup!Next, Setup!Cardinality,
        Zones!Setup!Cardinality, Setup!IsFiniteSet, Zones!Setup!IsFiniteSet
<1>2. UNCHANGED Setup!vars => UNCHANGED Zones!Setup!vars
    BY DEF Setup!world, Setup!vars, Zones!Setup!world, Zones!Setup!vars
<1> QED
    BY <1>1, <1>2, Zones!SetupStep, Zones!WorldStep DEF SetupInv

\* The invariant gives what the report of a full setup may say.
LEMMA SetupHolds == SetupInv =>
    /\ Setup!TypeOK
    /\ Setup!InfoMeansDone
    /\ Setup!ChangesAreReported
    /\ Setup!NotSetUpIsCounted
<1>1. Zones!Setup!TypeOK => Setup!TypeOK
    BY DEF Setup!Registrars, Setup!TypeOK, Zones!Setup!Registrars, Zones!Setup!TypeOK
<1>2. Zones!Setup!InfoMeansDone => Setup!InfoMeansDone
    BY DEF Setup!InPc, Setup!Stopped, Setup!Items, Setup!Aborted, Setup!AllDone,
        Setup!InfoMeansDone, Zones!Setup!InPc, Zones!Setup!Stopped,
        Zones!Setup!Items, Zones!Setup!Aborted, Zones!Setup!AllDone,
        Zones!Setup!InfoMeansDone
<1>3. Zones!Setup!ChangesAreReported => Setup!ChangesAreReported
    BY DEF Setup!InPc, Setup!Items, Setup!ChangesAreReported, Zones!Setup!InPc,
        Zones!Setup!Items, Zones!Setup!ChangesAreReported
<1>4. Zones!Setup!NotSetUpIsCounted => Setup!NotSetUpIsCounted
    BY DEF Setup!Targets, Setup!InPc, Setup!Stopped, Setup!Items, Setup!Aborted,
        Setup!NotSetUp, Setup!NotSetUpIsCounted, Zones!Setup!Targets,
        Zones!Setup!InPc, Zones!Setup!Stopped, Zones!Setup!Items,
        Zones!Setup!Aborted, Zones!Setup!NotSetUp, Zones!Setup!NotSetUpIsCounted,
        Setup!Cardinality, Zones!Setup!Cardinality, Setup!IsFiniteSet,
        Zones!Setup!IsFiniteSet
<1> QED
    BY <1>1, <1>2, <1>3, <1>4, Zones!SetupIsTyped, Zones!InfoIsDone,
        Zones!ReportIsWhole, Zones!NotSetUpIsTold, FiniteForSetup DEF SetupInv

(***************************************************************************)
(* The push of nameservers.                                                *)
(***************************************************************************)
PushInv == Zones!PushInv /\ Zones!PageInv

\* The invariant holds of the initial states.
LEMMA PushStarts == Push!Init => PushInv
<1>1. Push!Init => Zones!Push!Init
    BY DEF Push!Lists, Push!Init, Zones!Push!Lists, Zones!Push!Init
<1> QED
    BY <1>1, Zones!PushInit DEF PushInv

\* Every step keeps the invariant.
LEMMA PushGoes == PushInv /\ [Push!Next]_(Push!vars) => PushInv'
<1>1. Push!Next => Zones!Push!Next
    BY DEF Push!Lists, Push!cache, Push!notes, Push!world, Push!OpenCard,
        Push!CloseCard, Push!Start, Push!SetNameservers, Push!SetupPush, Push!Apply,
        Push!Propagate, Push!Fault, Push!NoteNsPush, Push!Settle, Push!EndRun,
        Push!AskRegistry, Push!RegistryAnswers, Push!ReadRegistry, Push!LoseAnswer,
        Push!Forget, Push!Next, Zones!Push!Lists, Zones!Push!cache, Zones!Push!notes,
        Zones!Push!world, Zones!Push!OpenCard, Zones!Push!CloseCard,
        Zones!Push!Start, Zones!Push!SetNameservers, Zones!Push!SetupPush,
        Zones!Push!Apply, Zones!Push!Propagate, Zones!Push!Fault,
        Zones!Push!NoteNsPush, Zones!Push!Settle, Zones!Push!EndRun,
        Zones!Push!AskRegistry, Zones!Push!RegistryAnswers, Zones!Push!ReadRegistry,
        Zones!Push!LoseAnswer, Zones!Push!Forget, Zones!Push!Next
<1>2. UNCHANGED Push!vars => UNCHANGED Zones!Push!vars
    BY DEF Push!cache, Push!notes, Push!world, Push!vars, Zones!Push!cache,
        Zones!Push!notes, Zones!Push!world, Zones!Push!vars
<1> QED
    BY <1>1, <1>2, Zones!PushStep DEF PushInv

\* The invariant gives the delegation shown and what was just sent.
LEMMA PushHolds == PushInv =>
    /\ Push!TypeOK
    /\ Push!DelegationIsCurrent
    /\ Push!JustSentIsTrue
<1>1. Zones!Push!TypeOK => Push!TypeOK
    BY DEF Push!Lists, Push!From, Push!TypeOK, Zones!Push!Lists, Zones!Push!From,
        Zones!Push!TypeOK
<1>2. Zones!Push!DelegationIsCurrent => Push!DelegationIsCurrent
    BY DEF Push!DelegationIsCurrent, Zones!Push!DelegationIsCurrent
<1>3. Zones!Push!JustSentIsTrue => Push!JustSentIsTrue
    BY DEF Push!JustSentIsTrue, Zones!Push!JustSentIsTrue
<1> QED
    BY <1>1, <1>2, <1>3, Zones!PushKeeps DEF PushInv

(***************************************************************************)
(* The question about a host key.                                          *)
(***************************************************************************)
HostInv == Installs!HostInv /\ Installs!ListenInv

\* The invariant holds of the initial states.
LEMMA HostStarts == Host!Init => HostInv
<1>1. Host!Init => Installs!Host!Init
    BY DEF Host!HostKeys, Host!Questions, Host!NoQuestion, Host!NoDecision, Host!NoCall,
        Host!Init, Installs!Host!HostKeys, Installs!Host!Questions,
        Installs!Host!NoQuestion,
        Installs!Host!NoDecision, Installs!Host!NoCall, Installs!Host!Init
<1> QED
    BY <1>1, Installs!HostInit, Installs!ListenInit DEF HostInv

\* Every step keeps the invariant.
LEMMA HostGoes == HostInv /\ [Host!Next]_(Host!vars) => HostInv'
<1>1. Host!Next => Installs!Host!Next
    BY DEF Host!Questions, Host!NoQuestion, Host!page, Host!NoDecision, Host!NoCall,
        Host!Settled, Host!Known, Host!Mismatch, Host!Emit, Host!Call, Host!Busy,
        Host!End, Host!Start, Host!Connect, Host!OtherConnect, Host!NewKey,
        Host!Waiting, Host!Publish, Host!HandleHostKeyPrompt, Host!Unheard,
        Host!Mount, Host!Settle, Host!Answer, Host!Save, Host!AwaitDecision,
        Host!GiveUp, Host!Decided, Host!Next, Installs!Host!Questions,
        Installs!Host!NoQuestion, Installs!Host!page, Installs!Host!NoDecision,
        Installs!Host!NoCall, Installs!Host!Settled, Installs!Host!Known,
        Installs!Host!Mismatch,
        Installs!Host!Emit, Installs!Host!Call, Installs!Host!Busy, Installs!Host!End,
        Installs!Host!Start, Installs!Host!Connect, Installs!Host!OtherConnect,
        Installs!Host!NewKey, Installs!Host!Waiting, Installs!Host!Publish,
        Installs!Host!HandleHostKeyPrompt, Installs!Host!Unheard, Installs!Host!Mount,
        Installs!Host!Settle, Installs!Host!Answer, Installs!Host!Save,
        Installs!Host!AwaitDecision, Installs!Host!GiveUp, Installs!Host!Decided,
        Installs!Host!Next
<1>2. UNCHANGED Host!vars => UNCHANGED Installs!Host!vars
    BY DEF Host!page, Host!vars, Installs!Host!page, Installs!Host!vars
<1> QED
    BY <1>1, <1>2, Installs!HostStep, Installs!ListenStep DEF HostInv

\* The invariant gives the rules of the question about a host key.
LEMMA HostHolds == HostInv => Host!TypeOK /\ Host!HostKeysAreAsked
<1>1. Installs!Host!TypeOK => Host!TypeOK
    BY DEF Host!HostKeys, Host!Questions, Host!NoQuestion, Host!Settled, Host!TypeOK,
        Installs!Host!HostKeys, Installs!Host!Questions, Installs!Host!NoQuestion,
        Installs!Host!Settled, Installs!Host!TypeOK
<1>2. Installs!Host!HostKeysAreAsked => Host!HostKeysAreAsked
    BY DEF Host!Questions, Host!Open, Host!OneQuestionPerKey, Host!AnswerIsNotOld,
        Host!RetryAfterSave, Host!SilenceHasACause, Host!HostKeysAreAsked,
        Installs!Host!Questions, Installs!Host!Open, Installs!Host!OneQuestionPerKey,
        Installs!Host!AnswerIsNotOld, Installs!Host!RetryAfterSave,
        Installs!Host!SilenceHasACause, Installs!Host!HostKeysAreAsked
<1> QED
    BY <1>1, <1>2, Installs!HostKeeps, Installs!HostIsTyped DEF HostInv

(***************************************************************************)
(* The forms of a server.                                                  *)
(***************************************************************************)
FormsInv == Lists!FormInv

\* The invariant holds of the initial states.
LEMMA FormsStarts == Forms!Init => FormsInv
<1>1. Forms!Init => Lists!Forms!Init
    BY DEF Forms!Forms, Forms!Nothing, Forms!Closed, Forms!Init, Lists!Forms!Forms,
        Lists!Forms!Nothing, Lists!Forms!Closed, Lists!Forms!Init
<1> QED
    BY <1>1, Lists!FormInit, BoundsAreNumbers DEF FormsInv

\* Every step keeps the invariant.
LEMMA FormsGoes == FormsInv /\ [Forms!Next]_(Forms!vars) => FormsInv'
<1>1. Forms!Next => Lists!Forms!Next
    BY DEF Forms!Forms, Forms!Typed, Forms!Nothing, Forms!Closed, Forms!Upset,
        Forms!Saving, Forms!Refetch, Forms!EditElsewhere, Forms!Open, Forms!Close,
        Forms!Type, Forms!Off, Forms!Unwaited, Forms!Save, Forms!CloseOnSuccess,
        Forms!Delivered, Forms!Failed, Forms!Leave, Forms!Next, Lists!Forms!Forms,
        Lists!Forms!Typed, Lists!Forms!Nothing, Lists!Forms!Closed,
        Lists!Forms!Upset, Lists!Forms!Saving, Lists!Forms!Refetch,
        Lists!Forms!EditElsewhere, Lists!Forms!Open, Lists!Forms!Close,
        Lists!Forms!Type, Lists!Forms!Off, Lists!Forms!Unwaited, Lists!Forms!Save,
        Lists!Forms!CloseOnSuccess, Lists!Forms!Delivered, Lists!Forms!Failed,
        Lists!Forms!Leave, Lists!Forms!Next, Forms!Cardinality,
        Lists!Forms!Cardinality, Forms!IsFiniteSet, Lists!Forms!IsFiniteSet
<1>2. UNCHANGED Forms!vars => UNCHANGED Lists!Forms!vars
    BY DEF Forms!vars, Lists!Forms!vars
<1> QED
    BY <1>1, <1>2, Lists!FormStep, BoundsAreNumbers DEF FormsInv

\* The invariant gives that edits of others and typed text survive, and whose error is shown.
LEMMA FormsHolds == FormsInv =>
    /\ Forms!TypeOK
    /\ Forms!EditsOfOthersSurvive
    /\ Forms!TypedTextSurvives
    /\ Forms!ErrorIsOwn
<1>1. Lists!Forms!TypeOK => Forms!TypeOK
    BY DEF Forms!Forms, Forms!Typed, Forms!Values, Forms!Nothing, Forms!TypeOK,
        Lists!Forms!Forms, Lists!Forms!Typed, Lists!Forms!Values,
        Lists!Forms!Nothing, Lists!Forms!TypeOK
<1>2. Lists!Forms!EditsOfOthersSurvive => Forms!EditsOfOthersSurvive
    BY DEF Forms!EditsOfOthersSurvive, Lists!Forms!EditsOfOthersSurvive
<1>3. Lists!Forms!TypedTextSurvives => Forms!TypedTextSurvives
    BY DEF Forms!TypedTextSurvives, Lists!Forms!TypedTextSurvives
<1>4. Lists!Forms!ErrorIsOwn => Forms!ErrorIsOwn
    BY DEF Forms!Nothing, Forms!ErrorIsOwn, Lists!Forms!Nothing, Lists!Forms!ErrorIsOwn
<1> QED
    BY <1>1, <1>2, <1>3, <1>4, Lists!FormKeeps, BoundsAreNumbers DEF FormsInv

(***************************************************************************)
(* The installation of FastPanel.                                          *)
(***************************************************************************)
PanelInv == Installs!PanelInv

\* The invariant holds of the initial states.
LEMMA PanelStarts == Panel!Init => PanelInv
<1>1. Panel!Init => Installs!Panel!Init
    BY DEF Panel!Runs, Panel!NoPanel, Panel!Panels, Panel!NoRun, Panel!NoForm,
        Panel!Init, Installs!Panel!Runs, Installs!Panel!NoPanel,
        Installs!Panel!Panels, Installs!Panel!NoRun, Installs!Panel!NoForm,
        Installs!Panel!Init
<1> QED
    BY <1>1, Installs!PanelInit, BoundsAreNumbers, PanelsCanBeReplaced DEF PanelInv

\* Every step keeps the invariant.
LEMMA PanelGoes == PanelInv /\ [Panel!Next]_(Panel!vars) => PanelInv'
<1>1. Panel!Next => Installs!Panel!Next
    BY DEF Panel!Runs, Panel!NoPanel, Panel!Panels, Panel!screen, Panel!NoRun,
        Panel!NoForm, Panel!Active, Panel!Fault, Panel!Fine, Panel!Step,
        Panel!Beside, Panel!Begin, Panel!Install, Panel!FollowLink, Panel!Decline,
        Panel!Confirm, Panel!Pull, Panel!ReadsOld, Panel!Check, Panel!NewPanel,
        Panel!Installed, Panel!StepsFailed, Panel!WriteBack, Panel!Deliver,
        Panel!Unwatched, Panel!Turn, Panel!Refetch, Panel!Dismiss, Panel!Unmount,
        Panel!Return, Panel!OpenConnect, Panel!CloseConnect, Panel!TypePassword,
        Panel!SaveConnect, Panel!Screen, Panel!PutBlob, Panel!PersistConnect,
        Panel!Next, Installs!Panel!Runs, Installs!Panel!NoPanel,
        Installs!Panel!Panels, Installs!Panel!screen, Installs!Panel!NoRun,
        Installs!Panel!NoForm, Installs!Panel!Active, Installs!Panel!Fault,
        Installs!Panel!Fine, Installs!Panel!Step, Installs!Panel!Beside,
        Installs!Panel!Begin, Installs!Panel!Install, Installs!Panel!FollowLink,
        Installs!Panel!Decline, Installs!Panel!Confirm, Installs!Panel!Pull,
        Installs!Panel!ReadsOld, Installs!Panel!Check, Installs!Panel!NewPanel,
        Installs!Panel!Installed, Installs!Panel!StepsFailed,
        Installs!Panel!WriteBack, Installs!Panel!Deliver, Installs!Panel!Unwatched,
        Installs!Panel!Turn, Installs!Panel!Refetch, Installs!Panel!Dismiss,
        Installs!Panel!Unmount, Installs!Panel!Return, Installs!Panel!OpenConnect,
        Installs!Panel!CloseConnect, Installs!Panel!TypePassword,
        Installs!Panel!SaveConnect, Installs!Panel!Screen, Installs!Panel!PutBlob,
        Installs!Panel!PersistConnect, Installs!Panel!Next, Panel!Cardinality,
        Installs!Panel!Cardinality, Panel!IsFiniteSet, Installs!Panel!IsFiniteSet
<1>2. UNCHANGED Panel!vars => UNCHANGED Installs!Panel!vars
    BY DEF Panel!screen, Panel!vars, Installs!Panel!screen, Installs!Panel!vars
<1> QED
    BY <1>1, <1>2, Installs!PanelStep, BoundsAreNumbers, PanelsCanBeReplaced DEF PanelInv

\* The invariant gives that the panel is not replaced and its password fits.
LEMMA PanelHolds == PanelInv =>
    /\ Panel!TypeOK
    /\ Panel!PanelIsNotReplaced
    /\ Panel!PasswordFits
    /\ Panel!CredsAreShown
<1>1. Installs!Panel!TypeOK => Panel!TypeOK
    BY DEF Panel!Runs, Panel!NoPanel, Panel!Panels, Panel!States, Panel!Fates,
        Panel!TypeOK, Installs!Panel!Runs, Installs!Panel!NoPanel,
        Installs!Panel!Panels, Installs!Panel!States, Installs!Panel!Fates,
        Installs!Panel!TypeOK
<1>2. Installs!Panel!PanelIsNotReplaced => Panel!PanelIsNotReplaced
    BY DEF Panel!PanelIsNotReplaced, Installs!Panel!PanelIsNotReplaced
<1>3. Installs!Panel!PasswordFits => Panel!PasswordFits
    BY DEF Panel!NoPanel, Panel!PasswordFits, Installs!Panel!NoPanel,
        Installs!Panel!PasswordFits
<1>4. Installs!Panel!CredsAreShown => Panel!CredsAreShown
    BY DEF Panel!Runs, Panel!MadeHere, Panel!InFlight, Panel!CredsAreShown,
        Installs!Panel!Runs, Installs!Panel!MadeHere, Installs!Panel!InFlight,
        Installs!Panel!CredsAreShown
<1> QED
    BY <1>1, <1>2, <1>3, <1>4, Installs!PanelKeeps, BoundsAreNumbers,
        PanelsCanBeReplaced DEF PanelInv

(***************************************************************************)
(* Facts and logs of a domain's server.                                    *)
(***************************************************************************)
FactsInv == Lists!FactInv

\* The invariant holds of the initial states.
LEMMA FactsStarts == Facts!Init => FactsInv
<1>1. Facts!Init => Lists!Facts!Init
    BY DEF Facts!NoMachine, Facts!Nothing, Facts!Idle, Facts!NoLines, Facts!NoResult,
        Facts!Blank, Facts!Init, Lists!Facts!NoMachine, Lists!Facts!Nothing,
        Lists!Facts!Idle, Lists!Facts!NoLines, Lists!Facts!NoResult,
        Lists!Facts!Blank, Lists!Facts!Init
<1> QED
    BY <1>1, Lists!FactInit, BoundsAreNumbers DEF FactsInv

\* Every step keeps the invariant.
LEMMA FactsGoes == FactsInv /\ [Facts!Next]_(Facts!vars) => FactsInv'
<1>1. Facts!Next => Lists!Facts!Next
    BY DEF Facts!NoMachine, Facts!Machines, Facts!Files, Facts!Nothing, Facts!store,
        Facts!logs, Facts!Idle, Facts!NoLines, Facts!NoResult, Facts!Blank,
        Facts!Upset, Facts!Show, Facts!Refetch, Facts!Move, Facts!PickServer,
        Facts!DeliverPick, Facts!Offered, Facts!StartRead, Facts!Resolve,
        Facts!FinishRead, Facts!Chips, Facts!SelectChip, Facts!Fail, Facts!ReadTail,
        Facts!TailRead, Facts!Next, Lists!Facts!NoMachine, Lists!Facts!Machines,
        Lists!Facts!Files, Lists!Facts!Nothing, Lists!Facts!store,
        Lists!Facts!logs, Lists!Facts!Idle, Lists!Facts!NoLines,
        Lists!Facts!NoResult, Lists!Facts!Blank, Lists!Facts!Upset,
        Lists!Facts!Show, Lists!Facts!Refetch, Lists!Facts!Move,
        Lists!Facts!PickServer, Lists!Facts!DeliverPick, Lists!Facts!Offered,
        Lists!Facts!StartRead, Lists!Facts!Resolve, Lists!Facts!FinishRead,
        Lists!Facts!Chips, Lists!Facts!SelectChip, Lists!Facts!Fail,
        Lists!Facts!ReadTail, Lists!Facts!TailRead, Lists!Facts!Next
<1>2. UNCHANGED Facts!vars => UNCHANGED Lists!Facts!vars
    BY DEF Facts!store, Facts!logs, Facts!vars, Lists!Facts!store, Lists!Facts!logs,
        Lists!Facts!vars
<1> QED
    BY <1>1, <1>2, Lists!FactStep, BoundsAreNumbers DEF FactsInv

\* The invariant gives that facts and lines are of the right machine and file.
LEMMA FactsHolds == FactsInv =>
    /\ Facts!TypeOK
    /\ Facts!FactsAreOfTheMachine
    /\ Facts!LinesAreOfTheFile
<1>1. Lists!Facts!TypeOK => Facts!TypeOK
    BY DEF Facts!NoMachine, Facts!Machines, Facts!Files, Facts!TypeOK,
        Lists!Facts!NoMachine, Lists!Facts!Machines, Lists!Facts!Files,
        Lists!Facts!TypeOK
<1>2. Lists!Facts!FactsAreOfTheMachine => Facts!FactsAreOfTheMachine
    BY DEF Facts!NoMachine, Facts!FactsAreOfTheMachine, Lists!Facts!NoMachine,
        Lists!Facts!FactsAreOfTheMachine
<1>3. Lists!Facts!LinesAreOfTheFile => Facts!LinesAreOfTheFile
    BY DEF Facts!NoMachine, Facts!Files, Facts!NoLines, Facts!Chips, Facts!Lines,
        Facts!LinesAreOfTheFile, Lists!Facts!NoMachine, Lists!Facts!Files,
        Lists!Facts!NoLines, Lists!Facts!Chips, Lists!Facts!Lines,
        Lists!Facts!LinesAreOfTheFile
<1> QED
    BY <1>1, <1>2, <1>3, Lists!FactKeeps, BoundsAreNumbers DEF FactsInv

(***************************************************************************)
(* The comparison of sites with a server.                                  *)
(***************************************************************************)
CmpInv == Lists!CmpInv

\* The invariant holds of the initial states.
LEMMA CmpStarts == Cmp!Init => CmpInv
<1>1. Cmp!Init => Lists!Cmp!Init
    BY DEF Cmp!Bindings, Cmp!NoAsk, Cmp!NoPost, Cmp!Unread, Cmp!Init, Lists!Cmp!Bindings,
        Lists!Cmp!NoAsk, Lists!Cmp!NoPost, Lists!Cmp!Unread, Lists!Cmp!Init
<1> QED
    BY <1>1, Lists!CmpInit, BoundsAreNumbers DEF CmpInv

\* Every step keeps the invariant.
LEMMA CmpGoes == CmpInv /\ [Cmp!Next]_(Cmp!vars) => CmpInv'
<1>1. Cmp!Next => Lists!Cmp!Next
    BY DEF Cmp!Bindings, Cmp!NoAsk, Cmp!NoPost, Cmp!Unread, Cmp!page, Cmp!Upset,
        Cmp!Shown, Cmp!NotBoundHere, Cmp!OnlyOnServer, Cmp!Moving, Cmp!Pending,
        Cmp!Forget, Cmp!Compare, Cmp!SitesRead, Cmp!Refetch, Cmp!EditElsewhere,
        Cmp!AskBind, Cmp!AskAdd, Cmp!Decline, Cmp!ConfirmBind, Cmp!ConfirmAdd,
        Cmp!BindDelivered, Cmp!AddDelivered, Cmp!Next, Lists!Cmp!Bindings,
        Lists!Cmp!NoAsk, Lists!Cmp!NoPost, Lists!Cmp!Unread, Lists!Cmp!page,
        Lists!Cmp!Upset, Lists!Cmp!Shown, Lists!Cmp!NotBoundHere, Lists!Cmp!OnlyOnServer,
        Lists!Cmp!Moving, Lists!Cmp!Pending, Lists!Cmp!Forget, Lists!Cmp!Compare,
        Lists!Cmp!SitesRead, Lists!Cmp!Refetch, Lists!Cmp!EditElsewhere,
        Lists!Cmp!AskBind, Lists!Cmp!AskAdd, Lists!Cmp!Decline, Lists!Cmp!ConfirmBind,
        Lists!Cmp!ConfirmAdd, Lists!Cmp!BindDelivered, Lists!Cmp!AddDelivered,
        Lists!Cmp!Next
<1>2. UNCHANGED Cmp!vars => UNCHANGED Lists!Cmp!vars
    BY DEF Cmp!page, Cmp!vars, Lists!Cmp!page, Lists!Cmp!vars
<1> QED
    BY <1>1, <1>2, Lists!CmpStep, BoundsAreNumbers DEF CmpInv

\* The invariant gives that sites bound are announced and sites skipped are not bound.
LEMMA CmpHolds == CmpInv =>
    /\ Cmp!TypeOK
    /\ Cmp!MoveIsAnnounced
    /\ Cmp!SkippedIsTrue
<1>1. Lists!Cmp!TypeOK => Cmp!TypeOK
    BY DEF Cmp!Bindings, Cmp!Unread, Cmp!TypeOK, Lists!Cmp!Bindings, Lists!Cmp!Unread,
        Lists!Cmp!TypeOK
<1>2. Lists!Cmp!MoveIsAnnounced => Cmp!MoveIsAnnounced
    BY DEF Cmp!MoveIsAnnounced, Lists!Cmp!MoveIsAnnounced
<1>3. Lists!Cmp!SkippedIsTrue => Cmp!SkippedIsTrue
    BY DEF Cmp!SkippedIsTrue, Lists!Cmp!SkippedIsTrue
<1> QED
    BY <1>1, <1>2, <1>3, Lists!CmpKeeps, BoundsAreNumbers DEF CmpInv

(***************************************************************************)
(* The list of domains and its bulk actions.                               *)
(***************************************************************************)
ListInv == Lists!ListInv

\* The invariant holds of the initial states.
LEMMA ListStarts == List!Init => ListInv
<1>1. List!Init => Lists!List!Init
    BY DEF List!Servers, List!Bindings, List!NoAsk, List!Init, Lists!List!Servers,
        Lists!List!Bindings, Lists!List!NoAsk, Lists!List!Init
<1> QED
    BY <1>1, Lists!ListInit, BoundsAreNumbers DEF ListInv

\* Every step keeps the invariant.
LEMMA ListGoes == ListInv /\ [List!Next]_(List!vars) => ListInv'
<1>1. List!Next => Lists!List!Next
    BY DEF List!Servers, List!Bindings, List!NoAsk, List!screen, List!Upset, List!Listed,
        List!Filtered, List!Hidden, List!Narrow, List!Refetch, List!EditElsewhere,
        List!Free, List!Filter, List!Focus, List!Select, List!Toggle, List!ToggleAll,
        List!Dialog, List!Moving, List!AskAssign, List!Answer, List!Assigned,
        List!Next, Lists!List!Servers, Lists!List!Bindings, Lists!List!NoAsk,
        Lists!List!screen, Lists!List!Upset, Lists!List!Listed, Lists!List!Filtered,
        Lists!List!Hidden, Lists!List!Narrow, Lists!List!Refetch,
        Lists!List!EditElsewhere, Lists!List!Free, Lists!List!Filter,
        Lists!List!Focus, Lists!List!Select, Lists!List!Toggle, Lists!List!ToggleAll,
        Lists!List!Dialog, Lists!List!Moving, Lists!List!AskAssign, Lists!List!Answer,
        Lists!List!Assigned, Lists!List!Next, List!Cardinality,
        Lists!List!Cardinality, List!IsFiniteSet, Lists!List!IsFiniteSet
<1>2. UNCHANGED List!vars => UNCHANGED Lists!List!vars
    BY DEF List!screen, List!vars, Lists!List!screen, Lists!List!vars
<1> QED
    BY <1>1, <1>2, Lists!ListStep, BoundsAreNumbers DEF ListInv

\* The invariant gives that moves are announced and hidden selections have a cause.
LEMMA ListHolds == ListInv =>
    /\ List!TypeOK
    /\ List!MoveIsAnnounced
    /\ List!HiddenHaveACause
<1>1. Lists!List!TypeOK => List!TypeOK
    BY DEF List!Servers, List!Bindings, List!TypeOK, Lists!List!Servers,
        Lists!List!Bindings, Lists!List!TypeOK
<1>2. Lists!List!MoveIsAnnounced => List!MoveIsAnnounced
    BY DEF List!MoveIsAnnounced, Lists!List!MoveIsAnnounced
<1>3. Lists!List!HiddenHaveACause => List!HiddenHaveACause
    BY DEF List!Listed, List!Filtered, List!Hidden, List!HiddenHaveACause,
        Lists!List!Listed, Lists!List!Filtered, Lists!List!Hidden,
        Lists!List!HiddenHaveACause
<1> QED
    BY <1>1, <1>2, <1>3, Lists!ListKeeps, BoundsAreNumbers DEF ListInv

(***************************************************************************)
(* The deletion of domains.                                                *)
(***************************************************************************)
DelInv == Lists!DelInv

\* The invariant holds of the initial states.
LEMMA DelStarts == Del!Init => DelInv
<1>1. Del!Init => Lists!Del!Init
    BY DEF Del!Batches, Del!NoBatch, Del!NoAsk, Del!Init, Lists!Del!Batches,
        Lists!Del!NoBatch, Lists!Del!NoAsk, Lists!Del!Init
<1> QED
    BY <1>1, Lists!DelInit, BoundsAreNumbers DEF DelInv

\* Every step keeps the invariant.
LEMMA DelGoes == DelInv /\ [Del!Next]_(Del!vars) => DelInv'
<1>1. Del!Next => Lists!Del!Next
    BY DEF Del!Batches, Del!NoBatch, Del!NoAsk, Del!Upset, Del!Refetch,
        Del!DeletedElsewhere, Del!Mark, Del!Toggle, Del!ToggleAll, Del!Ask,
        Del!AskSelected, Del!AskRow, Del!Decline, Del!ConfirmRow, Del!FreeBatch,
        Del!ConfirmSelected, Del!Request, Del!Done, Del!DoneRow, Del!Next,
        Lists!Del!Batches, Lists!Del!NoBatch, Lists!Del!NoAsk, Lists!Del!Upset,
        Lists!Del!Refetch, Lists!Del!DeletedElsewhere, Lists!Del!Mark, Lists!Del!Toggle,
        Lists!Del!ToggleAll, Lists!Del!Ask, Lists!Del!AskSelected, Lists!Del!AskRow,
        Lists!Del!Decline, Lists!Del!ConfirmRow, Lists!Del!FreeBatch,
        Lists!Del!ConfirmSelected, Lists!Del!Request, Lists!Del!Done, Lists!Del!DoneRow,
        Lists!Del!Next, Del!Cardinality, Lists!Del!Cardinality, Del!IsFiniteSet,
        Lists!Del!IsFiniteSet
<1>2. UNCHANGED Del!vars => UNCHANGED Lists!Del!vars
    BY DEF Del!vars, Lists!Del!vars
<1> QED
    BY <1>1, <1>2, Lists!DelStep, BoundsAreNumbers DEF DelInv

\* The invariant gives that rows of what is gone have a cause.
LEMMA DelHolds == DelInv => Del!TypeOK /\ Del!GhostsHaveACause
<1>1. Lists!Del!TypeOK => Del!TypeOK
    BY DEF Del!Batches, Del!TypeOK, Lists!Del!Batches, Lists!Del!TypeOK
<1>2. Lists!Del!GhostsHaveACause => Del!GhostsHaveACause
    BY DEF Del!Batches, Del!Deleting, Del!GhostsHaveACause, Lists!Del!Batches,
        Lists!Del!Deleting, Lists!Del!GhostsHaveACause
<1> QED
    BY <1>1, <1>2, Lists!DelKeeps, BoundsAreNumbers DEF DelInv

(***************************************************************************)
(* The badges of the rows.                                                 *)
(***************************************************************************)
RowsInv == Lists!RowInv

\* The invariant holds of the initial states.
LEMMA RowsStarts == Rows!Init => RowsInv
<1>1. Rows!Init => Lists!Rows!Init
    BY DEF Rows!Unknown, Rows!NoCert, Rows!NoFacts, Rows!Periods, Rows!NoPeriod,
        Rows!Aspects, Rows!InForce, Rows!Holds, Rows!Init, Lists!Rows!Unknown,
        Lists!Rows!NoCert, Lists!Rows!NoFacts, Lists!Rows!Periods,
        Lists!Rows!NoPeriod, Lists!Rows!Aspects, Lists!Rows!InForce,
        Lists!Rows!Holds, Lists!Rows!Init
<1> QED
    BY <1>1, Lists!RowInit, BoundsAreNumbers DEF RowsInv

\* Every step keeps the invariant.
LEMMA RowsGoes == RowsInv /\ [Rows!Next]_(Rows!vars) => RowsInv'
<1>1. Rows!Next => Lists!Rows!Next
    BY DEF Rows!SslExpiring, Rows!Unknown, Rows!NoCert, Rows!Until, Rows!Undated,
        Rows!ReadError, Rows!Aspects, Rows!InForce, Rows!Holds, Rows!Note, Rows!Tick,
        Rows!Replace, Rows!Told, Rows!Check, Rows!Next, Lists!Rows!SslExpiring,
        Lists!Rows!Unknown, Lists!Rows!NoCert, Lists!Rows!Until, Lists!Rows!Undated,
        Lists!Rows!ReadError, Lists!Rows!Aspects, Lists!Rows!InForce,
        Lists!Rows!Holds, Lists!Rows!Note, Lists!Rows!Tick, Lists!Rows!Replace,
        Lists!Rows!Told, Lists!Rows!Check, Lists!Rows!Next
<1>2. UNCHANGED Rows!vars => UNCHANGED Lists!Rows!vars
    BY DEF Rows!vars, Lists!Rows!vars
<1> QED
    BY <1>1, <1>2, Lists!RowStep, BoundsAreNumbers DEF RowsInv

\* The invariant gives the ground of the badges and the order of unknown facts.
LEMMA RowsHolds == RowsInv =>
    /\ Rows!TypeOK
    /\ Rows!BadgeHasGround
    /\ Rows!LastDayIsPaid
    /\ Rows!UnknownLast
<1>1. Lists!Rows!TypeOK => Rows!TypeOK
    BY DEF Rows!SslExpiring, Rows!Unknown, Rows!Moments, Rows!Periods, Rows!NoPeriod,
        Rows!Aspects, Rows!TypeOK, Lists!Rows!SslExpiring, Lists!Rows!Unknown,
        Lists!Rows!Moments, Lists!Rows!Periods, Lists!Rows!NoPeriod,
        Lists!Rows!Aspects, Lists!Rows!TypeOK
<1>2. Lists!Rows!BadgeHasGround => Rows!BadgeHasGround
    BY DEF Rows!FactsStale, Rows!SslExpiring, Rows!Unknown, Rows!InForce,
        Rows!IsFactsStale, Rows!SslState, Rows!Recently, Rows!BadgeHasGround,
        Lists!Rows!FactsStale, Lists!Rows!SslExpiring, Lists!Rows!Unknown,
        Lists!Rows!InForce, Lists!Rows!IsFactsStale, Lists!Rows!SslState,
        Lists!Rows!Recently, Lists!Rows!BadgeHasGround
<1>3. Lists!Rows!LastDayIsPaid => Rows!LastDayIsPaid
    BY DEF Rows!Day, Rows!ExpirySoon, Rows!Unknown, Rows!ExpiryTs, Rows!ExpiryState,
        Rows!LastDayIsPaid, Lists!Rows!Day, Lists!Rows!ExpirySoon, Lists!Rows!Unknown,
        Lists!Rows!ExpiryTs, Lists!Rows!ExpiryState, Lists!Rows!LastDayIsPaid
<1>4. Lists!Rows!UnknownLast => Rows!UnknownLast
    BY DEF Rows!Day, Rows!FactsStale, Rows!SslExpiring, Rows!ExpirySoon, Rows!Unknown,
        Rows!NoCert, Rows!Until, Rows!NoFacts, Rows!NoPeriod, Rows!Sorts,
        Rows!IsFactsStale, Rows!SslState, Rows!ExpiryTs, Rows!ExpiryState,
        Rows!SslRank, Rows!CompareUnknownLast, Rows!ThisRow, Rows!Others,
        Rows!Compare, Rows!Known, Rows!UnknownLast, Lists!Rows!Day,
        Lists!Rows!FactsStale, Lists!Rows!SslExpiring, Lists!Rows!ExpirySoon,
        Lists!Rows!Unknown, Lists!Rows!NoCert, Lists!Rows!Until, Lists!Rows!NoFacts,
        Lists!Rows!NoPeriod, Lists!Rows!Sorts, Lists!Rows!IsFactsStale,
        Lists!Rows!SslState, Lists!Rows!ExpiryTs, Lists!Rows!ExpiryState,
        Lists!Rows!SslRank, Lists!Rows!CompareUnknownLast, Lists!Rows!ThisRow,
        Lists!Rows!Others, Lists!Rows!Compare, Lists!Rows!Known,
        Lists!Rows!UnknownLast
<1> QED
    BY <1>1, <1>2, <1>3, <1>4, Lists!RowKeeps, BoundsAreNumbers DEF RowsInv

(***************************************************************************)
(* The date of expiry.                                                     *)
(***************************************************************************)
ExpInv == Lists!ExpInv

\* The invariant holds of the initial states.
LEMMA ExpStarts == Exp!Init => ExpInv
<1>1. Exp!Init => Lists!Exp!Init
    BY DEF Exp!NoEdit, Exp!Init, Lists!Exp!NoEdit, Lists!Exp!Init
<1> QED
    BY <1>1, Lists!ExpInit, BoundsAreNumbers DEF ExpInv

\* Every step keeps the invariant.
LEMMA ExpGoes == ExpInv /\ [Exp!Next]_(Exp!vars) => ExpInv'
<1>1. Exp!Next => Lists!Exp!Next
    BY DEF Exp!Dates, Exp!Stored, Exp!Texts, Exp!Typed, Exp!NoEdit, Exp!Upset,
        Exp!PendingEdit, Exp!Shown, Exp!IsError, Exp!EditElsewhere, Exp!Refetch,
        Exp!Open, Exp!Type, Exp!Stay, Exp!Close, Exp!Write, Exp!FinishEdit, Exp!Blur,
        Exp!Confirm, Exp!Escape, Exp!AfterSuccess, Exp!Accepted, Exp!Refused,
        Exp!Next, Lists!Exp!Dates, Lists!Exp!Stored, Lists!Exp!Texts,
        Lists!Exp!Typed, Lists!Exp!NoEdit, Lists!Exp!Upset, Lists!Exp!PendingEdit,
        Lists!Exp!Shown, Lists!Exp!IsError, Lists!Exp!EditElsewhere,
        Lists!Exp!Refetch, Lists!Exp!Open, Lists!Exp!Type, Lists!Exp!Stay,
        Lists!Exp!Close, Lists!Exp!Write, Lists!Exp!FinishEdit, Lists!Exp!Blur,
        Lists!Exp!Confirm, Lists!Exp!Escape, Lists!Exp!AfterSuccess,
        Lists!Exp!Accepted, Lists!Exp!Refused, Lists!Exp!Next
<1>2. UNCHANGED Exp!vars => UNCHANGED Lists!Exp!vars
    BY DEF Exp!vars, Lists!Exp!vars
<1> QED
    BY <1>1, <1>2, Lists!ExpStep, BoundsAreNumbers DEF ExpInv

\* The invariant gives when the typed date is shown ahead of the record.
LEMMA ExpHolds == ExpInv =>
    /\ Exp!TypeOK
    /\ Exp!OverlayIsYoung
    /\ Exp!RejectedIsNotShown
    /\ Exp!TypingIsSafe
    /\ Exp!BlockedIsExplained
<1>1. Lists!Exp!TypeOK => Exp!TypeOK
    BY DEF Exp!Dates, Exp!Stored, Exp!Texts, Exp!Drafts, Exp!TypeOK, Lists!Exp!Dates,
        Lists!Exp!Stored, Lists!Exp!Texts, Lists!Exp!Drafts, Lists!Exp!TypeOK
<1>2. Lists!Exp!OverlayIsYoung => Exp!OverlayIsYoung
    BY DEF Exp!PendingEdit, Exp!Shown, Exp!OverlayIsYoung, Lists!Exp!PendingEdit,
        Lists!Exp!Shown, Lists!Exp!OverlayIsYoung
<1>3. Lists!Exp!RejectedIsNotShown => Exp!RejectedIsNotShown
    BY DEF Exp!PendingEdit, Exp!Shown, Exp!RejectedIsNotShown, Lists!Exp!PendingEdit,
        Lists!Exp!Shown, Lists!Exp!RejectedIsNotShown
<1>4. Lists!Exp!TypingIsSafe => Exp!TypingIsSafe
    BY DEF Exp!TypingIsSafe, Lists!Exp!TypingIsSafe
<1>5. Lists!Exp!BlockedIsExplained => Exp!BlockedIsExplained
    BY DEF Exp!BlockedIsExplained, Lists!Exp!BlockedIsExplained
<1> QED
    BY <1>1, <1>2, <1>3, <1>4, <1>5, Lists!ExpKeeps, BoundsAreNumbers DEF ExpInv

(***************************************************************************)
(* The test of all tokens.                                                 *)
(***************************************************************************)
TokInv == Lists!TokInv

\* The invariant holds of the initial states.
LEMMA TokStarts == Tok!Init => TokInv
<1>1. Tok!Init => Lists!Tok!Init
    BY DEF Tok!NoRun, Tok!NoSummary, Tok!Fresh, Tok!Init, Lists!Tok!NoRun,
        Lists!Tok!NoSummary, Lists!Tok!Fresh, Lists!Tok!Init
<1> QED
    BY <1>1, Lists!TokInit, BoundsAreNumbers DEF TokInv

\* Every step keeps the invariant.
LEMMA TokGoes == TokInv /\ [Tok!Next]_(Tok!vars) => TokInv'
<1>1. Tok!Next => Lists!Tok!Next
    BY DEF Tok!NoRun, Tok!NoSummary, Tok!cards, Tok!InFlight, Tok!Double,
        Tok!BeginTest, Tok!EndTest, Tok!Test, Tok!Tested, Tok!Fade, Tok!TestAll,
        Tok!RunNext, Tok!RunTested, Tok!RunEnds, Tok!Search, Tok!Delete, Tok!Leave,
        Tok!Next, Lists!Tok!NoRun, Lists!Tok!NoSummary, Lists!Tok!cards,
        Lists!Tok!InFlight, Lists!Tok!Double, Lists!Tok!BeginTest, Lists!Tok!EndTest,
        Lists!Tok!Test, Lists!Tok!Tested, Lists!Tok!Fade, Lists!Tok!TestAll,
        Lists!Tok!RunNext, Lists!Tok!RunTested, Lists!Tok!RunEnds, Lists!Tok!Search,
        Lists!Tok!Delete, Lists!Tok!Leave, Lists!Tok!Next, Tok!Cardinality,
        Lists!Tok!Cardinality, Tok!IsFiniteSet, Lists!Tok!IsFiniteSet
<1>2. UNCHANGED Tok!vars => UNCHANGED Lists!Tok!vars
    BY DEF Tok!cards, Tok!vars, Lists!Tok!cards, Lists!Tok!vars
<1> QED
    BY <1>1, <1>2, Lists!TokStep, BoundsAreNumbers DEF TokInv

\* The invariant gives that cards and summary agree and settle.
LEMMA TokHolds == TokInv =>
    /\ Tok!TypeOK
    /\ Tok!SummaryAgreesWithCards
    /\ Tok!CardFollowsTheTest
    /\ Tok!CardsSettle
<1>1. Lists!Tok!TypeOK => Tok!TypeOK
    BY DEF Tok!NoRun, Tok!NoSummary, Tok!TypeOK, Lists!Tok!NoRun, Lists!Tok!NoSummary,
        Lists!Tok!TypeOK, Tok!Cardinality, Lists!Tok!Cardinality, Tok!IsFiniteSet,
        Lists!Tok!IsFiniteSet
<1>2. Lists!Tok!SummaryAgreesWithCards => Tok!SummaryAgreesWithCards
    BY DEF Tok!NoSummary, Tok!SummaryAgreesWithCards, Lists!Tok!NoSummary,
        Lists!Tok!SummaryAgreesWithCards
<1>3. Lists!Tok!CardFollowsTheTest => Tok!CardFollowsTheTest
    BY DEF Tok!InFlight, Tok!CardFollowsTheTest, Lists!Tok!InFlight,
        Lists!Tok!CardFollowsTheTest
<1>4. Lists!Tok!CardsSettle => Tok!CardsSettle
    BY DEF Tok!InFlight, Tok!CardsSettle, Lists!Tok!InFlight, Lists!Tok!CardsSettle
<1> QED
    BY <1>1, <1>2, <1>3, <1>4, Lists!TokKeeps, BoundsAreNumbers DEF TokInv

-----------------------------------------------------------------------------
(***************************************************************************)
(* The run: the steps of the part at work, and nothing else.               *)
(***************************************************************************)
PartsInv ==
    /\ part = "account" => AccInv
    /\ part = "vault" => VaultInv
    /\ part = "secrets" => SaveInv
    /\ part = "provision" => ProvInv
    /\ part = "card" => CardInv
    /\ part = "bind" => BindInv
    /\ part = "setup" => SetupInv
    /\ part = "push" => PushInv
    /\ part = "hostKey" => HostInv
    /\ part = "forms" => FormsInv
    /\ part = "panel" => PanelInv
    /\ part = "facts" => FactsInv
    /\ part = "sites" => CmpInv
    /\ part = "list" => ListInv
    /\ part = "delete" => DelInv
    /\ part = "rows" => RowsInv
    /\ part = "expiry" => ExpInv
    /\ part = "tokens" => TokInv

\* The run starts as the part at work starts.
LEMMA OneStarts ==
    Init =>
       /\ part = "account" => Acc!Init
       /\ part = "vault" => Vault!Init
       /\ part = "secrets" => Save!Init
       /\ part = "provision" => Prov!Init
       /\ part = "card" => Card!Init
       /\ part = "bind" => Bind!Init
       /\ part = "setup" => Setup!Init
       /\ part = "push" => Push!Init
       /\ part = "hostKey" => Host!Init
       /\ part = "forms" => Forms!Init
       /\ part = "panel" => Panel!Init
       /\ part = "facts" => Facts!Init
       /\ part = "sites" => Cmp!Init
       /\ part = "list" => List!Init
       /\ part = "delete" => Del!Init
       /\ part = "rows" => Rows!Init
       /\ part = "expiry" => Exp!Init
       /\ part = "tokens" => Tok!Init
BY DEF Init

\* A step of the run is a step of the part at work, and that stays the same.
LEMMA OneGoes ==
    [Next]_vars =>
       /\ part' = part
       /\ part = "account" => [Acc!Next]_(Acc!vars)
       /\ part = "vault" => [Vault!Next]_(Vault!vars)
       /\ part = "secrets" => [Save!Next]_(Save!vars)
       /\ part = "provision" => [Prov!Next]_(Prov!vars)
       /\ part = "card" => [Card!Next]_(Card!vars)
       /\ part = "bind" => [Bind!Next]_(Bind!vars)
       /\ part = "setup" => [Setup!Next]_(Setup!vars)
       /\ part = "push" => [Push!Next]_(Push!vars)
       /\ part = "hostKey" => [Host!Next]_(Host!vars)
       /\ part = "forms" => [Forms!Next]_(Forms!vars)
       /\ part = "panel" => [Panel!Next]_(Panel!vars)
       /\ part = "facts" => [Facts!Next]_(Facts!vars)
       /\ part = "sites" => [Cmp!Next]_(Cmp!vars)
       /\ part = "list" => [List!Next]_(List!vars)
       /\ part = "delete" => [Del!Next]_(Del!vars)
       /\ part = "rows" => [Rows!Next]_(Rows!vars)
       /\ part = "expiry" => [Exp!Next]_(Exp!vars)
       /\ part = "tokens" => [Tok!Next]_(Tok!vars)
<1> SUFFICES ASSUME [Next]_vars
              PROVE  /\ part' = part
                     /\ part = "account" => [Acc!Next]_(Acc!vars)
                     /\ part = "vault" => [Vault!Next]_(Vault!vars)
                     /\ part = "secrets" => [Save!Next]_(Save!vars)
                     /\ part = "provision" => [Prov!Next]_(Prov!vars)
                     /\ part = "card" => [Card!Next]_(Card!vars)
                     /\ part = "bind" => [Bind!Next]_(Bind!vars)
                     /\ part = "setup" => [Setup!Next]_(Setup!vars)
                     /\ part = "push" => [Push!Next]_(Push!vars)
                     /\ part = "hostKey" => [Host!Next]_(Host!vars)
                     /\ part = "forms" => [Forms!Next]_(Forms!vars)
                     /\ part = "panel" => [Panel!Next]_(Panel!vars)
                     /\ part = "facts" => [Facts!Next]_(Facts!vars)
                     /\ part = "sites" => [Cmp!Next]_(Cmp!vars)
                     /\ part = "list" => [List!Next]_(List!vars)
                     /\ part = "delete" => [Del!Next]_(Del!vars)
                     /\ part = "rows" => [Rows!Next]_(Rows!vars)
                     /\ part = "expiry" => [Exp!Next]_(Exp!vars)
                     /\ part = "tokens" => [Tok!Next]_(Tok!vars)
    OBVIOUS
<1>0. part' = part
    BY DEF Next, vars
<1>1. part = "account" => [Acc!Next]_(Acc!vars)
    BY DEF Next, vars, Acc!server, Acc!desktop, Acc!ghosts, Acc!vars
<1>2. part = "vault" => [Vault!Next]_(Vault!vars)
    BY DEF Next, vars, Vault!tab, Vault!keys, Vault!vars
<1>3. part = "secrets" => [Save!Next]_(Save!vars)
    BY DEF Next, vars, Save!server, Save!vars
<1>4. part = "provision" => [Prov!Next]_(Prov!vars)
    BY DEF Next, vars, Prov!screen, Prov!fates, Prov!vars
<1>5. part = "card" => [Card!Next]_(Card!vars)
    BY DEF Next, vars, Card!binding, Card!saves, Card!ghosts, Card!vars
<1>6. part = "bind" => [Bind!Next]_(Bind!vars)
    BY DEF Next, vars, Bind!data, Bind!vars
<1>7. part = "setup" => [Setup!Next]_(Setup!vars)
    BY DEF Next, vars, Setup!world, Setup!vars
<1>8. part = "push" => [Push!Next]_(Push!vars)
    BY DEF Next, vars, Push!cache, Push!notes, Push!world, Push!vars
<1>9. part = "hostKey" => [Host!Next]_(Host!vars)
    BY DEF Next, vars, Host!page, Host!vars
<1>10. part = "forms" => [Forms!Next]_(Forms!vars)
    BY DEF Next, vars, Forms!vars
<1>11. part = "panel" => [Panel!Next]_(Panel!vars)
    BY DEF Next, vars, Panel!screen, Panel!vars
<1>12. part = "facts" => [Facts!Next]_(Facts!vars)
    BY DEF Next, vars, Facts!store, Facts!logs, Facts!vars
<1>13. part = "sites" => [Cmp!Next]_(Cmp!vars)
    BY DEF Next, vars, Cmp!page, Cmp!vars
<1>14. part = "list" => [List!Next]_(List!vars)
    BY DEF Next, vars, List!screen, List!vars
<1>15. part = "delete" => [Del!Next]_(Del!vars)
    BY DEF Next, vars, Del!vars
<1>16. part = "rows" => [Rows!Next]_(Rows!vars)
    BY DEF Next, vars, Rows!vars
<1>17. part = "expiry" => [Exp!Next]_(Exp!vars)
    BY DEF Next, vars, Exp!vars
<1>18. part = "tokens" => [Tok!Next]_(Tok!vars)
    BY DEF Next, vars, Tok!cards, Tok!vars
<1> QED
    BY <1>0, <1>1, <1>2, <1>3, <1>4, <1>5, <1>6, <1>7, <1>8, <1>9, <1>10, <1>11,
       <1>12, <1>13, <1>14, <1>15, <1>16, <1>17, <1>18

\* The invariant of the run holds at first.
LEMMA PartsStart == Init => PartsInv
BY OneStarts,
   AccStarts, VaultStarts, SaveStarts, ProvStarts, CardStarts, BindStarts,
   SetupStarts, PushStarts, HostStarts, FormsStarts, PanelStarts, FactsStarts,
   CmpStarts, ListStarts, DelStarts, RowsStarts, ExpStarts, TokStarts DEF PartsInv

\* Every step of the run keeps it.
LEMMA PartsGo == PartsInv /\ [Next]_vars => PartsInv'
<1> SUFFICES ASSUME PartsInv, [Next]_vars PROVE PartsInv'
    OBVIOUS
<1>1. (part = "account" => AccInv)'
    BY OneGoes, AccGoes DEF PartsInv
<1>2. (part = "vault" => VaultInv)'
    BY OneGoes, VaultGoes DEF PartsInv
<1>3. (part = "secrets" => SaveInv)'
    BY OneGoes, SaveGoes DEF PartsInv
<1>4. (part = "provision" => ProvInv)'
    BY OneGoes, ProvGoes DEF PartsInv
<1>5. (part = "card" => CardInv)'
    BY OneGoes, CardGoes DEF PartsInv
<1>6. (part = "bind" => BindInv)'
    BY OneGoes, BindGoes DEF PartsInv
<1>7. (part = "setup" => SetupInv)'
    BY OneGoes, SetupGoes DEF PartsInv
<1>8. (part = "push" => PushInv)'
    BY OneGoes, PushGoes DEF PartsInv
<1>9. (part = "hostKey" => HostInv)'
    BY OneGoes, HostGoes DEF PartsInv
<1>10. (part = "forms" => FormsInv)'
    BY OneGoes, FormsGoes DEF PartsInv
<1>11. (part = "panel" => PanelInv)'
    BY OneGoes, PanelGoes DEF PartsInv
<1>12. (part = "facts" => FactsInv)'
    BY OneGoes, FactsGoes DEF PartsInv
<1>13. (part = "sites" => CmpInv)'
    BY OneGoes, CmpGoes DEF PartsInv
<1>14. (part = "list" => ListInv)'
    BY OneGoes, ListGoes DEF PartsInv
<1>15. (part = "delete" => DelInv)'
    BY OneGoes, DelGoes DEF PartsInv
<1>16. (part = "rows" => RowsInv)'
    BY OneGoes, RowsGoes DEF PartsInv
<1>17. (part = "expiry" => ExpInv)'
    BY OneGoes, ExpGoes DEF PartsInv
<1>18. (part = "tokens" => TokInv)'
    BY OneGoes, TokGoes DEF PartsInv
<1> QED
    BY <1>1, <1>2, <1>3, <1>4, <1>5, <1>6, <1>7, <1>8, <1>9, <1>10, <1>11, <1>12,
       <1>13, <1>14, <1>15, <1>16, <1>17, <1>18 DEF PartsInv

\* The invariant of the run.
LEMMA PartsInvariant == Spec => []PartsInv
BY PartsStart, PartsGo, PTL DEF Spec

\* Whichever part is at work, its variables are of their types: every record a
\* handler writes is one the next handler can read.
THEOREM PartsAreTyped == Spec => []TypeOK
<1>1. PartsInv => TypeOK
    BY AccHolds, VaultHolds, SaveHolds, ProvHolds, CardHolds, BindHolds, SetupHolds,
       PushHolds, HostHolds, FormsHolds, PanelHolds, FactsHolds, CmpHolds, ListHolds,
       DelHolds, RowsHolds, ExpHolds, TokHolds DEF PartsInv, TypeOK
<1> QED
    BY <1>1, PartsInvariant, PTL

\* On any number of desktops, with any passwords, faults and keys made, the password
\* that signs in opens the wrapper, and no keychain holds another key.
THEOREM KeysAlwaysFit == Spec => []KeysFit
<1>1. PartsInv => KeysFit
    BY AccHolds DEF PartsInv, KeysFit, Acc!KeysFit
<1> QED
    BY <1>1, PartsInvariant, PTL

\* The recovery record opens with a phrase that was shown, or is about to be, and
\* gives the vault key.
THEOREM RecoveryAlwaysWorks == Spec => []RecoveryWorks
<1>1. PartsInv => RecoveryWorks
    BY AccHolds DEF PartsInv, RecoveryWorks, Acc!RecoveryWorks
<1> QED
    BY <1>1, PartsInvariant, PTL

\* In whatever order unlocks, locks, failing decryptions and sign-outs of any users
\* end, a key array the store let go of is zeroed, a kept one is timed, and a text on
\* the screen is of who is signed in. A copy made for a decryption is not the store's.
THEOREM VaultIsAlwaysTheUsers == Spec => []VaultIsTheUsers
<1>1. PartsInv => VaultIsTheUsers
    BY VaultHolds DEF PartsInv, VaultIsTheUsers
<1> QED
    BY <1>1, PartsInvariant, PTL

\* For any number of desktops, blobs and accounts: no account names a blob that is
\* gone, it has the secrets its provider needs, and an orphan has a cause.
THEOREM SecretsAreAlwaysReferenced == Spec => []SecretsAreReferenced
<1>1. PartsInv => SecretsAreReferenced
    BY SaveHolds DEF PartsInv, SecretsAreReferenced
<1> QED
    BY <1>1, PartsInvariant, PTL

\* No domain is provisioned twice at once, however many there are, and the record
\* that refuses a repeated run is true.
THEOREM RunsAreAlwaysGated == Spec => []RunsAreGated
<1>1. PartsInv => RunsAreGated
    BY ProvHolds DEF PartsInv, RunsAreGated, Prov!RunsAreGated
<1> QED
    BY <1>1, PartsInvariant, PTL

\* Every FTP password a run brought back, of any domains and after any faults, is
\* stored unless its own save failed or nobody was signed in, and is shown, stored or
\* not, unless the workspace it was made in has been left.
THEOREM PasswordsAreAlwaysDelivered == Spec => []PasswordsAreDelivered
<1>1. PartsInv => PasswordsAreDelivered
    BY ProvHolds DEF PartsInv, PasswordsAreDelivered, Prov!PasswordsAreDelivered
<1> QED
    BY <1>1, PartsInvariant, PTL

\* A saved zone is of the account, bound by name only where one account has it, and
\* no foreign nameservers are pushed unwarned.
THEOREM ZonesAreAlwaysBound == Spec => []ZonesAreBound
<1>1. PartsInv => ZonesAreBound
    BY CardHolds, BindHolds DEF PartsInv, ZonesAreBound
<1> QED
    BY <1>1, PartsInvariant, PTL

\* For any sites: an unwarned report means all was done and changes are reported; and
\* for any pushes, however long the registry takes to follow them, the answer kept on
\* the card is one it has given since the last note, and "just sent" is of a push.
THEOREM SetupAlwaysTellsTheTruth == Spec => []SetupTellsTheTruth
<1>1. PartsInv => SetupTellsTheTruth
    BY SetupHolds, PushHolds DEF PartsInv, SetupTellsTheTruth
<1> QED
    BY <1>1, PartsInvariant, PTL

\* For any commands, calls and dialogs: one dialog per key, answers that count only
\* for commands before them, and no retry before the key is written.
THEOREM HostKeysAreAlwaysAsked == Spec => []HostKeysAreAsked
<1>1. PartsInv => HostKeysAreAsked
    BY HostHolds DEF PartsInv, HostKeysAreAsked, Host!HostKeysAreAsked
<1> QED
    BY <1>1, PartsInvariant, PTL

\* Saves of a form leave the fields they do not own; typed text is lost only to a save
\* under way when it was typed; an error is of the form it is shown in; and a date is
\* shown ahead of the record only until the row moves or when it moves back.
THEOREM FormsAlwaysKeepEdits == Spec => []FormsKeepEdits
<1>1. PartsInv => FormsKeepEdits
    BY FormsHolds, ExpHolds DEF PartsInv, FormsKeepEdits
<1> QED
    BY <1>1, PartsInvariant, PTL

\* For any number of panels made, saves and faults: a known panel is not installed
\* over and the password kept is its own, but for things begun side by side; and the
\* password made is shown, unless the installer gave none or the workspace was left by
\* signing out or by locking.
THEOREM PanelIsAlwaysOurs == Spec => []PanelIsOurs
<1>1. PartsInv => PanelIsOurs
    BY PanelHolds DEF PartsInv, PanelIsOurs
<1> QED
    BY <1>1, PartsInvariant, PTL

\* Facts and lines are of the machine and file they stand beside, but for the one read
\* and the lines a move overtook; and a badge is grounded in facts that are young
\* enough, as far as a read that may miss the date or the file could tell.
THEOREM FactsAreAlwaysCurrent == Spec => []FactsAreCurrent
<1>1. PartsInv => FactsAreCurrent
    BY FactsHolds, RowsHolds DEF PartsInv, FactsAreCurrent
<1> QED
    BY <1>1, PartsInvariant, PTL

\* For any domains: no bulk action moves one off its server unannounced, calls a
\* bound site skipped or keeps a hidden row selected without a cause.
THEOREM ActionsAreAlwaysAnnounced == Spec => []ActionsAreAnnounced
<1>1. PartsInv => ActionsAreAnnounced
    BY CmpHolds, ListHolds, DelHolds DEF PartsInv, ActionsAreAnnounced
<1> QED
    BY <1>1, PartsInvariant, PTL

\* For any accounts: cards and summary agree and follow the tests that are on, and no
\* card is left waiting, unless two tests of it overlapped; and a green card is called
\* failed only if it was tested by hand after the run had found it so.
THEOREM TestsAreAlwaysTrue == Spec => []TestsAreTrue
<1>1. PartsInv => TestsAreTrue
    BY TokHolds DEF PartsInv, TestsAreTrue
<1> QED
    BY <1>1, PartsInvariant, PTL

=============================================================================
