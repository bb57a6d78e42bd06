---------------------------- MODULE MCFrontEnd ----------------------------
(***************************************************************************)
(* The parts of the front end, each on its own: they are separate modules  *)
(* and share nothing but this run.  "part" names the one whose steps a     *)
(* behaviour takes; the variables of its module are some of v1, v2, ... (a *)
(* name is the same one in every part), and the rest are Off.              *)
(***************************************************************************)
EXTENDS Naturals, FiniteSets, TLC

CONSTANTS
    Desktops, Passwords, MaxMint, MaxFaults, Users, Reveals, MaxKeys, MaxAccounts,
    MaxBlobs, Domains, MaxUpsets, Sites, MaxPushes, Execs, MaxCalls, MaxQuestions,
    MaxPanels, MaxSaves, MaxTime, CfAccounts, MaxTests

\* The bounds are numbers; two panels at least, the one there may be before and one
\* installed over it.
ASSUME BoundsAreNumbers ==
    /\ MaxMint \in Nat /\ MaxFaults \in Nat /\ MaxKeys \in Nat /\ MaxAccounts \in Nat
    /\ MaxBlobs \in Nat /\ MaxUpsets \in Nat /\ MaxTime \in Nat /\ MaxTests \in Nat
ASSUME PanelsCanBeReplaced == MaxPanels \in Nat /\ MaxPanels >= 2
ASSUME SitesAreFinite == IsFiniteSet(Sites)
ASSUME NoneIsNoPassword == "none" \notin Passwords

VARIABLES part, v1, v2, v3, v4, v5, v6, v7, v8, v9, v10, v11, v12, v13, v14, v15

Acc == INSTANCE Account WITH
    vaultKey <- v1, hash <- v6, wrapper <- v11, recovery <- v8, sessions <- v7,
    keychain <- v12, page <- v15, shown <- v5, job <- v9, late <- v10, paper <- v13,
    minted <- v3, faults <- v2, unseen <- v14, overtaken <- v4
Vault == INSTANCE WebVault WITH
    user <- v5, session <- v2, wrapped <- v4, vaultKey <- v1, bytes <- v8, made <- v9,
    copies <- v10, idleTimer <- v6, unlocking <- v7, reveal <- v3
Save == INSTANCE SecretSave WITH
    account <- v1, blob <- v4, minted <- v3, created <- v7, list <- v8, form <- v10,
    forgetting <- v5, faults <- v2, overlapped <- v6
Prov == INSTANCE Provision WITH
    user <- v5, workspace <- v9, run <- v4, gate <- v12, account <- v1, stored <- v8,
    queue <- v7, dismissed <- v6, record <- v3, faults <- v2, died <- v11,
    unsaved <- v13, unseen <- v14, crashed <- v10
Card == INSTANCE DomainCard WITH
    server <- v5, row <- v1, seen <- v8, open <- v3, draft <- v4, attempted <- v12,
    pick <- v9, auto <- v11, following <- v6, upsets <- v2, excused <- v7,
    silent <- v10
Bind == INSTANCE ZoneBind WITH
    zoneIn <- v7, record <- v3, row <- v1, run <- v4, banner <- v8, away <- v5,
    faults <- v2, due <- v6
Setup == INSTANCE FullSetup WITH
    gone <- v4, key <- v7, linked <- v1, zone <- v3, saved <- v10, delegated <- v5,
    plan <- v11, pc <- v8, step <- v6, touched <- v9, faults <- v2
Push == INSTANCE NsPush WITH
    registrar <- v9, registry <- v11, pushes <- v7, busy <- v14, run <- v4,
    open <- v3, answer <- v1, asking <- v5, flight <- v10, since <- v13,
    justPushed <- v6, noted <- v12, settled <- v8, faults <- v2
Host == INSTANCE HostKey WITH
    hostKey <- v7, known <- v8, listening <- v10, events <- v9, asked <- v6,
    answer <- v1, seq <- v4, decision <- v3, exec <- v2, calls <- v5
Forms == INSTANCE ServerForms WITH
    record <- v3, row <- v1, modal <- v9, put <- v5, upsets <- v2, theirs <- v8,
    mine <- v4, lost <- v7
Panel == INSTANCE PanelInstall WITH
    panel <- v15, status <- v11, stored <- v8, cached <- v12, row <- v1, open <- v3,
    run <- v4, form <- v10, save <- v13, workspace <- v9, queue <- v7, fate <- v6,
    faults <- v2, blind <- v5, replaced <- v14
Facts == INSTANCE DomainServer WITH
    record <- v3, row <- v1, cache <- v7, put <- v5, read <- v10, tab <- v11,
    chip <- v8, tail <- v9, result <- v6, upsets <- v2, astray <- v4
Cmp == INSTANCE SiteCompare WITH
    record <- v3, row <- v1, actual <- v11, reading <- v10, sites <- v7, ask <- v4,
    bind <- v12, add <- v5, skipped <- v8, bound <- v13, upsets <- v2,
    elsewhere <- v9, carried <- v6
List == INSTANCE DomainList WITH
    record <- v3, row <- v1, filter <- v8, focus <- v10, sel <- v7, dialog <- v11,
    ask <- v4, assign <- v9, upsets <- v2, blind <- v5, carried <- v6, narrowed <- v12
Del == INSTANCE DomainDelete WITH
    there <- v1, listed <- v8, sel <- v7, ask <- v4, single <- v3, batch <- v6,
    upsets <- v2, strays <- v5
Rows == INSTANCE DomainRows WITH
    now <- v6, cert <- v5, origin <- v3, facts <- v4, paid <- v2, last <- v1
Exp == INSTANCE ExpiryEdit WITH
    record <- v3, row <- v1, text <- v8, revealed <- v9, wrong <- v14, draft <- v4,
    edit <- v12, put <- v5, failed <- v10, upsets <- v2, ways <- v6, refused <- v13,
    unasked <- v11, lost <- v7
Tok == INSTANCE TokenTests WITH
    there <- v1, visible <- v3, card <- v5, timer <- v6, loose <- v10, byHand <- v8,
    run <- v4, summary <- v9, doubled <- v2, retested <- v7

Off == "off"

vars == <<part, v1, v2, v3, v4, v5, v6, v7, v8, v9, v10, v11, v12, v13, v14, v15>>

Init ==
    \/ /\ part = "account" /\ Acc!Init
    \/ /\ part = "vault" /\ Vault!Init
       /\ v11 = Off /\ v12 = Off /\ v13 = Off /\ v14 = Off /\ v15 = Off
    \/ /\ part = "secrets" /\ Save!Init
       /\ v9 = Off /\ v11 = Off /\ v12 = Off /\ v13 = Off /\ v14 = Off /\ v15 = Off
    \/ /\ part = "provision" /\ Prov!Init
       /\ v15 = Off
    \/ /\ part = "card" /\ Card!Init
       /\ v13 = Off /\ v14 = Off /\ v15 = Off
    \/ /\ part = "bind" /\ Bind!Init
       /\ v9 = Off /\ v10 = Off /\ v11 = Off /\ v12 = Off /\ v13 = Off /\ v14 = Off
       /\ v15 = Off
    \/ /\ part = "setup" /\ Setup!Init
       /\ v12 = Off /\ v13 = Off /\ v14 = Off /\ v15 = Off
    \/ /\ part = "push" /\ Push!Init
       /\ v15 = Off
    \/ /\ part = "hostKey" /\ Host!Init
       /\ v11 = Off /\ v12 = Off /\ v13 = Off /\ v14 = Off /\ v15 = Off
    \/ /\ part = "forms" /\ Forms!Init
       /\ v6 = Off /\ v10 = Off /\ v11 = Off /\ v12 = Off /\ v13 = Off /\ v14 = Off
       /\ v15 = Off
    \/ /\ part = "panel" /\ Panel!Init
    \/ /\ part = "facts" /\ Facts!Init
       /\ v12 = Off /\ v13 = Off /\ v14 = Off /\ v15 = Off
    \/ /\ part = "sites" /\ Cmp!Init
       /\ v14 = Off /\ v15 = Off
    \/ /\ part = "list" /\ List!Init
       /\ v13 = Off /\ v14 = Off /\ v15 = Off
    \/ /\ part = "delete" /\ Del!Init
       /\ v9 = Off /\ v10 = Off /\ v11 = Off /\ v12 = Off /\ v13 = Off /\ v14 = Off
       /\ v15 = Off
    \/ /\ part = "rows" /\ Rows!Init
       /\ v7 = Off /\ v8 = Off /\ v9 = Off /\ v10 = Off /\ v11 = Off /\ v12 = Off
       /\ v13 = Off /\ v14 = Off /\ v15 = Off
    \/ /\ part = "expiry" /\ Exp!Init
       /\ v15 = Off
    \/ /\ part = "tokens" /\ Tok!Init
       /\ v11 = Off /\ v12 = Off /\ v13 = Off /\ v14 = Off /\ v15 = Off

Next ==
    \/ /\ part = "account" /\ Acc!Next /\ UNCHANGED part
    \/ /\ part = "vault" /\ Vault!Next /\ UNCHANGED <<part, v11, v12, v13, v14, v15>>
    \/ /\ part = "secrets" /\ Save!Next
       /\ UNCHANGED <<part, v9, v11, v12, v13, v14, v15>>
    \/ /\ part = "provision" /\ Prov!Next /\ UNCHANGED <<part, v15>>
    \/ /\ part = "card" /\ Card!Next /\ UNCHANGED <<part, v13, v14, v15>>
    \/ /\ part = "bind" /\ Bind!Next
       /\ UNCHANGED <<part, v9, v10, v11, v12, v13, v14, v15>>
    \/ /\ part = "setup" /\ Setup!Next /\ UNCHANGED <<part, v12, v13, v14, v15>>
    \/ /\ part = "push" /\ Push!Next /\ UNCHANGED <<part, v15>>
    \/ /\ part = "hostKey" /\ Host!Next
       /\ UNCHANGED <<part, v11, v12, v13, v14, v15>>
    \/ /\ part = "forms" /\ Forms!Next
       /\ UNCHANGED <<part, v6, v10, v11, v12, v13, v14, v15>>
    \/ /\ part = "panel" /\ Panel!Next /\ UNCHANGED part
    \/ /\ part = "facts" /\ Facts!Next /\ UNCHANGED <<part, v12, v13, v14, v15>>
    \/ /\ part = "sites" /\ Cmp!Next /\ UNCHANGED <<part, v14, v15>>
    \/ /\ part = "list" /\ List!Next /\ UNCHANGED <<part, v13, v14, v15>>
    \/ /\ part = "delete" /\ Del!Next
       /\ UNCHANGED <<part, v9, v10, v11, v12, v13, v14, v15>>
    \/ /\ part = "rows" /\ Rows!Next
       /\ UNCHANGED <<part, v7, v8, v9, v10, v11, v12, v13, v14, v15>>
    \/ /\ part = "expiry" /\ Exp!Next /\ UNCHANGED <<part, v15>>
    \/ /\ part = "tokens" /\ Tok!Next /\ UNCHANGED <<part, v11, v12, v13, v14, v15>>

Spec == Init /\ [][Next]_vars

(* Every set of interchangeable things is the same pair of model values here. *)
Symm == Permutations(Domains)

(* The types of the part at work. *)
TypeOK ==
    /\ part = "account" => Acc!TypeOK
    /\ part = "vault" => Vault!TypeOK
    /\ part = "secrets" => Save!TypeOK
    /\ part = "provision" => Prov!TypeOK
    /\ part = "card" => Card!TypeOK
    /\ part = "bind" => Bind!TypeOK
    /\ part = "setup" => Setup!TypeOK
    /\ part = "push" => Push!TypeOK
    /\ part = "hostKey" => Host!TypeOK
    /\ part = "forms" => Forms!TypeOK
    /\ part = "panel" => Panel!TypeOK
    /\ part = "facts" => Facts!TypeOK
    /\ part = "sites" => Cmp!TypeOK
    /\ part = "list" => List!TypeOK
    /\ part = "delete" => Del!TypeOK
    /\ part = "rows" => Rows!TypeOK
    /\ part = "expiry" => Exp!TypeOK
    /\ part = "tokens" => Tok!TypeOK

\* However registrations, first sign-ins, password changes and recoveries on
\* several desktops interleave, and whatever answers are lost, the password that
\* signs in opens the wrapper, the vault key is in it (or is derived from the
\* password while there is none), and no keychain holds any other key.
KeysFit ==
    part = "account" =>
       /\ Acc!WrapperFollowsThePassword
       /\ Acc!UnwrappedIsDerived
       /\ Acc!KeychainHoldsTheVaultKey

\* The recovery record opens with a phrase the user has, is being shown or is on
\* its way to a screen, and gives the vault key; excused are a restore that wrote
\* over a phrase set up in the meantime, an answer lost and a screen left.
RecoveryWorks ==
    part = "account" =>
       /\ Acc!RecoveryOpens
       /\ Acc!PhraseIsKnown

\* In whatever order unlocks, locks, timeouts and sign-outs end: every key array
\* the store has let go of is zeroed, one it keeps is on the five-minute timer, and
\* a text on the screen was decrypted with the key of who is signed in.  Copies made
\* outside the store are not meant: a reveal whose decryption throws leaves its own.
VaultIsTheUsers == part = "vault" => Vault!VaultIsTheUsers

\* An account names only blobs that are there, exactly those its provider needs
\* and typed for that provider; and while no request fails, a blob nobody names was
\* left by a desktop that acted on an outdated row.
SecretsAreReferenced ==
    part = "secrets" =>
       /\ Save!NoDanglingReference
       /\ Save!SecretsFitTheProvider
       /\ Save!OrphansHaveACause

\* No domain is provisioned by two runs at once from card, toolbar and link; its
\* gate is shut exactly while a run has it; and the record that refuses a repeated
\* run says "done" or "running" of nothing else.
RunsAreGated ==
    part = "provision" =>
       /\ Prov!OneRunPerDomain
       /\ Prov!GateFollowsTheRuns
       /\ Prov!RecordIsTrue

\* An FTP password that a run brought back is in the vault unless saving that very
\* one failed or nobody was signed in, and is on the screen until dismissed, saved or
\* not, unless the workspace it was for has been left.
PasswordsAreDelivered ==
    part = "provision" =>
       /\ Prov!PasswordIsStored
       /\ Prov!PasswordIsShown

\* A saved zone is a zone of the account of the domain, unless the account was
\* assigned in bulk or left while a zone was on its way; it is bound by name only
\* where one account alone has it; the nameservers of any other zone are not pushed
\* unwarned; and the notice of a bind by hand is not replaced by an automatic one.
ZonesAreBound ==
    /\ part = "card" => Card!ZoneIsInTheAccount /\ Card!ForeignPushIsWarned
    /\ part = "bind" => Bind!BoundIsUnambiguous /\ Bind!ManualNoticeStays

\* What a full setup or a push of nameservers says of itself is so: a notice with
\* no warning means all was done, and nothing is changed that the report leaves out;
\* an answer kept on the card is one the registry has given since the last push was
\* noted; "just sent" is of the last push to end, but for a set-up run.
SetupTellsTheTruth ==
    /\ part = "setup" =>
          /\ Setup!InfoMeansDone
          /\ Setup!ChangesAreReported
          /\ Setup!NotSetUpIsCounted
    /\ part = "push" => Push!DelegationIsCurrent /\ Push!JustSentIsTrue

\* However many connections meet a changed host key: one dialog at a time asks, an
\* answer counts only for commands started before it, none is repeated before the
\* key is written, and one that hears nothing had another beside it.
HostKeysAreAsked ==
    part = "hostKey" =>
       /\ Host!OneQuestionPerKey
       /\ Host!AnswerIsNotOld
       /\ Host!RetryAfterSave
       /\ Host!SilenceHasACause

\* A form saves and closes only what is its own: edits of other fields made
\* elsewhere survive it, typed text is lost only to a save of that form under way
\* when it was typed, and no form shows the error of another; the date of expiry is
\* shown ahead of the record only until the row moves, or when it moves back.
FormsKeepEdits ==
    /\ part = "forms" =>
          /\ Forms!EditsOfOthersSurvive
          /\ Forms!TypedTextSurvives
          /\ Forms!ErrorIsOwn
    /\ part = "expiry" =>
          /\ Exp!OverlayIsYoung
          /\ Exp!RejectedIsNotShown
          /\ Exp!TypingIsSafe
          /\ Exp!BlockedIsExplained

\* A panel the record knows of is not installed over, and the password in the vault
\* opens it, unless two things were begun side by side past the button; the password
\* of a panel made here is shown until dismissed, unless its installer gave none or
\* the workspace was unmounted.
PanelIsOurs ==
    part = "panel" =>
       /\ Panel!PanelIsNotReplaced
       /\ Panel!PasswordFits
       /\ Panel!CredsAreShown

\* Facts and log lines are of the machine and file they are shown for, but for the
\* read and the lines that a move of the domain overtook; and a badge is said of
\* facts young enough to ground it, as far as the read could tell.
FactsAreCurrent ==
    /\ part = "facts" => Facts!FactsAreOfTheMachine /\ Facts!LinesAreOfTheFile
    /\ part = "rows" => Rows!BadgeHasGround /\ Rows!LastDayIsPaid /\ Rows!UnknownLast

\* A bulk action touches what its question counted and reports what it did: no
\* domain is moved off its server unannounced, no site is called skipped that was
\* bound, and a row that is hidden or gone stays selected only for a reason.
ActionsAreAnnounced ==
    /\ part = "sites" => Cmp!MoveIsAnnounced /\ Cmp!SkippedIsTrue
    /\ part = "list" => List!MoveIsAnnounced /\ List!HiddenHaveACause
    /\ part = "delete" => Del!GhostsHaveACause

\* The cards and the summary of a test of all the tokens agree and follow the tests
\* that are on, and no card is left green or waiting for good, unless two tests of
\* one account overlapped, or one that the run had found failed was tested by hand
\* before the run ended.
TestsAreTrue ==
    part = "tokens" =>
       /\ Tok!SummaryAgreesWithCards
       /\ Tok!CardFollowsTheTest
       /\ Tok!CardsSettle

=============================================================================
