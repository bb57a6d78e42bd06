# Verification of the domain and server workspace

This directory models the program in TLA+: the backend (FastAPI, PostgreSQL,
Celery), the desktop (Tauri, Rust, SQLite) and the React front end that drives
them. TLC checks the models on small instances, and the TLA+ proof system proves
the theorems of the eight modules whose names end in `_proofs` for every instance.

## 1. The system

| Component | State | Operations | Talks to |
|---|---|---|---|
| Versioned synchronisation (`backend/app/sync`) | `sync_state.current_version` of each user, `sync_version` of each row | `bump_version`, `touch_entity_sync`, `GET /sync/changes` | every service that writes rows; the desktop |
| Blob store (`backend/app/blobs`) | encrypted blobs with `sync_version` and `deleted` | put, get, delete | secret forms, the desktop's pull |
| Records (`server_service`, `domain_service`, registrars, Cloudflare, configuration, import) | servers, domains and their links | create, update, delete, bulk operations | synchronisation, which stamps each write |
| Reachability monitor (`server_monitor_task`, `server_monitor`) | status, counter of misses and time of the last check of each server | a run: select, probe, record one by one, write the journal | Celery, notifications, synchronisation |
| Notifications | rows with a dedup key | create and deliver, read, delete | webhook, Telegram |
| Celery schedule | what is queued | every period, at each worker start, at each created server | monitor, renewal reminders |
| Local cache (`desktop/src-tauri/src/sync`) | SQLite: `rows`, `blob_cache`, `meta.last_version`, `bulk_runs` | pull, read fields, record bulk runs | `GET /sync/changes`, `GET /blobs/{id}` |
| Front end pull (`lib/localCache.ts`) | the pull in flight | one pull before each command | the local cache |
| Site backup (`ssh/backup_run.rs`, `commands/domain_backup.rs`, `ssh/backup_download.rs`) | the registry of runs, the lock directory and the archive on the server, the `.part` file | create, cancel, download, clean up | SSH, front-end store |
| Vault key and accounts (`auth/routes.py`, `commands/auth.rs`) | salt, hash, wrapped key, sessions, key in the keychain | register, login, migrate, change password, recover | the two sides of HTTP |
| Secret forms (`secretBlob.ts`, `useSecretSave.ts`) | form, ids of blobs | save (blob, then entity), forget (entity, then blob) | blob store, records |
| Vault key in the page (`store/auth.ts`, `RevealSecret`, `UnlockModal`) | the key array, its idle timer | unlock, reveal, lock, leave | blob store, `GET /auth/me` |
| Bulk provisioning and full setup (`api/domains.ts`, `api/fullSetup.ts`) | `bulk_runs`, run gates, the queue of passwords | run over many domains, skip what is recorded, report | FastPanel over SSH, registrars, Cloudflare |
| FastPanel installation (`api/servers.ts`, `lib/deepLink.ts`) | the record of the panel, its password | install from the button or a link, connect | SSH, blob store, records |
| SSH host keys (`lib/sshHostKey.ts`, `commands/ssh.rs`) | known keys, the question under way | refuse, ask once, write the key, repeat | every command that connects |
| Domain card (`DomainCloudflareField`, `DomainNsPanel`, `DomainExpiryField`, tabs) | drafts, what was read of zones, registry, server and logs | pick, bind, push, read, edit | records, registrars, Cloudflare, server |
| Pages (`Domains`, `ServerDetail`, `Settings`, `Cloudflare`) | filters, selection, open forms, results of tests | bulk actions, forms, comparisons, tests | the hooks above |

### What is hard

*Concurrency.* Requests of one user share a version counter; a pull reads several
tables and the counter with a snapshot for each SELECT (READ COMMITTED is
PostgreSQL's default and `core/database.py` sets no other); monitor runs overlap, because
the schedule, each worker start and each created server publish one and the
worker process pool (`docker-compose.yml` gives no `--concurrency`) executes them
in parallel; edits and monitor runs take the same two locks in opposite orders.

*Failure.* A pull stops after any of its writes; a worker dies in any step; a
delivery raises after the commit it announces; a command on a server outlives the
SSH call that waits for it.

*The screen.* Every answer reaches a page that has gone on: a form closed and opened
on another record, a row replaced by a pull, a selection filtered away, a user who
signed out and another who signed in. A pull, another desktop and the user change the
same record, and a mutation's callback sees the state it was created with.

*Ordering.* A blob is fetched later than the answer that named it; the counter is
read later than the tables; a cancellation arrives before, between or after steps.

### What makes each part correct

- **Synchronisation**: whoever has seen version `v` has been able to read
  everything stamped up to `v`; a pull interrupted anywhere is repeatable and skips
  nothing; nothing in a cache goes back; every write arrives.
- **Monitor**: a server is down exactly from its second unanswered check in a row
  to its first answer, the owner is told of each turn once, every server selected
  is accounted for, every verdict is stamped, every run ends.
- **Site backup**: at most one backup of a domain works in its directory, what is
  announced as saved is the archive that was made, nothing stays on the server.
- **Vault key**: every account can open its vault with the password the server
  accepts and with the phrase its user was given; a browser tab keeps no key of
  somebody else and none that is not on a timer.
- **Secret forms**: an entity never names a blob that was never stored.
- **Bulk runs**: a domain is in one run at a time, a password that was made is stored
  and shown, what a report says is so.
- **Cards, forms and lists**: what is shown belongs to the record, machine, run or
  account it is shown for; nothing that was typed or edited elsewhere is written over;
  a confirmed action touches what its question named.

## 2. Modules

| Module | Models | Composes |
|---|---|---|
| `SyncFeed` | versioned writes, `GET /sync/changes`, the blob store, the desktops' pulls into their caches | backend requests, blob store, desktop and cache in one state |
| `SyncFeed_proofs` | its invariants and action properties, proved | extends `SyncFeed` |
| `OutageEpisodes` | what monitoring promises an owner (abstract) | |
| `ServerMonitor` | runs of the monitor, edits and deletions of servers, crashes | monitor, notifications and the locks of `bump_version`; implements `OutageEpisodes` |
| `ServerMonitor_proofs` | its safety properties and the refinement of `OutageEpisodes`, proved | extends `ServerMonitor` |
| `SiteBackup` | screen, command, registry, lock, archive and download of a backup | front end, desktop and server in one state |
| `SiteBackup_proofs` | its safety properties, proved | extends `SiteBackup` |
| `Account` | one account on the server and its desktops: registration, login, migration, passwords, recovery, sessions, keychain | HTTP, command and pages in one state |
| `WebVault` | the vault key in a browser tab | store, dialog and fields |
| `SecretSave` | secrets of registrar accounts, edited by two desktops | form, blobs and records |
| `Provision` | provisioning from card, toolbar and link; its gates, records and passwords | workspace, runs, vault |
| `FullSetup`, `NsPush` | a full setup and its report; pushes of nameservers and what the card says of them | two domains; registry, card |
| `ZoneBind`, `DomainCard` | binding of domains to zones: the runs, and the fields of the card | zones, record, row, card |
| `PanelInstall` | installing and connecting FastPanel | button, link, server, record, vault |
| `HostKey` | the question about an unknown key of a host | commands, events, dialog |
| `ServerForms`, `ExpiryEdit` | forms of a server, the date of expiry of a domain | two desktops, row, form |
| `DomainServer`, `DomainRows` | facts and logs of the server of a domain; badges and order of the rows | record, cache, tabs, clock |
| `SiteCompare`, `DomainList`, `DomainDelete` | comparison of sites with records, selection and bulk actions | record, row, page |
| `TokenTests` | tests of Cloudflare tokens | cards, run, timers |
| `Keys_proofs` | the properties of `Account`, `WebVault` and `SecretSave`, proved | instantiates the three |
| `Installs_proofs` | those of `HostKey`, `Provision` and `PanelInstall` | instantiates the three |
| `Zones_proofs` | those of `DomainCard`, `ZoneBind`, `FullSetup` and `NsPush` | instantiates the four |
| `Lists_proofs` | those of the remaining eight modules of the front end | instantiates the eight |
| `FrontEnd_proofs` | the invariants of `MCFrontEnd`, from the four modules above | extends `MCFrontEnd` |
| `MCSyncFeed`, `MCServerMonitor`, `MCSiteBackup`, `MCFrontEnd` | the small instances TLC checks | `MCFrontEnd`: every module of the front end, side by side |

A definition whose comment begins with `MUTANT of X` is not part of a model: it is
`X` with a plausible bug, kept to show that a property depends on `X`.

### SyncFeed

One user, because every query filters by `user_id` and `sync_state` has one row per
user. `current`, `version` and `status` are what is committed; `writer` is the
transaction of each request, `pull` the call of each desktop process, `cached` and
`lastVersion` its SQLite file. The content of a row is named by its version, because
every write that stamps takes one of its own. Some writes do not stamp: those of
notifications (`WriteUnversioned`), and the foreign keys that PostgreSQL clears when the
row they name is deleted (`DeleteRow`); `unseen` says of each cache which of these
changes it lacks.

| Action | Code |
|---|---|
| `BeginRows`, `BeginBlob` | a service or `put_blob`/`delete_blob` loads what it will write |
| `AskForLock`, `Acquire`, `FirstWriteConflict` | `bump_version`: `SELECT … FOR UPDATE`, and the `INSERT` of a user's first row, which collides with another first one |
| `Stage`, `Commit`, `Abort` | the stamped writes of one transaction, several bumps included |
| `DeleteRow` | a hard deletion, which stamps nothing, neither the row nor the domains that refer to it (ON DELETE SET NULL) |
| `WriteUnversioned` | `create_notification`, `upsert_renewal_notification`, `mark_read`, `mark_all_read` |
| `StartPull`, `SelectTable`, `AnswerChanges` | `GET /sync/changes`: one snapshot per table, the counter last |
| `ApplyRow`, `ApplyBlob`, `BlobMissing`, `FinishPull` | `pull_with_key`: rows, blobs fetched one by one, `last_version` last |
| `FailPull` | any of these fails, or the desktop is killed |

### ServerMonitor and OutageEpisodes

One owner. `row` and `notes` are the committed tables, `run` the state of each run of
the task, `update` the transaction of each edit. Time is the number of recorded
checks, which is all that the order of timestamps decides. `LoadServer`,
`LockSyncState` and `Record` are three steps because the code loads the row, waits
for `sync_state` and writes the columns that differ from what it loaded (`Merge`).
`Record` includes `create_notification`, whose commit is the commit of the verdict;
`Delivered` is the delivery after it. `AttemptFails` is any exception, with the count
`_apply_results` keeps of it; `DeadlockBroken` is PostgreSQL's choice of a victim.

`OutageEpisodes` says nothing of runs, locks or rows: misses in a row, up or down,
and how often the owner was told. `ServerMonitor!Episodes` maps `down` to the status
of the row and `told` to the notifications, and `ImplementsEpisodes` says that with
one run at a time each step is a step of the promise or a stutter.

### SiteBackup

One domain and the desktops of its owner. `lock` is the run whose directory is on the
server, `archive` what is under each archive name, `job` the command of each desktop,
`registry` its `BackupRuns`, `disk` the file the user chose, `screen` the entry of the
front-end store with the gates of its buttons.

A phase names the command that is under way, so a cancel that comes in a phase is seen
by the command after it: `CancellableExec` refuses that one and lets all later ones
pass (`Refused`, `Before`, `Under`, `Cleanup`).

| Action | Code |
|---|---|
| `Create`, `AskToCancel`, `CancelArrives`, `DeliverNote`, `Reply` | `runCreateDomainBackup`, `runCancelDomainBackup`, the store |
| `Register`, `Connected`, `Return` | `domain_backup_create`, `run_backup` |
| `Prepared`, `GiveUp`, `Locked`, `LockHeld`, `LockUnanswered` | `create_backup` up to the lock |
| `Archived`, `Packed`, `Summed`, `SumFindsNothing`, `WorkFails` | `run_locked` |
| `Cleaned`, `CleanupFails` | `cleanup`, on every way out |
| `Streamed`, `StreamCancelled`, `DownloadFails`, `Saved` | `download_archive` |
| `Removed`, `RemovalFails` | the `rm` of the archive and `report_cleanup_note` |
| `Crash`, `RemoveLockByHand` | the application dies; the user follows the text of `LockHeld` |

Archives are named by the second a run begins in, by the clock of its desktop; clocks
of two desktops differ, so any two runs may share a name and the model lets them. A
run that packs over a file another run is reading makes that reader's copy a
`Mixture`, which has no hash of its own. A command whose answer was given up may still
take effect later: for the removal of the directory that is `RemoveLockByHand`.

### The front end

Each part is a module of its own, because the parts share nothing but the user; a
module has the record on the server, the row the page last read, the page itself, the
requests under way, and the commits of whoever else is at work. Three conventions hold
throughout.

- A request is two steps at least: its effect on the server, and the answer that a
  page acts on. What the code reads before an `await` is kept in the record of the
  request, what it reads after it is taken from the state then.
- `Refetch` is any reading of the list again: after an invalidation, by a pull, by the
  focus of the window. The code starts most of them itself, and none of the properties
  depends on when.
- Faults and edits made elsewhere have one bound in a module (`MaxFaults`,
  `MaxUpsets`). A few variables, named at their declaration, only remember what has
  happened (an answer lost, a move during a read); no guard reads them, and a property
  names them as its exceptions.

| Module | State | Actions |
|---|---|---|
| `Account` | `vaultKey`, `hash`, `wrapper`, `recovery`, `sessions` on the server; `keychain`, `page`, `job` of each desktop; `paper`, the phrases users have written down | `User` presses what a page offers; `Work` takes the next step of a command (read the account, derive, write to the server, to the keychain); `Lose` loses an answer after its commit, `GiveUp` is the 30 s limit, `FinishLate` the request that lands after it |
| `WebVault` | `user`, `session`, `vaultKey`, `bytes` of every key array, `copies` left lying by a decryption that threw, `unlocking`, `reveal` | `Unlock`/`Me`/`Unwrapped`/`Mismatch` as `UnlockModal` awaits them; `Click`, `Revealed`, `Cover` of a field (`Revealed` is its answer, also one that does not decrypt); `IdleTimeout`, `Lock`, `Logout`, `SessionEnds`, `SignIn`, `Migrate` |
| `SecretSave` | `account`, `blob`, `list`, `form`, `forgetting` | `Put` of each blob, `Persist` of the account, `ForgetSecretBlobs` afterwards; `SwitchProvider`, `OpenEdit`, `Delete`, `Refetch` |
| `Provision` | `workspace`, `run`, `gate`, `account` (FTP), `stored`, `queue`, `record` | `RunSingle`, `AskBulk`, `ConfirmBulk`, `Provisioned`, `RunFailed`, `SaveSecret`, `Deliver`; `Lock`, `Logout`, `Crash`, `GrowStale` |
| `DomainCard` | `server`, `row`, `draft`, `pick`, `auto`, `attempted` | `PickAccount`, `DeliverPick`, `ReadZones` and the zone saved by itself (`DeliverAuto`), `EditDraft`, `PushNs`, `BulkAssign` elsewhere |
| `ZoneBind` | `zoneIn`, `record`, `run` of each mode, `banner` | `Start`, `ReadZones` account by account, `Check`, `Written`, `Report`; `Pick` by hand |
| `FullSetup` | `linked`, `zone`, `saved`, `delegated`, `step` of each domain | `AssignLinks`, `SyncLocalCache`, then `Begin`, `EnsureZone`, `SaveZoneId`, `PushNameservers` of two domains at once, `Report` |
| `NsPush` | `registrar`, `registry`, `pushes`, `busy`, `run`, the cached `answer` and the question in `flight`, `justPushed` | `SetNameservers`, `SetupPush`, `Apply` and `Settle` in any order, `Propagate` (the registry follows), `EndRun` (a set-up run notes its pushes), `AskRegistry`, `RegistryAnswers`, `ReadRegistry`, `LoseAnswer`, `Forget`, `OpenCard` |
| `HostKey` | `known`, `events`, `asked`, `decision`, `exec` | `Connect`, `HandleHostKeyPrompt`, `Answer`, `Save`, `AwaitDecision`, `Decided`, `GiveUp` |
| `ServerForms` | `record`, `row`, `modal`, `put` (every PUT under way, and whether the page waits for it) | `Open`, `Close`, `Type` (also during a save), `Save`, `Delivered`, `Failed`, `Leave`, `EditElsewhere` |
| `PanelInstall` | `panel`, `status`, `stored`, `run`, `form`, its saves (`save`), `workspace`, `queue`, `fate` of every password | `Install`, `FollowLink`, `Confirm`, `Pull`, `Check`, `Installed`, `StepsFailed`, `WriteBack`, `Deliver`, `PutBlob`, `PersistConnect`; `CloseConnect` and `Turn` at any moment, `Unmount` (locking or signing out), `Return` |
| `DomainServer` | `record`, `row`, `cache`, `read`, `tail` | `PickServer`, `StartRead`, `Resolve`, `FinishRead`, `ReadTail`, `TailRead` |
| `SiteCompare` | `record`, `row`, `actual`, `sites` | `Compare`, `SitesRead`, `AskBind`, `ConfirmBind`, `BindDelivered`, `AddDelivered` |
| `DomainList`, `DomainDelete` | rows, filter, selection, the question and the requests | `ToggleAll`, `AskAssign`, `Answer`, `Assigned`; `ConfirmSelected`, `Done` of each request |
| `DomainRows` | the certificate, what a row was told of it, the paid period, `now` | `Tick`, `Replace`, `Check` with any of what a read may tell (`Told`: the certificate, no date, an error, none); the classifications are operators |
| `ExpiryEdit` | `record`, `row`, the draft, the edit laid over the row | `Type`, `Confirm`, `Blur`, `Escape`, `Accepted`, `Refused` |
| `TokenTests` | `card`, `timer`, `run`, `summary` | `Test`, `Tested`, `Fade`, `TestAll`, `RunNext`, `RunTested`, `RunEnds`, `Search`, `Leave` |

## 3. Runs

| Run | States | Asks |
|---|---|---|
| `sync_feed` | 1 276 103 | Versions and cursors with a row and a blob, two overlapping requests, one desktop, three versions and a failing pull |
| `sync_live` | 164 574 | Do the cursor and every committed write that is stamped arrive, and how long does one wait that is not? Rows in two tables and a notification, one request at a time |
| `sync_lost` | violation | Does everything below the cursor arrive? No: finding 1 |
| `sync_stuck` | violation | Does the cursor always catch up? Not past a deleted blob: finding 2 |
| `monitor_single` | 42 271 | One run at a time with edits, deletions and faults: is the promise of `OutageEpisodes` kept, is a server that moves or loses a deadlock counted, does every run end? |
| `monitor_overlap` | 1 631 847 | Two servers, two overlapping runs, deletions, two faults: are all targets counted, all verdicts stamped, all notifications true? |
| `monitor_stale` | violation | Is a server shown as down only after two misses in a row? Not with overlapping runs: finding 3 |
| `monitor_twice` | violation | Is a recovery told once? Not with overlapping runs: finding 4 |
| `backup_runs` | 406 696 | Two desktops, two runs, two seconds, one fault: lock, saved file, leftover, cancel, end of every run |
| `backup_lock` | violation | Is the directory removed on every way out? Not when a cancel meets the cleanup: finding 5 |
| `backup_note` | violation | Is the user of a cancelled backup told what it left? Not when the event is late: finding 6 |
| `frontend` | 2 709 623 | Every module of the front end from its own initial states: a behaviour takes the steps of one of them |

Of the 2 709 623 states of `frontend`, `panel` has 638 955, `vault` 492 093, `provision`
388 725, `secrets` 352 338, `account` 135 571, `list` 122 412, `facts` 119 420, `bind`
87 354, `push` 75 968, `tokens` 66 648, `card` 48 955, `forms` 44 515, `delete` 38 661,
`hostKey` 36 216, `rows` 35 208, `sites` 11 669, `expiry` 10 724 and `setup` 4 191.

### What the properties excuse

A property that names an exception says that there is no other way to break it; the
exception itself is what the code does. Where a comment of the repository denies the
exception, section 5 says so under "Claims that are weaker in the properties". The ones
worth knowing:

- `RecoveryOpens` and `PhraseIsKnown`: a restore that writes after a new phrase was set
  up, an answer lost, a screen left. These are the races the two are about.
- `OrphansHaveACause` is silent once a request has failed: a retry of a creation draws
  a new id and the first blob stays.
- `PasswordIsStored` excuses the save that failed and a user who signed out,
  `PasswordIsShown` a workspace that was left (locked or signed out) in the meantime.
- `ZoneIsInTheAccount`: the account was assigned in bulk, or the card was left, while a
  zone was on its way. A bind by hand between the check and the write of a run of
  `ZoneBind` is overwritten, and no property covers that window.
- `DelegationIsCurrent`: a question on its way when a push is noted, if it was the
  first one or of a closed card: nothing asks it anew, and its answer counts.
- `JustSentIsTrue`: a set-up run, whose pushes are noted when the whole run is over.
- `TypedTextSurvives`: text typed while a save of the same form is under way.
- `OverlayIsYoung`: a row that comes back to the date the edit was begun on.
- `PanelIsNotReplaced` and `PasswordFits`: a link or a save begun beside another, and a
  run from an old record (`blind`). Only panels on record are meant: that one whose
  write-back failed may be installed over is what the workspace warns of.
- `FactsAreOfTheMachine`, `LinesAreOfTheFile`: the read a move overtook, and one begun
  at the old server because the pull before it failed.
- `BadgeHasGround` asks of a badge what the read could tell, not the truth.
- `CredsAreShown`: the installer gave no password, or the workspace was left by locking
  or signing out.
- `StampedWritesReachTheCache` is of stamped writes; `UnstampedWaitForAStamp` says what
  becomes of the others.
- `SummaryAgreesWithCards`: two tests of one account, and one tested by hand before the
  run that had found it failed was over.
- `HiddenHaveACause` and its like excuse what was done elsewhere and not read yet.

### Bounds

- `MaxVersion = 3`: a first write, a second one that races the pull, and a third that
  shows whether the lost one is ever sent again. With two versions nothing is lost
  after a completed pull.
- `MaxFaults` counts failures: one is enough to interrupt each step of a pull or of a
  backup; the passing monitor runs have two, so that a failing write can follow a crash.
- `MaxRuns` of the monitor: two misses, an answer and two more runs around them (5),
  or two runs that overlap and a third that meets what they left (3).
- `MaxRuns = 2` for two desktops: a run that meets another, or what another left
  behind; the runs of findings 5 and 6 need a single desktop, and are given three.
- `MaxSecond = 2`: the same name and another one.
- Two writers, two runs, two desktops: every property speaks of at most two of them,
  and the proofs cover any number.
- `monitor_overlap` leaves edits out: they reach a run through its locks and through a
  moved address, which `monitor_single` has.
- Symmetry is used for writers and for runs, in runs without liveness properties.
- `SiteBackup` runs are not checked for deadlock: once `MaxRuns` runs are over and
  nobody has a lock to remove, nothing is left to do. A run that hangs would violate
  `RunsEnd`.

- `frontend` checks the parts one by one, so its states are the sum of theirs and not
  the product. Sets of interchangeable things have two members, because every property
  speaks of one thing and another that may be mistaken for it. Bounds of one
  (`MaxFaults`, `MaxUpsets`, `MaxTests`) allow one failure or one edit elsewhere at
  any step. `MaxMint = 2` and `MaxBlobs = 3` are a key or blob and the one that
  replaces it, `MaxTime = 6` passes both thresholds of a certificate,
  `MaxPushes`, `MaxCalls`, `MaxQuestions = 2` let a second overtake the first, also the
  PUT of a form that was closed. `MaxPanels = 2` is the panel from before and the one
  made over it; a third, made by a second run, is left to the proof. `MaxSaves = 2`
  is a save of Connect Existing from a form that was closed, and one opened after it.
- Its symmetry: the two model values stand for desktops, domains, fields, commands or
  accounts, which every part treats alike.
- It is not checked for deadlock: pages are left and bounds are reached.

### Fairness

- `SyncFeed`: weak fairness of each pull's next step (the HTTP client gives up after
  30 s, which is `FailPull` or progress) and of starting the next one, because every
  command pulls first (`invokeSynced`). Nothing is assumed of writers.
- `ServerMonitor`: weak fairness of a run's and an edit's next step (probes have
  timeouts), and strong fairness of the three steps that wait for a lock:
  PostgreSQL queues waiters, so a lock that is freed again and again is obtained.
- `SiteBackup`: weak fairness of each run's next step. Every SSH command has a time
  limit (`BACKUP_STEP_TIMEOUT`, `BACKUP_ARCHIVE_TIMEOUT`, the idle limit of the
  download, the keepalive of the session), and so has every HTTP call. The steps of
  the user are not fair.
- The modules of the front end state safety only: a user may leave any page at any
  time, and nothing obliges anybody to press the next button.

## 4. Proofs

Every theorem is checked by TLAPS for every value of the constants that satisfies the
modules' assumptions. Each proof module defines its inductive invariant first, shows
that every action keeps it, and draws the theorems from it in the end. The invariants
were checked by TLC on the instances of the runs before they were proved.

**SyncFeed.** `TypeCorrect` stands first. `CounterIsSound` and
`VersionsAreCommittedInOrder` rest on `LockInv`: at most one request is past its lock
(`OneLockHolder`), only that one has staged anything, and all it has staged lies above
the committed counter and at or below the version it was given. `OnlyRacedWritesArePassed` rests on
`CursorInv`, whose heart is `PullInv`: of every live row in a table already selected, the
answer under way holds the committed version, or the row is listed as missed by that
very pull; and once the counter has been read, the same of every row at or below it, or the cache
already has it. Without it the property is not inductive, because a commit between
the SELECT and the counter changes nothing in the cache yet and shows only when the
pull ends. `CacheNeverGoesBack` is an action property from the same invariant, and so is
`UnstampedChangesWait`, which needs `SeenInv` too: an answer holds only what lies above
the version that was asked for. All three assume `OneProcessPerCache`: two desktop processes that share a cache file replace rows
unconditionally, and then a cache can go back.

**SiteBackup.** Every action is first described by flat facts; the invariant `Inv`
is then proved part by part. The properties the runs check are not inductive:

- `HoldersOwnTheLock` and `LockIsReleased` need `IdInv` (numbers of runs are unique
  and never reused) to know that a `mkdir` names a new run and a cleanup removes the
  cleaner's own directory.
- `SavedIsWhole` needs `SumInv` (the sum taken on the server is of the archive this run
  packed: it holds the lock while it packs and sums, so no other run can write that
  name), `SavedInv` (the file is on the disk from the moment the outcome is "saved")
  and `ScreenInv` (a run shown as saved is over).
- `LeftoverIsNamed` needs `LeftInv` (a run that saved its file and left its archive
  carries the warning in its result).
- `NoEmptyPromise` needs `OutcomeInv`, which ties the outcome of a run to its phase.
- `TheOnlyCopyIsKept` needs `KeepInv`: a run that is removing its archive has the
  file on the disk, or its user's flag is set.

**ServerMonitor.** `MonitorInv` holds of any runs, edits, crashes and overlaps: types,
the arithmetic of the counts (`RunOK`), and the stamp of each verdict. From it come
`TypeCorrect`, `NoTargetIsLost`, `VerdictsAreStamped` and `NotesAnnounceVerdicts`. That
an outage is confirmed and told once is false of overlapping runs (findings 3 and 4), so
the rest assumes `OneRunAtATime` and adds `SingleInv`: what a run loaded is what is
committed, however often the server was edited meanwhile (`LoadedIsCurrent`), a server
lands once in a run (`LandedOnce`), a row says what the history of its checks implies
(`RowsAreHistory`), and no notification is of an episode still to come (`NotesArePast`).
`EpisodesAreKept` then shows that each step of `ServerMonitor` is a
step of `OutageEpisodes` or a stutter. A run works on the least id it has left, so
`LeastExists` is proved first, from the well-foundedness of strict inclusion of finite sets.

### The front end

The parts of the front end share no state, but they are checked in one run, and the
theorems are stated of that run: `FrontEnd_proofs` proves each of the invariants of
`MCFrontEnd` for every value of its constants. The work is done in four modules. Each
declares the variables of the parts it is about, instantiates them, and gives for
every part an inductive invariant with three facts: the initial states have it
(`...Init`), every step keeps it (`...Step`), it implies the properties and the types
(`...Keeps` and the like). `FrontEnd_proofs` instantiates the four with the variables of the run,
shows that the actions and properties seen through the two instances are the same (which
is what the long lists of definitions are for), and concludes from
`PartsInv`, which says that the invariant of the part at work holds. TLC has checked
`PartsInv` in place of the invariants on the instance of `frontend`.

The assumptions stand in `MCFrontEnd`, where TLC evaluates them: bounds are natural
numbers, `MaxPanels` is at least 2 (one panel from before and one that is installed),
the sites of a full setup are finitely many (its report counts them), and "none", by
which the model marks the absence of a key, is no password.

**Account.** A command carries a key over several requests while others rewrite the
record. `AccountInv` says that what it has in hand (`InHand`) is the vault key of an
account that exists, by the step it has reached: read from the keychain or from the
recovery record for a password change, derived or unwrapped for a sign-in. Nothing
written in between spoils that, because no request but the first registration writes
the vault key. `ServerInv` adds that a wrapper is always under the current hash, and
that without one the hash is the vault key, which is why the migration may take the derived
key for it. For the phrases, `ScreenInv` ties a phrase on a screen to a page that starts
nothing, so that it cannot be overwritten by another.

**WebVault.** `VaultInv` adds to the promise that the cookie opens nothing or the account
of who is signed in, and that a tab nobody is signed in to shows no text (`TabInv`);
without that a text decrypted for one user could be on the screen of the next. The
theorem is of the arrays of the store: the copies that a failing decryption leaves
(`copies`) are not its subject.

**SecretSave.** An account keeps its references until it is deleted and its number is not
used again (`RowsInv`); so what a desktop read long ago is either still so or of an
account that is gone. `OwnInv` says whose a blob is: of one account at most, of none that
is there once it is to be forgotten, and of nobody else while a form has written it for
an account still to come. A request that deletes a blob late can therefore not take it
from anybody, which is what `NoDanglingReference` needs.

**HostKey.** `HostInv` adds that `inFlight` names exactly the open questions
(`AskedIsOpen`), that a decision newer than a command is of a question that was not
settled when it began (`ActsOnNew`), and that a command that runs alone still finds the
decision it heard being published (`HearsAlone`).

**Provision.** `GateInv` says that runs under way share no domain, so a run that ends
opens the gates of no other. `RecordInv` says that on the servers of a set nothing is
missing but what its run still has to do, so that "done" is written of a whole set.
`PasswordInv` follows a password from the account to the vault and the screen: what a
run no longer has to save is stored or could not be (`SavedSoFar`), and what is not in
a run any more is in the queue, dismissed, or was for a workspace that is gone. The two
are independent: a password that could not be saved is shown all the same.

**PanelInstall.** `AloneInv` is the heart: without one of the excuses a run and a save
are not at work together, no two runs are, a run that installs finds nothing on record,
and what is typed in a save is the password of the panel there is. `MadeInv` says which
steps of a run may carry a password, and `BlobInv` when the record names a blob;
`CredsAreShown` is inductive with them.

**DomainCard, ZoneBind.** A zone on its way from a reading to the record belongs to the
account that record has and keeps, because the pick of another account calls the reading
off (`AutoInv`); and the nameservers in the field are of the zone they are said to come from
(`DraftInv`). A run of bindings has matched a zone only where no other account
has it, or one could not be read (`MatchInv`).

**FullSetup.** The report is about what `RunInv` and `DomainInv` say of every domain: how
far it is, what of that is so in the world, and that nothing of it is changed before the
first step that writes. That the count of domains not set up is right follows from the
disjointness of the groups, and needs the sites to be finite.

**NsPush.** `CacheInv` says that an answer which is not to be asked for again, and a
question that is to count, are of what the registry has had since the last note; with it the
registry may follow the registrar at any time. `EndInv` says that the push noted last
is the one that ended last, unless one of the two is of a set-up run.

**Forms, facts and lists.** Most of these invariants relate a request under way to the
page it comes back to: a value on its way is one this page sent since (`PutInv`), a
reading that is at a machine is at the machine of the domain unless that was moved
(`ReadInv`, `TailInv`), a question still counts what it counted (`AskedInv`, `ToldInv`),
an overlay not yet overtaken by the row is laid over what the row then was (`OverlayInv`). `HistoryInv`
ties the badges to three clocks: when a certificate was last in force, when there was one
at all, when there was no file of Let's Encrypt. `UnknownLast` rests on no invariant but on a lemma about the comparison
(`CompareIsAnOrder`). `FailedInv` of `TokenTests` says that a card which may still turn
green under a summary that calls it failed was tested by hand again, or twice at once.

**Only model-checked.** Liveness (`CursorCatchesUp`, `StampedWritesReachTheCache`, `RunsEnd`
of both modules), because fairness and ENABLED are out of the proof system's reach. Every
other property of a passing run is a theorem.

## 5. Findings

Each is the counterexample of a run, and the text it contradicts is quoted in
`PROJECT.json`.

1. `sync_lost`: a write committed between the SELECT of its table and the read of the
   counter gets a version at or below the one the client stores, and is never sent.
2. `sync_stuck`: `/sync/changes` names deleted blobs, `GET /blobs/{id}` answers 404 for
   them, and every later pull of that desktop fails at the same place.
3. `monitor_stale`: a run that waited for `sync_state` behind another adds its miss to
   the counter it had loaded before.
4. `monitor_twice`: two runs that both loaded a server as down announce its recovery
   twice, because the episode of a recovery is the time of the check itself.
5. `backup_lock`: the single refusal of `CancellableExec` falls on the cleanup if the
   cancel comes during the last command, or during one that fails; the lock stays, and
   every later backup of the domain stops at it.
6. `backup_note`: the store ignores an event that comes after the outcome, also the one
   about a leftover archive, which is the only word a cancelled run has of it.

### Claims that are weaker in the properties

Here a comment says more than the code does, and the property of the passing run has
the exception by name. Taken out, TLC finds a counterexample; in each of them every step
is one of the code.

- `DroppedKeysAreZero`: `RevealSecret.tsx:44-46` zeroes its copy of the vault key only
  when the decryption has succeeded. `auth.ts:39-40` says why a key must not merely be let
  go of, and `UnlockModal.tsx:60-66` wipes its own in a `finally`.
- `PasswordIsShown`: passwords are saved before they are shown (`domains.ts:793-797`), so
  one whose save failed while the workspace was left is lost. `domains.ts:687` says that
  it has already been shown.
- `JustSentIsTrue`: a set-up run notes its pushes when it is over (`fullSetup.ts:219-221`),
  so it may say "just sent" of one that ended before a push of the card was refused.
  `nsPush.ts:61` says that every path notes the outcome as soon as it is known.
- `DelegationIsCurrent`: the answer asked for right after a push is kept for five minutes
  (`rdap.ts:114`), and MISMATCH with it, though the registry may follow within them.
  `domains.ts:565-567` calls a MISMATCH that stays the truth and no stale cache.
- `OverlayIsYoung`: an edit is laid over the row again when the row comes back to the date
  it was begun on. `DomainExpiryField.tsx:265-266` says that the first move of the row
  ends it.
- `CredsAreShown`: locking (`DesktopWorkspace.tsx:432-439`) unmounts the workspace, which
  `servers.ts:364-369` calls always mounted, and the password of an installation under way
  goes with it.
- `FactsAreOfTheMachine`: facts being read when a domain is moved are recorded after the
  move has cleared those of the old machine (`domain_service.py:360`).
  `domain_service.py:296-299` says that after a move the card shows none of them.
- `BadgeHasGround`: a certificate that has run out is "Valid" when its date could not be
  read (`fastpanel.rs:817-842`; `domainFacts.ts:231-232` calls it a statement about a
  sound certificate), and one the panel alone knows is "missing" when the list of sites
  could not be read (`fastpanel_facts.rs:566-605`, against 157-160).
- `SummaryAgreesWithCards`: a token that failed in a run over all and is tested by hand
  before the run is over is called failed by the summary beside its green card.
  `Cloudflare.tsx:576-578` clears the banners so that this cannot be.

## 6. What is not modelled

- Within what is modelled: deleting notifications, counters and log texts of a run, several owners (they share nothing but workers), `GET /sync/snapshot`
  (unused by the desktop), deletions on the cache side (there are no tombstones, so a
  cache keeps a deleted row), the warnings of a backup other than the
  leftover, a reload of the web view during a backup, two domains saved under one
  name, a delayed removal of an archive whose answer was given up, and the death of the
  application during the installation of a panel.
- Two desktop processes on one cache file: each process of the runs has its own.
- Reminders, audit, HTTP schemas, migrations: one pass or no state; see the
  notes in `PROJECT.json`.
- Cryptography: pure functions whose correctness a model would have to assume.
- The clients of FastPanel, registrars and Cloudflare: translations of remote formats.
  What an answer does is modelled where it is used.
- Presentation: primitives, tabs, date pickers, layout, texts and colours. What a
  text claims is modelled as its kind.

## 7. Plan

Done, in this order: `SyncFeed` (everything else reads through it), `OutageEpisodes`
and `ServerMonitor`, `SiteBackup`, the front end with `Account` first; proofs for all
of them, so that every safety property of the runs is a theorem.

1. `ExclusiveBackup`, abstract: at most one worker, and a file is announced only when
   whole; `SiteBackup` shown to implement it, by TLC and by proof.
2. An abstract account ("whoever signs in can open the vault") with `Account` as its
   implementation outside the races its properties name.
3. Renewal reminders, whose dates and deduplication are one more pass like the monitor's.
