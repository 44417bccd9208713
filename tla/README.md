# ObSink: TLA+ verification

ObSink keeps a folder of notes in step between devices through a self-hosted
server. A device hashes its folder, diffs it against its last checkpoint and
the server's manifest, moves encrypted blobs both ways and asks the user where
both sides changed. This directory models the parts whose correctness depends
on order, concurrency and failure, checks them with TLC on small instances and
proves their safety properties with TLAPS for every instance.

## The system

| part | state | operations | talks to | what is hard |
|---|---|---|---|---|
| three-way diff, checkpoint rule (`core/src/manifest.rs`) | none | `diff_manifests`, `checkpoint_manifest` | called by every engine, native and wasm | tombstones, missing entries and equal hashes on three sides |
| sync rules (`core/src/sync_rules.rs`) | none | `chunk_uploads`, `effective_choice`, `conflict_to_upload`, `parent_hash` | same | limits at the boundary, what a conflict resolution presents as parent |
| sync engine (`core/src/sync_engine.rs`, `types.rs`) | folder, `.obsink/manifest.json`, the remote manifest cache, the plan a host keeps | `prepare_sync`, `complete_sync`, `remote_changed` | API client, walker | every step awaits disk or network; each can fail; other devices and the user act in between |
| API client (`core/src/api_client.rs`) | none | manifest with ETag, get, batch with retries, vault administration | server over HTTP | a lost answer to a batch that ran |
| walker, hash cache, ignore rules (`hasher.rs`, `hash_cache.rs`, `ignore.rs`) | stat memo | walk and hash the folder | engine | stat granularity, patterns that change |
| daemon, pacing, watcher (`daemon.rs`, `pacing.rs`, `watcher.rs`) | pending events, timers, backoff, pending plan, own writes | debounce, poll, trigger cycles | engine, file-system events | events during a cycle, the engine's own writes, backoff |
| file and batch routes (`server/src/routes/files.rs`, `batch.rs`) | rows of `files`, `vaults.revision` | `apply_put`, `apply_delete`, `get_manifest`, `batch` | Postgres, blob store | two writers of a path, the quota, blob files outside the transaction |
| blob store (`server/src/blobs.rs`) | live, `_versions`, `_trash` files | `replace_live`, `trash_live`, `undo`, listing | routes, retention | crash and failure between two renames |
| retention (`server/src/retention.rs`) | none | prune versions and trash, sweep orphans, expire account rows | blob store, Postgres | runs beside the writers without their lock |
| history routes (`routes/history.rs`) | none | list and read old versions and the trash | blob store | the order of blobs made in one second |
| vault and account routes (`routes/vaults.rs`, `me.rs`) | vaults, members, attachments | create, list, attach, detach, delete a vault or an account | Postgres, blob store | the limit under two creations, rows and directories removed in two steps |
| sign-in, invites, sessions (`server/src/auth/email.rs`, `invites.rs`, `sessions.rs`, `users.rs`, `account.rs`) | codes with attempts, invites, users, sessions | start, verify, sign up, sign out, revoke, expire | Postgres, mail | attempts and one-use tokens raced by several requests |
| account key, approval, devices (`server/src/auth/keys.rs`, `approval.rs`, `devices.rs`) | the wrapped account key, each device's request | set, rewrap, register, approve, poll, cancel, delete | Postgres | two first passphrases, a request replaced while it is answered |
| client accounts and keys (`core/src/auth.rs`, `keychain.rs`, `crypto.rs`) | bearer, account key, approval secret in the keychain | the client side of these exchanges | server | lost answers, crashes between a request and the keychain |
| desktop app (`desktop/src-tauri/src/main.rs`) | vault list, daemon handles, busy marks, kept plans | vault and account commands, daemons and their relays | daemon, engine, server | commands, daemons and relays touch the same marks and handles |
| CLI (`cli/src/main.rs`) | one vault's configuration | login, init, download, sync, watch, restore | engine, daemon, server | stopped at any moment |
| mobile library (`mobile/src/lib.rs`) | the kept plan | the same calls for the phone | engine, server | as above |
| web client (`web/src/worker/*`, `core-wasm`) | an origin-private folder | a port of the engine that calls the same rules | server | tabs, workers |
| iOS app and File Provider (`ios/*`) | item store | pending flags, working-set versions | mobile library | two processes on one database |
| user interface (`ui/*`) | none | presentation | the desktop app | nothing of its own |

Cryptography is opaque here: a keyed hash identifies a content, a sealed blob
opens to what was sealed, and a wrapped key is a record of the key it was made
under, its binding and what it holds.

## Modules

| module | models |
|---|---|
| `Manifest` | `diff_manifests`, `checkpoint_manifest`, `build_working_manifest` as operators on functions from paths to entries |
| `SyncRules` | the rest of the pure rules of a cycle |
| `Batching` | `chunk_uploads`, a fold over the loop body |
| `ThreeWay` | one path, one undisturbed cycle as one step: what the diff and the checkpoint promise when nothing gets in between |
| `FileGate` | the server as its clients see it: rows, bodies, revision, the two parent-hash gates and the two writes |
| `GateService` | the abstract specification of a vault's writes: a submitted request takes effect at most once, in one step, and only if its parent matches |
| `VaultServer` | the write handlers in their real steps: lock, checks, blob renames, commit, undo, and the retention pass |
| `SyncEngine` | several devices running `prepare_sync` and `complete_sync` against `FileGate` |
| `Daemon` | the select loop that decides when a cycle runs: commands, debouncer, self-write filter, poll, backoff |
| `SignIn` | codes, invites, accounts, sessions and the clients that keep a bearer |
| `AccountKeys` | the account key of one account: first passphrase, change, unlock, approval of a waiting device, vault keys wrapped under it |
| `Vaults` | the vaults of one account on the server and on its devices, with the orphan sweep |
| `DesktopHost` | extends `Vaults` with the desktop app's daemons, relays, busy marks and commands |
| `ThreeWay_proofs`, `VaultServer_proofs`, `SyncEngine_proofs`, `Daemon_proofs`, `SignIn_proofs`, `AccountKeys_proofs`, `Vaults_proofs`, `DesktopHost_proofs` | the theorems about the module each is named after |
| `MCRules`, `MCVaultServer`, `MCSyncEngine`, `MCDaemon`, `MCSignIn`, `MCAccountKeys`, `MCVaults`, `MCDesktopHost` | instances for TLC |

A manifest is a total function on `Paths` with `None` where the Rust map has no
key. Of a `FileEntry` only `hash` and `deleted` are kept: no decision reads the
modification time or the sealed path, and `size` matters only to batching and
to the quota, where it is modelled.

**`VaultServer`.** A request goes through the stages `begun` (handler entered,
`now` read), `gated` (the vault row is locked, the checks passed), `moved` (the
old blob is archived), `placed` (the new blob is live), then commits, or fails
and is undone. `rows` and `rev` are the committed state of Postgres; `live` and
`history` are the blob files. Every failure the environment can produce is a
step of its own that draws on a budget: a statement or commit that fails, a
commit that fails after it was applied (`uncertain`), a blob write that fails
after the archive, a client that disconnects (the handler and its transaction
are dropped while a spawned blob task runs on) and a crash. `ROLLBACK` is a
separate step, because dropping an `sqlx` transaction only queues it.
`Unsettled` paths are those whose row is not committed yet. The refinement
mapping to `GateService` reads such a path's abstract body from the undo token.
The history routes are `list_versions`, `get_version`, `list_trash` and
`get_trash` over `history` and `rows`; they change nothing and appear in the
properties that say what can be restored.

**`SyncEngine`.** `job[d]` holds the local variables of a running cycle;
`disk`, `base`, `cache` and `pending` are what survives it. Requests that only
read are one step at the moment the server answers. A batch is applied one
operation at a time, each in its own transaction as in `apply_operations`, so
other devices write between them, and it may be sent again after any prefix.
A file's bytes are read when the batch is built while its hash is the walk's,
so `rows[p].hash` and `body[p]` are separate and may disagree, as on the real
server. A failed checkpoint is no error of `complete_sync`: the cycle returns
its new conflicts, and the host may keep them as its plan (`Abort`).
A restore writes a file of `archive`, the contents the history tiers
were given, over whatever the folder holds. `writer` and `known` are ghosts for
the properties.

**`Daemon`.** One action per branch of `select!`; the wake-up has two, because
`due` either releases its paths and starts a local cycle or re-arms what moved
and leaves room for the poll. A cycle is two steps (`StartCycle` inside the
branch that triggers it, then how it ended), so edits, events and commands
arrive while it runs. It is reduced to what it does to each path: upload,
download, conflict. Other devices write at any time; a write during a cycle is
in `late`, and the checkpoint's second fetch takes it into base and ETag without
a download. The ghost `absorbed` has the paths passed over in this way. A cycle
that errors may have written some of its files. Deletions are versions like any
other, and KeepBoth, whose
copy is a new file, is left to `SyncEngine`. After a checkpoint that was skipped
the code may see a conflict where the model's `Plan` has a download. Instants are kept as ages, each
only up to the value the code compares it with, so the model runs for ever
without a clock bound. `missed` is a ghost: the unsynced paths of which the
daemon keeps no trace.

**`SignIn`.** `verify` is a transaction of several steps (`tx[d]`): the code row
is taken `FOR UPDATE` and compared, the account is looked up or made with an
invite whose row is locked too, the device and its session are written, and the
commit is answered or the answer is lost. A refused code commits its attempt on
its own, as the code does. Codes and tokens are numbers that are never minted
twice, and an invite code is handed out once (`issued`). `guesses`, `uses` and
`created` are ghosts.

**`AccountKeys`.** `cmd[d]` is a passphrase command under way on a device and
`wait[d]` one poll of the approval exchange; the three hosts differ in where
they keep the request's secret and in what they compare, and `Platform` selects
each one's branch. `Fail` ends a command at any await with its memory lost or
kept, so a first passphrase whose answer never came is among the behaviours. An
approved device clears its request on the server (`ClearTaken`) and saves the key
in a later step (`SaveTaken`); a crash between them loses the key, and the device
asks again. A session is one number for client and server: `sign_out` always ends
it on both sides, while the desktop's call to the server is best effort.

**`Vaults`** and **`DesktopHost`.** A command is a sequence of stages with an
await between them; `Done(d)` is idle on every host but the desktop, where
`reconcile_daemons` still has to run. The phone attaches a vault it creates before
it saves the key; every other program, and the phone's download, attaches at the
end. Forgetting goes vault by vault, entry before key, and removing a vault from a
device works signed out too. A delete commits its rows and then removes
the directories (`doomed`), and an upload that was accepted may make a directory
afterwards. The sweep works on the listing it took earlier: it looks a candidate
up and removes it in two steps, and an error ends the pass. A candidate without a
row stays without one, since clients mint an id for each create, so the await
between the two needs no property of its own. Each device runs one vault command
at a time, which is a restriction on the desktop: the app may run several
beside each other, over a vault list it reads, changes and writes without a lock.
The phone does not look whether its keychain took a key (`SyncModel.swift`); in
the model a save succeeds, or the command goes no further. `DesktopHost`
adds up to two daemons per vault (one told to stop and its successor), the events each
has sent and the relay has not taken, the marks and the plans. What a cycle does
is `SyncEngine`'s; here it only starts and ends.

Definitions named `X_Something` and commented "Slip" are plausible mistakes in
`X`, used to confirm that each property can fail.

## Runs

| run | instance | checks |
|---|---|---|
| `rules` | one path, four hashes; upload lists of up to five files of size 0..3 with a budget of 2 and at most 3 operations | `TypeOK`, `ParentIsCurrent`, `ChangeSurvivesCycle`, `CycleSettles`, `ChunksAreGreedyCover` |
| `server_concurrent` | two request slots, two paths, contents of 1, 2 and 9 bytes in a 3-byte vault, three requests, all in one second | `TypeOK`, `QuotaHolds`, `HistoryComplete`, `ImplementsService`, `RequestEnds` |
| `server_failures` | one slot, four requests in different seconds, one failure of any kind, two versions kept, retention of 2 s, clock to 3 | `RowBlobAgree`, `RowContentKept`, `TrashHoldsDeleted` |
| `engine_race` | two devices, a path and its conflict copy, overlapping cycles, three edits or restores at any moment, four server revisions, KeepBoth, KeepRemote and Defer, kept plans resumed | `TypeOK`, `EtagSound`, `PlannedConflictIsForeign` (not for conflict copies) |
| `engine_serial` | two devices (one joining), two paths in one batch, an oversize content, two edits or restores, one new ignore pattern, one failure, cycles that do not overlap | `NoSilentClobber`, `NoLocalLoss`, `LateConflictIsForeign`, `IgnoredUntouched`, `Converges` |
| `engine_resume` | two devices, two paths, kept plans resumed | `NoSilentClobber` is **violated** |
| `daemon_live` | one path, endless edits, remote writes (also during a cycle) and commands, one failure; quiet 1 tick, batch window 2 | `TypeOK`, `Tracked`, `EditSynced`, `RemoteLands` (not for absorbed writes), `LoopRests` |
| `signin` | a CLI and a desktop, two addresses, two codes with one attempt each, one invite, three accounts, a clock of two instants | `CodeBudget`, `InviteMakesOneAccount`, `InviteListingHonest` |
| `keys_passphrase` | a CLI and a desktop, no passphrase yet, two passphrases and two keys, one failure | `StoredKeyIsTheAccounts`, `VaultsStayOpen` |
| `keys_approval` | a desktop and a phone, either of which holds the key, three requests and sign-ins, one failure | `CollectedBlobGone`, `AnswerHandled` |
| `vaults` | a CLI and a phone, two vault ids with a limit of one, two uploads, four commands, one failure | `VaultsTypeOK`, `VaultLimitHolds`, `OrphansGo` |
| `host` | a desktop with two daemon slots and a phone, one vault, two commands, one failure | `ListedVaultHasKey`, `ForgottenVaultRests`, `MarkReleased` |

Why the bounds are enough. All gates and diffs compare hashes for equality
only: a base, a local, a remote and a fourth value give every pattern of
equality on a path, and two or three suffice across devices. Two requests are
the smallest set that can race; a third started later meets what the race left.
Two paths are needed exactly where paths share something: the quota, a batch,
a checkpoint, a conflict copy. Two edits and a third let both devices change a
path and one of them change it again after a sync. One failure at any step
covers the single-fault behaviours; the budget is a constant.
The daemon's paths meet only in the debouncer's batch, so its run has one path;
that a busy path does not hold a quiet one back is therefore not part of it.
Its durations are one or two ticks, which keeps the order of the batch window
after the quiet period and makes the rest coincide, and it has one poll interval.
In the account runs two devices are the smallest set that races; one attempt per
code puts the second request at the limit; two keys and two passphrases are what
two first settings produce; a third request lets one be replaced while an
earlier one is being answered. A limit of one vault with two ids puts the second
creation at it. Two daemon slots are one told to stop and its successor, which
`reconcile_daemons` may start before the first has ended.
`CHECK_DEADLOCK FALSE` in the configurations: when the bounds are used up and
every cycle has ended the system may rest.

Fairness. `VaultServer`: a handler that started runs on (weak fairness of its
own steps), and Postgres queues the waiters of a row lock, so a waiter is not
passed over for ever (strong fairness of `LockAndCheck`). Failures, new
requests and the clock are never forced. `SyncEngine`: hosts keep starting
cycles by timer, poll or hand, a started cycle runs on, and a user answers a
plan's conflicts; strong fairness of `Walk` only matters where `MaxActive`
makes devices take turns. `Converges` is checked with KeepLocal and KeepRemote
offered: a user who defers for ever keeps the sides apart for ever, rightly.
`Daemon`: time passes and a cycle ends (weak fairness; every request has a
timeout), and `select!` looks at its branches in random order, so one that is
ready again and again is taken (strong fairness). Edits, remote writes,
commands and failures are never forced. Time does not pass a wake-up that is
due while the loop is idle, so a tick is far longer than a branch takes.
`AccountKeys`: a waiting device polls every few seconds (weak fairness of its
poll's steps); approvers, users and expiry are never forced. `AnswerHandled` is
about the apps, which poll while their window is open; the CLI stops when its
user stops it. `Vaults`: an accepted upload is stored, directories grow old and
the retention pass runs every hour. `DesktopHost`: what has begun goes on, and a
daemon that keeps meeting its stop in `select!` takes it (strong fairness).

## What the model shows the code does against its documents

The violation run:

- `engine_resume`: a plan made by `SyncPlan::from_late_conflicts` is completed
  without a walk and without downloads, and with no failures to hold back, so
  its checkpoint moves the base of every other path to the server's version,
  downloaded or not. The next cycle takes the old file for a local change and
  uploads it over the newer one. `docs/architecture.md` says racing writes
  "either succeed or surface a conflict, never silently clobber".

Seen with other constants or read off the model, without a run of their own:

- `RowContentKept` fails with two slots and a failed commit: the row lock may be
  released before `undo` runs, a second writer commits, and `undo` removes that
  writer's blob. `apply_put` promises "the row and the file never disagree".
- `NoLocalLoss` fails with `EditMidCycle`: `delete_local_file` and the download's
  write do not look again at the file the walk hashed, so an edit made in
  between is lost. `spec.md` says "Conflict detection means no silent data loss".
- `obsink watch` reports a fatal failure as "retrying in Ns", but the trigger is
  used up before the cycle runs: the debouncer has given up its paths, and
  `remote_changed` has saved the new ETag. After the wait nothing starts a cycle
  until a new file event, another remote change or a command.
- A file deleted on one device and restored from the trash on another whose
  checkpoint still holds it live is deleted again by the next cycle: local equals
  base and the server has a tombstone. The comment on `restore_trash` has it that
  "A restored deletion syncs with the tombstone as its parent".
- `TrashHoldsDeleted` fails with two slots: the second in a trashed blob's name is
  read before the lock, so the later delete may carry the earlier name.
- `HistoryComplete` fails with several slots when requests do not come in turn
  (`InTurn` of `VaultServer_proofs`): a request takes its time before it waits
  for the row lock, so an older delete may commit after a newer one and
  `get_trash` opens the newer one's file; and when more versions than are kept
  carry a time as late as the one just archived, the retention pass may cut that
  one.
- `NoSilentClobber` fails with `MaxActive = 2`: the checkpoint's second fetch
  takes in a row that another device wrote after this cycle's plan.
- `NoSilentClobber` fails with `EditMidCycle` although cycles do not overlap: an
  upload sends the content of the disk with the hash of the walk, so a version
  is in the manifest whose bytes its hash does not name.
- A conflict copy has a fixed name (`conflict_copy_path`), and a second KeepBoth
  writes it over the device's own earlier copy: the upload, which names no
  parent, gets a 409 for the device's own version, the path is held back, and
  the next plan has the device in conflict with itself there.
  `PlannedConflictIsForeign` therefore leaves the copies out.
- `NoSilentClobber` fails for a device that starts with an ignored path and
  lifts the pattern: the checkpoint stored the rows of ignored paths, and a base
  entry without a file is a local deletion.
- `NoLocalLoss` fails with KeepRemote on a resumed plan after a new edit, and
  with KeepBoth when an unsynced file is at the copy's path.
- A batch that is sent again is applied a second time if another device put the
  parent content back between the attempts.
- `Tracked` needs `missed`: an edit made before the daemon started, and one made
  to a downloaded path within `SELF_WRITE_GRACE` of the download, leave no
  trace in the daemon and wait for another trigger. `docs/platforms.md` has an
  edit "on the server a couple of seconds later".
- `RemoteLands` needs `absorbed`: a cycle uploads a path, another device writes
  the path again before the checkpoint, and the checkpoint's second fetch puts
  that write into base and ETag. The next polls answer 304, and the write is not
  downloaded; the next cycle takes the older file for a local change.
  `docs/platforms.md` says "a change from another device lands within the poll
  interval". The same fetch is behind `NoSilentClobber` with `MaxActive = 2`.
- A command's cycle that succeeds during a backoff does not lift it
  (`suppressed_until` is only cleared by the timer branch);
  `docs/architecture.md` has triggers suppressed "until a cycle succeeds".
- `RowContentKept` fails with two slots and a disconnect: the blob task of the
  dropped handler runs on without the lock.
- `RowBlobAgree` without `OnlyCommitsFailed` fails under a crash: nothing
  repairs blob files whose row was never written. This is why the property is
  restricted and `RowContentKept`, which does hold, is stated beside it.
- An uncertain commit leaves a row whose blob `undo` has dropped; with as many
  cut-off writes as versions are kept, or two versions in one second, the
  retention pass can drop the content of the live row. `RowContentKept` names
  these exceptions in its hypothesis; `OneWritePerSecond` keeps the last one out
  of `server_failures`.
- Desktop: `run_sync` runs a cycle itself when the vault has no daemon, and a
  `reconcile_daemons` meanwhile starts one whose first cycle overlaps it;
  `docs/platforms.md` has it that "no two cycles overlap".
- Desktop: `Stopped` of an old daemon removes whatever handle the map holds, so
  the daemon that `reconcile_daemons` started in between loses its handle and ends; a
  daemon whose watcher cannot be set up returns without `Stopped`, and its dead
  handle stays until the vault is removed, while `docs/platforms.md` says "Every
  vault that can sync (on this server, key in the Keychain, signed in) gets a
  daemon"; a `Conflicted` event that arrives late
  leaves a plan for a vault that was forgotten.
- Desktop: a 401 forgets the bearer that is stored when the answer arrives, which
  may be a newer one, and does not reconcile the daemons; the vault list is read,
  changed and written without a lock.
- A cycle still running when its vault is removed reports its checkpoint at the
  end (`report_checkpoint`), which attaches the device to the vault again.
- `authorize_signup` counts the accounts without a lock, so two first sign-ups
  may both pass without an invite.
- The CLI and the phone take the approval row for their own request without
  comparing the public key, so a request replaced by another program under the same
  device id makes the earlier one fail on a blob it cannot open.

## Proofs

A theorem holds for every value of the constants: any number of devices,
paths, requests and vaults, any limits and bounds. Each proof module states an
inductive invariant, proves that `Init` gives it and that every step keeps it
(one lemma or step per action) and derives the properties. The assumptions on
constants are the `ASSUME`s of the modules: limits are numbers, finite sets are
finite, a sentinel differs from what it stands beside. A theorem with
hypotheses of its own names them.

**`ThreeWay_proofs`**: `TypeCorrect`, `ChangeSurvives`, `Settles`,
`ParentPresented`. The type invariant carries the one strengthening the others
need: a *live* base or row has the hash of a content and never the empty hash.
Without it a live entry with `NoHash` could meet `None` on the other side as a
different version. The argument is the case split of the diff's outcome table.

**`VaultServer_proofs`**: `ServerTypes`, `QuotaKept`, `RowsAndBlobs`,
`Implements`, `RowsAndBlobsUndone`, `TrashOpens`, `ContentKept`,
`HistoryOfOneWriter`, `HistoryInTurn`. `QuotaHolds` is not inductive: a handler checks the budget long
before it commits. `ServerInv` adds that a handler past the gate with an open
transaction holds the row lock, that the row it read is still the row
(`LockInv`), and that its check still holds now (`GateInv`). The first two
theorems hold under every failure of the model. The sum of the live sizes is a
fold over a set, about which nothing can be proved by induction here; what is
needed (adding, removing and replacing one element of a finite set) is proved
from the fold's recursive function with the least counterexample.
`FullInv` adds what the blob files are while nothing has failed (`Calm`): a
path under no write has the blob of its row, and one under a write has in its
undo token what the row says.
`RowsAndBlobs` assumes `"commit" \notin Faults`. With failing commits and two
writers the property is false (an `undo` after the row lock is gone, see above).
`RowsAndBlobsUndone` has it with failing commits for one writer. `Implements`, the refinement of `GateService`,
assumes that nothing fails, as the run does: it maps each step to `Submit`,
`Serve`, `Refuse` or a stutter, and at the commit the gate's verdict is still
the abstract gate's because of `LockInv` and `GateInv`.

The theorems about what versions and trash hold stand on one of two hypotheses.
`OneByOne(w)` is what `server_failures` satisfies: one request slot, no two
writes in one second, at least one version kept. Under it `RowBlobAgree`,
`TrashHoldsDeleted` and `RowContentKept` hold under every failure (a crash, a
disconnect, a commit that fails or whose outcome is unknown), and
`HistoryComplete` when only commits fail. What a row's content needs is not
inductive: after a crash the live file may be gone and the content is in a
version or a trashed blob, from which a later pass could cut it. `WriterInv`
therefore says where everything is: history carries times that have passed and
a request is younger than all of it but its own entry (`Past`); the request works
on the row it read and the file it moved (`Placing`); while at most commits have
failed, all other paths agree with their rows and the undo token has what the
row says (`Clean`); the newest trashed file of a deleted path has its row's
content (`TrashInv`); and the content of a live row is in its place or in a tier,
in a tier while its path is being written (`Safe`). `Safe` counts: only a
write that a failure cut off puts a version on top of the content of a live row,
so the content has a rank of at most one more than there were failures, and
`FaultCount < MAX_VERSIONS_PER_FILE` keeps it from the pass.
`HistoryInTurn` is for any number of writers, several writes in one second
included, when nothing fails (`Faults = {}`) and requests come in turn: while a
request holds the lock, a delete is not older than what the trash has of its
path, and no more versions are as new as the request than are kept. `TurnInv` has the
blob that a handler has just set aside still there at its commit; the pass
between them keeps it because of the second condition. Both conditions are
needed (see above), and each behaviour of `server_concurrent` has them.

**`SyncEngine_proofs`**: `EngineTypes`, `EtagKept`, `IgnoredKept`, `LocalKept`,
`LateForeign`, `ClobberFree`, `PlannedForeign`.
The types of a running job (conflicts with two sides, uploads, operations and
answers that match one by one) are proved once, for jobs restricted to any set
of paths `P` (`JobIn(P)`). With `P` the paths of the vault this is the type
invariant; with `P` the paths the device does not ignore, and the conflict
copies, it is the invariant of `IgnoredKept`. `EtagSound` is inductive beside
the types: a write moves the revision past every cache, and a fetch stores the
rows under their own revision.
`IgnoredKept` assumes that no plan is resumed or that the patterns do not
change: a plan kept across a change of the patterns does touch a path that has
become ignored. `LocalKept` rests on `FaithfulInv`: what a job is going to
delete or fetch is, on disk, still what the checkpoint holds, and a file with
an open conflict is still the conflict's local side. Its hypotheses are
`~EditMidCycle`, `~ResumePlans` and `"KeepBoth" \notin UserChoices`; each of the
three, when dropped, has a counterexample in the section above. Other devices,
overlapping cycles, failures and resends are not restricted.
`LateForeign` (for `LateConflictIsForeign`) rests on `AimedInv`: a cycle has one
plan for a path, and every conflict, upload and operation is aimed at the row it
will meet: if the device wrote that row last, its hash is the parent the write
will name, or, for an operation already sent, the row is the one it wrote
itself. A plan is aimed because the manifest it was made from is the server's
(`EtagSound`), another device's write makes the row foreign, and a device's own
write touches no other part of its plan. The hypotheses are `~ResumePlans` and
`"KeepBoth" \notin UserChoices`: a kept plan is answered with the parent of the
cycle that found it, also after the device itself has written the path since,
and a conflict copy is uploaded with no parent, also onto a copy's path that the
device wrote before. Edits within a cycle, overlapping cycles, failures and
resends are not restricted.
`ClobberFree` (for `NoSilentClobber`) puts the two together for cycles that do
not overlap. Its invariant, `ClobberInv`, says that what a cycle walked, was in
conflict with, uploads and sends is known to the device (it was on its disk, or
was shown to its user), and so is every row of its checkpoint; and that every
row was met once the cycle has planned, unless it is still to be downloaded or
is held back (`Informed`). The checkpoint's second fetch is the critical step:
with `MaxActive <= 1` every row in it that the plan did not have is the device's
own write, whose hash is that of the bytes on disk (`~EditMidCycle`). The other hypotheses are `~ResumePlans`, no lifted pattern
(`[][IgnoringMore]_vars`) and `"KeepBoth" \notin UserChoices`. Each of the first
four has a counterexample in the section above when dropped. The last is what
the argument through `FaithfulInv` and `AimedInv` needs; TLC found no violation
with KeepBoth. Failures and resends are not restricted.
`PlannedForeign` (for `PlannedConflictIsForeign`) compares a write of one cycle
with the plan of a later one. Its invariant, `OwnInv`, says that a row that a
device wrote last is in its checkpoint, or that the cycle which wrote it is past
the path and does not hold it back, so that its checkpoint will have it
(`Owned`, `Underway`). That a written path is not held back needs one plan per
path (`Single`): hold_back then only has paths for which the cycle has no
write. A plan is made before the cycle writes anything, from the server's rows
(`EtagSound`), and a conflict needs a row that differs from the checkpoint. The
only hypothesis is `MaxFaults = 0`: a cycle that is cut off after a write never
reaches its checkpoint, and when the file is edited again before the next one,
the device's own write is the other side of a conflict. Kept plans, overlapping
cycles, edits within a cycle and conflict copies are not restricted.

**`Daemon_proofs`**: `DaemonTypes`, `EditsTracked`. `CycleInv` says what a
running cycle knows: a file that changed since the walk has its event under
way, a kept plan is the pending one, and a fresh plan has every path that
differed at the walk. Without it the end of a cycle could drop an edit.

**`SignIn_proofs`**: `CodeBudgetHolds`, `InviteOnce`, `InviteListing`. A code is
in one place (about to be stored, or in one row), a transaction past the check
has its row to itself, and a code that can still be checked is unspent and has
counted every wrong guess; an invite row that is unused has made no account and
is locked by at most one sign-up. The proof of `InviteOnce` asks that an invite
code is never handed out a second time, which the code gets from its random
tokens and the model from `issued`.

**`AccountKeys_proofs`**: `StoredKeys`, `VaultsOpen`, `CollectedGone`. Whatever
carries an account key (the account row, a keychain, a command, a request's
blob, a vault's wrap) carries the account's. For `CollectedGone` every request
has one owner (`OwnInv`, which says that some assignment of requests to devices
exists), and a device that has collected its key leaves nothing of its requests
behind.

**`Vaults_proofs`**: `VaultsTypes`, `VaultLimit`, `ListedKeys`. The command that
has counted is alone, under the limit, and its vault is in no table yet; a key is
saved before the entry that needs it, and the keys that a command is going to
delete have no entry any more.
**`DesktopHost_proofs`**: `HostListedKeys`, `HostVaultLimit`. The invariant of
`Vaults` is kept by the desktop's own steps, because they leave its state alone
or cut a command off at a point that any other failure could.

Only model-checked:

- liveness: `Converges`, `RequestEnds`, `AnswerHandled`, `OrphansGo`,
  `EditSynced`, `RemoteLands`, `LoopRests`, `MarkReleased` and
  `ForgottenVaultRests`; fairness is out of the prover's reach;
- `ChunksAreGreedyCover`: what the fold of `chunk_uploads` computes for every
  list needs induction over the list.

## Plan

1. Done: the rules, the server's writes with their refinement, history and
   retention, the engine, the daemon, accounts and keys, vaults, the desktop host.
2. Done: the type and safety invariants of all state machines, with the
   refinement of `GateService`.
3. Done: what versions and trash hold, for one writer under failures and for
   writers in turn; `NoSilentClobber` for cycles that do not overlap;
   `PlannedConflictIsForeign`. Next proof: the refinement with failures that the
   service's `Refuse` covers.
4. In `SyncEngine`, a first attempt of a batch that still runs while the second
   is applied.

## Not modelled

Key derivation and sealing, HTTP parsing and the request rate limits, the pattern
language of ignore rules, the stat memo of the hash cache, names (of vaults,
devices, accounts) and the commands that change them, previews, progress and the
activity log, and the UI. The legacy keychain entries that `load_bearer` moves
are left out, and so are failures to write the two cache files, which the code
only logs. The iOS item store depends on when the system calls the File
Provider extension, and the web driver on the browser's tabs and storage:
both rest on contracts that are outside this repository, and the rules
they share with the engine are `Manifest` and `SyncRules`. `PROJECT.json` lists
every component with its status.
