# FTPeach: a TLA+ verification project

FTPeach is a desktop client for FTP, FTPS, SFTP and WebDAV: a Rust backend
(`src-tauri/src`) under a React renderer (`src`). This directory models the
parts of it in which several tasks, connections, programs or crashes meet,
checks the models with TLC and proves their main safety properties with TLAPS.

## Inventory

| Component | State it keeps | Operations | Talks to | Hard because |
|---|---|---|---|---|
| Concurrency limiter (`transfer/concurrency_limiter.rs`) | count of active transfers, the limit, waiting futures | `acquire`, `try_acquire`, `Permit::drop`, `set_limit` | every pool | a wake-up between the failed try and the await |
| Transfer pool (`transfer/transfer_pool.rs`) | per connection: idle workers, queue, active map, early-Stop marks, growth gate, generation | `run_notified`, `run_pair`, `cancel`, `cancel_all`, `destroy`, `wait_until_idle`; background growth, drain, idle release | limiter, backends, session, transfer service | detached tasks, locks released around network calls, two pools locked by a relay |
| Relay pipe (`transfer/relay.rs`) | a bounded byte pipe, two one-shot answers | copy a file from server to server | two pools, transfer service | the end of a pipe looks the same whatever ended it |
| Progress (`transfer/progress.rs`, `useTransferProgressAdapter.ts`) | the pending notice of each transfer, timers | batch, delay, settle | every transfer, the window | notices and the command's answer overtake each other |
| Upload staging (`transfer/upload_staging.rs`, `application/upload_resume.rs`, `application/staging_cleanup.rs`) | active attempts, paused staging files, pause marks | `begin`, `end_attempt`, `stop`, `take`, `release`, `discard_for_connection`, `retain_for_connection`, `resolve`, `cleanup_remote_partial` | transfer service, session teardown | Pause, Resume, Stop and disconnect overlap while an attempt unwinds |
| Set-aside replacement (`protocol/set_aside.rs`) | map of replacements cut off between two renames, its file | `replace_by_setting_aside`, `put_back_set_aside`, `strand_set_aside`, load and save | backends, staging cleanup | lost replies between renames, a crash, the next connection |
| Transfer service, transfer files (`application/transfer_service.rs`, `protocol/transfer_file.rs`) | attempts, partials, resume records | `transfer_upload`, `transfer_download`, `transfer_remote_copy`, `transfer_cancel` | all the above, target reservation | composition of all the above |
| Session registry (`session.rs`, `application/session_service.rs`) | slots, pools, connecting tokens | connect, register, disconnect, teardown | pool, staging | slots are shared handles that outlive their map entry |
| Target reservation (`local_fs/target_reservation.rs`) | leases | acquire, drop | transfer service, file commands | nested and aliased paths |
| Recursive transfer (`application/recursive_transfer/`) | journals of paused walks | walk, pause, resume, discard, take back, move | transfer service | long sequences, other programs in both folders |
| Protocol backends (`protocol/ftp*`, `protocol/sftp*`, `protocol/webdav*`) | one connection, its pipelined requests | connect, list, read, write, rename, remove | pool, session | replies without names, requests in flight, replies lost after their effect |
| Storage and stored documents (`store/`) | JSON documents, last-good copies, revisions | read, write, recover, export, import | commands, settings UI | crash between two writes, concurrent savers, partial failure of an import |
| Vault, grants, auto-lock (`security/`, `runtime/vault_auto_lock.rs`) | lock state, epoch, one-time grants, where a password is | set up, unlock, lock, reset, migrate, confirm, consume | commands | a switch that a crash or a lock cuts in two |
| Local filesystem, open-with (`local_fs/`, `commands/fs.rs`) | files, staged copies, edited copies, recovery folder | create, rename, move, copy, delete, edit, collect, recover | commands | other programs write meanwhile |
| Updater (`runtime/updater*.rs`, `runtime/update_staging.rs`) | a staged package and its manifest | check, download, stage, install at start or on request | the system's installer | a failed installer, a failed write, a changing feed |
| Shutdown, tray, sleep guard (`runtime/`) | the flush handshake, the tray's model, the inhibitor | close, quit, ask, hide, wind down | the window | two clicks, timers, a window that does not answer |
| Protocol log (`runtime/log_emitter.rs`, `src/features/logs`) | numbered records, a bounded queue | record, batch, flush, history | every backend, the log panel | history and live batches overlap, the queue is full |
| Renderer (`src/`) | transfer rows and attempts, settings, tabs | queue, pause, resume, retry, Stop, save | IPC commands | answers that arrive out of order |

What makes each correct: the limiter never exceeds its limit nor forgets a
waiter; the pool gives every transfer one answer, stays within the site's
logins, never blocks a relay against another and closes completely; a staging
file always has an owner or a record until it is removed; a target always keeps
one version of the file, and never half of one; a closed session leaves no
work; leases keep two writers apart; a walk removes only what it has copied; a
connection's replies go to the operation that asked; a document survives a crash
at any write; a password is always somewhere; a grant never outlives its vault
session; an edited copy is kept until it is uploaded or discarded; a row says
what its own attempt said.

`PROJECT.json` lists the components one by one with what is left out of each, and
the hazards of the code at their lines.

## Modules

| Module | What it is |
|---|---|
| `Semaphore` | What the limiter promises: a counting semaphore whose limit may change at any time, and that does not starve a waiter while it has room and the limit stays. |
| `ConcurrencyLimiter` | `concurrency_limiter.rs`, interleaved at the mutex and at each call of `Notify`. Refines `Semaphore`. |
| `TransferPool` | `transfer_pool.rs`: any number of pools, transfers and relays over one limiter. |
| `UploadStaging` | An upload's staging file from its first byte to its last: `upload_staging.rs`, `upload_resume.rs`, `staging_cleanup.rs`, the upload half of `transfer_service.rs`, `disconnect`, and the renderer's rows that ask for it all. |
| `SetAside` | Replacing a file on a server that will not rename over one, and the crash and connection loss in the middle of it. |
| `RelayCopy` | A copy from server to server: two tasks, the pipe between them, the staging file, the rename. |
| `DownloadFile` | The partial, its resume record, the second question to the server and the commit. |
| `TransferRows` | From `ProgressEmitter` to the row in the window. |
| `Sessions` | The session registry under concurrent connects, browse calls, cancels and disconnects. |
| `TargetReservation` | The process-wide leases. |
| `FolderWalk` | A folder copy or move with its journal. |
| `FtpChannel`, `SftpPipeline`, `WebDavClient` | One connection of each protocol: control and data replies; requests in flight; several requests to an operation. |
| `StoredDocument` | One JSON document and its last-good copy. |
| `VaultSecrets` | Where a saved password is, while vault and bookmarks file are switched. |
| `SensitiveGrants` | Plans, confirmations, grants and what withdraws them. |
| `SitesTransfer` | Export and import of bookmarks and settings. |
| `EditedCopies` | Copies opened in an editor, and their recovery. |
| `LocalMutations` | The file commands of this computer. |
| `Updater` | Offer, download, staging, installation. |
| `Quit` | The close button, the tray, the flush handshake, the question, winding down. |
| `SleepGuard` | The sleep inhibitor and its thread. |
| `ProtocolLog` | Records on their way to the log panel. |
| `ConcurrencyLimiter_proofs`; `TransferPool_proofs`, `TransferPool_safety_proofs`; `UploadStaging_proofs`, `UploadStaging_files_proofs` | The theorems of the three modules of those names. |
| `Files_proofs` | The theorems of `SetAside`, `DownloadFile`, `RelayCopy`, `FolderWalk`, `EditedCopies`, `TargetReservation` and `LocalMutations`. |
| `Network_proofs` | Those of `Sessions`, `FtpChannel`, `WebDavClient` and `SftpPipeline`. |
| `Desktop_proofs` | Those of `TransferRows`, `SleepGuard`, `Updater`, `SensitiveGrants`, `VaultSecrets`, `StoredDocument`, `Quit`, `ProtocolLog` and `SitesTransfer`. |
| `MCLimiter`, `MCPool`, `MCRelays`, `MCStaging`, `MCSetAside`, `MCSftp`, `MCQuit`, `MCApp` | Constants for the runs. |

`PROJECT.json` ("map") gives the lines each definition models. The sections below
say what a module's variables stand for and what its actions leave out.

### The limiter

`active`, `limit` and the registered waiters are the mutex's state and Tokio's
`Notify`. A client walks `idle → enabling → trying → parked`: it creates the
`Notified` future, registers it with `enable()`, tries, and only then awaits it.
`DropCount` and `DropNotify` are the two steps of `Permit::drop`; `SetLimit` and
`SetLimitNotify` those of `set_limit`. Another client may act between any two.
`Notify` itself is external: `notify_waiters` wakes the futures registered by
then and stores nothing for later ones.

### The pool

One step is one critical section of `PoolState`'s mutex, or the code between
two awaits that touches nothing another task reads. The correspondence:

| Code | Model |
|---|---|
| `PoolState.workers`, `queue`, `active`, `cancelled_ids` + `cancelled_order`, `retry_growth_after` | `workers` (how many), `queue`, `active`, `cancelled` (a sequence), `retryGrowthAfter` |
| `destroyed`, `growth_cancel`, and how far `destroy` has got | `closing`, `doomed` |
| `growing_gate` (an async mutex, first come first served) and the locals of `grow_workers` | `growingGate`, `growth` |
| `growth_changed` (`Notify::notify_one`: one stored permit) | `growthChanged` |
| `pair_turn` | `pairTurn` |
| `generation` and the spawned `release_when_idle` tasks | `releases`: the sleeping tasks that know the present generation; `Dispatch` resets it |
| a `Permit`, an `Arc` the legs of a relay share | `permits`: the legs that own a clone; `Admission` maps both legs of a relay to it |
| a call of `run_notified`, a call of `run_pair`, the spawned runner | `caller`, `relay`, `runner`: program counters |
| `oneshot` result, `CancellationToken` | `answer`, `token` |

`Submit … CallerSeesLimit` are `run_notified`; `GrowLogin … RetryDelayPasses`
`grow_workers`; `Drain`, `RunnerAcquires … RunnerDrained` the body of `drain`;
`Release` is `release_when_idle`; `RelayAsks … RelayJoins` `run_pair`;
`Cancel`, `CancelAll`, `DestroyTakes`, `DestroyTells`, `WaitedUntilIdle` the
functions of those names. `PROJECT.json` gives the lines of each.

The limiter appears through `Semaphore`'s contract: `HasRoom` and `permits`. The
property `UsesLimiter` is that the pools together, a relay counted once, behave
as clients of that semaphore.

What the model leaves out: bytes, progress and logging; the sleep guard; the
lengths of times (a delay may end at any moment); `PoolSize::Fixed`, which only
tests construct; the "already running" refusals, as every transfer id is fresh;
the disconnecting of workers after they left the pool's state. Two shortcuts: a
caller that stands in a `select!` returns in the same step that answers it
(returning touches nothing), and a finished runner's permit is dropped in its
settling step.

### Staging files

One connection, any number of rows (`Uploads`) with destinations that may
coincide. An attempt is a pair of a row and a number; a staging file is named by
the attempt that made it, and `partial[a]` is the file an attempt works on, its
own or one it adopted.

| Code | Model |
|---|---|
| a row's status, its attempt, `cancelIntentRef`; the IPC commands it sent | `row`, `tries`, `intent`, `calls` |
| one call of `transfer_upload` | `pc[a]`: `called → reserved → (verifying) → (discarding) → ready → begun → queued → running → writing → (unsure) → ended → live/notlive → (cleaning) → returned` |
| its locals | `resume`, `resumed`, `partial`, `started`, `result` |
| `upload_staging::State`: the active map, the paused map, the pause marks | `active`, `paused`, `marks` |
| one call of `transfer_cancel`, between the registry and `pool.cancel` | `told` |
| `TargetReservation`; the pool's tokens and early-Stop ids | `lease`; `token`, `poolCancelled` |
| the tasks spawned by `cleanup_remote_partial` | `cleanup` |
| `disconnect`, `teardown_session` | `session`: `open → leaving → removed → taken → sweeping → closed`, with `sweep` the files taken and not removed |
| the server; the log | `onServer`, `reported` |

`Upload … CloseRows` and `Answer` are the renderer; `Reserve … Cleaned` an attempt;
`BeginPause`, `BeginStop`, `PoolCancel` a command; `CleanRemoves`, `CleanGivesUp`,
`CleanFindsNoSession` a cleanup; `RemoveSession … CloseSession` a disconnect.
Where the code reads something and acts on it later there are two steps:
`Settle` reads whether the connection lives and `EndAttempt` uses it under the
registry's lock; `BeginPause` marks and `PoolCancel` tells the pool; `Discarded`
and `Cleaned` may come before the cleanup they wait for, as a cleanup that
outlasts its budget goes on by itself; `CloseSession` may come at any time after
the removal, as the teardown's deadline may.

The pool appears through what `TransferPool` shows of it: a queued task is
cancelled at once, a running one is told and ends, an unknown one is remembered,
a closed pool takes no task. Assumed: a row's commands begin in the order the
renderer sent them. Left out: bytes and hashes (a verification may succeed while
the file is there, or fail), the set-aside step before a removal (module
`SetAside`), journals of recursive transfers and remote copies, which
keep their files by the same registry; a Stop of a row already stopping, which
repeats a command; the pool's marks for attempts that are over; the lengths of
the budgets.


### Replacing a file

`SetAside` has one name on one server and uploads to it over one session.
`nameHolds`, `partials` and `hidden` are the server's files, `setAside` the map
`SET_ASIDE`, `keptStranded` the file `stranded-replacements.json`. `upPc` walks
`move → aside → over → restore / clear`, each a request whose reply may be lost
with or without its effect; `pane` is the session with the restore at its start
(`put_back_stranded`) and the teardown at its end. `SizesAnswered` is TRUE in the
runs: `published_anyway` reads a question for a size that nobody answers as "the
staging file is gone", which would report an upload as done that is not.

### Copies between servers

`RelayCopy` has the two legs of `transfer_remote_copy` with what each owns: the
source its end of the pipe and two one-shot senders, the target the other end and
the receivers. What a task owns goes with it when it is dropped, so that an end of
file, an answer never given and a cancelled leg all reach the other side in the
ways the code must tell apart. `StopsLeg` cancels one leg at a time, as
`transfer_cancel_remote_copy` does. The rename at the end is one step here:
`SetAside` has its inside.

### Downloads

`DownloadFile` has one destination with its partials and its resume record. An
attempt is `reserve`, `source_identity` with `prepare`, `open_artifact`, the
record, the pieces, the second `source_identity` of `unless_changed`, and `commit`
or `finish`; it may be dropped at any await. A piece is the version of the remote
file it came from. `dUnasked` marks the one case the code lets through: a server that does
not tell enough of its file to be asked again.

### What the row shows

`TransferRows` has `ProgressEmitter`'s pending notices and timers, the command's
answer, which goes another way, and the row. Each notice is taken under the
emitter's lock and sent outside it.

### Sessions and leases

`Sessions`: a slot is named by the call that made it, `at[c]` is the `Arc` a call
holds, `slots` and `pools` are the two maps, `holder` the slot's async lock,
`occupant` the session in it. A call is a connect, a browse call, a cancel or a
disconnect, each with the steps between its awaits. `TargetReservation`: `leases` is the
process-wide list, `using` what each operation really reads and writes, which is
what the property speaks of; `Key` is the code's normal form of a path.

### Folder walks

`FolderWalk` has one row and its attempts. A file is the version of its source, an
object at the target carries a number no other write has, which is what a receipt
identifies. `wJournal` is the journal, `wKept` the map `PAUSED`, `wEarly` the
cancels that came before their walk. Other programs write in both folders, but
not at a name between the landing of its file and its stamp: in that window the
walk would take their file for its own, as the code would. Folders and links are
one kind of entry; the transfers of single files are in the modules above.

### Connections

`FtpChannel`: `fWire` holds the replies not read yet, each with the operation it
answers, `fRest` the offset the server remembers. An operation may be dropped at
any step; `with_stream` keeps the connection only if it completed or was refused.
`SizeAnswered` is TRUE in the run: a REST left pending by a refused PASV makes the
next transfer start elsewhere, which the code notices only by the length.
`SftpPipeline`: `unsent`, `wire` and `replies` are a window's write tasks on their
way; `SendsInOrder` says whether they leave in the order they were spawned, which
the runtime does not promise (see `resumed_hole`).
`WebDavClient`: the first PROPFIND with its redirect and its sign-in, then one
operation made of requests, each of which may be served and its reply lost, while
another client acts. Listing parsers and character sets are left out.

### Documents, passwords, grants

`StoredDocument`: `live`, `lastGood` and `copies` are the files of one document,
each the set of edits it holds and how it decodes; `issue` is what the
session knows of them. Saves are read-modify-write under a lock, readers go
without it. `VaultSecrets`: `enc` is the password under the system's protection in
`sites.json`, `held` the one in `vault.dat`; each file is replaced by a rename. With
`MigrationAlone` no save starts while passwords move into the vault:
`migrate_secrets_to_vault` does not take `vault_updates`, so the code does not
exclude it. `SensitiveGrants`: of the sixteen operations four stand for their
kinds. `SitesTransfer`: an import writes the vault, two documents and the settings, and
undoes them when a later write fails, while the user edits bookmarks.

### Files of this computer

`LocalMutations`: a command reserves its paths, waits for the guard, checks, checks
again and acts; other programs create and write files at any moment, but not
between the last check and the call beside it, a window the code accepts.
`EditedCopies`: one session directory from the run that fills it to the run that
collects it. A revision is the number of its save: two saves with the same
modification time and length are not told apart by the code and not modelled.
`Updater`: a package is the version it carries; signatures are a check that holds or not.

### Ending, sleeping, logging

`Quit`: `handshake` is `pending_flush` and what each caller heard, `writers` what the
window still holds, `trayModel` and `models` what the window last said of itself,
`question` the renderer's `useQuitWhenIdle`. `SleepGuard`: the flag, the channel with
room for one wakeup and the thread. `ProtocolLog`: `recent` is the record buffer with
the bounded channel, `writer` the task that batches, `barrier` the flush of a quit,
`panel` the log panel with the history it asks for.

## Runs

| Run | Instance | Shows |
|---|---|---|
| `limiter` | 3 clients, 2 setters, limits 0 (unlimited), 1, 2 | `NoLostWakeup`, and that the limiter implements `Semaphore` under fairness |
| `pool_queue` | one pool of 2 logins, 2 transfers, one may be stopped, the server may refuse or drop connections | one answer each, logins within the site's limit, no Stop lost, nothing stranded, wanted logins are opened |
| `pool_close` | one pool of 1 login, a transfer and two relays within the server, global limit none or 1, the session may close both ways | a closed pool holds nothing; closing ends although transfers need not |
| `relays_opposite` | two servers of 1 login, a relay each way, global limit 1 | admitted legs have their workers, every relay ends, the limiter's contract |
| `staging` | one row, two attempts, at most one mark, the tab may disconnect | no staging file is lost sight of, a Pause keeps its file, a Stop leaves no record, one user per file, every cancelled row settles |
| `app` | twenty modules, one after the other (below) | one invariant of types and 22 properties, one or two to a module |
| `idle_logins` | as `pool_queue`, nothing refused | violation: an idle login that is never released |
| `refused_relay` | one relay, the target refuses every login | violation: the relay retries for ever |
| `staging_teardown` | as `staging` | violation: a file left to a teardown that does not know it |
| `cut_replacement` | two uploads, one attempt each, no crash | violation: a replacement cut between its renames that nothing on disk remembers |
| `resumed_hole` | three blocks, a window of two, requests leave in any order | violation: a resumed upload published with a hole |
| `quit_handshake` | two close clicks, one unsaved change | violation: the process exits before the window stored it |

**The run `app`.** `MCApp` picks a part in the initial state; `Alone(p)` lets only
that part's variables move, and a part that does not run stands in one initial
state. The reachable states are the sum of the parts' (2.09 million), not a
product, and nothing is claimed of the parts together. The parts share no state
in the code as modelled: where components do share it (limiter and
pools, staging and session, copies and quit) one module has both.
What each part is given:

| Part | Bounds | Why they are enough |
|---|---|---|
| `SetAside` | 2 uploads of one attempt, 1 crash, lost replies | a replacement meets the remains of another, and the next start those of a crash |
| `Sessions` | 3 calls, 2 ids, at most 1 session | a reader, a connect and a disconnect on one slot, or two connects at the cap |
| `TargetReservation` | 2 operations of up to 2 leases, server and disk, 3 paths spelled differently; the keys of every path of up to four components | nested, aliased, shared, and an owner with two leases |
| `FolderWalk` | 2 files, 2 attempts, 1 act of another program, 1 early cancel | one file delivered and one in flight at the pause, either edited |
| `DownloadFile` | 2 pieces, 2 attempts, 2 edits of the remote file | a partial of one version and the rest of another |
| `StoredDocument` | 2 savers, 1 reader, 4 edits, 2 damages, 2 copies kept | a save over a save over damage, one let through by a masked refusal, and the one after it |
| `VaultSecrets` | 2 bookmarks, 3 passwords, 2 operations, 1 crash | a switch with one password moved and one not |
| `SensitiveGrants` | 2 requests, caps of 1, 1 lock, 2 set-ups | a grant issued, a window open, a lock between |
| `EditedCopies` | 1 copy, 3 saves, 1 further run | a save during the upload of the one before, and one during the collection |
| `Updater` | 3 versions, 3 changes of the feed, 2 failures | a failed version, the next one, and the first again |
| `SitesTransfer` | 3 ids, 2 passwords, 1 import, 2 failed writes | a write fails and so does one that undoes |
| `FtpChannel` | 3 operations, 2 connections, 2 passive ports | one leaves a reply, one drops the connection, one follows |
| `SftpPipeline` | 3 blocks, window 2, 2 pauses, 1 edit of the source | a full window and a block beyond it |
| `LocalMutations` | 2 commands, 6 places, 3 versions, two volumes, a folder with a file or with a link in it | two commands and another program at one place |
| `WebDavClient` | 3 paths, 1 act of the other client | it acts between two requests |
| `ProtocolLog` | a queue of 2, batches of 2, 3 records, 1 opening of the panel | the queue overflows and the notice of it waits |
| `Quit` | 1 close click, 2 tray clicks, 1 change | a quit asked for, called off, asked for again |
| `TransferRows` | 2 attempts, 2 notices | an old attempt's notice after the new one began |
| `RelayCopy` | up to 2 blocks, a pipe of 1, 1 mishap | the pipe is full and empty, a leg ends in either state |
| `SleepGuard` | 3 transfers | one ends while the thread acts |

Bounds of the others: two transfers give every pair of roles (queued behind running, growing
beside queued, released beside submitted), one login makes them contend, two
lets one be idle while the other is busy. Two relays are what a deadlock needs.
`CancelledCap` stands for 256; it is 1 and at most one transfer is stopped early,
so the cap is reached and an off-by-one in it loses a mark. More early Stops than
the cap would lose one, as they would in the code. The limits 0, 1 and 2 are
unlimited, contended and free. In the pool's runs all transfers may end, and the
finite set of them with them: deadlock is not an error there.

One row with two attempts gives what a staging file goes through: written, paused,
adopted or refused by the next attempt, stopped before, during and after either,
swept. `MarkCap` stands for the 256 of `MARK_CAP`, and 1 is reached by one row.
With more rows paused at once than the cap, the oldest mark is lost, as in the
code. In the `staging` runs a row may end as done with no attempt left and the
connection closed, and in `app` every part ends when its bounds are used up, so
deadlock is not an error there either.

Fairness. In `UploadStaging`, `FairSpec` says that an attempt's own steps and the
commands are scheduled, and that a cancelled task ends, which `TransferPool`
shows of the pool; a user need not act, a cleanup need not come back, a transfer
that nobody cancels need not end. In `ConcurrencyLimiter` and `TransferPool` `FairSpec` says that tasks and timers are scheduled, that a login is
answered or times out (`grow_workers` puts a timeout on each), and that a
cancelled token is seen (`drain` selects on it). It does not say that a
transfer ends, that a user stops one, that a limit changes or a session closes.
`EndingSpec` adds that a running leg ends once its partner runs or is over: a
pipe with both ends moves or breaks. `AcceptingSpec` adds that a server asked for
a login again and again grants one; only `relays_opposite` needs it, whose
question is whether the relays block each other. The parts of `app` state safety
only and assume no fairness.

### What the violations show

- `idle_logins`: `release_when_idle` starts only where a finished transfer
  drains, and ends for good when it finds a transfer queued or the generation
  moved on. A transfer stopped while its login is in flight, or that leaves the
  queue unserved after the release looked, leaves a login open until the tab
  disconnects. The comment at transfer_pool.rs:595 says an unused pool logs out.
- `refused_relay`: `leg_ready` calls a leg refused only if the pool has a
  worker, or as many as its size; with no worker at all it says "not yet"
  for ever. The comment at transfer_pool.rs:262 says that is an error.
- `staging_teardown`: a cleanup that finds no session says that the file is left
  to the teardown that took it (staging_cleanup.rs:32), but the teardown only
  knows what the registry records. A cleanup that outlasts its budget has had its
  record released; a Stop takes the paused record before it cleans up. If the
  disconnect removes the session before the cleanup looks it up, the file stays
  on the server and no log line names it. Closing a tab with a paused upload
  sends the Stop and the disconnect at once.
- `cut_replacement`: a replacement paused between its renames whose connection is
  then closed keeps its entry in memory only. The comment at set_aside.rs:3 says it
  is on disk once no connection is left to finish it.
- `resumed_hole`: the write tasks of a window may leave out of order, a pause
  aborts those not polled yet, and the resume trusts the length. The comment at
  upload_resume.rs:38 says everything below it is a prefix.
- `quit_handshake`: a second close click replaces the handshake winding down waits
  for, which ends it at once. The comments at shutdown.rs:17 and :28 say what is not
  saved then is lost, and that only the first close starts the cleanup.

### Also seen

Divergences met while modelling that no run states, each excluded by a bound or an
assumption named above or left to the step that takes it:

- Pool: the watch loop of `run_notified` reads the limit to compare with after its growth
  ended; a limit raised between the two reads is not noticed (transfer_pool.rs:472, against :465).
- Relay: a target that refuses (disk full, no permission) drops its end of the pipe; the
  source then fails with `PartnerGone` and a broken pipe, which is reported against the target's
  connection, and the reason of the refusal is not shown (transfer_service.rs:631).
- Staging: the registry keeps one paused file for each destination. Of two rows whose attempts
  settle as paused the later record replaces the earlier (upload_staging.rs:169), and a Stop of
  the earlier then removes nothing, which docs/transfer-safety.md:56 says it attempts.
- Progress: between a timer's look at `queued_after` and its own notice another may slip in, so
  a row reads Queued while at work until the next one. The window's guard keeps it harmless.
- Log files: once the budget has removed the day's first parts, a restart begins again at part 1
  (log_emitter.rs:441).
- Updater: a failed `start_staged` whose record cannot be written, or is discarded by the
  download that follows at the same start, is tried again at every start (update_staging.rs:45).
- FTP: `ensure_dir` may return the server's refusal although the working directory could not
  be restored (ftp.rs:357).
- Storage: one issue is kept per file, so a refused read is noted over by a recovery, and the
  file is written although docs/storage.md:27 calls it read-only (the histories `masked` and
  `overwritten`). What such a save leaves out may survive in the backup until the next one, of a
  later run perhaps, so that the loss shows two saves after its cause.
- Vault: a crash between the removal of the vault's files and the clearing of the flags leaves
  the migration marked complete. A move of passwords into the vault does not exclude a save.
- Grants: a plan is resolved before the window opens and not looked at again.
- Sleep: an inhibitor the system refused is asked for again only at the next first or last transfer.
- Sessions: a finished connect removes the token of its id, whoever registered it (session.rs:360).
- Walks: a partial whose remote file changed between pause and resume is left behind.

## Proofs

The theorems hold for every set of pools, transfers, relays, rows, destinations,
sleepers, calls, connections, paths, copies, requests and sites, every size and
limit, and any number of attempts, notices, blocks, pieces, edits, crashes and
mishaps: the bounds of the runs are constants here. They follow from the
assumption each module states beside its constants (`LimiterAssumption`,
`PoolAssumption`, `StagingAssumption` and so on): finite sets where the code's
are, a leg belongs to one relay, natural bounds, a value for "nobody" that is
nobody, a tree of paths with what is above each of them. TLC evaluates all of them
in the runs. Where a theorem needs more, that is its hypothesis, named below.

**Limiter.** `IInv` adds to `TypeOK` that `active` counts the holders and those
about to drop, that a parked client is registered unless its notification
has come, and that, while there is room and somebody sleeps, a notification is
on its way. `TypeCorrect`, `PermitsAreCounted` and `NoWakeupIsLost` follow, and
`RefinesSemaphore`: initial states map to initial states and every step to a step
of the semaphore or a stutter. The refinement's fairness stays with TLC.

**Pool types** (`PoolTypes`). Every action is typed in a lemma of its own. The
one subtle part is the capped sequence of marks.

**Admitted legs** (`AdmittedLegs`). `AdmittedLegsHaveWorkers` is inductive beside
the types: the relay's legs are pushed under both locks when the queue is empty
and the workers are there, what is queued later stands behind them, dispatch
takes one worker and the head, and `release_when_idle` does nothing while the
queue is not empty.

**Logins** (`LoginsStayWithinSize`). Needs the shape of growth: only the holder of
the gate has logins pending, and a login is only reserved where the total is
short of what is needed and of the size.

**Closed pools** (`ClosedPoolsHoldNothing`). The strengthening: an active leg is
run by its runner and a runner's leg is active (`RunsAreActive`); a growth that
is pending is held by the gate, so that an empty gate means no pending login;
every leg active at `destroy` is among the doomed until it is told; a token
stays cancelled. With these each action either leaves a closed pool alone or
settles what is left.

**The contract with the limiter** (`PoolsUseTheLimiter`). `UsesLimiter` is the semaphore's
specification with the tasks and relays as clients, so each step of the pools is shown to
be one of the semaphore's or a stutter. A waiting client does not hold a slot and a leg
that has one was admitted (`PermitsAreUsed`), a relay holds one for both legs, and as
`Holders` is the image of the permits, giving back one leg's permit gives back the slot
only with the other's. Here the proof needs that no task is a leg or the name of a
relay, which `PoolAssumption` now says: the code tells them by their types.

**Staging files** (`StagingTypes`, `OneWriterAlways`). `IInv` joins who may use a file:
an adopted file's maker is over (`Names`), all but one of the attempts with one file
are over (`OneUser`), a recorded file is used by nobody and not being cleaned up
(`Records`), one being cleaned up is used only by attempts that wait for that
(`Cleanups`), and a sweep begins after the last transfer (`Sweeping`). None of them
is inductive alone: a Stop cleans up what a record has, a resume adopts it, a
pause records what an attempt used. Three steps hand a file over (`Claim`,
`Discarded`, `EndAttempt`) and have lemmas of their own; every other step is
`Quiet`. It holds for any rows, also rows of one destination, and any cap.

**No file forgotten** (`FilesAreNeverForgotten`), for one row to each destination.
`FInv` adds to `IInv` what the registry relies on without saying so: a row's last
attempt is its only one in flight (`Latest`), so that nobody else leaves a record
where an attempt works (`NoRecord`); a file exists only if its maker wrote it and
an attempt knows whether it resumed, whether it renamed its file and whether it is
unfinished (`MadeByWriting`, `KnowsItsFile`), so that what `end_attempt` drops without
a record is not there; a writer is in the active map (`WritersAreActive`); and a
released file is being cleaned up (`CleaningIsCovered`). A step either keeps every
account of every file (`Keeps`) or is one of eleven that hand a file on.

With two rows to one destination the statement is false: a cancelled task drops its
reservation before its attempt settles, another row may start and be paused in
between, and of two attempts that settle as paused the second overwrites the
first one's record. That needs a second attempt of one of the rows, which one row
per destination excludes.

**Sessions** (`DisconnectsAreFinal`). `DisconnectIsFinal` says nothing of locks, and
holds because of them. `SessionsInv` adds that a call past its lock has it and
nobody else has (`LocksAreHeld`), that a connect inside has emptied its slot
(`NothingInTheWay`), that a session belongs to a connect that is past it
(`OpenedBefore`), and that a live pool's slot is in the map with its session, or
with the lock of the connect about to put it there (`PoolsAreReachable`). So
`register_pool` meets no live pool, and `remove_if_empty`, which wants the slot
unlocked and empty, finds none to lose.

**Rows** (`RowsFollowTheirAttempts`). A notice never settles a row because none has a
settled word (`NoticesSayLittle`, of the pending map, every timer and everything on
its way) and because a row keeps an intent only while it is being cancelled or is
settled (`IntentIsHeld`), where notices no longer apply.

**The inhibitor** (`InhibitorIsRight`). Under `InhibitorFollowsTransfers` lie three
facts about moments when something is on its way: the flag is what is wanted, but
for the caller about to store it (`FlagIsCurrent`); the inhibitor agrees with the
flag or a wakeup, or its sender, is still to come (`Settling`); and a thread about
to act on an old reading will be woken again (`OldReading`), which is why a wakeup
swallowed by the full channel is not missed.

**One answer, no Stop lost** (`EveryTransferIsOwedOnce`, `StopsAreKept`). That
somebody always owes a waiting caller exactly one answer is inductive in this form:
every leg is in one of six states, not sent, waiting, at work, leaving, taken by a
`destroy`, over (`EveryLegLives`), no queue has a leg twice (`QueuesApart`), and only a
`destroy` that has not told yet has legs of its own pool (`DoomedHere`). A Stop is kept
for good if it finds room for its mark: `MarksHaveRoom` says that one of the
`CANCELLED_CAP` places is free when a Stop comes before its transfer, and
`StopsWithinTheCapAreKept` shows that no more stoppable transfers than the cap are
enough for that. Without it the oldest mark goes, in the code as in the model.

**Stop and Pause of an upload** (`StopsLeaveNothing`, `PausesAreKept`). A Stop leaves
no record: it is the last command of its row (`StopIsLast`), and when it has begun it
has taken mark and record of the row's last attempt (`StopTookAll`). A Pause keeps its
file if its mark is there until `end_attempt`, or its row's intent says so already:
again under `MarksHaveRoom`, here of `MARK_CAP`. `PausesWithinTheCapAreKept` needs no
hypothesis on the run: an attempt has one mark at most (`MarksApart`), so that no more
attempts than the cap always leave room for the next mark.

**Replacing a file** (`HiddenVersionsAreRecorded`, `PreviousVersionsSurvive`), under
`SizesAnswered`. `SetAsideInv`: an empty name was emptied for a version that is there
and is recorded (`EmptyNameIsRecorded`), a record names what its own upload hid and the
one on disk is not the later (`RecordsInOrder`), the staging file of a running attempt
is there until it has taken the name (`WholeUntilLanded`), and what an attempt is about
to remove has been replaced (`DoomedIsReplaced`).

**Downloads** (`DownloadsAreOneVersion`). A piece is of no version before the answer that
the partial's record or its attempt holds, and of none the server has not had
(`PiecesAreInOrder`, `AnswersAreOld`), so that the second question, if it brings the same
answer, makes all of them one version (`CommitsOneVersion`). `dUnasked` is excused by
the property itself.

**Copies between servers** (`RelayedCopiesAreWhole`). `RelayInv`: the source gives its two
answers once and at their times (`SourceAnswersOnce`); from the check on, the staging
file has the announced length where both servers tell sizes, and the rename is sent
only once the source was read to its end (`RenamesWhatIsWhole`).

**Walks** (`WalksLoseNobodysFile`). An action property, from `WalkInv`: a receipt in a
journal, also in one kept between attempts, is of an object of the walk, a copy of the
recorded source; nothing that stood before is in it; and what it would take back has
its original (`JournalsAreTrue`). The stamps of an attempt are none of a kept journal's
(`StampsAreFresh`), as the lemma `TopGrows` keeps the numbers of two attempts apart, and
what stood before stands (`StoodStands`).

**Edited copies** (`SavedEditsAreHeld`). `CopiesInv`: what stands in the folder is the newest
there is (`CopyIsNewest`), an upload sends what it was asked for or a later save and
does not take the newest one from the server (`UploadsGoForward`), and a note of the
newest save, in memory or in the manifest, says truly that it is on the server
(`RecordsAreTrue`). The module assumes two saves at least.

**Leases** (`LeasesKeepWritersApart`, `KeysNamePlaces`). What is in use is leased under its
operation's own number, and keys are apart (`LeasesInv`). That two keys are prefixes of one
another exactly if the places are is a theorem of its own, for paths of any length. `Key`
walks the components with a stack; `Place` says which components stand, those that no
later `..` takes back. By induction over the components, the stack after the first
n of them is the list of the components up to n that no `..` up to n takes
back, in order (`Balanced` counts the `..` against what it takes, `InOrder` says there is
only one way to list a finite set of numbers upwards).

**Files of this computer** (`FilesAreKept`), for any tree, with any folders and links in
it. `LocalInv`: a command past its checks has two places that are not one another nor the
program's own, and has read what it is about to write (`CommandsAreChecked`); only
folders hold anything (`Nested`, without which a rename over a file would lose what is
below); and every version is at a place, in the bin, or given up (`NoneIsLost`). The
lemmas on `Image` say where each path of a moved tree comes from.

**Connections.** `PasswordsStayWithTheirHost`: the address a probe goes to is the host's
own, and secure where the user did not allow otherwise, while it carries the password
(`ConnectionInv`). `DavAnswersAreKept`: what an operation may still answer has been
seen to hold (`DavSeen`, `DavSaid`); it needs that a collection stands above
whatever is there (`Grown`), without which "not found" would not mean that nothing
is below. `RepliesFindTheirOperation`, under `SizeAnswered`: there is at most one
reply on the wire, and it is the one the holder of the lock waits for (`WireIsRead`,
`LockIsHeld`). `BlocksStayInPlace`, under `SendsInOrder`: the tasks of a window are those
of consecutive blocks (`TasksInOrder`), and what was written without a gap is a prefix
of the pinned version (`PrefixIsSent`), for downloads of the file (`LocalIsPrefix`).
Without `SendsInOrder` the statement is false: `resumed_hole` is the counterexample.

**Updates** (`UpdaterIsTyped`, `FailedVersionWaits`). The program remembers one version
that failed. The property therefore speaks of the last version that was tried, and
`UpdaterInv` says where the memory of it is: in the record, or in the mark the next
launch finds, until the program has passed that version (`FailureIsRemembered`,
`MarkedInstallation`).

**Grants** (`GrantsAreCapped`, `GrantsDieWithTheirSession`). A grant is of the epoch it was
issued in, and one that outlived a lock is of an older one (`OutlivedIsOld`); who checks
a password has the guard's one slot and an attempt left (`SlotIsExclusive`); and a request
that asks for the password is past its window only with it (`ProofIsGiven`).

**Passwords** (`SavedPasswordsAreHeld`), under `MigrationAlone`. `VaultInv` follows the
three operations that move a password: a save, the move into the vault, the move out
of it. Each has between any two of its writes the password in the file of the sites,
in the vault, or in what it can put back (`SaveCovers`, `MigrationCovers`,
`DowngradeCovers`), which holds as each has its locks (`TasksHoldTheirLocks`).

**Documents** (`SavesKeepEdits`), with no more damages than copies are kept
(`CopiesHoldDamages`); with one more the oldest copy goes, as `archive_corrupt` says.
`StoreInv` counts every damaged content there is against the damages
(`DamagesAreCounted`, the number of a set of contents that are kept once each), holds
that the backup is older than the document but for what a copy has (`BackupIsOlder`),
and that a save about to write knows what it replaces (`SavesKnow`). The proof found
the property too weak and the bound too small: it excused every step after a masked
refusal, and not the unmasked save of a later run that drops what only the backup
still held. It now excuses what `overwritten` names, in any step, and no more.

**Quitting** (`UsersHaveTheLastWord`). An action property: as long as the user has not
asked to end, nothing on its way can do it (`NobodyEnds`); a quit waits or is asked
about, never both (`OneQuestion`); while it waits, a tray that waits too will hear of
a newer model or request (`TimerIsHeard`); and the window is there, comes, or has its
icon (`WithinReach`).

**The log** (`RecordsAreTold`). `LogInv` says where each number is: what was published, the
writer's batch, the queue and what was dropped together are all numbers, each once,
in order (`Stream`). A flush sends two barriers, and the second is needed for the notice:
a record dropped before the first barrier was dropped at a full queue, so that by the time
the first comes out there is a place, and the notice goes in before the second
(`InTime`). A `flush` that is done has seen both leave. `PanelInv` follows the panel: the
history it asked for and the batches on their way overlap or meet, and what it was given
is shown or told of.

**Imports** (`ImportsAddOrUndo`). An action property. `ImportInv`: what is written comes from
the plan (`PlanIsKnown`), and documents and vault are what the import found but for the
parts it wrote (`WrittenSoFar`), so that undoing those restores them; an undo that itself
failed is not reported as undone. That a plan only
fills what is empty (`Fills`) is shown by induction over the entries of the file; that the
ids suffice for what it adds comes from the count in the guard.

Induction over data. The library's induction theorems take an operator and the folds of
the community modules are recursive operators; neither reaches the provers. What is
inductive here is stated of the set of the numbers where it fails: a set of naturals that
is not empty has a smallest (`SmallestNumber`, `SetInduction`, from the theorems on
well-founded relations). `PlanAfter` and `Key` are recursive functions for that reason.

Only model-checked:

- All liveness (`NoTransferIsStranded`, `GrowthIsNotForgotten`, `EveryRelayEnds`,
  `ClosingEnds`, the fairness part of `ImplementsSemaphore`, `EveryCancelSettles`), which is
  outside the proof system's reach.
- `AppTypeOK`, the types of the twenty parts together. The proofs of this section have
  their own types, with no bound on the numbers.

## Plan

1. `UploadStaging` with two rows of one destination (the overwritten record above) and with
   more pauses than `MARK_CAP`.
2. Settings and their revision in the window; the log's files on disk.

## Not modelled

Cryptography and the format of the vault, listing parsers and character sets, the
SFTP login and proxies, system calls for windows, drag and drop and shell
integration, the rate limiter, error texts, and the renderer's views: they
have no interleaving of their own, or their behaviour is that of an external
system. `PROJECT.json` gives a reason for each component, and for the parts of a
component that is modelled partly.
