# Verification of chassis: local data, backups, updates and notifications

chassis is a kit for self-hosted apps: a Rust server (`src/crates/chassis`), the
JavaScript it serves to its pages (`src/crates/chassis/static/chassis`) and a
command line for releases (`src/crates/chassis-cli`). The part that is hardest
to get right is the *local database*: an app's records live in SQLite on the
server, a change log numbers every change, and every page keeps a copy of the
records in IndexedDB that it brings up to date by pulling the changes feed.
Transactions, retention, backups and restores, lost answers, a store that is
full, tabs that close and settings that change all happen beside each other,
and the promise is that no page is ever left behind without noticing. In the
other direction a page queues the edits it cannot send and replays them later;
there the promise is that no edit is lost, applied twice or out of order.

Three parts of the server itself are as hard to test: the *backup pause*, whose
calls, timers and writers overlap in one process; the *self-update*, which
replaces its own binary and must survive being killed between any two steps; and
the *outbox* of notifications, which promises delivery across restarts, failing
targets and failing disks.

This directory holds TLA+ models of these parts, the TLC runs that check them on
small instances, and TLAPS proofs about every one of them for any size.

## 1. The system

### 1.1 Components, their state and how they interact

| Component | State | Operations | Talks to |
|---|---|---|---|
| Change log, `storage/sync` | in the app's SQLite file: one row per (collection, scope, key) with `seq`, `rev`, `deleted`; the counter `seq`; a floor per collection; the epoch and the identity it was made for | record an upsert or a delete in the app's own transaction, backfill, retention, epoch check at an open, renewal in a copy, feed page | the single writer of `storage/db`; the feed route |
| Writer and snapshots, `storage/db`, `storage/app_db` | one writer connection, a copy before a migration | write transaction, snapshot, migration, install, import, compaction | every storage module |
| Tracked tables, `sync/track*.rs`, `table_diff.rs` | triggers and dirty marks in the file | install, seed, flush of marks before a commit | change log |
| Idempotent create, `sync/create_rules.rs` | records of create keys | check, remember | write queue (retries) |
| Live channel and hints, `shell/live`, `sync/hint.rs` | subscribers, a bounded queue each | publish, subscribe, drop the slow | pages (triggers a pull) |
| Feed puller, `db-pull.js`, `db-plan.js` | per collection: the running pull, "again" | pull, resync, settled | feed route, local store |
| Local store, `db-store.js` | IndexedDB: records with revision and generation, a meta row with cursor, unfinished generation, stale flag | apply a page, prune, put one, reset | puller, reads |
| Page's database, `db-client.js`, `db-keep.js`, `db-through.js`, `data-settings.js` | settings in localStorage: "keep everything", chosen keys | keepAll, clear, choose, drop, read through the service | puller, store, app routes |
| Write queue, `data-queue.js`, `data-policy.js`, `data-rev.js`, `data-writes.js` | queued writes in IndexedDB and memory, failed list | enqueue, replay, hold, drop, rebase, undo | app routes, overlay |
| Read cache, `data-cache.js`, `data-trim*.js`, `data-lru.js` | cached answers, sizes | remember, trim, evict | reads |
| Triggers and boot, `db-boot.js`, `db-triggers.js` | timers, which tab is visible | start, pull on timer / hint / online | puller |
| Kit database, `storage/kit_db` | sessions, passkeys, clients, secrets | rekey, import, sign in and out | shell |
| Outbox and notifications, `storage/outbox.rs`, `shell/notify*`, `core/notify*` | waiting messages and their retry times in the kit database, a bounded hand-off in memory, the loop's wake-up, addresses | offer, enqueue, drop at the cap, deliver, postpone, change the addresses | targets (other apps), kit database |
| Backup pause, `shell/backup` | process-wide: tickets out, pause in force, its mode, deadline and number | take and drop a ticket, pause, extend, raise, abort, resume, deadline timers | every writer, the project's hooks, `backup-pause` over a socket |
| Self-update, `shell/update`, `shell/install_binary.rs`, `core/update` | the installed and the previous binary, a pending update and a skip list in the kit database | check, download, verify, install, note, count starts, revert, confirm | release site, supervisor |
| Sessions, passkeys, request guards, `shell/auth`, `shell/passkeys`, `shell/guards` | sessions, challenges, limits per client | sign in, sign out, limit | kit database |
| Preferences and data kinds, `storage/prefs*`, `storage/kinds` | settings, declared kinds | read, write, clean | kit database |
| Pages and shell UI, `static/chassis/*.js` others | DOM | rendering | JSON API |
| Release flow, `chassis-cli` | git tags, version files, recorded steps | plan, preflight, release, restore | git, cargo |

A write goes page -> (write queue) -> app route -> write transaction, which
records the change in the same transaction. The commit publishes a hint on the
live channel; pages pull. `GET <sync>/<collection>?since=<cursor>` reads the
floor in one snapshot (`SyncService::feed`) and the page in another
(`read_feed`), and answers with rows, a cursor and `more`, or with 410 when the
position is of another epoch or below the floor. Without a cursor it is a
*sweep* over the live rows; the store marks what the sweep lists with a
*generation* and drops the rest at its end.

### 1.2 What is hard

* **Ordering.** Positions are numbers of one counter; they are only safe because
  numbers become visible in the order they were taken.
* **Retention against slow readers.** Tombstones go away; a floor must refuse
  exactly the positions that have not passed them. A sweep takes several
  requests, during which rows move and the floor rises.
* **Restores.** A restored file counts again from a smaller number. Epochs tell
  the two histories apart.
* **Partial failure on the device.** A page of the feed fits only in part; an
  answer is lost; a second 410 comes in one run; the tab closes between any two
  IndexedDB transactions.
* **Turns of one page.** `keepAll`, `clear`, choosing an item, reading through
  the service and the pull are async functions that share the store and settings
  and nothing else: each one works with what it read turns ago.
* **Joined jobs.** A pull or a replay is shared by its callers, and a caller must
  not get the answer of a round that was over before it asked.

* **Pauses that overlap.** One pause is drained while another call extends it, a
  third ends it and a timer of an earlier one fires; what each of them remembers
  is a number.
* **Crashes between a rename and a note.** The update is two files and two tables
  that no transaction joins, written by a process that is about to exit.
* **A wake-up beside a write.** The delivery loop sleeps for up to an hour; a
  message that is due must find it awake, whoever made it due.

`PROJECT.json` lists each hazard at its line with the properties that would catch
it, or with why no run checks one: mostly because the code does not have the
property, which 3.2 then tells.

### 1.3 What makes each part correct

* Change log: a device that pulls from a position it is served from is told
  of everything it may hold a stale copy of (`NothingMissed`), in particular no
  live item is skipped (`NoLiveItemSkipped`), a position never survives into
  another history (`EpochNamesOneHistory`), commits land above what could have
  been read (`CommitsLandAhead`), and resyncs do not loop (`CatchesUp`).
* Puller and store: the store is what the feed says up to the stored cursor
  (`StoreMirrorsLog`, `ListedIsStored`), a resync never takes the old data away
  early (`CurrentRecordsStay`) and no pull puts an older version of an item over a
  newer one (`NeverGoesBack`), and the store converges (`Converges`).
* A page's database: nothing but what is kept is stored (`OnlyKeptIsStored`), and
  after "keep everything" or a clear the store is whole again
  (`EverythingIsPulled`). The code has neither in full (3.2). Of the first, what is
  checked and proved is that only the two known races leave a record behind
  (`OnlyRacesLeaveStrays`).
* Joined jobs: a call is not answered by a round that had begun before it, which
  `replay()` keeps (`ReplaysAreFresh`) and `pull()` does not (`PullsAreFresh`), and
  every call is answered once others cease to join (`CallsAreAnswered`).
* Write queue: an edit the page took on stays stored until it took effect or was
  dropped (`NothingLost`), edits take effect in the order they were made
  (`InOrder`) and at most once (`AppliedOnce`), the queue never waits without a
  timer (`NeverStranded`), and what was dropped is gone (`DroppedIsGone`);
  together, the contract of an edit (`Contract`).
* Backup pause: once it holds, nobody writes until it ends (`HoldIsStill`), a
  refused pause is not in force (`RefusalLetsGo`), every pause ends
  (`PauseEnds`); together, the contract of a pause (`Contract`).
* Self-update: a version on probation always has the proven one to go back to
  (`RollbackTargetKept`), what was rolled back never returns (`SkippedStaysOut`),
  and a bad version gives way to one in good health (`BadVersionLeaves`).
* Outbox: a message that was kept waits until a target took it (`NothingLost`),
  it is taken twice only for a reason (`TakenTwiceOnlyByFault`), the loop does not
  sleep on it (`NoMissedWake`), and it is delivered in the end, unless it waits
  behind an older one that no target takes (`DeliveredAtLast`).

## 2. Modules

| Module | Models | Composes |
|---|---|---|
| `SyncFeed` | the change log as data: what a transaction, retention, an epoch check do to a file; what a feed page is | |
| `ChangeLog` | the server: transactions, retention, copies, restores, devices reduced to a cursor and what they are owed | `SyncFeed` |
| `SyncFeed_proofs` | lemmas about files and feed pages that both proofs below need | `SyncFeed` |
| `ChangeLog_proofs` | theorems about `ChangeLog` | `ChangeLog`, `SyncFeed_proofs` |
| `SyncPull` | one page's pull of one collection, turn by turn, with its store and the service that answers | `SyncFeed` |
| `LocalDb` | everything else of the page that touches the store, beside the pull | `SyncPull` |
| `SyncPull_proofs` | theorems about `SyncPull` and about `LocalDb`, which extends it | `LocalDb`, `SyncFeed_proofs` |
| `JobRounds` | the handshake of a shared job, of `pull()` and of `replay()` | |
| `JobRounds_proofs` | theorems about `JobRounds` | `JobRounds` |
| `EditContract` | abstract: what a page promises of the edits made in it | |
| `WriteQueue` | the edits of one page, their queue in IndexedDB and in memory, the replay, the item and create routes at the other end | implements `EditContract` |
| `WriteQueue_proofs` | theorems about `WriteQueue`, the refinement among them | `WriteQueue` |
| `PauseContract` | abstract: what a backup pause promises | |
| `BackupGate` | the gate and its controller: tickets, pauses, timers | implements `PauseContract` |
| `BackupGate_proofs` | theorems about `BackupGate`, the refinement among them | `BackupGate` |
| `SelfUpdate` | the autonomous update of a process that may be killed anywhere | |
| `SelfUpdate_proofs` | theorems about `SelfUpdate` | `SelfUpdate` |
| `Outbox` | a notification from the hand-off to its targets | |
| `Outbox_proofs` | theorems about `Outbox` | `Outbox` |
| `MC*` | instances for TLC | |

### SyncFeed: the file and the feed page

An item is a (collection, scope, key) triple; `collectionOf` and `scopeOf` say
which. `File` is the part of the app's database the log keeps: `rows`, the
counter `seq`, one `floor` per collection, `epoch` and `witness` (the identity
of the file the epoch was made for). `Recorded` is `sync_upsert`/`sync_delete`
(next number, row replaced), `Pruned` is `prune_tombstones`, `Ensured` and
`RenewedInCopy` are the epoch rules, `Refused` is the 410 rule, and `PageItems`,
`More`, `NextCursor` are `read_feed`: rows above the position in the order of
`seq`, live ones only in a sweep, and the end of a sweep rises to the floor.

Abstractions: a body is named by the number of the change it came from, so a
body exists exactly when its row is live; wall-clock time is any choice
(retention may take any of the tombstones, as a clock may be set back); the
order of cursors of one epoch is that of `seq`.

### ChangeLog: the server

`Begin`, `Record`, `Backfill`, `Commit`, `Rollback` are one write transaction on a
copy of the file that replaces it at the commit (`BEGIN IMMEDIATE` admits one at
a time). A crash before the commit is `Rollback`. `Prune` is the retention run.
`KitCopy` is the kit's own `VACUUM INTO` with `renew_in_copy`; `OutsideCopy` is a
copy of the bytes; `Restore` stops the service, puts the copy in the place of the
file as a *new* file, and opens it (`Ensured`). A restore that writes into the
same inode is not detected by the code, as `LOCAL_DB_DESIGN.md` says, and is not
modelled. `Follow` is one page asked and applied by a device, `Resync` a 410. A
device is its `cursor` and `owed`, the items it may hold a stale copy of:
everything a commit or restore changes is owed to every device that may see it,
a page settles what it lists, and a sweep starts over, since the device drops
what the sweep leaves out.

### SyncPull: a page that pulls

`records` and `meta` are the IndexedDB store; `pc`, `since`, `gen`, `restarts` and
`answer` are the frame of `run()`. Each action is one turn of the page together
with the IndexedDB transaction it creates (transactions of one database take
effect in the order they are created): `Begin` (read the meta row), `Mark`
(write a new generation), `Ask`, `Apply` (the page and its cursor in one
transaction), `ApplyFull` (the deletes fit, the upserts do not), `MarkStale`,
`PruneStale` and `Unmark` (the end of a resync), `Restart` (the first 410 of a
run), `GiveUp`. `ServiceChecks` and `ServiceAnswers` are the two snapshots a
request is answered from. `AnswerLost` and `Reload` are the failures. A UUID is
any generation nothing refers to.

Abstractions: one store row per item (two scopes that use one key are not told
apart by the store and are not modelled); service writes are one change per
transaction (several are modelled in `ChangeLog`); the only copy that is put
back is the empty one, the furthest back a file can be.

### LocalDb: the rest of the page

`Switch`, `Decide`, `Trim`, `Forget`, `PullAll` are `keepAll` and
`keepAllChanged`; `ClearAsked`, `Settled`, `Reset` are `clear`; `Choose`, `Drop`
are `keeper.set`; `ReadThrough`, `Compare` are `rememberKept`; `PutOne` ends both
a fetch and a read; `ClosePage` ends every function. `joined` is the pull's
`again`. The constant `Pages` lists sets of uses, of which a page has one; the run
`db` and the proofs have pages that use everything. `strays` is history: the items
that stopped being kept in the middle of a request for them, or when the page was
closed before the trim its switch called for; an item leaves it when its record is
removed and no request for it is under way. Purging at a logout, queries and the
overlay of waiting writes are not modelled.

### JobRounds: joined jobs

`which` is the function. `Start` and `Join` are calls of one turn, by a set of
callers who wait for the answer before they call again, and by others nobody waits
for: timers, hints, `online`. The set may be empty, so there is no end of calls.
`RoundAgain` and `LastRound` are the end of a round, `Answer` what the job's promise
settles with. `replay()` forgets its job in the turn of its last look at `again`,
`pull()` in a `.finally()` one turn later (`Forgotten`); a stopped pull is not gone
round again; and a round of `replay()` may throw (`RoundThrows`): the job ends with
`again` as it was and everybody who joined fails. What a round of `pull()` throws is
caught by `once()` and ends it as a stop does.

### EditContract and WriteQueue: edits and their replay

Edits are numbered in the order they are made; each one replaces the same item
(`put`) or creates one of its own (`post` with a key). The variables are records
that belong together: `service` (the item's revision, how often each edit took
effect), `store`, `lastId` and `txs` (the IndexedDB queue and the transactions
under way on it), `copy` (the revision of the item's cached answer), and of the
page: `mem` (`entries`), `calls` (the frame of each `write()`), `job` (the frame
of `replay()`, `replayAll()`, `step()` and `hold()`), `timer`, and `person` (a
`drop` or `resave` under way). `past` is history for the properties.

A step is a turn of the page together with the IndexedDB transaction it creates;
the transaction takes effect when it is created (transactions of one store are
done in that order), and the turn that follows its completion is another step
(`Added`, `Patched`, `Removed`, `MapRebased`, `Parked`, `Discarded`, `Done`).
That gap, in which memory is behind the store, is where the actors meet.

`Make` is `entryFor`; `Send`, `AnswerCall`, `LoseCall`, `Finish` are an edit that
is sent at once; `Add`, `Added`, `Patch`, `Patched` one that is queued, whose
undo record is stored later. `SendHead`, `AnswerHead`, `LoseHead`, `Stop` are
one entry's turn; `Remove` to `Adopt` follow an answer, `Refuse` to `Discarded`
a refusal, decided by any answer of `Policies`. `Answers` is the service: it
checks the revision or the key, or refuses for a reason of its own. `GivenUp` is a
request the page has no answer to; it may still arrive (`LateArrives`), so an
answer that is lost is one that arrives at once. `Close` ends every frame and loads the stored queue.

Abstractions: the contents of bodies and undo records; a GET is one step; a
person's drop calls for the replay in the turn it is done (the code puts the
copies back first, lays the edits of the same path that are still queued on them
again and patches their entries, `data-writes.js:134-145`, all of which concerns
bodies and undo records); `resave` reads the copy in the step that stores the edit, and
without a copy may take any revision so far (what the refusal said); 401 and
5xx answers of a replay are losses (both stop it), those of an edit that is sent
at once are refusals (both throw). The page starts with the item's copy.

`EditContract` forgets memory, frames, transactions, ids and revisions. Per edit it
knows whether it was made, what was taken on before, whether it is stored and taken
on, how often it took effect, and whether it was dropped or failed. Nothing is taken
on before it is stored (`Keep`); it leaves the store only when it took effect
(`Clear`) or is dropped (`Drop`); it takes effect only once all that is ahead of it is
over, and again only if it may (`TakeEffect`): an edit that replaces the item without
a revision, or that the person saved again. `Store` is always open to an edit that
was made: the code may write one back that took effect or was dropped (see
`DroppedIsGone` in 3.2), and the contract promises nothing about that. The mapping
takes `stored` from IndexedDB, `effects` from the service and the rest from the
history in `past`; `made` and `repeatable` come from `calls`.

### PauseContract and BackupGate: the backup pause

`PauseContract` has two variables, how many write tickets are out and whether the
files are held still: nobody takes a ticket while they are, a hold begins only
when all tickets are back, and no hold lasts for ever. `BackupGate` has the fields
of `GateState` as variables and, per call, where its task is (`at`), the number of
the pause it works on (`mine`) and its deadline timer (`timer`). A step is what a
task does between two `await`s or two times it holds the lock: `BeginPause` and
`ExtendPause` are `begin_or_extend` (an extension without a raise is answered in
the same step), `Drained`/`DrainTimesOut`, `HooksRan`/`HooksFailed` and
`Raised`/`RaiseFailed` are the ends of its awaits, and the timer has three steps,
`TimerIsDue`, `TimerChecks`, `TimerEnds`, as it takes the lock three times.
`StopBegins` and `StopResumes` are `resume_own` at the stop of the service. The
refinement maps "held still" to `Holding`: the pause in force is the one of a call
that has seen the last ticket come back.

Abstractions: time is counted in ticks and a pause asks for one or two; a held
write that gives up changes nothing; resume hooks are not steps of their own. The
command-line side (which stops the unit when the service does not answer), the
layer that answers 503 and the metrics are not modelled.

### SelfUpdate: the autonomous update

`bin` and `prev` are the two files, `pending` and `skipped` the two tables,
`running` and `step` the process. `Install`, `Link`, `Rename`, `Note` are one
install: `bin.prev` is removed, linked, the new binary renamed over the old, the
update noted, each a step of its own because the process may be killed in
between (`Kill`). `StartNormally`, `ClearStale`, `CountAttempt` and `PutBack` are
what a start does; `ClearReverted` and `RememberSkip` end a revert, each of which
may fail and is then only logged. `Confirm` is the end of `healthy_after`. A bad
version dies before that (`DieOfItself`).

`NoteMayFail` says whether the one write that notes an update may fail while the
process lives on: see 3.2 for what follows when it does. Abstractions: versions
are numbers; a download that fails or is not verified installs nothing and is
left out, as are the hold knob, the drill, the copy of the state and supervised
mode; the first check comes after `healthy_after`, as with the defaults.

### Outbox: notifications

`hand` is the hand-off, `writer` its task, `rows` the table: message -> whether
its retry time is now (0), later, or passed. `targets` are the addresses the page
may edit, `editor` a change under way (`Edit` saves, `DueNow` resets the retry
times, `EditorWakes` wakes). `Pick`, `Offer`, `Taken`, `NotTaken`, `Delete`,
`Postpone`, `PostponeFails`, `Sleep`, `Woken`, `TimerFires` are the delivery loop;
one request with its retries is one step. `permit` is the wake-up `Notify` keeps
for the loop. Every write may fail (`Fault`), also the ones beside the message:
counting what the cap dropped, and `due_now`. `Restart` loses the memory.
`refused` says which target never takes which message; it is chosen at the start
from `Refusals` and stays. `kept`, `times` and `quiet` are history for the properties.

Abstractions: bodies, tokens and status records; the shorter retries of a target
that failed are within the one step; reads of the outbox succeed; what is kept
before the start is as the hand-off.

## 3. Runs

| Run | Question | Result |
|---|---|---|
| `log` | With sweeps of one page and one restore: is anything missed, does a position survive a restore, does a device catch up? | holds |
| `log_pages` | With pages of one row: is a live item ever skipped? | holds |
| `log_ghost` | With pages of one row: is anything missed? | **violated** |
| `pull` | With pages of one item: is what lies behind the cursor stored, under the generation of an unfinished resync? Does a resync keep the old data, and does no record go back to an older version? | holds |
| `pull_converges` | With sweeps of one page: does the store mirror the feed up to its cursor, through every failure, and become what the service holds? | holds |
| `db` | On a page that does everything: at rest, is only what is kept stored, but for what the two known races leave? | holds |
| `rounds` | Once others cease to join: is every call answered, and one of `replay()` never by an old round? | holds |
| `queue` | Two replacements, two requests given up, refusals that are skipped, a person who drops: is an edit lost, stranded, applied out of order or twice? | no |
| `queue_held` | A replacement and a create, refusals that are held or dropped, beside another device's write, a closed page or saving again: out of order or twice? Is each step one of the contract of an edit? | no |
| `backup` | Three pauses, a resume, a stop, a writer and failing hooks: does the gate keep the contract, and is a refused pause gone? | holds |
| `update` | Five releases, three bad, kills anywhere and failed writes but that of an update's note: is there always a way back, does what was rolled back stay out, does a bad version give way? | holds |
| `outbox` | Two messages, a cap of one or two, changed addresses, a target that refuses one for good, restarts, lost answers, failed writes: is a message lost, taken twice without cause, slept on, or held up but by an older one that nobody takes? | no |

### 3.1 The disagreement the violated run shows

`log_ghost`. A sweep of several pages lists an item; the item is deleted and
the tombstone pruned before the sweep's last page; the end of the sweep rises
to the floor, above the tombstone. The item stays on the device: it got the
generation of the sweep, and no later page mentions it.

### 3.2 Other disagreements

Each was met while modelling. The first group has a configuration beside the
runs that a reader can give to TLC to see it; it ends with a counterexample.

* `MCChangeLogTwice.cfg` (module `MCChangeLog`, `EpochNamesOneHistory`). A kit
  copy gets its epoch when it is *made* (`epoch.rs:94`). Put back twice, it starts
  two histories of one epoch, so a position of the first is served in the second;
  `epoch.rs:12-14` says every such put-back "is a new epoch by construction".
  That copies are put back at most once is the hypothesis `OncePutBack` of the
  theorems.
* `MCLocalDbOn.cfg` (`MCLocalDb`, `EverythingIsPulled`). `resync()` forgets the
  cursor while a pull runs; the running pull's next page writes its own cursor
  over it (`db-pull.js:127` says "the next pull is a full resync").
* `MCLocalDbKept.cfg` (`MCLocalDb`, `OnlyKeptIsStored`). `keepAll` or a drop between
  a request for an item and its answer, or a tab that closes between saving
  "keep everything" off and the trim, leaves a record that nobody keeps: the fetch
  (`db-keep.js:45`) and `rememberKept` (`db-through.js:37`) do not ask again after
  their `await`, and the next start does not trim (`data-settings.js:22`).
  `db-keep.js:58` says "Dropping removes the local record unless everything is kept".
  `OnlyRacesLeaveStrays` says that nothing else leaves one.
* `MCJobRoundsPull.cfg` (`MCJobRounds`, `PullsAreFresh`). A call of `pull()` in the
  turn between the last look at "again" and the `.finally()` (`db-pull.js:117`) gets
  the summary of a round that was over: nobody goes "round once more"
  (`db-pull.js:107`). `data-queue.js:142` names the same race as fixed there.
* `MCJobRoundsJoined.cfg` (`MCJobRounds`, `AnsweredThoughJoined`). As long as calls
  keep joining, `do { ... } while (again)` answers nobody.
* `MCOutboxDead.cfg` (`MCOutbox`, `DeadTargetStallsNobody`). Two failures in a row
  pause the loop for the retry delay of the message that failed; at the end of the
  pause it is due and the oldest again, so it is tried before a newer message whose
  retry time has also come, and fails, and so on: a message whose own target is up
  waits until the older one is dropped by the cap, its address is changed, or a new
  message or a changed address wakes the loop (after which the newer one has its
  turn). `notify_delivery.rs:35-38` says "a dead target does not stall the others"; it
  speaks of the number of tries, which the code does cut, not of the order.
* `MCWriteQueueDropped.cfg` (`MCWriteQueue`, `DroppedIsGone`). `drop()` deletes
  the entry and takes it out of memory a turn later. A `put()` that is still to
  store its undo record, or a replay that parks the entry after a refusal, has
  read the entry before and stores it again: it is gone from the page and comes
  back, to be sent, at the next load (`OFFLINE_DESIGN.md:192`).
* `MCBackupGateEarly.cfg` (`MCBackupGate`, `AnswersWhenStill`). A call that meets
  a pause in force is answered "paused" at once, as "writes are already held"
  (`controller.rs:58`); but the first pause may still be draining, so its files
  are not still, and if the drain times out the pause is aborted under the call
  that was told it holds.
* `MCSelfUpdateKilled.cfg` (`MCSelfUpdate`, `BadRunsOnProbation`). Killed between
  the rename and the note, the new version starts without probation: a bad one
  then fails for ever, as nothing counts its starts (`core/update.rs:140`).
* `MCSelfUpdateUnnoted.cfg` (`MCSelfUpdate`, `RollbackTargetKept`). When the write
  of the note fails, the old process runs on and installs again an interval
  later: `bin.prev` becomes the unproven binary, and a revert puts that one back.
  With it `SkippedStaysOut` and `BadVersionLeaves` fail, too.

The others have their steps in the models, unless noted, and no configuration.

* `keepAll(false)` directly followed by `keepAll(true)`: the trim of the first
  may run after the pull of the second (`db-client.js:70`).
* `rememberKept` stores its row whenever revisions differ, so an answer that a
  pull has overtaken replaces the newer record (`db-through.js:37`).
* A chosen item is stored without a generation; if that lands between the last
  page of a resync and its prune, the prune drops it (`db-keep.js:50`).
* `clear()` waits for the running pull and resets one turn later; a pull that
  starts in that turn has read the old cursor and writes it into the emptied
  store (`db-client.js:83`; `db-pull.js:124` says "a clear waits for it").
* A failed edit "is never sent again by itself" (`OFFLINE_DESIGN.md`), but the
  undo record of its `put()`, stored after the replay parked the edit, makes it
  a queued one again (`data-queue.js:163`).
* A pause that is resumed while it drains still runs its hooks and answers
  "paused" (`controller.rs:169`).
* A timer that found its pause in force calls `resume()`, which ends whatever is
  in force by then: a pause that was extended, or begun, between its looks at the
  lock ends early (`controller/hooks.rs:47-52`; `gate.rs:21` says a timer of an
  earlier pause "never ends a later one").
* A raise that fails sets the mode back without a look at the number of the pause
  or at another raise that succeeded meanwhile (`controller.rs:61`), and a refused
  pause runs its resume hooks also when a later pause is in force
  (`controller.rs:172`, hooks are not steps of the model).
* A crash between putting the old binary back and remembering the skip lets the
  version be installed again (`store.rs:76` says "never retried"); when clearing
  the note of a proven version fails, its next starts are counted as attempts,
  and it can be reverted. The event of a rollback is handed to a process that
  exits at once (not modelled).
* A delivered message whose row cannot be deleted is sent again at once, without
  the pause a failed write of a retry time gets (`outbox_loop.rs:57` and `:71`).
* An address that is saved while a message is failing: `due_now` resets the retry
  time and `failed()` sets the old backoff after it (`edit.rs:72` says waiting
  messages "need not wait out an old backoff").
* A write beside the message that fails (counting what the cap dropped,
  `status.rs:30`; `due_now`, `edit.rs:75`) returns before the wake-up: the message
  waits until the loop's timer, at most an hour. `NoMissedWake` excepts it.

### 3.3 Bounds and why they are enough

* Items: a shared item, and one of the login's own or of another login. Two
  items are the least for which a page (`Limit = 1`) splits a sweep, for which a
  number can be taken between two rows, and for which one row can raise the
  floor past another. `log_pages` and `log_ghost` use the same items.
* `pull` has pages of one item (`Limit = 1`), so that a sweep has two: an answer is
  lost between them, a restore or retention gives a run its second 410, the page is
  closed in the middle of a resync. `pull_converges` has sweeps of one page
  (`Limit = 2`), as the log itself loses a deletion between two pages (3.1); two
  changes are the least for a record that a deletion must take away.
* `db` has one item and one change of it, two calls of `keepAll`, a full store and
  lost answers: the races are between what the page does about one item, and
  items share only the switch, the clear and the meta row, which a second one does
  not change. The proof (4.5) has any number.
* `MaxSeq` 1 to 5 changes: create, delete and recreate one item beside another.
* `MaxEpoch`: one restore after one kit copy; `MCChangeLogTwice.cfg` has one more.
* Five generations: those of two records, the meta row, the frame and a fresh
  one; so `FreshGen` always exists.
* One collection and one device suffice, as collections share only the counter
  and devices share nothing; an item of another login moves the counter and the
  floor, which is all another collection or device can do.
* `rounds` has three callers, who come back: one that starts, one that joins, and
  one that joins the round that follows or comes in the last turn, beside any number
  of calls that nobody waits for. Nothing else bounds it.
* Two edits: `queue` has two replacements, of which the second may carry the
  revision the first moves; `queue_held` a replacement before a create. Two
  requests given up (`queue`) let an edit be queued and its replay fail again, or
  two edits be queued that were both sent at once; one (`queue_held`) is the
  least that queues an edit. `MaxEvents` bounds another device's writes, closing
  the page and saving again together: one in `queue_held`, which is the least
  that makes each of them happen. Joined replays are left to `rounds`, and the
  copy is read only while an edit is to be made or saved, as nothing else looks
  at it.
* `backup` has three calls, so that a refused one, one that extends and the
  next pause meet; one writer at a time, as only "none" and "some" differ; one
  resume; and a clock of two ticks, so that an extension can move a deadline and
  a timer can find it moved.
* `update` releases five versions: two bad ones in a row, and a last bad one that
  nothing newer follows. Four faults are one for each write of a probation and its
  revert (two counted starts, the clear, the skip), in one update or spread.
* `outbox` has a message of the project and one of the kit, so that the targets
  of two kinds differ and one can hold up the other; a cap of one, which the
  second message exceeds while the first may be under way, and of two; a hand-off
  of one, which overflows; one change of the addresses; two faults, so that what
  one fault begins another may end. Nothing is refused for good, or the newer
  message by both its targets and the older one by its first (`MCRefusals`).
* Deadlock is checked everywhere except in `update`, where the last release, once
  healthy, is the end.

### 3.4 Fairness

* `ChangeLog!FairSpec`: weak fairness of a device's page. Pages pull at their
  start, on a timer, on hints, and when they are online again; the server always
  answers, with a page or a 410, so nothing disables the step for good. Writes
  and retention are not fair: `CatchesUp` speaks of a log that rests, which the
  bound `MaxSeq` brings about.
* `SyncPull!FairSpec`: weak fairness of starting a pull (timer and hints), strong
  fairness of each turn and each answer. A turn that is due runs; a lost answer
  or a restart of the run may withdraw it, a page may not fit and the tab may be
  closed, but not each time. That a full store has room again in the end is an
  assumption on the device, not something the code does.
* `JobRounds!FairSpec`: weak fairness of the end of a round (an answer or a
  failed request; requests have a timeout), unless it throws, and of the
  `.finally()` turn. Calls are not fair, and `CallsAreAnswered` says as a
  hypothesis of its own that they cease to join; `RoundThrows` is not fair.
* `BackupGate!FairSpec`: the clock runs; the tasks of a call go on (the drain is
  bounded by its timeout and hooks are blocking functions that return, whichever
  of the two outcomes comes); a timer that is due is scheduled. Nothing is assumed
  of writers, resumes or the service's stop: `PauseEnds` must not need them.
* `SelfUpdate!FairSpec`: the supervisor starts what went down and a process that
  runs goes on with its next step. New releases are not fair; kills and failed
  writes are bounded by `MaxFaults`, so each step in the end succeeds.
* `Outbox!FairSpec`: weak fairness of the writer, of a change of the addresses
  that has begun, of the loop (tasks of the runtime, timers fire) and of a retry
  time that passes. `SF` of `Taken` per message speaks only of targets that may take
  it: one that is asked for a message again and again takes it, unless it is
  `refused`. For a target that is down for good, or that always refuses a message,
  nothing is assumed: `Taken` is never enabled.

## 4. Proofs

### 4.1 The change log

`ChangeLog_proofs.tla` is checked by TLAPS for every value of the constants
(any finite set of items, any collections, scopes, logins, devices, page size
and bounds), from the assumptions the modules name (`ItemsAssumption`,
`FollowersAssumption`, `BoundsAssumption`, `NullsAssumption`).

| Theorem | States | Extra hypothesis |
|---|---|---|
| `TypeCorrect` | `[]TypeOK` | |
| `CommitsAreAhead` | `CommitsLandAhead` | |
| `EpochsNameOneHistory` | `[]EpochNamesOneHistory` | `OncePutBack` |
| `NoLiveItemIsSkipped` | `[]NoLiveItemSkipped` | `OncePutBack` |
| `NothingIsMissed` | `[]NothingMissed` | `OncePutBack`, `OnePageSweeps` |

`OncePutBack` is `MaxRestores <= 1`, which `MCChangeLogTwice.cfg` shows is needed;
`OnePageSweeps` is `Cardinality(Items) <= Limit`, which `log_ghost` shows is needed.

**The argument.** None of these is inductive. `IInv` adds:

* `LogInv`: in the committed file, the open transaction and the copy, every row
  and every floor is at most the counter, no two rows share a number, and the
  transaction starts from the file that is committed now. `CommitsAreAhead`
  follows from it alone.
* `EpochsMade`: no epoch in a file or a cursor is above the number of epochs
  made so far, so the next one is new to all of them.
* `CopyIsAlone`: while a kit copy waits to be put back for the first time, no
  file and no cursor has its epoch. This is what fails at the second time.
* `PositionsOK`: a cursor of the file's epoch is at most its counter.
* `OwedIsVisible`: what a device is owed is something it may see, and if it is
  live its row is above the cursor.

The step that needs the most is `Restore`: either the copy is a kit's, and then
no cursor has its epoch, or its witness is the identity of a file that is not the
restored one, and then the epoch is fresh; in both cases no old position is
served. For a page, `FirstBySeq` lists everything at or below its last row, so
what is owed and not listed is above the new cursor; at the end of a sweep
everything live is listed, so rising to the floor passes no live item.
`NothingIsMissed` needs that a tombstone above the cursor goes only when the
floor passes it (`RowsAhead`), and that no tombstone can appear inside a sweep.

### 4.2 The backup gate

`BackupGate_proofs.tla`, for any calls, lengths, writers, resumes and ticks
(`GateAssumption`): `TypeCorrect`, `HeldFilesAreStill` (`HoldIsStill`),
`RefusedCallsLetGo` (`RefusalLetsGo`) and the refinement `GateKeepsContract`,
`Spec => Promise!Spec`.

**The argument.** `IInv` adds to the three invariants that no call knows of a
pause that has not begun (`Known`: `mine[p] <= epoch`). A pause that begins takes a
number above all that are known, so nobody is past *its* drain and nobody was
refused it; a pause that ends, by any hand, holds nothing; a call that is refused
touches the gate only if the pause is its own. For the refinement each step of
the gate is one of: a ticket while nothing is held, a drain that ends with no
ticket out (`Hold`, or nothing if the pause is no longer the call's), an end of the
pause in force (`Release`, or nothing if it was still draining), or a step that
leaves who holds as it was.

### 4.3 The self-update

`SelfUpdate_proofs.tla`, for any number of releases, bad ones, attempts and faults
(`UpdateAssumption`, `NoUpdateAssumption`): `TypeCorrect`, whatever fails; and under
`NoteMayFail = FALSE`, which `MCSelfUpdateUnnoted.cfg` shows is needed,
`RollbackTargetIsKept` and `SkippedVersionsStayOut`.

**The argument.** `IInv` says, for each place the process can be killed at, what
lies on disk (`Placed`), that only a healthy version installs, a newer one, while
none is pending (`Proven`), that a pending update leads upwards and from a proven
version (`Pending`), that in a revert the old binary is back already (`Reverted`),
and that nothing skipped lies where it could come back from (`Skipped`: not the
binary, nor what a pending update would go back to, nor what is being installed).
A kill keeps all of it (`GoingDownPreserves`), which is what makes it a statement
about crashes.

### 4.4 The outbox

`Outbox_proofs.tla`, for any number of messages, caps, changes of the addresses and
faults (`OutboxAssumption`): `TypeCorrect` (the cap on the rows included), `NothingIsLost` (`NothingLost`),
`TakenAgainOnlyByFault` (`TakenTwiceOnlyByFault`) and `NoWakeIsMissed`
(`NoMissedWake`).

**The argument.** A message is deleted only once the loop has seen it taken
(`AcceptedTook`), or by the cap, which keeps the newest (`CapKeepsTheNewest`). A
message may be taken once without a fault, so the bound `1 + faults` alone is not
inductive; `Offered` says that a message that may still be offered - it is to come,
in the hand-off, stored or being asked for - was taken no more often than something
went wrong. That needs that a message never comes back once it left, so `Queued`
says that the hand-off is in order and newer than what is stored and what the loop
works on. `NoMissedWake` is inductive by itself: every step that makes a message
due leaves the change or the writer about to wake, and the loop falls asleep only
when nothing is due.

`TypeCorrect` includes that the rows are never more than the cap. The code deletes
what lies below the newest `cap` rows after each insert, so the proof counts: among
finitely many messages the newest `n` are a set of at most `n`
(`NewestFitTheCap`), and deleting or delivering leaves fewer (`FewerFit`).

### 4.5 The pull and its store

`SyncPull_proofs.tla`, for any finite set of items, any page limit, any bounds and
whichever of losing answers, closing the page and filling the store may happen
(`ItemsAssumption`, `PullAssumption`, and `GensAssumption`: there is always an
unused generation, as a new UUID is one).

| Theorem | States | Extra hypothesis |
|---|---|---|
| `TypeCorrect` | `[]TypeOK` | |
| `ListedStaysStored` | `[]ListedIsStored` | |
| `CurrentRecordsStayStored` | `CurrentRecordsStay` | |
| `RecordsNeverGoBack` | `NeverGoesBack` | |
| `StoreIsTheFeed` | `[]StoreMirrorsLog` | `OnePageSweeps` |
| `LocalTypeCorrect` | `[]LocalTypeOK` of `LocalSpec` | |
| `OnlyRacesLeaveRecords` | `[]OnlyRacesLeaveStrays` of `LocalSpec` | |

`OnePageSweeps` is needed for the reason `log_ghost` shows: a longer sweep loses a
deletion between its pages. `ListedStaysStored` does without it: no page size and
no interleaving loses a *live* item.

**The argument.** What the run sees at one moment is not inductive; `IInv` adds
what the parts in flight know:

* `FrameOK`: the locals of a running pull (`since`, `gen`) are what the meta row
  says, a sweep has a generation, and the end of a resync stands at a position
  that is no sweep.
* `Known`: no stored body and no cursor is ahead of the file it came from.
* `Listed`: what is live up to the stored cursor is stored as it is, with the
  generation of an unfinished resync, also when the floor has passed the cursor
  since: an answer read before may still come.
* `PageOK`: the page on its way lists what is live up to its cursor, or leaves alone
  what was stored already (`Covered`), and deletes nothing that is live as stored.
* `PruneSpares`: before a resync ends, what is as the service has it carries its
  generation.

The steps that need the most are the service's own (`ServiceMoves`): a row either
stays, or goes, or rises above every position reached, or the whole file is another
epoch. So nothing live *by a position* can have changed since that position was
read. `OrderInv` adds that nothing stored is newer than its row and no page on its way
older than what is stored (`NoneAhead`, `PageIsNewer`), which gives
`RecordsNeverGoBack`; beside `rememberKept` it does not hold (3.2). `WholeInv` adds for
deletions: a record that is gone by the cursor does not
carry the generation of the resync (`GoneIsDropped`), nor will it after the page on
its way (`PageDrops`).

For `LocalDb`, `KeptInv` says that a record that is neither kept nor a stray waits
for a call of `keepAll` that is still to trim (`KeptOrTrimmed`), and that what a
request is about to store is kept, or its item is a stray (`ReadIsKept`). It holds on
every page, whatever it uses, with any number of calls of `keepAll` at once.

### 4.6 Joined jobs

`JobRounds_proofs.tla`, for any callers, any rounds and any number of calls that
nobody waits for: `TypeCorrect` and `ReplaysAreAnsweredFresh` (`ReplaysAreFresh`).
**The argument.** Who joined the present round of `replay()` makes it go again
(`JoinedGoesAgain`), so a job that ends by itself has nobody to answer but those
whom the last round began after; one that throws gives its callers an error.

### 4.7 The write queue

`WriteQueue_proofs.tla`, for any number of edits, any of them creates, any policies,
faults and bounds (`QueueAssumption`): `TypeCorrect`, `NothingIsLost`
(`NothingLost`), `OrderIsKept` (`InOrder`), `AppliedAtMostOnce` (`AppliedOnce`),
`TimerIsSet` (`NeverStranded`) and the refinement `QueueKeepsContract`
(`Spec => Contract`).

**The argument.** An edit is written in up to five places at once: stored, in memory,
in the call that made it, in the locals of the replay and of the person's step
(`IsVersion`), and its requests may be under way or late (`Asked`). `IInv` says:

* `Frames`, `Born`: what the locals of each turn are, and that nothing is written of
  an edit before it was added.
* `Waits`: what was accepted waits in memory, or took effect, was dropped or failed.
* `Ordered`: ids follow the order in which edits were accepted, whichever copy of an
  edit is written back. `Turn`: what may still take effect has nothing before it.
  The two give `InOrder`: only the head of the queue is sent, and an edit is sent at
  once only while nothing waits.
* `Seen`, `Once`, `Rebases`: no revision anywhere is ahead of the service's; once an
  edit took effect, every revision it is or may yet be sent with is behind the
  service's, so a late or repeated request meets a conflict. Rebasing keeps this
  because the revision it hands on is the one the edit before it has just made.

`TimerIsSet` is inductive with the types alone: every turn that ends a round or
changes what waits sets the timer by what is left.

**The refinement** takes a step of the code together with `IInv` before and after it.
A step that leaves the store, the history and the effects as they were is a stutter
(`SpeaksOf`; `CallsStay` says that no edit was made); one that writes an edit back is
`Store`, because all that is written of an edit was made (`VersionsAreMade`, from
`Born`); an answer is `Clear` only after the effect (`Frames`). A request that reaches
the service is `TakeEffect` (`ServedRefines`): `Turn` says that what is ahead is over,
and `Once` after the step that it had not taken effect before. `Close` is `Keep` of
all that is stored.

### 4.8 Only model-checked

`CatchesUp`, `Converges`, `CallsAreAnswered`, `PauseEnds`, `BadVersionLeaves`,
`DeliveredAtLast` and the liveness of the backup gate's `Contract`: liveness is out of the prover's
reach. Every invariant and every safety action property of the runs is proved,
under the hypotheses named above.

## 5. Plan

1. *(done)* `SyncFeed`, `ChangeLog`, `SyncPull`, `LocalDb`, `JobRounds`,
   `WriteQueue`, `PauseContract` and `BackupGate`, `SelfUpdate` and `Outbox`, with
   proofs of the invariants their runs check; `EditContract`, and the refinements of
   the gate and the write queue.
2. Proofs: the refinement of point 5, once its abstract specification is written.
3. The write queue: logout and purge; two tabs on one stored queue; a store
   operation that fails.
4. `TrackedTable`: triggers, dirty marks and the flush before a commit, a
   collection that is undeclared and declared again; abstract specification: the
   log names every row whose body differs from what the log last said.
5. `SyncPull` refines an abstract device (`Follow` and `Resync` of `ChangeLog`);
   two pages on one store ("Pulls of one collection never run twice at once").
6. The command-line side of the backup pause: the unit that is stopped instead,
   its marker and its dead-man timer. Sessions and passkey challenges.

## 6. What is not modelled

`PROJECT.json` lists every component with its status. Left out for good: page
rendering, markup, styles, templates and configuration parsing (no state that
steps interleave on), SQLite and IndexedDB themselves (taken as transactional
stores), cryptography, and the bytes of cursors and JSON.
