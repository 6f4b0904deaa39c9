# Verification of the PostgreSQL search replica

TLA+ models, TLC runs and TLAPS proofs about the daemon in `src/src/pg_replica`:
the program that copies tables of a source database into a sink database by
logical replication, has pgai turn their rows into embeddings, publishes a search
view per target, and mirrors the embeddings to Qdrant. All file names below are
relative to `src/src/pg_replica` unless they start with `tla/`.

1. [The system](#1-the-system)
2. [Plan](#2-plan)
3. [HybridRecovery](#3-hybridrecovery-one-target-from-slot-to-stream)
4. [OutboxMirror](#4-outboxmirror-from-store-table-to-qdrant)
5. [ConfigRollout](#5-configrollout-from-a-posted-configuration-to-the-search-view)
6. [GhostSweep](#6-ghostsweep-the-anti-entropy-sweep-query-by-query)
7. [SourceSync](#7-sourcesync-sources-without-a-slot)
8. [ControlPlane](#8-controlplane-posts-and-previews)
9. [Fleet](#9-fleet-one-reconciliation-over-all-targets)
10. [Runs and bounds](#10-runs-and-bounds)
11. [Proofs](#11-proofs)
12. [Where the code departs from its documentation](#12-where-the-code-departs-from-its-documentation)
13. [Not modelled](#13-not-modelled)

## 1. The system

A daemon holds a `Settings` object with *pipelines* (targets): a source table, a
configuration of chunking and embedding, and a storage section with mirrors and
branches. Everything durable lives in databases; the daemon only moves state
between them, one `await` at a time.

| Component | State it keeps | Operations | Talks to |
| :-- | :-- | :-- | :-- |
| Orchestrator (`orchestrator.py`) | tasks of the daemon | `start`, supervised loops with restart, `_replication_loop` (lag watchdog, auto-heal), `stop` | Reconciler (call), MirrorWorker (task), `drop_subscription_completely` |
| Reconciler, Inspector, Planner, Applier (`reconciler.py`) | none between runs; a snapshot of both databases and a plan during one | `reconcile`: lock, load latest configuration, discover, plan, apply per target | all databases |
| Source adapters (`source/`) | publication, slot (in the source database) | `prepare_sync`, `create_slot`, `fetch_batch`, `monitor_lag`; file sources: listings | source database, S3, file system |
| Sink set-up and teardown (`database.py`) | `_replica_state`, subscription, vectorizers, search views | `setup_sink`, `atomic_view_swap`, `find_and_fix_ghost_records`, `drop_subscription_completely` | sink, and source for the sweep and the slot |
| Universal outbox (`database.py`) | `_sink_outbox`, `_sink_mirror_registry`, triggers on store tables | trigger capture, `setup_outbox_trigger` with backfill | written by pgai's worker, read by MirrorWorker |
| Mirror worker and Qdrant adapter (`mirror_worker.py`, `adapters.py`) | progress and promoted version in the registry; collections and alias in Qdrant | poll, `sync_batch`, `update_alias`, error recording | sink, Qdrant |
| Control plane (`database.py`, `observability.py`, `config.py`) | `_replica_config_history` generations and statuses, advisory lock, shared `Settings` | `save_table_config`, `update_config_status`, HTTP update, dry run | Reconciler |
| Polling and file sources (`source/postgres.py`, `source/s3.py`, `source/local.py`) | `last_id` in `_replica_state` | keyset pages, listings | Applier |
| Helpers (`utils.py`, `strategies.py`, `client.py`, `cli.py`, `main.py`, `worker_daemon.py`) | none | `wait_until`, SQL text, search query, process start | |

What is hard here, and what correct means, per component:

* **Recovery of a target.** Pages and the ghost sweep are read at one moment and
  written at a later one, while the slot accumulates changes that will be applied
  to the same rows; the slot is both the anchor of the catch-up and the only sign
  that a catch-up took place; any step can fail or be the last one before a crash;
  a teardown touches two databases and each half can fail. *Correct:* no step
  loses a row while a slot exists; nothing streams under a recovery; streaming
  starts over the slot that anchored the catch-up; in the end the copy equals the
  source and stays so.
* **Outbox and mirrors.** Ids of an entry are drawn before its transaction
  commits; a batch spans several collections and is applied as upserts, then
  deletes; Qdrant and the registry change in separate steps; every daemon runs a
  worker; a store table can be dropped and built again under its collection.
  *Correct:* progress never passes an undelivered entry; a mirror that is caught up
  holds what the store table holds; the alias ends at the live version. The second
  of these the code does not keep in general: sections 4 and 12 say when.
* **Planner and promotion.** Decisions rest on counts read earlier in the same
  reconciliation, on keys that must match between writers and readers, and on
  names that protect store tables from cleanup. *Correct:* a view or alias never
  moves to a version that lacks rows the old one has (blue-green), the live store
  table is never dropped, a new version is promoted in the end.
* **Control plane.** Generations are computed by reading a maximum; a lock holder
  excludes others by making them return; a dry run swaps shared settings across
  an `await`. *Correct:* a later post gets a higher generation, and there is no gap
  (overlapping saves may share a number); a simulated configuration is never
  applied; a posted one is.
* **Sweep by checksum.** Counts and XOR of chunks of BIGINT keys decide what is
  compared key by key; each query sees its own moment. *Correct:* only ghosts are
  deleted, and none is left unless the checksum hides it.
* **Polling and file sources.** An empty page means the end; a saved cursor means
  "already synchronised". *Correct:* the cursor never runs ahead of the copy; what
  a pass lists arrives; the pass ends.
* **Several targets and branches.** A plan is made from what exists and applied
  statement by statement; a failure ends one target's part; the next plan looks at
  some of the objects only. *Correct:* whatever failed before, a reconciliation
  that goes well for a target leaves it whole, takes nothing down, and tells its
  outcome.

`PROJECT.json` lists every component with what is modelled of it, and every hazard
at its line.

## 2. Plan

| | Module | Contents | State |
| :-- | :-- | :-- | :-- |
| 1 | `HybridRecovery`, `ReplicaContract`, `HybridRecoveryProofs` | One CDC target from slot to stream and back, the contract it implements, and the proofs | modelled, checked, proved |
| 2 | `OutboxMirror`, `OutboxMirrorProofs` | Capture, backfill, mirror worker, Qdrant, alias | modelled, checked, safety proved |
| 3 | `ConfigRollout`, `ConfigRolloutProofs` | Generations and statuses, the lock, discovery, plan and its application to vectorizer and view, teardown beside it, several daemons | modelled, checked, safety proved |
| 4 | `GhostSweep`, `GhostSweepProofs` | The sweep query by query: chunks with count and XOR, or whole tables | modelled, checked, safety proved |
| 5 | `SourceSync`, `SourceSyncProofs` | Cursor-based synchronisation of polling and file sources | modelled, checked, safety proved |
| 6 | `ControlPlane`, `ControlPlaneProofs` | Update and dry run over the shared settings; generations under overlapping saves | modelled, checked, proved |
| 7 | `Fleet`, `FleetProofs` | One plan over several pipelines and branches, its application and its repair | modelled, checked, safety proved |
| 8 | `Handshake` | `ConfigRollout`'s promotion composed with `OutboxMirror`: the Planner reads watermarks and mirror progress at discovery and acts on them later; inactive pipelines | to do |

How the modules meet: `ReplicaContract` is implemented by `HybridRecovery`.
`GhostSweep` takes apart what `HybridRecovery` and `SourceSync` contain as two
reads and a deletion. `ConfigRollout` begins where `ControlPlane` has stored a
generation, and its promotions are the ones `OutboxMirror` follows. `Fleet` runs
the actions the other modules detail over several targets, with objects that are
there or not. There is no module for `wait_until`: it keeps no state, and a retry
loop is one step that succeeds or times out.

Theorems wanted beyond those of section 11: with row 8, that what the Planner read
at discovery still holds when the view is moved.

## 3. HybridRecovery: one target from slot to stream

The databases are `source`, `wal`, `published`, `slot` on one side and `sink`,
`sub`, `state`, `vectorizer` on the other. The daemon is a program counter `pc`
with the locals of the running coroutine (`from`, `cursor`, `batch`, `sourceIds`,
`sinkIds`, `opts`). Every `await` at which the databases can change under the
daemon separates two actions; between awaits a coroutine runs alone.

| Action | Code |
| :-- | :-- |
| `Start` | `Orchestrator.start` |
| `DiscoverSource`, `DiscoverSink` | `Reconciler.reconcile`, Inspector and the recovery and vectorizer parts of `Planner.plan` |
| `SourceSetup` | `PostgresCDCAdapter.prepare_sync` |
| `CreateSlot`, `SaveLsn`, `ReadState` | the first half of `SINK_RECOVERY` in `Applier.apply` |
| `Fetch`, `Upsert`, `SaveCursor` | the keyset loop of `SINK_RECOVERY` |
| `ReadSourceIds`, `ReadSinkIds`, `DeleteGhosts` | `find_and_fix_ghost_records`, by set comparison |
| `SetupStateRow`, `CreateVectorizer`, `Decide`, `Subscribe`, `Enable` | `setup_sink` |
| `SelfDestruct`, `Stop` | `monitor_lag` with `_replication_loop`; `stop`, which may cancel an auto-heal at any step |
| `Disable`, `Detach`, `DropSubscription`, `DropVectorizer`, `SinkTeardownFails` | the sink's half of `drop_subscription_completely`, statement by statement |
| `DropSlot` | its source's half, which runs whatever became of the sink's |
| `StepFails`, `Crash` | the `except` of `Applier.apply`; a dying process |
| `Insert`, `Update`, `Delete` | the application on the source (external) |
| `ApplyChange`, `TableCopy`, `SlotLost` | PostgreSQL's apply worker, initial copy and slot invalidation (external) |

A row's content is the log position that wrote it, so "right" means "written by
the same statement as in the source". `Lost(k)` is the heart of the properties:
neither the sink's row nor what the slot still holds for it makes row `k` right.
It is stated so that a change *under way* counts as fine and a change nobody will
deliver counts as lost; in particular a pending UPDATE cannot bring back a row the
sink lacks.

`ReplicaContract` is the contract without mechanism: each key is *level*, *owed*
or *lost*; with an anchor, a write is owed and nothing becomes lost; only giving
the anchor up loses keys. `ImplementsContract` maps "anchored" to "the slot
exists" and a key's standing to `Lost` and the pending changes.

`Env` chooses the surroundings of a run: crashes, failing steps, hot inserts, a
teardown that fails on one side, a source outage during discovery, a slot that
vanishes. `SameName` says whether the target is named like its table. `Matching`
is the set of contents `ingest.filter` lets through: pages are read under it, the
publication and the sweep are made without it. A configured filter also makes the
Planner plan `SOURCE_SETUP` every time (`Filtered`), for discovery reports none.

Two mishaps void what the code can promise, and the model records them instead of
excluding them: `mishaps` holds "leftover" once a subscription that was not
detached may have been left without its slot (`SinkTeardownFails`, `SlotLost`),
and "outage" once a discovery that did not reach the source missed that there is
no slot. `SlotsAreKept` (no leftover) and `SourceAnswers` (neither) are conditions
inside the properties; `recovery_failures` and every theorem let the mishaps
happen. They are also what ends the contract: `ReplicaContract` is `void` from then on.

## 4. OutboxMirror: from store table to Qdrant

One target with a store table per configuration version. pgai inserts, replaces
and deletes a row's embedding; replacing is a DELETE and an INSERT in one
transaction, so `StoreUpdate` draws two outbox ids where `StoreInsert` and
`StoreDelete` draw one. Ids are drawn when the trigger fires (`Capture`) and
become visible at `StoreCommit`. `AttachTrigger` and `Backfill` are the two halves
of `setup_outbox_trigger`; `SetupDies` is a reconciler that ends between them.
`DropStore` is what a stop or an auto-heal does to the version: the store table
goes, its trigger with it, and no DELETE entry is written; afterwards `FillStore`,
`AttachTrigger` and `Backfill` build the same version again, over the collection
that is there. `Promote` is what `atomic_view_swap` leaves in `_replica_state`;
when it happens is not constrained here (`ConfigRollout` models that).

A worker's round is `Poll`, then per collection `UpsertGroup` and `DeleteGroup`
(the two Qdrant calls of `sync_batch`), `SaveProgress`, `CheckPromotion`,
`UpdateAlias`, `SaveMirrored`. `SyncRefused` is the error path for a delete from
a collection that does not exist, `SyncFails` any other failing call,
`WorkerDies` a crash. `Env` adds overlapping store transactions, a transaction
open across the backfill, a set-up that dies, a failing call, a dying worker and
a promotion back to an earlier version.

Several things the code does make a mirror differ from its table for good. They
all happen in the run, and history variables record where, so that the properties
except those places and no others:

| Recorded | When | Excepted in |
| :-- | :-- | :-- |
| `late` | an entry became visible after a higher id had; a poll in between skips it | `NothingSkipped`, `CaughtUpIsExact`, `Delivered` |
| `orphaned` | a row's newest entry is not about its store row: the table was dropped and the row did not come back, or the backfill enqueued an old row behind a newer entry | `CaughtUpIsExact` |
| `outdated` | a point was last written from an entry that a newer one of its row had overtaken: the batch's deletes after its upserts, or an old batch of a slower worker | `CaughtUpIsExact` |

A fourth one, `handed`, holds the entries the adapter was given.

`CaughtUpIsExact` says that nothing else goes wrong: once the saved progress is not
below any entry of a version whose outbox is set up, a row without such a record
has in the collection exactly what it has in the store table, whatever died, was
retried or replayed on the way. `Refused` is the other exception, of `Delivered`
and `AliasFollows`: a batch of deletes for a collection that does not exist and
that none of its upserts creates fails for ever. `MirrorConverges` is the README's
promise without any exception; it does not hold (`mirror_drifts`).

## 5. ConfigRollout: from a posted configuration to the search view

Several daemons share a sink. `history` is `_replica_config_history`, `lock` the
advisory lock, `stores` the versions with a vectorizer, `filled` those of them
without pending items, `view` the version `<target>_search` selects from, `hash`
the recorded `config_hash`. Per daemon: `pc`, the configuration and generation it
loaded, and the plan.

| Action | Code |
| :-- | :-- |
| `BeginPost`, `EndPost` | `save_table_config`, its two statements in autocommit |
| `TryLock`, `Skip` | `reconciliation_lock`; a call that finds it taken returns as if it had succeeded |
| `LoadConfig` | `get_latest_table_config`, any of several entries with the greatest generation |
| `Discover` | `Inspector.get_sink_state` and the vectorizer, view and cleanup parts of `Planner.plan` |
| `MarkSyncing`, `MarkReady`, `Marked` | the statuses `Reconciler.reconcile` sets, by generation |
| `Cleanup`, `CreateStore` | `SINK_VECTORIZER_SETUP` in `Applier.apply` |
| `SwapView`, `SwapFails` | `atomic_view_swap`, one transaction; it fails when the embedding view is gone |
| `StepFails` | the `except` of `Applier.apply` |
| `CallRaises` | an exception outside the actions: the `except` of `Reconciler.reconcile` marks the generations Failed, unless it came too early or that raises as well; at a start the call is made again, after an auto-heal it is not |
| `Crash` | a dying process, whose supervisor starts it again |
| `BeginTeardown`, `DropStores` | `drop_subscription_completely` of the watchdog or of `stop`, which takes no lock |
| `Embed`, `RowArrives` | pgai's worker and replication (external) |

Two look-ups are modelled as the code makes them. A search view uses the raw
table and the embedding view of a version, never a store table, so the view's
target the Planner compares with is never the expected one (`ViewUsage`). And
pending items are keyed by source table but looked up by store name, so the
Planner takes 9999 for the miss (`Statuses`, `Pending`). `SINK_TABLE_CLEANUP` is
planned but the Applier does nothing for it.

`due` holds the daemons that are bound to call `reconcile`: all at their start,
one that crashed when it starts again, one whose watchdog tore a target down.
Nothing else calls it, in particular not a post, and not a failed step; a caller
of its own may do so at any time. Two history variables: `disturbed` holds
the reconciliations beside which a teardown ran, `seen` what has gone wrong so far
("failure": anything but a crash; "silence": a call that raised without a report).
`NewestSettles` promises nothing after a silence: a call after an auto-heal that
dies before its report leaves its generation Syncing. `Served` is about crashes
alone, for a failed step is not retried.

`ViewStays` is what the lock is for: `cleanup_vectorizer_infrastructure` drops a
search view over the version it is about to build, which is harmless only
because nobody else can have built it between discovery and cleanup.

## 6. GhostSweep: the anti-entropy sweep, query by query

`source` and `sink` are the keys of the two tables. Every query of
`find_and_fix_ghost_records` is an action, for each runs on a connection of its
own or at READ COMMITTED.

| Action | Code |
| :-- | :-- |
| `Preflight` | `wait_for_source_table` |
| `SinkMin`, `SinkMax`, `SourceMin`, `SourceMax` | range discovery: the ends of both key ranges, each side in a `try` of its own |
| `ReadTypes` | the key's type and with it the strategy; two empty tables end the sweep |
| `ReadAllSource`, `ReadAllSink` | comparison of whole tables |
| `CountSource`, `CountSink` | count and `bit_xor` of a chunk, `BETWEEN` both its ends |
| `DeepSource`, `DeepSink` | the keys of a chunk whose checksums differ |
| `DeleteGhosts` | the DELETE and its commit |
| `SinkRangeFails`, `SourceRangeFails` | a range query that fails: logged, and the sweep goes on |
| `StepFails` | any other exception, or the end of the process |
| `AppWrites`, `StreamWrites` | an application on the source; a stray subscription on the sink (external) |

The code asks for "BIGINT" or "INT" in a type that `information_schema` spells
"bigint" or "integer", so only BIGINT keys are swept by chunks (`numeric`); every
other key is compared whole. `Bit(k, b)` is bit `b` of key `k` in two's
complement, `Width` the number of bits that matter.

`NoGhostSurvives` says exactly what the checksum can hide: `Hidden(g)` demands
two or more missing rows in *every* chunk over `g` (neighbouring chunks share an
end). One missing row cannot do it: count and XOR of the chunk would agree only
if the two keys were equal. `seen`, `absent` and `missed` record what the tables
held at any moment of the sweep, so that the properties can speak of rows that
were ghosts all along or at some moment; `blind` records that the sink's range
could not be read.

## 7. SourceSync: sources without a slot

One target over a polled table, an S3 bucket or a directory (`kind`). A key is
its rank in listing order; `markers` are a bucket's directory markers, which take
up places in a listing and are dropped from the page. `passing` is what the
pipeline's filter lets through: the pages of a polled table are read under it, the
adapters of files and the sweep know of none.

| Action | Code |
| :-- | :-- |
| `Start` | `Orchestrator.start`, or the reconciliation after another target's auto-heal, with the recovery part of `Planner.plan` for these sources; a source that does not answer its discovery gets no pass |
| `Fetch` | `fetch_batch` of the adapter |
| `Upsert`, `SaveCursor` | the loop of `SINK_RECOVERY` |
| `ReadSourceIds`, `DeleteGhosts` | the sweep of a polled table; file sources have none |
| `SetupStateRow`, `CreateVectorizer` | `setup_sink` |
| `Stop` | teardown, which may fail before it drops the vectorizer; the state row and the raw table stay |
| `StepFails` | a failing step: the rest of the target's actions is skipped, the daemon goes on to serve |
| `Crash` | a dying process, in a pass or while serving |
| `Write` | whoever owns the rows, objects or files (external) |

The Planner orders a pass while the target's row in `_replica_state` is missing
or its `last_id` is '0'. The row is made by `setup_sink`, *after* the pass, so the
first pass saves its cursor nowhere, the second one saves it, and there is no
third. The properties are about the passes there are: `NothingBehindCursor`
(what lies at or below the cursor and passes the filter is in the sink),
`PassIsExact` (what passes the filter and was held by the source throughout a pass
has arrived at its end, with one exception, `CutOff`: a page of nothing but markers
is empty and ends the listing), `PassEnds`. That nothing arrives after the last
pass is in section 12, and so is what becomes of a row that stops to pass.

## 8. ControlPlane: posts and previews

The requests of the HTTP server that change state, and `save_table_config`, which
other processes call as well. `settings` is the entry of the shared `Settings`
that both requests override for the Planner; `history` the stored generations.

| Action | Code |
| :-- | :-- |
| `Post`, `Preview` | `update_config`, `dry_run` up to the discovery they await |
| `Admit`, `Reject` | override, trial plan and restore of `update_config`, between two awaits |
| `ReadGeneration`, `Insert` | the two statements of `save_table_config` |
| `Override`, `PreviewFails` | the override of `dry_run`, and a Planner that raises |
| `Restore` | the restore of `dry_run`, after it awaited the projections |
| `Abort` | a failing query, or a client that goes away, at an await |

`older[r]` records the posts already answered when `r` began to save, for
`LaterPostWins`: two overlapping saves may store one generation twice, but a post
that follows another always gets a higher one. `leaked` records that a preview
overlapped another one's projections or failed during its own, after which its
proposal may stay in the settings for good; `SettingsAreOwn` says that nothing
else leaves anything there.

## 9. Fleet: one reconciliation over all targets

`objects` is what exists, as pairs of a kind (publication, slot, table, rows,
state row, store, subscription, trigger, view, ...) and a target; a branch is a
target of its own over its pipeline's raw table. `Plan` is `Planner.plan` and
`_expand_branches` as a function of `objects` and of the sources that answered.
`plan` is the set of actions left to apply and `action` the one under way; `Place`
is their order in the code's list (the sink first, then pipeline by pipeline, then
branch by branch). `Steps` lists the statements of an action.

| Action | Code |
| :-- | :-- |
| `Start` | `Orchestrator.start` |
| `Discover` | Inspector, plan and the Syncing marks of `reconcile`; some sources may not answer |
| `Make`, `Save`, `Cleanup`, `Subscribe` | the statements of `Applier.apply`, one by one |
| `SubscribeHalf` | CREATE SUBSCRIPTION that made the slot and failed; its retry meets "already exists" and takes it for success |
| `StepFails`, `Skip` | the `except` of `Applier.apply`, and what it leaves out afterwards |
| `ActionDone`, `Finish` | the next action; the Ready and Failed marks of `reconcile` |
| `Crash` | a dying process |
| `Stop` | `Orchestrator.stop`, whose teardown of each pipeline may leave what `Leftovers` lists |

`scars` are the objects a failure left out and no later plan looks for: rows once
the slot exists, a subscription or a branch's trigger once the vectorizer exists.
`IdleIsWhole` holds for everything else: the plan finds it missing and makes it.
A teardown adds to both: `Leftovers` are the objects of a pipeline it may leave,
by where its sink half broke off and whether its source half worked. A
subscription that was cut off from its slot and could not be dropped is a "husk":
it keeps the name, so CREATE SUBSCRIPTION cannot take its place, and cannot be
enabled.
`Possible` has the two dependencies between targets: a view needs its store and
raw table, and a branch's `setup_sink` asks the source called "default" for its
slot, whichever source the pipeline has (`hasDefault`).

## 10. Runs and bounds

Runs that pass:

| Run | Question |
| :-- | :-- |
| `recovery_failures` | any surroundings: crashes, failing steps, hot inserts, teardowns that break off anywhere, outages, vanishing slots, a filter. Is the hand-over over the anchoring slot, is nothing lost while attached, is the contract implemented, and is being alone all it takes? |
| `recovery_converges` | calm surroundings, two deployments: does the copy become and stay level? |
| `mirror_delivery` | two workers, every failure, a dropped table, overlapping transactions: is no entry skipped, and does a mirror that is caught up differ only where it must? |
| `mirror_converges` | two versions, promotions, failures: is everything delivered, does the alias follow? |
| `rollout_faults` | two daemons with different settings, two posts, any two of crash, failing step, call that raises and teardown: does the view stay and match its hash, does Ready mean built, does the newest generation settle, is the target served? |
| `sweep_exact` | any two tables, both strategies, writes and failures in between: are only ghosts deleted, are all found that the checksum does not hide, does the sweep end? |
| `source_sync` | three kinds of source, every filter, three starts, a write and a fault: is the cursor behind the copy, is a pass that ends complete, does it end? |
| `control_plane` | four overlapping posts and previews: do generations follow the order of the posts without a gap, do the settings hold only what they may? |
| `fleet_repairs` | a branched pipeline and a polled one, three starts, two faults at any statement, teardowns that leave something among them: does a reconciliation end, build only, tell the outcome, and leave every target whole that did not fail? |

Bounds. `HybridRecovery`: two keys and pages of one row give a catch-up of two
pages with a boundary between them, a row behind and a row ahead of the cursor,
and a ghost beside a live row; three writes suffice for insert, update or delete,
and insert again around any step; two boots give a first deployment and one that
resumes, and the auto-heal resumes within each (three boots hold as well);
`MaxLag = 1` makes the watchdog fire after two undelivered changes, `MaxLag = 5`
keeps it quiet; `FirstTwo` lets the first two writes pass the filter and not the
third, so that a row can pass, or stop to pass. `OutboxMirror`: batches of two
with three entries give a full batch, a partial one and a replay of either, and an
update, whose two entries one batch can hold or two batches share; two rows and
one version, or one row and two versions, give the two ways entries of a batch can
differ; one dropped table is a version built twice; one fault is a batch that is
replayed. `ConfigRollout`: two daemons give a holder of the lock
and one that is skipped, or one that tears down beside the other; two posts give
one generation that overtakes another, or two that draw the same number; two
versions beside the daemons' own settings suffice for "other than mine"; two
faults are, for example, a crash while another daemon tears down. `GhostSweep`:
keys -2..1 have both signs and differ in two bits; with `ChunkSize = 3` the range
-2..1 is two chunks that share key 1, and the first of them holds two pairs of
keys of equal XOR (-2 and 1, -1 and 0), the smallest table in which a ghost can
hide; two changes are a write before and one after any query. `SourceSync`: four
keys and pages of two allow a page of markers before an object, and one full and
one partial page; three starts are the pass that saves nothing, the one that
saves, and the one that no longer happens; with two writes and two starts the
properties hold as well. `ControlPlane`: four requests allow two overlapping
saves beside two overlapping previews; of three versions one is the process's
own. `Fleet`: one pipeline with everything a replication slot brings and a branch,
one without slots; three starts and two faults leave a target half built twice
before the reconciliation that must repair it.

Symmetry is declared where no property is a liveness property: the rows of
`mirror_delivery`, and requests and posted versions of `control_plane`.

All runs but those of `ConfigRollout` have `CHECK_DEADLOCK FALSE`:
writes, boots, entries, requests and faults are bounded, and an idle system with
its bounds used up, like a sweep that is done, has no step left. `ConfigRollout` checks deadlock: some daemon can
always be asked to reconcile.

Fairness. `HybridRecovery`: the supervisor restarts the daemon (`Start`), the
event loop keeps running the coroutine it is in (`Reconcile`, `Teardown`), and
PostgreSQL keeps restarting its apply and copy workers (`ApplyChange`,
`TableCopy`), all weak. `OutboxMirror`: the worker's endless loop (`Round`).
`ConfigRollout`: a call or teardown that began goes on, a statement under way
completes, pgai empties its queues, and a daemon in `due` calls `reconcile`
(`Orchestrator.start`, `_replication_loop`); the lock is not queued for, so a
daemon that finds it taken has made its call. `GhostSweep`, `SourceSync` and
`Fleet`: the event loop keeps running the coroutine it is in (`Sweep`, `Pass`,
`Reconcile`). Nothing
obliges anybody to write, to stop the daemon, to promote, or to fail; failures
are bounded in number, which is what "eventually they stop" needs.

## 11. Proofs

`HybridRecoveryProofs` proves, for every set of keys, page size, lag limit and
bound, the safety properties of `HybridRecovery`. The layers of the argument:

* `LossInv`: types, agreement of log and table (`LogAgrees`: a row of the source
  is what its last change in the log says), and freshness (`PageFresh`,
  `SweepFresh`): whatever a page or the two id sets hold that is no longer true,
  a pending change makes up for. `NoLossWhileAlone` is not inductive without it:
  a page could otherwise carry content the slot will never correct. It holds in
  any surroundings.
* `AloneInv`: as long as `SlotsAreKept`, a subscription that is not detached has its
  slot, and there is none of it under a recovery or in a teardown past `Detach`.
* `AnchorInv`: as long as `SourceAnswers`, the slot exists between discovery and
  hand-over, and `setup_sink` finds it.
* `CatchUpInv`: as long as `SlotsAreKept`, what the pages have covered so far
  (`PageCovers`, `PageLanded`), what is left to fetch (`RestIsAhead`) and what the
  sweep has seen (`SinkSeen`), all of it but for what the filter keeps out.

| Theorem | Property |
| :-- | :-- |
| `TypeCorrect` | `TypeOK` |
| `NoLossWhileAloneHolds` | `NoLossWhileAlone` |
| `RecoveryIsAloneHolds` | `RecoveryIsAlone` |
| `CatchUpCoversHolds` | `CatchUpCovers` |
| `SweepHealsHolds` | `SweepHeals` |
| `HandoverUsesAnchorHolds` | `HandoverUsesAnchor` |
| `NoLossWhileAttachedHolds` | `NoLossWhileAttached` |
| `RecoveryImplementsContract` | `ImplementsContract` |

No theorem restricts `Env`. `SlotsAreKept` and `SourceAnswers` are conditions on
the state within the properties (section 3): a behaviour with a mishap is covered
up to the mishap, and by `NoLossWhileAlone` beyond it. Both stay false once they
are (`MishapsStay`), which is what makes the layers inductive.

`ConfigRolloutProofs` proves the safety properties of `ConfigRollout` for every
set of daemons and versions, all settings, bounds and surroundings, without a
further assumption:

* `TypeInv`: types and `GenerationsBounded`. A generation is one more than the
  greatest *recorded* one, so that it stays within the number of posts is
  inductive only together with the posts under way.
* `ViewInv`: `HoldsLock` (whoever reconciles holds the lock), `ViewHasStore`,
  `SetupIsNeeded` (until its cleanup, a planned vectorizer does not exist) and
  `HashFollowsView`. `ViewStays` needs all of them: the cleanup of a version
  removes the view only if the view shows that version, and then its store would
  exist. `HashFollowsView` needs that a store implies the row the hash is
  written to.
* `PlanIsEnough`: what a plan lacks is there already, step by step; on the last
  step it says what Ready promises.

| Theorem | Property |
| :-- | :-- |
| `TypeCorrect` | `TypeOK` |
| `HashFollowsViewHolds` | `HashFollowsView` |
| `ViewStaysHolds` | `ViewStays` |
| `ReadyIsBuiltHolds` | `ReadyIsBuilt` |

`OutboxMirrorProofs` proves the safety properties of `OutboxMirror` for every set
of rows, versions and workers, every batch size and bound, in any surroundings:

* `TypeInv`: types; a worker carries entries of the outbox, and a batch that is
  on its way is not empty.
* `OrderInv`: no two entries share an id, and what was handed over is in the outbox.
* `TakenInv`: what lies before the last entry of a batch is in the batch, was
  handed to the adapter earlier, or came late. `NothingSkipped` alone is not
  inductive: the progress is saved from a batch read rounds ago, beside other
  workers.
* `RowInv`: the newest entry of a row that is not orphaned tells what its store
  table holds, or until the backfill is a DELETE; a row without entries is not in
  the table.
* `PointInv`: a point that is not outdated shows an entry that is not older than
  any entry of its row handed over, nor than any its collection has just been
  given. That makes a replayed batch harmless, and lets `CaughtUpIsExact` follow:
  once all entries are handed over or late, what a point shows is its row's newest
  entry, which `RowInv` compares with the table.

| Theorem | Property |
| :-- | :-- |
| `TypeCorrect` | `TypeOK` |
| `NothingSkippedHolds` | `NothingSkipped` |
| `CaughtUpIsExactHolds` | `CaughtUpIsExact` |

`GhostSweepProofs` proves the safety properties of `GhostSweep` for every finite
set of integer keys, chunk size and number of changes:

* `PastInv`: what the tables hold now is in their record (`seen`, `absent`,
  `missed`).
* `DeleteInv`: keys about to be deleted are in `absent`, because the source was
  read before the sink, and for the same chunk.
* `FindInv`, about lasting ghosts (keys the sink always had and the source never):
  they lie between the noted ends of the range (`RangeRead`); one in the chunk
  being deleted from is about to be deleted (`ChunkRead`); a chunk that was passed
  over one has two missing rows (`BehindFound`). Its step over a chunk that agrees
  is the lemma `ChecksumFindsGhost`: if the counts agree and one key is in the
  sink alone, some key is in the source alone; were it the only one, every bit of
  the two would agree, and `WidthAssumption` says that different keys differ in a
  bit.

| Theorem | Property |
| :-- | :-- |
| `TypeCorrect` | `TypeOK` |
| `DeletesOnlyGhostsHolds` | `DeletesOnlyGhosts` |
| `NoGhostSurvivesHolds` | `NoGhostSurvives` |

`SourceSyncProofs` proves the safety properties of `SourceSync` for any keys, page
size, markers, bounds and kind of source, without a further assumption:

* `TypeInv`: types; a page on its way is not empty, and a directory marker is not
  an object (`PageOK`).
* `PassInv`, all of it but for keys written to since the pass began: a page holds
  what the source holds (`PageFresh`) of everything that passes between the cursor and the
  page's end (`PageCovers`), it is in the sink once upserted (`PageLanded`);
  behind the last page of a table nothing is left to fetch (`NothingLeft`); the ids
  the sweep read are those of the source (`IdsFresh`). `NothingBehindCursor` is one part of
  it and not inductive alone: the cursor moves to the end of a page that was read
  two steps earlier.

| Theorem | Property |
| :-- | :-- |
| `TypeCorrect` | `TypeOK` |
| `NothingBehindCursorHolds` | `NothingBehindCursor` |
| `PassIsExactHolds` | `PassIsExact` |

`FleetProofs` proves the safety properties of `Fleet` for any pipelines, sources,
branches and bounds, any failures and crashes, without a further assumption:

* `TypeInv`: types, and for which targets an action can be planned (`PlanOK`).
* `ShapeInv`: a vectorizer is planned only where no store is, or is the action
  that has just made it (`PlannedOnce`); views and triggers have a store, stores a
  state row and a raw table, saved cursors have rows (`StoreShape`,
  `CursorShape`). `OnlyBuilds` follows: the clean-up that precedes a vectorizer
  finds nothing to remove.
* `ScarInv`: what no plan looks for exists, is a scar, or is about to be made by
  the action under way.
* `OwedInv`: whatever a target that answered and did not fail lacks is in the
  rest of the plan, at a statement still to come. At the end nothing is left of
  the plan, which with `ScarInv` is `IdleIsWhole`.
* `ToldInv`: while the plan is applied, a generation it has actions for is Failed
  if one of its target's actions failed, and Syncing otherwise.

| Theorem | Property |
| :-- | :-- |
| `TypeCorrect` | `TypeOK` |
| `OnlyBuildsHolds` | `OnlyBuilds` |
| `IdleIsWholeHolds` | `IdleIsWhole` |
| `StatusToldHolds` | `StatusTold` |

`ControlPlaneProofs` proves everything the run of `ControlPlane` checks, for any
finite set of requests and any versions:

* `TypeInv`: types, and that neither a stored nor a read generation exceeds the
  number of entries; so the generations are finite and `Latest` is the greatest.
* `OrderInv`: what a save has read is at least the generation of every post
  answered before it began.
* `DenseInv`: a generation that was read is 0 or stored, so one more than it
  leaves no gap.
* `PreviewInv`: what a preview will restore is the process's own configuration,
  or another preview's proposal and then something has leaked.

| Theorem | Property |
| :-- | :-- |
| `TypeCorrect` | `TypeOK` |
| `LaterPostWinsHolds` | `LaterPostWins` |
| `GenerationsDenseHolds` | `GenerationsDense` |
| `SettingsAreOwnHolds` | `SettingsAreOwn` |

Three theorems are about the way to an end. Liveness under fairness is out of the
prover's reach, but what fairness alone cannot give is not: that the steps lead
somewhere. Each theorem says that a measure is a natural number (or two, compared
one after the other), that every step of the coroutine lowers it, and that no
step of anybody else raises it.

| Theorem | Measure | Behind |
| :-- | :-- | :-- |
| `PassGetsOnHolds` (`SourceSyncProofs`) | three steps for every key that may lie behind the cursor, and the last five | `PassEnds` |
| `SweepGetsOnHolds` (`GhostSweepProofs`) | the round, and within the chunks the distance to the end of the range | `SweepEnds` |
| `ApplyGetsOnHolds` (`FleetProofs`) | nine steps for every action left, less the statements done | `FleetSettles` |

Proved, then, is every safety and action property of the runs that pass. Only
model-checked are the liveness properties (`Converges`, `NewestSettles`, `Served`,
`SweepEnds`, `PassEnds`, `FleetSettles`, `Delivered`, `AliasFollows`): fairness and
`ENABLED`, like induction over data, are out of reach. The theorems assume nothing
of the constants but the named assumptions of their modules.

## 12. Where the code departs from its documentation

Three runs end in a counterexample; `PROJECT.json` quotes the line of the
documentation each contradicts.

| Run | What happens |
| :-- | :-- |
| `recovery_crash` | The slot is created first and is also the sign that no recovery is needed; a crash before the last page leaves a target that streams without those pages. |
| `rollout_stuck` | A version posted over a served one is built and marked Ready but never shown: its pending items are looked up under a name the statuses do not have. With the look-up by store the same run passes. |
| `mirror_drifts` | A row is embedded again, which pgai does by DELETE and INSERT; both entries come in one batch, the upsert is followed by the delete, and the row's point is gone for good. |

The models contain further departures, each found by changing constants of a
run above; they are not kept as runs:

| Run and changed constants | Property | What happens |
| :-- | :-- | :-- |
| `recovery_crash`, `Env <- Calm`, `MaxBoots = 3` | `ZeroLossHandover` | A later recovery resumes behind the saved `last_id`, which the teardown keeps; changes at or below it made while there was no slot stay missing. |
| `recovery_converges`, `Env <- HotInserts`, `MaxBoots = 1` | `Converges` | A row inserted between slot and page arrives by the page and again as an INSERT; the apply worker stops at it for good. |
| `recovery_converges`, `Env <- SinkOutage` | `Converges` | A teardown that breaks off behind `DISABLE` leaves a paused subscription and its vectorizer; the next reconciliation makes the slot and the catch-up, and none ever enables the subscription, for `setup_sink` is not planned. So does a daemon that dies there. |
| `recovery_converges`, `Matching <- FirstTwo` | `Converges` | The documentation has `filter` apply to CDC and catch-up (`README.md:213`), but the publication is made without it: a row that does not pass is missing if it was written before the slot and replicated if written after. |
| `recovery_converges`, `SameName = FALSE` | `Converges` | Vectorizers are dropped by the target's name but named after the table; one that survives keeps `setup_sink`, and with it the subscription, from being planned. |
| `recovery_converges`, `Env <- Outage` | `Converges` | Without a recovery `setup_sink` asks for an initial copy into a populated table, which can never succeed. |
| `mirror_converges`, `Env = {"worker_crash", "revert"}`, `MaxSwaps = 3` | `AliasFollows` | A promotion back while the alias is being moved, and a crash before the registry records the move: the registry still has the old version, which is live again, so the alias stays behind. |
| `fleet_repairs`, `Branched = {p2}` | `FleetSettles` | The expansion of a branch looks up "publications", which a polled or file source's state does not have: the KeyError ends every reconciliation, where the repository's README promises that one broken table does not block the fleet. |

Others are written into a property, where they limit what can be claimed:

* `NoGhostSurvives` needs `Hidden`: with BIGINT keys, a source of -1 and 1 and a
  sink of -2 and 0 have equal count and XOR, and the ghosts stay.
* `IdleIsWhole` needs `scars`: a subscription whose slot was made and which then
  failed passes for existing at the next attempt; a `setup_sink` that fails after
  its vectorizer exists is never asked again; nor is a recovery once its slot
  exists; nor a subscription that a teardown took from a store it could not drop. A
  subscription without its slot ("husk") makes the next `setup_sink` fail, after
  which no plan asks for another.
* `PassIsExact` needs `CutOff`: a page of directory markers ends a bucket's
  listing before the objects behind it.
* `RecoveryIsAlone` and what rests on it need `SlotsAreKept`: a teardown that cannot
  reach the sink leaves a subscription that streams under the next recovery, and a
  stale page overwrites what it applied. `HandoverUsesAnchor`, `NoLossWhileAttached`
  and the contract also need `SourceAnswers`: a slot made only with the subscription
  has no catch-up under it.
* `CatchUpCovers` and `SweepHeals` need `Unmatched`: a row the filter keeps out of the
  pages keeps whatever the sink holds of it, for the sweep does not know the filter
  either. `PassIsExact` excepts it in a polled table.
* `NothingSkipped` and `Delivered` need `late`: two store transactions commit in the
  opposite order of their ids around a poll, and the lower id is never read.
* `CaughtUpIsExact` needs `orphaned`: a stop or an auto-heal drops a store table
  without DELETE entries, and the points of rows deleted before it is built again
  stay in the collection; a backfill enqueues an old row behind the newer entry of a
  transaction that was open. It needs `outdated`: deletes of a batch are applied
  after its upserts, and a slower daemon applies an old batch over a newer one. And
  it promises nothing of a version whose set-up died before the backfill: its trigger
  counts as a finished set-up ("unfilled"), and the backfill is never made up for.
* `Delivered` and `AliasFollows` need `Refused`: a batch of deletes for a collection
  that does not exist fails for ever.
* `NewestSettles` needs "silence": a reconciliation after an auto-heal that raises
  without a report leaves its generation Syncing until somebody reconciles again.
* `SettingsAreOwn` needs `leaked`: overlapping or failing previews leave their
  proposal in the settings the next reconciliation uses.

And some are the model's plain behaviour, which no property promises otherwise:

* A polled or file source is never fetched again once a cursor is saved.
* With a configured filter `SOURCE_SETUP` is planned at every reconciliation and makes
  the publication anew, for discovery never reports a filter.
* A branch's view is planned at every reconciliation, so the plan is never empty,
  and a pipeline in sync whose generation is Pending is never marked Ready.
* A branch's subscription writes the raw table its pipeline's subscription
  writes, is not watched for lag, and survives the teardown of its pipeline.

## 13. Not modelled

* Promotion as the Planner computes it from mirror progress and watermarks, and
  inactive pipelines: `ConfigRollout` and `OutboxMirror` each model their side
  (section 2, row 8).
* The loss of the lock's connection alone, while the reconciliation goes on over
  others.
* Columns added to a table by a later plan, and, outside `HybridRecovery`, targets
  not named after their table.
* The embedding cache: nothing in `src/` writes it, so its warm-up copies no row.
* `wait_until`: it keeps no state; a retry loop is one step.
* Content of embeddings, chunking, formatting, search queries: SQL text without
  state. Several chunks of one row share one point id in Qdrant; with one chunk
  per row the model does not show what that loses.
* The remaining HTTP routes, the search client, the command line, adapter registry
  and configuration classes: they change nothing that outlives a call.
* `error_count`, latencies and logs.
* `main.py` imports `check_and_protect_source`, which `database.py` does not
  define; it cannot run and is left aside.
