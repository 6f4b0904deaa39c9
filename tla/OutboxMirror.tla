---------------------------- MODULE OutboxMirror ----------------------------
(***************************************************************************)
(* The universal outbox of one target: store tables, capture trigger and   *)
(* backfill, the mirror worker, and the Qdrant collections with their      *)
(* production alias.                                                       *)
(*                                                                         *)
(* pgai keeps one store table per configuration version and replaces the  *)
(* embedding of a changed row by a DELETE and an INSERT in one             *)
(* transaction.  A trigger on the table adds an entry to _sink_outbox for  *)
(* each, with an id from a sequence; ids are drawn when the entry is       *)
(* written, visible when the transaction commits.  Every daemon runs a     *)
(* mirror worker that polls the outbox past last_processed_id, hands a     *)
(* batch to the adapter, saves the last id of the batch, and then lets the *)
(* alias follow the configuration hash that the view swap recorded.  A     *)
(* teardown drops the store table, and with it the trigger; the next start *)
(* builds it anew for the same version, over the same collection.          *)
(*                                                                         *)
(* Abstractions.  A row's embedding is 1 or 2, 0 is "no row".  The two     *)
(* statements of a poll (progress, entries) are one step, and so are the   *)
(* statements of the backfill.  The registry's error_count and latency are *)
(* left out; when a view swap happens is left to Promote, unconstrained.   *)
(***************************************************************************)
EXTENDS Integers, FiniteSets

CONSTANTS
  Rows,          \* primary keys of the store table
  Versions,      \* configuration versions, one store table each
  Workers,       \* mirror workers: one per daemon
  None,          \* no version
  BatchSize,     \* outbox entries per poll (100 in the code)
  MaxEntries,    \* bound: outbox ids drawn
  MaxSwaps,      \* bound: view swaps
  MaxDrops,      \* bound: store tables dropped
  MaxFaults,     \* bound: crashes and failed calls
  Env            \* what the surroundings may do beyond ordinary operation

(* "concurrent": two store transactions are open at once; "backfill_race": *)
(* the backfill runs while a store transaction is open; "setup_crash": the *)
(* reconciler dies between trigger and backfill; "worker_crash": a mirror  *)
(* worker dies; "sync_fails": a call to Qdrant fails; "revert": a version  *)
(* that was live before is again.                                          *)
EnvEvents == {"concurrent", "backfill_race", "setup_crash", "worker_crash", "sync_fails",
              "revert"}

ASSUME SetsAssumption == IsFiniteSet(Rows) /\ IsFiniteSet(Versions) /\ None \notin Versions
ASSUME BatchSizeAssumption == BatchSize \in Nat \ {0}
ASSUME LimitsAssumption ==
  /\ MaxEntries \in Nat /\ MaxSwaps \in Nat /\ MaxDrops \in Nat /\ MaxFaults \in Nat
ASSUME EventsAssumption == Env \subseteq EnvEvents

VARIABLES
  store,        \* committed store tables: version -> row -> embedding
  setup,        \* outbox of a version: "none", "attached" (trigger), "done"
                \* (backfilled), "unfilled" (never backfilled)
  open,         \* entries of store transactions that have not committed
  outbox,       \* committed entries of _sink_outbox
  nextId,       \* the sequence behind _sink_outbox.id
  lastId,       \* _sink_mirror_registry.last_processed_id
  mirrored,     \* _sink_mirror_registry.promoted_version_id
  live,         \* the version whose config_hash _replica_state holds
  past,         \* versions that have been live
  collections,  \* Qdrant: the collections that exist
  points,       \* Qdrant: version -> row -> embedding
  alias,        \* Qdrant: the production alias
  worker,       \* worker -> its program counter and locals
  swaps,        \* view swaps so far
  drops,        \* store tables dropped so far
  faults,       \* crashes and failed calls so far
  handed,       \* history: ids of entries that sync_batch completed
  late,         \* history: ids that became visible after a higher one had
  orphaned,     \* history: rows whose newest entry is not about their store
                \* row, for a dropped table or an overtaking backfill
  outdated      \* history: points last written from an entry that a newer one
                \* of the row, seen by a worker, had overtaken

storeVars   == <<store, setup, open, outbox, nextId, drops>>
stateVars   == <<lastId, mirrored>>
liveVars    == <<live, past, swaps>>
qdrantVars  == <<collections, points, alias>>
entryMarks  == <<late, orphaned>>
pointMarks  == <<handed, outdated>>
vars == <<storeVars, stateVars, liveVars, qdrantVars, worker, faults, entryMarks, pointMarks>>

-----------------------------------------------------------------------------
Embedding == 0 .. 2
NoRows    == [r \in Rows |-> 0]
Idle      == [pc |-> "idle", batch |-> {}, todo |-> {}, version |-> None]

Upserts(entries, v) == {e \in entries : e.version = v /\ e.action = "UPSERT"}
Deletes(entries, v) == {e \in entries : e.version = v /\ e.action = "DELETE"}

(* The entries of a poll: past the saved id, in id order, at most a batch. *)
Ahead == {e \in outbox : lastId < e.id}
Batch == {e \in Ahead : Cardinality({f \in Ahead : f.id < e.id}) < BatchSize}

NewestId(entries) == CHOOSE i \in {e.id : e \in entries} : \A e \in entries : e.id <= i

(* sync_batch goes through the versions in the order of their first entry. *)
NextGroup(w) ==
  CHOOSE v \in worker[w].todo :
    \E e \in worker[w].batch :
      /\ e.version = v
      /\ \A f \in worker[w].batch : f.version \in worker[w].todo => e.id <= f.id

-----------------------------------------------------------------------------
Init ==
  /\ store = [v \in Versions |-> NoRows]
  /\ setup = [v \in Versions |-> "none"]
  /\ open = {} /\ outbox = {} /\ nextId = 1 /\ drops = 0
  /\ lastId = 0 /\ mirrored = None
  /\ live = None /\ past = {} /\ swaps = 0
  /\ collections = {} /\ points = [v \in Versions |-> NoRows] /\ alias = None
  /\ worker = [w \in Workers |-> Idle]
  /\ faults = 0 /\ handed = {} /\ late = {} /\ orphaned = {} /\ outdated = {}

-----------------------------------------------------------------------------
(* The store tables, written by the vectorizer worker, and their trigger.  *)

NewEntry(i, v, r, embedding) ==
  [id |-> i, version |-> v, row |-> r, embedding |-> embedding,
   action |-> IF embedding = 0 THEN "DELETE" ELSE "UPSERT"]

(* The entries of one transaction.  A row's writers exclude each other     *)
(* until they commit.                                                      *)
Capture(v, r, entries, n) ==
  /\ setup[v] # "none" /\ nextId + n <= MaxEntries + 1
  /\ \A e \in open : e.version # v \/ e.row # r
  /\ open = {} \/ "concurrent" \in Env
  /\ open' = open \cup entries /\ nextId' = nextId + n
  /\ UNCHANGED <<store, setup, outbox, drops, stateVars, liveVars, qdrantVars, worker, faults,
                 entryMarks, pointMarks>>

StoreInsert(v, r) == store[v][r] = 0 /\ Capture(v, r, {NewEntry(nextId, v, r, 1)}, 1)

StoreDelete(v, r) == store[v][r] # 0 /\ Capture(v, r, {NewEntry(nextId, v, r, 0)}, 1)

StoreUpdate(v, r) ==
  /\ store[v][r] # 0
  /\ Capture(v, r, {NewEntry(nextId, v, r, 0), NewEntry(nextId + 1, v, r, 3 - store[v][r])}, 2)

(* The transaction that changed a row commits; its last entry is the row.  *)
StoreCommit(v, r) ==
  LET entries == {e \in open : e.version = v /\ e.row = r}
      newest  == CHOOSE e \in entries : \A f \in entries : f.id <= e.id
  IN  /\ entries # {}
      /\ store' = [store EXCEPT ![v][r] = newest.embedding]
      /\ outbox' = outbox \cup entries /\ open' = open \ entries
      /\ late' = late \cup {e.id : e \in {x \in entries : \E f \in outbox : x.id < f.id}}
      /\ orphaned' = IF \E f \in outbox : f.version = v /\ f.row = r /\ newest.id < f.id
                     THEN orphaned \cup {<<v, r>>} ELSE orphaned \ {<<v, r>>}
      /\ UNCHANGED <<setup, nextId, drops, stateVars, liveVars, qdrantVars, worker, faults,
                     pointMarks>>

(* Without a trigger nothing is captured.                                  *)
FillStore(v) ==
  /\ setup[v] = "none"
  /\ \E rows \in [Rows -> 0 .. 1] : store' = [store EXCEPT ![v] = rows]
  /\ UNCHANGED <<setup, open, outbox, nextId, drops, stateVars, liveVars, qdrantVars, worker,
                 faults, entryMarks, pointMarks>>

(* drop_subscription_completely, in a stop or an auto-heal: drop_all drops *)
(* the store table, and its trigger with it.  DROP TABLE waits for the     *)
(* table's writers, fires no row trigger, and leaves the outbox alone.     *)
DropStore(v) ==
  /\ setup[v] # "none" /\ drops < MaxDrops
  /\ \A e \in open : e.version # v
  /\ store' = [store EXCEPT ![v] = NoRows] /\ setup' = [setup EXCEPT ![v] = "none"]
  /\ drops' = drops + 1
  /\ orphaned' = orphaned \cup {<<v, r>> : r \in {s \in Rows : store[v][s] # 0}}
  /\ UNCHANGED <<open, outbox, nextId, stateVars, liveVars, qdrantVars, worker, faults, late,
                 pointMarks>>

-----------------------------------------------------------------------------
(* setup_outbox_trigger: the trigger, then the backfill.                   *)

AttachTrigger(v) ==
  /\ setup[v] = "none"
  /\ setup' = [setup EXCEPT ![v] = "attached"]
  /\ UNCHANGED <<store, open, outbox, nextId, drops, stateVars, liveVars, qdrantVars, worker,
                 faults, entryMarks, pointMarks>>

(* INSERT .. SELECT of every committed row, whatever the outbox holds: no  *)
(* key makes ON CONFLICT DO NOTHING apply.                                 *)
Backfill(v) ==
  /\ setup[v] = "attached"
  /\ open = {} \/ "backfill_race" \in Env
  /\ LET rows == {r \in Rows : store[v][r] # 0}
         n    == Cardinality(rows)
     IN  /\ nextId + n <= MaxEntries + 1
         /\ \E id \in [rows -> nextId .. nextId + n - 1] :
              /\ \A r, s \in rows : r # s => id[r] # id[s]
              /\ outbox' = outbox \cup {NewEntry(id[r], v, r, store[v][r]) : r \in rows}
         /\ nextId' = nextId + n
         /\ orphaned' = orphaned \ {<<v, r>> : r \in rows}
  /\ setup' = [setup EXCEPT ![v] = "done"]
  /\ UNCHANGED <<store, open, drops, stateVars, liveVars, qdrantVars, worker, faults, late,
                 pointMarks>>

(* The trigger is there, so no later reconciliation plans the setup again. *)
SetupDies(v) ==
  /\ "setup_crash" \in Env /\ setup[v] = "attached" /\ faults < MaxFaults
  /\ setup' = [setup EXCEPT ![v] = "unfilled"] /\ faults' = faults + 1
  /\ UNCHANGED <<store, open, outbox, nextId, drops, stateVars, liveVars, qdrantVars, worker,
                 entryMarks, pointMarks>>

(* atomic_view_swap records the hash of the version it makes live.         *)
Promote(v) ==
  /\ v # live /\ swaps < MaxSwaps
  /\ v \notin past \/ "revert" \in Env
  /\ live' = v /\ past' = past \cup {v} /\ swaps' = swaps + 1
  /\ UNCHANGED <<storeVars, stateVars, qdrantVars, worker, faults, entryMarks, pointMarks>>

-----------------------------------------------------------------------------
(* MirrorWorker._process_mirror.                                           *)

Go(w, pc) == worker' = [worker EXCEPT ![w].pc = pc]

(* Mutant: the entries of a poll are not in id order.                      *)
Poll_Unordered(w) ==
  /\ worker[w].pc = "idle"
  /\ \/ /\ Ahead = {}
        /\ Go(w, "checkPromotion")
     \/ \E e \in Ahead :
          worker' = [worker EXCEPT ![w].pc = "upsert", ![w].batch = {e}, ![w].todo = {e.version}]
  /\ UNCHANGED <<storeVars, stateVars, liveVars, qdrantVars, faults, entryMarks, pointMarks>>

(* A round of the loop: with nothing new it goes on to the promotion.      *)
Poll(w) ==
  /\ worker[w].pc = "idle"
  /\ \/ /\ Ahead = {}
        /\ Go(w, "checkPromotion")
     \/ /\ Ahead # {}
        /\ worker' = [worker EXCEPT ![w].pc = "upsert", ![w].batch = Batch,
                                    ![w].todo = {e.version : e \in Batch}]
  /\ UNCHANGED <<storeVars, stateVars, liveVars, qdrantVars, faults, entryMarks, pointMarks>>

(* Only the history tells: a newer entry of the same row has been handed   *)
(* over, or is in a worker's batch.                                        *)
Overtaken(e) ==
  \E f \in outbox :
    /\ f.version = e.version /\ f.row = e.row /\ e.id < f.id
    /\ f.id \in handed \/ \E w \in Workers : f \in worker[w].batch

(* The points of one collection take what one entry of each row says.      *)
WritePoints(v, entries) ==
  /\ points' = [points EXCEPT ![v] =
       [r \in Rows |-> IF \E e \in entries : e.row = r
                       THEN (CHOOSE e \in entries : e.row = r).embedding ELSE @[r]]]
  /\ outdated' = (outdated \ {<<v, e.row>> : e \in entries})
                   \cup {<<v, e.row>> : e \in {x \in entries : Overtaken(x)}}

NewestOfRows(entries) == {e \in entries : \A f \in entries : f.row = e.row => f.id <= e.id}

(* sync_batch, one collection: its points are upserted in entry order, so  *)
(* the newest UPSERT of a row wins; an upsert creates the collection.      *)
UpsertGroup(w) ==
  /\ worker[w].pc = "upsert"
  /\ LET v   == NextGroup(w)
         ups == Upserts(worker[w].batch, v)
     IN  /\ collections' = IF ups = {} THEN collections ELSE collections \cup {v}
         /\ WritePoints(v, NewestOfRows(ups))
  /\ Go(w, "delete")
  /\ UNCHANGED <<storeVars, stateVars, liveVars, alias, faults, entryMarks, handed>>

(* Mutant: deleted rows keep their points.                                 *)
DeleteGroup_Kept(w) ==
  /\ worker[w].pc = "delete"
  /\ LET v    == NextGroup(w)
         rest == worker[w].todo \ {v}
     IN  /\ Deletes(worker[w].batch, v) = {} \/ v \in collections
         /\ WritePoints(v, {})
         /\ handed' = handed \cup {e.id : e \in {f \in worker[w].batch : f.version = v}}
         /\ worker' = [worker EXCEPT ![w].todo = rest,
                                     ![w].pc = IF rest = {} THEN "saveProgress" ELSE "upsert"]
  /\ UNCHANGED <<storeVars, stateVars, liveVars, collections, alias, faults, entryMarks>>

(* Then all deletes of the batch, whatever came after them in it.  Points  *)
(* of a collection that does not exist cannot be deleted: see SyncRefused. *)
DeleteGroup(w) ==
  /\ worker[w].pc = "delete"
  /\ LET v    == NextGroup(w)
         dels == Deletes(worker[w].batch, v)
         rest == worker[w].todo \ {v}
     IN  /\ dels = {} \/ v \in collections
         /\ WritePoints(v, NewestOfRows(dels))
         /\ handed' = handed \cup {e.id : e \in {f \in worker[w].batch : f.version = v}}
         /\ worker' = [worker EXCEPT ![w].todo = rest,
                                     ![w].pc = IF rest = {} THEN "saveProgress" ELSE "upsert"]
  /\ UNCHANGED <<storeVars, stateVars, liveVars, collections, alias, faults, entryMarks>>

(* Mutant: one id too many is saved.                                       *)
SaveProgress_PastEnd(w) ==
  /\ worker[w].pc = "saveProgress"
  /\ lastId' = NewestId(worker[w].batch) + 1
  /\ worker' = [worker EXCEPT ![w] = [Idle EXCEPT !.pc = "checkPromotion"]]
  /\ UNCHANGED <<storeVars, mirrored, liveVars, qdrantVars, faults, entryMarks, pointMarks>>

(* The upsert of the registry row takes the id as it is, forward or back.  *)
SaveProgress(w) ==
  /\ worker[w].pc = "saveProgress"
  /\ lastId' = NewestId(worker[w].batch)
  /\ worker' = [worker EXCEPT ![w] = [Idle EXCEPT !.pc = "checkPromotion"]]
  /\ UNCHANGED <<storeVars, mirrored, liveVars, qdrantVars, faults, entryMarks, pointMarks>>

CheckPromotion(w) ==
  /\ worker[w].pc = "checkPromotion"
  /\ worker' = [worker EXCEPT ![w].pc = IF live # None /\ live # mirrored THEN "updateAlias" ELSE "idle",
                              ![w].version = IF live # mirrored THEN live ELSE None]
  /\ UNCHANGED <<storeVars, stateVars, liveVars, qdrantVars, faults, entryMarks, pointMarks>>

(* The collection is created when it is missing, the alias swapped.        *)
UpdateAlias(w) ==
  /\ worker[w].pc = "updateAlias"
  /\ collections' = collections \cup {worker[w].version}
  /\ alias' = worker[w].version
  /\ Go(w, "saveMirrored")
  /\ UNCHANGED <<storeVars, stateVars, liveVars, points, faults, entryMarks, pointMarks>>

(* Mutant: the registry takes the version that is live by now.             *)
SaveMirrored_Latest(w) ==
  /\ worker[w].pc = "saveMirrored"
  /\ mirrored' = live
  /\ worker' = [worker EXCEPT ![w] = Idle]
  /\ UNCHANGED <<storeVars, lastId, liveVars, qdrantVars, faults, entryMarks, pointMarks>>

SaveMirrored(w) ==
  /\ worker[w].pc = "saveMirrored"
  /\ mirrored' = worker[w].version
  /\ worker' = [worker EXCEPT ![w] = Idle]
  /\ UNCHANGED <<storeVars, lastId, liveVars, qdrantVars, faults, entryMarks, pointMarks>>

(* A delete from a missing collection raises: the transaction is rolled    *)
(* back, the error recorded, and the next round starts from the same id.   *)
SyncRefused(w) ==
  /\ worker[w].pc = "delete"
  /\ Deletes(worker[w].batch, NextGroup(w)) # {} /\ NextGroup(w) \notin collections
  /\ worker' = [worker EXCEPT ![w] = Idle]
  /\ UNCHANGED <<storeVars, stateVars, liveVars, qdrantVars, faults, entryMarks, pointMarks>>

(* So does any other failure of a call.                                    *)
SyncFails(w) ==
  /\ "sync_fails" \in Env /\ faults < MaxFaults
  /\ worker[w].pc \in {"upsert", "delete", "updateAlias"}
  /\ worker' = [worker EXCEPT ![w] = Idle] /\ faults' = faults + 1
  /\ UNCHANGED <<storeVars, stateVars, liveVars, qdrantVars, entryMarks, pointMarks>>

WorkerDies(w) ==
  /\ "worker_crash" \in Env /\ faults < MaxFaults
  /\ worker[w].pc # "idle"
  /\ worker' = [worker EXCEPT ![w] = Idle] /\ faults' = faults + 1
  /\ UNCHANGED <<storeVars, stateVars, liveVars, qdrantVars, entryMarks, pointMarks>>

-----------------------------------------------------------------------------
Writers ==
  \E v \in Versions :
    \/ \E r \in Rows : StoreInsert(v, r) \/ StoreUpdate(v, r) \/ StoreDelete(v, r)
                      \/ StoreCommit(v, r)
    \/ FillStore(v) \/ DropStore(v)

Setup == \E v \in Versions : AttachTrigger(v) \/ Backfill(v) \/ SetupDies(v)

Round(w) ==
  \/ Poll(w) \/ UpsertGroup(w) \/ DeleteGroup(w) \/ SyncRefused(w) \/ SaveProgress(w)
  \/ CheckPromotion(w) \/ UpdateAlias(w) \/ SaveMirrored(w)

Next ==
  \/ Writers \/ Setup
  \/ \E v \in Versions : Promote(v)
  \/ \E w \in Workers : Round(w) \/ SyncFails(w) \/ WorkerDies(w)

Spec == Init /\ [][Next]_vars

(* The worker's loop never ends.  Nobody has to write, commit or promote.  *)
FairSpec == Spec /\ \A w \in Workers : WF_vars(Round(w))

-----------------------------------------------------------------------------
Entry == [id : 1 .. MaxEntries, version : Versions, row : Rows,
          action : {"UPSERT", "DELETE"}, embedding : Embedding]

(* Every variable stays in its domain.                                     *)
TypeOK ==
  /\ store \in [Versions -> [Rows -> Embedding]]
  /\ setup \in [Versions -> {"none", "attached", "done", "unfilled"}]
  /\ open \subseteq Entry /\ outbox \subseteq Entry /\ nextId \in 1 .. MaxEntries + 1
  /\ lastId \in 0 .. MaxEntries /\ mirrored \in Versions \cup {None}
  /\ live \in Versions \cup {None} /\ past \subseteq Versions
  /\ swaps \in 0 .. MaxSwaps /\ drops \in 0 .. MaxDrops
  /\ collections \subseteq Versions /\ points \in [Versions -> [Rows -> Embedding]]
  /\ alias \in Versions \cup {None}
  /\ \A w \in Workers :
       /\ worker[w].pc \in {"idle", "upsert", "delete", "saveProgress", "checkPromotion",
                           "updateAlias", "saveMirrored"}
       /\ worker[w].batch \subseteq outbox /\ worker[w].todo \subseteq Versions
       /\ worker[w].version \in Versions \cup {None}
  /\ faults \in 0 .. MaxFaults /\ handed \subseteq 1 .. MaxEntries /\ late \subseteq 1 .. MaxEntries
  /\ orphaned \subseteq Versions \X Rows /\ outdated \subseteq Versions \X Rows

(* README, Universal Outbox: at-least-once delivery.  The saved progress   *)
(* never passes an entry that the adapter has not been given, whatever     *)
(* dies or fails and however many workers there are, except one that       *)
(* became visible after a higher id had.                                   *)
NothingSkipped == \A e \in outbox : e.id <= lastId => e.id \in handed \cup late

(* README, schema reference: mirrors stay in sync with the embeddings.     *)
(* Once the saved progress is not below any entry of a version whose       *)
(* outbox is set up, its collection holds what its store table holds.      *)
(* That leaves out the rows of a dropped table that did not come back, a   *)
(* point the adapter wrote in an order other than the entries' own, and a  *)
(* row with a late entry; nothing else may go wrong.                       *)
CaughtUp(v) == \A e \in outbox : e.version = v => e.id <= lastId

CaughtUpIsExact ==
  \A v \in Versions, r \in Rows :
    setup[v] = "done" /\ CaughtUp(v) =>
      \/ points[v][r] = store[v][r]
      \/ <<v, r>> \in orphaned \cup outdated
      \/ \E e \in outbox : e.version = v /\ e.row = r /\ e.id \in late

(* The next batch deletes points of a collection that does not exist and   *)
(* that none of its upserts creates.                                       *)
Refused ==
  \E v \in Versions : Deletes(Batch, v) # {} /\ Upserts(Batch, v) = {} /\ v \notin collections

(* Every committed entry is handed to the adapter in the end, unless such  *)
(* a batch stands first for ever, or the entry became visible late.        *)
Delivered ==
  \/ \A i \in 1 .. MaxEntries : (\E e \in outbox : e.id = i) ~> i \in handed \cup late
  \/ <>[]Refused

(* The alias ends up at the version that is live, unless the worker never  *)
(* comes to the promotion.                                                 *)
AliasFollows == <>[](live # None => alias = live) \/ <>[]Refused

(* README, schema reference: mirrors stay in sync with the embeddings.     *)
MirrorConverges ==
  <>[](\A v \in Versions : setup[v] = "done" => points[v] = store[v])
=============================================================================
