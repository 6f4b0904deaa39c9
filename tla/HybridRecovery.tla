--------------------------- MODULE HybridRecovery ---------------------------
(***************************************************************************)
(* The hybrid recovery of one CDC pipeline target: slot, SQL catch-up,     *)
(* ghost sweep, subscription, and the teardown that undoes them.           *)
(*                                                                         *)
(* Two databases and one daemon.  The source owns the table, its           *)
(* write-ahead log and the replication slot; the sink owns the copy of the *)
(* table, the subscription, the `_replica_state` row and the vectorizer.   *)
(* The daemon runs Orchestrator.start -> Reconciler.reconcile ->           *)
(* Applier.apply, then the watchdog, then Orchestrator.stop, as a program  *)
(* counter pc; every await at which the databases can change under it      *)
(* separates two actions.                                                  *)
(*                                                                         *)
(* Abstractions.  A row's content is the WAL position that wrote it (every *)
(* write produces fresh content), 0 is "no row".  Primary keys are the     *)
(* numbers in Keys, in the order of ORDER BY p_key; 0 is the '0' that      *)
(* setup_state_table stores in last_id.  One page is one transaction       *)
(* (executemany in autocommit runs as a single pipeline).                  *)
(*                                                                         *)
(* Not here: other targets, branches, the view swap, the outbox, polling   *)
(* and file sources, a second daemon.                                      *)
(***************************************************************************)
EXTENDS Integers, Sequences, FiniteSets

CONSTANTS
  Keys,        \* the primary keys of the table, positive numbers
  BatchSize,   \* rows per catch-up page (5000 in the code)
  MaxLag,      \* max_slot_wal_keep_size_mb, counted in WAL records
  SameName,    \* is the pipeline target named like its table?
  Matching,    \* contents that ingest.filter lets through
  MaxWrites,   \* bound: writes the application makes on the source
  MaxBoots,    \* bound: how often the daemon is started
  Env          \* what the surroundings may do beyond ordinary operation

(* "crash": the daemon dies between two awaits; "step_fails": a database   *)
(* call of Applier.apply raises; "hot_inserts": rows are inserted after    *)
(* the slot exists and before the subscription streams; "drop_times_out":  *)
(* DROP SUBSCRIPTION keeps failing for 15 s; "sink_down" / "source_down":  *)
(* that half of the teardown fails, the sink's at any of its statements;   *)
(* "outage": the source is unreachable during discovery; "slot_lost": the  *)
(* slot disappears on its own (failover, an operator).                     *)
EnvEvents == {"crash", "step_fails", "hot_inserts", "drop_times_out",
              "sink_down", "source_down", "outage", "slot_lost"}

ASSUME KeysAssumption ==
  /\ Keys \subseteq Nat \ {0} /\ IsFiniteSet(Keys)
  /\ \E top \in Keys : \A k \in Keys : k <= top
ASSUME BatchAssumption == BatchSize \in Nat \ {0}
ASSUME MatchingAssumption == Matching \subseteq Nat \ {0}
ASSUME BoundsAssumption == MaxLag \in Nat /\ MaxWrites \in Nat /\ MaxBoots \in Nat
ASSUME EnvAssumption == Env \subseteq EnvEvents /\ SameName \in BOOLEAN

VARIABLES
  source,      \* the source table: key -> content
  wal,         \* the source's log, a sequence of [key, op]
  published,   \* does publication pub_<target> exist?
  slot,        \* confirmed position of slot sub_<target>, or NoSlot
  sub,         \* subscription sub_<target> on the sink
  sink,        \* the sink's raw table: key -> content
  state,       \* row sub_<target> of _replica_state
  vectorizer,  \* does the vectorizer of the current configuration exist?
  pc,          \* where the daemon is
  mode,        \* why it is there: "boot", "heal" or "stop"
  boots,       \* number of starts so far
  mishaps,     \* history: "leftover": a subscription may have outlived its
               \* slot; "outage": a discovery missed that there is no slot
  plan,        \* actions the Planner produced for this reconciliation
  from,        \* Applier.apply: last_id_str, where the catch-up began
  cursor,      \* Applier.apply: last_id, where the catch-up is
  batch,       \* Applier.apply: rows, the page fetched but not yet saved
  sourceIds,   \* find_and_fix_ghost_records: source_ids
  sinkIds,     \* find_and_fix_ghost_records: sink_ids
  opts         \* setup_sink: copy_data and create_slot

dbVars     == <<source, wal, published, slot, sub, sink, state, vectorizer>>
localVars  == <<from, cursor, batch, sourceIds, sinkIds, opts>>
runVars    == <<mode, boots, plan, mishaps>>
daemonVars == <<pc, runVars, localVars>>
vars       == <<dbVars, daemonVars>>

-----------------------------------------------------------------------------
NoSlot   == -1
Attached == slot # NoSlot

NoState   == [exists |-> FALSE, last |-> 0, lsn |-> FALSE]
NoOpts    == [copy |-> FALSE, create |-> FALSE]
EmptyPage == [k \in {} |-> 0]

CatchUpSteps  == {"fetch", "upsert", "saveCursor"}
SweepSteps    == {"readSourceIds", "readSinkIds", "deleteGhosts"}
RecoverySteps == {"createSlot", "saveLsn", "readState"} \cup CatchUpSteps \cup SweepSteps
SetupSteps    == {"stateRow", "vectorizer", "decide", "subscribe"}
ApplySteps    == {"sourceSetup"} \cup RecoverySteps \cup SetupSteps
SinkTeardown  == {"disable", "detach", "dropSubscription", "dropVectorizer"}
Steps == {"down", "discoverSource", "discoverSink", "serving", "dropSlot"}
           \cup ApplySteps \cup SinkTeardown

(* Nothing of the subscription is left but, at most, its name.             *)
Dropped == sub \in {"none", "disabled"}

(* The changes of key k that the slot still holds for the subscription.    *)
Pending(k) == {i \in DOMAIN wal : Attached /\ slot < i /\ wal[i].key = k}

(* What the sink's row k will be once the pending changes are applied to   *)
(* it: an UPDATE of a row the sink does not have is skipped by the apply   *)
(* worker, so only a pending INSERT brings a missing row back.             *)
Replayed(k) ==
  IF Pending(k) = {} THEN sink[k]
  ELSE IF sink[k] = 0 /\ \A i \in Pending(k) : wal[i].op # "insert" THEN 0
  ELSE source[k]

(* Key k is lost: nothing under way will make the sink's row right.        *)
Lost(k) == Replayed(k) # source[k]

-----------------------------------------------------------------------------
Init ==
  /\ source = [k \in Keys |-> 0] /\ sink = [k \in Keys |-> 0]
  /\ wal = <<>> /\ published = FALSE /\ slot = NoSlot /\ sub = "none"
  /\ state = NoState /\ vectorizer = FALSE
  /\ pc = "down" /\ mode = "boot" /\ boots = 0 /\ plan = {} /\ mishaps = {}
  /\ from = 0 /\ cursor = 0 /\ batch = EmptyPage
  /\ sourceIds = {} /\ sinkIds = {} /\ opts = NoOpts

-----------------------------------------------------------------------------
(* The application on the source.                                          *)

Write(k, op, content) ==
  /\ Len(wal) < MaxWrites
  /\ wal' = Append(wal, [key |-> k, op |-> op])
  /\ source' = [source EXCEPT ![k] = content]
  /\ UNCHANGED <<published, slot, sub, sink, state, vectorizer, daemonVars>>

Insert(k) ==
  /\ source[k] = 0
  /\ Attached /\ sub # "streaming" => "hot_inserts" \in Env
  /\ Write(k, "insert", Len(wal) + 1)

Update(k) == source[k] # 0 /\ Write(k, "update", Len(wal) + 1)

Delete(k) == source[k] # 0 /\ Write(k, "delete", 0)

-----------------------------------------------------------------------------
(* PostgreSQL's logical replication, as far as the code relies on it.      *)

(* The apply worker takes the next change of the slot.  An INSERT of a key *)
(* the sink already has is a unique violation: the worker restarts and     *)
(* meets the same change again.                                            *)
ApplyChange ==
  /\ sub = "streaming" /\ published /\ Attached /\ slot < Len(wal)
  /\ LET change == wal[slot + 1]
         k      == change.key
     IN  /\ change.op = "insert" => sink[k] = 0
         /\ sink' = [sink EXCEPT ![k] =
                       IF change.op = "delete" \/ (change.op = "update" /\ sink[k] = 0)
                       THEN 0 ELSE slot + 1]
  /\ slot' = slot + 1
  /\ UNCHANGED <<source, wal, published, sub, state, vectorizer, daemonVars>>

(* The initial table synchronisation of copy_data = true: a COPY into the  *)
(* sink table, which a row already there makes fail.                       *)
TableCopy ==
  /\ sub = "copying" /\ published /\ Attached
  /\ \A k \in Keys : source[k] = 0 \/ sink[k] = 0
  /\ sink' = [k \in Keys |-> IF source[k] # 0 THEN source[k] ELSE sink[k]]
  /\ slot' = Len(wal) /\ sub' = "streaming"
  /\ UNCHANGED <<source, wal, published, state, vectorizer, daemonVars>>

SlotLost ==
  /\ "slot_lost" \in Env /\ Attached
  /\ slot' = NoSlot /\ mishaps' = mishaps \cup {"leftover"}
  /\ UNCHANGED <<source, wal, published, sub, sink, state, vectorizer, pc, mode, boots, plan,
                 localVars>>

-----------------------------------------------------------------------------
(* Orchestrator.start and Reconciler.reconcile up to the plan.             *)

NoLocals ==
  /\ from' = 0 /\ cursor' = 0 /\ batch' = EmptyPage
  /\ sourceIds' = {} /\ sinkIds' = {} /\ opts' = NoOpts

Start ==
  /\ pc = "down" /\ boots < MaxBoots
  /\ boots' = boots + 1 /\ mode' = "boot" /\ pc' = "discoverSource"
  /\ UNCHANGED <<dbVars, plan, mishaps, localVars>>

Filtered == ~ (1 .. MaxWrites \subseteq Matching)

(* The latest configuration is loaded first: an edited pipeline has a new  *)
(* version, whose vectorizer does not exist.  A source whose discovery     *)
(* fails counts as unreachable and gets no recovery.  Discovery never      *)
(* reports a row filter, so a configured one makes the Planner set the     *)
(* source up again every time.                                             *)
DiscoverSource ==
  /\ pc = "discoverSource"
  /\ \E edited \in BOOLEAN : vectorizer' = (vectorizer /\ ~edited)
  /\ \E reachable \in BOOLEAN :
       /\ reachable \/ "outage" \in Env
       /\ plan' = {action \in {"SOURCE_SETUP", "SINK_RECOVERY"} :
                     /\ reachable
                     /\ action = "SOURCE_SETUP" => ~published \/ Filtered
                     /\ action = "SINK_RECOVERY" => ~Attached}
       /\ mishaps' = mishaps \cup (IF reachable \/ Attached THEN {} ELSE {"outage"})
  /\ pc' = "discoverSink"
  /\ UNCHANGED <<source, wal, published, slot, sub, sink, state, mode, boots, localVars>>

AfterRecovery(actions) ==
  IF "SINK_VECTORIZER_SETUP" \in actions THEN "stateRow" ELSE "serving"

AfterSourceSetup(actions) ==
  IF "SINK_RECOVERY" \in actions THEN "createSlot" ELSE AfterRecovery(actions)

DiscoverSink ==
  /\ pc = "discoverSink"
  /\ plan' = plan \cup (IF vectorizer THEN {} ELSE {"SINK_VECTORIZER_SETUP"})
  /\ pc' = IF "SOURCE_SETUP" \in plan THEN "sourceSetup" ELSE AfterSourceSetup(plan')
  /\ UNCHANGED <<dbVars, mode, boots, mishaps, localVars>>

-----------------------------------------------------------------------------
(* Applier.apply, SOURCE_SETUP and SINK_RECOVERY.                          *)

(* DROP and CREATE PUBLICATION in one transaction, without a row filter.   *)
SourceSetup ==
  /\ pc = "sourceSetup"
  /\ published' = TRUE /\ pc' = AfterSourceSetup(plan)
  /\ UNCHANGED <<source, wal, slot, sub, sink, state, vectorizer, runVars, localVars>>

(* pg_create_logical_replication_slot; it raises when the slot exists,     *)
(* which no step of this module can bring about since discovery.           *)
CreateSlot ==
  /\ pc = "createSlot" /\ ~Attached
  /\ slot' = Len(wal) /\ pc' = "saveLsn"
  /\ UNCHANGED <<source, wal, published, sub, sink, state, vectorizer, runVars, localVars>>

(* A bare UPDATE: without the row nothing is stored.                       *)
SaveLsn ==
  /\ pc = "saveLsn"
  /\ state' = [state EXCEPT !.lsn = state.exists]
  /\ pc' = "readState"
  /\ UNCHANGED <<source, wal, published, slot, sub, sink, vectorizer, runVars, localVars>>

ReadState ==
  /\ pc = "readState"
  /\ from' = state.last /\ cursor' = state.last
  /\ pc' = "fetch"
  /\ UNCHANGED <<dbVars, runVars, batch, sourceIds, sinkIds, opts>>

(* SELECT .. WHERE (filter) AND p_key > cursor ORDER BY p_key LIMIT n.     *)
Ahead(c) == {k \in Keys : c < k /\ source[k] \in Matching}
Page(c)  == {k \in Ahead(c) : Cardinality({j \in Ahead(c) : j < k}) < BatchSize}

Fetch ==
  /\ pc = "fetch"
  /\ \/ /\ Page(cursor) = {}
        /\ pc' = "readSourceIds" /\ UNCHANGED batch
     \/ /\ Page(cursor) # {}
        /\ batch' = [k \in Page(cursor) |-> source[k]]
        /\ pc' = "upsert"
  /\ UNCHANGED <<dbVars, runVars, from, cursor, sourceIds, sinkIds, opts>>

(* Mutant: ON CONFLICT DO NOTHING.                                         *)
Upsert_DoNothing ==
  /\ pc = "upsert"
  /\ sink' = [k \in Keys |-> IF k \in DOMAIN batch /\ sink[k] = 0 THEN batch[k] ELSE sink[k]]
  /\ pc' = "saveCursor"
  /\ UNCHANGED <<source, wal, published, slot, sub, state, vectorizer, runVars, localVars>>

Upsert ==
  /\ pc = "upsert"
  /\ sink' = [k \in Keys |-> IF k \in DOMAIN batch THEN batch[k] ELSE sink[k]]
  /\ pc' = "saveCursor"
  /\ UNCHANGED <<source, wal, published, slot, sub, state, vectorizer, runVars, localVars>>

LastKey(page) == CHOOSE k \in DOMAIN page : \A j \in DOMAIN page : j <= k

(* Mutant: the cursor is saved one key too far.                            *)
SaveCursor_PastEnd ==
  /\ pc = "saveCursor"
  /\ cursor' = LastKey(batch) + 1
  /\ state' = [state EXCEPT !.last = IF state.exists THEN LastKey(batch) + 1 ELSE @]
  /\ batch' = EmptyPage /\ pc' = "fetch"
  /\ UNCHANGED <<source, wal, published, slot, sub, sink, vectorizer, runVars,
                 from, sourceIds, sinkIds, opts>>

SaveCursor ==
  /\ pc = "saveCursor"
  /\ cursor' = LastKey(batch)
  /\ state' = [state EXCEPT !.last = IF state.exists THEN LastKey(batch) ELSE @]
  /\ batch' = EmptyPage /\ pc' = "fetch"
  /\ UNCHANGED <<source, wal, published, slot, sub, sink, vectorizer, runVars,
                 from, sourceIds, sinkIds, opts>>

(* Mutant: the source ids are read with the catch-up's keyset predicate.   *)
ReadSourceIds_Keyset ==
  /\ pc = "readSourceIds"
  /\ sourceIds' = {k \in Keys : source[k] # 0 /\ from < k}
  /\ pc' = "readSinkIds"
  /\ UNCHANGED <<dbVars, runVars, from, cursor, batch, sinkIds, opts>>

(* find_and_fix_ghost_records by set comparison, the strategy of every     *)
(* table whose key is not INT or BIGINT; it knows of no filter.  (The      *)
(* early return on two empty tables is a sweep that finds nothing.)        *)
ReadSourceIds ==
  /\ pc = "readSourceIds"
  /\ sourceIds' = {k \in Keys : source[k] # 0}
  /\ pc' = "readSinkIds"
  /\ UNCHANGED <<dbVars, runVars, from, cursor, batch, sinkIds, opts>>

(* Mutant: the swept range comes from the source alone.                    *)
ReadSinkIds_SourceRange ==
  /\ pc = "readSinkIds"
  /\ sinkIds' = {k \in Keys : sink[k] # 0 /\ \E j \in sourceIds : k <= j}
  /\ pc' = "deleteGhosts"
  /\ UNCHANGED <<dbVars, runVars, from, cursor, batch, sourceIds, opts>>

ReadSinkIds ==
  /\ pc = "readSinkIds"
  /\ sinkIds' = {k \in Keys : sink[k] # 0}
  /\ pc' = "deleteGhosts"
  /\ UNCHANGED <<dbVars, runVars, from, cursor, batch, sourceIds, opts>>

DeleteGhosts ==
  /\ pc = "deleteGhosts"
  /\ sink' = [k \in Keys |-> IF k \in sinkIds \ sourceIds THEN 0 ELSE sink[k]]
  /\ pc' = AfterRecovery(plan)
  /\ NoLocals
  /\ UNCHANGED <<source, wal, published, slot, sub, state, vectorizer, runVars>>

-----------------------------------------------------------------------------
(* Applier.apply, SINK_VECTORIZER_SETUP: setup_sink.                       *)

SetupStateRow ==
  /\ pc = "stateRow"
  /\ state' = [state EXCEPT !.exists = TRUE]
  /\ pc' = "vectorizer"
  /\ UNCHANGED <<source, wal, published, slot, sub, sink, vectorizer, runVars, localVars>>

CreateVectorizer ==
  /\ pc = "vectorizer"
  /\ vectorizer' = TRUE /\ pc' = "decide"
  /\ UNCHANGED <<source, wal, published, slot, sub, sink, state, runVars, localVars>>

(* An existing subscription is enabled and refreshed; one that was left    *)
(* without its slot name refuses, and the target is reported Failed.       *)
Enable ==
  /\ pc = "decide" /\ sub # "none"
  /\ sub' = CASE sub = "paused"     -> "streaming"
             [] sub = "pausedCopy" -> "copying"
             [] OTHER              -> sub
  /\ pc' = "serving" /\ NoLocals
  /\ UNCHANGED <<source, wal, published, slot, sink, state, vectorizer, runVars>>

(* Mutant: setup_sink does not look for the slot on the source.            *)
Decide_NoSlotCheck ==
  /\ pc = "decide" /\ sub = "none"
  /\ opts' = [copy |-> state.last = 0 /\ ~state.lsn, create |-> FALSE]
  /\ pc' = "subscribe"
  /\ UNCHANGED <<dbVars, runVars, from, cursor, batch, sourceIds, sinkIds>>

Decide ==
  /\ pc = "decide" /\ sub = "none"
  /\ opts' = [copy   |-> ~Attached /\ state.last = 0 /\ ~state.lsn,
              create |-> ~Attached]
  /\ pc' = "subscribe"
  /\ UNCHANGED <<dbVars, runVars, from, cursor, batch, sourceIds, sinkIds>>

(* Mutant: the slot is made anew for the subscription.                     *)
Subscribe_FreshSlot ==
  /\ pc = "subscribe"
  /\ sub' = IF opts.copy THEN "copying" ELSE "streaming"
  /\ slot' = Len(wal)
  /\ pc' = "serving" /\ NoLocals
  /\ UNCHANGED <<source, wal, published, sink, state, vectorizer, runVars>>

(* CREATE SUBSCRIPTION, two seconds or more after the decision.            *)
Subscribe ==
  /\ pc = "subscribe"
  /\ opts.create => ~Attached
  /\ sub' = IF opts.copy THEN "copying" ELSE "streaming"
  /\ slot' = IF opts.create THEN Len(wal) ELSE slot
  /\ pc' = "serving" /\ NoLocals
  /\ UNCHANGED <<source, wal, published, sink, state, vectorizer, runVars>>

-----------------------------------------------------------------------------
(* The watchdog, the shutdown, and drop_subscription_completely.           *)

SelfDestruct ==
  /\ pc = "serving" /\ Attached /\ Len(wal) - slot > MaxLag
  /\ pc' = "disable" /\ mode' = "heal"
  /\ UNCHANGED <<dbVars, boots, plan, mishaps, localVars>>

(* Orchestrator.stop cancels the watchdog, in the middle of a teardown or  *)
(* reconciliation of its auto-heal too, and then drops everything.         *)
Stop ==
  /\ pc = "serving" \/ (mode = "heal" /\ pc # "down")
  /\ pc' = "disable" /\ mode' = "stop" /\ NoLocals
  /\ UNCHANGED <<dbVars, boots, plan, mishaps>>

(* The sink's half, statement by statement.  ALTER SUBSCRIPTION .. DISABLE *)
(* and SET (slot_name = NONE) mean nothing to a subscription that is not   *)
(* there; their errors are swallowed.                                      *)
Disable ==
  /\ pc = "disable"
  /\ sub' = CASE sub = "streaming" -> "paused"
             [] sub = "copying"   -> "pausedCopy"
             [] OTHER             -> sub
  /\ pc' = IF sub = "none" THEN "dropVectorizer" ELSE "detach"
  /\ UNCHANGED <<source, wal, published, slot, sink, state, vectorizer, runVars, localVars>>

Detach ==
  /\ pc = "detach"
  /\ sub' = "disabled" /\ pc' = "dropSubscription"
  /\ UNCHANGED <<source, wal, published, slot, sink, state, vectorizer, runVars, localVars>>

(* Mutant: a subscription that cannot be dropped is enabled again.         *)
DropSubscription_Enabled ==
  /\ pc = "dropSubscription"
  /\ sub' = "none" \/ ("drop_times_out" \in Env /\ sub' = "streaming")
  /\ pc' = "dropVectorizer"
  /\ UNCHANGED <<source, wal, published, slot, sink, state, vectorizer, runVars, localVars>>

(* After 15 s of failing DROP SUBSCRIPTIONs the teardown goes on.          *)
DropSubscription ==
  /\ pc = "dropSubscription"
  /\ sub' = "none" \/ ("drop_times_out" \in Env /\ UNCHANGED sub)
  /\ pc' = "dropVectorizer"
  /\ UNCHANGED <<source, wal, published, slot, sink, state, vectorizer, runVars, localVars>>

(* Mutant: the vectorizers survive the teardown.                           *)
DropVectorizer_Kept ==
  /\ pc = "dropVectorizer"
  /\ pc' = "dropSlot"
  /\ UNCHANGED <<dbVars, runVars, localVars>>

(* The vectorizers whose name starts with <target>_store: they are named   *)
(* after the table.                                                        *)
DropVectorizer ==
  /\ pc = "dropVectorizer"
  /\ vectorizer' = (vectorizer /\ ~SameName) /\ pc' = "dropSlot"
  /\ UNCHANGED <<source, wal, published, slot, sub, sink, state, runVars, localVars>>

(* An error ends the sink's half; the source's half runs all the same.     *)
SinkTeardownFails ==
  /\ "sink_down" \in Env /\ pc \in SinkTeardown
  /\ pc' = "dropSlot"
  /\ mishaps' = mishaps \cup (IF Dropped THEN {} ELSE {"leftover"})
  /\ UNCHANGED <<dbVars, mode, boots, plan, localVars>>

(* The source's half; `_replica_state` keeps its row.                      *)
DropSlot ==
  /\ pc = "dropSlot"
  /\ slot' = NoSlot \/ ("source_down" \in Env /\ UNCHANGED slot)
  /\ pc' = IF mode = "heal" THEN "discoverSource" ELSE "down"
  /\ UNCHANGED <<source, wal, published, sub, sink, state, vectorizer, runVars, localVars>>

-----------------------------------------------------------------------------
(* Failures.                                                               *)

(* Applier.apply catches the exception, skips the rest of the target's     *)
(* actions and returns; reconcile returns normally.                        *)
StepFails ==
  /\ "step_fails" \in Env /\ pc \in ApplySteps
  /\ pc' = "serving" /\ NoLocals
  /\ UNCHANGED <<dbVars, runVars>>

Crash ==
  /\ "crash" \in Env /\ pc # "down"
  /\ pc' = "down" /\ NoLocals
  /\ UNCHANGED <<dbVars, runVars>>

-----------------------------------------------------------------------------
Application == \E k \in Keys : Insert(k) \/ Update(k) \/ Delete(k)

Reconcile ==
  \/ DiscoverSource \/ DiscoverSink \/ SourceSetup
  \/ CreateSlot \/ SaveLsn \/ ReadState \/ Fetch \/ Upsert \/ SaveCursor
  \/ ReadSourceIds \/ ReadSinkIds \/ DeleteGhosts
  \/ SetupStateRow \/ CreateVectorizer \/ Enable \/ Decide \/ Subscribe

Teardown ==
  \/ Disable \/ Detach \/ DropSubscription \/ DropVectorizer \/ SinkTeardownFails
  \/ DropSlot

Next ==
  \/ Application \/ ApplyChange \/ TableCopy \/ SlotLost
  \/ Start \/ Reconcile \/ SelfDestruct \/ Stop \/ Teardown
  \/ StepFails \/ Crash

Spec == Init /\ [][Next]_vars

(* The daemon is restarted by its supervisor, its event loop keeps running *)
(* the coroutine it is in, and PostgreSQL keeps restarting its workers.    *)
(* Nothing obliges the application to write or the operator to stop.       *)
Fairness ==
  /\ WF_vars(Start) /\ WF_vars(Reconcile) /\ WF_vars(Teardown)
  /\ WF_vars(ApplyChange) /\ WF_vars(TableCopy)

FairSpec == Spec /\ Fairness

-----------------------------------------------------------------------------
Content == 0 .. MaxWrites
Change  == [key : Keys, op : {"insert", "update", "delete"}]

DatabasesOK ==
  /\ source \in [Keys -> Content] /\ sink \in [Keys -> Content]
  /\ wal \in Seq(Change) /\ Len(wal) <= MaxWrites
  /\ slot \in {NoSlot} \cup 0 .. Len(wal)
  /\ sub \in {"none", "copying", "streaming", "pausedCopy", "paused", "disabled"}
  /\ state \in [exists : BOOLEAN, last : Keys \cup {0}, lsn : BOOLEAN]
  /\ published \in BOOLEAN /\ vectorizer \in BOOLEAN

ProgressOK ==
  /\ pc \in Steps /\ mode \in {"boot", "heal", "stop"} /\ boots \in 0 .. MaxBoots
  /\ plan \subseteq {"SOURCE_SETUP", "SINK_RECOVERY", "SINK_VECTORIZER_SETUP"}
  /\ mishaps \subseteq {"leftover", "outage"}

LocalsOK ==
  /\ from \in Keys \cup {0} /\ cursor \in Keys \cup {0}
  /\ DOMAIN batch \subseteq Keys /\ \A k \in DOMAIN batch : batch[k] \in Content \ {0}
  /\ sourceIds \subseteq Keys /\ sinkIds \subseteq Keys
  /\ opts \in [copy : BOOLEAN, create : BOOLEAN]

(* Every variable stays in its domain; a position never passes the log.    *)
TypeOK == DatabasesOK /\ ProgressOK /\ LocalsOK

(* What the properties rest on, as long as it lasts: every teardown took   *)
(* the subscription along and no slot vanished; besides, no outage hid     *)
(* from a discovery that the slot is missing.                              *)
SlotsAreKept  == "leftover" \notin mishaps
SourceAnswers == mishaps = {}

Alone == sub \notin {"streaming", "copying"}

(* No row gets lost while a slot exists.  Catch-up pages that are stale    *)
(* when they are written, a sweep that deletes what it saw a moment ago,   *)
(* the hand-over to streaming, crashes and failures in between: none of    *)
(* these steps turns a row that is right, or that pending changes will     *)
(* put right, into one that stays wrong.  Only having no slot loses rows.  *)
NoLossWhileAttached ==
  [][SourceAnswers' => \A k \in Keys : ~Lost(k) /\ Lost(k)' => slot' = NoSlot]_vars

(* Nobody writes the sink table under a running recovery: while the pages  *)
(* and the sweep are on their way, no subscription streams into it.        *)
RecoveryIsAlone == SlotsAreKept /\ pc \in RecoverySteps => Alone

(* No loss whatever the surroundings have done, slots that vanished and    *)
(* teardowns that failed half-way included, at every step that finds the   *)
(* recovery alone and no initial copy under way: that is all it takes.     *)
NoLossWhileAlone ==
  [][(pc \in RecoverySteps => Alone) /\ sub # "copying" =>
       \A k \in Keys : ~Lost(k) /\ Lost(k)' => slot' = NoSlot]_vars

(* Key k has had a content that the filter keeps out of the pages, which   *)
(* neither the publication nor the sweep does.                             *)
Unmatched(k) ==
  \E i \in DOMAIN wal : wal[i].key = k /\ wal[i].op # "delete" /\ i \notin Matching

(* A catch-up with a slot under it leaves nothing wrong behind its cursor: *)
(* a lost key is one below the point where it began, one it has yet to     *)
(* reach, one the filter kept from it, or a ghost that the sweep is there  *)
(* for.                                                                    *)
CatchUpCovers ==
  SlotsAreKept /\ pc \in CatchUpSteps \cup SweepSteps /\ Attached =>
    \A k \in Keys : Lost(k) =>
      \/ k <= from
      \/ k > cursor /\ pc \in CatchUpSteps
      \/ source[k] = 0 \/ Unmatched(k)

(* The sweep, if it runs under a slot, completes the recovery: afterwards  *)
(* the only wrong rows are live rows at or below the saved cursor, or kept *)
(* away by the filter.                                                     *)
SweepHeals ==
  [][SlotsAreKept /\ DeleteGhosts /\ Attached =>
       \A k \in Keys : Lost(k)' => (k <= from \/ Unmatched(k)) /\ source[k] # 0]_vars

(* The daemon creates the subscription over the slot that anchored the     *)
(* catch-up, never over one made afterwards: there is no gap between the   *)
(* last page and the first streamed change.                                *)
HandoverUsesAnchor ==
  SourceAnswers /\ pc = "subscribe" => Attached /\ ~opts.create /\ ~opts.copy

(* The recovery implements the contract of a target: the slot is the       *)
(* anchor, a pending change is a debt.                                     *)
Standing ==
  [k \in Keys |-> IF Lost(k) THEN "lost"
                  ELSE IF Pending(k) # {} THEN "owed" ELSE "level"]
Contract == INSTANCE ReplicaContract
              WITH anchored <- Attached, standing <- Standing, void <- ~SourceAnswers
ImplementsContract == Contract!Spec

(* README, Hybrid Recovery Model: the hand-over is zero-loss.  Once a      *)
(* served target streams, every row is right or on its way.                *)
ZeroLossHandover == pc = "serving" /\ sub = "streaming" => \A k \in Keys : ~Lost(k)

(* A deployment ends with a copy that equals the source, or stopped.       *)
Converges == <>[](pc = "down" \/ sink = source)
=============================================================================
