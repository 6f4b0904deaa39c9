----------------------------- MODULE SourceSync -----------------------------
(***************************************************************************)
(* The synchronisation of a target whose source has no replication slot: a *)
(* PostgreSQL table read by key ("polling"), the objects of an S3 bucket,  *)
(* or the files of a local directory.                                      *)
(*                                                                         *)
(* The Planner orders a full pass (SINK_RECOVERY) as long as the source    *)
(* answers and the target's row of _replica_state is missing or its        *)
(* last_id is still '0'.  The row is created by setup_sink, after the      *)
(* pass, so the first pass saves its cursor nowhere, a later one saves it, *)
(* and there is no other: what the source does after that never arrives.   *)
(*                                                                         *)
(* A pass fetches page after page from the last key on, upserts each page, *)
(* saves the key, and ends at the first empty page.  Then a polled table   *)
(* is swept for ghosts; files that are gone stay in the sink.  The filter  *)
(* of the pipeline is part of a polled table's pages only: the adapters of *)
(* files ignore it, and so does the sweep, which thus keeps what the sink  *)
(* holds of a row that no longer passes.                                   *)
(*                                                                         *)
(* Abstractions.  A key is its rank in the listing order, which is also    *)
(* the integer a polled table has for key.  GhostSweep has the sweep query *)
(* by query; here it compares whole tables.  Of last_id only its being     *)
(* '0' matters, for a pass is planned from no other value.  The bucket's   *)
(* directory markers, objects named ".../", do not change, nor does the    *)
(* filter.                                                                 *)
(***************************************************************************)
EXTENDS Integers, FiniteSets

CONSTANTS
  MaxKey,     \* keys are 0..MaxKey
  Contents,   \* what a row or an object may hold
  Gone,       \* not in Contents: there is no such row
  BatchSize,  \* batch_size
  MaxWrites,  \* bound: writes of others
  MaxStarts,  \* bound: reconciliations
  MaxFaults   \* bound: failing steps, crashes, unanswered discoveries

Keys == 0..MaxKey

ASSUME KeysAssumption == MaxKey \in Nat
ASSUME ContentsAssumption == Gone \notin Contents
ASSUME BatchAssumption == BatchSize \in Nat \ {0}
ASSUME BoundsAssumption == MaxWrites \in Nat /\ MaxStarts \in Nat /\ MaxFaults \in Nat

VARIABLES
  kind,      \* "polling", "s3" or "local"
  markers,   \* keys of the bucket's directory markers
  passing,   \* contents that the filter of a page lets through
  source,    \* key -> contents
  sink,      \* key -> contents, the raw table
  stateRow,  \* last_id of the target: "none" without its row, "0", "saved"
  built,     \* does the version's vectorizer exist?
  pc,        \* "down", "idle", or the step of the pass
  last,      \* last_id of the running pass, -1 for None
  page,      \* rows: key -> contents
  ids,       \* keys the sweep read from the source
  touched,   \* history: keys written at the source since the pass began
  writes, starts, faults

sourceVars == <<kind, markers, passing, source>>
bounds     == <<writes, starts, faults>>
vars == <<sourceVars, sink, stateRow, built, pc, last, page, ids, touched, bounds>>

-----------------------------------------------------------------------------
Present(table) == {k \in Keys : table[k] # Gone}
Wanted == {k \in Present(source) : source[k] \in passing}
NoRows == [k \in {} |-> Gone]

(* The first n members of S. *)
First(n, S) == {k \in S : Cardinality({j \in S : j < k}) < n}

(* Mutant: the listing begins at last_id, not behind it. *)
Page_FromLast ==
  LET listed == First(BatchSize, {k \in Wanted \cup markers : k >= last})
  IN  [k \in listed \ markers |-> source[k]]

(* Mutant: no LIMIT. *)
Page_Whole == [k \in {j \in Wanted : j > last} |-> source[k]]

(* list_objects_v2 lists markers like any object; they are dropped from    *)
(* the page it returns.  A table is read by (filter) AND key > last_id, a  *)
(* directory by uri > last_id.                                             *)
Page == LET listed == First(BatchSize, {k \in Wanted \cup markers : k > last})
        IN  [k \in listed \ markers |-> source[k]]

Init ==
  /\ kind \in {"polling", "s3", "local"}
  /\ source \in [Keys -> Contents \cup {Gone}]
  /\ markers \in SUBSET (IF kind = "s3" THEN Keys \ Present(source) ELSE {})
  /\ passing \in SUBSET Contents /\ (kind # "polling" => passing = Contents)
  /\ sink = [k \in Keys |-> Gone]
  /\ stateRow = "none" /\ built = FALSE
  /\ pc = "down" /\ last = -1 /\ page = NoRows /\ ids = {}
  /\ touched = {}
  /\ writes = 0 /\ starts = 0 /\ faults = 0

-----------------------------------------------------------------------------
(* The application, or whoever owns the files.                             *)
Write(k, c) ==
  /\ writes < MaxWrites /\ writes' = writes + 1
  /\ k \notin markers /\ source[k] # c
  /\ source' = [source EXCEPT ![k] = c]
  /\ touched' = touched \cup {k}
  /\ UNCHANGED <<kind, markers, passing, sink, stateRow, built, pc, last, page, ids, starts, faults>>

-----------------------------------------------------------------------------
(* The daemon.                                                             *)
NoLocals == last' = -1 /\ page' = NoRows /\ ids' = {}

(* What follows the pass in the plan, or takes its place. *)
AfterRecovery == IF built THEN "idle" ELSE "setup"

Fault == faults < MaxFaults /\ faults' = faults + 1

(* The daemon reconciles at its start, and again when the watchdog has     *)
(* healed another target.  The plan has a pass if nothing was saved yet    *)
(* and the source answers its discovery.                                   *)
Start ==
  /\ pc \in {"down", "idle"}
  /\ starts < MaxStarts /\ starts' = starts + 1
  /\ \/ /\ pc' = IF stateRow \in {"none", "0"} THEN "fetch" ELSE AfterRecovery
        /\ UNCHANGED faults
     \/ Fault /\ pc' = AfterRecovery
  /\ touched' = IF pc' = "fetch" THEN {} ELSE touched
  /\ NoLocals
  /\ UNCHANGED <<sourceVars, sink, stateRow, built, writes>>

Fetch ==
  /\ pc = "fetch"
  /\ page' = Page
  /\ pc' = CASE page' # NoRows -> "upsert"
             [] page' = NoRows /\ kind = "polling" -> "readIds"
             [] OTHER -> AfterRecovery
  /\ UNCHANGED <<sourceVars, sink, stateRow, built, last, ids, touched, bounds>>

(* Mutant: a page that is not full is the last one. *)
Upsert_LastPage ==
  /\ pc = "upsert"
  /\ sink' = [k \in Keys |-> IF k \in DOMAIN page THEN page[k] ELSE sink[k]]
  /\ pc' = IF Cardinality(DOMAIN page) = BatchSize THEN "save"
           ELSE IF kind = "polling" THEN "readIds" ELSE AfterRecovery
  /\ UNCHANGED <<sourceVars, stateRow, built, last, page, ids, touched, bounds>>

(* Mutant: ON CONFLICT DO NOTHING. *)
Upsert_DoNothing ==
  /\ pc = "upsert"
  /\ sink' = [k \in Keys |-> IF k \in DOMAIN page /\ sink[k] = Gone
                            THEN page[k] ELSE sink[k]]
  /\ pc' = "save"
  /\ UNCHANGED <<sourceVars, stateRow, built, last, page, ids, touched, bounds>>

(* INSERT .. ON CONFLICT DO UPDATE. *)
Upsert ==
  /\ pc = "upsert"
  /\ sink' = [k \in Keys |-> IF k \in DOMAIN page THEN page[k] ELSE sink[k]]
  /\ pc' = "save"
  /\ UNCHANGED <<sourceVars, stateRow, built, last, page, ids, touched, bounds>>

(* str(last_id) goes to the target's row, if there is one: a polled key 0  *)
(* reads '0' there, like no cursor at all; a URI never does.               *)
SaveCursor ==
  /\ pc = "save"
  /\ last' = CHOOSE k \in DOMAIN page : \A j \in DOMAIN page : j <= k
  /\ stateRow' = CASE stateRow = "none" -> "none"
                   [] stateRow # "none" /\ kind = "polling" /\ last' = 0 -> "0"
                   [] OTHER -> "saved"
  /\ page' = NoRows
  /\ pc' = "fetch"
  /\ UNCHANGED <<sourceVars, sink, built, ids, touched, bounds>>

ReadSourceIds ==
  /\ pc = "readIds"
  /\ ids' = Present(source)
  /\ pc' = "sweep"
  /\ UNCHANGED <<sourceVars, sink, stateRow, built, last, page, touched, bounds>>

DeleteGhosts ==
  /\ pc = "sweep"
  /\ sink' = [k \in Keys |-> IF k \in ids THEN sink[k] ELSE Gone]
  /\ pc' = AfterRecovery
  /\ UNCHANGED <<sourceVars, stateRow, built, last, page, ids, touched, bounds>>

(* setup_sink creates the target's row of _replica_state, and then the     *)
(* vectorizer.                                                             *)
SetupStateRow ==
  /\ pc = "setup"
  /\ stateRow' = IF stateRow = "none" THEN "0" ELSE stateRow
  /\ pc' = "create"
  /\ UNCHANGED <<sourceVars, sink, built, last, page, ids, touched, bounds>>

CreateVectorizer ==
  /\ pc = "create"
  /\ built' = TRUE
  /\ pc' = "idle"
  /\ UNCHANGED <<sourceVars, sink, stateRow, last, page, ids, touched, bounds>>

(* The teardown of a daemon that stops drops the vectorizer, unless it     *)
(* fails before or the vectorizer is not named after the target; the row   *)
(* and the raw table stay.                                                 *)
Stop ==
  /\ pc = "idle"
  /\ built' \in {FALSE, built}
  /\ pc' = "down"
  /\ NoLocals
  /\ UNCHANGED <<sourceVars, sink, stateRow, touched, bounds>>

(* A failing step ends the target's part of the reconciliation: the daemon *)
(* goes on to serve.                                                       *)
StepFails ==
  /\ pc \notin {"down", "idle"}
  /\ Fault
  /\ pc' = "idle"
  /\ NoLocals
  /\ UNCHANGED <<sourceVars, sink, stateRow, built, touched, writes, starts>>

Crash ==
  /\ pc # "down"
  /\ Fault
  /\ pc' = "down"
  /\ NoLocals
  /\ UNCHANGED <<sourceVars, sink, stateRow, built, touched, writes, starts>>

Pass == \/ Fetch \/ Upsert \/ SaveCursor \/ ReadSourceIds \/ DeleteGhosts
        \/ SetupStateRow \/ CreateVectorizer

Next == \/ Start \/ Pass \/ Stop \/ StepFails \/ Crash
        \/ \E k \in Keys, c \in Contents \cup {Gone} : Write(k, c)

Spec == Init /\ [][Next]_vars
FairSpec == Spec /\ WF_vars(Pass)

-----------------------------------------------------------------------------
(* Every variable keeps its type, and a page is never longer than          *)
(* BatchSize (Applier.apply, fetch_batch).                                 *)
TypeOK ==
  /\ kind \in {"polling", "s3", "local"}
  /\ markers \subseteq Keys /\ passing \subseteq Contents
  /\ source \in [Keys -> Contents \cup {Gone}]
  /\ sink \in [Keys -> Contents \cup {Gone}]
  /\ stateRow \in {"none", "0", "saved"} /\ built \in BOOLEAN
  /\ pc \in {"down", "idle", "fetch", "upsert", "save", "readIds", "sweep",
             "setup", "create"}
  /\ last \in Keys \cup {-1}
  /\ page \in UNION {[S -> Contents] : S \in SUBSET Keys}
  /\ Cardinality(DOMAIN page) <= BatchSize
  /\ ids \subseteq Keys /\ touched \subseteq Keys
  /\ writes \in 0..MaxWrites /\ starts \in 0..MaxStarts /\ faults \in 0..MaxFaults

Steady(k) == k \notin touched
InPass == pc \in {"fetch", "upsert", "save", "readIds", "sweep"}

(* The cursor never runs ahead of the copy: at any moment of a pass, what  *)
(* the source holds up to last_id, passes the filter and nobody touched    *)
(* since the pass began is in the sink as it is (Applier.apply saves the   *)
(* key after the upsert).                                                  *)
NothingBehindCursor ==
  InPass => \A k \in Wanted : k <= last /\ Steady(k) => sink[k] = source[k]

(* A key is cut off when a page before it may hold nothing but markers:    *)
(* BatchSize of them below it, with no lasting object in between.          *)
CutOff(k) ==
  \E a, b \in {m \in markers : m < k} :
    /\ Cardinality(markers \cap a..b) >= BatchSize
    /\ \A j \in a..b : j \in Wanted => ~Steady(j)

(* A pass that ends without an error is complete: every row, object or     *)
(* file that passes the filter and nobody touched meanwhile is in the sink *)
(* as it is, the objects cut off by a page of directory markers excepted;  *)
(* and of a polled table, no row is left that was gone before the pass     *)
(* began (Applier.apply, fetch_batch, find_and_fix_ghost_records).         *)
PassIsExact ==
  [][InPass /\ pc' \in {"setup", "idle"} /\ UNCHANGED faults =>
       \A k \in Keys : Steady(k) =>
         \/ sink'[k] = source[k]
         \/ source[k] # Gone /\ (CutOff(k) \/ source[k] \notin passing)
         \/ source[k] = Gone /\ kind # "polling"]_vars

(* A pass ends, in set-up or in failure, wherever markers, deletions and   *)
(* new keys fall between its pages (fetch_batch lists strictly behind      *)
(* last_id).                                                               *)
PassEnds == InPass ~> pc \in {"down", "idle"}
=============================================================================
