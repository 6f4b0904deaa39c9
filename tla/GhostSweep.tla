----------------------------- MODULE GhostSweep -----------------------------
(***************************************************************************)
(* The anti-entropy sweep of one target, find_and_fix_ghost_records: rows  *)
(* of the sink that the source does not have ("ghosts") are deleted.       *)
(*                                                                         *)
(* A table of BIGINT keys is swept by overlapping chunks of the key range: *)
(* a chunk whose row count and bit_xor agree on both sides is taken to be  *)
(* in order, any other one is compared key by key.  Every other key type   *)
(* is compared whole, INTEGER included: information_schema spells it so    *)
(* and the code asks for "INT".                                            *)
(*                                                                         *)
(* Each query is a step of its own, for each runs on its own connection or *)
(* at READ COMMITTED; applications go on writing the source, and a stray   *)
(* subscription may write the sink.  HybridRecovery embeds the comparison  *)
(* in the recovery; here the two strategies are followed query by query.   *)
(*                                                                         *)
(* Abstractions.  A row is its key, a table the set of its keys.  A sweep  *)
(* that fails is over: the Applier reports the step and nothing calls it   *)
(* again before the next recovery.                                         *)
(***************************************************************************)
EXTENDS Integers, FiniteSets

CONSTANTS
  Keys,        \* integers the two tables may hold
  Width,       \* bits of a key that matter
  ChunkSize,   \* chunk_size
  MaxChanges,  \* bound: writes of others while the sweep runs
  Env          \* what may happen besides: "app", "stream", "range_fails", "step_fails"

(* Is the bit of weight 2^b of k set, in two's complement? *)
Bit(k, b) == (k \div 2^b) % 2 = 1
Bits == 0..(Width - 1)

ASSUME KeysAssumption == Keys \subseteq Int /\ IsFiniteSet(Keys)
ASSUME WidthAssumption ==
  /\ Width \in Nat
  /\ \A j, k \in Keys : j # k => \E b \in Bits : Bit(j, b) # Bit(k, b)
ASSUME ChunkAssumption == ChunkSize \in Nat \ {0}
ASSUME BoundAssumption == MaxChanges \in Nat
ASSUME EnvAssumption == Env \subseteq {"app", "stream", "range_fails", "step_fails"}

VARIABLES
  source,    \* keys in the source table
  sink,      \* keys in the sink's raw table
  numeric,   \* is the key a BIGINT?
  pc,        \* the query the sweep is about to run
  rowMin,    \* row_min: the first key of a range, or none
  ids,       \* all_ids: the ends of the two key ranges
  start,     \* start_id of the chunk
  sum,       \* s_count and s_xor of the chunk
  ids2,      \* source_ids or s_ids: the keys read from the source
  ghosts,    \* the keys about to be deleted
  blind,     \* history: the sink's range could not be read
  seen,      \* history: keys the source had at some moment of the sweep
  absent,    \* history: keys the source did not have at some moment
  missed,    \* history: keys the sink did not have at some moment
  changes    \* writes of others, and failing range queries, so far

tables == <<source, sink>>
past   == <<seen, absent, missed>>
locals == <<numeric, rowMin, ids, start, sum, ids2, ghosts>>
vars == <<tables, pc, locals, blind, past, changes>>

-----------------------------------------------------------------------------
Least(S)    == CHOOSE k \in S : \A j \in S : k <= j
Greatest(S) == CHOOSE k \in S : \A j \in S : j <= k

(* bit_xor of a set of keys: the parity of each bit. *)
Ones(S, b)  == {k \in S : Bit(k, b)}
BitXor(S)   == [b \in Bits |-> Cardinality(Ones(S, b)) % 2]
Summary(S)  == [count |-> Cardinality(S), xor |-> BitXor(S)]
Empty == Summary({})

(* BETWEEN start_id AND end_id, both ends included. *)
Chunk(S) == {k \in S : start <= k /\ k <= start + ChunkSize}

(* range(min_id, max_id + 1, chunk_size) *)
Starts == {s \in Least(ids)..Greatest(ids) : (s - Least(ids)) % ChunkSize = 0}

(* What the tables hold from now on, for the record. *)
Note == /\ seen' = seen \cup source'
        /\ absent' = absent \cup (Keys \ source')
        /\ missed' = missed \cup (Keys \ sink')

Init ==
  /\ source \in SUBSET Keys /\ sink \in SUBSET Keys
  /\ numeric \in BOOLEAN
  /\ pc = "preflight"
  /\ rowMin = {} /\ ids = {} /\ start = 0 /\ sum = Empty /\ ids2 = {} /\ ghosts = {}
  /\ blind = FALSE
  /\ seen = source /\ absent = Keys \ source /\ missed = Keys \ sink
  /\ changes = 0

-----------------------------------------------------------------------------
(* The sweep.                                                              *)
Goto(from, to) == pc = from /\ pc' = to

Reads == UNCHANGED <<tables, numeric, blind, past, changes>>

Preflight ==
  /\ Goto("preflight", "sinkMin")
  /\ Reads /\ UNCHANGED <<rowMin, ids, start, sum, ids2, ghosts>>

(* Range discovery: ORDER BY .. LIMIT 1 from either end.  The ends are     *)
(* noted if the first query found a row; had the table been emptied since, *)
(* the second end is None, and the TypeError is logged like any exception. *)
End(S, end) == IF S = {} THEN {} ELSE {end}

ReadMin(table) ==
  /\ rowMin' = End(table, Least(table))
  /\ Reads /\ UNCHANGED <<ids, start, sum, ids2, ghosts>>
ReadMax(table) ==
  /\ ids' = IF rowMin = {} THEN ids
            ELSE ids \cup rowMin \cup End(table, Greatest(table))
  /\ rowMin' = {}
  /\ Reads /\ UNCHANGED <<start, sum, ids2, ghosts>>

SinkMin   == Goto("sinkMin", "sinkMax") /\ ReadMin(sink)
SinkMax   == Goto("sinkMax", "sourceMin") /\ ReadMax(sink)
SourceMin == Goto("sourceMin", "sourceMax") /\ ReadMin(source)
SourceMax == Goto("sourceMax", "types") /\ ReadMax(source)

(* The type of the key decides between the two strategies; a sweep of two  *)
(* empty tables is over.                                                   *)
ReadTypes ==
  /\ pc = "types"
  /\ pc' = CASE ids = {} -> "done"
             [] ids # {} /\ numeric -> "countSource"
             [] OTHER -> "allSource"
  /\ start' = IF ids = {} THEN start ELSE Least(ids)
  /\ Reads /\ UNCHANGED <<rowMin, ids, sum, ids2, ghosts>>

(* Set comparison of the whole tables. *)
ReadAllSource ==
  /\ Goto("allSource", "allSink")
  /\ ids2' = source
  /\ Reads /\ UNCHANGED <<rowMin, ids, start, sum, ghosts>>

ReadAllSink ==
  /\ pc = "allSink"
  /\ ghosts' = sink \ ids2
  /\ pc' = IF ghosts' = {} THEN "done" ELSE "delete"
  /\ ids2' = {}
  /\ Reads /\ UNCHANGED <<rowMin, ids, start, sum>>

(* Mutant: one chunk more than the range holds. *)
NextChunk_PastEnd ==
  /\ start' = start + ChunkSize
  /\ pc' = IF start <= Greatest(ids) THEN "countSource" ELSE "done"

(* for start_id in range(min_id, max_id + 1, chunk_size): the next one.    *)
NextChunk ==
  /\ start' = start + ChunkSize
  /\ pc' = IF start' <= Greatest(ids) THEN "countSource" ELSE "done"

CountSource ==
  /\ Goto("countSource", "countSink")
  /\ sum' = Summary(Chunk(source))
  /\ Reads /\ UNCHANGED <<rowMin, ids, start, ids2, ghosts>>

(* Mutant: compares the counts only. *)
CountSink_NoXor ==
  /\ pc = "countSink"
  /\ IF sum.count = Summary(Chunk(sink)).count
       THEN NextChunk
       ELSE pc' = "deepSource" /\ UNCHANGED start
  /\ sum' = Empty
  /\ Reads /\ UNCHANGED <<rowMin, ids, ids2, ghosts>>

CountSink ==
  /\ pc = "countSink"
  /\ IF sum = Summary(Chunk(sink))
       THEN NextChunk
       ELSE pc' = "deepSource" /\ UNCHANGED start
  /\ sum' = Empty
  /\ Reads /\ UNCHANGED <<rowMin, ids, ids2, ghosts>>

DeepSource ==
  /\ Goto("deepSource", "deepSink")
  /\ ids2' = Chunk(source)
  /\ Reads /\ UNCHANGED <<rowMin, ids, start, sum, ghosts>>

(* Mutant: counts the chunk again until the two sides agree. *)
DeepSink_Recheck ==
  /\ pc = "deepSink"
  /\ ghosts' = Chunk(sink) \ ids2
  /\ pc' = IF ghosts' = {} THEN "countSource" ELSE "delete"
  /\ ids2' = {}
  /\ Reads /\ UNCHANGED <<rowMin, ids, start, sum>>

(* Mutant: compares the chunk with the whole sink. *)
DeepSink_AllKeys ==
  /\ pc = "deepSink"
  /\ ghosts' = sink \ ids2
  /\ IF ghosts' = {} THEN NextChunk ELSE pc' = "delete" /\ UNCHANGED start
  /\ ids2' = {}
  /\ Reads /\ UNCHANGED <<rowMin, ids, sum>>

DeepSink ==
  /\ pc = "deepSink"
  /\ ghosts' = Chunk(sink) \ ids2
  /\ IF ghosts' = {} THEN NextChunk ELSE pc' = "delete" /\ UNCHANGED start
  /\ ids2' = {}
  /\ Reads /\ UNCHANGED <<rowMin, ids, sum>>

(* DELETE .. WHERE key = ANY(ghosts), and its commit. *)
DeleteGhosts ==
  /\ pc = "delete"
  /\ sink' = sink \ ghosts
  /\ ghosts' = {}
  /\ IF numeric THEN NextChunk ELSE pc' = "done" /\ UNCHANGED start
  /\ UNCHANGED <<source, numeric, rowMin, ids, sum, ids2, blind, changes>>
  /\ Note

Sweep ==
  \/ Preflight \/ SinkMin \/ SinkMax \/ SourceMin \/ SourceMax \/ ReadTypes
  \/ ReadAllSource \/ ReadAllSink
  \/ CountSource \/ CountSink \/ DeepSource \/ DeepSink \/ DeleteGhosts

-----------------------------------------------------------------------------
(* What happens besides, while the sweep runs.                             *)
Running == pc \notin {"done", "failed"}

Happens(kind) ==
  /\ kind \in Env /\ Running
  /\ changes < MaxChanges /\ changes' = changes + 1

(* An application writes the source. *)
AppWrites(k) ==
  /\ Happens("app")
  /\ source' = IF k \in source THEN source \ {k} ELSE source \cup {k}
  /\ UNCHANGED <<sink, pc, locals, blind>>
  /\ Note

(* Another subscription brings the sink in line with the source. *)
StreamWrites(k) ==
  /\ Happens("stream")
  /\ sink' = IF k \in source THEN sink \cup {k} ELSE sink \ {k}
  /\ sink' # sink
  /\ UNCHANGED <<source, pc, locals, blind>>
  /\ Note

(* A range query fails: logged, and the sweep goes on without that range.  *)
SinkRangeFails ==
  /\ Happens("range_fails")
  /\ pc \in {"sinkMin", "sinkMax"} /\ pc' = "sourceMin"
  /\ rowMin' = {}
  /\ blind' = TRUE
  /\ UNCHANGED <<tables, numeric, ids, start, sum, ids2, ghosts, past>>

SourceRangeFails ==
  /\ Happens("range_fails")
  /\ pc \in {"sourceMin", "sourceMax"} /\ pc' = "types"
  /\ rowMin' = {}
  /\ UNCHANGED <<tables, numeric, ids, start, sum, ids2, ghosts, blind, past>>

(* Any other exception, the timeout of wait_for_source_table included, or  *)
(* the end of the process.                                                 *)
StepFails ==
  /\ Happens("step_fails")
  /\ pc' = "failed"
  /\ UNCHANGED <<tables, locals, blind, past>>

Others == \/ \E k \in Keys : AppWrites(k) \/ StreamWrites(k)
          \/ SinkRangeFails \/ SourceRangeFails \/ StepFails

Next == Sweep \/ Others

Spec == Init /\ [][Next]_vars
FairSpec == Spec /\ WF_vars(Sweep)

-----------------------------------------------------------------------------
(* Every variable keeps its type: find_and_fix_ghost_records works on keys *)
(* of the two tables, and start_id never runs away from them.              *)
TypeOK ==
  /\ source \subseteq Keys /\ sink \subseteq Keys
  /\ numeric \in BOOLEAN /\ blind \in BOOLEAN
  /\ pc \in {"preflight", "sinkMin", "sinkMax", "sourceMin", "sourceMax", "types",
             "allSource", "allSink", "countSource", "countSink", "deepSource",
             "deepSink", "delete", "done", "failed"}
  /\ rowMin \subseteq Keys /\ ids \subseteq Keys
  /\ pc \in {"countSource", "countSink", "deepSource", "deepSink"} =>
       ids # {} /\ start \in Starts
  /\ sum = Empty \/ \E S \in SUBSET Keys : sum = Summary(S)
  /\ ids2 \subseteq Keys /\ ghosts \subseteq Keys
  /\ seen \subseteq Keys /\ absent \subseteq Keys /\ missed \subseteq Keys
  /\ changes \in 0..MaxChanges

(* The sweep deletes a row of the sink only if the source was without it   *)
(* at some moment since the sweep began, whatever else wrote the tables    *)
(* and whichever range query failed (find_and_fix_ghost_records reads the  *)
(* source before the sink and deletes from what it read).                  *)
DeletesOnlyGhosts == [][Sweep => sink \ sink' \subseteq absent]_vars

(* A finished sweep that could read the sink's range has left no key that  *)
(* the sink had and the source lacked all along, unless the checksum hid   *)
(* it: each chunk over the key had two or more rows of the source that the *)
(* sink was without (count and bit_xor of find_and_fix_ghost_records).     *)
Lacking == seen \cap missed
Covering(g) == {s \in Starts : g \in s..(s + ChunkSize)}
Hidden(g) ==
  /\ numeric /\ ids # {} /\ Covering(g) # {}
  /\ \A s \in Covering(g) :
       \E j, k \in Lacking \cap s..(s + ChunkSize) : j # k
NoGhostSurvives ==
  pc = "done" /\ ~blind => \A g \in Keys \ (seen \cup missed) : Hidden(g)

(* Every sweep ends: drift that no deletion can mend, rows the sink lacks, *)
(* is looked at once per chunk and never again (find_and_fix_ghost_records *)
(* goes on to the next chunk whatever it found).                           *)
SweepEnds == <>(pc \in {"done", "failed"})
=============================================================================
