-------------------------- MODULE GhostSweepProofs --------------------------
(***************************************************************************)
(* The safety properties of GhostSweep, for every set of keys, width,      *)
(* chunk size, bound and surroundings.                                     *)
(*                                                                         *)
(*   TypeInv    types; a sweep by chunks has a range and stands on one of  *)
(*              its chunks                                                 *)
(*   DeleteInv  what is absent from the keys read from the source was      *)
(*              absent from the source                                     *)
(*   FindInv    keys that are ghosts throughout lie within the range, and  *)
(*              in the chunks behind start_id only if the checksum could   *)
(*              not tell                                                   *)
(*                                                                         *)
(* The heart of the last one is ChecksumFindsGhost: a ghost in a chunk     *)
(* whose count and bit_xor agree is balanced by two missing rows at least, *)
(* for with a single one the two keys would differ in some bit.            *)
(*                                                                         *)
(* Last comes a measure of the sweep, raised round by round and lowered    *)
(* chunk by chunk.                                                         *)
(***************************************************************************)
EXTENDS GhostSweep, FiniteSetTheorems, WellFoundedInduction, TLAPS

-----------------------------------------------------------------------------
(* Least and greatest keys.                                                *)

LEMMA LeastNat ==
  ASSUME NEW S \in SUBSET Nat, S # {}
  PROVE  \E k \in S : \A j \in S : k <= j
<1>1. PICK k \in S : \A j \in S : ~ (<<j, k>> \in OpToRel(<, Nat))
  BY NatLessThanWellFounded, WFMin
<1>2. ASSUME NEW j \in S PROVE k <= j
  <2>1. <<j, k>> \in Nat \X Nat
    OBVIOUS
  <2>2. ~ (j < k)
    BY <1>1, <2>1 DEF OpToRel
  <2>. QED  BY <2>2
<1>. QED  BY <1>2

(* A smallest set of keys without both ends would lack them with one key   *)
(* less, too.                                                              *)
HasEnds(S) == /\ \E k \in S : \A j \in S : k <= j
              /\ \E k \in S : \A j \in S : j <= k

LEMMA EndsExist ==
  ASSUME NEW S \in SUBSET Keys, S # {}
  PROVE  HasEnds(S)
<1>. DEFINE Endless == {T \in SUBSET Keys : T # {} /\ ~ HasEnds(T)}
            Sizes == {Cardinality(T) : T \in Endless}
<1>1. \A T \in SUBSET Keys : IsFiniteSet(T) /\ Cardinality(T) \in Nat
  BY KeysAssumption, FS_Subset, FS_CardinalityType
<1>2. SUFFICES ASSUME Endless # {} PROVE FALSE
  OBVIOUS
<1>3. Sizes \in SUBSET Nat /\ Sizes # {}
  BY <1>1, <1>2
<1>4. PICK n \in Sizes : \A j \in Sizes : n <= j
  BY <1>3, LeastNat
<1>5. PICK T \in Endless : Cardinality(T) = n
  OBVIOUS
<1>6. PICK x \in T : TRUE
  OBVIOUS
<1>. DEFINE U == T \ {x}
<1>7. Cardinality(U) = n - 1 /\ n \in Nat
  BY <1>1, <1>3, <1>5, FS_RemoveElement
<1>8. U \notin Endless
  <2>1. U \in Endless => n - 1 \in Sizes
    BY <1>7
  <2>. QED  BY <1>4, <1>7, <2>1
<1>9. T \subseteq Int /\ T = U \cup {x} /\ ~ HasEnds(T)
  BY KeysAssumption
<1>10. CASE U = {}
  BY <1>9, <1>10 DEF HasEnds
<1>11. CASE U # {}
  <2>1. HasEnds(U)
    BY <1>8, <1>11
  <2>2. PICK k \in U : \A j \in U : k <= j
    BY <2>1 DEF HasEnds
  <2>3. PICK m \in U : \A j \in U : j <= m
    BY <2>1 DEF HasEnds
  <2>4. \E l \in T : \A j \in T : l <= j
    <3>1. CASE x <= k
      BY <1>9, <2>2, <3>1
    <3>2. CASE ~ (x <= k)
      BY <1>9, <2>2, <3>2
    <3>. QED  BY <3>1, <3>2
  <2>5. \E l \in T : \A j \in T : j <= l
    <3>1. CASE m <= x
      BY <1>9, <2>3, <3>1
    <3>2. CASE ~ (m <= x)
      BY <1>9, <2>3, <3>2
    <3>. QED  BY <3>1, <3>2
  <2>. QED  BY <1>9, <2>4, <2>5 DEF HasEnds
<1>. QED  BY <1>10, <1>11

LEMMA EndsAreKeys ==
  ASSUME NEW S \in SUBSET Keys, S # {}
  PROVE  /\ Least(S) \in S /\ \A k \in S : Least(S) <= k
         /\ Greatest(S) \in S /\ \A k \in S : k <= Greatest(S)
         /\ Least(S) \in Int /\ Greatest(S) \in Int
<1>1. Least(S) \in S /\ \A k \in S : Least(S) <= k
  BY EndsExist DEF HasEnds, Least
<1>2. Greatest(S) \in S /\ \A k \in S : k <= Greatest(S)
  BY EndsExist DEF HasEnds, Greatest
<1>. QED  BY <1>1, <1>2, KeysAssumption

-----------------------------------------------------------------------------
(* Chunks.                                                                 *)

LEMMA MultipleHasNoRest ==
  ASSUME NEW c \in Nat \ {0}, NEW a \in Int, NEW q \in Int, a = c * q
  PROVE  a % c = 0
OBVIOUS

LEMMA NextMultiple ==
  ASSUME NEW c \in Nat \ {0}, NEW a \in Int, a % c = 0
  PROVE  (a + c) % c = 0
<1>. DEFINE q == (a \div c) + 1
<1>1. q \in Int /\ a + c \in Int /\ a + c = c * q
  <2>1. a = c * (a \div c) /\ a \div c \in Int
    OBVIOUS
  <2>. QED  BY <2>1
<1>. HIDE DEF q
<1>. QED  BY <1>1, MultipleHasNoRest

LEMMA NoMultipleBetween ==
  ASSUME NEW c \in Nat \ {0}, NEW a \in Int, NEW b \in Int,
         a % c = 0, b % c = 0, b < a + c
  PROVE  b <= a
<1>. DEFINE p == a \div c
            q == b \div c
<1>1. a = c * p /\ b = c * q /\ p \in Int /\ q \in Int
  OBVIOUS
<1>2. c * (p + 1) = c * p + c
  BY <1>1
<1>3. CASE p < q
  <2>1. c * p + c <= c * q
    <3>. HIDE DEF p, q
    <3>. QED  BY <1>1, <1>3
  <2>. QED  BY <1>1, <2>1
<1>4. CASE q <= p
  <2>1. c * q <= c * p
    <3>. HIDE DEF p, q
    <3>. QED  BY <1>1, <1>4
  <2>. QED  BY <1>1, <2>1
<1>. QED  BY <1>1, <1>3, <1>4

(* The chunks begin at the least key, each is followed by the next, and    *)
(* there is none in between.                                               *)
LEMMA ChunkFacts ==
  ASSUME ids \subseteq Keys, ids # {}
  PROVE  /\ Starts \subseteq Int
         /\ \A s \in Starts : s <= Greatest(ids)
         /\ Least(ids) \in Starts /\ \A s \in Starts : Least(ids) <= s
         /\ \A s \in Starts : s + ChunkSize <= Greatest(ids) => s + ChunkSize \in Starts
         /\ \A s, t \in Starts : t < s + ChunkSize => t <= s
<1>1. /\ Least(ids) \in Int /\ Greatest(ids) \in Int /\ Least(ids) <= Greatest(ids)
  BY EndsAreKeys
<1>2. /\ \A s \in Starts : /\ s \in Int /\ Least(ids) <= s /\ s <= Greatest(ids)
                           /\ (s - Least(ids)) % ChunkSize = 0
      /\ \A s \in Int : Least(ids) <= s /\ s <= Greatest(ids)
                        /\ (s - Least(ids)) % ChunkSize = 0 => s \in Starts
  BY <1>1 DEF Starts
<1>3. (Least(ids) - Least(ids)) % ChunkSize = 0
  BY <1>1, ChunkAssumption
<1>4. ASSUME NEW s \in Starts, s + ChunkSize <= Greatest(ids)
      PROVE  s + ChunkSize \in Starts
  <2>1. ((s - Least(ids)) + ChunkSize) % ChunkSize = 0
    BY <1>1, <1>2, NextMultiple, ChunkAssumption
  <2>2. (s - Least(ids)) + ChunkSize = (s + ChunkSize) - Least(ids)
    BY <1>1, <1>2, ChunkAssumption
  <2>. QED  BY <1>1, <1>2, <1>4, <2>1, <2>2, ChunkAssumption
<1>5. ASSUME NEW s \in Starts, NEW t \in Starts, t < s + ChunkSize
      PROVE  t <= s
  <2>1. t - Least(ids) < (s - Least(ids)) + ChunkSize
    BY <1>1, <1>2, <1>5, ChunkAssumption
  <2>2. t - Least(ids) <= s - Least(ids)
    <3>. DEFINE a == s - Least(ids)
                b == t - Least(ids)
    <3>1. /\ a \in Int /\ a % ChunkSize = 0
          /\ b \in Int /\ b % ChunkSize = 0
          /\ b < a + ChunkSize /\ ChunkSize \in Nat \ {0}
      BY <1>1, <1>2, <2>1, ChunkAssumption
    <3>. HIDE DEF a, b
    <3>2. b <= a
      BY <3>1, NoMultipleBetween
    <3>. QED  BY <3>2 DEF a, b
  <2>. QED  BY <1>1, <1>2, <2>2
<1>. QED  BY <1>1, <1>2, <1>3, <1>4, <1>5

-----------------------------------------------------------------------------
(* The checksum.                                                           *)

LEMMA SummaryMeans ==
  ASSUME NEW S, NEW T, Summary(S) = Summary(T)
  PROVE  /\ Cardinality(S) = Cardinality(T)
         /\ \A b \in Bits : Cardinality(Ones(S, b)) % 2 = Cardinality(Ones(T, b)) % 2
<1>1. Cardinality(S) = Cardinality(T) /\ BitXor(S) = BitXor(T)
  BY DEF Summary
<1>2. \A b \in Bits : /\ BitXor(S)[b] = Cardinality(Ones(S, b)) % 2
                      /\ BitXor(T)[b] = Cardinality(Ones(T, b)) % 2
  BY DEF BitXor
<1>. QED  BY <1>1, <1>2

(* Two sets that differ in one key each differ in the parity of a bit.     *)
LEMMA OneKeyShows ==
  ASSUME NEW C \in SUBSET Keys, NEW g \in Keys \ C, NEW k \in Keys \ C,
         NEW b \in Bits, Bit(g, b), ~ Bit(k, b)
  PROVE  Cardinality(Ones(C \cup {g}, b)) % 2 # Cardinality(Ones(C \cup {k}, b)) % 2
<1>. DEFINE D == Ones(C, b)
<1>1. D \in SUBSET Keys /\ g \notin D
  BY DEF Ones
<1>2. IsFiniteSet(D) /\ Cardinality(D) \in Nat
  BY <1>1, KeysAssumption, FS_Subset, FS_CardinalityType
<1>3. Ones(C \cup {g}, b) = D \cup {g}
  BY DEF Ones
<1>4. Ones(C \cup {k}, b) = D
  BY DEF Ones
<1>5. Cardinality(D \cup {g}) = Cardinality(D) + 1
  BY <1>1, <1>2, FS_AddElement
<1>6. \A n \in Nat : (n + 1) % 2 # n % 2
  OBVIOUS
<1>. QED  BY <1>2, <1>3, <1>4, <1>5, <1>6

LEMMA ChecksumFindsGhost ==
  ASSUME NEW S \in SUBSET Keys, NEW T \in SUBSET Keys, Summary(S) = Summary(T),
         NEW g \in T \ S
  PROVE  \E j, k \in S \ T : j # k
<1>. DEFINE C == S \cap T
<1>1. SUFFICES ASSUME \A j, k \in S \ T : j = k PROVE FALSE
  OBVIOUS
<1>2. /\ \A U \in SUBSET Keys : IsFiniteSet(U) /\ Cardinality(U) \in Nat
  BY KeysAssumption, FS_Subset, FS_CardinalityType
<1>3. Cardinality(C \cup {g}) = Cardinality(C) + 1 /\ Cardinality(C) \in Nat
  BY <1>2, FS_AddElement
<1>4. Cardinality(C \cup {g}) <= Cardinality(T)
  BY <1>2, FS_Subset
<1>5. Cardinality(S) = Cardinality(T)
  BY SummaryMeans
<1>6. S # C
  BY <1>2, <1>3, <1>4, <1>5
<1>7. PICK k \in S \ T : S = C \cup {k}
  BY <1>1, <1>6
<1>8. Cardinality(S) = Cardinality(C) + 1
  BY <1>2, <1>7, FS_AddElement
<1>9. T = C \cup {g}
  <2>1. Cardinality(T) = Cardinality(C \cup {g}) /\ IsFiniteSet(T)
    BY <1>2, <1>3, <1>5, <1>8
  <2>2. C \cup {g} \in SUBSET T
    OBVIOUS
  <2>. QED  BY <2>1, <2>2, FS_Subset
<1>10. g \in Keys \ C /\ k \in Keys \ C /\ C \in SUBSET Keys /\ g # k
  BY <1>7
<1>11. PICK b \in Bits : Bit(g, b) # Bit(k, b)
  BY <1>10, WidthAssumption
<1>12. Cardinality(Ones(S, b)) % 2 # Cardinality(Ones(T, b)) % 2
  <2>1. CASE Bit(g, b) /\ ~ Bit(k, b)
    BY <1>7, <1>9, <1>10, <2>1, OneKeyShows
  <2>2. CASE Bit(k, b) /\ ~ Bit(g, b)
    BY <1>7, <1>9, <1>10, <2>2, OneKeyShows
  <2>3. Bit(g, b) \in BOOLEAN /\ Bit(k, b) \in BOOLEAN
    BY DEF Bit
  <2>. QED  BY <1>11, <2>1, <2>2, <2>3
<1>. QED  BY <1>12, SummaryMeans

-----------------------------------------------------------------------------
(* Types.                                                                  *)

(* A sweep by chunks stands on a chunk.                                    *)
ChunkSteps == {"countSource", "countSink", "deepSource", "deepSink"}
InChunk == pc \in ChunkSteps \/ (pc = "delete" /\ numeric)

PlaceOK ==
  /\ InChunk => numeric /\ ids # {} /\ start \in Starts
  /\ pc \in {"allSource", "allSink"} => ~ numeric

States == {"preflight", "sinkMin", "sinkMax", "sourceMin", "sourceMax", "types",
           "allSource", "allSink", "countSource", "countSink", "deepSource",
           "deepSink", "delete", "done", "failed"}
TypesOfTables ==
  /\ source \subseteq Keys /\ sink \subseteq Keys
  /\ seen \subseteq Keys /\ absent \subseteq Keys /\ missed \subseteq Keys
  /\ blind \in BOOLEAN /\ changes \in 0..MaxChanges
TypesOfLocals ==
  /\ numeric \in BOOLEAN /\ pc \in States
  /\ rowMin \subseteq Keys /\ ids \subseteq Keys
  /\ sum = Empty \/ \E S \in SUBSET Keys : sum = Summary(S)
  /\ ids2 \subseteq Keys /\ ghosts \subseteq Keys

TypeInv == TypesOfTables /\ TypesOfLocals /\ PlaceOK

LEMMA TypesSuffice == TypeInv => TypeOK
BY DEF TypeInv, TypeOK, TypesOfTables, TypesOfLocals, States, PlaceOK, InChunk, ChunkSteps

LEMMA InitTypes ==
  ASSUME Init
  PROVE  TypeInv
<1>1. TypesOfTables
  <2>1. 0 \in 0 .. MaxChanges
    BY BoundAssumption
  <2>. QED  BY <2>1 DEF Init, TypesOfTables
<1>2. TypesOfLocals /\ PlaceOK
  BY DEF Init, TypesOfLocals, PlaceOK, InChunk, ChunkSteps, States
<1>. QED  BY <1>1, <1>2 DEF TypeInv

(* NextChunk goes to a chunk of the range, or ends the sweep.              *)
LEMMA NextChunkStands ==
  ASSUME TypeInv, InChunk, NextChunk, UNCHANGED <<numeric, ids>>
  PROVE  PlaceOK' /\ pc' \in States
<1>1. ids \subseteq Keys /\ ids # {} /\ start \in Starts /\ numeric
  BY DEF TypeInv, TypesOfLocals, PlaceOK
<1>2. Starts' = Starts
  BY DEF Starts
<1>3. CASE start + ChunkSize <= Greatest(ids)
  <2>1. pc' = "countSource" /\ start' = start + ChunkSize
    BY <1>3 DEF NextChunk
  <2>2. start' \in Starts'
    BY <1>1, <1>2, <1>3, <2>1, ChunkFacts
  <2>. QED  BY <1>1, <2>1, <2>2 DEF PlaceOK, States
<1>4. CASE ~ (start + ChunkSize <= Greatest(ids))
  BY <1>4 DEF NextChunk, PlaceOK, InChunk, ChunkSteps, States
<1>. QED  BY <1>3, <1>4

LEMMA RangeKeepsTypes ==
  ASSUME TypeInv, SinkMin \/ SinkMax \/ SourceMin \/ SourceMax \/ ReadTypes
  PROVE  TypeInv'
<1>. USE DEF TypeInv
<1>1. TypesOfTables'
  BY DEF SinkMin, SinkMax, SourceMin, SourceMax, ReadTypes, ReadMin, ReadMax, Reads, tables,
         past, TypesOfTables
<1>2. ASSUME NEW S \in SUBSET Keys
      PROVE  End(S, Least(S)) \subseteq Keys /\ End(S, Greatest(S)) \subseteq Keys
  BY EndsAreKeys DEF End
<1>3. CASE SinkMin \/ SinkMax \/ SourceMin \/ SourceMax
  <2>1. /\ numeric' \in BOOLEAN /\ pc' \in {"sinkMax", "sourceMin", "sourceMax", "types"}
        /\ UNCHANGED <<sum, ids2, ghosts>>
    BY <1>3 DEF SinkMin, SinkMax, SourceMin, SourceMax, ReadMin, ReadMax, Reads, Goto,
                TypesOfLocals
  <2>2. rowMin' \subseteq Keys /\ ids' \subseteq Keys
    BY <1>2, <1>3 DEF SinkMin, SinkMax, SourceMin, SourceMax, ReadMin, ReadMax,
                      TypesOfTables, TypesOfLocals
  <2>3. TypesOfLocals'
    BY <2>1, <2>2 DEF TypesOfLocals, States, Empty, Summary, BitXor
  <2>4. PlaceOK'
    BY <2>1 DEF PlaceOK, InChunk, ChunkSteps
  <2>. QED  BY <1>1, <2>3, <2>4
<1>4. CASE ReadTypes
  <2>1. /\ UNCHANGED <<numeric, rowMin, ids, sum, ids2, ghosts>>
        /\ pc' \in {"done", "countSource", "allSource"}
        /\ pc' = "countSource" => numeric /\ ids # {} /\ start' = Least(ids)
        /\ pc' = "allSource" => ~ numeric
    <3>1. UNCHANGED <<numeric, rowMin, ids, sum, ids2, ghosts>>
      BY <1>4 DEF ReadTypes, Reads
    <3>2. CASE ids = {}
      BY <1>4, <3>1, <3>2 DEF ReadTypes
    <3>3. CASE ids # {} /\ numeric
      BY <1>4, <3>1, <3>3 DEF ReadTypes
    <3>4. CASE ids # {} /\ ~ numeric
      BY <1>4, <3>1, <3>4 DEF ReadTypes
    <3>. QED  BY <3>2, <3>3, <3>4
  <2>2. TypesOfLocals'
    BY <2>1 DEF TypesOfLocals, States, Empty, Summary, BitXor
  <2>3. Starts' = Starts /\ (ids # {} => Least(ids) \in Starts)
    BY <2>1, ChunkFacts DEF Starts, TypesOfLocals
  <2>4. PlaceOK'
    BY <2>1, <2>3 DEF PlaceOK, InChunk, ChunkSteps
  <2>. QED  BY <1>1, <2>2, <2>4
<1>. QED  BY <1>3, <1>4

LEMMA CompareKeepsTypes ==
  ASSUME TypeInv,
         \/ ReadAllSource \/ ReadAllSink
         \/ CountSource \/ CountSink \/ DeepSource \/ DeepSink
  PROVE  TypeInv'
<1>. USE DEF TypeInv
<1>1. TypesOfTables' /\ UNCHANGED <<numeric, ids>>
  BY DEF ReadAllSource, ReadAllSink, CountSource, CountSink, DeepSource, DeepSink,
         Reads, tables, past, TypesOfTables
<1>2. Starts' = Starts
  BY <1>1 DEF Starts
<1>3. \A S \in SUBSET Keys : Chunk(S) \in SUBSET Keys
  BY DEF Chunk
<1>4. Empty' = Empty /\ \A S \in SUBSET Keys : Summary(S)' = Summary(S)
  BY DEF Empty, Summary, BitXor, Ones, Bit
<1>5. rowMin' \subseteq Keys /\ ids' \subseteq Keys /\ ids2' \subseteq Keys /\ ghosts' \subseteq Keys
  BY <1>3 DEF ReadAllSource, ReadAllSink, CountSource, CountSink, DeepSource, DeepSink,
              Reads, TypesOfTables, TypesOfLocals
<1>6. sum' = Empty \/ \E S \in SUBSET Keys : sum' = Summary(S)
  BY <1>3 DEF ReadAllSource, ReadAllSink, CountSource, CountSink, DeepSource, DeepSink,
              TypesOfTables, TypesOfLocals
<1>7. PlaceOK' /\ pc' \in States
  <2>1. CASE ReadAllSource \/ ReadAllSink
    BY <1>1, <2>1 DEF ReadAllSource, ReadAllSink, Goto, PlaceOK, InChunk, ChunkSteps, States
  <2>2. CASE CountSource \/ DeepSource
    BY <1>1, <1>2, <2>2 DEF CountSource, DeepSource, Goto, PlaceOK, InChunk, ChunkSteps, States
  <2>3. CASE CountSink \/ DeepSink
    <3>1. InChunk
      BY <2>3 DEF CountSink, DeepSink, InChunk, ChunkSteps
    <3>2. CASE NextChunk
      BY <1>1, <3>1, <3>2, NextChunkStands
    <3>3. CASE pc' \in {"deepSource", "delete"} /\ UNCHANGED start
      BY <1>1, <1>2, <3>1, <3>3 DEF PlaceOK, InChunk, ChunkSteps, States
    <3>. QED  BY <2>3, <3>2, <3>3 DEF CountSink, DeepSink
  <2>. QED  BY <2>1, <2>2, <2>3
<1>8. TypesOfLocals'
  BY <1>1, <1>4, <1>5, <1>6, <1>7 DEF TypesOfLocals
<1>. QED  BY <1>1, <1>7, <1>8

LEMMA DeleteKeepsTypes ==
  ASSUME TypeInv, DeleteGhosts
  PROVE  TypeInv'
<1>. USE DEF TypeInv
<1>1. TypesOfTables'
  BY DEF DeleteGhosts, Note, TypesOfTables, TypesOfLocals
<1>2. UNCHANGED <<numeric, rowMin, ids, sum, ids2>> /\ ghosts' \subseteq Keys
  BY DEF DeleteGhosts
<1>3. PlaceOK' /\ pc' \in States
  <2>1. CASE numeric
    <3>1. InChunk /\ NextChunk
      BY <2>1 DEF DeleteGhosts, InChunk
    <3>. QED  BY <1>2, <3>1, NextChunkStands
  <2>2. CASE ~ numeric
    BY <1>2, <2>2 DEF DeleteGhosts, PlaceOK, InChunk, ChunkSteps, States
  <2>. QED  BY <2>1, <2>2
<1>4. TypesOfLocals'
  BY <1>2, <1>3 DEF TypesOfLocals, Empty, Summary, BitXor
<1>. QED  BY <1>1, <1>3, <1>4

LEMMA OthersKeepTypes ==
  ASSUME TypeInv, Others
  PROVE  TypeInv'
<1>. USE DEF TypeInv
<1>1. changes' \in 0..MaxChanges
  BY BoundAssumption DEF Others, AppWrites, StreamWrites, SinkRangeFails, SourceRangeFails,
     StepFails, Happens, TypesOfTables
<1>2. TypesOfTables'
  BY <1>1 DEF Others, AppWrites, StreamWrites, SinkRangeFails, SourceRangeFails, StepFails,
              Note, tables, past, TypesOfTables
<1>3. /\ UNCHANGED <<numeric, ids, start, sum, ids2, ghosts>>
      /\ rowMin' \subseteq Keys
      /\ pc' \in {pc, "sourceMin", "types", "failed"}
  BY DEF Others, AppWrites, StreamWrites, SinkRangeFails, SourceRangeFails, StepFails,
         locals, TypesOfLocals
<1>4. TypesOfLocals' /\ PlaceOK'
  BY <1>3 DEF TypesOfLocals, PlaceOK, InChunk, ChunkSteps, States, Starts, Empty, Summary,
              BitXor
<1>. QED  BY <1>2, <1>4

LEMMA StepKeepsTypes ==
  ASSUME TypeInv, [Next]_vars
  PROVE  TypeInv'
<1>1. CASE UNCHANGED vars
  BY <1>1 DEF vars, tables, past, locals, TypeInv, TypesOfTables,
              TypesOfLocals, PlaceOK, InChunk, Starts, Empty,
              Summary, BitXor
<1>2. CASE Preflight
  BY <1>2 DEF TypeInv, Preflight, Reads, Goto, tables, past, TypesOfTables, TypesOfLocals,
     PlaceOK, InChunk, ChunkSteps, States, Empty, Summary, BitXor
<1>. QED  BY <1>1, <1>2, RangeKeepsTypes, CompareKeepsTypes, DeleteKeepsTypes,
             OthersKeepTypes DEF Next, Sweep

-----------------------------------------------------------------------------
(* What the tables held, and what may be deleted.                          *)

PastInv ==
  /\ source \subseteq seen
  /\ Keys \ source \subseteq absent
  /\ Keys \ sink \subseteq missed

PastGrows == seen \subseteq seen' /\ absent \subseteq absent' /\ missed \subseteq missed'

LEMMA InitPast ==
  ASSUME Init
  PROVE  PastInv
BY DEF Init, PastInv

LEMMA StepKeepsPast ==
  ASSUME PastInv, [Next]_vars
  PROVE  PastInv' /\ PastGrows
<1>1. CASE UNCHANGED <<tables, past>>
  BY <1>1 DEF tables, past, PastInv, PastGrows
<1>2. CASE Note
  BY <1>2 DEF Note, PastInv, PastGrows
<1>3. UNCHANGED <<tables, past>> \/ Note
  BY DEF Next, Sweep, Others, Preflight, SinkMin, SinkMax, SourceMin, SourceMax, ReadMin,
         ReadMax, ReadTypes, ReadAllSource, ReadAllSink, CountSource, CountSink, DeepSource,
         DeepSink, DeleteGhosts, Reads, AppWrites, StreamWrites, SinkRangeFails,
         SourceRangeFails, StepFails, vars
<1>. QED  BY <1>1, <1>2, <1>3

DeleteInv ==
  /\ ghosts \subseteq absent
  /\ pc = "allSink" => Keys \ ids2 \subseteq absent
  /\ pc = "deepSink" => Chunk(Keys) \ ids2 \subseteq absent

LEMMA InitDelete ==
  ASSUME Init
  PROVE  DeleteInv
BY DEF Init, DeleteInv

LEMMA StepKeepsDelete ==
  ASSUME TypeInv, PastInv, DeleteInv, [Next]_vars
  PROVE  DeleteInv'
<1>1. PastGrows
  BY StepKeepsPast
<1>2. sink \subseteq Keys
  BY DEF TypeInv, TypesOfTables
<1>3. CASE UNCHANGED <<ghosts, ids2>> /\ pc' \notin {"allSink", "deepSink"}
  BY <1>1, <1>3 DEF DeleteInv, PastGrows
<1>4. CASE UNCHANGED <<pc, ghosts, ids2, start>>
  BY <1>1, <1>4 DEF DeleteInv, PastGrows, Chunk
<1>5. CASE ReadAllSource
  BY <1>1, <1>5 DEF ReadAllSource, Goto, Reads, DeleteInv, PastInv, PastGrows
<1>6. CASE ReadAllSink
  BY <1>1, <1>2, <1>6 DEF ReadAllSink, DeleteInv, PastGrows
<1>7. CASE DeepSource
  BY <1>1, <1>7 DEF DeepSource, Goto, Reads, DeleteInv, PastInv, PastGrows, Chunk
<1>8. CASE DeepSink
  BY <1>1, <1>2, <1>8 DEF DeepSink, NextChunk, DeleteInv, PastGrows, Chunk
<1>9. CASE DeleteGhosts
  BY <1>1, <1>9 DEF DeleteGhosts, NextChunk, DeleteInv, PastGrows
<1>10. CASE Preflight \/ SinkMin \/ SinkMax \/ SourceMin \/ SourceMax \/ ReadTypes
            \/ CountSource \/ CountSink
  <2>1. UNCHANGED <<ghosts, ids2>> /\ pc' \notin {"allSink", "deepSink"}
    BY <1>10 DEF Preflight, SinkMin, SinkMax, SourceMin, SourceMax, ReadMin, ReadMax,
                 ReadTypes, CountSource, CountSink, NextChunk, Goto
  <2>. QED  BY <1>3, <2>1
<1>11. CASE Others \/ UNCHANGED vars
  <2>1. \/ UNCHANGED <<ghosts, ids2>> /\ pc' \notin {"allSink", "deepSink"}
        \/ UNCHANGED <<pc, ghosts, ids2, start>>
    BY <1>11 DEF Others, AppWrites, StreamWrites, SinkRangeFails, SourceRangeFails,
                 StepFails, locals, vars
  <2>. QED  BY <1>3, <1>4, <2>1
<1>. QED  BY <1>5, <1>6, <1>7, <1>8, <1>9, <1>10, <1>11 DEF Next, Sweep

-----------------------------------------------------------------------------
(* Ghosts are found.                                                       *)

(* Keys that have been ghosts throughout. *)
Lasting == Keys \ (seen \cup missed)
TwoLacking(s) == \E j, k \in Lacking \cap s..(s + ChunkSize) : j # k

BehindFound ==
  InChunk => \A g \in Lasting : \A s \in Starts :
               s < start /\ g \in s..(s + ChunkSize) => TwoLacking(s)

RangeRead ==
  /\ ~ blind /\ pc = "sinkMax" => \A g \in Lasting : \E m \in rowMin : m <= g
  /\ ~ blind /\ pc \notin {"preflight", "sinkMin", "sinkMax", "failed"} =>
       \A g \in Lasting : \E m, n \in ids : m <= g /\ g <= n

ChunkRead ==
  /\ ids2 \subseteq seen
  /\ pc = "countSink" => \E S \in SUBSET (seen \cap Keys) : sum = Summary(Chunk(S))
  /\ pc = "delete" => \A g \in Lasting : numeric /\ g \in Chunk(Keys) => g \in ghosts
  /\ pc = "delete" /\ ~ numeric => Lasting \subseteq ghosts

FindInv == BehindFound /\ RangeRead /\ ChunkRead /\ NoGhostSurvives

LEMMA LastingFacts ==
  ASSUME TypeInv, PastInv
  PROVE  /\ Lasting \subseteq sink /\ Lasting \subseteq Keys
         /\ Lasting \cap source = {} /\ Lasting \cap seen = {}
         /\ Lasting \subseteq Int /\ sink \subseteq Int
BY KeysAssumption DEF TypeInv, TypesOfTables, PastInv, Lasting

LEMMA LastingShrinks ==
  ASSUME PastGrows
  PROVE  /\ Lasting' \subseteq Lasting
         /\ \A s : TwoLacking(s) => \E j, k \in Lacking' \cap s..(s + ChunkSize) : j # k
BY DEF PastGrows, Lasting, Lacking, TwoLacking

(* A key within the range is in some chunk. *)
LEMMA RangeIsCovered ==
  ASSUME ids \subseteq Keys, NEW g \in Keys, NEW m \in ids, NEW n \in ids, m <= g, g <= n
  PROVE  Covering(g) # {}
<1>1. /\ Least(ids) \in Int /\ Greatest(ids) \in Int /\ g \in Int
      /\ Least(ids) <= g /\ g <= Greatest(ids)
  <2>1. ids # {} /\ m \in Int /\ n \in Int /\ g \in Int
    BY KeysAssumption
  <2>2. Least(ids) <= m /\ n <= Greatest(ids) /\ Least(ids) \in Int /\ Greatest(ids) \in Int
    BY <2>1, EndsAreKeys
  <2>. QED  BY <2>1, <2>2
<1>. DEFINE d == g - Least(ids)
            q == d \div ChunkSize
            s == Least(ids) + ChunkSize * q
<1>2. ChunkSize \in Nat \ {0} /\ d \in Nat
  BY <1>1, ChunkAssumption
<1>3. q \in Nat /\ ChunkSize * q <= d /\ d < ChunkSize * q + ChunkSize /\ ChunkSize * q \in Nat
  <2>. HIDE DEF d
  <2>1. q \in Nat /\ d = ChunkSize * q + (d % ChunkSize) /\ d % ChunkSize \in 0 .. (ChunkSize - 1)
    BY <1>2
  <2>2. ChunkSize * q \in Nat
    <3>. HIDE DEF q
    <3>. QED  BY <1>2, <2>1
  <2>. HIDE DEF q
  <2>. QED  BY <1>2, <2>1, <2>2
<1>4. (ChunkSize * q) % ChunkSize = 0
  <2>. HIDE DEF q
  <2>. QED  BY <1>2, <1>3, MultipleHasNoRest
<1>. HIDE DEF q
<1>5. s - Least(ids) = ChunkSize * q /\ s \in Least(ids) .. Greatest(ids)
  BY <1>1, <1>2, <1>3
<1>6. s \in Starts
  BY <1>4, <1>5 DEF Starts
<1>7. g \in s..(s + ChunkSize)
  BY <1>1, <1>2, <1>3, <1>5
<1>. QED  BY <1>6, <1>7 DEF Covering

(* Going on to the next chunk, or past the last one, when the one just     *)
(* left hides no ghost that the checksum could have told.                  *)
LEMMA NextChunkFinds ==
  ASSUME TypeInv, FindInv, PastGrows, InChunk, NextChunk, UNCHANGED <<numeric, ids, blind>>,
         \A g \in Lasting' : g \in start..(start + ChunkSize) => TwoLacking(start)
  PROVE  BehindFound' /\ NoGhostSurvives'
<1>1. /\ ids \subseteq Keys /\ ids # {} /\ start \in Starts /\ numeric
      /\ Starts' = Starts
  BY DEF TypeInv, TypesOfLocals, PlaceOK, Starts
<1>2. /\ start' = start + ChunkSize
      /\ pc' \in {"countSource", "done"}
      /\ pc' = "done" => ~ (start + ChunkSize <= Greatest(ids))
  <2>1. start' = start + ChunkSize
    BY DEF NextChunk
  <2>2. CASE start' <= Greatest(ids)
    BY <2>1, <2>2 DEF NextChunk
  <2>3. CASE ~ (start' <= Greatest(ids))
    BY <2>1, <2>3 DEF NextChunk
  <2>. QED  BY <2>1, <2>2, <2>3
<1>3. ASSUME NEW g \in Lasting', NEW s \in Starts, s < start + ChunkSize,
             g \in s..(s + ChunkSize)
      PROVE  \E j, k \in Lacking' \cap s..(s + ChunkSize) : j # k
  <2>1. s <= start /\ s \in Int /\ start \in Int
    BY <1>1, <1>3, ChunkFacts
  <2>2. g \in Lasting
    BY LastingShrinks
  <2>3. CASE s = start
    BY <1>3, <2>3, LastingShrinks
  <2>4. CASE s < start
    BY <1>3, <2>2, <2>4, LastingShrinks DEF FindInv, BehindFound
  <2>. QED  BY <2>1, <2>3, <2>4
<1>4. BehindFound'
  BY <1>1, <1>2, <1>3 DEF BehindFound, TwoLacking
<1>5. NoGhostSurvives'
  <2>. SUFFICES ASSUME pc' = "done", ~ blind, NEW g \in Lasting'
                PROVE  Hidden(g)'
    BY DEF NoGhostSurvives, Lasting
  <2>1. Covering(g) # {} /\ Covering(g)' = Covering(g)
    <3>1. pc \notin {"preflight", "sinkMin", "sinkMax", "failed"} /\ g \in Lasting /\ g \in Keys
      BY LastingShrinks DEF InChunk, ChunkSteps, Lasting
    <3>2. PICK m \in ids, n \in ids : m <= g /\ g <= n
      BY <3>1 DEF FindInv, RangeRead
    <3>3. Covering(g) # {}
      BY <1>1, <3>1, <3>2, RangeIsCovered
    <3>. QED  BY <1>1, <3>3 DEF Covering
  <2>2. \A s \in Starts : s < start + ChunkSize
    <3>. SUFFICES ASSUME NEW s \in Starts PROVE s < start + ChunkSize
      OBVIOUS
    <3>1. s <= Greatest(ids) /\ s \in Int /\ start \in Int
      BY <1>1, ChunkFacts
    <3>. QED  BY <1>1, <1>2, <3>1, EndsAreKeys, ChunkAssumption
  <2>3. \A s \in Covering(g) : \E j, k \in Lacking' \cap s..(s + ChunkSize) : j # k
    BY <1>3, <2>2 DEF Covering
  <2>. QED  BY <1>1, <2>1, <2>3 DEF Hidden
<1>. QED  BY <1>4, <1>5

(* The steps that go nowhere in the sweep.                                 *)
LEMMA WritesKeepFind ==
  ASSUME FindInv, PastGrows, UNCHANGED <<pc, locals, blind>>
  PROVE  FindInv'
<1>1. Lasting' \subseteq Lasting /\ Starts' = Starts /\ (InChunk' <=> InChunk)
  BY LastingShrinks DEF locals, Starts, InChunk
<1>2. BehindFound'
  BY <1>1, LastingShrinks DEF FindInv, BehindFound, TwoLacking, locals
<1>3. RangeRead'
  BY <1>1 DEF FindInv, RangeRead, locals
<1>4. ChunkRead'
  <2>1. \A S : Chunk(S)' = Chunk(S)
    BY DEF Chunk, locals
  <2>. QED  BY <1>1, <2>1 DEF FindInv, ChunkRead, PastGrows, locals
<1>5. NoGhostSurvives'
  <2>. SUFFICES ASSUME pc' = "done", ~ blind', NEW g \in Lasting'
                PROVE  Hidden(g)'
    BY DEF NoGhostSurvives, Lasting
  <2>1. Hidden(g)
    BY <1>1 DEF FindInv, NoGhostSurvives, Lasting, locals
  <2>2. Covering(g)' = Covering(g) /\ numeric' = numeric /\ ids' = ids
    BY <1>1 DEF Covering, locals
  <2>3. \A s \in Covering(g) : \E j, k \in Lacking' \cap s..(s + ChunkSize) : j # k
    BY <2>1, LastingShrinks DEF Hidden, TwoLacking
  <2>. QED  BY <2>1, <2>2, <2>3 DEF Hidden
<1>. QED  BY <1>2, <1>3, <1>4, <1>5 DEF FindInv

LEMMA InitFind ==
  ASSUME Init
  PROVE  FindInv
BY DEF Init, FindInv, BehindFound, InChunk, ChunkSteps, RangeRead, ChunkRead, NoGhostSurvives

LEMMA PreflightKeepsFind ==
  ASSUME FindInv, PastGrows,
         Preflight \/ SinkRangeFails \/ SourceRangeFails \/ StepFails
  PROVE  FindInv'
<1>1. /\ UNCHANGED <<numeric, ids, start, sum, ids2, ghosts>>
      /\ pc' \in {"sinkMin", "sourceMin", "types", "failed"}
      /\ \/ pc' \in {"sinkMin", "failed"} \/ blind'
         \/ pc \in {"sourceMin", "sourceMax"} /\ blind' = blind
  BY DEF Preflight, SinkRangeFails, SourceRangeFails, StepFails, Reads, Goto, locals
<1>2. BehindFound' /\ NoGhostSurvives'
  BY <1>1 DEF BehindFound, InChunk, ChunkSteps, NoGhostSurvives
<1>3. ChunkRead'
  BY <1>1 DEF FindInv, ChunkRead, PastGrows
<1>4. RangeRead'
  BY <1>1, LastingShrinks DEF FindInv, RangeRead
<1>. QED  BY <1>2, <1>3, <1>4 DEF FindInv

(* The range is read from the tables as they are, and keeps what it had.   *)
LEMMA RangeKeepsFind ==
  ASSUME TypeInv, PastInv, FindInv, PastGrows, SinkMin \/ SinkMax \/ SourceMin \/ SourceMax
  PROVE  FindInv'
<1>1. /\ UNCHANGED <<numeric, blind, start, sum, ids2, ghosts>>
      /\ pc' \in {"sinkMax", "sourceMin", "sourceMax", "types"}
  BY DEF SinkMin, SinkMax, SourceMin, SourceMax, ReadMin, ReadMax, Reads, Goto
<1>2. BehindFound' /\ NoGhostSurvives'
  BY <1>1 DEF BehindFound, InChunk, ChunkSteps, NoGhostSurvives
<1>3. ChunkRead'
  BY <1>1 DEF FindInv, ChunkRead, PastGrows
<1>4. ASSUME NEW g \in Lasting'
      PROVE  /\ g \in Lasting /\ g \in sink /\ g \in Int
             /\ sink \in SUBSET Keys /\ sink # {}
             /\ Least(sink) <= g /\ g <= Greatest(sink)
  <2>1. g \in Lasting /\ g \in sink /\ g \in Int
    BY LastingShrinks, LastingFacts
  <2>2. sink \in SUBSET Keys
    BY DEF TypeInv, TypesOfTables
  <2>. QED  BY <2>1, <2>2, EndsAreKeys
<1>5. CASE SinkMin
  <2>1. pc' = "sinkMax" /\ rowMin' = End(sink, Least(sink))
    BY <1>5 DEF SinkMin, Goto, ReadMin
  <2>2. \A g \in Lasting' : \E m \in rowMin' : m <= g
    BY <1>4, <2>1 DEF End
  <2>3. RangeRead'
    BY <2>1, <2>2 DEF RangeRead
  <2>. QED  BY <1>2, <1>3, <2>3 DEF FindInv
<1>6. CASE SinkMax
  <2>1. /\ pc = "sinkMax" /\ pc' = "sourceMin"
        /\ rowMin # {} => rowMin \cup End(sink, Greatest(sink)) \subseteq ids'
    BY <1>6 DEF SinkMax, Goto, ReadMax
  <2>2. ASSUME ~ blind, NEW g \in Lasting'
        PROVE  \E m, n \in ids' : m <= g /\ g <= n
    <3>1. PICK m \in rowMin : m <= g
      BY <1>4, <2>1, <2>2 DEF FindInv, RangeRead
    <3>2. m \in ids' /\ Greatest(sink) \in ids' /\ g <= Greatest(sink)
      BY <1>4, <2>1, <3>1 DEF End
    <3>. QED  BY <3>1, <3>2
  <2>3. RangeRead'
    BY <1>1, <2>1, <2>2 DEF RangeRead
  <2>. QED  BY <1>2, <1>3, <2>3 DEF FindInv
<1>7. CASE SourceMin \/ SourceMax
  <2>1. /\ pc \in {"sourceMin", "sourceMax"} /\ pc' \in {"sourceMax", "types"}
        /\ ids \subseteq ids'
    BY <1>7 DEF SourceMin, SourceMax, Goto, ReadMin, ReadMax
  <2>2. RangeRead'
    BY <1>1, <1>4, <2>1 DEF FindInv, RangeRead
  <2>. QED  BY <1>2, <1>3, <2>2 DEF FindInv
<1>. QED  BY <1>5, <1>6, <1>7

LEMMA ReadTypesKeepsFind ==
  ASSUME TypeInv, FindInv, PastGrows, ReadTypes
  PROVE  FindInv'
<1>1. /\ UNCHANGED <<numeric, blind, rowMin, ids, sum, ids2, ghosts>>
      /\ pc = "types" /\ pc' \in {"done", "countSource", "allSource"}
      /\ pc' = "done" => ids = {}
      /\ pc' = "countSource" => ids # {} /\ start' = Least(ids)
  <2>1. UNCHANGED <<numeric, blind, rowMin, ids, sum, ids2, ghosts>> /\ pc = "types"
    BY DEF ReadTypes, Reads
  <2>2. CASE ids = {}
    BY <2>1, <2>2 DEF ReadTypes
  <2>3. CASE ids # {} /\ numeric
    BY <2>1, <2>3 DEF ReadTypes
  <2>4. CASE ids # {} /\ ~ numeric
    BY <2>1, <2>4 DEF ReadTypes
  <2>. QED  BY <2>2, <2>3, <2>4
<1>2. Lasting' \subseteq Lasting /\ ids \subseteq Keys /\ Starts' = Starts
  BY <1>1, LastingShrinks DEF TypeInv, TypesOfLocals, Starts
<1>3. ChunkRead'
  BY <1>1 DEF FindInv, ChunkRead, PastGrows
<1>4. RangeRead'
  BY <1>1, <1>2 DEF FindInv, RangeRead
<1>5. BehindFound'
  <2>. SUFFICES ASSUME InChunk', NEW s \in Starts, s < start' PROVE FALSE
    BY <1>2 DEF BehindFound
  <2>1. ids # {} /\ start' = Least(ids)
    BY <1>1 DEF InChunk, ChunkSteps
  <2>2. s \in Int /\ Least(ids) \in Int /\ Least(ids) <= s
    BY <1>2, <2>1, ChunkFacts, EndsAreKeys
  <2>. QED  BY <2>1, <2>2
<1>6. NoGhostSurvives'
  <2>. SUFFICES ASSUME pc' = "done", ~ blind, NEW g \in Lasting' PROVE FALSE
    BY <1>1 DEF NoGhostSurvives, Lasting
  <2>. QED  BY <1>1, <1>2 DEF FindInv, RangeRead
<1>. QED  BY <1>3, <1>4, <1>5, <1>6 DEF FindInv

LEMMA WholeKeepsFind ==
  ASSUME TypeInv, PastInv, FindInv, PastGrows, ReadAllSource \/ ReadAllSink
  PROVE  FindInv'
<1>1. /\ UNCHANGED <<numeric, blind, ids, start, sum>> /\ ~ numeric'
      /\ pc \in {"allSource", "allSink"} /\ pc' \in {"allSink", "delete", "done"}
      /\ Lasting' \subseteq Lasting
  BY LastingShrinks DEF ReadAllSource, ReadAllSink, Reads, Goto, TypeInv, PlaceOK, InChunk,
                        ChunkSteps
<1>2. BehindFound'
  BY <1>1 DEF BehindFound, InChunk, ChunkSteps
<1>3. RangeRead'
  BY <1>1 DEF FindInv, RangeRead
<1>4. CASE ReadAllSource
  <2>1. pc' = "allSink" /\ ids2' = source
    BY <1>4 DEF ReadAllSource, Goto
  <2>2. ChunkRead' /\ NoGhostSurvives'
    BY <2>1 DEF ChunkRead, NoGhostSurvives, PastInv, PastGrows
  <2>. QED  BY <1>2, <1>3, <2>2 DEF FindInv
<1>5. CASE ReadAllSink
  <2>1. /\ ghosts' = sink \ ids2 /\ ids2' = {}
        /\ pc' = "delete" \/ (pc' = "done" /\ ghosts' = {})
    BY <1>5 DEF ReadAllSink
  <2>2. Lasting' \subseteq ghosts'
    BY <1>1, <2>1, LastingFacts DEF FindInv, ChunkRead
  <2>3. ChunkRead'
    BY <1>1, <2>1, <2>2 DEF ChunkRead
  <2>4. NoGhostSurvives'
    BY <2>1, <2>2 DEF NoGhostSurvives, Lasting
  <2>. QED  BY <1>2, <1>3, <2>3, <2>4 DEF FindInv
<1>. QED  BY <1>4, <1>5

(* The steps within a chunk. *)
LEMMA ChunkKeepsRest ==
  ASSUME FindInv, PastGrows, InChunk, UNCHANGED <<numeric, blind, ids>>
  PROVE  /\ RangeRead' \/ pc' \in {"preflight", "sinkMin", "sinkMax", "failed"}
         /\ UNCHANGED start => BehindFound' \/ ~ InChunk'
         /\ Lasting' \subseteq Lasting
<1>1. Lasting' \subseteq Lasting /\ Starts' = Starts
  BY LastingShrinks DEF Starts
<1>2. pc \notin {"preflight", "sinkMin", "sinkMax", "failed"}
  BY DEF InChunk, ChunkSteps
<1>3. RangeRead' \/ pc' \in {"preflight", "sinkMin", "sinkMax", "failed"}
  BY <1>1, <1>2 DEF FindInv, RangeRead
<1>4. UNCHANGED start => BehindFound'
  BY <1>1, LastingShrinks DEF FindInv, BehindFound, TwoLacking
<1>. QED  BY <1>1, <1>3, <1>4

LEMMA SourceChunkKeepsFind ==
  ASSUME TypeInv, PastInv, FindInv, PastGrows, CountSource \/ DeepSource
  PROVE  FindInv'
<1>1. /\ UNCHANGED <<numeric, blind, ids, start, ghosts, source>> /\ InChunk /\ InChunk'
      /\ pc' \in {"countSink", "deepSink"}
  BY DEF CountSource, DeepSource, Reads, Goto, tables, TypeInv, PlaceOK, InChunk, ChunkSteps
<1>2. RangeRead' /\ BehindFound'
  BY <1>1, ChunkKeepsRest
<1>3. NoGhostSurvives'
  BY <1>1 DEF NoGhostSurvives
<1>4. ids2' \subseteq seen'
  BY DEF CountSource, DeepSource, Chunk, FindInv, ChunkRead, PastInv, PastGrows
<1>5. pc' = "countSink" => \E S \in SUBSET (seen' \cap Keys) : sum' = Summary(Chunk(S)')
  <2>1. source \in SUBSET (seen' \cap Keys)
    BY DEF PastInv, PastGrows, TypeInv, TypesOfTables
  <2>2. pc' = "countSink" => sum' = Summary(Chunk(source))
    BY DEF CountSource, DeepSource, Goto
  <2>3. \A S : Chunk(S)' = Chunk(S)
    BY <1>1 DEF Chunk
  <2>. QED  BY <2>1, <2>2, <2>3
<1>6. ChunkRead'
  BY <1>1, <1>4, <1>5 DEF ChunkRead, Summary, BitXor, Ones
<1>. QED  BY <1>2, <1>3, <1>6 DEF FindInv

LEMMA CountSinkKeepsFind ==
  ASSUME TypeInv, PastInv, FindInv, PastGrows, CountSink
  PROVE  FindInv'
<1>1. UNCHANGED <<numeric, blind, ids, ids2, ghosts>> /\ InChunk /\ pc = "countSink"
  BY DEF CountSink, Reads, InChunk, ChunkSteps
<1>2. ids2' \subseteq seen'
  BY <1>1 DEF FindInv, ChunkRead, PastGrows
<1>3. CASE sum = Summary(Chunk(sink)) /\ NextChunk
  <2>1. PICK S \in SUBSET (seen \cap Keys) : sum = Summary(Chunk(S))
    BY <1>1 DEF FindInv, ChunkRead
  <2>2. ASSUME NEW g \in Lasting', g \in start..(start + ChunkSize)
        PROVE  TwoLacking(start)
    <3>1. g \in Chunk(sink) \ Chunk(S)
      <4>1. g \in sink /\ g \notin seen /\ g \in Int
        BY LastingShrinks, LastingFacts
      <4>2. start \in Int
        BY <1>1, ChunkFacts DEF TypeInv, PlaceOK, TypesOfLocals
      <4>. QED  BY <2>2, <4>1, <4>2, ChunkAssumption DEF Chunk
    <3>2. Chunk(S) \in SUBSET Keys /\ Chunk(sink) \in SUBSET Keys
      BY DEF Chunk, TypeInv, TypesOfTables
    <3>3. PICK j \in Chunk(S) \ Chunk(sink), k \in Chunk(S) \ Chunk(sink) : j # k
      BY <1>3, <2>1, <3>1, <3>2, ChecksumFindsGhost
    <3>4. \A i \in Chunk(S) \ Chunk(sink) : i \in Lacking /\ i \in start..(start + ChunkSize)
      <4>1. start \in Int
        BY <1>1, ChunkFacts DEF TypeInv, PlaceOK, TypesOfLocals
      <4>. TAKE i \in Chunk(S) \ Chunk(sink)
      <4>2. i \in seen /\ i \in Keys /\ i \notin sink
        BY DEF Chunk
      <4>3. start <= i /\ i <= start + ChunkSize /\ i \in Int
        BY <4>2, KeysAssumption DEF Chunk
      <4>4. i \in Lacking
        BY <4>2 DEF Lacking, PastInv
      <4>. QED  BY <4>1, <4>3, <4>4, ChunkAssumption
    <3>. QED  BY <3>3, <3>4 DEF TwoLacking
  <2>3. BehindFound' /\ NoGhostSurvives'
    BY <1>1, <1>3, <2>2, NextChunkFinds
  <2>4. pc' \in {"countSource", "done"}
    BY <1>3 DEF NextChunk
  <2>5. RangeRead'
    BY <1>1, <2>4, ChunkKeepsRest
  <2>6. ChunkRead'
    BY <1>2, <2>4 DEF ChunkRead
  <2>. QED  BY <2>3, <2>5, <2>6 DEF FindInv
<1>4. CASE pc' = "deepSource" /\ UNCHANGED start
  <2>1. RangeRead' /\ BehindFound'
    BY <1>1, <1>4, ChunkKeepsRest DEF InChunk, ChunkSteps
  <2>2. NoGhostSurvives' /\ ChunkRead'
    BY <1>2, <1>4 DEF NoGhostSurvives, ChunkRead
  <2>. QED  BY <2>1, <2>2 DEF FindInv
<1>. QED  BY <1>3, <1>4 DEF CountSink

(* A ghost of the chunk is among those read from the sink.                 *)
LEMMA DeepSinkKeepsFind ==
  ASSUME TypeInv, PastInv, FindInv, PastGrows, DeepSink
  PROVE  FindInv'
<1>1. UNCHANGED <<numeric, blind, ids>> /\ InChunk /\ numeric
  BY DEF DeepSink, Reads, InChunk, ChunkSteps, TypeInv, PlaceOK
<1>2. ghosts' = Chunk(sink) \ ids2 /\ ids2' = {}
  BY DEF DeepSink
<1>3. \A g \in Lasting' : g \in Chunk(Keys) => g \in ghosts'
  <2>1. \A g \in Lasting' : g \in sink /\ g \notin ids2
    BY LastingShrinks, LastingFacts DEF FindInv, ChunkRead
  <2>. QED  BY <1>2, <2>1 DEF Chunk
<1>4. CASE ghosts' = {} /\ NextChunk
  <2>1. \A g \in Lasting' : g \notin start..(start + ChunkSize)
    <3>1. \A g \in Lasting' : g \in Keys
      BY LastingShrinks, LastingFacts
    <3>2. start \in Int
      BY <1>1, ChunkFacts DEF TypeInv, PlaceOK, TypesOfLocals
    <3>. QED  BY <1>3, <1>4, <3>1, <3>2, KeysAssumption, ChunkAssumption DEF Chunk
  <2>2. BehindFound' /\ NoGhostSurvives'
    BY <1>1, <1>4, <2>1, NextChunkFinds
  <2>3. pc' \in {"countSource", "done"}
    BY <1>4 DEF NextChunk
  <2>4. RangeRead'
    BY <1>1, <2>3, ChunkKeepsRest
  <2>5. ChunkRead'
    BY <1>2, <2>3 DEF ChunkRead
  <2>. QED  BY <2>2, <2>4, <2>5 DEF FindInv
<1>5. CASE pc' = "delete" /\ UNCHANGED start
  <2>1. RangeRead' /\ BehindFound'
    BY <1>1, <1>5, ChunkKeepsRest DEF InChunk
  <2>2. Chunk(Keys)' = Chunk(Keys)
    BY <1>5 DEF Chunk
  <2>3. NoGhostSurvives' /\ ChunkRead'
    BY <1>1, <1>2, <1>3, <1>5, <2>2 DEF NoGhostSurvives, ChunkRead
  <2>. QED  BY <2>1, <2>3 DEF FindInv
<1>. QED  BY <1>4, <1>5 DEF DeepSink

(* What was deleted is no ghost any more.                                  *)
LEMMA DeleteKeepsFind ==
  ASSUME TypeInv, PastInv, FindInv, PastGrows, DeleteGhosts
  PROVE  FindInv'
<1>1. UNCHANGED <<numeric, blind, ids, ids2>> /\ pc = "delete" /\ ghosts' = {}
  BY DEF DeleteGhosts
<1>2. Lasting' \cap ghosts = {} /\ Lasting' \subseteq Lasting
  BY LastingShrinks DEF DeleteGhosts, Note, Lasting
<1>3. ids2' \subseteq seen'
  BY <1>1 DEF FindInv, ChunkRead, PastGrows
<1>4. CASE numeric
  <2>1. InChunk /\ NextChunk
    BY <1>1, <1>4 DEF DeleteGhosts, InChunk
  <2>2. \A g \in Lasting' : g \notin start..(start + ChunkSize)
    <3>1. \A g \in Lasting' : g \notin Chunk(Keys)
      BY <1>1, <1>2, <1>4 DEF FindInv, ChunkRead
    <3>2. \A g \in Lasting' : g \in Keys
      BY <1>2, LastingFacts
    <3>3. start \in Int
      BY <2>1, ChunkFacts DEF TypeInv, PlaceOK, TypesOfLocals
    <3>. QED  BY <3>1, <3>2, <3>3, KeysAssumption, ChunkAssumption DEF Chunk
  <2>3. BehindFound' /\ NoGhostSurvives'
    BY <1>1, <2>1, <2>2, NextChunkFinds
  <2>4. pc' \in {"countSource", "done"}
    BY <2>1 DEF NextChunk
  <2>5. RangeRead'
    BY <1>1, <2>1, <2>4, ChunkKeepsRest
  <2>6. ChunkRead'
    BY <1>3, <2>4 DEF ChunkRead
  <2>. QED  BY <2>3, <2>5, <2>6 DEF FindInv
<1>5. CASE ~ numeric
  <2>1. Lasting' = {}
    BY <1>1, <1>2, <1>5 DEF FindInv, ChunkRead
  <2>2. pc' = "done"
    BY <1>5 DEF DeleteGhosts
  <2>3. BehindFound' /\ RangeRead' /\ ChunkRead'
    BY <1>3, <2>1, <2>2 DEF BehindFound, RangeRead, ChunkRead
  <2>4. NoGhostSurvives'
    BY <2>1 DEF NoGhostSurvives, Lasting
  <2>. QED  BY <2>3, <2>4 DEF FindInv
<1>. QED  BY <1>4, <1>5

LEMMA StepKeepsFind ==
  ASSUME TypeInv, PastInv, FindInv, [Next]_vars
  PROVE  FindInv'
<1>1. PastGrows
  BY StepKeepsPast
<1>2. CASE UNCHANGED vars \/ \E k \in Keys : AppWrites(k) \/ StreamWrites(k)
  <2>1. UNCHANGED <<pc, locals, blind>>
    BY <1>2 DEF vars, AppWrites, StreamWrites
  <2>. QED  BY <1>1, <2>1, WritesKeepFind
<1>. QED  BY <1>1, <1>2, PreflightKeepsFind, RangeKeepsFind, ReadTypesKeepsFind,
             WholeKeepsFind, SourceChunkKeepsFind, CountSinkKeepsFind, DeepSinkKeepsFind,
             DeleteKeepsFind DEF Next, Sweep, Others

-----------------------------------------------------------------------------
IInv == TypeInv /\ PastInv /\ DeleteInv /\ FindInv

LEMMA Invariant == Spec => []IInv
<1>1. Init => IInv
  BY InitTypes, InitPast, InitDelete, InitFind DEF IInv
<1>2. IInv /\ [Next]_vars => IInv'
  BY StepKeepsTypes, StepKeepsPast, StepKeepsDelete, StepKeepsFind DEF IInv
<1>. QED  BY <1>1, <1>2, PTL DEF Spec

(* Types, and a sweep by chunks never leaves the key range                 *)
(* (find_and_fix_ghost_records).                                           *)
THEOREM TypeCorrect == Spec => []TypeOK
<1>1. IInv => TypeOK
  BY TypesSuffice DEF IInv
<1>. QED  BY <1>1, Invariant, PTL

(* Only rows the source was without at some moment of the sweep are        *)
(* deleted, by either strategy (find_and_fix_ghost_records).               *)
THEOREM DeletesOnlyGhostsHolds == Spec => DeletesOnlyGhosts
<1>1. IInv /\ [Next]_vars => [Sweep => sink \ sink' \subseteq absent]_vars
  <2>. SUFFICES ASSUME IInv, Sweep PROVE sink \ sink' \subseteq absent
    OBVIOUS
  <2>1. CASE DeleteGhosts
    BY <2>1 DEF DeleteGhosts, IInv, DeleteInv
  <2>2. CASE UNCHANGED sink
    BY <2>2
  <2>3. DeleteGhosts \/ UNCHANGED sink
    BY DEF Sweep, Preflight, SinkMin, SinkMax, SourceMin, SourceMax, ReadMin, ReadMax,
           ReadTypes, ReadAllSource, ReadAllSink, CountSource, CountSink, DeepSource,
           DeepSink, Reads, tables
  <2>. QED  BY <2>1, <2>2, <2>3
<1>. QED  BY <1>1, Invariant, PTL DEF Spec, DeletesOnlyGhosts

(* A key that is a ghost throughout a sweep is deleted by it, unless two   *)
(* missing rows in each of its chunks hide it from the checksum, or the    *)
(* sink's range could not be read (find_and_fix_ghost_records).            *)
THEOREM NoGhostSurvivesHolds == Spec => []NoGhostSurvives
<1>1. IInv => NoGhostSurvives
  BY DEF IInv, FindInv
<1>. QED  BY <1>1, Invariant, PTL

-----------------------------------------------------------------------------
(* The way to the end: each query of a round is made once, and the round   *)
(* of a chunk is followed by that of a later chunk.                        *)

Round ==
  IF InChunk THEN 6
  ELSE CASE pc = "preflight" -> 0
         [] pc = "sinkMin"   -> 1
         [] pc = "sinkMax"   -> 2
         [] pc = "sourceMin" -> 3
         [] pc = "sourceMax" -> 4
         [] pc = "types"     -> 5
         [] pc = "allSource" -> 7
         [] pc = "allSink"   -> 8
         [] pc = "delete"    -> 9
         [] pc \in {"done", "failed"} -> 10
ChunksLeft ==
  IF ~ InChunk THEN 0
  ELSE 5 * (Greatest(ids) - start) + CASE pc = "countSource" -> 4
                                       [] pc = "countSink"   -> 3
                                       [] pc = "deepSource"  -> 2
                                       [] pc = "deepSink"    -> 1
                                       [] pc = "delete"      -> 0
SweepGetsOn ==
  /\ [](Round \in 0..10 /\ ChunksLeft \in Nat)
  /\ [][/\ Sweep => \/ Round' > Round
                    \/ Round = 6 /\ Round' = 6 /\ ChunksLeft' < ChunksLeft
        /\ ~ Sweep => Round' > Round \/ UNCHANGED <<Round, ChunksLeft>>]_vars

LEMMA RoundIs ==
  ASSUME TypeInv
  PROVE  Round \in 0..10 /\ (Round = 6 <=> InChunk) /\ ChunksLeft \in Nat
<1>1. Round \in 0..10 /\ (Round = 6 <=> InChunk)
  <2>1. pc \in States /\ numeric \in BOOLEAN
    BY DEF TypeInv, TypesOfLocals
  <2>2. CASE InChunk
    BY <2>2 DEF Round
  <2>3. CASE ~ InChunk
    <3>1. pc \in {"preflight", "sinkMin", "sinkMax", "sourceMin", "sourceMax", "types", "allSource",
                 "allSink", "delete", "done", "failed"}
      BY <2>1, <2>3 DEF InChunk, ChunkSteps, States
    <3>2. Round \in {0, 1, 2, 3, 4, 5, 7, 8, 9, 10}
      BY <2>3, <3>1 DEF Round
    <3>. QED  BY <2>3, <3>2
  <2>. QED  BY <2>2, <2>3
<1>2. CASE InChunk
  <2>1. ids \subseteq Keys /\ ids # {} /\ start \in Starts
    BY <1>2 DEF TypeInv, TypesOfLocals, PlaceOK
  <2>2. Greatest(ids) - start \in Nat
    BY <2>1, ChunkFacts, EndsAreKeys
  <2>. QED  BY <1>1, <1>2, <2>2 DEF ChunksLeft, InChunk, ChunkSteps
<1>. QED  BY <1>1, <1>2 DEF ChunksLeft

LEMMA NextChunkIsLater ==
  ASSUME TypeInv, InChunk, NextChunk, UNCHANGED <<numeric, ids>>
  PROVE  \/ Round' = 10
         \/ Round' = 6 /\ ChunksLeft' < ChunksLeft
<1>1. ids \subseteq Keys /\ ids # {} /\ start \in Starts /\ numeric
  BY DEF TypeInv, TypesOfLocals, PlaceOK
<1>2. start \in Int /\ Greatest(ids) \in Int
  BY <1>1, ChunkFacts, EndsAreKeys
<1>3. Greatest(ids)' = Greatest(ids)
  OBVIOUS
<1>4. CASE pc' = "done"
  BY <1>4 DEF Round, InChunk, ChunkSteps
<1>5. CASE pc' = "countSource"
  <2>1. Round' = 6
    BY <1>5 DEF Round, InChunk, ChunkSteps
  <2>2. ChunksLeft' = 5 * (Greatest(ids) - (start + ChunkSize)) + 4
    BY <1>3, <1>5 DEF ChunksLeft, NextChunk, InChunk, ChunkSteps
  <2>3. \E n \in 0..4 : ChunksLeft = 5 * (Greatest(ids) - start) + n
    BY DEF ChunksLeft, InChunk, ChunkSteps
  <2>4. \A g, s \in Int : \A c \in Nat \ {0}, n \in 0..4 : 5 * (g - (s + c)) + 4 < 5 * (g - s) + n
    OBVIOUS
  <2>. QED  BY <1>2, <2>1, <2>2, <2>3, <2>4, ChunkAssumption
<1>. QED  BY <1>4, <1>5 DEF NextChunk

LEMMA SweepMoves ==
  ASSUME TypeInv, Sweep
  PROVE  \/ Round' > Round
         \/ Round = 6 /\ Round' = 6 /\ ChunksLeft' < ChunksLeft
<1>1. CASE Preflight
  BY <1>1 DEF Preflight, Goto, Round, InChunk, ChunkSteps
<1>2. CASE SinkMin \/ SinkMax \/ SourceMin \/ SourceMax
  BY <1>2 DEF SinkMin, SinkMax, SourceMin, SourceMax, Goto, Round, InChunk, ChunkSteps
<1>3. CASE ReadTypes
  BY <1>3 DEF ReadTypes, Round, InChunk, ChunkSteps
<1>4. CASE ReadAllSource
  BY <1>4 DEF ReadAllSource, Goto, Round, InChunk, ChunkSteps
<1>5. CASE ReadAllSink
  <2>1. pc = "allSink" /\ ~ numeric /\ numeric' = numeric /\ pc' \in {"done", "delete"}
    BY <1>5 DEF ReadAllSink, Reads, TypeInv, PlaceOK
  <2>. QED  BY <2>1 DEF Round, InChunk, ChunkSteps
<1>6. CASE CountSource \/ DeepSource
  <2>1. UNCHANGED <<ids, start>> /\ pc \in {"countSource", "deepSource"}
    BY <1>6 DEF CountSource, DeepSource, Goto
  <2>2. Greatest(ids) - start \in Int /\ Greatest(ids)' = Greatest(ids)
    BY <2>1, ChunkFacts, EndsAreKeys DEF TypeInv, TypesOfLocals, PlaceOK, InChunk, ChunkSteps
  <2>3. Round = 6 /\ Round' = 6
    BY <1>6, <2>1 DEF CountSource, DeepSource, Goto, Round, InChunk, ChunkSteps
  <2>4. CASE CountSource
    <3>1. /\ ChunksLeft = 5 * (Greatest(ids) - start) + 4
          /\ ChunksLeft' = 5 * (Greatest(ids) - start) + 3
      BY <2>1, <2>2, <2>4 DEF ChunksLeft, CountSource, Goto, InChunk, ChunkSteps
    <3>. QED  BY <2>2, <2>3, <3>1
  <2>5. CASE DeepSource
    <3>1. /\ ChunksLeft = 5 * (Greatest(ids) - start) + 2
          /\ ChunksLeft' = 5 * (Greatest(ids) - start) + 1
      BY <2>1, <2>2, <2>5 DEF ChunksLeft, DeepSource, Goto, InChunk, ChunkSteps
    <3>. QED  BY <2>2, <2>3, <3>1
  <2>. QED  BY <1>6, <2>4, <2>5
<1>7. CASE CountSink \/ DeepSink \/ DeleteGhosts
  <2>1. UNCHANGED <<numeric, ids>>
    BY <1>7 DEF CountSink, DeepSink, DeleteGhosts, Reads
  <2>2. CASE NextChunk /\ InChunk
    <3>1. Round = 6
      BY <2>2 DEF Round
    <3>2. \/ Round' = 10
          \/ Round' = 6 /\ ChunksLeft' < ChunksLeft
      BY <2>1, <2>2, NextChunkIsLater
    <3>. QED  BY <3>1, <3>2
  <2>3. CASE /\ UNCHANGED start
             /\ \/ pc = "countSink" /\ pc' = "deepSource"
                \/ pc = "deepSink" /\ pc' = "delete"
    <3>1. numeric /\ Greatest(ids) - start \in Int
      BY <2>3, ChunkFacts, EndsAreKeys DEF TypeInv, TypesOfLocals, PlaceOK, InChunk, ChunkSteps
    <3>2. Round = 6 /\ Round' = 6
      BY <2>1, <2>3, <3>1 DEF Round, InChunk, ChunkSteps
    <3>3. /\ ChunksLeft = 5 * (Greatest(ids) - start) + IF pc = "countSink" THEN 3 ELSE 1
          /\ ChunksLeft' = 5 * (Greatest(ids) - start) + IF pc = "countSink" THEN 2 ELSE 0
      BY <2>1, <2>3, <3>1 DEF ChunksLeft, InChunk, ChunkSteps
    <3>. QED  BY <3>1, <3>2, <3>3
  <2>4. CASE ~ numeric /\ pc = "delete" /\ pc' = "done"
    BY <2>1, <2>4 DEF Round, InChunk, ChunkSteps
  <2>5. CASE CountSink
    BY <2>2, <2>3, <2>5 DEF CountSink, InChunk, ChunkSteps
  <2>6. CASE DeepSink
    BY <2>2, <2>3, <2>6 DEF DeepSink, InChunk, ChunkSteps
  <2>7. CASE DeleteGhosts
    BY <2>2, <2>4, <2>7 DEF DeleteGhosts, InChunk
  <2>. QED  BY <1>7, <2>5, <2>6, <2>7
<1>. QED  BY <1>1, <1>2, <1>3, <1>4, <1>5, <1>6, <1>7 DEF Sweep

LEMMA OthersMove ==
  ASSUME TypeInv, [Next]_vars, ~ Sweep
  PROVE  Round' > Round \/ UNCHANGED <<Round, ChunksLeft>>
<1>1. CASE UNCHANGED <<pc, locals>>
  <2>1. UNCHANGED <<pc, numeric, ids, start>>
    BY <1>1 DEF locals
  <2>. QED  BY <2>1 DEF Round, InChunk, ChunksLeft
<1>2. CASE SinkRangeFails \/ SourceRangeFails
  BY <1>2 DEF SinkRangeFails, SourceRangeFails, Round, InChunk, ChunkSteps
<1>3. CASE StepFails
  <2>1. pc' = "failed" /\ pc \in States \ {"done", "failed"}
    BY <1>3 DEF StepFails, Happens, Running, TypeInv, TypesOfLocals
  <2>2. Round' = 10
    BY <2>1 DEF Round, InChunk, ChunkSteps
  <2>3. Round \in 0..9
    <3>1. CASE InChunk
      BY <3>1 DEF Round
    <3>2. CASE ~ InChunk
      BY <2>1, <3>2 DEF Round, InChunk, ChunkSteps, States
    <3>. QED  BY <3>1, <3>2
  <2>. QED  BY <2>2, <2>3
<1>. QED  BY <1>1, <1>2, <1>3 DEF Next, Others, AppWrites, StreamWrites, vars

(* A sweep gets on with every query, whatever others write in between: it  *)
(* is in a later round, or in the round of the chunks nearer to the end of *)
(* the range, and what others do takes it back nowhere, so that a sweep    *)
(* that keeps running ends, as SweepEnds says (find_and_fix_ghost_records).*)
THEOREM SweepGetsOnHolds == Spec => SweepGetsOn
<1>1. IInv => Round \in 0..10 /\ ChunksLeft \in Nat
  BY RoundIs DEF IInv
<1>2. IInv /\ [Next]_vars =>
        [/\ Sweep => \/ Round' > Round
                     \/ Round = 6 /\ Round' = 6 /\ ChunksLeft' < ChunksLeft
         /\ ~ Sweep => Round' > Round \/ UNCHANGED <<Round, ChunksLeft>>]_vars
  BY SweepMoves, OthersMove DEF IInv
<1>. QED  BY <1>1, <1>2, Invariant, PTL DEF Spec, SweepGetsOn

=============================================================================
