--------------------------- MODULE SourceSyncProofs ---------------------------
(***************************************************************************)
(* The safety properties of SourceSync, for any number of keys, contents,  *)
(* page size and bounds.                                                   *)
(*                                                                         *)
(*   TypeInv   types; a page on its way is not empty, and a marker is no   *)
(*             row                                                         *)
(*   PassInv   a page holds what the source holds behind the cursor and    *)
(*             up to the page's end; behind the last page nothing is left  *)
(*             to fetch; what the sweep read is what the source holds -    *)
(*             always but for keys touched since the pass began            *)
(*                                                                         *)
(* Last comes a measure of the steps left, lowered by every step of a pass.*)
(***************************************************************************)
EXTENDS SourceSync, FiniteSetTheorems, WellFoundedInduction, TLAPS

-----------------------------------------------------------------------------
(* Sets of keys.                                                           *)

LEMMA LeastNat ==
  ASSUME NEW S \in SUBSET Nat, S # {}
  PROVE  \E k \in S : \A j \in S : k <= j
<1>1. PICK k \in S : \A j \in S : ~ (<<j, k>> \in OpToRel(<, Nat))
  BY NatLessThanWellFounded, WFMin
<1>2. ASSUME NEW j \in S PROVE k <= j
  <2>1. <<j, k>> \in Nat \X Nat
    OBVIOUS
  <2>2. ~ (j < k)
    BY <1>1, <2>1 DEF OpToRel
  <2>. QED  BY <2>2
<1>. QED  BY <1>2

LEMMA KeysAreNaturals == Keys \subseteq Nat /\ \A k \in Keys : ~ (k <= -1)
BY KeysAssumption DEF Keys

LEMMA KeysAreFinite ==
  ASSUME NEW S \in SUBSET Keys
  PROVE  IsFiniteSet(S) /\ Cardinality(S) \in Nat
<1>1. IsFiniteSet(Keys)
  BY FS_Interval, KeysAssumption DEF Keys
<1>. QED  BY <1>1, FS_Subset, FS_CardinalityType

LEMMA LeastKey ==
  ASSUME NEW S \in SUBSET Keys, S # {}
  PROVE  \E k \in S : \A j \in S : k <= j
BY LeastNat, KeysAreNaturals

(* The greatest key is the one with the least distance to the bound.       *)
LEMMA GreatestKey ==
  ASSUME NEW S \in SUBSET Keys, S # {}
  PROVE  \E k \in S : \A j \in S : j <= k
<1>. DEFINE Gap == {MaxKey - k : k \in S}
<1>1. \A k \in S : k \in Nat /\ MaxKey - k \in Nat
  BY KeysAssumption DEF Keys
<1>2. Gap \in SUBSET Nat /\ Gap # {}
  BY <1>1
<1>3. PICK g \in Gap : \A h \in Gap : g <= h
  BY <1>2, LeastNat
<1>4. PICK k \in S : g = MaxKey - k
  OBVIOUS
<1>5. \A j \in S : MaxKey - k <= MaxKey - j
  BY <1>3, <1>4
<1>. QED  BY <1>1, <1>5, KeysAssumption

-----------------------------------------------------------------------------
(* A listing.                                                              *)

Listed(S)   == First(BatchSize, S)
Below(k, S) == {j \in S : j < k}

LEMMA ListedFacts ==
  ASSUME NEW S \in SUBSET Keys
  PROVE  /\ Listed(S) \subseteq S /\ Listed(S) \subseteq Keys
         /\ \A k \in S : k \in Listed(S) <=> Cardinality(Below(k, S)) < BatchSize
BY DEF Listed, First, Below

LEMMA BelowFacts ==
  ASSUME NEW S \in SUBSET Keys, NEW k \in Keys
  PROVE  /\ Below(k, S) \subseteq Keys /\ k \notin Below(k, S)
         /\ IsFiniteSet(Below(k, S)) /\ Cardinality(Below(k, S)) \in Nat
         /\ \A j \in S : j \in Below(k, S) <=> j < k
<1>1. k \in Nat /\ Below(k, S) \subseteq Keys
  BY KeysAreNaturals DEF Below
<1>2. k \notin Below(k, S)
  BY <1>1 DEF Below
<1>. QED  BY <1>1, <1>2, KeysAreFinite DEF Below

(* It is a beginning of what there is to list.                             *)
LEMMA ListedIsPrefix ==
  ASSUME NEW S \in SUBSET Keys, NEW k \in Listed(S), NEW j \in S, j <= k
  PROVE  j \in Listed(S)
<1>1. k \in S /\ k \in Keys /\ j \in Keys /\ j \in Nat /\ k \in Nat
  BY ListedFacts, KeysAreNaturals
<1>2. ASSUME NEW h \in Below(j, S) PROVE h \in Below(k, S)
  <2>1. h \in S /\ h \in Nat /\ h < j
    BY KeysAreNaturals DEF Below
  <2>. QED  BY <1>1, <2>1 DEF Below
<1>3. Cardinality(Below(j, S)) <= Cardinality(Below(k, S))
  BY <1>1, <1>2, BelowFacts, FS_Subset
<1>4. Cardinality(Below(j, S)) \in Nat /\ Cardinality(Below(k, S)) \in Nat
  BY <1>1, BelowFacts
<1>5. Cardinality(Below(k, S)) < BatchSize
  BY <1>1, ListedFacts
<1>. QED  BY <1>3, <1>4, <1>5, ListedFacts, BatchAssumption

(* A page is never longer than BatchSize.                                  *)
LEMMA ListedIsShort ==
  ASSUME NEW S \in SUBSET Keys
  PROVE  Cardinality(Listed(S)) <= BatchSize
<1>1. Listed(S) \subseteq S /\ Listed(S) \subseteq Keys
  BY ListedFacts
<1>2. CASE Listed(S) = {}
  BY <1>2, FS_EmptySet, BatchAssumption
<1>3. CASE Listed(S) # {}
  <2>1. PICK m \in Listed(S) : \A j \in Listed(S) : j <= m
    BY <1>1, <1>3, GreatestKey
  <2>2. m \in S /\ m \in Keys /\ m \in Nat
    BY <1>1, KeysAreNaturals
  <2>3. Cardinality(Below(m, S)) < BatchSize
    BY <2>2, ListedFacts
  <2>4. Cardinality(Below(m, S) \cup {m}) = Cardinality(Below(m, S)) + 1
    BY <2>2, BelowFacts, FS_AddElement
  <2>5. ASSUME NEW j \in Listed(S) PROVE j \in Below(m, S) \cup {m}
    <3>1. j \in S /\ j \in Nat /\ j <= m
      BY <1>1, <2>1, KeysAreNaturals
    <3>. QED  BY <2>2, <3>1 DEF Below
  <2>6. Below(m, S) \cup {m} \subseteq Keys
    BY <2>2, BelowFacts
  <2>7. Cardinality(Listed(S)) <= Cardinality(Below(m, S) \cup {m})
    BY <2>5, <2>6, KeysAreFinite, FS_Subset
  <2>8. Cardinality(Listed(S)) \in Nat /\ Cardinality(Below(m, S)) \in Nat
    BY <1>1, <2>2, BelowFacts, KeysAreFinite
  <2>. QED  BY <2>3, <2>4, <2>7, <2>8, BatchAssumption
<1>. QED  BY <1>2, <1>3

(* What is left out is left out because the listing is full.               *)
LEMMA ListedIsFull ==
  ASSUME NEW S \in SUBSET Keys, NEW k \in S, k \notin Listed(S)
  PROVE  Cardinality(Listed(S)) >= BatchSize
<1>1. PICK m \in S \ Listed(S) : \A j \in S \ Listed(S) : m <= j
  BY LeastKey
<1>2. m \in Keys /\ m \in Nat
  BY KeysAreNaturals
<1>3. ASSUME NEW h \in Below(m, S) PROVE h \in Listed(S)
  <2>1. h \in S /\ h \in Nat /\ h < m
    BY KeysAreNaturals DEF Below
  <2>2. ~ (m <= h)
    BY <1>2, <2>1
  <2>. QED  BY <1>1, <2>1, <2>2
<1>4. ~ (Cardinality(Below(m, S)) < BatchSize)
  BY ListedFacts
<1>5. Listed(S) \in SUBSET Keys
  BY ListedFacts
<1>6. Cardinality(Below(m, S)) <= Cardinality(Listed(S))
  BY <1>3, <1>5, KeysAreFinite, FS_Subset
<1>7. Cardinality(Listed(S)) \in Nat /\ Cardinality(Below(m, S)) \in Nat
  BY <1>2, <1>5, BelowFacts, KeysAreFinite
<1>. QED  BY <1>4, <1>6, <1>7, BatchAssumption

-----------------------------------------------------------------------------
(* Types.                                                                  *)

PageOK ==
  /\ pc \in {"upsert", "save"} => DOMAIN page # {}
  /\ kind # "s3" => markers = {}
  /\ \A k \in markers : source[k] = Gone
TypeInv == TypeOK /\ PageOK

(* What a listing is of: everything behind the cursor.                     *)
Ahead == {k \in Wanted \cup markers : k > last}

LEMMA PageFacts ==
  ASSUME TypeInv
  PROVE  /\ Ahead \in SUBSET Keys
         /\ DOMAIN Page = Listed(Ahead) \ markers
         /\ \A k \in DOMAIN Page : k \in Ahead /\ Page[k] = source[k] /\ source[k] # Gone
         /\ Page \in [DOMAIN Page -> Contents]
         /\ Cardinality(DOMAIN Page) <= BatchSize
<1>1. Ahead \in SUBSET Keys
  BY DEF TypeInv, TypeOK, Ahead, Wanted, Present
<1>2. Page = [k \in Listed(Ahead) \ markers |-> source[k]]
  BY DEF Page, Listed, Ahead
<1>3. ASSUME NEW k \in Listed(Ahead) \ markers PROVE k \in Ahead /\ source[k] # Gone /\ source[k] \in Contents
  BY <1>1, ListedFacts DEF Ahead, Wanted, Present, TypeInv, TypeOK
<1>4. Cardinality(Listed(Ahead) \ markers) <= Cardinality(Listed(Ahead))
  BY <1>1, ListedFacts, KeysAreFinite, FS_Subset
<1>5. /\ Cardinality(Listed(Ahead) \ markers) \in Nat /\ Cardinality(Listed(Ahead)) \in Nat
      /\ Cardinality(Listed(Ahead)) <= BatchSize
  BY <1>1, ListedFacts, ListedIsShort, KeysAreFinite
<1>. QED  BY <1>1, <1>2, <1>3, <1>4, <1>5, BatchAssumption

(* The key a page ends at.                                                 *)
LEMMA LastOfPage ==
  ASSUME TypeInv, pc = "save", SaveCursor
  PROVE  last' \in DOMAIN page /\ \A j \in DOMAIN page : j <= last'
<1>1. DOMAIN page \in SUBSET Keys /\ DOMAIN page # {}
  BY DEF TypeInv, TypeOK, PageOK
<1>2. \E k \in DOMAIN page : \A j \in DOMAIN page : j <= k
  BY <1>1, GreatestKey
<1>. QED  BY <1>2 DEF SaveCursor

LEMMA NoPage ==
  /\ NoRows \in UNION {[S -> Contents] : S \in SUBSET Keys}
  /\ DOMAIN NoRows = {} /\ Cardinality(DOMAIN NoRows) <= BatchSize
<1>1. DOMAIN NoRows = {} /\ NoRows \in [{} -> Contents]
  BY DEF NoRows
<1>. QED  BY <1>1, FS_EmptySet, BatchAssumption

LEMMA InitTypes == Init => TypeInv
<1>. SUFFICES ASSUME Init PROVE TypeInv
  OBVIOUS
<1>1. -1 \in Keys \cup {-1} /\ 0 \in 0..MaxWrites /\ 0 \in 0..MaxStarts /\ 0 \in 0..MaxFaults
  BY BoundsAssumption
<1>2. markers \subseteq Keys /\ PageOK
  BY DEF Init, PageOK, Present
<1>. QED  BY <1>1, <1>2, NoPage DEF Init, TypeInv, TypeOK

LEMMA TypeStep == TypeInv /\ [Next]_vars => TypeInv'
<1>. SUFFICES ASSUME TypeInv, [Next]_vars PROVE TypeInv'
  OBVIOUS
<1>. USE DEF TypeInv, PageOK
<1>1. CASE Start
  <2>1. starts' \in 0..MaxStarts /\ faults' \in 0..MaxFaults
    BY <1>1, BoundsAssumption DEF Start, Fault, TypeOK
  <2>2. touched' \subseteq Keys /\ pc' \in {"fetch", "idle", "setup"}
    BY <1>1 DEF Start, AfterRecovery, TypeOK
  <2>. QED  BY <1>1, <2>1, <2>2, NoPage DEF Start, NoLocals, TypeOK, sourceVars
<1>2. CASE Fetch
  <2>1. page' \in UNION {[S -> Contents] : S \in SUBSET Keys} /\ Cardinality(DOMAIN page') <= BatchSize
    BY <1>2, PageFacts DEF Fetch, Ahead
  <2>2. page' # NoRows => DOMAIN page' # {}
    BY <2>1 DEF NoRows
  <2>. QED  BY <1>2, <2>1, <2>2 DEF Fetch, AfterRecovery, TypeOK, sourceVars, bounds
<1>3. CASE Upsert
  BY <1>3 DEF Upsert, TypeOK, sourceVars, bounds
<1>4. CASE SaveCursor
  <2>1. last' \in Keys
    BY <1>4, LastOfPage DEF SaveCursor, TypeOK
  <2>. QED  BY <1>4, <2>1, NoPage DEF SaveCursor, TypeOK, sourceVars, bounds
<1>5. CASE ReadSourceIds
  BY <1>5 DEF ReadSourceIds, Present, TypeOK, sourceVars, bounds
<1>6. CASE DeleteGhosts
  BY <1>6 DEF DeleteGhosts, AfterRecovery, TypeOK, sourceVars, bounds
<1>7. CASE SetupStateRow \/ CreateVectorizer
  BY <1>7 DEF SetupStateRow, CreateVectorizer, TypeOK, sourceVars, bounds
<1>8. CASE Stop
  BY <1>8, NoPage DEF Stop, NoLocals, TypeOK, sourceVars, bounds
<1>9. CASE StepFails \/ Crash
  <2>1. faults' \in 0..MaxFaults
    BY <1>9, BoundsAssumption DEF StepFails, Crash, Fault, TypeOK
  <2>. QED  BY <1>9, <2>1, NoPage DEF StepFails, Crash, NoLocals, TypeOK, sourceVars
<1>10. ASSUME NEW k \in Keys, NEW c \in Contents \cup {Gone}, Write(k, c) PROVE TypeInv'
  BY <1>10, BoundsAssumption DEF Write, TypeOK
<1>11. CASE UNCHANGED vars
  BY <1>11 DEF vars, sourceVars, bounds, TypeOK
<1>. QED  BY <1>1, <1>2, <1>3, <1>4, <1>5, <1>6, <1>7, <1>8, <1>9, <1>10, <1>11 DEF Next, Pass

(* Every variable keeps its type, and a page is never longer than          *)
(* BatchSize (Applier.apply, fetch_batch).                                 *)
THEOREM TypeCorrect == Spec => []TypeOK
<1>1. TypeInv => TypeOK
  BY DEF TypeInv
<1>. QED  BY <1>1, InitTypes, TypeStep, PTL DEF Spec

-----------------------------------------------------------------------------
(* The pass.                                                               *)

PageFresh ==
  pc \in {"upsert", "save"} =>
    \A k \in DOMAIN page : k > last /\ (Steady(k) => page[k] = source[k])

PageCovers ==
  pc \in {"upsert", "save"} =>
    \A k \in Wanted, j \in DOMAIN page :
      last < k /\ k <= j /\ Steady(k) => k \in DOMAIN page

PageLanded == pc = "save" => \A k \in DOMAIN page : sink[k] = page[k]

NothingLeft ==
  pc \in {"readIds", "sweep"} =>
    kind = "polling" /\ \A k \in Wanted : Steady(k) => sink[k] = source[k]

IdsFresh == pc = "sweep" => \A k \in Keys : Steady(k) => (k \in ids <=> source[k] # Gone)

PassInv == NothingBehindCursor /\ PageFresh /\ PageCovers /\ PageLanded /\ NothingLeft /\ IdsFresh

LEMMA CursorIsInteger ==
  ASSUME TypeInv
  PROVE  last \in Int /\ \A k \in Wanted : k \in Int /\ k \in Keys
BY KeysAreNaturals DEF TypeInv, TypeOK, Wanted, Present

LEMMA InitPass == Init => PassInv
BY DEF Init, PassInv, NothingBehindCursor, InPass, PageFresh, PageCovers, PageLanded, NothingLeft, IdsFresh

(* A page that is not empty reaches from the cursor to its end.            *)
LEMMA FetchedPage ==
  ASSUME TypeInv, NEW k \in Wanted, NEW j \in DOMAIN Page, last < k, k <= j
  PROVE  k \in DOMAIN Page
<1>1. k \in Ahead /\ j \in Listed(Ahead)
  BY PageFacts DEF Ahead
<1>2. k \in Listed(Ahead)
  BY <1>1, PageFacts, ListedIsPrefix
<1>3. k \notin markers
  BY DEF TypeInv, PageOK, Wanted, Present
<1>. QED  BY <1>2, <1>3, PageFacts

(* An empty one leaves out what a page of markers cuts off, and that is    *)
(* all; without markers it leaves out nothing.                             *)
LEMMA EmptyPage ==
  ASSUME TypeInv, Page = NoRows, NEW k \in Wanted, last < k
  PROVE  CutOff(k)
<1>1. Listed(Ahead) \subseteq markers
  BY PageFacts, NoPage
<1>2. k \in Ahead /\ k \in Keys /\ k \in Nat /\ k \notin markers
  BY KeysAreNaturals DEF Ahead, Wanted, Present, TypeInv, PageOK
<1>3. k \notin Listed(Ahead)
  BY <1>1, <1>2
<1>4. Ahead \in SUBSET Keys /\ Listed(Ahead) \subseteq Ahead /\ Listed(Ahead) \in SUBSET Keys
  BY PageFacts, ListedFacts
<1>5. Cardinality(Listed(Ahead)) >= BatchSize /\ Cardinality(Listed(Ahead)) \in Nat
  BY <1>2, <1>3, <1>4, ListedIsFull, KeysAreFinite
<1>6. Listed(Ahead) # {}
  BY <1>5, FS_EmptySet, BatchAssumption
<1>7. PICK a \in Listed(Ahead) : \A j \in Listed(Ahead) : a <= j
  BY <1>4, <1>6, LeastKey
<1>8. PICK b \in Listed(Ahead) : \A j \in Listed(Ahead) : j <= b
  BY <1>4, <1>6, GreatestKey
<1>9. ASSUME NEW j \in Listed(Ahead) PROVE j \in markers /\ j < k /\ j \in Nat /\ last < j
  <2>1. j \in markers /\ j \in Nat /\ j \in Ahead
    BY <1>1, <1>4, KeysAreNaturals
  <2>2. ~ (k <= j)
    BY <1>2, <1>3, <1>4, ListedIsPrefix
  <2>. QED  BY <1>2, <2>1, <2>2 DEF Ahead
<1>10. Cardinality(markers \cap a..b) >= BatchSize
  <2>1. Listed(Ahead) \subseteq markers \cap a..b
    BY <1>7, <1>8, <1>9
  <2>2. markers \cap a..b \in SUBSET Keys
    BY DEF TypeInv, TypeOK
  <2>3. Cardinality(Listed(Ahead)) <= Cardinality(markers \cap a..b) /\ Cardinality(markers \cap a..b) \in Nat
    BY <2>1, <2>2, KeysAreFinite, FS_Subset
  <2>. QED  BY <1>5, <2>3, BatchAssumption
<1>11. ASSUME NEW j \in a..b, j \in Wanted PROVE FALSE
  <2>1. j \in Ahead /\ j <= b
    <3>1. last \in Int /\ a \in Int /\ b \in Int /\ j \in Int /\ a <= j /\ j <= b
      BY <1>9, KeysAreNaturals DEF TypeInv, TypeOK
    <3>2. last < j
      BY <1>9, <3>1
    <3>. QED  BY <1>11, <3>1, <3>2 DEF Ahead
  <2>2. j \in markers
    BY <1>1, <1>4, <2>1, ListedIsPrefix
  <2>. QED  BY <1>11, <2>2 DEF TypeInv, PageOK, Wanted, Present
<1>12. a \in {m \in markers : m < k} /\ b \in {m \in markers : m < k}
  BY <1>9
<1>. QED  BY <1>10, <1>11, <1>12 DEF CutOff

LEMMA NothingCutOff ==
  ASSUME TypeInv, kind # "s3", NEW k
  PROVE  ~ CutOff(k)
BY DEF CutOff, TypeInv, PageOK

LEMMA PassStep == TypeInv /\ PassInv /\ [Next]_vars => PassInv'
<1>. SUFFICES ASSUME TypeInv, PassInv, [Next]_vars PROVE PassInv'
  OBVIOUS
<1>. USE DEF PassInv, NothingBehindCursor, InPass, PageFresh, PageCovers, PageLanded, NothingLeft, IdsFresh
<1>1. CASE Start
  <2>. QED  BY <1>1, KeysAreNaturals DEF Start, NoLocals, AfterRecovery, Wanted, Present
<1>2. CASE Fetch
  <2>1. UNCHANGED <<source, sink, last, touched, kind, passing>> /\ page' = Page
    BY <1>2 DEF Fetch, sourceVars
  <2>2. NothingBehindCursor'
    BY <1>2, <2>1 DEF Fetch, Wanted, Present, Steady
  <2>3. PageFresh'
    BY <2>1, PageFacts DEF Ahead
  <2>4. PageCovers'
    BY <2>1, FetchedPage DEF Wanted, Present
  <2>5. NothingLeft'
    <3>. SUFFICES ASSUME pc' \in {"readIds", "sweep"}
                  PROVE  kind = "polling" /\ \A k \in Wanted : Steady(k) => sink[k] = source[k]
      BY <2>1 DEF Wanted, Present, Steady
    <3>1. kind = "polling" /\ Page = NoRows /\ pc = "fetch"
      BY <1>2, <2>1 DEF Fetch, AfterRecovery
    <3>2. ASSUME NEW k \in Wanted, Steady(k) PROVE sink[k] = source[k]
      <4>1. ~ (last < k)
        BY <3>1, EmptyPage, NothingCutOff
      <4>2. k \in Int /\ last \in Int
        BY CursorIsInteger
      <4>. QED  BY <3>1, <3>2, <4>1, <4>2
    <3>. QED  BY <3>1, <3>2
  <2>6. pc' # "save" /\ pc' # "sweep"
    BY <1>2 DEF Fetch, AfterRecovery
  <2>. QED  BY <2>2, <2>3, <2>4, <2>5, <2>6
<1>3. CASE Upsert
  <2>1. ASSUME NEW k \in Wanted, k <= last PROVE k \notin DOMAIN page
    <3>1. k \in Int /\ last \in Int
      BY CursorIsInteger
    <3>. QED  BY <1>3, <2>1, <3>1 DEF Upsert
  <2>2. DOMAIN page \subseteq Keys
    BY DEF TypeInv, TypeOK
  <2>. QED  BY <1>3, <2>1, <2>2 DEF Upsert, sourceVars, Wanted, Present, Steady
<1>4. CASE SaveCursor
  <2>1. pc = "save" /\ last' \in DOMAIN page /\ \A j \in DOMAIN page : j <= last'
    BY <1>4, LastOfPage DEF SaveCursor
  <2>2. ASSUME NEW k \in Wanted, k <= last', Steady(k) PROVE sink[k] = source[k]
    <3>1. k \in Int /\ last \in Int
      BY CursorIsInteger
    <3>. QED  BY <2>1, <2>2, <3>1
  <2>. QED  BY <1>4, <2>2 DEF SaveCursor, sourceVars, Wanted, Present, Steady
<1>5. CASE ReadSourceIds
  BY <1>5 DEF ReadSourceIds, sourceVars, Wanted, Present, Steady
<1>6. CASE DeleteGhosts
  BY <1>6 DEF DeleteGhosts, AfterRecovery
<1>7. CASE SetupStateRow \/ CreateVectorizer
  BY <1>7 DEF SetupStateRow, CreateVectorizer
<1>8. CASE Stop \/ StepFails \/ Crash
  BY <1>8 DEF Stop, StepFails, Crash
<1>9. ASSUME NEW k \in Keys, NEW c \in Contents \cup {Gone}, Write(k, c) PROVE PassInv'
  <2>1. /\ UNCHANGED <<kind, passing, sink, pc, last, page, ids>>
        /\ \A h \in Keys : Steady(h)' => Steady(h) /\ source'[h] = source[h]
    BY <1>9 DEF Write, Steady, TypeInv, TypeOK
  <2>2. DOMAIN page \subseteq Keys
    BY DEF TypeInv, TypeOK
  <2>. QED  BY <2>1, <2>2 DEF Wanted, Present
<1>10. CASE UNCHANGED vars
  BY <1>10 DEF vars, sourceVars, bounds, Wanted, Present, Steady
<1>. QED  BY <1>1, <1>2, <1>3, <1>4, <1>5, <1>6, <1>7, <1>8, <1>9, <1>10 DEF Next, Pass

(* The cursor never runs ahead of the copy, whatever is written at the     *)
(* source and wherever a pass fails: what the source holds up to last_id,  *)
(* passes the filter and nobody touched since the pass began is in the     *)
(* sink (Applier.apply).                                                   *)
THEOREM NothingBehindCursorHolds == Spec => []NothingBehindCursor
<1>1. TypeInv /\ PassInv => NothingBehindCursor
  BY DEF PassInv
<1>. QED  BY <1>1, InitTypes, TypeStep, InitPass, PassStep, PTL DEF Spec

-----------------------------------------------------------------------------
(* The end of a pass.                                                      *)

Exact(k) == \/ sink'[k] = source[k]
            \/ source[k] # Gone /\ (CutOff(k) \/ source[k] \notin passing)
            \/ source[k] = Gone /\ kind # "polling"

LEMMA EndOfPass ==
  ASSUME TypeInv, PassInv, [Next]_vars, InPass, pc' \in {"setup", "idle"},
         UNCHANGED faults, NEW k \in Keys, Steady(k)
  PROVE  Exact(k)
<1>1. CASE Fetch
  <2>1. Page = NoRows /\ kind # "polling" /\ sink' = sink /\ pc = "fetch"
    BY <1>1 DEF Fetch
  <2>2. CASE source[k] = Gone
    BY <2>1, <2>2 DEF Exact
  <2>3. CASE source[k] # Gone /\ source[k] \in passing
    <3>1. k \in Wanted /\ k \in Int /\ last \in Int
      BY <2>3, KeysAreNaturals DEF Wanted, Present, TypeInv, TypeOK
    <3>2. CASE k <= last
      BY <2>1, <3>1, <3>2 DEF Exact, PassInv, NothingBehindCursor
    <3>3. CASE last < k
      BY <2>1, <2>3, <3>1, <3>3, EmptyPage DEF Exact
    <3>. QED  BY <3>1, <3>2, <3>3
  <2>4. CASE source[k] # Gone /\ source[k] \notin passing
    BY <2>4 DEF Exact
  <2>. QED  BY <2>2, <2>3, <2>4
<1>2. CASE DeleteGhosts
  <2>1. pc = "sweep" /\ sink'[k] = IF k \in ids THEN sink[k] ELSE Gone
    BY <1>2 DEF DeleteGhosts
  <2>2. k \in ids <=> source[k] # Gone
    BY <2>1 DEF PassInv, IdsFresh
  <2>3. source[k] # Gone /\ source[k] \in passing => sink[k] = source[k]
    BY <2>1 DEF PassInv, NothingLeft, Wanted, Present
  <2>. QED  BY <2>1, <2>2, <2>3 DEF Exact
<1>3. CASE Start \/ Upsert \/ SaveCursor \/ ReadSourceIds \/ SetupStateRow \/ CreateVectorizer
  BY <1>3 DEF InPass, Start, Upsert, SaveCursor, ReadSourceIds, SetupStateRow, CreateVectorizer
<1>4. CASE Stop \/ StepFails \/ Crash \/ \E j \in Keys, c \in Contents \cup {Gone} : Write(j, c)
  <2>1. faults \in Nat
    BY BoundsAssumption DEF TypeInv, TypeOK
  <2>2. faults # faults + 1
    BY <2>1
  <2>. QED  BY <1>4, <2>2 DEF InPass, Stop, StepFails, Crash, Fault, Write
<1>5. CASE UNCHANGED vars
  BY <1>5 DEF InPass, vars
<1>. QED  BY <1>1, <1>2, <1>3, <1>4, <1>5 DEF Next, Pass

(* A pass that ends without an error is complete: what passes the filter   *)
(* and nobody touched meanwhile is in the sink, but for objects behind a   *)
(* page of directory markers; and of a polled table no row is left that    *)
(* was gone (Applier.apply, fetch_batch, find_and_fix_ghost_records).      *)
THEOREM PassIsExactHolds == Spec => PassIsExact
<1>1. TypeInv /\ PassInv /\ [Next]_vars =>
        [InPass /\ pc' \in {"setup", "idle"} /\ UNCHANGED faults =>
           \A k \in Keys : Steady(k) =>
             \/ sink'[k] = source[k]
             \/ source[k] # Gone /\ (CutOff(k) \/ source[k] \notin passing)
             \/ source[k] = Gone /\ kind # "polling"]_vars
  BY EndOfPass DEF Exact
<1>. QED  BY <1>1, InitTypes, TypeStep, InitPass, PassStep, PTL DEF Spec, PassIsExact

-----------------------------------------------------------------------------
(* The way to the end: the steps a pass and the set-up after it still take *)
(* at most, three for every key that may come, and the last five.          *)

Busy == pc \notin {"down", "idle"}
StepsLeft ==
  IF ~ Busy THEN 0
  ELSE 3 * (MaxKey - last) + CASE pc = "fetch"   -> 5
                               [] pc = "upsert"  -> 4
                               [] pc = "save"    -> 3
                               [] pc = "readIds" -> 4
                               [] pc = "sweep"   -> 3
                               [] pc = "setup"   -> 2
                               [] pc = "create"  -> 1
PassGetsOn ==
  /\ [](StepsLeft \in Nat)
  /\ [][Busy => StepsLeft' <= StepsLeft /\ (Pass => StepsLeft' < StepsLeft)]_vars

LEMMA StepsLeftIsNatural == TypeInv => StepsLeft \in Nat
<1>. SUFFICES ASSUME TypeInv PROVE StepsLeft \in Nat
  OBVIOUS
<1>1. MaxKey - last \in Nat
  BY KeysAssumption DEF TypeInv, TypeOK, Keys
<1>2. CASE Busy
  <2>1. \/ pc \in {"fetch", "upsert", "save", "readIds", "sweep"}
        \/ pc \in {"setup", "create"}
    BY <1>2 DEF Busy, TypeInv, TypeOK
  <2>. QED  BY <1>1, <1>2, <2>1 DEF StepsLeft
<1>. QED  BY <1>2 DEF StepsLeft

LEMMA PassSteps ==
  ASSUME TypeInv, PassInv, Pass
  PROVE  StepsLeft' < StepsLeft /\ StepsLeft' <= StepsLeft
<1>1. MaxKey - last \in Nat /\ last \in Int /\ MaxKey \in Nat
  BY KeysAssumption DEF TypeInv, TypeOK, Keys
<1>2. CASE Fetch
  BY <1>1, <1>2 DEF Fetch, AfterRecovery, StepsLeft, Busy
<1>3. CASE Upsert \/ ReadSourceIds \/ DeleteGhosts \/ SetupStateRow \/ CreateVectorizer
  BY <1>1, <1>3 DEF Upsert, ReadSourceIds, DeleteGhosts, SetupStateRow, CreateVectorizer,
                    AfterRecovery, StepsLeft, Busy
<1>4. CASE SaveCursor
  <2>1. pc = "save" /\ pc' = "fetch" /\ last' \in DOMAIN page
    BY <1>4, LastOfPage DEF SaveCursor
  <2>2. last' \in Int /\ last' > last
    <3>1. last' \in Keys
      BY <2>1 DEF TypeInv, TypeOK
    <3>. QED  BY <2>1, <3>1, KeysAreNaturals DEF PassInv, PageFresh
  <2>3. \A m, n \in Int : m > n => 3 * (MaxKey - m) + 5 < 3 * (MaxKey - n) + 3
    BY <1>1
  <2>. QED  BY <1>1, <2>1, <2>2, <2>3 DEF StepsLeft, Busy
<1>. QED  BY <1>2, <1>3, <1>4 DEF Pass

(* A pass gets on with every step: whatever is written behind, ahead of or *)
(* under the cursor, and whatever a page is cut off at, each step leaves   *)
(* fewer to come, so that a pass that keeps running ends, as PassEnds says *)
(* (fetch_batch lists strictly behind last_id).                            *)
THEOREM PassGetsOnHolds == Spec => PassGetsOn
<1>1. TypeInv /\ PassInv /\ [Next]_vars =>
        [Busy => StepsLeft' <= StepsLeft /\ (Pass => StepsLeft' < StepsLeft)]_vars
  <2>. SUFFICES ASSUME TypeInv, PassInv, [Next]_vars, Busy
                PROVE  StepsLeft' <= StepsLeft /\ (Pass => StepsLeft' < StepsLeft)
    OBVIOUS
  <2>1. StepsLeft \in Nat
    BY StepsLeftIsNatural
  <2>2. CASE Pass
    BY <2>2, PassSteps
  <2>3. CASE Stop \/ StepFails \/ Crash
    <3>1. StepsLeft' = 0 /\ ~ Busy'
      BY <2>3 DEF Stop, StepFails, Crash, StepsLeft, Busy
    <3>. QED  BY <2>1, <2>2, <3>1
  <2>4. CASE UNCHANGED <<pc, last>>
    <3>1. StepsLeft' = StepsLeft
      BY <2>4 DEF StepsLeft, Busy
    <3>. QED  BY <2>1, <2>2, <3>1
  <2>. QED  BY <2>2, <2>3, <2>4 DEF Next, Busy, Start, Write, vars
<1>. QED  BY <1>1, StepsLeftIsNatural, InitTypes, TypeStep, InitPass, PassStep, PTL DEF Spec, PassGetsOn

=============================================================================
