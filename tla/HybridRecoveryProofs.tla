------------------------ MODULE HybridRecoveryProofs ------------------------
(***************************************************************************)
(* The safety properties of HybridRecovery, for every table, page size,    *)
(* bound and kind of surroundings the assumptions name.                    *)
(*                                                                         *)
(* The argument in three layers:                                           *)
(*   LossInv    types; log and table agree (LogAgrees); what a page or a   *)
(*              sweep holds is made up for by pending changes (PageFresh,  *)
(*              SweepFresh).  Inductive in any surroundings.               *)
(*   AloneInv   no subscription streams under a recovery, as long as no    *)
(*              live subscription is left without its slot (SlotsAreKept). *)
(*   AnchorInv  from discovery to the hand-over the slot is there, as long *)
(*              as, besides, no outage hid a missing slot (SourceAnswers). *)
(* CatchUpInv, on top of the first two, says what the catch-up leaves      *)
(* behind; the refinement of ReplicaContract uses all three layers.        *)
(***************************************************************************)
EXTENDS HybridRecovery, FiniteSetTheorems, SequenceTheorems, WellFoundedInduction, TLAPS

-----------------------------------------------------------------------------
(* Extrema of sets of keys: what ORDER BY p_key LIMIT n and rows[-1] rest  *)
(* on.                                                                     *)

LEMMA LeastKey ==
  ASSUME NEW S \in SUBSET Nat, S # {}
  PROVE  \E k \in S : \A j \in S : k <= j
<1>1. PICK k \in S : \A j \in S : ~ (<<j, k>> \in OpToRel(<, Nat))
  BY NatLessThanWellFounded, WFMin
<1>2. ASSUME NEW j \in S PROVE k <= j
  <2>1. <<j, k>> \in Nat \X Nat
    OBVIOUS
  <2>2. ~ (j < k)
    BY <1>1, <2>1 DEF OpToRel
  <2>. QED  BY <2>2
<1>. QED  BY <1>2

LEMMA GreatestKey ==
  ASSUME NEW S \in SUBSET Keys, S # {}
  PROVE  \E k \in S : \A j \in S : j <= k
<1>1. PICK top \in Keys : \A k \in Keys : k <= top
  BY KeysAssumption
<1>2. top \in Nat /\ \A k \in S : k \in Nat /\ k <= top
  BY <1>1, KeysAssumption
<1>. DEFINE Gap == {top - k : k \in S}
<1>3. Gap \in SUBSET Nat /\ Gap # {}
  <2>1. \A k \in S : top - k \in Nat
    BY <1>2
  <2>. QED  BY <2>1
<1>4. PICK g \in Gap : \A h \in Gap : g <= h
  BY <1>3, LeastKey
<1>5. PICK k \in S : g = top - k
  OBVIOUS
<1>6. \A j \in S : top - k <= top - j
  BY <1>4, <1>5
<1>. QED  BY <1>2, <1>6

(* A page is not empty when a row lies ahead of the cursor.                *)
LEMMA PageNotEmpty ==
  ASSUME NEW c \in Nat, Ahead(c) # {}
  PROVE  Page(c) # {}
<1>1. Ahead(c) \in SUBSET Nat
  BY KeysAssumption DEF Ahead
<1>2. PICK k \in Ahead(c) : \A j \in Ahead(c) : k <= j
  BY <1>1, LeastKey
<1>3. {j \in Ahead(c) : j < k} = {}
  BY <1>1, <1>2
<1>4. Cardinality({j \in Ahead(c) : j < k}) < BatchSize
  BY <1>3, FS_EmptySet, BatchAssumption
<1>. QED  BY <1>4 DEF Page

(* A page leaves out no row between the cursor and its last key.           *)
LEMMA PageIsPrefix ==
  ASSUME NEW c \in Nat, NEW k \in Page(c), NEW j \in Ahead(c), j <= k
  PROVE  j \in Page(c)
<1>1. Ahead(c) \in SUBSET Nat /\ Ahead(c) \in SUBSET Keys /\ k \in Ahead(c)
  BY KeysAssumption DEF Ahead, Page
<1>. DEFINE Below(i) == {h \in Ahead(c) : h < i}
<1>2. Below(j) \in SUBSET Below(k)
  BY <1>1
<1>3. IsFiniteSet(Below(k))
  BY <1>1, KeysAssumption, FS_Subset
<1>4. /\ Cardinality(Below(j)) <= Cardinality(Below(k))
      /\ Cardinality(Below(j)) \in Nat /\ Cardinality(Below(k)) \in Nat
  BY <1>2, <1>3, FS_Subset, FS_CardinalityType
<1>5. Cardinality(Below(k)) < BatchSize
  BY DEF Page
<1>6. Cardinality(Below(j)) < BatchSize
  BY <1>4, <1>5, BatchAssumption
<1>. QED  BY <1>6 DEF Page

LEMMA LastKeyIsGreatest ==
  ASSUME NEW page, DOMAIN page \in SUBSET Keys, DOMAIN page # {}
  PROVE  LastKey(page) \in DOMAIN page /\ \A j \in DOMAIN page : j <= LastKey(page)
BY GreatestKey DEF LastKey

-----------------------------------------------------------------------------
(* Types.                                                                  *)

(* A page on its way to the sink holds at least one row.                   *)
PageHeld == pc \in {"upsert", "saveCursor"} => DOMAIN batch # {}

TypeInv == TypeOK /\ PageHeld

LEMMA TypeInit == Init => TypeInv
<1>. SUFFICES ASSUME Init PROVE TypeInv
  OBVIOUS
<1>. USE DEF Init
<1>1. DatabasesOK
  <2>1. wal \in Seq(Change) /\ Len(wal) = 0
    BY EmptySeq
  <2>2. source \in [Keys -> Content] /\ sink \in [Keys -> Content]
    BY BoundsAssumption DEF Content
  <2>3. state \in [exists : BOOLEAN, last : Keys \cup {0}, lsn : BOOLEAN]
    BY DEF NoState
  <2>4. Len(wal) <= MaxWrites
    BY <2>1, BoundsAssumption
  <2>5. published \in BOOLEAN /\ vectorizer \in BOOLEAN
    BY Zenon
  <2>. QED  BY <2>1, <2>2, <2>3, <2>4, <2>5 DEF DatabasesOK
<1>2. ProgressOK
  BY BoundsAssumption DEF ProgressOK, Steps
<1>3. LocalsOK
  BY DEF LocalsOK, EmptyPage, NoOpts
<1>4. PageHeld
  BY DEF PageHeld
<1>. QED  BY <1>1, <1>2, <1>3, <1>4 DEF TypeInv, TypeOK

(* The actions that leave the daemon's variables alone.                    *)
LEMMA TypeEnvironment ==
  ASSUME TypeInv, Application \/ ApplyChange \/ TableCopy \/ SlotLost
  PROVE  TypeInv'
<1>. USE DEF TypeInv, TypeOK
<1>1. UNCHANGED daemonVars \/ SlotLost
  BY DEF Application, Insert, Update, Delete, Write, ApplyChange, TableCopy
<1>2. (ProgressOK /\ LocalsOK /\ PageHeld)'
  <2>1. CASE UNCHANGED daemonVars
    BY <2>1 DEF daemonVars, runVars, localVars, ProgressOK, LocalsOK, PageHeld
  <2>2. CASE SlotLost
    BY <2>2 DEF SlotLost, localVars, ProgressOK, LocalsOK, PageHeld
  <2>. QED  BY <1>1, <2>1, <2>2
<1>3. ASSUME NEW k \in Keys, NEW op \in {"insert", "update", "delete"},
             NEW content \in {0, Len(wal) + 1}, Write(k, op, content)
      PROVE  DatabasesOK'
  <2>1. [key |-> k, op |-> op] \in Change
    BY DEF Change
  <2>2. wal' \in Seq(Change) /\ Len(wal') = Len(wal) + 1 /\ Len(wal) \in Nat
    BY <1>3, <2>1, AppendProperties, LenProperties DEF Write, DatabasesOK
  <2>3. source' \in [Keys -> Content]
    BY <1>3, <2>2, BoundsAssumption DEF Write, DatabasesOK, Content
  <2>4. slot' \in {NoSlot} \cup 0 .. Len(wal')
    BY <1>3, <2>2 DEF Write, DatabasesOK
  <2>. QED
    BY <1>3, <2>2, <2>3, <2>4, BoundsAssumption DEF Write, DatabasesOK
<1>4. CASE Application
  BY <1>2, <1>3, <1>4 DEF Application, Insert, Update, Delete
<1>5. CASE ApplyChange
  <2>1. Len(wal) \in Nat /\ slot \in 0 .. Len(wal) /\ slot < Len(wal) /\ Len(wal) <= MaxWrites
    BY <1>5, LenProperties DEF ApplyChange, Attached, DatabasesOK
  <2>2. slot' \in 0 .. Len(wal) /\ slot + 1 \in Content /\ 0 \in Content
    BY <1>5, <2>1, BoundsAssumption DEF ApplyChange, Content
  <2>3. sink' \in [Keys -> Content]
    BY <1>5, <2>2 DEF ApplyChange, DatabasesOK
  <2>. QED
    BY <1>2, <1>5, <2>2, <2>3 DEF ApplyChange, DatabasesOK
<1>6. CASE TableCopy
  <2>1. sink' \in [Keys -> Content]
    BY <1>6 DEF TableCopy, DatabasesOK
  <2>. QED
    BY <1>2, <1>6, <2>1, LenProperties DEF TableCopy, DatabasesOK
<1>7. CASE SlotLost
  BY <1>2, <1>7 DEF SlotLost, DatabasesOK
<1>. QED  BY <1>4, <1>5, <1>6, <1>7

(* The reconciliation and its recovery.                                    *)
LEMMA TypeReconcile ==
  ASSUME TypeInv, Reconcile
  PROVE  TypeInv'
<1>. USE DEF TypeInv, TypeOK
<1>1. CASE DiscoverSource
  <2>1. vectorizer' \in BOOLEAN
    BY <1>1, Zenon DEF DiscoverSource, DatabasesOK
  <2>2. plan' \subseteq {"SOURCE_SETUP", "SINK_RECOVERY", "SINK_VECTORIZER_SETUP"}
    BY <1>1 DEF DiscoverSource
  <2>3. mishaps' \subseteq {"leftover", "outage"}
    BY <1>1 DEF DiscoverSource, ProgressOK
  <2>. QED
    BY <1>1, <2>1, <2>2, <2>3
    DEF DiscoverSource, DatabasesOK, ProgressOK, LocalsOK, PageHeld, localVars, Steps
<1>2. CASE DiscoverSink
  <2>1. plan' \subseteq {"SOURCE_SETUP", "SINK_RECOVERY", "SINK_VECTORIZER_SETUP"}
    BY <1>2, Zenon DEF DiscoverSink, ProgressOK
  <2>2. pc' \in {"sourceSetup", "createSlot", "stateRow", "serving"}
    BY <1>2 DEF DiscoverSink, AfterSourceSetup, AfterRecovery
  <2>. QED
    BY <1>2, <2>1, <2>2
    DEF DiscoverSink, DatabasesOK, ProgressOK, LocalsOK, PageHeld, dbVars, localVars,
        Steps, ApplySteps, RecoverySteps, SetupSteps
<1>3. CASE SourceSetup
  <2>1. pc' \in {"createSlot", "stateRow", "serving"}
    BY <1>3 DEF SourceSetup, AfterSourceSetup, AfterRecovery
  <2>2. published' \in BOOLEAN
    BY <1>3, Zenon DEF SourceSetup
  <2>. QED
    BY <1>3, <2>1, <2>2
    DEF SourceSetup, DatabasesOK, ProgressOK, LocalsOK, PageHeld, runVars, localVars,
        Steps, ApplySteps, RecoverySteps, SetupSteps
<1>4. CASE CreateSlot
  BY <1>4, LenProperties
  DEF CreateSlot, DatabasesOK, ProgressOK, LocalsOK, PageHeld, runVars, localVars,
      Steps, ApplySteps, RecoverySteps
<1>5. CASE SaveLsn
  BY <1>5
  DEF SaveLsn, DatabasesOK, ProgressOK, LocalsOK, PageHeld, runVars, localVars,
      Steps, ApplySteps, RecoverySteps
<1>6. CASE ReadState
  BY <1>6
  DEF ReadState, DatabasesOK, ProgressOK, LocalsOK, PageHeld, dbVars, runVars,
      Steps, ApplySteps, RecoverySteps, CatchUpSteps
<1>7. CASE Fetch
  <2>1. Page(cursor) \subseteq Keys /\ \A k \in Page(cursor) : source[k] # 0
    BY MatchingAssumption DEF Page, Ahead
  <2>2. DOMAIN batch' \subseteq Keys /\ \A k \in DOMAIN batch' : batch'[k] \in Content \ {0}
    BY <1>7, <2>1 DEF Fetch, DatabasesOK, LocalsOK
  <2>3. PageHeld'
    BY <1>7 DEF Fetch, PageHeld
  <2>. QED
    BY <1>7, <2>2, <2>3
    DEF Fetch, DatabasesOK, ProgressOK, LocalsOK, dbVars, runVars,
        Steps, ApplySteps, RecoverySteps, CatchUpSteps, SweepSteps
<1>8. CASE Upsert
  <2>1. sink' \in [Keys -> Content]
    BY <1>8 DEF Upsert, DatabasesOK, LocalsOK
  <2>. QED
    BY <1>8, <2>1
    DEF Upsert, DatabasesOK, ProgressOK, LocalsOK, PageHeld, runVars, localVars,
        Steps, ApplySteps, RecoverySteps, CatchUpSteps
<1>9. CASE SaveCursor
  <2>1. LastKey(batch) \in Keys
    BY <1>9, LastKeyIsGreatest DEF SaveCursor, LocalsOK, PageHeld
  <2>2. state' \in [exists : BOOLEAN, last : Keys \cup {0}, lsn : BOOLEAN]
    BY <1>9, <2>1 DEF SaveCursor, DatabasesOK
  <2>3. DOMAIN batch' = {}
    BY <1>9 DEF SaveCursor, EmptyPage
  <2>. QED
    BY <1>9, <2>1, <2>2, <2>3
    DEF SaveCursor, DatabasesOK, ProgressOK, LocalsOK, PageHeld, runVars,
        Steps, ApplySteps, RecoverySteps, CatchUpSteps
<1>10. CASE ReadSourceIds
  BY <1>10
  DEF ReadSourceIds, DatabasesOK, ProgressOK, LocalsOK, PageHeld, dbVars, runVars,
      Steps, ApplySteps, RecoverySteps, SweepSteps
<1>11. CASE ReadSinkIds
  BY <1>11
  DEF ReadSinkIds, DatabasesOK, ProgressOK, LocalsOK, PageHeld, dbVars, runVars,
      Steps, ApplySteps, RecoverySteps, SweepSteps
<1>12. CASE DeleteGhosts
  <2>1. sink' \in [Keys -> Content]
    BY <1>12, BoundsAssumption DEF DeleteGhosts, DatabasesOK, Content
  <2>2. pc' \in {"stateRow", "serving"}
    BY <1>12 DEF DeleteGhosts, AfterRecovery
  <2>. QED
    BY <1>12, <2>1, <2>2
    DEF DeleteGhosts, NoLocals, EmptyPage, NoOpts, DatabasesOK, ProgressOK, LocalsOK,
        PageHeld, runVars, Steps, ApplySteps, SetupSteps
<1>13. CASE SetupStateRow
  BY <1>13
  DEF SetupStateRow, DatabasesOK, ProgressOK, LocalsOK, PageHeld, runVars, localVars,
      Steps, ApplySteps, SetupSteps
<1>14. CASE CreateVectorizer
  <2>1. vectorizer' \in BOOLEAN
    BY <1>14, Zenon DEF CreateVectorizer
  <2>. QED
    BY <1>14, <2>1
    DEF CreateVectorizer, DatabasesOK, ProgressOK, LocalsOK, PageHeld, runVars, localVars,
        Steps, ApplySteps, SetupSteps
<1>15. CASE Decide
  <2>1. opts' \in [copy : BOOLEAN, create : BOOLEAN]
    <3>. DEFINE copy   == ~Attached /\ state.last = 0 /\ ~state.lsn
                create == ~Attached
    <3>1. copy \in BOOLEAN /\ create \in BOOLEAN
      BY Zenon
    <3>2. opts' = opts \/ opts' = [copy |-> copy, create |-> create]
      BY <1>15, Zenon DEF Decide
    <3>. HIDE DEF copy, create
    <3>. QED  BY <3>1, <3>2 DEF LocalsOK
  <2>. QED
    BY <1>15, <2>1
    DEF Decide, DatabasesOK, ProgressOK, LocalsOK, PageHeld, dbVars, runVars,
        Steps, ApplySteps, SetupSteps
<1>16. CASE Subscribe
  <2>1. slot' \in {NoSlot} \cup 0 .. Len(wal)
    BY <1>16, LenProperties DEF Subscribe, DatabasesOK
  <2>. QED
    BY <1>16, <2>1
    DEF Subscribe, NoLocals, EmptyPage, NoOpts, DatabasesOK, ProgressOK, LocalsOK,
        PageHeld, runVars, Steps
<1>17. CASE Enable
  BY <1>17
  DEF Enable, NoLocals, EmptyPage, NoOpts, DatabasesOK, ProgressOK, LocalsOK,
      PageHeld, runVars, Steps
<1>. QED
  BY Reconcile, <1>1, <1>2, <1>3, <1>4, <1>5, <1>6, <1>7, <1>8, <1>9, <1>10, <1>11, <1>12,
     <1>13, <1>14, <1>15, <1>16, <1>17 DEF Reconcile

(* Starting, serving, tearing down and failing.                            *)
LEMMA TypeLifecycle ==
  ASSUME TypeInv, Start \/ SelfDestruct \/ Stop \/ Teardown \/ StepFails \/ Crash
  PROVE  TypeInv'
<1>. USE DEF TypeInv, TypeOK
<1>1. CASE Start
  BY <1>1, BoundsAssumption
  DEF Start, DatabasesOK, ProgressOK, LocalsOK, PageHeld, dbVars, localVars, Steps
<1>2. CASE SelfDestruct \/ Stop
  <2>1. pc' = "disable" /\ (NoLocals \/ UNCHANGED localVars)
    BY <1>2 DEF SelfDestruct, Stop
  <2>2. LocalsOK' /\ PageHeld'
    <3>1. CASE NoLocals
      BY <2>1, <3>1 DEF NoLocals, EmptyPage, NoOpts, LocalsOK, PageHeld
    <3>2. CASE UNCHANGED localVars
      BY <2>1, <3>2 DEF LocalsOK, PageHeld, localVars
    <3>. QED  BY <2>1, <3>1, <3>2
  <2>3. DatabasesOK' /\ ProgressOK'
    BY <1>2
    DEF SelfDestruct, Stop, DatabasesOK, ProgressOK, dbVars, Steps, SinkTeardown
  <2>. QED  BY <2>2, <2>3
<1>3. CASE Disable \/ Detach \/ DropSubscription \/ DropVectorizer \/ SinkTeardownFails
  <2>1. vectorizer' \in BOOLEAN
    BY <1>3, Zenon
    DEF Disable, Detach, DropSubscription, DropVectorizer, SinkTeardownFails, dbVars, DatabasesOK
  <2>2. sub' \in {"none", "copying", "streaming", "pausedCopy", "paused", "disabled"}
    BY <1>3
    DEF Disable, Detach, DropSubscription, DropVectorizer, SinkTeardownFails, dbVars, DatabasesOK
  <2>3. mishaps' \subseteq {"leftover", "outage"}
    BY <1>3
    DEF Disable, Detach, DropSubscription, DropVectorizer, SinkTeardownFails, runVars, ProgressOK
  <2>4. pc' \in {"detach", "dropSubscription", "dropVectorizer", "dropSlot"}
    BY <1>3 DEF Disable, Detach, DropSubscription, DropVectorizer, SinkTeardownFails
  <2>5. UNCHANGED <<source, wal, published, slot, sink, state, mode, boots, plan, localVars>>
    BY <1>3
    DEF Disable, Detach, DropSubscription, DropVectorizer, SinkTeardownFails, dbVars, runVars
  <2>. QED
    BY <2>1, <2>2, <2>3, <2>4, <2>5
    DEF DatabasesOK, ProgressOK, LocalsOK, PageHeld, localVars, Steps, SinkTeardown
<1>4. CASE DropSlot
  BY <1>4
  DEF DropSlot, DatabasesOK, ProgressOK, LocalsOK, PageHeld, runVars, localVars, Steps
<1>5. CASE StepFails \/ Crash
  <2>1. NoLocals /\ pc' \in {"serving", "down"}
    BY <1>5 DEF StepFails, Crash
  <2>2. LocalsOK' /\ PageHeld'
    BY <2>1 DEF NoLocals, EmptyPage, NoOpts, LocalsOK, PageHeld
  <2>3. DatabasesOK' /\ ProgressOK'
    BY <1>5 DEF StepFails, Crash, DatabasesOK, ProgressOK, dbVars, runVars, Steps
  <2>. QED  BY <2>2, <2>3
<1>. QED  BY <1>1, <1>2, <1>3, <1>4, <1>5 DEF Teardown

LEMMA TypeStutter == TypeInv /\ UNCHANGED vars => TypeInv'
BY DEF TypeInv, TypeOK, DatabasesOK, ProgressOK, LocalsOK, PageHeld, vars, dbVars,
       daemonVars, runVars, localVars

(* Every variable stays in its domain, for every table, every bound and    *)
(* every kind of surroundings: in particular the cursor is always a key    *)
(* of the table or 0, and no log position passes the end of the log.       *)
THEOREM TypeCorrect == Spec => []TypeOK
<1>1. TypeInv /\ [Next]_vars => TypeInv'
  BY TypeEnvironment, TypeReconcile, TypeLifecycle, TypeStutter DEF Next
<1>2. TypeInv => TypeOK
  BY DEF TypeInv
<1>. QED  BY TypeInit, <1>1, <1>2, PTL DEF Spec

-----------------------------------------------------------------------------
(* What is pending, and what "lost" comes down to.                         *)

Reinserted(k) == \E i \in Pending(k) : wal[i].op = "insert"

(* A lost key differs from its source, and no pending change repairs it.   *)
LEMMA LostMeans ==
  ASSUME NEW k \in Keys
  PROVE  Lost(k) <=> /\ sink[k] # source[k]
                     /\ Pending(k) = {} \/ (sink[k] = 0 /\ ~Reinserted(k))
<1>1. (\A i \in Pending(k) : wal[i].op # "insert") <=> ~Reinserted(k)
  BY DEF Reinserted
<1>2. CASE Pending(k) = {}
  BY <1>2 DEF Lost, Replayed
<1>3. CASE Pending(k) # {} /\ sink[k] = 0 /\ ~Reinserted(k)
  BY <1>1, <1>3 DEF Lost, Replayed
<1>4. CASE Pending(k) # {} /\ ~(sink[k] = 0 /\ ~Reinserted(k))
  BY <1>1, <1>4 DEF Lost, Replayed
<1>. QED  BY <1>2, <1>3, <1>4

LEMMA LostMeansNext ==
  ASSUME NEW k \in Keys
  PROVE  Lost(k)' <=> /\ sink'[k] # source'[k]
                      /\ Pending(k)' = {} \/ (sink'[k] = 0 /\ ~Reinserted(k)')
<1>1. (\A i \in Pending(k)' : wal'[i].op # "insert") <=> ~Reinserted(k)'
  BY DEF Reinserted
<1>2. CASE Pending(k)' = {}
  BY <1>2 DEF Lost, Replayed
<1>3. CASE Pending(k)' # {} /\ sink'[k] = 0 /\ ~Reinserted(k)'
  BY <1>1, <1>3 DEF Lost, Replayed
<1>4. CASE Pending(k)' # {} /\ ~(sink'[k] = 0 /\ ~Reinserted(k)')
  BY <1>1, <1>4 DEF Lost, Replayed
<1>. QED  BY <1>2, <1>3, <1>4

LEMMA SameLog ==
  ASSUME NEW k \in Keys, UNCHANGED <<wal, slot>>
  PROVE  Pending(k)' = Pending(k) /\ (Reinserted(k)' <=> Reinserted(k))
BY DEF Pending, Reinserted, Attached

LEMMA SameData ==
  ASSUME NEW k \in Keys, UNCHANGED <<source, wal, slot, sink>>
  PROVE  Lost(k)' <=> Lost(k)
BY DEF Lost, Replayed, Pending, Attached

LEMMA NothingPendingDetached ==
  ASSUME NEW k \in Keys, ~Attached
  PROVE  Pending(k) = {}
BY DEF Pending

LEMMA LogIsTyped ==
  ASSUME DatabasesOK
  PROVE  /\ Len(wal) \in Nat /\ DOMAIN wal = 1 .. Len(wal)
         /\ \A i \in 1 .. Len(wal) : /\ wal[i].key \in Keys
                                     /\ wal[i].op \in {"insert", "update", "delete"}
<1>1. wal \in Seq(Change)
  BY DEF DatabasesOK
<1>2. Len(wal) \in Nat /\ DOMAIN wal = 1 .. Len(wal)
  BY <1>1, LenProperties
<1>3. \A i \in 1 .. Len(wal) : wal[i] \in Change
  BY <1>1, ElementOfSeq
<1>. QED  BY <1>2, <1>3 DEF Change

(* The log after a write.                                                  *)
LEMMA WrittenLog ==
  ASSUME DatabasesOK, NEW k \in Keys, NEW op \in {"insert", "update", "delete"},
         NEW content, Write(k, op, content)
  PROVE  /\ Len(wal') = Len(wal) + 1 /\ DOMAIN wal' = 1 .. Len(wal) + 1
         /\ \A i \in 1 .. Len(wal) : wal'[i] = wal[i]
         /\ wal'[Len(wal) + 1] = [key |-> k, op |-> op]
         /\ source' = [source EXCEPT ![k] = content]
         /\ UNCHANGED <<slot, sub, sink, pc, batch, sourceIds, sinkIds, from, cursor>>
<1>1. wal \in Seq(Change) /\ [key |-> k, op |-> op] \in Change
  BY DEF DatabasesOK, Change
<1>2. wal' = Append(wal, [key |-> k, op |-> op])
  BY DEF Write
<1>3. wal' \in Seq(Change)
  BY <1>1, <1>2, AppendProperties
<1>. QED
  BY <1>1, <1>2, <1>3, AppendProperties, LenProperties
  DEF Write, daemonVars, localVars

(* A write joins the pending changes of its key when a slot exists.        *)
LEMMA WritePending ==
  ASSUME DatabasesOK, NEW k \in Keys, NEW op \in {"insert", "update", "delete"},
         NEW content, Write(k, op, content), Attached, NEW j \in Keys
  PROVE  /\ Attached'
         /\ j # k => Pending(j)' = Pending(j) /\ (Reinserted(j)' <=> Reinserted(j))
         /\ j = k => /\ Pending(j)' # {}
                     /\ Reinserted(j)' <=> (Reinserted(j) \/ op = "insert")
<1>1. /\ Len(wal) \in Nat /\ DOMAIN wal = 1 .. Len(wal)
      /\ slot \in 0 .. Len(wal)
  BY LogIsTyped DEF DatabasesOK, Attached
<1>2. /\ DOMAIN wal' = 1 .. Len(wal) + 1 /\ slot' = slot
      /\ \A i \in 1 .. Len(wal) : wal'[i] = wal[i]
      /\ wal'[Len(wal) + 1] = [key |-> k, op |-> op]
  BY WrittenLog
<1>3. Attached'
  BY <1>2 DEF Attached
<1>4. Pending(j)' = Pending(j) \cup (IF j = k THEN {Len(wal) + 1} ELSE {})
  BY <1>1, <1>2, <1>3 DEF Pending
<1>5. \A i \in Pending(j) : wal'[i] = wal[i]
  BY <1>1, <1>2 DEF Pending
<1>. QED  BY <1>2, <1>3, <1>4, <1>5 DEF Reinserted

-----------------------------------------------------------------------------
(* The log and the table agree.                                            *)

Newest(k, i) == wal[i].key = k /\ \A j \in DOMAIN wal : wal[j].key = k => j <= i

(* The newest change of a key tells the row's content, a row is what some  *)
(* change of it wrote, and a deleted key comes back only by an INSERT.     *)
LogAgrees ==
  /\ \A k \in Keys : \A i \in DOMAIN wal :
       Newest(k, i) => source[k] = (IF wal[i].op = "delete" THEN 0 ELSE i)
  /\ \A k \in Keys : source[k] # 0 =>
       source[k] \in DOMAIN wal /\ wal[source[k]].key = k /\ wal[source[k]].op # "delete"
  /\ \A i \in DOMAIN wal :
       wal[i].op = "delete" /\ source[wal[i].key] # 0 =>
         \E j \in DOMAIN wal : i < j /\ wal[j].key = wal[i].key /\ wal[j].op = "insert"

(* The content that each kind of write leaves behind.                      *)
Writes(k, op, content) ==
  /\ Write(k, op, content)
  /\ \/ op = "insert" /\ content = Len(wal) + 1 /\ source[k] = 0
     \/ op = "update" /\ content = Len(wal) + 1 /\ source[k] # 0
     \/ op = "delete" /\ content = 0 /\ source[k] # 0

LEMMA ApplicationWrites ==
  ASSUME Application
  PROVE  \E k \in Keys, op \in {"insert", "update", "delete"}, content \in {0, Len(wal) + 1} :
           Writes(k, op, content)
<1>1. PICK k \in Keys : Insert(k) \/ Update(k) \/ Delete(k)
  BY DEF Application
<1>2. CASE Insert(k)
  BY <1>2 DEF Insert, Writes
<1>3. CASE Update(k)
  BY <1>3 DEF Update, Writes
<1>4. CASE Delete(k)
  BY <1>4 DEF Delete, Writes
<1>. QED  BY <1>1, <1>2, <1>3, <1>4

LEMMA LogAgreesAfterWrite ==
  ASSUME DatabasesOK, LogAgrees, NEW k \in Keys, NEW op \in {"insert", "update", "delete"},
         NEW content \in {0, Len(wal) + 1}, Writes(k, op, content)
  PROVE  LogAgrees'
<1>. DEFINE n == Len(wal)
<1>1. /\ n \in Nat /\ DOMAIN wal = 1 .. n
      /\ \A i \in 1 .. n : wal[i].key \in Keys /\ wal[i].op \in {"insert", "update", "delete"}
  BY LogIsTyped
<1>2. /\ DOMAIN wal' = 1 .. n + 1
      /\ \A i \in 1 .. n : wal'[i] = wal[i]
      /\ wal'[n + 1] = [key |-> k, op |-> op]
      /\ source' = [source EXCEPT ![k] = content]
  <2>1. Write(k, op, content)
    BY DEF Writes
  <2>. QED  BY <2>1, WrittenLog
<1>3. source'[k] = content /\ \A j \in Keys \ {k} : source'[j] = source[j]
  BY <1>2 DEF DatabasesOK
<1>. HIDE DEF n
<1>4. ASSUME NEW j \in Keys, NEW i \in DOMAIN wal', Newest(j, i)'
      PROVE  source'[j] = (IF wal'[i].op = "delete" THEN 0 ELSE i)
  <2>1. CASE j = k
    <3>1. i = n + 1
      BY <1>1, <1>2, <1>4, <2>1 DEF Newest
    <3>. QED  BY <1>2, <1>3, <2>1, <3>1 DEF Writes, n
  <2>2. CASE j # k
    <3>1. i \in 1 .. n /\ wal'[i] = wal[i]
      BY <1>1, <1>2, <1>4, <2>2 DEF Newest
    <3>2. Newest(j, i)
      BY <1>1, <1>2, <1>4, <3>1 DEF Newest
    <3>. QED  BY <1>1, <1>3, <2>2, <3>1, <3>2 DEF LogAgrees
  <2>. QED  BY <2>1, <2>2
<1>5. ASSUME NEW i \in DOMAIN wal', wal'[i].op = "delete", source'[wal'[i].key] # 0
      PROVE  \E j \in DOMAIN wal' :
               i < j /\ wal'[j].key = wal'[i].key /\ wal'[j].op = "insert"
  <2>1. i \in 1 .. n /\ wal'[i] = wal[i]
    <3>1. ASSUME i = n + 1 PROVE FALSE
      <4>1. wal'[i].key = k /\ wal'[i].op = op
        BY <1>2, <3>1
      <4>. QED  BY <1>3, <1>5, <4>1 DEF Writes
    <3>. QED  BY <1>1, <1>2, <3>1
  <2>2. CASE source[wal[i].key] # 0
    <3>1. PICK j \in DOMAIN wal : i < j /\ wal[j].key = wal[i].key /\ wal[j].op = "insert"
      BY <1>1, <1>5, <2>1, <2>2 DEF LogAgrees
    <3>. QED  BY <1>1, <1>2, <2>1, <3>1
  <2>3. CASE source[wal[i].key] = 0
    <3>1. wal[i].key = k /\ op = "insert"
      BY <1>1, <1>3, <1>5, <2>1, <2>3 DEF Writes
    <3>. QED  BY <1>1, <1>2, <2>1, <3>1
  <2>. QED  BY <2>2, <2>3
<1>6. ASSUME NEW j \in Keys, source'[j] # 0
      PROVE  /\ source'[j] \in DOMAIN wal'
             /\ wal'[source'[j]].key = j /\ wal'[source'[j]].op # "delete"
  <2>1. CASE j = k
    BY <1>1, <1>2, <1>3, <1>6, <2>1 DEF Writes, n
  <2>2. CASE j # k
    <3>1. source'[j] = source[j] /\ source[j] \in 1 .. n
      BY <1>1, <1>3, <1>6, <2>2 DEF LogAgrees
    <3>. QED  BY <1>1, <1>2, <1>6, <2>2, <3>1 DEF LogAgrees
  <2>. QED  BY <2>1, <2>2
<1>. QED  BY <1>4, <1>5, <1>6 DEF LogAgrees

-----------------------------------------------------------------------------
(* What a recovery holds in its hands may be old, but never without a      *)
(* pending change that makes up for it.                                    *)

(* A row of the page still says what the source says, or a change of it is *)
(* pending.                                                                *)
PageFresh ==
  pc \in {"upsert", "saveCursor"} /\ Attached /\ Alone =>
    \A k \in DOMAIN batch : batch[k] = source[k] \/ Pending(k) # {}

(* A key the sweep did not see on the source is still absent there, or its *)
(* INSERT is pending; a key it saw is still there, or a change is pending. *)
SweepFresh ==
  pc \in {"readSinkIds", "deleteGhosts"} /\ Attached /\ Alone =>
    \A k \in Keys : /\ k \notin sourceIds => source[k] = 0 \/ Reinserted(k)
                    /\ k \in sourceIds => source[k] # 0 \/ Pending(k) # {}

LossInv == TypeInv /\ LogAgrees /\ PageFresh /\ SweepFresh

LEMMA LossInit == Init => LossInv
<1>. SUFFICES ASSUME Init PROVE LossInv
  OBVIOUS
<1>1. TypeInv
  BY TypeInit
<1>2. DOMAIN wal = {}
  BY DEF Init
<1>. QED  BY <1>1, <1>2 DEF Init, LossInv, LogAgrees, PageFresh, SweepFresh

LEMMA FreshAfterWrite ==
  ASSUME LossInv, NEW k \in Keys, NEW op \in {"insert", "update", "delete"},
         NEW content \in {0, Len(wal) + 1}, Writes(k, op, content)
  PROVE  PageFresh' /\ SweepFresh'
<1>1. Write(k, op, content) /\ DatabasesOK /\ LocalsOK
  BY DEF Writes, LossInv, TypeInv, TypeOK
<1>2. /\ source' = [source EXCEPT ![k] = content]
      /\ UNCHANGED <<slot, sub, sink, pc, batch, sourceIds>>
  BY <1>1, WrittenLog
<1>3. source'[k] = content /\ \A j \in Keys \ {k} : source'[j] = source[j]
  BY <1>1, <1>2 DEF DatabasesOK
<1>4. Attached' => Attached
  BY <1>2 DEF Attached
<1>5. Attached => \A j \in Keys :
        /\ j # k => Pending(j)' = Pending(j) /\ (Reinserted(j)' <=> Reinserted(j))
        /\ j = k => /\ Pending(j)' # {}
                    /\ Reinserted(j)' <=> (Reinserted(j) \/ op = "insert")
  BY <1>1, WritePending
<1>6. PageFresh'
  BY <1>1, <1>2, <1>3, <1>4, <1>5 DEF LossInv, PageFresh, Alone, LocalsOK
<1>7. SweepFresh'
  <2>. SUFFICES ASSUME pc' \in {"readSinkIds", "deleteGhosts"}, Attached', Alone', NEW j \in Keys
                PROVE  /\ j \notin sourceIds' => source'[j] = 0 \/ Reinserted(j)'
                       /\ j \in sourceIds' => source'[j] # 0 \/ Pending(j)' # {}
    BY DEF SweepFresh
  <2>1. /\ j \notin sourceIds => source[j] = 0 \/ Reinserted(j)
        /\ j \in sourceIds => source[j] # 0 \/ Pending(j) # {}
    BY <1>2, <1>4 DEF LossInv, SweepFresh, Alone
  <2>2. CASE j # k
    BY <1>2, <1>3, <1>4, <1>5, <2>1, <2>2
  <2>3. CASE j = k
    BY <1>2, <1>3, <1>4, <1>5, <2>1, <2>3 DEF Writes
  <2>. QED  BY <2>2, <2>3
<1>. QED  BY <1>6, <1>7

(* Whatever else happens leaves source and log alone.                      *)
LEMMA LogAgreesOtherwise ==
  ASSUME LogAgrees, UNCHANGED <<source, wal>>
  PROVE  LogAgrees'
BY DEF LogAgrees, Newest

LEMMA OnlyApplicationWrites ==
  ASSUME [Next]_vars, ~Application
  PROVE  UNCHANGED <<source, wal>>
BY DEF Next, ApplyChange, TableCopy, SlotLost, Start, Reconcile, DiscoverSource, DiscoverSink,
       SourceSetup, CreateSlot, SaveLsn, ReadState, Fetch, Upsert, SaveCursor, ReadSourceIds,
       ReadSinkIds, DeleteGhosts, SetupStateRow, CreateVectorizer, Enable, Decide, Subscribe,
       SelfDestruct, Stop, Teardown, Disable, Detach, DropSubscription, DropVectorizer,
       SinkTeardownFails, DropSlot, StepFails, Crash, vars, dbVars

LEMMA FreshOtherwise ==
  ASSUME LossInv, [Next]_vars, ~Application
  PROVE  PageFresh' /\ SweepFresh'
<1>. USE DEF LossInv, TypeInv, TypeOK
<1>1. CASE ApplyChange \/ TableCopy \/ SlotLost
  BY <1>1 DEF ApplyChange, TableCopy, SlotLost, PageFresh, SweepFresh, Alone, Attached
<1>2. CASE Fetch
  <2>1. UNCHANGED <<source, wal, slot, sub>> /\ pc' \in {"readSourceIds", "upsert"}
    BY <1>2 DEF Fetch, dbVars
  <2>2. pc' = "upsert" => \A k \in DOMAIN batch' : batch'[k] = source[k]
    BY <1>2 DEF Fetch
  <2>. QED  BY <2>1, <2>2 DEF PageFresh, SweepFresh
<1>3. CASE Upsert
  <2>1. UNCHANGED <<source, wal, slot, sub, batch>> /\ pc = "upsert" /\ pc' = "saveCursor"
    BY <1>3 DEF Upsert, localVars
  <2>2. \A k \in Keys : Pending(k)' = Pending(k)
    BY <2>1, SameLog
  <2>3. (Attached' => Attached) /\ (Alone' => Alone) /\ DOMAIN batch \subseteq Keys
    BY <2>1 DEF Attached, Alone, LocalsOK
  <2>. QED  BY <2>1, <2>2, <2>3 DEF PageFresh, SweepFresh
<1>4. CASE ReadSourceIds
  <2>1. UNCHANGED <<source, wal, slot, sub>> /\ pc' = "readSinkIds"
        /\ sourceIds' = {k \in Keys : source[k] # 0}
    BY <1>4 DEF ReadSourceIds, dbVars
  <2>. QED  BY <2>1 DEF PageFresh, SweepFresh
<1>5. CASE ReadSinkIds
  <2>1. UNCHANGED <<source, wal, slot, sub, sourceIds>> /\ pc = "readSinkIds" /\ pc' = "deleteGhosts"
    BY <1>5 DEF ReadSinkIds, dbVars
  <2>2. \A k \in Keys : Pending(k)' = Pending(k) /\ (Reinserted(k)' <=> Reinserted(k))
    BY <2>1, SameLog
  <2>3. (Attached' => Attached) /\ (Alone' => Alone)
    BY <2>1 DEF Attached, Alone
  <2>. QED  BY <2>1, <2>2, <2>3 DEF PageFresh, SweepFresh
<1>6. ASSUME pc' \notin {"upsert", "saveCursor", "readSinkIds", "deleteGhosts"}
      PROVE  PageFresh' /\ SweepFresh'
  BY <1>6 DEF PageFresh, SweepFresh
<1>7. CASE UNCHANGED vars
  BY <1>7 DEF vars, dbVars, daemonVars, runVars, localVars, PageFresh, SweepFresh, Pending,
              Reinserted, Attached, Alone
<1>8. CASE Reconcile /\ ~(Fetch \/ Upsert \/ ReadSourceIds \/ ReadSinkIds)
  <2>1. pc' \notin {"upsert", "saveCursor", "readSinkIds", "deleteGhosts"}
    BY <1>8
    DEF Reconcile, DiscoverSource, DiscoverSink, SourceSetup, CreateSlot, SaveLsn, ReadState,
        SaveCursor, DeleteGhosts, SetupStateRow, CreateVectorizer, Enable, Decide, Subscribe,
        AfterRecovery, AfterSourceSetup
  <2>. QED  BY <1>6, <2>1
<1>9. CASE Start \/ SelfDestruct \/ Stop \/ Teardown \/ StepFails \/ Crash
  <2>1. pc' \notin {"upsert", "saveCursor", "readSinkIds", "deleteGhosts"}
    BY <1>9
    DEF Start, SelfDestruct, Stop, Teardown, Disable, Detach, DropSubscription, DropVectorizer,
        SinkTeardownFails, DropSlot, StepFails, Crash
  <2>. QED  BY <1>6, <2>1
<1>. QED  BY <1>1, <1>2, <1>3, <1>4, <1>5, <1>7, <1>8, <1>9 DEF Next

-----------------------------------------------------------------------------
(* No step loses a row, one lemma per way of touching source, slot or sink.*)

LEMMA WriteLosesNothing ==
  ASSUME LossInv, NEW k \in Keys, NEW op \in {"insert", "update", "delete"},
         NEW content \in {0, Len(wal) + 1}, Writes(k, op, content), Attached,
         NEW j \in Keys, ~Lost(j)
  PROVE  ~Lost(j)'
<1>1. Write(k, op, content) /\ DatabasesOK
  BY DEF Writes, LossInv, TypeInv, TypeOK
<1>2. source' = [source EXCEPT ![k] = content] /\ UNCHANGED sink
  BY <1>1, WrittenLog
<1>3. source'[k] = content /\ (j # k => source'[j] = source[j])
  BY <1>1, <1>2 DEF DatabasesOK
<1>4. /\ j # k => Pending(j)' = Pending(j) /\ (Reinserted(j)' <=> Reinserted(j))
      /\ j = k => Pending(j)' # {} /\ (Reinserted(j)' <=> (Reinserted(j) \/ op = "insert"))
  BY <1>1, WritePending
<1>5. Lost(j)' <=> /\ sink'[j] # source'[j]
                   /\ Pending(j)' = {} \/ (sink'[j] = 0 /\ ~Reinserted(j)')
  BY LostMeansNext
<1>6. CASE j # k
  BY <1>2, <1>3, <1>4, <1>5, <1>6, LostMeans
<1>7. CASE j = k
  BY <1>2, <1>3, <1>4, <1>5, <1>7, LostMeans DEF Writes
<1>. QED  BY <1>6, <1>7

LEMMA DeliveryShrinks ==
  ASSUME DatabasesOK, ApplyChange, Attached, NEW k \in Keys
  PROVE  Pending(k)' \subseteq Pending(k)
<1>1. slot' = slot + 1 /\ UNCHANGED wal
  BY Zenon DEF ApplyChange
<1>2. slot \in Nat
  BY LogIsTyped DEF DatabasesOK, Attached
<1>3. DOMAIN wal \subseteq Nat
  BY LogIsTyped
<1>. QED  BY <1>1, <1>2, <1>3 DEF Pending, Attached

LEMMA DeliveryLosesNothing ==
  ASSUME LossInv, ApplyChange, NEW k \in Keys, ~Lost(k)
  PROVE  ~Lost(k)' /\ Pending(k)' \subseteq Pending(k)
<1>. DEFINE n == slot + 1
<1>1. /\ Len(wal) \in Nat /\ DOMAIN wal = 1 .. Len(wal) /\ slot \in 0 .. Len(wal)
      /\ \A i \in 1 .. Len(wal) : wal[i].key \in Keys /\ wal[i].op \in {"insert", "update", "delete"}
      /\ sink \in [Keys -> Content] /\ Attached
  BY LogIsTyped DEF LossInv, TypeInv, TypeOK, DatabasesOK, ApplyChange, Attached
<1>2. /\ n \in 1 .. Len(wal) /\ slot' = n /\ UNCHANGED <<source, wal>>
      /\ sink' = [sink EXCEPT ![wal[n].key] =
                     IF wal[n].op = "delete" \/ (wal[n].op = "update" /\ sink[wal[n].key] = 0)
                     THEN 0 ELSE n]
  BY <1>1 DEF ApplyChange
<1>3. Attached'
  BY <1>1, <1>2 DEF Attached, NoSlot
<1>. HIDE DEF n
<1>4. Pending(k) = {i \in 1 .. Len(wal) : slot < i /\ wal[i].key = k}
  BY <1>1 DEF Pending
<1>5. Pending(k)' = {i \in 1 .. Len(wal) : n < i /\ wal[i].key = k}
  BY <1>1, <1>2, <1>3 DEF Pending
<1>6. n = slot + 1
  BY DEF n
<1>7. Lost(k)' <=> /\ sink'[k] # source'[k]
                   /\ Pending(k)' = {} \/ (sink'[k] = 0 /\ ~Reinserted(k)')
  BY LostMeansNext
<1>8. Pending(k)' \subseteq Pending(k)
  BY <1>1, <1>4, <1>5, <1>6
<1>9. Reinserted(k)' <=> \E i \in Pending(k)' : wal[i].op = "insert"
  BY <1>2 DEF Reinserted
<1>10. CASE wal[n].key # k
  <2>1. sink'[k] = sink[k]
    BY <1>1, <1>2, <1>10
  <2>2. Pending(k)' = Pending(k)
    BY <1>1, <1>2, <1>4, <1>5, <1>6, <1>10
  <2>. QED  BY <1>2, <1>7, <1>8, <1>9, <2>1, <2>2, LostMeans DEF Reinserted
<1>11. CASE wal[n].key = k
  <2>1. n \in Pending(k)
    BY <1>1, <1>2, <1>4, <1>6, <1>11
  <2>2. sink'[k] = IF wal[n].op = "delete" \/ (wal[n].op = "update" /\ sink[k] = 0) THEN 0 ELSE n
    BY <1>1, <1>2, <1>11
  <2>3. CASE Pending(k)' = {}
    <3>1. Newest(k, n)
      BY <1>1, <1>2, <1>5, <1>11, <2>3 DEF Newest
    <3>2. source[k] = (IF wal[n].op = "delete" THEN 0 ELSE n)
      BY <1>1, <1>2, <3>1 DEF LossInv, LogAgrees
    <3>3. CASE wal[n].op = "update" /\ sink[k] = 0
      <4>1. \A i \in Pending(k) : i = n
        BY <1>1, <1>2, <1>4, <1>5, <1>6, <2>3
      <4>2. ~Reinserted(k)
        BY <3>3, <4>1 DEF Reinserted
      <4>3. source[k] = 0
        BY <2>1, <3>3, <4>2, LostMeans
      <4>. QED  BY <1>2, <1>7, <1>8, <2>2, <3>3, <4>3
    <3>4. CASE ~(wal[n].op = "update" /\ sink[k] = 0)
      BY <1>2, <1>7, <1>8, <2>2, <3>2, <3>4
    <3>. QED  BY <3>3, <3>4
  <2>4. CASE Pending(k)' # {}
    <3>. SUFFICES ASSUME sink'[k] = 0, ~Reinserted(k)' PROVE source[k] = 0
      BY <1>2, <1>7, <1>8, <2>4
    <3>1. wal[n].op = "delete" \/ (wal[n].op = "update" /\ sink[k] = 0)
      BY <1>1, <1>2, <2>2
    <3>2. CASE wal[n].op = "delete"
      <4>1. ASSUME source[k] # 0 PROVE FALSE
        <5>1. PICK i \in DOMAIN wal : n < i /\ wal[i].key = k /\ wal[i].op = "insert"
          BY <1>1, <1>2, <1>11, <3>2, <4>1 DEF LossInv, LogAgrees
        <5>. QED  BY <1>1, <1>5, <1>9, <5>1
      <4>. QED  BY <4>1
    <3>3. CASE wal[n].op = "update" /\ sink[k] = 0
      <4>1. \A i \in Pending(k) : i = n \/ i \in Pending(k)'
        BY <1>1, <1>2, <1>4, <1>5, <1>6
      <4>2. ~Reinserted(k)
        BY <1>9, <3>3, <4>1 DEF Reinserted
      <4>. QED  BY <2>1, <3>3, <4>2, LostMeans
    <3>. QED  BY <3>1, <3>2, <3>3
  <2>. QED  BY <2>3, <2>4
<1>. QED  BY <1>8, <1>10, <1>11

(* A page may be old when it is written; the sweep may act on old ids.     *)
LEMMA PageLosesNothing ==
  ASSUME LossInv, Upsert, Attached, Alone, NEW k \in Keys
  PROVE  IF k \in DOMAIN batch THEN ~Lost(k)' ELSE Lost(k)' <=> Lost(k)
<1>1. /\ UNCHANGED <<source, wal, slot>> /\ pc = "upsert"
      /\ sink' = [j \in Keys |-> IF j \in DOMAIN batch THEN batch[j] ELSE sink[j]]
  BY DEF Upsert
<1>2. Pending(k)' = Pending(k) /\ (Reinserted(k)' <=> Reinserted(k))
  BY <1>1, SameLog
<1>3. CASE k \in DOMAIN batch
  <2>1. batch[k] # 0
    BY <1>3, KeysAssumption DEF LossInv, TypeInv, TypeOK, LocalsOK, Content
  <2>2. batch[k] = source[k] \/ Pending(k) # {}
    BY <1>1, <1>3 DEF LossInv, PageFresh
  <2>. QED  BY <1>1, <1>2, <1>3, <2>1, <2>2, LostMeansNext
<1>4. CASE k \notin DOMAIN batch
  <2>1. sink'[k] = sink[k]
    BY <1>1, <1>4
  <2>. QED  BY <1>1, <1>2, <1>4, <2>1, LostMeans, LostMeansNext
<1>. QED  BY <1>3, <1>4

LEMMA SweepLosesNothing ==
  ASSUME LossInv, DeleteGhosts, Attached, Alone, NEW k \in Keys
  PROVE  IF k \in sinkIds \ sourceIds THEN ~Lost(k)' ELSE Lost(k)' <=> Lost(k)
<1>1. /\ UNCHANGED <<source, wal, slot>> /\ pc = "deleteGhosts"
      /\ sink' = [j \in Keys |-> IF j \in sinkIds \ sourceIds THEN 0 ELSE sink[j]]
  BY DEF DeleteGhosts
<1>2. Pending(k)' = Pending(k) /\ (Reinserted(k)' <=> Reinserted(k))
  BY <1>1, SameLog
<1>3. CASE k \in sinkIds \ sourceIds
  <2>1. source[k] = 0 \/ Reinserted(k)
    BY <1>1, <1>3 DEF LossInv, SweepFresh
  <2>2. Reinserted(k) => Pending(k) # {}
    BY DEF Reinserted
  <2>. QED  BY <1>1, <1>2, <1>3, <2>1, <2>2, LostMeansNext
<1>4. CASE k \notin sinkIds \ sourceIds
  <2>1. sink'[k] = sink[k]
    BY <1>1, <1>4
  <2>. QED  BY <1>1, <1>2, <1>4, <2>1, LostMeans, LostMeansNext
<1>. QED  BY <1>3, <1>4

(* A slot made at the end of the log has nothing pending, like no slot.    *)
LEMMA FreshSlotLosesNothing ==
  ASSUME DatabasesOK, ~Attached, slot' = Len(wal), UNCHANGED <<source, wal, sink>>,
         NEW k \in Keys
  PROVE  (Lost(k)' <=> Lost(k)) /\ Pending(k)' = {}
<1>1. Pending(k) = {}
  BY NothingPendingDetached
<1>2. Pending(k)' = {}
  BY LogIsTyped DEF Pending
<1>. QED  BY <1>1, <1>2, LostMeans, LostMeansNext

(* The steps that touch neither source, log, slot nor sink.                *)
Bookkeeping ==
  \/ Start \/ DiscoverSource \/ DiscoverSink \/ SourceSetup \/ SaveLsn \/ ReadState \/ Fetch
  \/ SaveCursor \/ ReadSourceIds \/ ReadSinkIds \/ SetupStateRow \/ CreateVectorizer \/ Enable
  \/ Decide \/ SelfDestruct \/ Stop \/ Disable \/ Detach \/ DropSubscription \/ DropVectorizer
  \/ SinkTeardownFails \/ StepFails \/ Crash

LEMMA BookkeepingTouchesNoData ==
  ASSUME Bookkeeping \/ UNCHANGED vars
  PROVE  UNCHANGED <<source, wal, slot, sink>>
BY DEF Bookkeeping, Start, DiscoverSource, DiscoverSink, SourceSetup, SaveLsn, ReadState, Fetch,
       SaveCursor, ReadSourceIds, ReadSinkIds, SetupStateRow, CreateVectorizer, Enable, Decide,
       SelfDestruct, Stop, Disable, Detach, DropSubscription, DropVectorizer, SinkTeardownFails,
       StepFails, Crash, vars, dbVars

(* The other steps, for the proofs that go through Next.                   *)
LEMMA NextCases ==
  ASSUME [Next]_vars
  PROVE  \/ Application \/ ApplyChange \/ TableCopy \/ SlotLost
         \/ CreateSlot \/ Upsert \/ DeleteGhosts \/ Subscribe \/ DropSlot
         \/ Bookkeeping \/ UNCHANGED vars
BY DEF Next, Reconcile, Teardown, Bookkeeping

LEMMA NoLossStep ==
  ASSUME LossInv, [Next]_vars, pc \in RecoverySteps => Alone, sub # "copying",
         NEW k \in Keys, ~Lost(k), Lost(k)'
  PROVE  slot' = NoSlot
<1>. USE DEF LossInv, TypeInv, TypeOK
<1>1. CASE Application
  <2>1. PICK j \in Keys, op \in {"insert", "update", "delete"}, content \in {0, Len(wal) + 1} :
          Writes(j, op, content)
    BY <1>1, ApplicationWrites
  <2>2. slot' = slot
    BY <2>1, WrittenLog DEF Writes
  <2>. QED  BY <2>1, <2>2, WriteLosesNothing DEF Attached
<1>2. CASE ApplyChange
  BY <1>2, DeliveryLosesNothing
<1>3. CASE TableCopy
  BY <1>3 DEF TableCopy
<1>4. CASE SlotLost
  BY <1>4 DEF SlotLost
<1>5. CASE CreateSlot
  BY <1>5, FreshSlotLosesNothing DEF CreateSlot
<1>6. CASE Upsert
  <2>1. UNCHANGED slot /\ Alone
    BY <1>6 DEF Upsert, RecoverySteps, CatchUpSteps
  <2>. QED  BY <1>6, <2>1, PageLosesNothing DEF Attached
<1>7. CASE DeleteGhosts
  <2>1. UNCHANGED slot /\ Alone
    BY <1>7 DEF DeleteGhosts, RecoverySteps, SweepSteps
  <2>. QED  BY <1>7, <2>1, SweepLosesNothing DEF Attached
<1>8. CASE Subscribe
  <2>1. UNCHANGED <<source, wal, sink>>
    BY <1>8 DEF Subscribe
  <2>2. (~Attached /\ slot' = Len(wal)) \/ UNCHANGED slot
    BY <1>8 DEF Subscribe
  <2>. QED  BY <2>1, <2>2, FreshSlotLosesNothing, SameData
<1>9. CASE DropSlot
  <2>1. UNCHANGED <<source, wal, sink>> /\ (slot' = NoSlot \/ UNCHANGED slot)
    BY <1>9 DEF DropSlot
  <2>. QED  BY <2>1, SameData
<1>10. CASE Bookkeeping \/ UNCHANGED vars
  BY <1>10, BookkeepingTouchesNoData, SameData
<1>. QED
  BY <1>1, <1>2, <1>3, <1>4, <1>5, <1>6, <1>7, <1>8, <1>9, <1>10, NextCases

LEMMA LossInvariant == Spec => []LossInv
<1>1. LossInv /\ [Next]_vars => LossInv'
  <2>. SUFFICES ASSUME LossInv, [Next]_vars PROVE LossInv'
    OBVIOUS
  <2>1. TypeInv'
    BY TypeEnvironment, TypeReconcile, TypeLifecycle, TypeStutter DEF LossInv, Next
  <2>2. CASE Application
    <3>1. PICK k \in Keys, op \in {"insert", "update", "delete"}, content \in {0, Len(wal) + 1} :
            Writes(k, op, content)
      BY <2>2, ApplicationWrites
    <3>. QED
      BY <2>1, <3>1, LogAgreesAfterWrite, FreshAfterWrite DEF LossInv, TypeInv, TypeOK
  <2>3. CASE ~Application
    BY <2>1, <2>3, OnlyApplicationWrites, LogAgreesOtherwise, FreshOtherwise DEF LossInv
  <2>. QED  BY <2>2, <2>3
<1>. QED  BY LossInit, <1>1, PTL DEF Spec

(* Whatever the surroundings do, a step that finds the recovery alone and  *)
(* no initial copy under way turns no right row wrong, unless it leaves    *)
(* the target without a slot.                                              *)
THEOREM NoLossWhileAloneHolds == Spec => NoLossWhileAlone
<1>. DEFINE Step == (pc \in RecoverySteps => Alone) /\ sub # "copying" =>
                      \A k \in Keys : ~Lost(k) /\ Lost(k)' => slot' = NoSlot
<1>1. LossInv /\ [Next]_vars => Step
  BY NoLossStep
<1>2. LossInv /\ [Next]_vars => [Step]_vars
  BY <1>1
<1>. QED  BY LossInvariant, <1>2, PTL DEF Spec, NoLossWhileAlone

-----------------------------------------------------------------------------
(* What went beyond the promises stays on record.                          *)

LEMMA MishapsStay ==
  ASSUME [Next]_vars
  PROVE  mishaps \subseteq mishaps'
BY DEF Next, Application, Insert, Update, Delete, Write, ApplyChange, TableCopy, SlotLost, Start,
       Reconcile, DiscoverSource, DiscoverSink, SourceSetup, CreateSlot, SaveLsn, ReadState, Fetch,
       Upsert, SaveCursor, ReadSourceIds, ReadSinkIds, DeleteGhosts, SetupStateRow,
       CreateVectorizer, Enable, Decide, Subscribe, SelfDestruct, Stop, Teardown, Disable, Detach,
       DropSubscription, DropVectorizer, SinkTeardownFails, DropSlot, StepFails, Crash, vars,
       daemonVars, runVars

LEMMA KeptBefore ==
  ASSUME [Next]_vars
  PROVE  (SlotsAreKept' => SlotsAreKept) /\ (SourceAnswers' => SourceAnswers)
BY MishapsStay DEF SlotsAreKept, SourceAnswers

-----------------------------------------------------------------------------
(* Nobody shares the table with a recovery, as long as no subscription is  *)
(* left without its slot.                                                  *)

AloneCore ==
  /\ pc \in RecoverySteps => Dropped
  /\ ~Dropped => Attached /\ pc \notin {"dropSubscription", "dropVectorizer", "dropSlot"}
  /\ pc \in {"discoverSink", "sourceSetup"} /\ "SINK_RECOVERY" \in plan => ~Attached
  /\ pc = "subscribe" /\ ~opts.create => Attached

AloneInv == SlotsAreKept => AloneCore

LEMMA AttachedKept ==
  ASSUME DatabasesOK, Application \/ ApplyChange \/ TableCopy
  PROVE  (Attached' <=> Attached) /\ UNCHANGED daemonVars
<1>1. Len(wal) \in Nat /\ slot \in {NoSlot} \cup 0 .. Len(wal)
  BY LogIsTyped DEF DatabasesOK
<1>2. CASE Application
  BY <1>2 DEF Application, Insert, Update, Delete, Write, Attached
<1>3. CASE ApplyChange
  <2>1. slot' = slot + 1 /\ Attached /\ UNCHANGED daemonVars
    BY <1>3, Zenon DEF ApplyChange
  <2>. QED  BY <1>1, <2>1 DEF Attached, NoSlot
<1>4. CASE TableCopy
  <2>1. slot' = Len(wal) /\ Attached /\ UNCHANGED daemonVars
    BY <1>4, Zenon DEF TableCopy
  <2>. QED  BY <1>1, <2>1 DEF Attached, NoSlot
<1>. QED  BY <1>2, <1>3, <1>4

LEMMA AloneStep ==
  ASSUME SlotsAreKept', DatabasesOK, AloneCore, [Next]_vars
  PROVE  AloneCore'
<1>. USE DEF AloneCore, Dropped
<1>1. CASE Application \/ ApplyChange \/ TableCopy
  <2>1. (Attached' <=> Attached) /\ UNCHANGED daemonVars
    BY <1>1, AttachedKept
  <2>2. ~Dropped' => ~Dropped
    BY <1>1 DEF Application, Insert, Update, Delete, Write, ApplyChange, TableCopy
  <2>. QED  BY <2>1, <2>2 DEF daemonVars, runVars, localVars
<1>2. CASE SlotLost
  BY <1>2 DEF SlotLost, SlotsAreKept
<1>3. CASE Reconcile /\ ~(CreateSlot \/ Subscribe \/ Decide \/ Enable)
  <2>1. UNCHANGED <<slot, sub>>
        /\ pc' \notin {"dropSubscription", "dropVectorizer", "dropSlot", "subscribe"}
    BY <1>3
    DEF Reconcile, DiscoverSource, DiscoverSink, SourceSetup, SaveLsn, ReadState, Fetch, Upsert,
        SaveCursor, ReadSourceIds, ReadSinkIds, DeleteGhosts, SetupStateRow, CreateVectorizer,
        AfterRecovery, AfterSourceSetup, dbVars
  <2>2. ~Dropped => Attached
    OBVIOUS
  <2>3. pc' \in RecoverySteps => Dropped
    BY <1>3, <2>2
    DEF Reconcile, DiscoverSource, DiscoverSink, SourceSetup, SaveLsn, ReadState, Fetch, Upsert,
        SaveCursor, ReadSourceIds, ReadSinkIds, DeleteGhosts, SetupStateRow, CreateVectorizer,
        AfterRecovery, AfterSourceSetup, RecoverySteps, CatchUpSteps, SweepSteps
  <2>4. pc' \in {"discoverSink", "sourceSetup"} /\ "SINK_RECOVERY" \in plan' => ~Attached
    BY <1>3
    DEF Reconcile, DiscoverSource, DiscoverSink, SourceSetup, SaveLsn, ReadState, Fetch, Upsert,
        SaveCursor, ReadSourceIds, ReadSinkIds, DeleteGhosts, SetupStateRow, CreateVectorizer,
        AfterRecovery, AfterSourceSetup
  <2>. QED  BY <2>1, <2>2, <2>3, <2>4 DEF Attached
<1>4. CASE CreateSlot
  <2>1. slot' # NoSlot
    BY <1>4, LogIsTyped DEF CreateSlot, NoSlot
  <2>. QED  BY <1>4, <2>1 DEF CreateSlot, Attached, RecoverySteps
<1>5. CASE Decide
  <2>1. opts'.create = ~Attached
    BY <1>5 DEF Decide
  <2>. QED
    BY <1>5, <2>1
    DEF Decide, dbVars, Attached, RecoverySteps, CatchUpSteps, SweepSteps
<1>6. CASE Enable
  BY <1>6 DEF Enable, Attached, RecoverySteps, CatchUpSteps, SweepSteps
<1>7. CASE Subscribe
  <2>1. slot' # NoSlot
    BY <1>7, LogIsTyped DEF Subscribe, NoSlot, Attached
  <2>. QED
    BY <1>7, <2>1 DEF Subscribe, Attached, RecoverySteps, CatchUpSteps, SweepSteps
<1>8. CASE Disable \/ Detach \/ DropSubscription \/ DropVectorizer
  BY <1>8
  DEF Disable, Detach, DropSubscription, DropVectorizer, Attached, RecoverySteps, CatchUpSteps,
      SweepSteps
<1>9. CASE SinkTeardownFails
  BY <1>9
  DEF SinkTeardownFails, SlotsAreKept, dbVars, Attached, RecoverySteps, CatchUpSteps, SweepSteps
<1>10. CASE DropSlot
  BY <1>10 DEF DropSlot, Attached, RecoverySteps, CatchUpSteps, SweepSteps
<1>11. CASE Start \/ SelfDestruct \/ Stop \/ StepFails \/ Crash
  BY <1>11
  DEF Start, SelfDestruct, Stop, StepFails, Crash, dbVars, Attached, RecoverySteps,
      CatchUpSteps, SweepSteps
<1>12. CASE UNCHANGED vars
  BY <1>12 DEF vars, dbVars, daemonVars, runVars, localVars, Attached
<1>. QED
  BY <1>1, <1>2, <1>3, <1>4, <1>5, <1>6, <1>7, <1>8, <1>9, <1>10, <1>11, <1>12
  DEF Next, Teardown

LEMMA AloneInvariant == Spec => [](LossInv /\ AloneInv)
<1>1. Init => AloneInv
  BY DEF Init, AloneInv, AloneCore, Dropped, RecoverySteps, CatchUpSteps, SweepSteps
<1>2. LossInv /\ AloneInv /\ [Next]_vars => AloneInv'
  BY AloneStep, KeptBefore DEF AloneInv, LossInv, TypeInv, TypeOK
<1>. QED  BY LossInvariant, <1>1, <1>2, PTL DEF Spec

LEMMA DroppedIsAlone == Dropped => Alone
BY DEF Dropped, Alone

(* Outages of the source, crashes, failing steps and teardowns broken off  *)
(* anywhere never let a subscription stream under a running recovery.      *)
THEOREM RecoveryIsAloneHolds == Spec => []RecoveryIsAlone
<1>1. AloneInv => RecoveryIsAlone
  BY DroppedIsAlone DEF AloneInv, AloneCore, RecoveryIsAlone
<1>. QED  BY AloneInvariant, <1>1, PTL

-----------------------------------------------------------------------------
(* If no outage hides it from a discovery that the slot is missing, a      *)
(* deployment recovers and then keeps the slot it made.                    *)

AnchorCore ==
  /\ pc \in {"discoverSink", "sourceSetup"} /\ "SINK_RECOVERY" \notin plan => Attached
  /\ pc \in (RecoverySteps \ {"createSlot"}) \cup SetupSteps => Attached
  /\ pc = "subscribe" => ~opts.create /\ ~opts.copy
  /\ sub \notin {"copying", "pausedCopy"}

AnchorInv == SourceAnswers => AnchorCore

LEMMA AnchorStep ==
  ASSUME SourceAnswers', DatabasesOK, AnchorCore, [Next]_vars
  PROVE  AnchorCore'
<1>. DEFINE Anchored == (RecoverySteps \ {"createSlot"}) \cup SetupSteps
<1>0. Anchored = {"saveLsn", "readState", "fetch", "upsert", "saveCursor", "readSourceIds",
                  "readSinkIds", "deleteGhosts", "stateRow", "vectorizer", "decide", "subscribe"}
  BY DEF RecoverySteps, SetupSteps, CatchUpSteps, SweepSteps
<1>. HIDE DEF Anchored
<1>inv. /\ pc \in {"discoverSink", "sourceSetup"} /\ "SINK_RECOVERY" \notin plan => Attached
        /\ pc \in Anchored => Attached
        /\ pc = "subscribe" => Attached /\ ~opts.create /\ ~opts.copy
        /\ sub \notin {"copying", "pausedCopy"}
  <2>1. pc = "subscribe" => pc \in Anchored
    BY <1>0
  <2>. QED  BY <2>1 DEF AnchorCore, Anchored
<1>. SUFFICES
       /\ pc' \in {"discoverSink", "sourceSetup"} /\ "SINK_RECOVERY" \notin plan' => Attached'
       /\ pc' \in Anchored => Attached'
       /\ pc' = "subscribe" => Attached' /\ ~opts'.create /\ ~opts'.copy
       /\ sub' \notin {"copying", "pausedCopy"}
  BY DEF AnchorCore, Anchored
<1>1. CASE Application \/ ApplyChange \/ TableCopy
  <2>1. (Attached' <=> Attached) /\ UNCHANGED daemonVars
    BY <1>1, AttachedKept
  <2>2. sub' \notin {"copying", "pausedCopy"}
    BY <1>1, <1>inv DEF Application, Insert, Update, Delete, Write, ApplyChange, TableCopy
  <2>. QED  BY <1>inv, <2>1, <2>2 DEF daemonVars, runVars, localVars
<1>2. CASE SlotLost
  BY <1>2 DEF SlotLost, SourceAnswers
<1>3. CASE DiscoverSource
  <2>1. ~Attached => "SINK_RECOVERY" \in plan'
    BY <1>3 DEF DiscoverSource, SourceAnswers
  <2>. QED  BY <1>0, <1>3, <1>inv, <2>1 DEF DiscoverSource, Attached
<1>4. CASE Reconcile /\ ~(DiscoverSource \/ CreateSlot \/ Enable \/ Decide \/ Subscribe)
  <2>1. UNCHANGED <<slot, sub>> /\ pc' # "subscribe"
    BY <1>4
    DEF Reconcile, DiscoverSink, SourceSetup, SaveLsn, ReadState, Fetch, Upsert, SaveCursor,
        ReadSourceIds, ReadSinkIds, DeleteGhosts, SetupStateRow, CreateVectorizer,
        AfterRecovery, AfterSourceSetup, dbVars
  <2>2. \/ pc \in Anchored
        \/ pc \in {"discoverSink", "sourceSetup"}
    BY <1>0, <1>4
    DEF Reconcile, DiscoverSink, SourceSetup, SaveLsn, ReadState, Fetch, Upsert, SaveCursor,
        ReadSourceIds, ReadSinkIds, DeleteGhosts, SetupStateRow, CreateVectorizer
  <2>3. CASE pc \in Anchored
    BY <1>inv, <2>1, <2>3 DEF Attached
  <2>4. CASE pc \in {"discoverSink", "sourceSetup"} /\ "SINK_RECOVERY" \notin plan
    BY <1>inv, <2>1, <2>4 DEF Attached
  <2>5. CASE pc \in {"discoverSink", "sourceSetup"} /\ "SINK_RECOVERY" \in plan
    <3>1. DiscoverSink \/ SourceSetup
      BY <1>4, <2>5
      DEF Reconcile, SaveLsn, ReadState, Fetch, Upsert, SaveCursor,
          ReadSourceIds, ReadSinkIds, DeleteGhosts, SetupStateRow, CreateVectorizer
    <3>2. "SINK_RECOVERY" \in plan' /\ pc' \in {"sourceSetup", "createSlot"}
      BY <2>5, <3>1 DEF DiscoverSink, SourceSetup, AfterSourceSetup, runVars
    <3>. QED  BY <1>0, <1>inv, <2>1, <3>2
  <2>. QED  BY <2>2, <2>3, <2>4, <2>5
<1>5. CASE CreateSlot
  <2>1. slot' # NoSlot
    BY <1>5, LogIsTyped DEF CreateSlot, NoSlot
  <2>. QED  BY <1>5, <1>inv, <2>1 DEF CreateSlot, Attached
<1>6. CASE Decide
  <2>1. Attached /\ UNCHANGED <<slot, sub>>
    BY <1>0, <1>6, <1>inv DEF Decide, dbVars
  <2>2. pc' = "subscribe" => opts' = [copy |-> FALSE, create |-> FALSE]
    BY <1>6, <2>1 DEF Decide
  <2>. QED  BY <1>6, <1>inv, <2>1, <2>2 DEF Decide, Attached
<1>7. CASE Subscribe
  BY <1>0, <1>7, <1>inv DEF Subscribe
<1>8. CASE Teardown \/ Enable
  BY <1>0, <1>8, <1>inv
  DEF Teardown, Disable, Detach, DropSubscription, DropVectorizer, SinkTeardownFails, DropSlot,
      Enable, dbVars
<1>9. CASE Start \/ SelfDestruct \/ Stop \/ StepFails \/ Crash
  BY <1>0, <1>9, <1>inv DEF Start, SelfDestruct, Stop, StepFails, Crash, dbVars
<1>10. CASE UNCHANGED vars
  BY <1>10, <1>inv DEF vars, dbVars, daemonVars, runVars, localVars, Attached
<1>. QED
  BY <1>1, <1>2, <1>3, <1>4, <1>5, <1>6, <1>7, <1>8, <1>9, <1>10 DEF Next, Teardown

CopyInv == LossInv /\ AloneInv /\ AnchorInv

LEMMA AnchorInvariant == Spec => []CopyInv
<1>1. Init => AnchorInv
  BY DEF Init, AnchorInv, AnchorCore, RecoverySteps, CatchUpSteps, SweepSteps, SetupSteps
<1>2. LossInv /\ AnchorInv /\ [Next]_vars => AnchorInv'
  BY AnchorStep, KeptBefore DEF AnchorInv, LossInv, TypeInv, TypeOK
<1>. QED  BY AloneInvariant, <1>1, <1>2, PTL DEF Spec, CopyInv

LEMMA AnswersMeansKept == SourceAnswers => SlotsAreKept
BY DEF SourceAnswers, SlotsAreKept

(* The subscription is created over the slot that anchored the catch-up,   *)
(* with neither a fresh slot nor an initial copy, although setup_sink      *)
(* decides this two seconds or more before CREATE SUBSCRIPTION.            *)
THEOREM HandoverUsesAnchorHolds == Spec => []HandoverUsesAnchor
<1>1. CopyInv => HandoverUsesAnchor
  BY DEF CopyInv, AnchorInv, AnchorCore, HandoverUsesAnchor, SetupSteps
<1>. QED  BY AnchorInvariant, <1>1, PTL

(* No row is lost while a slot exists: crashes, failing steps, rows        *)
(* inserted in the middle of the hand-over and half-done teardowns         *)
(* included, for every table, page size, filter and number of deployments. *)
THEOREM NoLossWhileAttachedHolds == Spec => NoLossWhileAttached
<1>. DEFINE Step == SourceAnswers' => \A k \in Keys : ~Lost(k) /\ Lost(k)' => slot' = NoSlot
<1>1. CopyInv /\ [Next]_vars => [Step]_vars
  <2>. SUFFICES ASSUME CopyInv, [Next]_vars, SourceAnswers', NEW k \in Keys, ~Lost(k), Lost(k)'
                PROVE  slot' = NoSlot
    BY Zenon
  <2>1. SourceAnswers /\ SlotsAreKept
    BY KeptBefore, AnswersMeansKept
  <2>2. AloneCore /\ AnchorCore /\ LossInv
    BY <2>1 DEF CopyInv, AloneInv, AnchorInv
  <2>3. (pc \in RecoverySteps => Alone) /\ sub # "copying"
    BY <2>2, DroppedIsAlone DEF AloneCore, AnchorCore
  <2>. QED  BY <2>2, <2>3, NoLossStep
<1>. QED  BY AnchorInvariant, <1>1, PTL DEF Spec, NoLossWhileAttached

-----------------------------------------------------------------------------
(* What a catch-up and a sweep leave behind.                               *)

RestIsAhead ==
  pc \in CatchUpSteps \cup SweepSteps /\ Attached =>
    \A k \in Keys : Lost(k) =>
      k <= from \/ (k > cursor /\ pc \in CatchUpSteps) \/ source[k] = 0 \/ Unmatched(k)

(* The page leaves out no live row up to its last key that passes the      *)
(* filter.                                                                 *)
PageCovers ==
  pc = "upsert" /\ Attached =>
    \A k \in Keys : cursor < k /\ k <= LastKey(batch) =>
      k \in DOMAIN batch \/ source[k] = 0 \/ Reinserted(k) \/ Unmatched(k)

PageLanded ==
  pc = "saveCursor" /\ Attached =>
    \A k \in Keys : cursor < k /\ k <= LastKey(batch) =>
      ~Lost(k) \/ source[k] = 0 \/ Unmatched(k)

SinkSeen ==
  pc = "deleteGhosts" /\ Attached => sinkIds = {k \in Keys : sink[k] # 0}

CatchUpCore == RestIsAhead /\ PageCovers /\ PageLanded /\ SinkSeen

CatchUpInv == SlotsAreKept => CatchUpCore

(* A live row that never had a content the filter keeps out passes it.     *)
LEMMA MatchedRow ==
  ASSUME LossInv, NEW k \in Keys, source[k] # 0, ~Unmatched(k)
  PROVE  source[k] \in Matching
BY DEF LossInv, LogAgrees, Unmatched

LEMMA UnmatchedSame ==
  ASSUME UNCHANGED wal, NEW k \in Keys
  PROVE  Unmatched(k)' <=> Unmatched(k)
BY DEF Unmatched

(* The log forgets nothing.                                                *)
LEMMA UnmatchedStays ==
  ASSUME DatabasesOK, NEW k \in Keys, NEW op \in {"insert", "update", "delete"},
         NEW content, Write(k, op, content), NEW j \in Keys, Unmatched(j)
  PROVE  Unmatched(j)'
<1>1. Len(wal) \in Nat /\ DOMAIN wal = 1 .. Len(wal)
  BY LogIsTyped
<1>2. DOMAIN wal' = 1 .. Len(wal) + 1 /\ \A i \in 1 .. Len(wal) : wal'[i] = wal[i]
  BY WrittenLog
<1>. QED  BY <1>1, <1>2 DEF Unmatched

(* A ghost whose key is inserted again under a slot is no longer lost.     *)
LEMMA GhostRevived ==
  ASSUME LossInv, NEW k \in Keys, NEW op \in {"insert", "update", "delete"},
         NEW content \in {0, Len(wal) + 1}, Writes(k, op, content), Attached,
         NEW j \in Keys, source[j] = 0
  PROVE  source'[j] = 0 \/ (Reinserted(j)' /\ ~Lost(j)')
<1>1. Write(k, op, content) /\ DatabasesOK
  BY DEF Writes, LossInv, TypeInv, TypeOK
<1>2. source' = [source EXCEPT ![k] = content]
  BY <1>1, WrittenLog
<1>3. CASE j # k
  BY <1>1, <1>2, <1>3 DEF DatabasesOK
<1>4. CASE j = k
  <2>1. op = "insert" /\ Reinserted(j)' /\ Pending(j)' # {}
    BY <1>1, <1>4, WritePending DEF Writes
  <2>. QED  BY <2>1, LostMeansNext
<1>. QED  BY <1>3, <1>4

LEMMA CatchUpAfterWrite ==
  ASSUME LossInv, CatchUpCore, Application
  PROVE  CatchUpCore'
<1>1. PICK k \in Keys, op \in {"insert", "update", "delete"}, content \in {0, Len(wal) + 1} :
        Writes(k, op, content)
  BY ApplicationWrites
<1>2. Write(k, op, content) /\ DatabasesOK
  BY <1>1 DEF Writes, LossInv, TypeInv, TypeOK
<1>3. UNCHANGED <<slot, sink, pc, batch, sinkIds, from, cursor>>
  BY <1>2, WrittenLog
<1>4. Attached' => Attached
  BY <1>3 DEF Attached
<1>5. Attached => \A j \in Keys :
        /\ source[j] = 0 => source'[j] = 0 \/ (Reinserted(j)' /\ ~Lost(j)')
        /\ ~Lost(j) => ~Lost(j)'
        /\ Reinserted(j) => Reinserted(j)'
        /\ Unmatched(j) => Unmatched(j)'
  BY <1>1, <1>2, GhostRevived, WriteLosesNothing, WritePending, UnmatchedStays
<1>6. RestIsAhead'
  BY <1>3, <1>4, <1>5 DEF CatchUpCore, RestIsAhead
<1>7. PageCovers' /\ PageLanded' /\ SinkSeen'
  BY <1>3, <1>4, <1>5 DEF CatchUpCore, PageCovers, PageLanded, SinkSeen, LastKey
<1>. QED  BY <1>6, <1>7 DEF CatchUpCore

LEMMA CatchUpAfterFetch ==
  ASSUME LossInv, CatchUpCore, Fetch
  PROVE  CatchUpCore'
<1>1. UNCHANGED <<source, wal, slot, sink, from, cursor>> /\ pc = "fetch"
  BY DEF Fetch, dbVars
<1>2. \A k \in Keys : /\ Lost(k)' <=> Lost(k)
                      /\ Reinserted(k)' <=> Reinserted(k)
                      /\ Unmatched(k)' <=> Unmatched(k)
  BY <1>1, SameData, SameLog, UnmatchedSame
<1>3. cursor \in Nat /\ Keys \subseteq Nat
  BY KeysAssumption DEF LossInv, TypeInv, TypeOK, LocalsOK
<1>4. (Attached' <=> Attached) /\ (Attached => \A k \in Keys : Lost(k) =>
          k <= from \/ k > cursor \/ source[k] = 0 \/ Unmatched(k))
  BY <1>1 DEF CatchUpCore, RestIsAhead, CatchUpSteps, Attached
<1>5. CASE Page(cursor) = {} /\ pc' = "readSourceIds"
  <2>1. Ahead(cursor) = {}
    BY <1>3, <1>5, PageNotEmpty
  <2>2. \A k \in Keys : k > cursor => source[k] = 0 \/ Unmatched(k)
    BY <1>3, <2>1, MatchedRow DEF Ahead
  <2>. QED
    BY <1>1, <1>2, <1>4, <1>5, <2>2
    DEF CatchUpCore, RestIsAhead, PageCovers, PageLanded, SinkSeen
<1>6. CASE Page(cursor) # {} /\ pc' = "upsert" /\ DOMAIN batch' = Page(cursor)
  <2>1. Page(cursor) \in SUBSET Keys
    BY DEF Page, Ahead
  <2>2. LastKey(batch') \in Page(cursor)
    BY <1>6, <2>1, LastKeyIsGreatest
  <2>3. ASSUME NEW k \in Keys, cursor < k, k <= LastKey(batch'), source[k] # 0,
               ~Unmatched(k)
        PROVE  k \in Page(cursor)
    <3>1. k \in Ahead(cursor)
      BY <2>3, MatchedRow DEF Ahead
    <3>. QED  BY <1>3, <2>2, <2>3, <3>1, PageIsPrefix
  <2>4. PageCovers'
    BY <1>1, <1>2, <1>6, <2>3 DEF PageCovers, LastKey
  <2>. QED
    BY <1>1, <1>2, <1>4, <1>6, <2>4
    DEF CatchUpCore, RestIsAhead, CatchUpSteps, PageLanded, SinkSeen
<1>. QED  BY <1>5, <1>6 DEF Fetch

LEMMA CatchUpAfterUpsert ==
  ASSUME LossInv, AloneCore, CatchUpCore, Upsert
  PROVE  CatchUpCore'
<1>1. /\ UNCHANGED <<source, wal, slot, from, cursor, batch>>
      /\ pc = "upsert" /\ pc' = "saveCursor"
  BY DEF Upsert, localVars
<1>2. (Attached' <=> Attached) /\ Alone
  BY <1>1, DroppedIsAlone DEF AloneCore, RecoverySteps, CatchUpSteps, Attached
<1>3. Attached => \A k \in Keys :
        IF k \in DOMAIN batch THEN ~Lost(k)' ELSE Lost(k)' <=> Lost(k)
  BY <1>2, PageLosesNothing
<1>4. \A k \in Keys : Reinserted(k) => Reinserted(k)' /\ Pending(k)' # {}
  BY <1>1, SameLog DEF Reinserted
<1>5. ASSUME Attached, NEW k \in Keys, Reinserted(k), k \notin DOMAIN batch
      PROVE  ~Lost(k)
  BY <1>5, LostMeans DEF Reinserted
<1>u. \A k \in Keys : Unmatched(k)' <=> Unmatched(k)
  BY <1>1, UnmatchedSame
<1>6. RestIsAhead'
  BY <1>1, <1>2, <1>3, <1>u DEF CatchUpCore, RestIsAhead, CatchUpSteps
<1>7. PageLanded'
  BY <1>1, <1>2, <1>3, <1>5, <1>u DEF CatchUpCore, PageCovers, PageLanded, LastKey
<1>. QED  BY <1>1, <1>6, <1>7 DEF CatchUpCore, PageCovers, SinkSeen

LEMMA CatchUpAfterSaveCursor ==
  ASSUME LossInv, CatchUpCore, SaveCursor
  PROVE  CatchUpCore'
<1>1. /\ UNCHANGED <<source, wal, slot, sink, from>>
      /\ pc = "saveCursor" /\ pc' = "fetch" /\ cursor' = LastKey(batch)
  BY DEF SaveCursor
<1>2. \A k \in Keys : (Lost(k)' <=> Lost(k)) /\ (Unmatched(k)' <=> Unmatched(k))
  BY <1>1, SameData, UnmatchedSame
<1>3. LastKey(batch) \in Keys
  BY <1>1, LastKeyIsGreatest DEF LossInv, TypeInv, TypeOK, LocalsOK, PageHeld
<1>4. Keys \subseteq Nat
  BY KeysAssumption
<1>5. ASSUME Attached', NEW k \in Keys, Lost(k)'
      PROVE  k <= from \/ k > cursor' \/ source[k] = 0 \/ Unmatched(k)
  <2>1. Attached /\ Lost(k)
    BY <1>1, <1>2, <1>5 DEF Attached
  <2>2. k <= from \/ k > cursor \/ source[k] = 0 \/ Unmatched(k)
    BY <1>1, <2>1 DEF CatchUpCore, RestIsAhead, CatchUpSteps
  <2>3. cursor < k /\ k <= LastKey(batch) => source[k] = 0 \/ Unmatched(k)
    BY <1>1, <2>1 DEF CatchUpCore, PageLanded
  <2>4. k \in Nat /\ cursor \in Nat /\ LastKey(batch) \in Nat
    <3>1. cursor \in Nat
      BY KeysAssumption DEF LossInv, TypeInv, TypeOK, LocalsOK
    <3>. QED  BY <1>3, <1>4, <3>1
  <2>. QED  BY <1>1, <2>2, <2>3, <2>4
<1>6. RestIsAhead'
  BY <1>1, <1>2, <1>5 DEF RestIsAhead, CatchUpSteps
<1>. QED  BY <1>1, <1>6 DEF CatchUpCore, PageCovers, PageLanded, SinkSeen

LEMMA CatchUpStep ==
  ASSUME SlotsAreKept', LossInv, AloneCore, CatchUpCore, [Next]_vars
  PROVE  CatchUpCore'
<1>1. CASE ApplyChange \/ TableCopy
  <2>1. pc' \notin RecoverySteps
    BY <1>1 DEF ApplyChange, TableCopy, AloneCore, Dropped, daemonVars
  <2>. QED
    BY <2>1
    DEF CatchUpCore, RestIsAhead, PageCovers, PageLanded, SinkSeen, RecoverySteps,
        CatchUpSteps, SweepSteps
<1>2. CASE SlotLost
  BY <1>2 DEF SlotLost, SlotsAreKept
<1>3. CASE ReadState
  <2>1. UNCHANGED <<source, wal, slot, sink>> /\ pc' = "fetch" /\ from' = cursor' /\ cursor' \in Nat
    BY <1>3, KeysAssumption DEF ReadState, dbVars, LossInv, TypeInv, TypeOK, DatabasesOK
  <2>2. RestIsAhead'
    BY <2>1, KeysAssumption DEF RestIsAhead, CatchUpSteps
  <2>. QED  BY <2>1, <2>2 DEF CatchUpCore, PageCovers, PageLanded, SinkSeen
<1>4. CASE ReadSourceIds \/ ReadSinkIds
  <2>1. UNCHANGED <<source, wal, slot, sink, from, cursor>>
        /\ pc \in {"readSourceIds", "readSinkIds"} /\ pc' \in {"readSinkIds", "deleteGhosts"}
        /\ (pc' = "deleteGhosts" => sinkIds' = {k \in Keys : sink[k] # 0})
    BY <1>4 DEF ReadSourceIds, ReadSinkIds, dbVars
  <2>2. \A k \in Keys : (Lost(k)' <=> Lost(k)) /\ (Unmatched(k)' <=> Unmatched(k))
    BY <2>1, SameData, UnmatchedSame
  <2>3. RestIsAhead'
    BY <2>1, <2>2 DEF CatchUpCore, RestIsAhead, CatchUpSteps, SweepSteps, Attached
  <2>. QED  BY <2>1, <2>3 DEF CatchUpCore, PageCovers, PageLanded, SinkSeen
<1>5. CASE UNCHANGED vars
  <2>1. UNCHANGED <<source, wal, slot, sink, from, cursor, pc, batch, sinkIds>>
    BY <1>5 DEF vars, dbVars, daemonVars, localVars
  <2>2. \A k \in Keys : /\ Lost(k)' <=> Lost(k)
                        /\ Reinserted(k)' <=> Reinserted(k)
                        /\ Unmatched(k)' <=> Unmatched(k)
    BY <2>1, SameData, SameLog, UnmatchedSame
  <2>3. LastKey(batch)' = LastKey(batch)
    BY <2>1 DEF LastKey
  <2>. QED
    BY <2>1, <2>2, <2>3
    DEF CatchUpCore, RestIsAhead, PageCovers, PageLanded, SinkSeen, Attached
<1>6. CASE Application
  BY <1>6, CatchUpAfterWrite
<1>7. CASE Fetch \/ Upsert \/ SaveCursor
  BY <1>7, CatchUpAfterFetch, CatchUpAfterUpsert, CatchUpAfterSaveCursor
<1>8. ASSUME pc' \notin CatchUpSteps \cup SweepSteps
      PROVE  CatchUpCore'
  BY <1>8
  DEF CatchUpCore, RestIsAhead, PageCovers, PageLanded, SinkSeen, CatchUpSteps, SweepSteps
<1>9. CASE Reconcile /\ ~(ReadState \/ Fetch \/ Upsert \/ SaveCursor \/ ReadSourceIds \/ ReadSinkIds)
  <2>1. pc' \notin CatchUpSteps \cup SweepSteps
    BY <1>9
    DEF Reconcile, DiscoverSource, DiscoverSink, SourceSetup, CreateSlot, SaveLsn, DeleteGhosts,
        SetupStateRow, CreateVectorizer, Enable, Decide, Subscribe, AfterRecovery, AfterSourceSetup,
        CatchUpSteps, SweepSteps
  <2>. QED  BY <1>8, <2>1
<1>10. CASE Start \/ SelfDestruct \/ Stop \/ Teardown \/ StepFails \/ Crash
  <2>1. pc' \notin CatchUpSteps \cup SweepSteps
    BY <1>10
    DEF Start, SelfDestruct, Stop, Teardown, Disable, Detach, DropSubscription, DropVectorizer,
        SinkTeardownFails, DropSlot, StepFails, Crash, CatchUpSteps, SweepSteps
  <2>. QED  BY <1>8, <2>1
<1>. QED  BY <1>1, <1>2, <1>3, <1>4, <1>5, <1>6, <1>7, <1>9, <1>10 DEF Next

LEMMA CatchUpInvariant == Spec => [](LossInv /\ AloneInv /\ CatchUpInv)
<1>1. Init => CatchUpInv
  BY DEF Init, CatchUpInv, CatchUpCore, RestIsAhead, PageCovers, PageLanded, SinkSeen,
         CatchUpSteps, SweepSteps
<1>2. LossInv /\ AloneInv /\ CatchUpInv /\ [Next]_vars => CatchUpInv'
  BY CatchUpStep, KeptBefore DEF AloneInv, CatchUpInv
<1>. QED  BY AloneInvariant, <1>1, <1>2, PTL DEF Spec

(* A catch-up leaves nothing wrong between the point where it began and    *)
(* its cursor except ghosts and filtered rows, whatever is written         *)
(* meanwhile and however the pages fall.                                   *)
THEOREM CatchUpCoversHolds == Spec => []CatchUpCovers
<1>1. CatchUpInv => CatchUpCovers
  BY DEF CatchUpInv, CatchUpCore, RestIsAhead, CatchUpCovers
<1>. QED  BY CatchUpInvariant, <1>1, PTL

(* The sweep completes the recovery: what is wrong after it is a live row  *)
(* at or below the last_id the catch-up began with, or one the filter has  *)
(* kept out, never a ghost and never a row of a page.                      *)
THEOREM SweepHealsHolds == Spec => SweepHeals
<1>. DEFINE Step == SlotsAreKept /\ DeleteGhosts /\ Attached =>
                      \A k \in Keys : Lost(k)' => (k <= from \/ Unmatched(k)) /\ source[k] # 0
<1>1. ASSUME LossInv, AloneCore, CatchUpCore, DeleteGhosts, Attached, NEW k \in Keys, Lost(k)'
      PROVE  (k <= from \/ Unmatched(k)) /\ source[k] # 0
  <2>1. pc = "deleteGhosts" /\ Alone
    BY <1>1, DroppedIsAlone DEF DeleteGhosts, AloneCore, RecoverySteps, SweepSteps
  <2>2. Lost(k) /\ k \notin sinkIds \ sourceIds
    BY <1>1, <2>1, SweepLosesNothing
  <2>3. source[k] # 0
    <3>. SUFFICES ASSUME source[k] = 0 PROVE FALSE
      OBVIOUS
    <3>1. sink[k] # 0 /\ Pending(k) = {}
      BY <2>2, LostMeans
    <3>2. k \in sinkIds
      BY <1>1, <2>1, <3>1 DEF CatchUpCore, SinkSeen
    <3>3. k \notin sourceIds
      BY <1>1, <2>1, <3>1 DEF LossInv, SweepFresh
    <3>. QED  BY <2>2, <3>2, <3>3
  <2>4. k <= from \/ Unmatched(k)
    BY <1>1, <2>1, <2>2, <2>3 DEF CatchUpCore, RestIsAhead, CatchUpSteps, SweepSteps
  <2>. QED  BY <2>3, <2>4
<1>2. LossInv /\ AloneInv /\ CatchUpInv => [Step]_vars
  BY <1>1 DEF AloneInv, CatchUpInv
<1>. QED  BY CatchUpInvariant, <1>2, PTL DEF SweepHeals

-----------------------------------------------------------------------------
(* The recovery implements the contract of a target.                       *)

StandingOf(k) == IF Lost(k) THEN "lost" ELSE IF Pending(k) # {} THEN "owed" ELSE "level"

LEMMA StandingByKey ==
  /\ Standing = [k \in Keys |-> StandingOf(k)]
  /\ Standing' = [k \in Keys |-> StandingOf(k)']
BY DEF Standing, StandingOf

(* The contract is not void as long as nothing has gone wrong.             *)
LEMMA ContractInForce ==
  ASSUME SourceAnswers, SourceAnswers'
  PROVE  (~SourceAnswers)' = (~SourceAnswers)
<1>1. mishaps' = mishaps
  BY DEF SourceAnswers
<1>. QED  BY <1>1, Zenon DEF SourceAnswers

LEMMA ContractInit == Init => Contract!Init
<1>. SUFFICES ASSUME Init PROVE Contract!Init
  OBVIOUS
<1>1. ~Attached
  BY DEF Init, Attached
<1>2. \A k \in Keys : source[k] = sink[k] /\ Pending(k) = {}
  BY <1>1, NothingPendingDetached DEF Init
<1>3. \A k \in Keys : ~Lost(k)
  BY <1>2, LostMeans
<1>4. SourceAnswers
  BY DEF Init, SourceAnswers
<1>5. Attached = FALSE /\ (~SourceAnswers) = FALSE
  BY <1>1, <1>4, Zenon DEF Attached
<1>6. Standing = [k \in Keys |-> "level"]
  BY <1>1, <1>2, <1>3 DEF Standing
<1>. QED  BY <1>5, <1>6 DEF Contract!Init

(* Steps that keep what is lost and what is pending are stutters.          *)
LEMMA ContractStutter ==
  ASSUME SourceAnswers, SourceAnswers', Attached' <=> Attached,
         \A k \in Keys : (Lost(k)' <=> Lost(k)) /\ (Pending(k)' = {} <=> Pending(k) = {})
  PROVE  UNCHANGED Contract!vars
<1>1. \A k \in Keys : StandingOf(k)' = StandingOf(k)
  BY DEF StandingOf
<1>2. Standing' = Standing
  BY <1>1, StandingByKey
<1>3. Attached' = Attached
  BY Zenon DEF Attached
<1>. QED  BY <1>2, <1>3, ContractInForce DEF Contract!vars

(* Steps that leave source and log alone and lose nothing deliver or mend. *)
LEMMA ContractMend ==
  ASSUME SourceAnswers, SourceAnswers', Attached, Attached',
         \A k \in Keys : (Lost(k)' => Lost(k)) /\ Pending(k)' \subseteq Pending(k)
  PROVE  Contract!Mend
<1>1. ASSUME NEW k \in Keys
      PROVE  \/ StandingOf(k)' = StandingOf(k)
             \/ StandingOf(k) = "owed" /\ StandingOf(k)' = "level"
             \/ StandingOf(k) = "lost"
  BY DEF StandingOf
<1>2. \A k \in Keys : StandingOf(k)' \in {"level", "owed", "lost"}
  BY DEF StandingOf
<1>3. Attached' = Attached
  BY Zenon DEF Attached
<1>. QED  BY <1>1, <1>2, <1>3, StandingByKey, ContractInForce DEF Contract!Mend

LEMMA ContractWrite ==
  ASSUME SourceAnswers, SourceAnswers', LossInv, Application
  PROVE  \E k \in Keys : Contract!Write(k)
<1>1. PICK k \in Keys, op \in {"insert", "update", "delete"}, content \in {0, Len(wal) + 1} :
        Writes(k, op, content)
  BY ApplicationWrites
<1>2. Write(k, op, content) /\ DatabasesOK
  BY <1>1 DEF Writes, LossInv, TypeInv, TypeOK
<1>3. UNCHANGED <<slot, sink>> /\ source' = [source EXCEPT ![k] = content]
  BY <1>2, WrittenLog
<1>4. Attached' = Attached
  BY <1>3 DEF Attached
<1>5. \A j \in Keys \ {k} : sink'[j] = sink[j] /\ source'[j] = source[j]
  BY <1>2, <1>3 DEF DatabasesOK
<1>6. \A j \in Keys \ {k} : Pending(j)' = Pending(j) /\ (Reinserted(j)' <=> Reinserted(j))
  <2>1. CASE Attached
    BY <1>2, <2>1, WritePending
  <2>2. CASE ~Attached
    <3>1. \A j \in Keys : Pending(j) = {} /\ Pending(j)' = {}
      BY <1>4, <2>2 DEF Pending
    <3>. QED  BY <3>1 DEF Reinserted
  <2>. QED  BY <2>1, <2>2
<1>7. \A j \in Keys \ {k} : StandingOf(j)' = StandingOf(j)
  BY <1>5, <1>6, LostMeans, LostMeansNext DEF StandingOf
<1>8. Standing' = [Standing EXCEPT ![k] = StandingOf(k)']
  BY <1>7, StandingByKey
<1>9. StandingOf(k)' \in {"level", "owed", "lost"}
  BY DEF StandingOf
<1>10. Attached => StandingOf(k)' = "owed" \/ (StandingOf(k)' = "lost" /\ Standing[k] = "lost")
  <2>. SUFFICES ASSUME Attached
                PROVE  StandingOf(k)' = "owed" \/ (StandingOf(k)' = "lost" /\ Standing[k] = "lost")
    OBVIOUS
  <2>1. Pending(k)' # {}
    BY <1>2, WritePending
  <2>2. ~Lost(k) => ~Lost(k)'
    BY <1>1, WriteLosesNothing
  <2>. QED  BY <2>1, <2>2, StandingByKey DEF StandingOf
<1>11. ~Attached => StandingOf(k)' # "owed"
  BY <1>4 DEF StandingOf, Pending
<1>. QED  BY <1>4, <1>8, <1>9, <1>10, <1>11, ContractInForce DEF Contract!Write

LEMMA ContractRelease ==
  ASSUME SourceAnswers, SourceAnswers', Attached, slot' = NoSlot,
         UNCHANGED <<source, wal, sink>>
  PROVE  Contract!Release
<1>1. ~Attached'
  BY DEF Attached
<1>2. \A k \in Keys : Pending(k)' = {}
  BY <1>1 DEF Pending
<1>3. ASSUME NEW k \in Keys
      PROVE  /\ StandingOf(k)' \in {"level", "lost"}
             /\ StandingOf(k) # "owed" => StandingOf(k)' = StandingOf(k)
  BY <1>2, LostMeans, LostMeansNext DEF StandingOf
<1>4. Attached' = FALSE
  <2>1. Attached' \in BOOLEAN
    BY Zenon DEF Attached
  <2>. QED  BY <1>1, <2>1, Zenon
<1>. QED  BY <1>3, <1>4, StandingByKey, ContractInForce DEF Contract!Release

LEMMA ContractStep ==
  ASSUME SourceAnswers', LossInv, AloneCore, AnchorCore, [Next]_vars
  PROVE  [Contract!Next]_(Contract!vars)
<1>. USE DEF LossInv, TypeInv, TypeOK
<1>0. SourceAnswers
  BY KeptBefore
<1>1. CASE Application
  BY <1>0, <1>1, ContractWrite DEF Contract!Next
<1>2. CASE ApplyChange
  <2>1. Attached /\ Attached'
    BY <1>2, AttachedKept, Zenon DEF ApplyChange
  <2>2. \A k \in Keys : (Lost(k)' => Lost(k)) /\ Pending(k)' \subseteq Pending(k)
    <3>. TAKE k \in Keys
    <3>1. Pending(k)' \subseteq Pending(k)
      BY <1>2, <2>1, DeliveryShrinks
    <3>2. ~Lost(k) => ~Lost(k)'
      BY <1>2, DeliveryLosesNothing
    <3>. QED  BY <3>1, <3>2
  <2>. QED  BY <2>1, <2>2, <1>0, ContractMend DEF Contract!Next
<1>3. CASE TableCopy
  BY <1>3 DEF TableCopy, AnchorCore
<1>4. CASE SlotLost
  BY <1>4 DEF SlotLost, SourceAnswers
<1>5. CASE CreateSlot
  <2>1. ~Attached /\ slot' = Len(wal) /\ UNCHANGED <<source, wal, sink>>
    BY <1>5 DEF CreateSlot
  <2>2. Attached'
    BY <2>1, LogIsTyped DEF Attached, NoSlot
  <2>3. \A k \in Keys : StandingOf(k)' = StandingOf(k)
    BY <2>1, FreshSlotLosesNothing, NothingPendingDetached DEF StandingOf
  <2>4. Attached' = TRUE
    <3>1. Attached' \in BOOLEAN
      BY Zenon DEF Attached
    <3>. QED  BY <2>2, <3>1, Zenon
  <2>. QED  BY <2>1, <2>3, <2>4, <1>0, StandingByKey, ContractInForce DEF Contract!Next, Contract!Anchor
<1>6. CASE Upsert \/ DeleteGhosts
  <2>1. UNCHANGED <<source, wal, slot>> /\ pc \in {"upsert", "deleteGhosts"}
    BY <1>6 DEF Upsert, DeleteGhosts
  <2>2. Attached /\ Attached' /\ Alone
    BY <2>1, DroppedIsAlone
    DEF AnchorCore, AloneCore, Attached, RecoverySteps, CatchUpSteps, SweepSteps
  <2>3. \A k \in Keys : (Lost(k)' => Lost(k)) /\ Pending(k)' \subseteq Pending(k)
    BY <1>6, <2>1, <2>2, PageLosesNothing, SweepLosesNothing, SameLog
  <2>. QED  BY <2>2, <2>3, <1>0, ContractMend DEF Contract!Next
<1>7. CASE Subscribe
  <2>1. UNCHANGED <<source, wal, slot, sink>>
    BY <1>7 DEF Subscribe, AnchorCore
  <2>. QED  BY <2>1, SameData, SameLog, <1>0, ContractStutter DEF Attached
<1>8. CASE DropSlot
  <2>1. UNCHANGED <<source, wal, sink>> /\ (slot' = NoSlot \/ UNCHANGED slot)
    BY <1>8 DEF DropSlot
  <2>2. CASE Attached /\ slot' = NoSlot
    BY <2>1, <2>2, <1>0, ContractRelease DEF Contract!Next
  <2>3. CASE UNCHANGED slot
    BY <2>1, <2>3, SameData, SameLog, <1>0, ContractStutter DEF Attached
  <2>. QED  BY <2>1, <2>2, <2>3 DEF Attached
<1>9. CASE Bookkeeping \/ UNCHANGED vars
  BY <1>9, BookkeepingTouchesNoData, SameData, SameLog, <1>0, ContractStutter DEF Attached
<1>. QED  BY <1>1, <1>2, <1>3, <1>4, <1>5, <1>6, <1>7, <1>8, <1>9, NextCases

(* A target keeps the contract: with a slot in place a written key is owed *)
(* until it is delivered and no key gets lost; only giving the slot up, or *)
(* a write without one, loses a key.                                       *)
THEOREM RecoveryImplementsContract == Spec => ImplementsContract
<1>1. CopyInv /\ [Next]_vars => [Contract!Next]_(Contract!vars)
  <2>. SUFFICES ASSUME CopyInv, [Next]_vars PROVE [Contract!Next]_(Contract!vars)
    OBVIOUS
  <2>1. CASE (~SourceAnswers)'
    BY <2>1 DEF Contract!Next
  <2>2. CASE SourceAnswers'
    <3>1. SourceAnswers /\ SlotsAreKept
      BY <2>2, KeptBefore, AnswersMeansKept
    <3>2. LossInv /\ AloneCore /\ AnchorCore
      BY <3>1 DEF CopyInv, AloneInv, AnchorInv
    <3>. QED  BY <2>2, <3>2, ContractStep
  <2>. QED  BY <2>1, <2>2
<1>. QED
  BY ContractInit, AnchorInvariant, <1>1, PTL DEF Spec, ImplementsContract, Contract!Spec

=============================================================================
