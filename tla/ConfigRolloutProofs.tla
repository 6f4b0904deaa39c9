------------------------- MODULE ConfigRolloutProofs -------------------------
(***************************************************************************)
(* The safety properties of ConfigRollout, for all sets of daemons and     *)
(* versions, all settings, all bounds and all surroundings.                *)
(*                                                                         *)
(*   TypeInv   types, and no generation beyond the number of posts         *)
(*   ViewInv   whoever reconciles holds the lock; the view has its store   *)
(*             and its hash; a vectorizer is set up where there is none    *)
(*   BuiltInv  with PlanIsEnough: what an undisturbed reconciliation has   *)
(*             already achieved                                            *)
(***************************************************************************)
EXTENDS ConfigRollout, SequenceTheorems, WellFoundedInduction, TLAPS

-----------------------------------------------------------------------------
(* The newest generation.                                                  *)

LEMMA LeastNat ==
  ASSUME NEW S \in SUBSET Nat, S # {}
  PROVE  \E k \in S : \A j \in S : k <= j
<1>1. PICK k \in S : \A j \in S : ~ (<<j, k>> \in OpToRel(<, Nat))
  BY NatLessThanWellFounded, WFMin
<1>2. ASSUME NEW j \in S PROVE k <= j
  <2>1. <<j, k>> \in Nat \X Nat
    OBVIOUS
  <2>2. ~ (j < k)
    BY <1>1, <2>1 DEF OpToRel
  <2>. QED  BY <2>2
<1>. QED  BY <1>2

LEMMA GreatestBelow ==
  ASSUME NEW n \in Nat, NEW S \in SUBSET (0 .. n), S # {}
  PROVE  \E g \in S : \A h \in S : h <= g
<1>. DEFINE Gap == {n - g : g \in S}
<1>1. Gap \in SUBSET Nat /\ Gap # {}
  <2>1. \A g \in S : n - g \in Nat
    OBVIOUS
  <2>. QED  BY <2>1
<1>2. PICK k \in Gap : \A h \in Gap : k <= h
  BY <1>1, LeastNat
<1>3. PICK g \in S : k = n - g
  OBVIOUS
<1>4. \A h \in S : n - g <= n - h
  BY <1>2, <1>3
<1>. QED  BY <1>4

(* MAX(generation) is some entry's, and no entry's is greater.             *)
LEMMA LatestIsGreatest ==
  ASSUME history \in Seq(Entries)
  PROVE  /\ Latest \in 0 .. MaxPosts
         /\ history # <<>> => Latest \in Generations
<1>1. CASE history = <<>>
  BY <1>1, BoundsAssumption DEF Latest
<1>2. CASE history # <<>>
  <2>1. /\ Len(history) \in Nat \ {0} /\ DOMAIN history = 1 .. Len(history)
        /\ \A i \in DOMAIN history : history[i] \in Entries
    BY <1>2, EmptySeq, LenProperties, ElementOfSeq
  <2>2. \A i \in DOMAIN history : history[i].generation \in 0 .. MaxPosts
    BY <2>1, BoundsAssumption DEF Entries
  <2>3. Generations \in SUBSET (0 .. MaxPosts)
    BY <2>2 DEF Generations
  <2>4. 1 \in DOMAIN history
    BY <2>1
  <2>5. Generations # {}
    BY <2>4 DEF Generations
  <2>6. \E g \in Generations : \A h \in Generations : h <= g
    BY <2>3, <2>5, GreatestBelow, BoundsAssumption
  <2>7. Latest \in Generations
    BY <1>2, <2>6 DEF Latest
  <2>. QED  BY <2>3, <2>7
<1>. QED  BY <1>1, <1>2

-----------------------------------------------------------------------------
(* Types.                                                                  *)

Posted == Len(history) + Len(posting)

GenerationsBounded ==
  /\ \A i \in DOMAIN history : history[i].generation <= Posted
  /\ \A i \in DOMAIN posting : posting[i].generation <= Posted

HistInv == HistoryOK /\ GenerationsBounded
TypeInv == HistInv /\ SinkOK /\ CallsOK

(* A change of status leaves everything else about the history as it was.  *)
LEMMA MarkedKeeps ==
  ASSUME history \in Seq(Entries), NEW g, NEW status \in StatusNames
  PROVE  /\ Marked(g, status) \in Seq(Entries)
         /\ Len(Marked(g, status)) = Len(history)
         /\ DOMAIN Marked(g, status) = DOMAIN history
         /\ \A i \in DOMAIN history :
              /\ Marked(g, status)[i].generation = history[i].generation
              /\ Marked(g, status)[i].status \in {history[i].status, status}
<1>. DEFINE n == Len(history)
<1>1. /\ n \in Nat /\ DOMAIN history = 1 .. n
      /\ \A i \in DOMAIN history : history[i] \in Entries
  BY LenProperties, ElementOfSeq
<1>2. /\ DOMAIN Marked(g, status) = 1 .. n
      /\ \A i \in 1 .. n : Marked(g, status)[i] =
           IF history[i].generation # g THEN history[i]
           ELSE [history[i] EXCEPT !.status = status]
  BY <1>1 DEF Marked
<1>3. \A i \in 1 .. n :
        /\ Marked(g, status)[i] \in Entries
        /\ Marked(g, status)[i].generation = history[i].generation
        /\ Marked(g, status)[i].status \in {history[i].status, status}
  BY <1>1, <1>2 DEF Entries
<1>4. Marked(g, status) \in [1 .. n -> Entries]
  BY <1>1, <1>2, <1>3 DEF Marked
<1>5. Marked(g, status) \in Seq(Entries)
  BY <1>1, <1>4, SeqDef
<1>6. Len(Marked(g, status)) = n
  BY <1>1, <1>2, <1>5, LenProperties
<1>. QED  BY <1>1, <1>2, <1>3, <1>5, <1>6

LEMMA MarkingKeepsHistory ==
  ASSUME HistInv, NEW g, NEW status \in StatusNames,
         history' = Marked(g, status), UNCHANGED posting
  PROVE  HistInv'
BY MarkedKeeps DEF HistInv, HistoryOK, GenerationsBounded, Posted

LEMMA BeginPostKeepsHistory ==
  ASSUME HistInv, NEW v \in Versions, BeginPost(v)
  PROVE  HistInv'
<1>1. /\ history \in Seq(Entries) /\ posting \in Seq(Entries)
      /\ Len(history) \in Nat /\ Len(posting) \in Nat
      /\ DOMAIN history = 1 .. Len(history) /\ DOMAIN posting = 1 .. Len(posting)
  BY LenProperties DEF HistInv, HistoryOK
<1>2. Latest \in 0 .. MaxPosts /\ Latest <= Posted
  <2>1. CASE history = <<>>
    BY <1>1, <2>1, LatestIsGreatest, BoundsAssumption DEF Latest, Posted
  <2>2. CASE history # <<>>
    <3>1. Latest \in Generations /\ Latest \in 0 .. MaxPosts
      BY <1>1, <2>2, LatestIsGreatest
    <3>2. \A g \in Generations : g <= Posted
      BY DEF Generations, HistInv, GenerationsBounded
    <3>. QED  BY <3>1, <3>2
  <2>. QED  BY <2>1, <2>2
<1>3. Posted + 1 <= MaxPosts /\ Posted \in Nat
  BY <1>1, BoundsAssumption DEF BeginPost, Posted
<1>. DEFINE e == Entry(v, Latest + 1)
<1>4. Latest + 1 \in 1 .. MaxPosts /\ Latest + 1 <= Posted + 1
  BY <1>2, <1>3, BoundsAssumption
<1>5. e \in Entries /\ e.generation = Latest + 1
  BY <1>4 DEF Entry, Entries, StatusNames
<1>6. posting' = Append(posting, e) /\ history' = history
  BY DEF BeginPost
<1>. HIDE DEF e
<1>7. /\ posting' \in Seq(Entries) /\ Len(posting') = Len(posting) + 1
      /\ \A i \in 1 .. Len(posting) : posting'[i] = posting[i]
      /\ posting'[Len(posting) + 1] = e
  BY <1>1, <1>5, <1>6, AppendProperties
<1>8. Posted' = Posted + 1
  BY <1>1, <1>6, <1>7 DEF Posted
<1>9. DOMAIN posting' = 1 .. Len(posting) + 1
  BY <1>7, LenProperties
<1>10. \A i \in DOMAIN posting' : posting'[i].generation <= Posted + 1
  <2>1. ASSUME NEW i \in 1 .. Len(posting) PROVE posting'[i].generation <= Posted + 1
    <3>1. posting[i] \in Entries /\ posting[i].generation <= Posted
      BY <1>1, <2>1, ElementOfSeq DEF HistInv, GenerationsBounded
    <3>2. posting[i].generation \in Nat
      BY <3>1, BoundsAssumption DEF Entries
    <3>. QED  BY <1>3, <1>7, <3>1, <3>2
  <2>2. \A i \in 1 .. Len(posting) + 1 : i \in 1 .. Len(posting) \/ i = Len(posting) + 1
    BY <1>1
  <2>. QED  BY <1>4, <1>5, <1>7, <1>9, <2>1, <2>2
<1>11. \A i \in DOMAIN history' : history'[i].generation <= Posted + 1
  <2>1. ASSUME NEW i \in DOMAIN history PROVE history[i].generation <= Posted + 1
    <3>1. history[i] \in Entries /\ history[i].generation <= Posted
      BY <1>1, ElementOfSeq DEF HistInv, GenerationsBounded
    <3>2. history[i].generation \in Nat
      BY <3>1, BoundsAssumption DEF Entries
    <3>. QED  BY <1>3, <3>1, <3>2
  <2>. QED  BY <1>6, <2>1
<1>12. Len(history') + Len(posting') <= MaxPosts
  BY <1>3, <1>8 DEF Posted
<1>. QED
  BY <1>1, <1>6, <1>7, <1>8, <1>10, <1>11, <1>12 DEF HistInv, HistoryOK, GenerationsBounded

LEMMA EndPostKeepsHistory ==
  ASSUME HistInv, NEW i \in DOMAIN posting, EndPost(i)
  PROVE  HistInv'
<1>. DEFINE n == Len(posting)
<1>1. /\ history \in Seq(Entries) /\ posting \in Seq(Entries)
      /\ Len(history) \in Nat /\ n \in Nat /\ i \in 1 .. n
      /\ DOMAIN history = 1 .. Len(history) /\ DOMAIN posting = 1 .. n
      /\ \A j \in 1 .. n : posting[j] \in Entries
  BY LenProperties, ElementOfSeq DEF HistInv, HistoryOK
<1>2. /\ history' \in Seq(Entries) /\ Len(history') = Len(history) + 1
      /\ \A j \in 1 .. Len(history) : history'[j] = history[j]
      /\ history'[Len(history) + 1] = posting[i]
  BY <1>1, AppendProperties DEF EndPost
<1>3. /\ DOMAIN posting' = 1 .. n - 1 /\ n - 1 \in Nat
      /\ \A j \in 1 .. n - 1 : \E k \in 1 .. n : posting'[j] = posting[k]
  BY <1>1 DEF EndPost
<1>4. posting' \in [1 .. n - 1 -> Entries]
  BY <1>1, <1>3 DEF EndPost
<1>5. posting' \in Seq(Entries)
  BY <1>3, <1>4, SeqDef
<1>6. Len(posting') = n - 1
  BY <1>3, <1>5, LenProperties
<1>7. Posted' = Posted
  BY <1>1, <1>2, <1>6 DEF Posted
<1>8. \A j \in DOMAIN posting' : posting'[j].generation <= Posted
  BY <1>1, <1>3 DEF HistInv, GenerationsBounded
<1>9. DOMAIN history' = 1 .. Len(history) + 1
  BY <1>2, LenProperties
<1>10. \A j \in DOMAIN history' : history'[j].generation <= Posted
  <2>1. \A j \in 1 .. Len(history) + 1 : j \in 1 .. Len(history) \/ j = Len(history) + 1
    BY <1>1
  <2>. QED  BY <1>1, <1>2, <1>9, <2>1 DEF HistInv, GenerationsBounded
<1>11. Len(history') + Len(posting') <= MaxPosts
  BY <1>7 DEF Posted, HistInv, HistoryOK
<1>. QED
  BY <1>2, <1>5, <1>7, <1>8, <1>10, <1>11 DEF HistInv, HistoryOK, GenerationsBounded

FaultsOK == faults \in 0 .. MaxFaults /\ seen \subseteq {"failure", "silence"}

LEMMA FaultKeepsType ==
  ASSUME CallsOK, NEW kind, Fault(kind)
  PROVE  FaultsOK'
<1>1. faults' \in 0 .. MaxFaults
  BY BoundsAssumption DEF CallsOK, Fault
<1>2. seen' \subseteq {"failure", "silence"}
  BY DEF CallsOK, Fault
<1>. QED  BY <1>1, <1>2 DEF FaultsOK

LEMMA TypeInit == Init => TypeInv
<1>. SUFFICES ASSUME Init PROVE TypeInv
  OBVIOUS
<1>. USE DEF Init
<1>1. HistInv
  <2>1. history \in Seq(Entries) /\ posting \in Seq(Entries)
        /\ Len(history) = 0 /\ Len(posting) = 0
    BY EmptySeq
  <2>2. DOMAIN history = {} /\ DOMAIN posting = {}
    BY <2>1, LenProperties
  <2>. QED  BY <2>1, <2>2, BoundsAssumption DEF HistInv, HistoryOK, GenerationsBounded
<1>2. SinkOK
  BY DEF SinkOK
<1>3. CallsOK
  BY OwnAssumption, BoundsAssumption DEF CallsOK, Places
<1>. QED  BY <1>1, <1>2, <1>3 DEF TypeInv

(* What the end of a call leaves to the next one.                          *)
LEMMA ForgetKeepsType ==
  ASSUME CallsOK, NEW d \in Daemons, Forget(d), Go(d, "idle")
  PROVE  /\ pc' \in [Daemons -> Places]
         /\ config' \in [Daemons -> Versions] /\ gen' \in [Daemons -> 0 .. MaxPosts]
         /\ plan' \in [Daemons -> SUBSET Actions]
         /\ disturbed' \subseteq Daemons
<1>1. Own[d] \in Versions /\ 0 \in 0 .. MaxPosts /\ {} \in SUBSET Actions
  BY OwnAssumption, BoundsAssumption
<1>2. pc' \in [Daemons -> Places] /\ disturbed' \subseteq Daemons
  BY DEF CallsOK, Forget, Go, Places
<1>3. config' \in [Daemons -> Versions]
  BY <1>1 DEF CallsOK, Forget
<1>4. gen' \in [Daemons -> 0 .. MaxPosts]
  BY <1>1 DEF CallsOK, Forget
<1>5. plan' \in [Daemons -> SUBSET Actions]
  BY <1>1 DEF CallsOK, Forget
<1>. QED  BY <1>2, <1>3, <1>4, <1>5

(* What the end of a call does to the types.                               *)
LEMMA FinishKeepsType ==
  ASSUME TypeInv, NEW d \in Daemons, NEW status \in StatusNames, Finish(d, status),
         UNCHANGED <<posting, stores, filled, view, stateRow, hash>>,
         due' \subseteq Daemons, FaultsOK'
  PROVE  TypeInv'
<1>1. HistInv'
  BY MarkingKeepsHistory DEF TypeInv, Finish
<1>2. SinkOK'
  BY DEF TypeInv, SinkOK, Finish, Leave
<1>3. CallsOK'
  BY ForgetKeepsType DEF TypeInv, CallsOK, Finish, Leave, FaultsOK
<1>. QED  BY <1>1, <1>2, <1>3 DEF TypeInv

LEMMA HistoryUnchanged ==
  ASSUME HistInv, UNCHANGED postVars
  PROVE  HistInv'
BY DEF HistInv, HistoryOK, GenerationsBounded, Posted, postVars

LEMMA TypeStep == TypeInv /\ [Next]_vars => TypeInv'
<1>. SUFFICES ASSUME TypeInv, [Next]_vars PROVE TypeInv'
  OBVIOUS
<1>. USE DEF postVars, storeVars, viewVars, localVars, faultVars
<1>1. HistInv /\ SinkOK /\ CallsOK
  BY DEF TypeInv
<1>2. ASSUME NEW v \in Versions, BeginPost(v) PROVE TypeInv'
  BY <1>1, <1>2, BeginPostKeepsHistory DEF TypeInv, BeginPost, SinkOK, CallsOK
<1>3. ASSUME NEW i \in DOMAIN posting, EndPost(i) PROVE TypeInv'
  BY <1>1, <1>3, EndPostKeepsHistory DEF TypeInv, EndPost, SinkOK, CallsOK
<1>4. ASSUME NEW v \in Versions, Embed(v) PROVE TypeInv'
  BY <1>1, <1>4, HistoryUnchanged DEF TypeInv, Embed, SinkOK, CallsOK
<1>5. CASE RowArrives
  BY <1>1, <1>5, HistoryUnchanged DEF TypeInv, RowArrives, SinkOK, CallsOK
<1>6. ASSUME NEW d \in Daemons, TryLock(d) PROVE TypeInv'
  BY <1>1, <1>6, HistoryUnchanged DEF TypeInv, TryLock, Go, SinkOK, CallsOK, Places
<1>7. ASSUME NEW d \in Daemons, Skip(d) PROVE TypeInv'
  BY <1>1, <1>7, HistoryUnchanged DEF TypeInv, Skip, SinkOK, CallsOK
<1>8. ASSUME NEW d \in Daemons, LoadConfig(d) PROVE TypeInv'
  <2>1. history \in Seq(Entries)
    BY <1>1 DEF HistInv, HistoryOK
  <2>2. Latest \in 0 .. MaxPosts
    BY <2>1, LatestIsGreatest
  <2>3. \A i \in DOMAIN history : history[i].version \in Versions
    <3>1. \A i \in DOMAIN history : history[i] \in Entries
      BY <2>1, LenProperties
    <3>. QED  BY <3>1 DEF Entries
  <2>4. \E v \in Versions, g \in 0 .. MaxPosts :
          config' = [config EXCEPT ![d] = v] /\ gen' = [gen EXCEPT ![d] = g]
    <3>1. Own[d] \in Versions /\ 0 \in 0 .. MaxPosts
      BY OwnAssumption, BoundsAssumption
    <3>. QED  BY <1>8, <2>2, <2>3, <3>1 DEF LoadConfig
  <2>5. config' \in [Daemons -> Versions] /\ gen' \in [Daemons -> 0 .. MaxPosts]
    BY <1>1, <2>4 DEF CallsOK
  <2>. QED
    BY <1>1, <1>8, <2>5, HistoryUnchanged DEF TypeInv, LoadConfig, Go, SinkOK, CallsOK, Places
<1>9. ASSUME NEW d \in Daemons, Discover(d) PROVE TypeInv'
  <2>1. plan' \in [Daemons -> SUBSET Actions]
    BY <1>1, <1>9 DEF Discover, CallsOK, Actions
  <2>. QED
    BY <1>1, <1>9, <2>1, HistoryUnchanged DEF TypeInv, Discover, Go, SinkOK, CallsOK, Places
<1>10. ASSUME NEW d \in Daemons, MarkSyncing(d) PROVE TypeInv'
  <2>1. CASE Finish(d, "Ready")
    BY <1>1, <1>10, <2>1, FinishKeepsType DEF MarkSyncing, StatusNames, CallsOK, FaultsOK
  <2>2. CASE /\ history' = Marked(gen[d], "Syncing") /\ Go(d, AfterMark(d))
             /\ UNCHANGED <<lock, localVars, disturbed>>
    <3>1. HistInv'
      BY <1>1, <1>10, <2>2, MarkingKeepsHistory DEF MarkSyncing, StatusNames
    <3>2. SinkOK' /\ CallsOK'
      BY <1>1, <1>10, <2>2 DEF MarkSyncing, Go, AfterMark, SinkOK, CallsOK, Places
    <3>. QED  BY <3>1, <3>2 DEF TypeInv
  <2>. QED  BY <1>10, <2>1, <2>2 DEF MarkSyncing
<1>11. ASSUME NEW d \in Daemons, Cleanup(d) PROVE TypeInv'
  BY <1>1, <1>11, HistoryUnchanged DEF TypeInv, Cleanup, Go, SinkOK, CallsOK, Places
<1>12. ASSUME NEW d \in Daemons, CreateStore(d) PROVE TypeInv'
  BY <1>1, <1>12, HistoryUnchanged DEF TypeInv, CreateStore, Go, SinkOK, CallsOK, Places
<1>13. ASSUME NEW d \in Daemons, SwapView(d) PROVE TypeInv'
  BY <1>1, <1>13, HistoryUnchanged DEF TypeInv, SwapView, Go, SinkOK, CallsOK, Places
<1>14. ASSUME NEW d \in Daemons, SwapFails(d) PROVE TypeInv'
  BY <1>1, <1>14, FinishKeepsType DEF SwapFails, StatusNames, CallsOK, FaultsOK
<1>15. ASSUME NEW d \in Daemons, MarkReady(d) PROVE TypeInv'
  BY <1>1, <1>15, FinishKeepsType DEF MarkReady, StatusNames, CallsOK, FaultsOK
<1>16. ASSUME NEW d \in Daemons, StepFails(d) PROVE TypeInv'
  BY <1>1, <1>16, FinishKeepsType, FaultKeepsType DEF StepFails, StatusNames, CallsOK
<1>17. ASSUME NEW d \in Daemons, Crash(d) PROVE TypeInv'
  <2>1. FaultsOK'
    BY <1>1, <1>17, FaultKeepsType DEF Crash
  <2>2. CallsOK'
    BY <1>1, <1>17, <2>1, ForgetKeepsType DEF Crash, Leave, CallsOK, FaultsOK
  <2>3. HistInv' /\ SinkOK'
    BY <1>1, <1>17, HistoryUnchanged DEF Crash, Leave, SinkOK
  <2>. QED  BY <2>2, <2>3 DEF TypeInv
<1>18. ASSUME NEW d \in Daemons, BeginTeardown(d) PROVE TypeInv'
  <2>1. FaultsOK'
    BY <1>1, <1>18, FaultKeepsType DEF BeginTeardown
  <2>. QED
    BY <1>1, <1>18, <2>1, HistoryUnchanged
    DEF TypeInv, BeginTeardown, Reconciling, Go, SinkOK, CallsOK, Places, FaultsOK
<1>19. ASSUME NEW d \in Daemons, DropStores(d) PROVE TypeInv'
  BY <1>1, <1>19, HistoryUnchanged
  DEF TypeInv, DropStores, Reconciling, Go, SinkOK, CallsOK, Places
<1>20. ASSUME NEW d \in Daemons, CallRaises(d) PROVE TypeInv'
  <2>1. FaultsOK' /\ due' \subseteq Daemons
    BY <1>1, <1>20, FaultKeepsType DEF CallRaises, CallsOK
  <2>2. CASE Finish(d, "Failed")
    BY <1>20, <2>1, <2>2, FinishKeepsType DEF CallRaises, StatusNames
  <2>3. CASE Leave(d) /\ UNCHANGED history
    <3>1. CallsOK'
      BY <1>1, <2>1, <2>3, ForgetKeepsType DEF Leave, CallsOK, FaultsOK
    <3>2. HistInv' /\ SinkOK'
      BY <1>1, <1>20, <2>3, HistoryUnchanged DEF CallRaises, Leave, SinkOK
    <3>. QED  BY <3>1, <3>2 DEF TypeInv
  <2>. QED  BY <1>20, <2>2, <2>3 DEF CallRaises
<1>21. CASE UNCHANGED vars
  BY <1>1, <1>21, HistoryUnchanged DEF TypeInv, vars, SinkOK, CallsOK
<1>. QED
  BY <1>2, <1>3, <1>4, <1>5, <1>6, <1>7, <1>8, <1>9, <1>10, <1>11, <1>12, <1>13,
     <1>14, <1>15, <1>16, <1>17, <1>18, <1>19, <1>20, <1>21 DEF Next, Posts, Goes

(* Types of everything the target's configuration lives in, for every      *)
(* number of posts, daemons and faults.                                    *)
THEOREM TypeCorrect == Spec => []TypeOK
<1>1. TypeInv => TypeOK
  BY DEF TypeInv, HistInv, TypeOK
<1>. QED  BY <1>1, TypeInit, TypeStep, PTL DEF Spec

-----------------------------------------------------------------------------
(* The search view.                                                        *)

ViewInv == HoldsLock /\ ViewHasStore /\ SetupIsNeeded /\ HashFollowsView

LEMMA ViewInit == Init => ViewInv
BY DEF Init, ViewInv, HoldsLock, ViewHasStore, SetupIsNeeded, HashFollowsView, Reconciling

(* A call ends: its daemon no longer reconciles, and nobody else did.      *)
LEMMA EndOfCallKeepsView ==
  ASSUME TypeInv, ViewInv, NEW d \in Daemons, d \in Reconciling,
         lock' = IF lock = d THEN None ELSE lock, Go(d, "idle"), Forget(d),
         UNCHANGED <<stores, filled, view, stateRow, hash>>
  PROVE  ViewInv'
<1>1. pc \in [Daemons -> Places] /\ lock = d
  BY DEF TypeInv, CallsOK, ViewInv, HoldsLock
<1>2. \A e \in Daemons : pc'[e] \in {"idle", "drop"}
  <2>1. ASSUME NEW e \in Daemons, e # d PROVE pc'[e] \in {"idle", "drop"}
    <3>1. e \notin Reconciling
      BY <1>1, <2>1 DEF ViewInv, HoldsLock
    <3>. QED  BY <1>1, <2>1, <3>1 DEF Reconciling, Go
  <2>2. pc'[d] = "idle"
    BY <1>1 DEF Go
  <2>. QED  BY <2>1, <2>2
<1>3. HoldsLock' /\ SetupIsNeeded'
  BY <1>2 DEF HoldsLock, SetupIsNeeded, Reconciling
<1>4. ViewHasStore' /\ HashFollowsView'
  BY DEF ViewInv, ViewHasStore, HashFollowsView
<1>. QED  BY <1>3, <1>4 DEF ViewInv

(* A step of the lock's holder from one place of its call to another.      *)
LEMMA HolderKeepsLock ==
  ASSUME TypeInv, ViewInv, NEW d \in Daemons, NEW here, NEW there,
         At(d, here), here \notin {"idle", "drop"}, Go(d, there), UNCHANGED lock
  PROVE  /\ HoldsLock' /\ d \in Reconciling
         /\ \A e \in Daemons \ {d} : pc'[e] = pc[e] /\ pc[e] \in {"idle", "drop"}
         /\ pc'[d] = there
<1>1. pc \in [Daemons -> Places]
  BY DEF TypeInv, CallsOK
<1>2. d \in Reconciling /\ lock = d
  BY DEF At, Reconciling, ViewInv, HoldsLock
<1>3. \A e \in Daemons \ {d} : pc[e] \in {"idle", "drop"}
  BY <1>2 DEF Reconciling, ViewInv, HoldsLock
<1>4. (\A e \in Daemons \ {d} : pc'[e] = pc[e]) /\ pc'[d] = there
  BY <1>1 DEF Go
<1>. QED  BY <1>2, <1>3, <1>4 DEF HoldsLock, Reconciling

LEMMA ViewStep == TypeInv /\ ViewInv /\ [Next]_vars => ViewInv'
<1>. SUFFICES ASSUME TypeInv, ViewInv, [Next]_vars PROVE ViewInv'
  OBVIOUS
<1>. USE DEF postVars, storeVars, viewVars, localVars, faultVars
<1>1. /\ HoldsLock /\ ViewHasStore /\ SetupIsNeeded /\ HashFollowsView
      /\ SinkOK /\ CallsOK
  BY DEF ViewInv, TypeInv
<1>2. ASSUME UNCHANGED <<lock, stores, view, stateRow, hash, pc, localVars>> PROVE ViewInv'
  BY <1>1, <1>2 DEF ViewInv, HoldsLock, ViewHasStore, SetupIsNeeded, HashFollowsView, Reconciling
<1>3. ASSUME NEW d \in Daemons, TryLock(d) PROVE ViewInv'
  <2>1. \A e \in Daemons : pc[e] \in {"idle", "drop"}
    BY <1>1, <1>3, SetsAssumption DEF TryLock, HoldsLock, Reconciling
  <2>2. pc'[d] = "load" /\ \A e \in Daemons \ {d} : pc'[e] \in {"idle", "drop"}
    BY <1>1, <1>3, <2>1 DEF TryLock, Go, CallsOK
  <2>3. HoldsLock' /\ SetupIsNeeded'
    BY <1>3, <2>2 DEF TryLock, HoldsLock, SetupIsNeeded, Reconciling
  <2>. QED  BY <1>1, <1>3, <2>3 DEF TryLock, ViewInv, ViewHasStore, HashFollowsView
<1>4. ASSUME NEW d \in Daemons, LoadConfig(d) PROVE ViewInv'
  <2>1. HoldsLock' /\ pc'[d] = "discover" /\ \A e \in Daemons \ {d} : pc'[e] \in {"idle", "drop"}
    BY <1>4, HolderKeepsLock DEF LoadConfig
  <2>2. SetupIsNeeded'
    BY <2>1 DEF SetupIsNeeded
  <2>. QED  BY <1>1, <1>4, <2>1, <2>2 DEF LoadConfig, ViewInv, ViewHasStore, HashFollowsView
<1>5. ASSUME NEW d \in Daemons, Discover(d) PROVE ViewInv'
  <2>1. HoldsLock' /\ pc'[d] = "mark" /\ \A e \in Daemons \ {d} : pc'[e] \in {"idle", "drop"}
    BY <1>5, HolderKeepsLock DEF Discover
  <2>2. "SINK_VECTORIZER_SETUP" \in plan'[d] => config'[d] \notin stores'
    BY <1>1, <1>5 DEF Discover, CallsOK
  <2>3. SetupIsNeeded'
    BY <2>1, <2>2 DEF SetupIsNeeded
  <2>. QED  BY <1>1, <1>5, <2>1, <2>3 DEF Discover, ViewInv, ViewHasStore, HashFollowsView
<1>6. ASSUME NEW d \in Daemons, MarkSyncing(d) PROVE ViewInv'
  <2>1. CASE Finish(d, "Ready")
    <3>1. d \in Reconciling
      BY <1>6 DEF MarkSyncing, At, Reconciling
    <3>. QED  BY <1>6, <2>1, <3>1, EndOfCallKeepsView DEF MarkSyncing, Finish, Leave
  <2>2. CASE Go(d, AfterMark(d)) /\ UNCHANGED <<lock, localVars, disturbed>>
    <3>1. /\ HoldsLock' /\ pc'[d] = AfterMark(d)
          /\ \A e \in Daemons \ {d} : pc'[e] \in {"idle", "drop"}
      BY <1>6, <2>2, HolderKeepsLock DEF MarkSyncing
    <3>2. SetupIsNeeded'
      BY <1>1, <1>6, <2>2, <3>1 DEF MarkSyncing, SetupIsNeeded, AfterMark, At
    <3>. QED
      BY <1>1, <1>6, <3>1, <3>2 DEF MarkSyncing, ViewInv, ViewHasStore, HashFollowsView
  <2>. QED  BY <1>6, <2>1, <2>2 DEF MarkSyncing
<1>7. ASSUME NEW d \in Daemons, Cleanup(d) PROVE ViewInv'
  <2>1. /\ HoldsLock' /\ pc'[d] = "create"
        /\ \A e \in Daemons \ {d} : pc'[e] \in {"idle", "drop"}
    BY <1>7, HolderKeepsLock DEF Cleanup
  <2>2. SetupIsNeeded'
    BY <2>1 DEF SetupIsNeeded
  <2>3. ViewHasStore' /\ HashFollowsView'
    BY <1>1, <1>7 DEF Cleanup, ViewHasStore, HashFollowsView
  <2>. QED  BY <2>1, <2>2, <2>3 DEF ViewInv
<1>8. ASSUME NEW d \in Daemons, CreateStore(d) PROVE ViewInv'
  <2>1. /\ HoldsLock' /\ pc'[d] = "swap"
        /\ \A e \in Daemons \ {d} : pc'[e] \in {"idle", "drop"}
    BY <1>8, HolderKeepsLock DEF CreateStore
  <2>2. SetupIsNeeded'
    BY <2>1 DEF SetupIsNeeded
  <2>3. ViewHasStore' /\ HashFollowsView'
    BY <1>1, <1>8 DEF CreateStore, ViewHasStore, HashFollowsView
  <2>. QED  BY <2>1, <2>2, <2>3 DEF ViewInv
<1>9. ASSUME NEW d \in Daemons, SwapView(d) PROVE ViewInv'
  <2>1. /\ HoldsLock' /\ pc'[d] = "ready"
        /\ \A e \in Daemons \ {d} : pc'[e] \in {"idle", "drop"}
    BY <1>9, HolderKeepsLock DEF SwapView
  <2>2. SetupIsNeeded'
    BY <2>1 DEF SetupIsNeeded
  <2>3. ViewHasStore' /\ HashFollowsView'
    BY <1>1, <1>9 DEF SwapView, ViewHasStore, HashFollowsView
  <2>. QED  BY <2>1, <2>2, <2>3 DEF ViewInv
<1>10. ASSUME NEW d \in Daemons,
              SwapFails(d) \/ MarkReady(d) \/ StepFails(d) \/ CallRaises(d)
       PROVE  ViewInv'
  <2>1. d \in Reconciling
    BY <1>10 DEF SwapFails, MarkReady, StepFails, CallRaises, At, Reconciling
  <2>2. Leave(d) /\ UNCHANGED <<stores, filled, view, stateRow, hash>>
    BY <1>10 DEF SwapFails, MarkReady, StepFails, CallRaises, Finish
  <2>. QED  BY <2>1, <2>2, EndOfCallKeepsView DEF Leave
<1>11. ASSUME NEW d \in Daemons, Crash(d) PROVE ViewInv'
  <2>1. CASE d \in Reconciling
    BY <1>11, <2>1, EndOfCallKeepsView DEF Crash, Leave
  <2>2. CASE d \notin Reconciling
    <3>1. pc[d] = "drop"
      BY <1>11, <2>2 DEF Crash, Reconciling
    <3>2. Reconciling' = Reconciling /\ pc'[d] = "idle" /\ \A e \in Daemons \ {d} : pc'[e] = pc[e]
      BY <1>1, <1>11, <3>1 DEF Crash, Leave, Go, Reconciling, CallsOK
    <3>3. HoldsLock'
      BY <1>1, <1>11, <2>2, <3>2 DEF Crash, Leave, HoldsLock
    <3>4. SetupIsNeeded'
      BY <1>1, <1>11, <3>2 DEF Crash, Leave, Forget, SetupIsNeeded, CallsOK
    <3>. QED
      BY <1>1, <1>11, <3>3, <3>4 DEF Crash, Leave, ViewInv, ViewHasStore, HashFollowsView
  <2>. QED  BY <2>1, <2>2
<1>12. ASSUME NEW d \in Daemons, BeginTeardown(d) PROVE ViewInv'
  <2>1. Reconciling' = Reconciling /\ pc'[d] = "drop" /\ \A e \in Daemons \ {d} : pc'[e] = pc[e]
    BY <1>1, <1>12 DEF BeginTeardown, At, Go, Reconciling, CallsOK
  <2>2. HoldsLock' /\ SetupIsNeeded'
    BY <1>1, <1>12, <2>1 DEF BeginTeardown, HoldsLock, SetupIsNeeded
  <2>. QED  BY <1>1, <1>12, <2>2 DEF BeginTeardown, ViewInv, ViewHasStore, HashFollowsView
<1>13. ASSUME NEW d \in Daemons, DropStores(d) PROVE ViewInv'
  <2>1. Reconciling' = Reconciling /\ pc'[d] = "idle" /\ \A e \in Daemons \ {d} : pc'[e] = pc[e]
    BY <1>1, <1>13 DEF DropStores, At, Go, Reconciling, CallsOK
  <2>2. stores' \subseteq stores
    BY <1>13 DEF DropStores
  <2>3. HoldsLock' /\ SetupIsNeeded'
    BY <1>1, <1>13, <2>1, <2>2 DEF DropStores, HoldsLock, SetupIsNeeded
  <2>. QED
    BY <1>1, <1>13, <2>2, <2>3 DEF DropStores, ViewInv, ViewHasStore, HashFollowsView
<1>14. ASSUME \/ \E v \in Versions : BeginPost(v) \/ Embed(v)
              \/ \E i \in DOMAIN posting : EndPost(i)
              \/ RowArrives
              \/ \E d \in Daemons : Skip(d)
              \/ UNCHANGED vars
       PROVE  ViewInv'
  BY <1>2, <1>14 DEF BeginPost, Embed, EndPost, RowArrives, Skip, vars
<1>. QED
  BY <1>3, <1>4, <1>5, <1>6, <1>7, <1>8, <1>9, <1>10, <1>11, <1>12, <1>13, <1>14
  DEF Next, Posts, Goes

(* The recorded hash is the served version's, in every behaviour.          *)
THEOREM HashFollowsViewHolds == Spec => []HashFollowsView
<1>1. TypeInv /\ ViewInv => HashFollowsView
  BY DEF ViewInv
<1>. QED  BY <1>1, TypeInit, TypeStep, ViewInit, ViewStep, PTL DEF Spec

ViewStaysStep ==
  view # None /\ view' = None => \E d \in Daemons : pc[d] = "idle" /\ pc'[d] = "drop"

LEMMA ViewStaysEachStep == TypeInv /\ ViewInv /\ [Next]_vars => ViewStaysStep
<1>. SUFFICES ASSUME TypeInv, ViewInv, [Next]_vars, view # None, view' = None
              PROVE  \E d \in Daemons : pc[d] = "idle" /\ pc'[d] = "drop"
  BY DEF ViewStaysStep
<1>. USE DEF postVars, storeVars, viewVars, localVars, faultVars
<1>1. ASSUME NEW d \in Daemons, Cleanup(d) PROVE FALSE
  <2>1. config[d] \notin stores
    BY <1>1 DEF Cleanup, At, ViewInv, SetupIsNeeded
  <2>2. view \in stores
    BY DEF ViewInv, ViewHasStore
  <2>. QED  BY <1>1, <2>1, <2>2 DEF Cleanup
<1>2. ASSUME NEW d \in Daemons, SwapView(d) PROVE FALSE
  BY <1>2, SetsAssumption DEF SwapView, TypeInv, CallsOK
<1>3. ASSUME NEW d \in Daemons, BeginTeardown(d)
      PROVE  \E e \in Daemons : pc[e] = "idle" /\ pc'[e] = "drop"
  BY <1>3 DEF BeginTeardown, At, Go, TypeInv, CallsOK
<1>4. ASSUME UNCHANGED view PROVE FALSE
  BY <1>4
<1>. QED
  BY <1>1, <1>2, <1>3, <1>4
  DEF Next, Posts, Goes, BeginPost, EndPost, Embed, RowArrives, TryLock, Skip, LoadConfig,
      Discover, MarkSyncing, CreateStore, SwapFails, MarkReady, StepFails, CallRaises,
      Crash, DropStores, vars

(* Only a teardown takes the served view away, however many daemons        *)
(* reconcile, post and crash.                                              *)
THEOREM ViewStaysHolds == Spec => ViewStays
<1>1. TypeInv /\ ViewInv /\ [Next]_vars => [ViewStaysStep]_vars
  BY ViewStaysEachStep
<1>. QED
  BY <1>1, TypeInit, TypeStep, ViewInit, ViewStep, PTL DEF Spec, ViewStays, ViewStaysStep

-----------------------------------------------------------------------------
(* What Ready means.                                                       *)

LEMMA PlanInit == Init => PlanIsEnough
BY DEF Init, PlanIsEnough

(* Nobody reconciles: nothing to keep.                                     *)
LEMMA PlanIdle ==
  ASSUME \A e \in Daemons : pc'[e] \in {"idle", "drop", "load", "discover"}
  PROVE  PlanIsEnough'
BY DEF PlanIsEnough

LEMMA PlanStep == TypeInv /\ ViewInv /\ PlanIsEnough /\ [Next]_vars => PlanIsEnough'
<1>. SUFFICES ASSUME TypeInv, ViewInv, PlanIsEnough, [Next]_vars PROVE PlanIsEnough'
  OBVIOUS
<1>. USE DEF postVars, storeVars, viewVars, localVars, faultVars
<1>1. HoldsLock /\ CallsOK
  BY DEF ViewInv, TypeInv
<1>2. ASSUME UNCHANGED <<stores, view, pc, localVars, disturbed>> PROVE PlanIsEnough'
  BY <1>2 DEF PlanIsEnough, StoreComes, ViewComes
<1>3. ASSUME NEW d \in Daemons, TryLock(d) PROVE PlanIsEnough'
  <2>1. \A e \in Daemons : pc[e] \in {"idle", "drop"}
    BY <1>1, <1>3, SetsAssumption DEF TryLock, HoldsLock, Reconciling
  <2>. QED  BY <1>1, <1>3, <2>1, PlanIdle DEF TryLock, Go, CallsOK
<1>4. ASSUME NEW d \in Daemons, LoadConfig(d) PROVE PlanIsEnough'
  BY <1>4, HolderKeepsLock, PlanIdle DEF LoadConfig
<1>5. ASSUME NEW d \in Daemons, Discover(d) PROVE PlanIsEnough'
  <2>1. pc'[d] = "mark" /\ \A e \in Daemons \ {d} : pc'[e] \in {"idle", "drop"}
    BY <1>5, HolderKeepsLock DEF Discover
  <2>2. PICK target \in ViewUsage : plan' = [plan EXCEPT ![d] =
          {a \in {"SINK_VECTORIZER_SETUP", "SINK_VIEW_SETUP", "SINK_TABLE_CLEANUP"} :
             /\ a = "SINK_VECTORIZER_SETUP" => config[d] \notin stores
             /\ a = "SINK_VIEW_SETUP" => Promotes(config[d], target)
             /\ a = "SINK_TABLE_CLEANUP" => stores \ {config[d]} # {}}]
    BY <1>5 DEF Discover
  <2>3. config[d] \notin stores => "SINK_VECTORIZER_SETUP" \in plan'[d]
    BY <1>1, <2>2 DEF CallsOK
  <2>4. view = None => "SINK_VIEW_SETUP" \in plan'[d]
    BY <1>1, <2>2 DEF CallsOK, Promotes
  <2>5. StoreComes(d)' /\ ViewComes(d)'
    BY <1>5, <2>3, <2>4 DEF Discover, StoreComes, ViewComes
  <2>. QED  BY <2>1, <2>5 DEF PlanIsEnough
<1>6. ASSUME NEW d \in Daemons, MarkSyncing(d) PROVE PlanIsEnough'
  <2>1. CASE Finish(d, "Ready")
    <3>1. \A e \in Daemons : pc'[e] \in {"idle", "drop"}
      BY <1>6, <2>1, HolderKeepsLock DEF MarkSyncing, Finish, Leave, At, Go, HoldsLock, Reconciling, ViewInv, TypeInv, CallsOK
    <3>. QED  BY <3>1, PlanIdle
  <2>2. CASE Go(d, AfterMark(d)) /\ UNCHANGED <<lock, localVars, disturbed>>
    <3>1. pc'[d] = AfterMark(d) /\ \A e \in Daemons \ {d} : pc'[e] \in {"idle", "drop"}
      BY <1>6, <2>2, HolderKeepsLock DEF MarkSyncing
    <3>2. d \notin disturbed => StoreComes(d) /\ ViewComes(d)
      BY <1>6 DEF MarkSyncing, At, PlanIsEnough
    <3>3. d \notin disturbed => ViewComes(d)'
      BY <1>6, <2>2, <3>2 DEF MarkSyncing, ViewComes
    <3>4. d \notin disturbed /\ AfterMark(d) = "swap" => config'[d] \in stores'
      BY <1>6, <2>2, <3>2 DEF MarkSyncing, StoreComes, AfterMark
    <3>. QED  BY <2>2, <3>1, <3>3, <3>4 DEF PlanIsEnough, AfterMark
  <2>. QED  BY <1>6, <2>1, <2>2 DEF MarkSyncing
<1>7. ASSUME NEW d \in Daemons, Cleanup(d) PROVE PlanIsEnough'
  <2>1. pc'[d] = "create" /\ \A e \in Daemons \ {d} : pc'[e] \in {"idle", "drop"}
    BY <1>7, HolderKeepsLock DEF Cleanup
  <2>2. view = config[d] => view = None
    BY <1>7 DEF Cleanup, At, ViewInv, SetupIsNeeded, ViewHasStore
  <2>3. d \notin disturbed => ViewComes(d)
    BY <1>7 DEF Cleanup, At, PlanIsEnough
  <2>4. d \notin disturbed => ViewComes(d)'
    BY <1>7, <2>2, <2>3 DEF Cleanup, ViewComes
  <2>. QED  BY <1>7, <2>1, <2>4 DEF Cleanup, PlanIsEnough
<1>8. ASSUME NEW d \in Daemons, CreateStore(d) PROVE PlanIsEnough'
  <2>1. pc'[d] = "swap" /\ \A e \in Daemons \ {d} : pc'[e] \in {"idle", "drop"}
    BY <1>8, HolderKeepsLock DEF CreateStore
  <2>2. d \notin disturbed => ViewComes(d)'
    BY <1>8 DEF CreateStore, At, PlanIsEnough, ViewComes
  <2>3. config'[d] \in stores'
    BY <1>8 DEF CreateStore
  <2>. QED  BY <1>8, <2>1, <2>2, <2>3 DEF CreateStore, PlanIsEnough
<1>9. ASSUME NEW d \in Daemons, SwapView(d) PROVE PlanIsEnough'
  <2>1. pc'[d] = "ready" /\ \A e \in Daemons \ {d} : pc'[e] \in {"idle", "drop"}
    BY <1>9, HolderKeepsLock DEF SwapView
  <2>2. d \notin disturbed => config[d] \in stores /\ ViewComes(d)
    BY <1>9 DEF SwapView, At, PlanIsEnough
  <2>3. config[d] # None
    BY <1>1, SetsAssumption DEF CallsOK
  <2>4. d \notin disturbed => config'[d] \in stores' /\ view' # None
    BY <1>9, <2>2, <2>3 DEF SwapView, ViewComes
  <2>. QED  BY <1>9, <2>1, <2>4 DEF SwapView, PlanIsEnough
<1>10. ASSUME NEW d \in Daemons, SwapFails(d) \/ MarkReady(d) \/ StepFails(d) \/ CallRaises(d) \/ Crash(d)
       PROVE  PlanIsEnough'
  <2>1. Go(d, "idle") /\ UNCHANGED <<stores, view>>
    BY <1>10 DEF SwapFails, MarkReady, StepFails, CallRaises, Crash, Finish, Leave
  <2>2. Forget(d)
    BY <1>10 DEF SwapFails, MarkReady, StepFails, CallRaises, Crash, Finish, Leave
  <2>3. pc'[d] = "idle" /\ \A e \in Daemons \ {d} : pc'[e] = pc[e]
    BY <1>1, <2>1 DEF Go, CallsOK
  <2>4. \A e \in Daemons \ {d} : /\ plan'[e] = plan[e] /\ config'[e] = config[e]
                                 /\ e \in disturbed' <=> e \in disturbed
    BY <1>1, <2>2 DEF Forget, CallsOK
  <2>5. \A e \in Daemons \ {d} : e \notin disturbed' =>
          /\ pc'[e] = "mark" => StoreComes(e)' /\ ViewComes(e)'
          /\ pc'[e] \in {"cleanup", "create"} => ViewComes(e)'
          /\ pc'[e] = "swap" => config'[e] \in stores' /\ ViewComes(e)'
          /\ pc'[e] = "ready" => config'[e] \in stores' /\ view' # None
    BY <2>1, <2>3, <2>4 DEF PlanIsEnough, StoreComes, ViewComes
  <2>. QED  BY <2>3, <2>5 DEF PlanIsEnough
<1>11. ASSUME NEW d \in Daemons, BeginTeardown(d) \/ DropStores(d) PROVE PlanIsEnough'
  <2>1. /\ disturbed' = disturbed \cup Reconciling
        /\ pc'[d] \in {"idle", "drop"} /\ \A e \in Daemons \ {d} : pc'[e] = pc[e]
    BY <1>1, <1>11 DEF BeginTeardown, DropStores, Go, CallsOK
  <2>2. \A e \in Daemons \ disturbed' : pc'[e] \in {"idle", "drop"}
    BY <2>1 DEF Reconciling
  <2>. QED  BY <2>2 DEF PlanIsEnough
<1>12. ASSUME \/ \E v \in Versions : BeginPost(v) \/ Embed(v)
              \/ \E i \in DOMAIN posting : EndPost(i)
              \/ RowArrives
              \/ \E d \in Daemons : Skip(d)
              \/ UNCHANGED vars
       PROVE  PlanIsEnough'
  BY <1>2, <1>12 DEF BeginPost, Embed, EndPost, RowArrives, Skip, vars
<1>. QED
  BY <1>3, <1>4, <1>5, <1>6, <1>7, <1>8, <1>9, <1>10, <1>11, <1>12 DEF Next, Posts, Goes

BuiltInv == TypeInv /\ ViewInv /\ PlanIsEnough

LEMMA BuiltInductive == Spec => []BuiltInv
<1>1. Init => BuiltInv
  BY TypeInit, ViewInit, PlanInit DEF BuiltInv
<1>2. BuiltInv /\ [Next]_vars => BuiltInv'
  BY TypeStep, ViewStep, PlanStep DEF BuiltInv
<1>. QED  BY <1>1, <1>2, PTL DEF Spec

Ends(d) == pc[d] # "idle" /\ pc'[d] = "idle"

ReadyStep ==
  \A i \in DOMAIN history, d \in Daemons :
    BecomesReady(i) /\ Ends(d) /\ d \notin disturbed => config[d] \in stores' /\ view' # None

LEMMA ReadyEachStep == BuiltInv /\ [Next]_vars => ReadyStep
<1>. SUFFICES ASSUME BuiltInv, [Next]_vars, NEW i \in DOMAIN history, NEW d \in Daemons,
                     BecomesReady(i), Ends(d), d \notin disturbed
              PROVE  config[d] \in stores' /\ view' # None
  BY DEF ReadyStep
<1>. USE DEF postVars, storeVars, viewVars, localVars, faultVars
<1>1. CallsOK /\ history \in Seq(Entries) /\ PlanIsEnough
  BY DEF BuiltInv, TypeInv, HistInv, HistoryOK
<1>2. history' # history /\ pc' # pc
  BY DEF BecomesReady, Ends
<1>3. ASSUME NEW e \in Daemons, Finish(e, "Failed") PROVE FALSE
  <2>1. Marked(gen[e], "Failed")[i].status \in {history[i].status, "Failed"}
    BY <1>1, MarkedKeeps DEF StatusNames
  <2>. QED  BY <1>3, <2>1 DEF Finish, BecomesReady
<1>4. ASSUME NEW e \in Daemons, Go(e, "idle") PROVE d = e
  BY <1>1, <1>4 DEF Go, Ends, CallsOK
<1>5. ASSUME NEW e \in Daemons, MarkSyncing(e)
      PROVE  config[d] \in stores' /\ view' # None
  <2>1. CASE plan[e] = {} /\ Finish(e, "Ready")
    <3>1. d = e /\ pc[d] = "mark" /\ plan[d] = {}
      BY <1>4, <1>5, <2>1 DEF MarkSyncing, At, Finish, Leave
    <3>2. config[d] \in stores /\ view # None
      BY <1>1, <3>1 DEF PlanIsEnough, StoreComes, ViewComes
    <3>. QED  BY <1>5, <3>2 DEF MarkSyncing
  <2>2. CASE Go(e, AfterMark(e))
    BY <1>1, <2>2 DEF Go, AfterMark, Ends, CallsOK
  <2>. QED  BY <1>5, <2>1, <2>2 DEF MarkSyncing
<1>6. ASSUME NEW e \in Daemons, MarkReady(e)
      PROVE  config[d] \in stores' /\ view' # None
  <2>1. d = e /\ pc[d] = "ready"
    BY <1>4, <1>6 DEF MarkReady, At, Finish, Leave
  <2>. QED  BY <1>1, <1>6, <2>1 DEF MarkReady, PlanIsEnough
<1>7. ASSUME NEW e \in Daemons, SwapFails(e) \/ StepFails(e) \/ CallRaises(e) PROVE FALSE
  BY <1>2, <1>3, <1>7 DEF SwapFails, StepFails, CallRaises
<1>. QED
  BY <1>2, <1>5, <1>6, <1>7
  DEF Next, Posts, Goes, BeginPost, EndPost, Embed, RowArrives, TryLock, Skip, LoadConfig,
      Discover, Cleanup, CreateStore, SwapView, Crash, BeginTeardown, DropStores, vars

(* A generation that no teardown disturbed becomes Ready only when its     *)
(* vectorizer is there and the target has a search view.                   *)
THEOREM ReadyIsBuiltHolds == Spec => ReadyIsBuilt
<1>1. BuiltInv /\ [Next]_vars => [ReadyStep]_vars
  BY ReadyEachStep
<1>2. ReadyStep => \A i \in DOMAIN history, d \in Daemons :
        BecomesReady(i) /\ pc[d] # "idle" /\ pc'[d] = "idle" /\ d \notin disturbed
          => config[d] \in stores' /\ view' # None
  BY DEF ReadyStep, Ends
<1>. QED  BY <1>1, <1>2, BuiltInductive, PTL DEF Spec, ReadyIsBuilt
=============================================================================
