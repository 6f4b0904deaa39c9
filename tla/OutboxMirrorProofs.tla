------------------------- MODULE OutboxMirrorProofs -------------------------
(***************************************************************************)
(* The safety properties of OutboxMirror, for every set of rows, versions  *)
(* and workers, batch size and bound, and in any surroundings.             *)
(*                                                                         *)
(*   TypeInv    types, and a batch is never empty once it is on its way    *)
(*   OrderInv   ids are drawn once; what was handed over is in the outbox  *)
(*   TakenInv   a batch leaves no gap: what lies before its last entry is  *)
(*              in it, was handed to the adapter earlier, or came late     *)
(*   RowInv     the newest entry of a row that is not orphaned tells what  *)
(*              its store table holds                                      *)
(*   PointInv   a point that is not outdated shows an entry that is not    *)
(*              older than any entry of its row handed over, or than any   *)
(*              its collection has just been given                         *)
(***************************************************************************)
EXTENDS OutboxMirror, FiniteSetTheorems, WellFoundedInduction, TLAPS

-----------------------------------------------------------------------------
(* Least and greatest ids.                                                 *)

LEMMA LeastNat ==
  ASSUME NEW S \in SUBSET Nat, S # {}
  PROVE  \E k \in S : \A j \in S : k <= j
<1>1. PICK k \in S : \A j \in S : ~ (<<j, k>> \in OpToRel(<, Nat))
  BY NatLessThanWellFounded, WFMin
<1>2. ASSUME NEW j \in S PROVE k <= j
  <2>1. <<j, k>> \in Nat \X Nat
    OBVIOUS
  <2>2. ~ (j < k)
    BY <1>1, <2>1 DEF OpToRel
  <2>. QED  BY <2>2
<1>. QED  BY <1>2

LEMMA EntryFields ==
  ASSUME NEW e \in Entry
  PROVE  /\ e.id \in Nat /\ 1 <= e.id /\ e.id <= MaxEntries
         /\ e.version \in Versions /\ e.row \in Rows
         /\ e.action \in {"UPSERT", "DELETE"} /\ e.embedding \in Embedding
BY LimitsAssumption DEF Entry

LEMMA OldestEntry ==
  ASSUME NEW S \in SUBSET Entry, S # {}
  PROVE  \E e \in S : \A f \in S : e.id <= f.id
<1>. DEFINE Ids == {e.id : e \in S}
<1>1. Ids \in SUBSET Nat /\ Ids # {}
  BY EntryFields
<1>2. PICK i \in Ids : \A j \in Ids : i <= j
  BY <1>1, LeastNat
<1>. QED  BY <1>2

(* The newest entry is the one with the least distance to the bound.       *)
LEMMA NewestEntry ==
  ASSUME NEW S \in SUBSET Entry, S # {}
  PROVE  \E e \in S : \A f \in S : f.id <= e.id
<1>. DEFINE Gap == {MaxEntries - e.id : e \in S}
<1>1. \A e \in S : e.id \in Nat /\ MaxEntries - e.id \in Nat
  BY EntryFields, LimitsAssumption
<1>2. Gap \in SUBSET Nat /\ Gap # {}
  BY <1>1
<1>3. PICK k \in Gap : \A h \in Gap : k <= h
  BY <1>2, LeastNat
<1>4. PICK e \in S : k = MaxEntries - e.id
  OBVIOUS
<1>5. \A f \in S : MaxEntries - e.id <= MaxEntries - f.id
  BY <1>3, <1>4
<1>. QED  BY <1>1, <1>5, LimitsAssumption

LEMMA NewestIdFacts ==
  ASSUME NEW S \in SUBSET Entry, S # {}
  PROVE  /\ \E e \in S : e.id = NewestId(S)
         /\ \A e \in S : e.id <= NewestId(S)
         /\ NewestId(S) \in 1 .. MaxEntries
<1>. DEFINE Ids == {e.id : e \in S}
<1>1. \E i \in Ids : \A e \in S : e.id <= i
  BY NewestEntry
<1>2. NewestId(S) \in Ids /\ \A e \in S : e.id <= NewestId(S)
  BY <1>1 DEF NewestId
<1>. QED  BY <1>2, EntryFields, LimitsAssumption

-----------------------------------------------------------------------------
(* Types.                                                                  *)

Steps == {"idle", "upsert", "delete", "saveProgress", "checkPromotion", "updateAlias",
          "saveMirrored"}
Syncing == {"upsert", "delete", "saveProgress"}

StoreOK ==
  /\ store \in [Versions -> [Rows -> Embedding]]
  /\ setup \in [Versions -> {"none", "attached", "done", "unfilled"}]
  /\ open \subseteq Entry /\ outbox \subseteq Entry /\ IsFiniteSet(open) /\ IsFiniteSet(outbox)
  /\ nextId \in 1 .. MaxEntries + 1 /\ drops \in 0 .. MaxDrops
  /\ late \subseteq 1 .. MaxEntries /\ orphaned \subseteq Versions \X Rows
RestOK ==
  /\ lastId \in 0 .. MaxEntries /\ mirrored \in Versions \cup {None}
  /\ live \in Versions \cup {None} /\ past \subseteq Versions /\ swaps \in 0 .. MaxSwaps
  /\ collections \subseteq Versions /\ points \in [Versions -> [Rows -> Embedding]]
  /\ alias \in Versions \cup {None} /\ faults \in 0 .. MaxFaults
  /\ handed \subseteq 1 .. MaxEntries /\ outdated \subseteq Versions \X Rows
WorkerType == [pc : Steps, batch : SUBSET Entry, todo : SUBSET Versions,
               version : Versions \cup {None}]
LocalOK(l) ==
  /\ l.batch \subseteq outbox
  /\ l.todo \subseteq {e.version : e \in l.batch}
  /\ l.pc \in Syncing => l.batch # {}
  /\ l.pc \notin Syncing => l.batch = {}
  /\ l.pc \in {"upsert", "delete"} => l.todo # {}
  /\ l.pc = "saveProgress" => l.todo = {}
  /\ l.pc \in {"updateAlias", "saveMirrored"} => l.version # None
WorkersOK == worker \in [Workers -> WorkerType] /\ \A w \in Workers : LocalOK(worker[w])
TypeInv == StoreOK /\ RestOK /\ WorkersOK

(* What a poll takes is a prefix of what lies ahead. *)
LEMMA BatchFacts ==
  ASSUME outbox \subseteq Entry, IsFiniteSet(outbox)
  PROVE  /\ Batch \subseteq Ahead /\ Ahead \subseteq outbox
         /\ Ahead # {} => Batch # {}
         /\ \A e \in Ahead, f \in Batch : e.id <= f.id => e \in Batch
<1>. DEFINE Before(e) == {f \in Ahead : f.id < e.id}
<1>1. Batch \subseteq Ahead /\ Ahead \subseteq outbox
  BY DEF Batch, Ahead
<1>2. \A e \in Ahead : IsFiniteSet(Before(e)) /\ Cardinality(Before(e)) \in Nat
  BY <1>1, FS_Subset, FS_CardinalityType
<1>3. ASSUME Ahead # {} PROVE Batch # {}
  <2>1. PICK e \in Ahead : \A f \in Ahead : e.id <= f.id
    BY <1>1, <1>3, OldestEntry
  <2>2. Before(e) = {}
    BY <1>1, <2>1, EntryFields
  <2>3. Cardinality(Before(e)) < BatchSize
    <3>1. Cardinality(Before(e)) = 0
      BY <2>2, FS_EmptySet
    <3>2. 0 < BatchSize
      BY BatchSizeAssumption
    <3>. HIDE DEF Before
    <3>. QED  BY <3>1, <3>2
  <2>. QED  BY <2>3 DEF Batch
<1>4. ASSUME NEW e \in Ahead, NEW f \in Batch, e.id <= f.id PROVE e \in Batch
  <2>1. f \in Ahead /\ Cardinality(Before(f)) < BatchSize
    BY <1>1 DEF Batch
  <2>2. Before(e) \subseteq Before(f)
    BY <1>1, <1>4, <2>1, EntryFields
  <2>3. Cardinality(Before(e)) <= Cardinality(Before(f))
    BY <1>2, <2>1, <2>2, FS_Subset
  <2>4. Cardinality(Before(e)) < BatchSize
    <3>1. Cardinality(Before(e)) \in Nat /\ Cardinality(Before(f)) \in Nat
      BY <1>2, <2>1
    <3>. HIDE DEF Before
    <3>. QED  BY <2>1, <2>3, <3>1, BatchSizeAssumption
  <2>. QED  BY <2>4 DEF Batch
<1>. QED  BY <1>1, <1>3, <1>4

(* The next collection of a batch is one that is still to do. *)
LEMMA NextGroupFacts ==
  ASSUME TypeInv, NEW w \in Workers, worker[w].pc \in {"upsert", "delete"}
  PROVE  NextGroup(w) \in worker[w].todo /\ NextGroup(w) \in Versions
<1>. DEFINE Left == {e \in worker[w].batch : e.version \in worker[w].todo}
<1>1. /\ worker[w].batch \in SUBSET Entry /\ worker[w].todo \in SUBSET Versions
      /\ worker[w].todo # {} /\ worker[w].todo \subseteq {e.version : e \in worker[w].batch}
  BY DEF TypeInv, WorkersOK, WorkerType, LocalOK
<1>2. PICK e \in Left : \A f \in Left : e.id <= f.id
  <2>1. Left # {} /\ Left \in SUBSET Entry
    BY <1>1
  <2>. QED  BY <2>1, OldestEntry
<1>3. \E v \in worker[w].todo :
        \E x \in worker[w].batch :
          /\ x.version = v
          /\ \A f \in worker[w].batch : f.version \in worker[w].todo => x.id <= f.id
  BY <1>2
<1>4. NextGroup(w) \in worker[w].todo
  BY <1>3 DEF NextGroup
<1>. QED  BY <1>1, <1>4

LEMMA WriteEffect ==
  ASSUME TypeInv, NEW v \in Versions, NEW S \in SUBSET Entry, WritePoints(v, S)
  PROVE  /\ points' \in [Versions -> [Rows -> Embedding]]
         /\ outdated' \subseteq Versions \X Rows
         /\ \A u \in Versions : u # v => points'[u] = points[u]
         /\ \A u \in Versions, r \in Rows : u # v /\ <<u, r>> \in outdated => <<u, r>> \in outdated'
         /\ \A r \in Rows :
              \/ /\ \A e \in S : e.row # r
                 /\ points'[v][r] = points[v][r]
                 /\ <<v, r>> \in outdated => <<v, r>> \in outdated'
              \/ \E e \in S : /\ e.row = r /\ points'[v][r] = e.embedding
                              /\ Overtaken(e) => <<v, r>> \in outdated'
<1>. DEFINE Told(r) == \E e \in S : e.row = r
            One(r) == CHOOSE e \in S : e.row = r
            New == [r \in Rows |-> IF Told(r) THEN One(r).embedding ELSE points[v][r]]
<1>1. points \in [Versions -> [Rows -> Embedding]] /\ outdated \subseteq Versions \X Rows
  BY DEF TypeInv, RestOK
<1>2. points' = [points EXCEPT ![v] = New]
  BY DEF WritePoints
<1>3. \A r \in Rows : Told(r) => One(r) \in S /\ One(r).row = r
  OBVIOUS
<1>4. \A r \in Rows : New[r] \in Embedding
  BY <1>1, <1>3, EntryFields
<1>5. /\ outdated' = (outdated \ {<<v, e.row>> : e \in S})
                        \cup {<<v, e.row>> : e \in {x \in S : Overtaken(x)}}
  BY DEF WritePoints
<1>6. outdated' \subseteq Versions \X Rows
  BY <1>1, <1>5, EntryFields
<1>7. \A u \in Versions, r \in Rows :
        u # v \/ ~ Told(r) => (<<u, r>> \in outdated => <<u, r>> \in outdated')
  BY <1>5
<1>8. \A e \in S : Overtaken(e) => <<v, e.row>> \in outdated'
  BY <1>5
<1>. HIDE DEF Told, One
<1>9. New \in [Rows -> Embedding]
  BY <1>4
<1>. HIDE DEF New
<1>10. /\ points'[v] = New /\ points' \in [Versions -> [Rows -> Embedding]]
       /\ \A u \in Versions : u # v => points'[u] = points[u]
  BY <1>1, <1>2, <1>9
<1>11. ASSUME NEW r \in Rows
       PROVE \/ /\ \A e \in S : e.row # r
                /\ points'[v][r] = points[v][r]
                /\ <<v, r>> \in outdated => <<v, r>> \in outdated'
             \/ \E e \in S : /\ e.row = r /\ points'[v][r] = e.embedding
                             /\ Overtaken(e) => <<v, r>> \in outdated'
  <2>1. CASE Told(r)
    <3>1. points'[v][r] = One(r).embedding
      BY <1>10, <2>1 DEF New
    <3>. QED  BY <1>3, <1>8, <2>1, <3>1
  <2>2. CASE ~ Told(r)
    <3>1. points'[v][r] = points[v][r]
      BY <1>10, <2>2 DEF New
    <3>. QED  BY <1>7, <2>2, <3>1 DEF Told
  <2>. QED  BY <2>1, <2>2
<1>. QED  BY <1>6, <1>7, <1>10, <1>11

(* A row with entries has a newest one among them. *)
LEMMA NewestOfRowsFacts ==
  ASSUME NEW S \in SUBSET Entry
  PROVE  /\ NewestOfRows(S) \subseteq S
         /\ \A e \in NewestOfRows(S) : \A f \in S : f.row = e.row => f.id <= e.id
         /\ \A f \in S : \E e \in NewestOfRows(S) : e.row = f.row
<1>1. ASSUME NEW f \in S PROVE \E e \in NewestOfRows(S) : e.row = f.row
  <2>. DEFINE Mine == {e \in S : e.row = f.row}
  <2>1. Mine \in SUBSET Entry /\ Mine # {}
    OBVIOUS
  <2>2. PICK e \in Mine : \A g \in Mine : g.id <= e.id
    BY <2>1, NewestEntry
  <2>. QED  BY <2>2 DEF NewestOfRows
<1>. QED  BY <1>1 DEF NewestOfRows

(* What a worker's batch holds for the collection it is at. *)
LEMMA GroupFacts ==
  ASSUME TypeInv, NEW w \in Workers, worker[w].pc \in {"upsert", "delete"}
  PROVE  LET v == NextGroup(w)
             b == worker[w].batch
         IN  /\ v \in Versions /\ b \subseteq outbox
             /\ Upserts(b, v) \in SUBSET Entry /\ Deletes(b, v) \in SUBSET Entry
             /\ NewestOfRows(Upserts(b, v)) \in SUBSET Entry
             /\ NewestOfRows(Deletes(b, v)) \in SUBSET Entry
             /\ \A e \in b : e.version = v => e \in Upserts(b, v) \/ e \in Deletes(b, v)
<1>1. NextGroup(w) \in Versions
  BY NextGroupFacts
<1>2. worker[w].batch \subseteq outbox /\ outbox \subseteq Entry
  BY DEF TypeInv, StoreOK, WorkersOK, LocalOK
<1>. QED  BY <1>1, <1>2, EntryFields, NewestOfRowsFacts DEF Upserts, Deletes

-----------------------------------------------------------------------------
(* Types are kept.                                                         *)

LEMMA VersionMoves ==
  ASSUME WorkersOK, NEW w \in Workers, NEW v, NEW p
  PROVE  [worker EXCEPT ![w].pc = p, ![w].version = v] =
           [worker EXCEPT ![w] = [pc |-> p, batch |-> worker[w].batch,
                                  todo |-> worker[w].todo, version |-> v]]
<1>. DEFINE l == worker[w]
            m == [l EXCEPT !.pc = p]
            n == [m EXCEPT !.version = v]
<1>1. worker \in [Workers -> WorkerType] /\ l \in WorkerType
  BY DEF WorkersOK
<1>2. n = [pc |-> p, batch |-> l.batch, todo |-> l.todo, version |-> v]
  <2>1. m = [pc |-> p, batch |-> l.batch, todo |-> l.todo, version |-> l.version]
    BY <1>1 DEF WorkerType
  <2>. HIDE DEF m, l
  <2>. QED  BY <2>1
<1>3. [worker EXCEPT ![w].pc = p, ![w].version = v] = [worker EXCEPT ![w] = n]
  BY <1>1
<1>. QED  BY <1>2, <1>3

(* A step of one worker concerns its own locals. *)
LEMMA OneWorker ==
  ASSUME WorkersOK, UNCHANGED outbox, NEW w \in Workers, NEW l \in WorkerType, LocalOK(l),
         worker' = [worker EXCEPT ![w] = l]
  PROVE  WorkersOK'
<1>1. worker' \in [Workers -> WorkerType]
  BY DEF WorkersOK
<1>2. \A x \in Workers : LocalOK(worker'[x])
  BY DEF WorkersOK
<1>3. \A x \in Workers : LocalOK(worker[x])'
  BY <1>2 DEF LocalOK
<1>. QED  BY <1>1, <1>3 DEF WorkersOK

LEMMA IdleWorker ==
  ASSUME WorkersOK, UNCHANGED outbox, NEW w \in Workers,
         NEW step \in {"idle", "checkPromotion"},
         worker' = [worker EXCEPT ![w] = [Idle EXCEPT !.pc = step]]
  PROVE  WorkersOK'
<1>. DEFINE l == [Idle EXCEPT !.pc = step]
<1>1. l = [pc |-> step, batch |-> {}, todo |-> {}, version |-> None]
  BY DEF Idle
<1>2. l \in WorkerType /\ LocalOK(l)
  BY <1>1 DEF WorkerType, LocalOK, Steps, Syncing
<1>. HIDE DEF l
<1>. QED  BY <1>2, OneWorker DEF l

(* How a step of a worker leaves its locals. *)
Moved(w, p, b, t, v) ==
  worker' = [worker EXCEPT ![w] = [pc |-> p, batch |-> b, todo |-> t, version |-> v]]

LEMMA MovedWorker ==
  ASSUME WorkersOK, UNCHANGED outbox, NEW w \in Workers, NEW p, NEW b, NEW t, NEW v,
         LET l == [pc |-> p, batch |-> b, todo |-> t, version |-> v]
         IN  l \in WorkerType /\ LocalOK(l),
         Moved(w, p, b, t, v)
  PROVE  WorkersOK'
BY OneWorker DEF Moved

LEMMA LocalsOf ==
  ASSUME WorkersOK, NEW w \in Workers
  PROVE  /\ worker[w] \in WorkerType /\ LocalOK(worker[w])
         /\ worker[w] = [pc |-> worker[w].pc, batch |-> worker[w].batch,
                         todo |-> worker[w].todo, version |-> worker[w].version]
BY DEF WorkersOK, WorkerType

LEMMA InitTypes == Init => TypeInv
<1>. SUFFICES ASSUME Init PROVE TypeInv
  OBVIOUS
<1>1. StoreOK
  BY FS_EmptySet, LimitsAssumption DEF Init, StoreOK, NoRows, Embedding
<1>2. RestOK
  BY LimitsAssumption DEF Init, RestOK, NoRows, Embedding
<1>3. WorkersOK
  BY DEF Init, WorkersOK, WorkerType, LocalOK, Idle, Steps, Syncing
<1>. QED  BY <1>1, <1>2, <1>3 DEF TypeInv

(* The writers leave everything but the store tables and the outbox alone. *)
LEMMA WorkersKept ==
  ASSUME WorkersOK, outbox \subseteq outbox', UNCHANGED worker
  PROVE  WorkersOK'
BY DEF WorkersOK, WorkerType, LocalOK

LEMMA RestKept ==
  ASSUME RestOK, UNCHANGED <<stateVars, liveVars, qdrantVars, faults, pointMarks>>
  PROVE  RestOK'
BY DEF RestOK, stateVars, liveVars, qdrantVars, pointMarks

LEMMA StoreKept ==
  ASSUME StoreOK, UNCHANGED <<storeVars, entryMarks>>
  PROVE  StoreOK'
BY DEF StoreOK, storeVars, entryMarks

(* The transactions of the writers. *)
LEMMA NewEntryFields ==
  ASSUME NEW i, NEW v, NEW r, NEW x
  PROVE  LET e == NewEntry(i, v, r, x)
         IN  /\ e.id = i /\ e.version = v /\ e.row = r /\ e.embedding = x
             /\ e.action = IF x = 0 THEN "DELETE" ELSE "UPSERT"
BY DEF NewEntry

LEMMA NewEntryType ==
  ASSUME NEW i \in 1 .. MaxEntries, NEW v \in Versions, NEW r \in Rows, NEW x \in Embedding
  PROVE  NewEntry(i, v, r, x) \in Entry
BY DEF NewEntry, Entry

LEMMA WritersCapture ==
  ASSUME TypeInv, NEW v \in Versions, NEW r \in Rows,
         StoreInsert(v, r) \/ StoreUpdate(v, r) \/ StoreDelete(v, r)
  PROVE  \E S \in SUBSET Entry, n \in 1 .. 2 :
           /\ Capture(v, r, S, n) /\ IsFiniteSet(S)
           /\ \A e \in S : /\ e.version = v /\ e.row = r
                           /\ e.action = "DELETE" <=> e.embedding = 0
                           /\ nextId <= e.id /\ e.id < nextId + n
           /\ \A e, f \in S : e.id = f.id => e = f
<1>1. store[v][r] \in Embedding /\ nextId \in 1 .. MaxEntries + 1
  BY DEF TypeInv, StoreOK
<1>2. ASSUME NEW x \in Embedding, Capture(v, r, {NewEntry(nextId, v, r, x)}, 1)
      PROVE \E S \in SUBSET Entry, n \in 1 .. 2 :
              /\ Capture(v, r, S, n) /\ IsFiniteSet(S)
              /\ \A e \in S : /\ e.version = v /\ e.row = r
                              /\ e.action = "DELETE" <=> e.embedding = 0
                              /\ nextId <= e.id /\ e.id < nextId + n
              /\ \A e, f \in S : e.id = f.id => e = f
  <2>. DEFINE e == NewEntry(nextId, v, r, x)
  <2>1. nextId \in 1 .. MaxEntries
    BY <1>1, <1>2, LimitsAssumption DEF Capture
  <2>2. e \in Entry
    BY <2>1, NewEntryType
  <2>3. /\ e.version = v /\ e.row = r /\ e.id = nextId
        /\ e.action = "DELETE" <=> e.embedding = 0
    BY NewEntryFields
  <2>. HIDE DEF e
  <2>4. IsFiniteSet({e}) /\ {e} \in SUBSET Entry
    BY <2>2, FS_Singleton
  <2>5. \A f \in {e} : /\ f.version = v /\ f.row = r
                       /\ f.action = "DELETE" <=> f.embedding = 0
                       /\ nextId <= f.id /\ f.id < nextId + 1
    BY <2>1, <2>3
  <2>6. Capture(v, r, {e}, 1)
    BY <1>2 DEF e
  <2>. QED  BY <2>4, <2>5, <2>6
<1>3. ASSUME NEW x \in Embedding, x # 0,
             Capture(v, r, {NewEntry(nextId, v, r, 0), NewEntry(nextId + 1, v, r, x)}, 2)
      PROVE \E S \in SUBSET Entry, n \in 1 .. 2 :
              /\ Capture(v, r, S, n) /\ IsFiniteSet(S)
              /\ \A e \in S : /\ e.version = v /\ e.row = r
                              /\ e.action = "DELETE" <=> e.embedding = 0
                              /\ nextId <= e.id /\ e.id < nextId + n
              /\ \A e, f \in S : e.id = f.id => e = f
  <2>. DEFINE d == NewEntry(nextId, v, r, 0)
              u == NewEntry(nextId + 1, v, r, x)
  <2>1. nextId \in 1 .. MaxEntries /\ nextId + 1 \in 1 .. MaxEntries
    BY <1>1, <1>3, LimitsAssumption DEF Capture
  <2>2. d \in Entry /\ u \in Entry
    BY <2>1, NewEntryType DEF Embedding
  <2>3. /\ d.version = v /\ d.row = r /\ d.id = nextId
        /\ d.action = "DELETE" <=> d.embedding = 0
    BY NewEntryFields
  <2>4. /\ u.version = v /\ u.row = r /\ u.id = nextId + 1
        /\ u.action = "DELETE" <=> u.embedding = 0
    BY NewEntryFields
  <2>5. Capture(v, r, {d, u}, 2)
    BY <1>3
  <2>. HIDE DEF d, u
  <2>6. IsFiniteSet({d, u})
    <3>1. IsFiniteSet({d})
      BY FS_Singleton
    <3>2. {d, u} = {d} \cup {u}
      OBVIOUS
    <3>. QED  BY <3>1, <3>2, FS_AddElement
  <2>7. {d, u} \in SUBSET Entry
    BY <2>2
  <2>8. \A e \in {d, u} : /\ e.version = v /\ e.row = r
                          /\ e.action = "DELETE" <=> e.embedding = 0
                          /\ nextId <= e.id /\ e.id < nextId + 2
    BY <2>1, <2>3, <2>4
  <2>9. \A e, f \in {d, u} : e.id = f.id => e = f
    BY <2>1, <2>3, <2>4
  <2>. QED  BY <2>5, <2>6, <2>7, <2>8, <2>9
<1>4. 0 \in Embedding /\ 1 \in Embedding
  BY DEF Embedding
<1>5. store[v][r] # 0 => 3 - store[v][r] \in Embedding /\ 3 - store[v][r] # 0
  BY <1>1 DEF Embedding
<1>6. CASE StoreInsert(v, r)
  BY <1>2, <1>4, <1>6 DEF StoreInsert
<1>7. CASE StoreDelete(v, r)
  BY <1>2, <1>4, <1>7 DEF StoreDelete
<1>8. CASE StoreUpdate(v, r)
  BY <1>3, <1>5, <1>8 DEF StoreUpdate
<1>. QED  BY <1>6, <1>7, <1>8

LEMMA CaptureTypes ==
  ASSUME TypeInv, NEW v \in Versions, NEW r \in Rows, NEW S \in SUBSET Entry, IsFiniteSet(S),
         NEW n \in 1 .. 2, Capture(v, r, S, n)
  PROVE  TypeInv'
<1>1. WorkersOK' /\ RestOK'
  BY WorkersKept, RestKept DEF Capture, TypeInv
<1>2. StoreOK'
  <2>1. nextId + n \in 1 .. MaxEntries + 1
    BY LimitsAssumption DEF Capture, TypeInv, StoreOK
  <2>2. open \cup S \subseteq Entry /\ IsFiniteSet(open \cup S)
    BY FS_Union DEF TypeInv, StoreOK
  <2>. QED  BY <2>1, <2>2 DEF Capture, TypeInv, StoreOK, entryMarks
<1>. QED  BY <1>1, <1>2 DEF TypeInv

(* What a commit does, with the last entry of the row named. *)
Mine(v, r) == {e \in open : e.version = v /\ e.row = r}
LEMMA CommitEffect ==
  ASSUME TypeInv, NEW v \in Versions, NEW r \in Rows, StoreCommit(v, r)
  PROVE  \E e \in Mine(v, r) :
           /\ \A f \in Mine(v, r) : f.id <= e.id
           /\ store' = [store EXCEPT ![v][r] = e.embedding]
           /\ outbox' = outbox \cup Mine(v, r) /\ open' = open \ Mine(v, r)
           /\ late' = late \cup {x.id : x \in {y \in Mine(v, r) : \E f \in outbox : y.id < f.id}}
           /\ orphaned' = IF \E f \in outbox : f.version = v /\ f.row = r /\ e.id < f.id
                          THEN orphaned \cup {<<v, r>>} ELSE orphaned \ {<<v, r>>}
<1>. DEFINE newest == CHOOSE e \in Mine(v, r) : \A f \in Mine(v, r) : f.id <= e.id
<1>1. Mine(v, r) \in SUBSET Entry /\ Mine(v, r) # {}
  BY DEF StoreCommit, Mine, TypeInv, StoreOK
<1>2. newest \in Mine(v, r) /\ \A f \in Mine(v, r) : f.id <= newest.id
  BY <1>1, NewestEntry
<1>3. /\ store' = [store EXCEPT ![v][r] = newest.embedding]
      /\ outbox' = outbox \cup Mine(v, r) /\ open' = open \ Mine(v, r)
      /\ late' = late \cup {x.id : x \in {y \in Mine(v, r) : \E f \in outbox : y.id < f.id}}
      /\ orphaned' = IF \E f \in outbox : f.version = v /\ f.row = r /\ newest.id < f.id
                     THEN orphaned \cup {<<v, r>>} ELSE orphaned \ {<<v, r>>}
  BY DEF StoreCommit, Mine
<1>. HIDE DEF newest
<1>. QED  BY <1>2, <1>3

LEMMA CommitTypes ==
  ASSUME TypeInv, NEW v \in Versions, NEW r \in Rows, StoreCommit(v, r)
  PROVE  TypeInv'
<1>1. PICK e \in Mine(v, r) :
           /\ store' = [store EXCEPT ![v][r] = e.embedding]
           /\ outbox' = outbox \cup Mine(v, r) /\ open' = open \ Mine(v, r)
           /\ late' = late \cup {x.id : x \in {y \in Mine(v, r) : \E f \in outbox : y.id < f.id}}
           /\ orphaned' = IF \E f \in outbox : f.version = v /\ f.row = r /\ e.id < f.id
                          THEN orphaned \cup {<<v, r>>} ELSE orphaned \ {<<v, r>>}
  BY CommitEffect
<1>2. WorkersOK' /\ RestOK'
  BY <1>1, WorkersKept, RestKept DEF StoreCommit, TypeInv
<1>3. Mine(v, r) \subseteq open /\ Mine(v, r) \subseteq Entry /\ open \subseteq Entry
  BY DEF Mine, TypeInv, StoreOK
<1>4. IsFiniteSet(Mine(v, r)) /\ IsFiniteSet(open')
  BY <1>1, <1>3, FS_Subset DEF TypeInv, StoreOK
<1>5. IsFiniteSet(outbox')
  BY <1>1, <1>4, FS_Union DEF TypeInv, StoreOK
<1>6. store' \in [Versions -> [Rows -> Embedding]]
  BY <1>1, <1>3, EntryFields DEF TypeInv, StoreOK
<1>7. late' \subseteq 1 .. MaxEntries
  <2>1. \A x \in Mine(v, r) : x.id \in 1 .. MaxEntries
    BY <1>3, EntryFields, LimitsAssumption
  <2>. QED  BY <1>1, <2>1 DEF TypeInv, StoreOK
<1>8. orphaned' \subseteq Versions \X Rows
  BY <1>1 DEF TypeInv, StoreOK
<1>9. UNCHANGED <<setup, nextId, drops>>
  BY DEF StoreCommit
<1>10. StoreOK'
  BY <1>1, <1>3, <1>4, <1>5, <1>6, <1>7, <1>8, <1>9 DEF TypeInv, StoreOK
<1>. QED  BY <1>2, <1>10 DEF TypeInv

LEMMA TableTypes ==
  ASSUME TypeInv, NEW v \in Versions, FillStore(v) \/ DropStore(v)
  PROVE  TypeInv'
<1>1. WorkersOK' /\ RestOK'
  BY WorkersKept, RestKept DEF FillStore, DropStore, TypeInv
<1>2. CASE FillStore(v)
  <2>1. PICK rows \in [Rows -> 0 .. 1] : store' = [store EXCEPT ![v] = rows]
    BY <1>2 DEF FillStore
  <2>2. rows \in [Rows -> Embedding]
    BY DEF Embedding
  <2>3. store' \in [Versions -> [Rows -> Embedding]]
    BY <2>1, <2>2 DEF TypeInv, StoreOK
  <2>4. StoreOK'
    BY <1>2, <2>3 DEF FillStore, TypeInv, StoreOK, entryMarks
  <2>. QED  BY <1>1, <2>4 DEF TypeInv
<1>3. CASE DropStore(v)
  <2>1. NoRows \in [Rows -> Embedding]
    BY DEF NoRows, Embedding
  <2>2. /\ store' = [store EXCEPT ![v] = NoRows] /\ setup' = [setup EXCEPT ![v] = "none"]
        /\ orphaned' = orphaned \cup {<<v, r>> : r \in {q \in Rows : store[v][q] # 0}}
        /\ drops < MaxDrops /\ drops' = drops + 1
        /\ UNCHANGED <<open, outbox, nextId, late>>
    BY <1>3 DEF DropStore
  <2>3. store' \in [Versions -> [Rows -> Embedding]] /\ orphaned' \subseteq Versions \X Rows
        /\ setup' \in [Versions -> {"none", "attached", "done", "unfilled"}]
    BY <2>1, <2>2 DEF TypeInv, StoreOK
  <2>4. drops' \in 0 .. MaxDrops
    BY <2>2, LimitsAssumption DEF TypeInv, StoreOK
  <2>5. StoreOK'
    BY <2>2, <2>3, <2>4 DEF TypeInv, StoreOK
  <2>. QED  BY <1>1, <2>5 DEF TypeInv
<1>. QED  BY <1>2, <1>3

(* What a backfill adds: an entry for each row of the store table. *)
Filled(v) == {r \in Rows : store[v][r] # 0}
Copy(v, r, i) == NewEntry(i, v, r, store[v][r])
LEMMA BackfillAdds ==
  ASSUME TypeInv, NEW v \in Versions, Backfill(v)
  PROVE  \E id \in [Filled(v) -> 1 .. MaxEntries] :
           /\ \A r \in Filled(v) : nextId <= id[r] /\ id[r] < nextId'
           /\ \A r, s \in Filled(v) : r # s => id[r] # id[s]
           /\ outbox' = outbox \cup {Copy(v, r, id[r]) : r \in Filled(v)}
           /\ nextId <= nextId' /\ nextId' \in 1 .. MaxEntries + 1
           /\ IsFiniteSet(outbox')
           /\ \A r \in Filled(v) : Copy(v, r, id[r]) \in Entry
<1>. DEFINE n == Cardinality(Filled(v))
<1>1. IsFiniteSet(Filled(v)) /\ n \in Nat
  BY SetsAssumption, FS_Subset, FS_CardinalityType DEF Filled
<1>2. nextId \in 1 .. MaxEntries + 1 /\ nextId' = nextId + n /\ nextId + n <= MaxEntries + 1
  BY DEF Backfill, TypeInv, StoreOK, Filled
<1>3. PICK id \in [Filled(v) -> nextId .. nextId + n - 1] :
        /\ \A r, s \in Filled(v) : r # s => id[r] # id[s]
        /\ outbox' = outbox \cup {Copy(v, r, id[r]) : r \in Filled(v)}
  BY DEF Backfill, Filled, Copy
<1>4. \A r \in Filled(v) : /\ nextId <= id[r] /\ id[r] < nextId'
                           /\ id[r] \in 1 .. MaxEntries
  BY <1>1, <1>2, <1>3, LimitsAssumption
<1>5. id \in [Filled(v) -> 1 .. MaxEntries]
  BY <1>3, <1>4
<1>6. nextId <= nextId' /\ nextId' \in 1 .. MaxEntries + 1
  BY <1>1, <1>2, LimitsAssumption
<1>7. IsFiniteSet({Copy(v, r, id[r]) : r \in Filled(v)})
  <2>. DEFINE added == {Copy(v, r, id[r]) : r \in Filled(v)}
              f == [r \in Filled(v) |-> Copy(v, r, id[r])]
  <2>1. f \in Surjection(Filled(v), added)
    BY DEF Surjection
  <2>. QED  BY <1>1, <2>1, FS_Surjection
<1>8. IsFiniteSet(outbox')
  BY <1>3, <1>7, FS_Union DEF TypeInv, StoreOK
<1>9. \A r \in Filled(v) : Copy(v, r, id[r]) \in Entry
  BY <1>4, NewEntryType DEF Copy, Filled, TypeInv, StoreOK
<1>. QED  BY <1>3, <1>4, <1>5, <1>6, <1>8, <1>9

LEMMA SetupTypes ==
  ASSUME TypeInv, NEW v \in Versions, AttachTrigger(v) \/ Backfill(v) \/ SetupDies(v)
  PROVE  TypeInv'
<1>1. CASE AttachTrigger(v)
  <2>1. WorkersOK' /\ RestOK'
    BY <1>1, WorkersKept, RestKept DEF AttachTrigger, TypeInv
  <2>2. StoreOK'
    BY <1>1 DEF AttachTrigger, TypeInv, StoreOK, entryMarks
  <2>. QED  BY <2>1, <2>2 DEF TypeInv
<1>2. CASE Backfill(v)
  <2>1. PICK id \in [Filled(v) -> 1 .. MaxEntries] :
           /\ outbox' = outbox \cup {Copy(v, r, id[r]) : r \in Filled(v)}
           /\ nextId' \in 1 .. MaxEntries + 1
           /\ IsFiniteSet(outbox')
           /\ \A r \in Filled(v) : Copy(v, r, id[r]) \in Entry
    BY <1>2, BackfillAdds
  <2>2. WorkersOK'
    BY <1>2, <2>1, WorkersKept DEF Backfill, TypeInv
  <2>3. RestOK'
    BY <1>2, RestKept DEF Backfill, TypeInv
  <2>4. outbox' \subseteq Entry
    BY <2>1 DEF TypeInv, StoreOK
  <2>5. /\ UNCHANGED <<store, open, drops, late>> /\ orphaned' \subseteq Versions \X Rows
        /\ setup' \in [Versions -> {"none", "attached", "done", "unfilled"}]
    BY <1>2 DEF Backfill, TypeInv, StoreOK
  <2>6. StoreOK'
    BY <2>1, <2>4, <2>5 DEF TypeInv, StoreOK
  <2>. QED  BY <2>2, <2>3, <2>6 DEF TypeInv
<1>3. CASE SetupDies(v)
  <2>1. WorkersOK'
    BY <1>3, WorkersKept DEF SetupDies, TypeInv
  <2>2. StoreOK'
    BY <1>3 DEF SetupDies, TypeInv, StoreOK, entryMarks
  <2>3. RestOK'
    BY <1>3, LimitsAssumption DEF SetupDies, TypeInv, RestOK, stateVars, liveVars, qdrantVars, pointMarks
  <2>. QED  BY <2>1, <2>2, <2>3 DEF TypeInv
<1>. QED  BY <1>1, <1>2, <1>3

LEMMA PromoteTypes ==
  ASSUME TypeInv, NEW v \in Versions, Promote(v)
  PROVE  TypeInv'
<1>1. StoreOK' /\ WorkersOK'
  BY StoreKept, WorkersKept DEF Promote, TypeInv, storeVars, entryMarks
<1>2. RestOK'
  BY LimitsAssumption DEF Promote, TypeInv, RestOK, stateVars, qdrantVars, pointMarks
<1>. QED  BY <1>1, <1>2 DEF TypeInv

LEMMA RoundTypes ==
  ASSUME TypeInv, NEW w \in Workers, Round(w) \/ SyncFails(w) \/ WorkerDies(w)
  PROVE  TypeInv'
<1>. USE DEF TypeInv
<1>1. StoreOK'
  BY StoreKept DEF Round, Poll, UpsertGroup, DeleteGroup, SyncRefused, SaveProgress,
       CheckPromotion, UpdateAlias, SaveMirrored, SyncFails, WorkerDies
<1>2. UNCHANGED outbox
  BY DEF Round, Poll, UpsertGroup, DeleteGroup, SyncRefused, SaveProgress,
       CheckPromotion, UpdateAlias, SaveMirrored, SyncFails, WorkerDies, storeVars
<1>3. CASE Poll(w)
  <2>1. RestOK'
    BY <1>3, RestKept DEF Poll
  <2>2. CASE Ahead = {}
    <3>1. /\ worker[w].pc = "idle"
          /\ Moved(w, "checkPromotion", worker[w].batch, worker[w].todo, worker[w].version)
      BY <1>3, <2>2, LocalsOf DEF Poll, Go, Moved
    <3>2. WorkersOK'
      BY <1>2, <3>1, LocalsOf, MovedWorker DEF WorkerType, LocalOK, Steps, Syncing
    <3>. QED  BY <1>1, <2>1, <3>2
  <2>3. CASE Ahead # {}
    <3>1. Batch \subseteq outbox /\ Batch # {} /\ outbox \subseteq Entry
      BY <2>3, BatchFacts DEF StoreOK
    <3>2. {e.version : e \in Batch} \subseteq Versions /\ {e.version : e \in Batch} # {}
      BY <3>1, EntryFields
    <3>3. Moved(w, "upsert", Batch, {e.version : e \in Batch}, worker[w].version)
      BY <1>3, <2>3, LocalsOf DEF Poll, Moved
    <3>4. WorkersOK'
      BY <1>2, <3>1, <3>2, <3>3, LocalsOf, MovedWorker DEF WorkerType, LocalOK, Steps, Syncing
    <3>. QED  BY <1>1, <2>1, <3>4
  <2>. QED  BY <1>1, <2>1, <2>2, <2>3
<1>4. CASE UpsertGroup(w)
  <2>1. points' \in [Versions -> [Rows -> Embedding]] /\ outdated' \subseteq Versions \X Rows
    BY <1>4, GroupFacts, WriteEffect DEF UpsertGroup
  <2>2. NextGroup(w) \in Versions
    BY <1>4, NextGroupFacts DEF UpsertGroup
  <2>3. collections' \subseteq Versions
    BY <1>4, <2>2 DEF UpsertGroup, RestOK
  <2>4. RestOK'
    BY <1>4, <2>1, <2>3 DEF UpsertGroup, RestOK, stateVars, liveVars
  <2>5. worker[w].pc = "upsert" /\ worker' = [worker EXCEPT ![w].pc = "delete"]
    BY <1>4 DEF UpsertGroup, Go
  <2>6. WorkersOK'
    BY <1>2, <2>5 DEF WorkersOK, WorkerType, LocalOK, Steps, Syncing
  <2>. QED  BY <1>1, <2>4, <2>6
<1>5. CASE DeleteGroup(w)
  <2>1. points' \in [Versions -> [Rows -> Embedding]] /\ outdated' \subseteq Versions \X Rows
    BY <1>5, GroupFacts, WriteEffect DEF DeleteGroup
  <2>2. handed' \subseteq 1 .. MaxEntries
    <3>1. worker[w].batch \subseteq Entry
      BY DEF WorkersOK, WorkerType, LocalOK
    <3>. QED  BY <1>5, <3>1, EntryFields, LimitsAssumption DEF DeleteGroup, RestOK
  <2>3. RestOK'
    BY <1>5, <2>1, <2>2 DEF DeleteGroup, RestOK, stateVars, liveVars
  <2>. DEFINE rest == worker[w].todo \ {NextGroup(w)}
  <2>. DEFINE p == IF rest = {} THEN "saveProgress" ELSE "upsert"
  <2>4. /\ worker[w].pc = "delete" /\ rest \subseteq worker[w].todo
        /\ worker' = [worker EXCEPT ![w].todo = rest, ![w].pc = p]
    BY <1>5 DEF DeleteGroup
  <2>5. p \in {"saveProgress", "upsert"} /\ (p = "saveProgress" <=> rest = {})
    OBVIOUS
  <2>. HIDE DEF rest, p
  <2>6. Moved(w, p, worker[w].batch, rest, worker[w].version)
    <3>. DEFINE l == worker[w]
                m == [l EXCEPT !.todo = rest]
                n == [m EXCEPT !.pc = p]
    <3>1. worker \in [Workers -> WorkerType] /\ l \in WorkerType
      BY DEF WorkersOK
    <3>2. worker' = [worker EXCEPT ![w] = n]
      BY <2>4, <3>1
    <3>3. m = [pc |-> l.pc, batch |-> l.batch, todo |-> rest, version |-> l.version]
      BY <3>1 DEF WorkerType
    <3>4. n = [pc |-> p, batch |-> l.batch, todo |-> rest, version |-> l.version]
      <4>. HIDE DEF m, l
      <4>. QED  BY <3>3
    <3>. QED  BY <3>2, <3>4 DEF Moved
  <2>7. WorkersOK'
    BY <1>2, <2>4, <2>5, <2>6, LocalsOf, MovedWorker DEF WorkerType, LocalOK, Steps, Syncing
  <2>. QED  BY <1>1, <2>3, <2>7
<1>6. CASE SaveProgress(w)
  <2>1. worker[w].batch \in SUBSET Entry /\ worker[w].batch # {}
    BY <1>6 DEF SaveProgress, WorkersOK, WorkerType, LocalOK, Syncing
  <2>2. NewestId(worker[w].batch) \in 0 .. MaxEntries
    BY <2>1, NewestIdFacts, LimitsAssumption
  <2>3. RestOK'
    BY <1>6, <2>2 DEF SaveProgress, RestOK, liveVars, qdrantVars, pointMarks
  <2>4. WorkersOK'
    BY <1>2, <1>6, IdleWorker DEF SaveProgress
  <2>. QED  BY <1>1, <2>3, <2>4
<1>7. CASE CheckPromotion(w)
  <2>1. RestOK'
    BY <1>7, RestKept DEF CheckPromotion
  <2>2. live \in Versions \cup {None}
    BY DEF RestOK
  <2>3. WorkersOK'
    <3>. DEFINE p == IF live # None /\ live # mirrored THEN "updateAlias" ELSE "idle"
                v == IF live # mirrored THEN live ELSE None
    <3>1. /\ worker[w].pc = "checkPromotion"
          /\ Moved(w, p, worker[w].batch, worker[w].todo, v)
      BY <1>7, VersionMoves DEF CheckPromotion, Moved
    <3>2. p \in {"updateAlias", "idle"} /\ v \in Versions \cup {None}
          /\ (p = "updateAlias" => v # None)
      BY <2>2
    <3>. HIDE DEF p, v
    <3>. QED  BY <1>2, <3>1, <3>2, LocalsOf, MovedWorker DEF WorkerType, LocalOK, Steps, Syncing
  <2>. QED  BY <1>1, <2>1, <2>3
<1>8. CASE UpdateAlias(w)
  <2>1. worker[w].version \in Versions
    BY <1>8 DEF UpdateAlias, WorkersOK, WorkerType, LocalOK
  <2>2. RestOK'
    BY <1>8, <2>1 DEF UpdateAlias, RestOK, stateVars, liveVars, pointMarks
  <2>3. WorkersOK'
    BY <1>2, <1>8 DEF UpdateAlias, Go, WorkersOK, WorkerType, LocalOK, Steps, Syncing
  <2>. QED  BY <1>1, <2>2, <2>3
<1>9. CASE SaveMirrored(w)
  <2>1. worker[w].version \in Versions \cup {None}
    BY DEF WorkersOK, WorkerType, LocalOK
  <2>2. RestOK'
    BY <1>9, <2>1 DEF SaveMirrored, RestOK, liveVars, qdrantVars, pointMarks
  <2>3. WorkersOK'
    BY <1>2, <1>9 DEF SaveMirrored, WorkersOK, WorkerType, LocalOK, Idle, Steps, Syncing
  <2>. QED  BY <1>1, <2>2, <2>3
<1>10. CASE SyncRefused(w) \/ SyncFails(w) \/ WorkerDies(w)
  <2>1. worker' = [worker EXCEPT ![w] = Idle]
    BY <1>10 DEF SyncRefused, SyncFails, WorkerDies
  <2>2. WorkersOK'
    <3>1. Idle = [Idle EXCEPT !.pc = "idle"]
      BY DEF Idle
    <3>. QED  BY <1>2, <2>1, <3>1, IdleWorker
  <2>3. RestOK'
    <3>1. UNCHANGED <<stateVars, liveVars, qdrantVars, pointMarks>>
      BY <1>10 DEF SyncRefused, SyncFails, WorkerDies
    <3>2. faults' \in 0 .. MaxFaults
      BY <1>10, LimitsAssumption DEF SyncRefused, SyncFails, WorkerDies, RestOK
    <3>. QED  BY <3>1, <3>2 DEF RestOK, stateVars, liveVars, qdrantVars, pointMarks
  <2>. QED  BY <1>1, <2>2, <2>3
<1>. QED  BY <1>3, <1>4, <1>5, <1>6, <1>7, <1>8, <1>9, <1>10 DEF Round

LEMMA TypeStep == TypeInv /\ [Next]_vars => TypeInv'
<1>. SUFFICES ASSUME TypeInv, [Next]_vars PROVE TypeInv'
  OBVIOUS
<1>1. CASE Writers
  <2>1. ASSUME NEW v \in Versions, NEW r \in Rows,
               StoreInsert(v, r) \/ StoreUpdate(v, r) \/ StoreDelete(v, r)
        PROVE  TypeInv'
    BY <2>1, WritersCapture, CaptureTypes
  <2>. QED  BY <1>1, <2>1, CommitTypes, TableTypes DEF Writers
<1>2. CASE Setup
  BY <1>2, SetupTypes DEF Setup
<1>3. CASE \E v \in Versions : Promote(v)
  BY <1>3, PromoteTypes
<1>4. CASE \E w \in Workers : Round(w) \/ SyncFails(w) \/ WorkerDies(w)
  BY <1>4, RoundTypes
<1>5. CASE UNCHANGED vars
  <2>1. StoreOK' /\ RestOK'
    BY <1>5, StoreKept, RestKept DEF vars, TypeInv
  <2>2. WorkersOK'
    BY <1>5, WorkersKept DEF vars, storeVars, TypeInv
  <2>. QED  BY <2>1, <2>2 DEF TypeInv
<1>. QED  BY <1>1, <1>2, <1>3, <1>4, <1>5 DEF Next

(* Every variable stays in its domain, and what a mirror worker carries    *)
(* are entries of the outbox (MirrorWorker._process_mirror).               *)
THEOREM TypeCorrect == Spec => []TypeOK
<1>1. TypeInv => TypeOK
  BY DEF TypeInv, StoreOK, RestOK, WorkersOK, WorkerType, LocalOK, TypeOK, Steps
<1>. QED  BY <1>1, InitTypes, TypeStep, PTL DEF Spec

-----------------------------------------------------------------------------
(* Ids.                                                                    *)

OrderInv ==
  /\ \A e \in outbox \cup open : e.id < nextId
  /\ \A e, f \in outbox \cup open : e.id = f.id => e = f
  /\ outbox \cap open = {}
  /\ \A e \in open : setup[e.version] # "none"
  /\ lastId = 0 \/ \E e \in outbox : e.id = lastId
  /\ \A i \in handed : \E e \in outbox : e.id = i

LEMMA Ids ==
  ASSUME TypeInv
  PROVE  /\ \A e \in outbox \cup open : e \in Entry /\ e.id \in Nat /\ 1 <= e.id
         /\ nextId \in Nat /\ 1 <= nextId /\ lastId \in Nat
         /\ \A w \in Workers : worker[w].batch \subseteq outbox
BY EntryFields, LimitsAssumption DEF TypeInv, StoreOK, RestOK, WorkersOK, LocalOK

LEMMA InitOrder == Init => OrderInv
BY DEF Init, OrderInv

LEMMA CaptureOrder ==
  ASSUME TypeInv, OrderInv, NEW v \in Versions, NEW r \in Rows, NEW S \in SUBSET Entry,
         NEW n \in 1 .. 2, Capture(v, r, S, n),
         \A e \in S : e.version = v /\ nextId <= e.id /\ e.id < nextId + n,
         \A e, f \in S : e.id = f.id => e = f
  PROVE  OrderInv'
<1>1. /\ open' = open \cup S /\ nextId' = nextId + n /\ setup[v] # "none"
      /\ UNCHANGED <<setup, outbox, lastId, handed>>
  BY DEF Capture, stateVars, pointMarks
<1>2. \A e \in S : e.id \in Nat
  BY EntryFields
<1>3. nextId \in Nat /\ \A e \in outbox \cup open : e.id \in Nat /\ e.id < nextId
  BY Ids DEF OrderInv
<1>4. outbox' \cup open' = (outbox \cup open) \cup S
  BY <1>1
<1>5. ASSUME NEW e \in outbox' \cup open' PROVE e.id < nextId'
  <2>1. CASE e \in S
    BY <1>1, <2>1
  <2>2. CASE e \in outbox \cup open
    BY <1>1, <1>3, <2>2
  <2>. QED  BY <1>4, <2>1, <2>2
<1>6. ASSUME NEW e \in outbox \cup open, NEW f \in S PROVE e.id # f.id
  BY <1>2, <1>3
<1>7. \A e, f \in outbox' \cup open' : e.id = f.id => e = f
  BY <1>4, <1>6 DEF OrderInv
<1>8. outbox' \cap open' = {}
  BY <1>1, <1>6 DEF OrderInv
<1>9. \A e \in open' : setup'[e.version] # "none"
  BY <1>1 DEF OrderInv
<1>. QED  BY <1>1, <1>5, <1>7, <1>8, <1>9 DEF OrderInv

LEMMA CommitOrder ==
  ASSUME TypeInv, OrderInv, NEW v \in Versions, NEW r \in Rows, StoreCommit(v, r)
  PROVE  OrderInv'
<1>1. /\ outbox' = outbox \cup Mine(v, r) /\ open' = open \ Mine(v, r)
      /\ UNCHANGED <<setup, nextId, lastId, handed>>
  BY CommitEffect DEF StoreCommit, stateVars, pointMarks
<1>2. Mine(v, r) \subseteq open
  BY DEF Mine
<1>. QED  BY <1>1, <1>2 DEF OrderInv

(* What the backfill adds is newer than every entry there is. *)
LEMMA BackfillOrder ==
  ASSUME TypeInv, OrderInv, NEW v \in Versions, Backfill(v)
  PROVE  /\ OrderInv'
         /\ \A e \in outbox' \ outbox : nextId <= e.id /\ e.id \in Nat
<1>1. PICK id \in [Filled(v) -> 1 .. MaxEntries] :
           /\ \A r \in Filled(v) : nextId <= id[r] /\ id[r] < nextId'
           /\ \A r, s \in Filled(v) : r # s => id[r] # id[s]
           /\ outbox' = outbox \cup {Copy(v, r, id[r]) : r \in Filled(v)}
           /\ nextId <= nextId' /\ nextId' \in 1 .. MaxEntries + 1
  BY BackfillAdds
<1>2. /\ UNCHANGED <<open, lastId, handed>> /\ setup' = [setup EXCEPT ![v] = "done"]
      /\ setup \in [Versions -> {"none", "attached", "done", "unfilled"}]
  BY DEF Backfill, stateVars, pointMarks, TypeInv, StoreOK
<1>3. \A r \in Filled(v) : Copy(v, r, id[r]).id = id[r] /\ id[r] \in Nat
  BY <1>1, LimitsAssumption, NewEntryFields DEF Copy
<1>4. \A e \in outbox' \ outbox : \E r \in Filled(v) : e = Copy(v, r, id[r])
  BY <1>1
<1>5. \A e \in outbox' \ outbox : /\ nextId <= e.id /\ e.id < nextId' /\ e.id \in Nat
  BY <1>1, <1>3, <1>4
<1>6. \A e, f \in outbox' \ outbox : e.id = f.id => e = f
  BY <1>1, <1>3, <1>4
<1>7. \A e \in outbox \cup open : e.id < nextId /\ e.id \in Nat
  BY Ids DEF OrderInv
<1>8. nextId \in Nat /\ nextId' \in Nat /\ outbox \subseteq outbox'
  BY <1>1, Ids, LimitsAssumption
<1>9. \A e \in outbox' \ outbox, f \in outbox \cup open : e.id # f.id
  BY <1>5, <1>7, <1>8
<1>10. \A e, f \in outbox' \cup open' : e.id = f.id => e = f
  BY <1>2, <1>6, <1>9 DEF OrderInv
<1>11. \A e \in outbox' \cup open' : e.id < nextId'
  BY <1>1, <1>2, <1>5, <1>7, <1>8
<1>12. outbox' \cap open' = {}
  BY <1>2, <1>9 DEF OrderInv
<1>13. \A e \in open' : setup'[e.version] # "none"
  BY <1>2, Ids, EntryFields DEF OrderInv
<1>14. /\ lastId' = 0 \/ \E e \in outbox' : e.id = lastId'
       /\ \A i \in handed' : \E e \in outbox' : e.id = i
  BY <1>2, <1>8 DEF OrderInv
<1>. QED  BY <1>5, <1>10, <1>11, <1>12, <1>13, <1>14 DEF OrderInv

(* The mirror workers only read the outbox. *)
LEMMA RoundKeepsStore ==
  ASSUME NEW w, Round(w) \/ SyncFails(w) \/ WorkerDies(w)
  PROVE  UNCHANGED <<storeVars, entryMarks>>
BY DEF Round, Poll, UpsertGroup, DeleteGroup, SyncRefused, SaveProgress, CheckPromotion,
     UpdateAlias, SaveMirrored, SyncFails, WorkerDies

LEMMA RoundOrder ==
  ASSUME TypeInv, OrderInv, NEW w \in Workers, Round(w) \/ SyncFails(w) \/ WorkerDies(w)
  PROVE  OrderInv'
<1>1. UNCHANGED <<setup, open, outbox, nextId>>
  BY RoundKeepsStore DEF storeVars
<1>2. CASE SaveProgress(w)
  <2>1. worker[w].batch \in SUBSET Entry /\ worker[w].batch # {}
        /\ worker[w].batch \subseteq outbox
    BY <1>2, LocalsOf DEF SaveProgress, LocalOK, WorkerType, Syncing, TypeInv
  <2>2. \E e \in outbox : e.id = lastId'
    BY <1>2, <2>1, NewestIdFacts DEF SaveProgress
  <2>3. UNCHANGED handed
    BY <1>2 DEF SaveProgress, pointMarks
  <2>. QED  BY <1>1, <2>2, <2>3 DEF OrderInv
<1>3. CASE DeleteGroup(w)
  <2>1. UNCHANGED lastId
    BY <1>3 DEF DeleteGroup, stateVars
  <2>2. \A i \in handed' : i \in handed \/ \E e \in worker[w].batch : e.id = i
    BY <1>3 DEF DeleteGroup
  <2>. QED  BY <1>1, <2>1, <2>2, Ids DEF OrderInv
<1>4. CASE ~ SaveProgress(w) /\ ~ DeleteGroup(w)
  <2>1. UNCHANGED <<lastId, handed>>
    BY <1>4 DEF Round, Poll, UpsertGroup, SyncRefused, CheckPromotion,
         UpdateAlias, SaveMirrored, SyncFails, WorkerDies, stateVars, pointMarks
  <2>. QED  BY <1>1, <2>1 DEF OrderInv
<1>. QED  BY <1>2, <1>3, <1>4

LEMMA OrderStep == TypeInv /\ OrderInv /\ [Next]_vars => OrderInv'
<1>. SUFFICES ASSUME TypeInv, OrderInv, [Next]_vars PROVE OrderInv'
  OBVIOUS
<1>1. ASSUME NEW v \in Versions, NEW r \in Rows,
             StoreInsert(v, r) \/ StoreUpdate(v, r) \/ StoreDelete(v, r)
      PROVE  OrderInv'
  BY <1>1, WritersCapture, CaptureOrder
<1>2. ASSUME NEW v \in Versions, AttachTrigger(v) \/ SetupDies(v) PROVE OrderInv'
  <2>1. /\ UNCHANGED <<open, outbox, nextId, lastId, handed>>
        /\ \E p \in {"attached", "unfilled"} : setup' = [setup EXCEPT ![v] = p]
    BY <1>2 DEF AttachTrigger, SetupDies, stateVars, pointMarks
  <2>2. setup \in [Versions -> {"none", "attached", "done", "unfilled"}]
    BY DEF TypeInv, StoreOK
  <2>3. \A u \in Versions : setup[u] # "none" => setup'[u] # "none"
    BY <2>1, <2>2
  <2>. QED  BY <2>1, <2>3, Ids, EntryFields DEF OrderInv
<1>3. ASSUME NEW v \in Versions, FillStore(v) PROVE OrderInv'
  BY <1>3 DEF FillStore, OrderInv, stateVars, pointMarks
<1>4. ASSUME NEW v \in Versions, DropStore(v) PROVE OrderInv'
  <2>1. /\ UNCHANGED <<open, outbox, nextId, lastId, handed>>
        /\ setup' = [setup EXCEPT ![v] = "none"] /\ \A e \in open : e.version # v
        /\ setup \in [Versions -> {"none", "attached", "done", "unfilled"}]
    BY <1>4 DEF DropStore, stateVars, pointMarks, TypeInv, StoreOK
  <2>2. \A e \in open : setup'[e.version] # "none"
    BY <2>1, Ids, EntryFields DEF OrderInv
  <2>. QED  BY <2>1, <2>2 DEF OrderInv
<1>5. CASE \E v \in Versions : Promote(v)
  BY <1>5 DEF Promote, OrderInv, storeVars, stateVars, pointMarks
<1>6. CASE \E w \in Workers : Round(w) \/ SyncFails(w) \/ WorkerDies(w)
  BY <1>6, RoundOrder
<1>7. CASE UNCHANGED vars
  BY <1>7 DEF vars, storeVars, stateVars, pointMarks, OrderInv
<1>. QED  BY <1>1, <1>2, <1>3, <1>4, <1>5, <1>6, <1>7, CommitOrder, BackfillOrder
          DEF Next, Writers, Setup

-----------------------------------------------------------------------------
(* No batch leaves a gap.                                                  *)

Taken(w) ==
  /\ \A e \in outbox, f \in worker[w].batch :
       e.id <= f.id => e \in worker[w].batch \/ e.id \in handed \cup late
  /\ \A e \in worker[w].batch : e.version \in worker[w].todo \/ e.id \in handed
TakenInv == NothingSkipped /\ \A w \in Workers : Taken(w)

LEMMA InitTaken == Init => TakenInv
BY DEF Init, TakenInv, NothingSkipped, Taken, Idle

LEMMA AddingTakes ==
  ASSUME TypeInv, OrderInv, TakenInv, UNCHANGED <<worker, handed, lastId>>,
         outbox \subseteq outbox', late \subseteq late',
         \A e \in outbox' \ outbox :
           e.id \in Nat /\ 1 <= e.id /\ (e.id \in late' \/ \A f \in outbox : f.id <= e.id /\ f.id # e.id)
  PROVE  TakenInv'
<1>1. ASSUME NEW e \in outbox', NEW f \in outbox, e.id <= f.id
      PROVE  e \in outbox \/ e.id \in late'
  BY <1>1, Ids
<1>2. NothingSkipped'
  <2>1. ASSUME NEW e \in outbox', e.id <= lastId PROVE e \in outbox \/ e.id \in late'
    <3>1. CASE lastId = 0
      BY <2>1, <3>1, Ids
    <3>2. CASE \E f \in outbox : f.id = lastId
      BY <1>1, <2>1, <3>2
    <3>. QED  BY <3>1, <3>2 DEF OrderInv
  <2>. QED  BY <2>1 DEF TakenInv, NothingSkipped
<1>3. ASSUME NEW w \in Workers PROVE Taken(w)'
  <2>1. worker[w].batch \subseteq outbox
    BY Ids
  <2>2. ASSUME NEW e \in outbox', NEW f \in worker[w].batch, e.id <= f.id
        PROVE  e \in worker[w].batch \/ e.id \in handed \cup late'
    <3>1. e \in outbox \/ e.id \in late'
      BY <1>1, <2>1, <2>2
    <3>. QED  BY <2>2, <3>1 DEF TakenInv, Taken
  <2>. QED  BY <2>2 DEF TakenInv, Taken
<1>. QED  BY <1>2, <1>3 DEF TakenInv

LEMMA OthersTake ==
  ASSUME TakenInv, UNCHANGED <<outbox, late>>, handed \subseteq handed', NEW w \in Workers,
         \A x \in Workers : x # w => worker'[x] = worker[x],
         Taken(w)', NothingSkipped'
  PROVE  TakenInv'
<1>1. ASSUME NEW x \in Workers, x # w PROVE Taken(x)'
  <2>1. worker'[x] = worker[x]
    BY <1>1
  <2>. QED  BY <2>1 DEF TakenInv, Taken
<1>. QED  BY <1>1 DEF TakenInv

LEMMA RoundTakes ==
  ASSUME TypeInv, OrderInv, TakenInv, NEW w \in Workers,
         Round(w) \/ SyncFails(w) \/ WorkerDies(w)
  PROVE  TakenInv'
<1>1. UNCHANGED <<outbox, late>>
  BY RoundKeepsStore DEF storeVars, entryMarks
<1>2. worker \in [Workers -> WorkerType] /\ LocalOK(worker[w])
  BY LocalsOf DEF TypeInv, WorkersOK
<1>3. \A x \in Workers : x # w => worker'[x] = worker[x]
  BY <1>2 DEF Round, Poll, UpsertGroup, DeleteGroup, SyncRefused, SaveProgress,
       CheckPromotion, UpdateAlias, SaveMirrored, SyncFails, WorkerDies, Go
<1>4. handed \subseteq handed'
  BY DEF Round, Poll, UpsertGroup, DeleteGroup, SyncRefused, SaveProgress,
       CheckPromotion, UpdateAlias, SaveMirrored, SyncFails, WorkerDies, pointMarks
<1>5. CASE Poll(w) /\ Ahead # {}
  <2>1. worker'[w].batch = Batch /\ worker'[w].todo = {e.version : e \in Batch}
    BY <1>2, <1>5 DEF Poll, WorkerType
  <2>2. UNCHANGED <<lastId, handed>>
    BY <1>5 DEF Poll, stateVars, pointMarks
  <2>3. ASSUME NEW e \in outbox, NEW f \in Batch, e.id <= f.id
        PROVE  e \in Batch \/ e.id \in handed \cup late
    <3>1. CASE e.id <= lastId
      BY <3>1 DEF TakenInv, NothingSkipped
    <3>2. CASE ~ (e.id <= lastId)
      <4>1. e \in Ahead
        BY <3>2, Ids DEF Ahead
      <4>. QED  BY <2>3, <4>1, BatchFacts DEF TypeInv, StoreOK
    <3>. QED  BY <3>1, <3>2
  <2>4. Taken(w)'
    BY <1>1, <2>1, <2>2, <2>3 DEF Taken
  <2>5. NothingSkipped'
    BY <1>1, <2>2 DEF TakenInv, NothingSkipped
  <2>. QED  BY <1>1, <1>3, <1>4, <2>4, <2>5, OthersTake
<1>6. CASE DeleteGroup(w)
  <2>1. /\ worker'[w].batch = worker[w].batch
        /\ worker'[w].todo = worker[w].todo \ {NextGroup(w)}
    BY <1>2, <1>6 DEF DeleteGroup, WorkerType
  <2>2. /\ UNCHANGED lastId
        /\ \A e \in worker[w].batch : e.version = NextGroup(w) => e.id \in handed'
    BY <1>6 DEF DeleteGroup, stateVars
  <2>3. Taken(w)'
    BY <1>1, <1>4, <2>1, <2>2 DEF TakenInv, Taken
  <2>4. NothingSkipped'
    BY <1>1, <1>4, <2>2 DEF TakenInv, NothingSkipped
  <2>. QED  BY <1>1, <1>3, <1>4, <2>3, <2>4, OthersTake
<1>7. CASE SaveProgress(w)
  <2>. DEFINE b == worker[w].batch
  <2>1. b \in SUBSET Entry /\ b # {} /\ worker[w].todo = {}
    BY <1>2, <1>7 DEF SaveProgress, LocalOK, WorkerType, Syncing
  <2>2. /\ worker'[w].batch = {} /\ UNCHANGED handed
        /\ lastId' = NewestId(b)
    BY <1>2, <1>7 DEF SaveProgress, Idle, WorkerType, pointMarks
  <2>3. PICK f \in b : f.id = NewestId(b)
    BY <2>1, NewestIdFacts
  <2>4. ASSUME NEW e \in outbox, e.id <= f.id PROVE e.id \in handed \cup late
    BY <2>1, <2>4 DEF TakenInv, Taken
  <2>5. NothingSkipped'
    BY <1>1, <2>2, <2>3, <2>4 DEF NothingSkipped
  <2>6. Taken(w)'
    BY <2>2 DEF Taken
  <2>. QED  BY <1>1, <1>3, <1>4, <2>5, <2>6, OthersTake
<1>8. CASE ~ (Poll(w) /\ Ahead # {}) /\ ~ DeleteGroup(w) /\ ~ SaveProgress(w)
  <2>1. UNCHANGED <<lastId, handed>>
    BY <1>8 DEF Round, Poll, UpsertGroup, SyncRefused, CheckPromotion, UpdateAlias,
         SaveMirrored, SyncFails, WorkerDies, stateVars, pointMarks
  <2>2. \/ worker'[w].batch = {}
        \/ worker'[w].batch = worker[w].batch /\ worker'[w].todo = worker[w].todo
    BY <1>2, <1>8 DEF Round, Poll, UpsertGroup, SyncRefused, CheckPromotion, UpdateAlias,
         SaveMirrored, SyncFails, WorkerDies, Go, Idle, WorkerType
  <2>3. Taken(w)'
    BY <1>1, <2>1, <2>2 DEF TakenInv, Taken
  <2>4. NothingSkipped'
    BY <1>1, <2>1 DEF TakenInv, NothingSkipped
  <2>. QED  BY <1>1, <1>3, <1>4, <2>3, <2>4, OthersTake
<1>. QED  BY <1>5, <1>6, <1>7, <1>8

LEMMA TakenStep == TypeInv /\ OrderInv /\ TakenInv /\ [Next]_vars => TakenInv'
<1>. SUFFICES ASSUME TypeInv, OrderInv, TakenInv, [Next]_vars PROVE TakenInv'
  OBVIOUS
<1>1. ASSUME UNCHANGED <<worker, handed, lastId, outbox, late>> PROVE TakenInv'
  BY <1>1, AddingTakes
<1>2. ASSUME NEW v \in Versions, NEW r \in Rows,
             StoreInsert(v, r) \/ StoreUpdate(v, r) \/ StoreDelete(v, r)
      PROVE  UNCHANGED <<worker, handed, lastId, outbox, late>>
  BY <1>2 DEF StoreInsert, StoreUpdate, StoreDelete, Capture, stateVars, entryMarks, pointMarks
<1>3. ASSUME NEW v \in Versions, NEW r \in Rows, StoreCommit(v, r) PROVE TakenInv'
  <2>1. /\ outbox' = outbox \cup Mine(v, r)
        /\ late' = late \cup {x.id : x \in {y \in Mine(v, r) : \E f \in outbox : y.id < f.id}}
    BY <1>3, CommitEffect
  <2>2. UNCHANGED <<worker, handed, lastId>> /\ Mine(v, r) \subseteq open
    BY <1>3 DEF StoreCommit, stateVars, pointMarks, Mine
  <2>3. ASSUME NEW e \in Mine(v, r)
        PROVE  e.id \in late' \/ \A f \in outbox : f.id <= e.id /\ f.id # e.id
    <3>1. \A f \in outbox : f.id # e.id
      BY <2>2 DEF OrderInv
    <3>2. (\E f \in outbox : e.id < f.id) => e.id \in late'
      BY <2>1
    <3>. QED  BY <2>2, <3>1, <3>2, Ids
  <2>. QED  BY <2>1, <2>2, <2>3, Ids, AddingTakes
<1>4. ASSUME NEW v \in Versions, Backfill(v) PROVE TakenInv'
  <2>1. UNCHANGED <<worker, handed, lastId, late>>
    BY <1>4 DEF Backfill, stateVars, pointMarks
  <2>2. outbox \subseteq outbox'
    BY <1>4 DEF Backfill
  <2>3. \A e \in outbox' \ outbox : nextId <= e.id /\ e.id \in Nat
    BY <1>4, BackfillOrder
  <2>4. \A e \in outbox' \ outbox : 1 <= e.id /\ \A f \in outbox : f.id <= e.id /\ f.id # e.id
    BY <2>3, Ids DEF OrderInv
  <2>. QED  BY <2>1, <2>2, <2>3, <2>4, AddingTakes
<1>5. ASSUME NEW v \in Versions,
             AttachTrigger(v) \/ SetupDies(v) \/ FillStore(v) \/ DropStore(v) \/ Promote(v)
      PROVE  UNCHANGED <<worker, handed, lastId, outbox, late>>
  BY <1>5 DEF AttachTrigger, SetupDies, FillStore, DropStore, Promote, stateVars, storeVars,
              entryMarks, pointMarks
<1>6. CASE \E w \in Workers : Round(w) \/ SyncFails(w) \/ WorkerDies(w)
  BY <1>6, RoundTakes
<1>7. ASSUME UNCHANGED vars PROVE UNCHANGED <<worker, handed, lastId, outbox, late>>
  BY <1>7 DEF vars, stateVars, storeVars, entryMarks, pointMarks
<1>. QED  BY <1>1, <1>2, <1>3, <1>4, <1>5, <1>6, <1>7 DEF Next, Writers, Setup

(* At-least-once delivery: whatever dies or fails, and however many mirror *)
(* workers there are, the progress they save never passes an entry that    *)
(* the adapter was not given, unless the entry became visible after a      *)
(* higher id had (MirrorWorker._process_mirror, sync_batch).               *)
THEOREM NothingSkippedHolds == Spec => []NothingSkipped
<1>. DEFINE Inv == TypeInv /\ OrderInv /\ TakenInv
<1>1. Init => Inv
  BY InitTypes, InitOrder, InitTaken
<1>2. Inv /\ [Next]_vars => Inv'
  BY TypeStep, OrderStep, TakenStep
<1>3. Inv => NothingSkipped
  BY DEF TakenInv
<1>. QED  BY <1>1, <1>2, <1>3, PTL DEF Spec

-----------------------------------------------------------------------------
(* The store tables and the newest entries.                                *)

SameRow(e, f) == e.version = f.version /\ e.row = f.row
NoEntry(v, r) == \A e \in outbox : e.version # v \/ e.row # r
Newest(e) == \A f \in outbox : SameRow(e, f) => f.id <= e.id

(* The newest entry of a row, or its absence, tells of an embedding. *)
Tells(v, r, x) ==
  \/ NoEntry(v, r) /\ x = 0
  \/ \E e \in outbox : e.version = v /\ e.row = r /\ Newest(e) /\ e.embedding = x

RowTold(v, r) ==
  \/ <<v, r>> \in orphaned
  \/ setup[v] # "done" /\ Tells(v, r, 0)
  \/ setup[v] # "none" /\ Tells(v, r, store[v][r])
RowInv == \A v \in Versions, r \in Rows : RowTold(v, r)

(* A row with entries has a newest one. *)
LEMMA RowHasNewest ==
  ASSUME TypeInv, NEW e \in outbox
  PROVE  \E f \in outbox : SameRow(e, f) /\ Newest(f)
<1>. DEFINE Alike == {f \in outbox : SameRow(e, f)}
<1>1. Alike \in SUBSET Entry /\ Alike # {}
  BY DEF TypeInv, StoreOK, SameRow
<1>2. PICK f \in Alike : \A g \in Alike : g.id <= f.id
  BY <1>1, NewestEntry
<1>3. Newest(f)
  BY <1>2 DEF Newest, SameRow
<1>. QED  BY <1>3

(* Entries of other rows do not matter to a row. *)
LEMMA TellsKept ==
  ASSUME NEW v, NEW r, NEW x, Tells(v, r, x), outbox \subseteq outbox',
         \A e \in outbox' \ outbox : e.version # v \/ e.row # r
  PROVE  Tells(v, r, x)'
BY DEF Tells, NoEntry, Newest, SameRow

LEMMA InitRows == Init => RowInv
BY DEF Init, RowInv, RowTold, Tells, NoEntry

LEMMA CommitRows ==
  ASSUME TypeInv, OrderInv, RowInv, NEW v \in Versions, NEW r \in Rows, StoreCommit(v, r)
  PROVE  RowInv'
<1>1. PICK e \in Mine(v, r) :
           /\ \A f \in Mine(v, r) : f.id <= e.id
           /\ store' = [store EXCEPT ![v][r] = e.embedding]
           /\ outbox' = outbox \cup Mine(v, r)
           /\ orphaned' = IF \E f \in outbox : f.version = v /\ f.row = r /\ e.id < f.id
                          THEN orphaned \cup {<<v, r>>} ELSE orphaned \ {<<v, r>>}
  BY CommitEffect
<1>2. e \in open /\ e.version = v /\ e.row = r /\ e.id \in Nat /\ UNCHANGED setup
      /\ setup[v] # "none"
  BY Ids DEF Mine, StoreCommit, OrderInv
<1>3. ASSUME NEW u \in Versions, NEW q \in Rows, u # v \/ q # r PROVE RowTold(u, q)'
  <2>1. store'[u][q] = store[u][q]
    BY <1>1, <1>3 DEF TypeInv, StoreOK
  <2>2. <<u, q>> \in orphaned => <<u, q>> \in orphaned'
    BY <1>1, <1>3
  <2>3. \A f \in outbox' \ outbox : f.version # u \/ f.row # q
    BY <1>1, <1>3 DEF Mine
  <2>4. RowTold(u, q)
    BY DEF RowInv
  <2>. QED  BY <1>1, <1>2, <2>1, <2>2, <2>3, <2>4, TellsKept DEF RowTold
<1>4. RowTold(v, r)'
  <2>1. CASE \E f \in outbox : f.version = v /\ f.row = r /\ e.id < f.id
    BY <1>1, <2>1 DEF RowTold
  <2>2. CASE ~ \E f \in outbox : f.version = v /\ f.row = r /\ e.id < f.id
    <3>1. \A f \in outbox : f.version = v /\ f.row = r => f.id <= e.id
      BY <1>2, <2>2, Ids
    <3>2. Newest(e)'
      BY <1>1, <1>2, <3>1 DEF Newest, SameRow
    <3>3. store'[v][r] = e.embedding
      BY <1>1 DEF TypeInv, StoreOK
    <3>4. Tells(v, r, store[v][r])'
      BY <1>1, <1>2, <3>2, <3>3 DEF Tells
    <3>. QED  BY <1>2, <3>4 DEF RowTold
  <2>. QED  BY <2>1, <2>2
<1>. QED  BY <1>3, <1>4 DEF RowInv

LEMMA BackfillRows ==
  ASSUME TypeInv, OrderInv, RowInv, NEW v \in Versions, Backfill(v)
  PROVE  RowInv'
<1>1. PICK id \in [Filled(v) -> 1 .. MaxEntries] :
           /\ \A r \in Filled(v) : nextId <= id[r]
           /\ outbox' = outbox \cup {Copy(v, r, id[r]) : r \in Filled(v)}
  BY BackfillAdds
<1>2. /\ UNCHANGED store /\ setup' = [setup EXCEPT ![v] = "done"] /\ setup[v] = "attached"
      /\ setup \in [Versions -> {"none", "attached", "done", "unfilled"}]
      /\ orphaned' = orphaned \ {<<v, r>> : r \in Filled(v)}
      /\ store \in [Versions -> [Rows -> Embedding]]
  BY DEF Backfill, Filled, TypeInv, StoreOK
<1>3. \A e \in outbox' \ outbox : nextId <= e.id /\ e.id \in Nat
  BY BackfillOrder
<1>4. \A e \in outbox : e.id \in Nat /\ e.id < nextId /\ nextId \in Nat
  BY Ids DEF OrderInv
<1>5. \A r \in Filled(v) : /\ Copy(v, r, id[r]) \in outbox'
                           /\ Copy(v, r, id[r]).version = v /\ Copy(v, r, id[r]).row = r
                           /\ Copy(v, r, id[r]).embedding = store[v][r]
                           /\ Copy(v, r, id[r]).id = id[r]
  BY <1>1, NewEntryFields DEF Copy
<1>6. \A e \in outbox' \ outbox : \E r \in Filled(v) : e = Copy(v, r, id[r])
  BY <1>1
<1>7. \A e \in outbox' \ outbox : e.version = v /\ e.row \in Filled(v)
  BY <1>5, <1>6
<1>8. outbox \subseteq outbox'
  BY <1>1
<1>9. ASSUME NEW u \in Versions, NEW r \in Rows, u # v \/ r \notin Filled(v)
      PROVE  RowTold(u, r)'
  <2>1. RowTold(u, r)
    BY DEF RowInv
  <2>2. \A e \in outbox' \ outbox : e.version # u \/ e.row # r
    BY <1>7, <1>9
  <2>3. <<u, r>> \in orphaned => <<u, r>> \in orphaned'
    BY <1>2, <1>9
  <2>4. CASE u # v
    BY <1>2, <1>8, <2>1, <2>2, <2>3, <2>4, TellsKept DEF RowTold
  <2>5. CASE u = v
    <3>1. store[v][r] = 0 /\ store'[v][r] = 0
      BY <1>2, <1>9, <2>5 DEF Filled
    <3>2. <<u, r>> \in orphaned \/ Tells(u, r, 0)
      BY <1>2, <2>1, <2>5, <3>1 DEF RowTold
    <3>3. <<u, r>> \in orphaned' \/ Tells(u, r, store[u][r])'
      BY <1>8, <2>2, <2>3, <2>5, <3>1, <3>2, TellsKept
    <3>. QED  BY <1>2, <2>5, <3>3 DEF RowTold
  <2>. QED  BY <2>4, <2>5
<1>10. ASSUME NEW r \in Filled(v) PROVE RowTold(v, r)'
  <2>. PICK e : e = Copy(v, r, id[r])
    OBVIOUS
  <2>1. /\ e \in outbox' /\ e.version = v /\ e.row = r /\ e.embedding = store'[v][r]
    BY <1>2, <1>5
  <2>2. e \notin outbox
    <3>1. id[r] \in Nat
      BY <1>1, LimitsAssumption
    <3>2. nextId <= id[r]
      BY <1>1
    <3>. QED  BY <1>4, <1>5, <3>1, <3>2
  <2>3. ASSUME NEW f \in outbox' \ outbox, SameRow(e, f) PROVE f = e
    <3>1. PICK s \in Filled(v) : f = Copy(v, s, id[s])
      BY <1>6
    <3>2. s = r
      BY <1>5, <2>1, <2>3, <3>1 DEF SameRow
    <3>. QED  BY <3>1, <3>2
  <2>4. Newest(e)'
    <3>1. nextId <= e.id /\ e.id \in Nat
      BY <1>3, <2>1, <2>2
    <3>2. \A f \in outbox : f.id <= e.id
      BY <1>4, <3>1
    <3>. QED  BY <2>3, <3>1, <3>2 DEF Newest, SameRow
  <2>5. Tells(v, r, store[v][r])'
    BY <2>1, <2>4 DEF Tells
  <2>. QED  BY <1>2, <2>5 DEF RowTold
<1>11. Filled(v) \subseteq Rows
  BY DEF Filled
<1>. QED  BY <1>9, <1>10, <1>11 DEF RowInv

LEMMA DropRows ==
  ASSUME TypeInv, RowInv, NEW v \in Versions, DropStore(v)
  PROVE  RowInv'
<1>1. /\ UNCHANGED outbox /\ setup[v] # "none"
      /\ store' = [store EXCEPT ![v] = NoRows] /\ setup' = [setup EXCEPT ![v] = "none"]
      /\ orphaned' = orphaned \cup {<<v, r>> : r \in {q \in Rows : store[v][q] # 0}}
      /\ setup \in [Versions -> {"none", "attached", "done", "unfilled"}]
      /\ store \in [Versions -> [Rows -> Embedding]]
  BY DEF DropStore, TypeInv, StoreOK
<1>2. \A u, r, x : Tells(u, r, x)' <=> Tells(u, r, x)
  BY <1>1 DEF Tells, NoEntry, Newest
<1>3. ASSUME NEW u \in Versions, NEW r \in Rows PROVE RowTold(u, r)'
  <2>1. RowTold(u, r)
    BY DEF RowInv
  <2>2. CASE u # v
    BY <1>1, <1>2, <2>1, <2>2 DEF RowTold
  <2>3. CASE u = v
    <3>1. CASE <<u, r>> \in orphaned \/ store[v][r] # 0
      BY <1>1, <2>3, <3>1 DEF RowTold
    <3>2. CASE <<u, r>> \notin orphaned /\ store[v][r] = 0
      BY <1>1, <1>2, <2>1, <2>3, <3>2 DEF RowTold
    <3>. QED  BY <3>1, <3>2
  <2>. QED  BY <2>2, <2>3
<1>. QED  BY <1>3 DEF RowInv

LEMMA RowStep == TypeInv /\ OrderInv /\ RowInv /\ [Next]_vars => RowInv'
<1>. SUFFICES ASSUME TypeInv, OrderInv, RowInv, [Next]_vars PROVE RowInv'
  OBVIOUS
<1>1. ASSUME UNCHANGED <<store, setup, outbox, orphaned>> PROVE RowInv'
  <2>1. ASSUME NEW v \in Versions, NEW r \in Rows PROVE RowTold(v, r)'
    <3>1. \A x : Tells(v, r, x) => Tells(v, r, x)'
      BY <1>1, TellsKept
    <3>2. RowTold(v, r)
      BY DEF RowInv
    <3>. QED  BY <1>1, <3>1, <3>2 DEF RowTold
  <2>. QED  BY <2>1 DEF RowInv
<1>2. ASSUME NEW v \in Versions, NEW r \in Rows,
             StoreInsert(v, r) \/ StoreUpdate(v, r) \/ StoreDelete(v, r)
      PROVE  UNCHANGED <<store, setup, outbox, orphaned>>
  BY <1>2 DEF StoreInsert, StoreUpdate, StoreDelete, Capture, entryMarks
<1>3. ASSUME NEW v \in Versions, FillStore(v) PROVE RowInv'
  <2>1. /\ setup[v] = "none" /\ UNCHANGED <<setup, outbox, orphaned>>
        /\ \A u \in Versions : u # v => store'[u] = store[u]
    BY <1>3 DEF FillStore, entryMarks, TypeInv, StoreOK
  <2>2. \A u, r, x : Tells(u, r, x)' <=> Tells(u, r, x)
    BY <2>1 DEF Tells, NoEntry, Newest
  <2>3. ASSUME NEW u \in Versions, NEW r \in Rows PROVE RowTold(u, r)'
    <3>1. RowTold(u, r)
      BY DEF RowInv
    <3>. QED  BY <2>1, <2>2, <3>1 DEF RowTold
  <2>. QED  BY <2>3 DEF RowInv
<1>4. ASSUME NEW v \in Versions, AttachTrigger(v) \/ SetupDies(v) PROVE RowInv'
  <2>1. /\ UNCHANGED <<store, outbox, orphaned>>
        /\ \E p \in {"attached", "unfilled"} : setup' = [setup EXCEPT ![v] = p]
        /\ setup[v] # "done" /\ setup \in [Versions -> {"none", "attached", "done", "unfilled"}]
    BY <1>4 DEF AttachTrigger, SetupDies, entryMarks, TypeInv, StoreOK
  <2>2. \A u, r, x : Tells(u, r, x)' <=> Tells(u, r, x)
    BY <2>1 DEF Tells, NoEntry, Newest
  <2>3. \A u \in Versions : /\ setup[u] # "done" => setup'[u] # "done"
                            /\ setup[u] # "none" => setup'[u] # "none"
    BY <2>1
  <2>4. ASSUME NEW u \in Versions, NEW r \in Rows PROVE RowTold(u, r)'
    <3>1. RowTold(u, r)
      BY DEF RowInv
    <3>. QED  BY <2>1, <2>2, <2>3, <3>1 DEF RowTold
  <2>. QED  BY <2>4 DEF RowInv
<1>5. ASSUME NEW v \in Versions, Promote(v) PROVE UNCHANGED <<store, setup, outbox, orphaned>>
  BY <1>5 DEF Promote, storeVars, entryMarks
<1>6. ASSUME NEW w \in Workers, Round(w) \/ SyncFails(w) \/ WorkerDies(w)
      PROVE  UNCHANGED <<store, setup, outbox, orphaned>>
  BY <1>6, RoundKeepsStore DEF storeVars, entryMarks
<1>7. ASSUME UNCHANGED vars PROVE UNCHANGED <<store, setup, outbox, orphaned>>
  BY <1>7 DEF vars, storeVars, entryMarks
<1>. QED  BY <1>1, <1>2, <1>3, <1>4, <1>5, <1>6, <1>7, CommitRows, BackfillRows, DropRows
          DEF Next, Writers, Setup

-----------------------------------------------------------------------------
(* The collections.                                                        *)

(* A point shows entry i of its row, or no entry at all. *)
Shows(v, r, i) ==
  \/ i = 0 /\ points[v][r] = 0
  \/ \E e \in outbox : /\ e.version = v /\ e.row = r /\ e.id = i
                       /\ points[v][r] = e.embedding

(* Nothing of the row that was handed over, or that a worker has just      *)
(* upserted, is newer than i. *)
AsNew(v, r, i) ==
  /\ \A f \in outbox : f.version = v /\ f.row = r /\ f.id \in handed => f.id <= i
  /\ \A w \in Workers : worker[w].pc = "delete" /\ NextGroup(w) = v =>
       \A f \in Upserts(worker[w].batch, v) : f.row = r => f.id <= i

Shown(v, r) == \E i \in Nat : Shows(v, r, i) /\ AsNew(v, r, i)
PointInv == \A v \in Versions, r \in Rows : <<v, r>> \in outdated \/ Shown(v, r)

LEMMA InitPoints == Init => PointInv
BY DEF Init, PointInv, Shown, Shows, AsNew, NoRows, Idle

(* New entries are not handed over yet. *)
LEMMA AddingShows ==
  ASSUME TypeInv, OrderInv, PointInv, UNCHANGED <<worker, points, handed, outdated>>,
         outbox \subseteq outbox', OrderInv'
  PROVE  PointInv'
<1>1. ASSUME NEW f \in outbox', f.id \in handed PROVE f \in outbox
  BY <1>1 DEF OrderInv
<1>2. \A w \in Workers : NextGroup(w)' = NextGroup(w)
  BY DEF NextGroup
<1>3. ASSUME NEW v \in Versions, NEW r \in Rows, NEW i \in Nat, Shows(v, r, i), AsNew(v, r, i)
      PROVE  Shows(v, r, i)' /\ AsNew(v, r, i)'
  <2>1. Shows(v, r, i)'
    BY <1>3 DEF Shows
  <2>2. AsNew(v, r, i)'
    BY <1>1, <1>2, <1>3 DEF AsNew, Upserts
  <2>. QED  BY <2>1, <2>2
<1>. QED  BY <1>3 DEF PointInv, Shown

(* A step of a worker that writes no point and hands nothing over. *)
LEMMA QuietStep ==
  ASSUME TypeInv, PointInv, UNCHANGED <<outbox, points, handed, outdated>>, NEW w \in Workers,
         worker'[w].pc # "delete", \A x \in Workers : x # w => worker'[x] = worker[x]
  PROVE  PointInv'
<1>1. \A x \in Workers : worker'[x].pc = "delete" => worker'[x] = worker[x]
  OBVIOUS
<1>2. \A x \in Workers : worker'[x] = worker[x] => NextGroup(x)' = NextGroup(x)
  BY DEF NextGroup
<1>3. ASSUME NEW v \in Versions, NEW r \in Rows, NEW i \in Nat, Shows(v, r, i), AsNew(v, r, i)
      PROVE  Shows(v, r, i)' /\ AsNew(v, r, i)'
  <2>1. Shows(v, r, i)'
    BY <1>3 DEF Shows
  <2>2. AsNew(v, r, i)'
    <3>1. ASSUME NEW x \in Workers, worker'[x].pc = "delete", NextGroup(x)' = v,
                 NEW f \in Upserts(worker'[x].batch, v), f.row = r
          PROVE  f.id <= i
      <4>1. worker'[x] = worker[x] /\ NextGroup(x) = v
        BY <1>1, <1>2, <3>1
      <4>. QED  BY <1>3, <3>1, <4>1 DEF AsNew
    <3>. QED  BY <1>3, <3>1 DEF AsNew, Upserts
  <2>. QED  BY <2>1, <2>2
<1>. QED  BY <1>3 DEF PointInv, Shown

(* What is not overtaken is as new as anything of its row in sight. *)
LEMMA NotOvertaken ==
  ASSUME TypeInv, NEW e \in outbox, ~ Overtaken(e), NEW f \in outbox,
         f.version = e.version, f.row = e.row,
         f.id \in handed \/ \E w \in Workers : f \in worker[w].batch
  PROVE  f.id <= e.id
BY Ids DEF Overtaken

LEMMA UpsertShows ==
  ASSUME TypeInv, PointInv, NEW w \in Workers, UpsertGroup(w)
  PROVE  PointInv'
<1>. DEFINE v == NextGroup(w)
            b == worker[w].batch
            ups == Upserts(b, v)
            S == NewestOfRows(ups)
<1>1. v \in Versions /\ b \subseteq outbox /\ ups \in SUBSET Entry /\ S \in SUBSET Entry
      /\ S \subseteq ups /\ (\A e \in S : \A f \in ups : f.row = e.row => f.id <= e.id)
      /\ (\A f \in ups : \E e \in S : e.row = f.row)
  BY GroupFacts, NewestOfRowsFacts DEF UpsertGroup
<1>2. \A e \in ups : e \in b /\ e \in outbox /\ e.version = v
  BY <1>1 DEF Upserts
<1>3. /\ WritePoints(v, S) /\ UNCHANGED <<outbox, handed>>
      /\ worker' = [worker EXCEPT ![w].pc = "delete"] /\ worker \in [Workers -> WorkerType]
  BY DEF UpsertGroup, Go, storeVars, TypeInv, WorkersOK
<1>4. \A x \in Workers : /\ worker'[x].batch = worker[x].batch
                         /\ worker'[x].todo = worker[x].todo
                         /\ x # w => worker'[x] = worker[x]
  BY <1>3 DEF WorkerType
<1>5. \A x \in Workers : NextGroup(x)' = NextGroup(x)
  BY <1>4 DEF NextGroup
<1>. HIDE DEF v, b, ups, S
<1>6. ASSUME NEW u \in Versions, NEW r \in Rows, <<u, r>> \notin outdated'
      PROVE  Shown(u, r)'
  <2>1. CASE \E e \in S : u = v /\ e.row = r
    <3>1. PICK e \in S : /\ e.row = r /\ points'[v][r] = e.embedding
                         /\ Overtaken(e) => <<v, r>> \in outdated'
      BY <1>1, <1>3, <2>1, WriteEffect
    <3>2. /\ e \in outbox /\ e.version = v /\ e.id \in Nat
          /\ ~ Overtaken(e)
      BY <1>1, <1>2, <1>6, <2>1, <3>1, Ids
    <3>3. Shows(u, r, e.id)'
      BY <1>3, <2>1, <3>1, <3>2 DEF Shows
    <3>4. \A f \in outbox' : f.version = u /\ f.row = r /\ f.id \in handed' => f.id <= e.id
      BY <1>3, <2>1, <3>1, <3>2, NotOvertaken
    <3>5. ASSUME NEW x \in Workers, NEW f \in Upserts(worker'[x].batch, u), f.row = r
          PROVE  f.id <= e.id
      <4>1. f \in worker[x].batch /\ f \in outbox /\ f.version = v
        BY <1>4, <2>1, <3>5, Ids DEF Upserts
      <4>. QED  BY <3>1, <3>2, <3>5, <4>1, NotOvertaken
    <3>6. AsNew(u, r, e.id)'
      BY <3>4, <3>5 DEF AsNew, Upserts
    <3>. QED  BY <3>2, <3>3, <3>6 DEF Shown
  <2>2. CASE ~ \E e \in S : u = v /\ e.row = r
    <3>1. points'[u][r] = points[u][r] /\ <<u, r>> \notin outdated
      BY <1>1, <1>3, <1>6, <2>2, WriteEffect
    <3>2. PICK i \in Nat : Shows(u, r, i) /\ AsNew(u, r, i)
      BY <3>1 DEF PointInv, Shown
    <3>3. Shows(u, r, i)'
      BY <1>3, <3>1, <3>2 DEF Shows
    <3>4. ASSUME NEW x \in Workers, worker'[x].pc = "delete", NextGroup(x)' = u,
                 NEW f \in Upserts(worker'[x].batch, u), f.row = r
          PROVE  f.id <= i
      <4>1. CASE x = w
        <5>1. u = v /\ f \in ups
          BY <1>4, <1>5, <3>4, <4>1 DEF v, b, ups
        <5>. QED  BY <1>1, <2>2, <3>4, <5>1
      <4>2. CASE x # w
        BY <1>4, <1>5, <3>2, <3>4, <4>2 DEF AsNew
      <4>. QED  BY <4>1, <4>2
    <3>5. AsNew(u, r, i)'
      BY <1>3, <3>2, <3>4 DEF AsNew, Upserts
    <3>. QED  BY <3>3, <3>5 DEF Shown
  <2>. QED  BY <2>1, <2>2
<1>. QED  BY <1>6 DEF PointInv

LEMMA DeleteShows ==
  ASSUME TypeInv, OrderInv, PointInv, NEW w \in Workers, DeleteGroup(w)
  PROVE  PointInv'
<1>. DEFINE v == NextGroup(w)
            b == worker[w].batch
            dels == Deletes(b, v)
            S == NewestOfRows(dels)
<1>1. v \in Versions /\ b \subseteq outbox /\ dels \in SUBSET Entry /\ S \in SUBSET Entry
      /\ S \subseteq dels /\ (\A f \in dels : \E e \in S : e.row = f.row)
      /\ \A e \in b : e.version = v => e \in Upserts(b, v) \/ e \in dels
  BY GroupFacts, NewestOfRowsFacts DEF DeleteGroup
<1>2. \A e \in dels : e \in b /\ e \in outbox /\ e.version = v
  BY <1>1 DEF Deletes
<1>3. /\ WritePoints(v, S) /\ UNCHANGED outbox /\ worker[w].pc = "delete"
      /\ handed' = handed \cup {e.id : e \in {f \in b : f.version = v}}
      /\ worker \in [Workers -> WorkerType]
  BY DEF DeleteGroup, storeVars, TypeInv, WorkersOK
<1>4. \A x \in Workers : x # w => worker'[x] = worker[x]
  BY <1>3 DEF DeleteGroup
<1>5. worker'[w].pc # "delete"
  BY <1>3 DEF DeleteGroup, WorkerType
<1>6. \A x \in Workers : x # w => NextGroup(x)' = NextGroup(x)
  BY <1>4 DEF NextGroup
<1>7. ASSUME NEW f \in outbox', f.id \in handed'
      PROVE  f.id \in handed \/ (f \in b /\ f.version = v)
  BY <1>1, <1>3, <1>7 DEF OrderInv
<1>. HIDE DEF v, b, dels, S
<1>8. ASSUME NEW u \in Versions, NEW r \in Rows, <<u, r>> \notin outdated'
      PROVE  Shown(u, r)'
  <2>1. CASE \E e \in S : u = v /\ e.row = r
    <3>1. PICK e \in S : /\ e.row = r /\ points'[v][r] = e.embedding
                         /\ Overtaken(e) => <<v, r>> \in outdated'
      BY <1>1, <1>3, <2>1, WriteEffect
    <3>2. /\ e \in outbox /\ e.version = v /\ e.id \in Nat
          /\ ~ Overtaken(e)
      BY <1>1, <1>2, <1>8, <2>1, <3>1, Ids
    <3>3. Shows(u, r, e.id)'
      BY <1>3, <2>1, <3>1, <3>2 DEF Shows
    <3>4. ASSUME NEW f \in outbox', f.version = u, f.row = r, f.id \in handed'
          PROVE  f.id <= e.id
      <4>1. f \in outbox /\ f.version = e.version /\ f.row = e.row
        BY <1>3, <2>1, <3>1, <3>2, <3>4
      <4>2. f.id \in handed \/ \E x \in Workers : f \in worker[x].batch
        BY <1>7, <3>4 DEF b
      <4>. QED  BY <3>2, <4>1, <4>2, NotOvertaken
    <3>5. ASSUME NEW x \in Workers, x # w, NEW f \in Upserts(worker'[x].batch, u), f.row = r
          PROVE  f.id <= e.id
      <4>1. f \in worker[x].batch /\ f \in outbox /\ f.version = v
        BY <1>4, <2>1, <3>5, Ids DEF Upserts
      <4>. QED  BY <3>1, <3>2, <3>5, <4>1, NotOvertaken
    <3>6. AsNew(u, r, e.id)'
      BY <1>5, <3>4, <3>5 DEF AsNew, Upserts
    <3>. QED  BY <3>2, <3>3, <3>6 DEF Shown
  <2>2. CASE ~ \E e \in S : u = v /\ e.row = r
    <3>1. points'[u][r] = points[u][r] /\ <<u, r>> \notin outdated
      BY <1>1, <1>3, <1>8, <2>2, WriteEffect
    <3>2. PICK i \in Nat : Shows(u, r, i) /\ AsNew(u, r, i)
      BY <3>1 DEF PointInv, Shown
    <3>3. Shows(u, r, i)'
      BY <1>3, <3>1, <3>2 DEF Shows
    <3>4. ASSUME NEW x \in Workers, worker'[x].pc = "delete", NextGroup(x)' = u,
                 NEW f \in Upserts(worker'[x].batch, u), f.row = r
          PROVE  f.id <= i
      <4>1. worker'[x] = worker[x] /\ NextGroup(x) = u /\ worker[x].pc = "delete"
        BY <1>4, <1>5, <1>6, <3>4
      <4>. QED  BY <3>2, <3>4, <4>1 DEF AsNew
    <3>5. ASSUME NEW f \in outbox', f.version = u, f.row = r, f.id \in handed'
          PROVE  f.id <= i
      <4>1. CASE f.id \in handed
        BY <1>3, <3>2, <3>5, <4>1 DEF AsNew
      <4>2. CASE f \in b /\ f.version = v
        <5>1. u = v /\ f \notin dels
          BY <1>1, <2>2, <3>5, <4>2
        <5>2. f \in Upserts(worker[w].batch, u) /\ NextGroup(w) = u
          BY <1>1, <4>2, <5>1 DEF v, b
        <5>. QED  BY <1>3, <3>2, <3>5, <5>2 DEF AsNew
      <4>. QED  BY <1>7, <3>5, <4>1, <4>2
    <3>6. AsNew(u, r, i)'
      BY <3>4, <3>5 DEF AsNew, Upserts
    <3>. QED  BY <3>3, <3>6 DEF Shown
  <2>. QED  BY <2>1, <2>2
<1>. QED  BY <1>8 DEF PointInv

LEMMA PointStep ==
  TypeInv /\ OrderInv /\ OrderInv' /\ PointInv /\ [Next]_vars => PointInv'
<1>. SUFFICES ASSUME TypeInv, OrderInv, OrderInv', PointInv, [Next]_vars PROVE PointInv'
  OBVIOUS
<1>1. ASSUME Writers \/ Setup \/ (\E v \in Versions : Promote(v)) \/ UNCHANGED vars
      PROVE  PointInv'
  <2>1. UNCHANGED <<worker, points, handed, outdated>> /\ outbox \subseteq outbox'
    BY <1>1 DEF Writers, Setup, StoreInsert, StoreUpdate, StoreDelete, Capture, StoreCommit,
         FillStore, DropStore, AttachTrigger, Backfill, SetupDies, Promote, vars, storeVars,
         qdrantVars, pointMarks
  <2>. QED  BY <2>1, AddingShows
<1>2. ASSUME NEW w \in Workers, Round(w) \/ SyncFails(w) \/ WorkerDies(w),
             ~ UpsertGroup(w), ~ DeleteGroup(w)
      PROVE  PointInv'
  <2>1. UNCHANGED outbox
    BY <1>2, RoundKeepsStore DEF storeVars
  <2>2. UNCHANGED <<points, handed, outdated>>
    BY <1>2 DEF Round, Poll, SyncRefused, SaveProgress, CheckPromotion, UpdateAlias,
         SaveMirrored, SyncFails, WorkerDies, qdrantVars, pointMarks
  <2>3. /\ worker \in [Workers -> WorkerType] /\ worker'[w].pc # "delete"
        /\ \A x \in Workers : x # w => worker'[x] = worker[x]
    BY <1>2 DEF Round, Poll, SyncRefused, SaveProgress, CheckPromotion, UpdateAlias,
         SaveMirrored, SyncFails, WorkerDies, Go, Idle, TypeInv, WorkersOK, WorkerType
  <2>. QED  BY <2>1, <2>2, <2>3, QuietStep
<1>. QED  BY <1>1, <1>2, UpsertShows, DeleteShows DEF Next

(* The exactness of the mirror, whatever dies or fails, however many       *)
(* workers there are and whatever the surroundings do: a collection holds  *)
(* what its store table holds once the saved progress is not below any of  *)
(* its entries, but for orphaned rows, outdated points and rows with a     *)
(* late entry (MirrorWorker._process_mirror, sync_batch, the trigger and   *)
(* backfill of setup_outbox_trigger).                                      *)
LEMMA ExactState ==
  ASSUME TypeInv, OrderInv, TakenInv, RowInv, PointInv
  PROVE  CaughtUpIsExact
<1>. SUFFICES ASSUME NEW v \in Versions, NEW r \in Rows, setup[v] = "done", CaughtUp(v),
                     <<v, r>> \notin orphaned, <<v, r>> \notin outdated,
                     \A e \in outbox : e.version = v /\ e.row = r => e.id \notin late
              PROVE  points[v][r] = store[v][r]
  BY DEF CaughtUpIsExact
<1>1. \A e \in outbox : e.version = v /\ e.row = r => e.id \in handed
  BY DEF CaughtUp, TakenInv, NothingSkipped
<1>2. Tells(v, r, store[v][r])
  BY DEF RowInv, RowTold
<1>3. PICK i \in Nat : Shows(v, r, i) /\ AsNew(v, r, i)
  BY DEF PointInv, Shown
<1>4. CASE NoEntry(v, r)
  BY <1>2, <1>3, <1>4 DEF Tells, Shows, NoEntry
<1>5. CASE ~ NoEntry(v, r)
  <2>1. PICK e \in outbox : /\ e.version = v /\ e.row = r /\ Newest(e)
                            /\ e.embedding = store[v][r]
    BY <1>2, <1>5 DEF Tells
  <2>2. e.id <= i /\ 1 <= e.id /\ e.id \in Nat
    BY <1>1, <1>3, <2>1, Ids DEF AsNew
  <2>3. PICK s \in outbox : /\ s.version = v /\ s.row = r /\ s.id = i
                            /\ points[v][r] = s.embedding
    BY <1>3, <2>2 DEF Shows
  <2>4. s.id <= e.id
    BY <2>1, <2>3 DEF Newest, SameRow
  <2>5. s = e
    BY <2>2, <2>3, <2>4 DEF OrderInv
  <2>. QED  BY <2>1, <2>3, <2>5
<1>. QED  BY <1>4, <1>5

THEOREM CaughtUpIsExactHolds == Spec => []CaughtUpIsExact
<1>. DEFINE Inv == TypeInv /\ OrderInv /\ TakenInv /\ RowInv /\ PointInv
<1>1. Init => Inv
  BY InitTypes, InitOrder, InitTaken, InitRows, InitPoints
<1>2. Inv /\ [Next]_vars => Inv'
  BY TypeStep, OrderStep, TakenStep, RowStep, PointStep
<1>3. Inv => CaughtUpIsExact
  BY ExactState
<1>. QED  BY <1>1, <1>2, <1>3, PTL DEF Spec
=============================================================================
