------------------------- MODULE ControlPlaneProofs -------------------------
(***************************************************************************)
(* The invariants of ControlPlane, for every set of requests and           *)
(* configurations.                                                         *)
(*                                                                         *)
(*   TypeInv     types, and no generation beyond the number of entries:    *)
(*               without a bound there might be no MAX(generation)         *)
(*   OrderInv    what a save has read covers the posts answered before it  *)
(*   DenseInv    what a save has read is a generation, or 0                *)
(*   PreviewInv  what a preview will put back is the process's own         *)
(*               configuration, unless a proposal has been left behind     *)
(***************************************************************************)
EXTENDS ControlPlane, SequenceTheorems, WellFoundedInduction, TLAPS

-----------------------------------------------------------------------------
(* The newest generation.                                                  *)

LEMMA LeastNat ==
  ASSUME NEW S \in SUBSET Nat, S # {}
  PROVE  \E k \in S : \A j \in S : k <= j
<1>1. PICK k \in S : \A j \in S : ~ (<<j, k>> \in OpToRel(<, Nat))
  BY NatLessThanWellFounded, WFMin
<1>2. ASSUME NEW j \in S PROVE k <= j
  <2>1. <<j, k>> \in Nat \X Nat
    OBVIOUS
  <2>2. ~ (j < k)
    BY <1>1, <2>1 DEF OpToRel
  <2>. QED  BY <2>2
<1>. QED  BY <1>2

(* The greatest member is the one with the least distance to the bound.    *)
LEMMA GreatestUpTo ==
  ASSUME NEW n \in Nat, NEW S \in SUBSET (0 .. n), S # {}
  PROVE  \E g \in S : \A h \in S : h <= g
<1>. DEFINE Gap == {n - g : g \in S}
<1>1. Gap \in SUBSET Nat /\ Gap # {}
  <2>1. \A g \in S : n - g \in Nat
    OBVIOUS
  <2>. QED  BY <2>1
<1>2. PICK k \in Gap : \A h \in Gap : k <= h
  BY <1>1, LeastNat
<1>3. PICK g \in S : k = n - g
  OBVIOUS
<1>4. \A h \in S : n - g <= n - h
  BY <1>2, <1>3
<1>. QED  BY <1>4

Saves == [req : Requests, generation : Nat \ {0}]
States == {"new", "discover", "save", "insert", "project",
           "answered", "rejected", "failed"}

HistoryOK ==
  /\ history \in Seq(Saves)
  /\ \A i \in DOMAIN history : history[i].generation <= Len(history)
ReadOK ==
  /\ read \in [Requests -> Nat]
  /\ \A r \in Requests : read[r] <= Len(history)
CallsOK ==
  /\ pc \in [Requests -> States]
  /\ kind \in [Requests -> {"update", "dry"}]
  /\ older \in [Requests -> SUBSET Requests]
  /\ leaked \in BOOLEAN

TypeInv == HistoryOK /\ ReadOK /\ CallsOK

LEMMA HistoryFacts ==
  ASSUME HistoryOK
  PROVE  /\ Len(history) \in Nat /\ DOMAIN history = 1 .. Len(history)
         /\ \A i \in DOMAIN history : /\ history[i].req \in Requests
                                      /\ history[i].generation \in 1 .. Len(history)
         /\ Generations \in SUBSET (1 .. Len(history))
<1>1. /\ Len(history) \in Nat /\ DOMAIN history = 1 .. Len(history)
      /\ \A i \in DOMAIN history : history[i] \in Saves
  BY LenProperties, ElementOfSeq DEF HistoryOK
<1>2. \A i \in DOMAIN history : /\ history[i].req \in Requests
                                /\ history[i].generation \in 1 .. Len(history)
  BY <1>1 DEF HistoryOK, Saves
<1>. QED  BY <1>1, <1>2 DEF Generations

(* MAX(generation) is some entry's, and no entry's is greater.             *)
LEMMA LatestIsGreatest ==
  ASSUME HistoryOK
  PROVE  /\ Latest \in 0 .. Len(history)
         /\ Latest \in Generations \cup {0}
         /\ \A i \in DOMAIN history : history[i].generation <= Latest
<1>1. /\ Len(history) \in Nat /\ DOMAIN history = 1 .. Len(history)
      /\ Generations \in SUBSET (1 .. Len(history))
  BY HistoryFacts
<1>2. CASE history = <<>>
  BY <1>1, <1>2, EmptySeq DEF Latest
<1>3. CASE history # <<>>
  <2>1. 1 \in DOMAIN history
    BY <1>1, <1>3, EmptySeq DEF HistoryOK
  <2>2. Generations # {}
    BY <2>1 DEF Generations
  <2>3. Generations \in SUBSET (0 .. Len(history))
    BY <1>1
  <2>4. \E g \in Generations : \A h \in Generations : h <= g
    BY <1>1, <2>2, <2>3, GreatestUpTo
  <2>5. Latest \in Generations /\ \A h \in Generations : h <= Latest
    BY <1>3, <2>4 DEF Latest
  <2>. QED  BY <1>1, <2>5 DEF Generations
<1>. QED  BY <1>2, <1>3

(* What storing a generation does to the history.                          *)
LEMMA InsertAppends ==
  ASSUME TypeInv, NEW r \in Requests, Insert(r)
  PROVE  /\ history' \in Seq(Saves)
         /\ Len(history') = Len(history) + 1
         /\ DOMAIN history' = DOMAIN history \cup {Len(history) + 1}
         /\ \A i \in DOMAIN history : history'[i] = history[i]
         /\ history'[Len(history) + 1].req = r
         /\ history'[Len(history) + 1].generation = read[r] + 1
         /\ Generations' = Generations \cup {read[r] + 1}
<1>. DEFINE e == [req |-> r, generation |-> read[r] + 1]
<1>1. e \in Saves
  BY DEF TypeInv, ReadOK, Saves
<1>2. /\ Len(history) \in Nat /\ DOMAIN history = 1 .. Len(history)
  BY HistoryFacts DEF TypeInv
<1>3. history' = Append(history, e)
  BY DEF Insert
<1>4. /\ history' \in Seq(Saves)
      /\ Len(history') = Len(history) + 1
      /\ \A i \in 1 .. Len(history) : history'[i] = history[i]
      /\ history'[Len(history) + 1] = e
  BY <1>1, <1>2, <1>3, AppendProperties DEF TypeInv, HistoryOK
<1>5. DOMAIN history' = DOMAIN history \cup {Len(history) + 1}
  BY <1>2, <1>4, LenProperties
<1>. QED  BY <1>2, <1>4, <1>5 DEF Generations

-----------------------------------------------------------------------------
(* Types.                                                                  *)

LEMMA InitTypes ==
  ASSUME Init
  PROVE  TypeInv
<1>1. history = <<>> /\ history \in Seq(Saves) /\ Len(history) = 0
  BY EmptySeq DEF Init
<1>2. HistoryOK
  BY <1>1, EmptySeq, LenProperties DEF HistoryOK
<1>3. ReadOK
  BY <1>1 DEF Init, ReadOK
<1>4. CallsOK
  BY DEF Init, CallsOK, States
<1>. QED  BY <1>2, <1>3, <1>4 DEF TypeInv

LEMMA StepKeepsTypes ==
  ASSUME TypeInv, [Next]_vars
  PROVE  TypeInv'
<1>. USE DEF TypeInv
<1>1. CASE UNCHANGED vars
  BY <1>1 DEF vars, locals, HistoryOK, ReadOK, CallsOK
<1>2. ASSUME NEW r \in Requests, Post(r) \/ Preview(r) PROVE TypeInv'
  <2>1. PICK k \in {"update", "dry"}, v \in Versions \cup {settings} : Arrive(r, k, v)
    BY <1>2 DEF Post, Preview
  <2>2. CallsOK'
    BY <2>1 DEF Arrive, At, CallsOK, States
  <2>3. HistoryOK' /\ ReadOK'
    BY <2>1 DEF Arrive, HistoryOK, ReadOK
  <2>. QED  BY <2>2, <2>3
<1>3. ASSUME NEW r \in Requests,
             \/ Admit(r) \/ Reject(r) \/ Override(r) \/ PreviewFails(r)
             \/ Restore(r) \/ Abort(r)
      PROVE  TypeInv'
  BY <1>3 DEF Admit, Reject, Override, PreviewFails, Restore, Abort, At, locals,
              HistoryOK, ReadOK, CallsOK, States
<1>4. ASSUME NEW r \in Requests, ReadGeneration(r) PROVE TypeInv'
  <2>1. Latest \in 0 .. Len(history) /\ Len(history) \in Nat
    BY LatestIsGreatest, HistoryFacts
  <2>2. Answered \subseteq Requests
    BY DEF Answered
  <2>. QED  BY <1>4, <2>1, <2>2 DEF ReadGeneration, At, HistoryOK, ReadOK, CallsOK, States
<1>5. ASSUME NEW r \in Requests, Insert(r) PROVE TypeInv'
  <2>1. Len(history) \in Nat
    BY HistoryFacts
  <2>2. HistoryOK'
    BY <1>5, <2>1, InsertAppends, HistoryFacts DEF HistoryOK, ReadOK
  <2>3. ReadOK' /\ CallsOK'
    BY <1>5, <2>1, InsertAppends DEF Insert, At, locals, ReadOK, CallsOK, States
  <2>. QED  BY <2>2, <2>3
<1>. QED  BY <1>1, <1>2, <1>3, <1>4, <1>5 DEF Next

-----------------------------------------------------------------------------
(* Posts and their order.                                                  *)

OrderInv ==
  /\ \A i \in DOMAIN history : pc[history[i].req] = "answered"
  /\ \A r \in Requests : \A a \in older[r] : pc[a] = "answered"
  /\ \A r \in Requests : \A i \in DOMAIN history :
       pc[r] = "insert" /\ history[i].req \in older[r] => history[i].generation <= read[r]
  /\ LaterPostWins

DenseInv ==
  /\ \A r \in Requests : pc[r] = "insert" => read[r] \in Generations \cup {0}
  /\ GenerationsDense

HistInv == TypeInv /\ OrderInv /\ DenseInv

LEMMA InitHistory ==
  ASSUME Init
  PROVE  HistInv
<1>1. TypeInv
  BY InitTypes
<1>2. DOMAIN history = {}
  BY <1>1, HistoryFacts, EmptySeq DEF Init, TypeInv, HistoryOK
<1>. QED  BY <1>1, <1>2 DEF Init, HistInv, OrderInv, LaterPostWins, DenseInv,
                        GenerationsDense, Generations

(* A step other than the two of a save leaves the history and what the     *)
(* saves have read, and neither begins a save's second statement nor       *)
(* changes an answered request.                                            *)
LEMMA OthersKeepHistory ==
  ASSUME HistInv, UNCHANGED <<history, read, older>>,
         \A r \in Requests : /\ pc[r] = "answered" => pc'[r] = "answered"
                             /\ pc'[r] = "insert" => pc[r] = "insert"
  PROVE  OrderInv' /\ DenseInv'
<1>1. /\ \A i \in DOMAIN history : history[i].req \in Requests
      /\ \A r \in Requests : older[r] \subseteq Requests
  BY HistoryFacts DEF HistInv, TypeInv, CallsOK
<1>. QED  BY <1>1 DEF HistInv, OrderInv, LaterPostWins, DenseInv, GenerationsDense, Generations

LEMMA ReadKeepsHistory ==
  ASSUME HistInv, NEW r \in Requests, ReadGeneration(r)
  PROVE  OrderInv' /\ DenseInv'
<1>1. /\ Latest \in Generations \cup {0}
      /\ \A i \in DOMAIN history : history[i].generation <= Latest
  BY LatestIsGreatest DEF HistInv, TypeInv
<1>2. /\ history' = history
      /\ pc[r] = "save" /\ pc'[r] = "insert" /\ read'[r] = Latest
      /\ \A a \in older'[r] : a \in Requests /\ pc[a] = "answered"
      /\ \A s \in Requests \ {r} :
           pc'[s] = pc[s] /\ read'[s] = read[s] /\ older'[s] = older[s]
  BY DEF ReadGeneration, At, HistInv, TypeInv, ReadOK, CallsOK, Answered
<1>3. /\ \A i \in DOMAIN history : history[i].req \in Requests \ {r}
      /\ \A s \in Requests : \A a \in older[s] : a \in Requests \ {r}
  BY <1>2, HistoryFacts DEF HistInv, TypeInv, CallsOK, OrderInv
<1>4. OrderInv'
  <2>1. \A i \in DOMAIN history' : pc'[history'[i].req] = "answered"
    BY <1>2, <1>3 DEF HistInv, OrderInv
  <2>2. \A s \in Requests : \A a \in older'[s] : pc'[a] = "answered"
    BY <1>2, <1>3 DEF HistInv, OrderInv
  <2>3. \A s \in Requests : \A i \in DOMAIN history' :
          pc'[s] = "insert" /\ history'[i].req \in older'[s]
            => history'[i].generation <= read'[s]
    BY <1>1, <1>2 DEF HistInv, OrderInv
  <2>4. LaterPostWins'
    BY <1>2, <1>3 DEF HistInv, OrderInv, LaterPostWins
  <2>. QED  BY <2>1, <2>2, <2>3, <2>4 DEF OrderInv
<1>5. DenseInv'
  BY <1>1, <1>2 DEF HistInv, DenseInv, GenerationsDense, Generations
<1>. QED  BY <1>4, <1>5

LEMMA InsertKeepsHistory ==
  ASSUME HistInv, NEW r \in Requests, Insert(r)
  PROVE  OrderInv' /\ DenseInv'
<1>. DEFINE n == Len(history) + 1
<1>1. /\ DOMAIN history' = DOMAIN history \cup {n}
      /\ \A i \in DOMAIN history : history'[i] = history[i]
      /\ history'[n].req = r
      /\ history'[n].generation = read[r] + 1
      /\ Generations' = Generations \cup {read[r] + 1}
  BY InsertAppends DEF HistInv
<1>2. /\ pc[r] = "insert" /\ pc'[r] = "answered" /\ read[r] \in Nat
      /\ \A s \in Requests \ {r} : pc'[s] = pc[s]
      /\ read' = read /\ older' = older
  BY DEF Insert, At, locals, HistInv, TypeInv, ReadOK, CallsOK
<1>3. /\ \A i \in DOMAIN history : /\ history[i].req \in Requests \ {r}
                                   /\ history[i].generation \in Nat
      /\ \A s \in Requests : \A a \in older[s] : a \in Requests \ {r}
  BY <1>2, HistoryFacts DEF HistInv, TypeInv, CallsOK, OrderInv
<1>4. OrderInv'
  <2>1. \A i \in DOMAIN history' : pc'[history'[i].req] = "answered"
    BY <1>1, <1>2, <1>3 DEF HistInv, OrderInv
  <2>2. \A s \in Requests : \A a \in older'[s] : pc'[a] = "answered"
    BY <1>2, <1>3 DEF HistInv, OrderInv
  <2>3. \A s \in Requests : \A i \in DOMAIN history' :
          pc'[s] = "insert" /\ history'[i].req \in older'[s]
            => history'[i].generation <= read'[s]
    <3>. SUFFICES ASSUME NEW s \in Requests, NEW i \in DOMAIN history',
                         pc'[s] = "insert", history'[i].req \in older'[s]
                  PROVE  history'[i].generation <= read'[s]
      OBVIOUS
    <3>1. history'[i].req # r
      BY <1>2, <1>3
    <3>2. i \in DOMAIN history
      BY <1>1, <3>1
    <3>3. pc[s] = "insert"
      BY <1>2
    <3>. QED  BY <1>1, <1>2, <3>2, <3>3 DEF HistInv, OrderInv
  <2>4. LaterPostWins'
    <3>. SUFFICES ASSUME NEW i \in DOMAIN history', NEW j \in DOMAIN history',
                         history'[i].req \in older[history'[j].req]
                  PROVE  history'[i].generation < history'[j].generation
      BY <1>2 DEF LaterPostWins
    <3>1. history'[j].req \in Requests
      BY <1>1, <1>3
    <3>2. history'[i].req # r
      BY <1>3, <3>1
    <3>3. i \in DOMAIN history /\ history'[i] = history[i]
      BY <1>1, <3>2
    <3>4. CASE j = n
      BY <1>1, <1>2, <1>3, <3>3, <3>4 DEF HistInv, OrderInv
    <3>5. CASE j \in DOMAIN history
      BY <1>1, <3>3, <3>5 DEF HistInv, OrderInv, LaterPostWins
    <3>. QED  BY <1>1, <3>4, <3>5
  <2>. QED  BY <2>1, <2>2, <2>3, <2>4 DEF OrderInv
<1>5. DenseInv'
  <2>1. Generations \subseteq Nat
    BY <1>3 DEF Generations
  <2>2. GenerationsDense'
    <3>. SUFFICES ASSUME NEW g \in Generations', NEW k \in 1 .. g
                  PROVE  k \in Generations'
      BY DEF GenerationsDense
    <3>1. CASE g \in Generations
      BY <1>1, <3>1 DEF HistInv, DenseInv, GenerationsDense
    <3>2. CASE g = read[r] + 1 /\ k = g
      BY <1>1, <3>2
    <3>3. CASE g = read[r] + 1 /\ k # g
      <4>1. k \in 1 .. read[r]
        BY <1>2, <3>3
      <4>2. read[r] \in Generations
        BY <1>2, <4>1 DEF HistInv, DenseInv
      <4>. QED  BY <1>1, <4>1, <4>2 DEF HistInv, DenseInv, GenerationsDense
    <3>. QED  BY <1>1, <3>1, <3>2, <3>3
  <2>3. \A s \in Requests : pc'[s] = "insert" => read'[s] \in Generations' \cup {0}
    BY <1>1, <1>2 DEF HistInv, DenseInv
  <2>. QED  BY <2>2, <2>3 DEF DenseInv
<1>. QED  BY <1>4, <1>5

LEMMA StepKeepsHistory ==
  ASSUME HistInv, [Next]_vars
  PROVE  HistInv'
<1>1. TypeInv'
  BY StepKeepsTypes DEF HistInv
<1>2. CASE UNCHANGED vars
  <2>1. UNCHANGED <<history, read, older, pc>>
    BY <1>2 DEF vars, locals
  <2>2. OrderInv' /\ DenseInv'
    BY <2>1, OthersKeepHistory
  <2>. QED  BY <1>1, <2>2 DEF HistInv
<1>3. ASSUME NEW r \in Requests,
             \/ Post(r) \/ Preview(r) \/ Admit(r) \/ Reject(r)
             \/ Override(r) \/ PreviewFails(r) \/ Restore(r) \/ Abort(r)
      PROVE  OrderInv' /\ DenseInv'
  <2>1. UNCHANGED <<history, read, older>>
    BY <1>3 DEF Post, Preview, Arrive, Admit, Reject, Override, PreviewFails, Restore,
                Abort, locals
  <2>2. \A s \in Requests : /\ pc[s] = "answered" => pc'[s] = "answered"
                            /\ pc'[s] = "insert" => pc[s] = "insert"
    BY <1>3 DEF Post, Preview, Arrive, Admit, Reject, Override, PreviewFails, Restore,
                Abort, At, HistInv, TypeInv, CallsOK
  <2>. QED  BY <2>1, <2>2, OthersKeepHistory
<1>4. ASSUME NEW r \in Requests, ReadGeneration(r) \/ Insert(r)
      PROVE  OrderInv' /\ DenseInv'
  BY <1>4, ReadKeepsHistory, InsertKeepsHistory
<1>. QED  BY <1>1, <1>2, <1>3, <1>4 DEF HistInv, Next

-----------------------------------------------------------------------------
(* The shared settings.                                                    *)

ValuesOK ==
  /\ settings \in Versions
  /\ proposal \in [Requests -> Versions \cup {None}]
  /\ orig \in [Requests -> Versions \cup {None}]

(* The proposals of previews: orig_config may have been set to one.        *)
Previewed == {proposal[s] : s \in {r \in Requests : kind[r] = "dry"}}

PreviewInv ==
  /\ \A r \in Requests : pc[r] = "new" => kind[r] = "update"
  /\ \A r \in Requests : pc[r] # "new" => proposal[r] \in Versions
  /\ \A r \in Projecting : kind[r] = "dry"
  /\ \A r \in Projecting : orig[r] = Own \/ (leaked /\ orig[r] \in Previewed)
  /\ SettingsAreOwn

SettingsInv == CallsOK /\ ValuesOK /\ PreviewInv

LEMMA InitSettings ==
  ASSUME Init
  PROVE  SettingsInv
BY InitTypes, VersionsAssumption
   DEF Init, TypeInv, SettingsInv, ValuesOK, PreviewInv, Projecting, SettingsAreOwn

(* Whoever arrives was new, and so no preview whose proposal is anywhere.  *)
LEMMA ArriveKeepsSettings ==
  ASSUME SettingsInv, NEW r \in Requests, NEW k \in {"update", "dry"},
         NEW v \in Versions, Arrive(r, k, v)
  PROVE  ValuesOK' /\ PreviewInv'
<1>. USE DEF SettingsInv
<1>1. /\ pc[r] = "new" /\ kind[r] = "update" /\ pc'[r] = "discover"
      /\ kind'[r] = k /\ proposal'[r] = v
      /\ \A s \in Requests \ {r} :
           pc'[s] = pc[s] /\ kind'[s] = kind[s] /\ proposal'[s] = proposal[s]
      /\ UNCHANGED <<settings, orig, leaked>>
  BY DEF Arrive, At, CallsOK, ValuesOK, PreviewInv
<1>2. Projecting' = Projecting
  BY <1>1 DEF Projecting
<1>3. Previewed \subseteq Previewed'
  BY <1>1 DEF Previewed
<1>4. ValuesOK'
  BY <1>1 DEF ValuesOK, Arrive
<1>5. \A s \in Projecting : s # r
  BY <1>1 DEF Projecting
<1>6. SettingsAreOwn'
  BY <1>1, <1>2 DEF PreviewInv, SettingsAreOwn
<1>7. \A s \in Requests : /\ pc'[s] = "new" => kind'[s] = "update"
                          /\ pc'[s] # "new" => proposal'[s] \in Versions
  BY <1>1 DEF PreviewInv
<1>8. \A s \in Projecting' : /\ kind'[s] = "dry"
                             /\ orig'[s] = Own \/ (leaked' /\ orig'[s] \in Previewed')
  <2>. TAKE s \in Projecting'
  <2>1. s \in Requests \ {r} /\ s \in Projecting
    BY <1>2, <1>5 DEF Projecting
  <2>2. kind'[s] = "dry" /\ orig'[s] = orig[s] /\ leaked' = leaked
    BY <1>1, <2>1 DEF PreviewInv
  <2>3. orig[s] = Own \/ (leaked /\ orig[s] \in Previewed')
    BY <1>3, <2>1 DEF PreviewInv
  <2>. QED  BY <2>2, <2>3
<1>. QED  BY <1>4, <1>6, <1>7, <1>8 DEF PreviewInv

(* A step that changes at most the state of requests that neither arrive   *)
(* nor begin to preview.                                                   *)
LEMMA OthersKeepSettings ==
  ASSUME SettingsInv, UNCHANGED <<settings, kind, proposal, orig>>,
         leaked => leaked',
         \A r \in Requests : /\ pc'[r] = "new" <=> pc[r] = "new"
                             /\ pc'[r] = "project" => pc[r] = "project"
                             /\ pc[r] = "project" /\ pc'[r] # "project" => leaked'
  PROVE  ValuesOK' /\ PreviewInv'
<1>. USE DEF SettingsInv
<1>1. ValuesOK'
  BY DEF ValuesOK
<1>2. Projecting' \subseteq Projecting /\ Previewed' = Previewed
  BY DEF Projecting, Previewed
<1>3. \A r \in Projecting : r \in Projecting' \/ leaked'
  BY DEF Projecting
<1>4. SettingsAreOwn'
  BY <1>3 DEF PreviewInv, SettingsAreOwn
<1>. QED  BY <1>1, <1>2, <1>4 DEF PreviewInv

LEMMA OverrideKeepsSettings ==
  ASSUME SettingsInv, NEW r \in Requests, Override(r)
  PROVE  ValuesOK' /\ PreviewInv'
<1>. USE DEF SettingsInv
<1>1. /\ kind[r] = "dry" /\ pc[r] = "discover" /\ pc'[r] = "project"
      /\ \A s \in Requests \ {r} : pc'[s] = pc[s] /\ orig'[s] = orig[s]
      /\ orig'[r] = settings /\ settings' = proposal[r]
      /\ leaked' = (leaked \/ Projecting # {})
      /\ kind' = kind /\ proposal' = proposal
  BY DEF Override, At, CallsOK, ValuesOK
<1>2. Projecting' = Projecting \cup {r} /\ Previewed' = Previewed
  BY <1>1 DEF Projecting, Previewed
<1>3. proposal[r] \in Versions
  BY <1>1 DEF PreviewInv
<1>4. ValuesOK'
  BY <1>1, <1>3 DEF ValuesOK, Override
<1>5. SettingsAreOwn'
  BY <1>1, <1>2 DEF SettingsAreOwn
<1>6. settings = Own \/ (leaked' /\ settings \in Previewed)
  BY <1>1 DEF PreviewInv, SettingsAreOwn, Previewed
<1>7. \A s \in Projecting' : /\ kind'[s] = "dry"
                             /\ orig'[s] = Own \/ (leaked' /\ orig'[s] \in Previewed')
  <2>. TAKE s \in Projecting'
  <2>1. CASE s = r
    BY <1>1, <1>2, <1>6, <2>1
  <2>2. CASE s # r
    <3>1. s \in Projecting /\ s \in Requests \ {r}
      BY <1>2, <2>2 DEF Projecting
    <3>2. orig'[s] = orig[s] /\ (leaked => leaked')
      BY <1>1, <3>1
    <3>. QED  BY <1>1, <1>2, <3>1, <3>2 DEF PreviewInv
  <2>. QED  BY <2>1, <2>2
<1>8. \A s \in Requests : /\ pc'[s] = "new" => kind'[s] = "update"
                          /\ pc'[s] # "new" => proposal'[s] \in Versions
  BY <1>1 DEF PreviewInv
<1>. QED  BY <1>4, <1>5, <1>7, <1>8 DEF PreviewInv

LEMMA PreviewFailsKeepsSettings ==
  ASSUME SettingsInv, NEW r \in Requests, PreviewFails(r)
  PROVE  ValuesOK' /\ PreviewInv'
<1>. USE DEF SettingsInv
<1>1. /\ kind[r] = "dry" /\ pc[r] = "discover" /\ pc'[r] = "failed"
      /\ \A s \in Requests \ {r} : pc'[s] = pc[s]
      /\ settings' = proposal[r] /\ leaked' = TRUE
      /\ kind' = kind /\ proposal' = proposal /\ orig' = orig
  BY DEF PreviewFails, At, locals, CallsOK
<1>2. Projecting' = Projecting /\ Previewed' = Previewed
  BY <1>1 DEF Projecting, Previewed
<1>3. ValuesOK'
  BY <1>1 DEF ValuesOK, PreviewInv
<1>4. SettingsAreOwn'
  BY <1>1 DEF SettingsAreOwn
<1>5. \A s \in Requests : /\ pc'[s] = "new" => kind'[s] = "update"
                          /\ pc'[s] # "new" => proposal'[s] \in Versions
  BY <1>1 DEF PreviewInv
<1>6. \A s \in Projecting' : /\ kind'[s] = "dry"
                             /\ orig'[s] = Own \/ (leaked' /\ orig'[s] \in Previewed')
  BY <1>1, <1>2 DEF PreviewInv
<1>. QED  BY <1>3, <1>4, <1>5, <1>6 DEF PreviewInv

(* What a preview puts back is Own, or a proposal left behind before.      *)
LEMMA RestoreKeepsSettings ==
  ASSUME SettingsInv, NEW r \in Requests, Restore(r)
  PROVE  ValuesOK' /\ PreviewInv'
<1>. USE DEF SettingsInv
<1>1. /\ pc[r] = "project" /\ pc'[r] = "answered"
      /\ \A s \in Requests \ {r} : pc'[s] = pc[s]
      /\ settings' = orig[r] /\ leaked' = leaked
      /\ kind' = kind /\ proposal' = proposal /\ orig' = orig
  BY DEF Restore, At, locals, CallsOK
<1>2. r \in Projecting /\ Projecting' \subseteq Projecting /\ Previewed' = Previewed
  BY <1>1 DEF Projecting, Previewed
<1>3. orig[r] = Own \/ (leaked /\ orig[r] \in Previewed)
  BY <1>2 DEF PreviewInv
<1>4. \A v \in Previewed : v \in Versions
  BY DEF Previewed, PreviewInv
<1>5. ValuesOK'
  BY <1>1, <1>3, <1>4, VersionsAssumption DEF ValuesOK
<1>6. SettingsAreOwn'
  BY <1>1, <1>3 DEF SettingsAreOwn, Previewed
<1>7. \A s \in Requests : /\ pc'[s] = "new" => kind'[s] = "update"
                          /\ pc'[s] # "new" => proposal'[s] \in Versions
  BY <1>1 DEF PreviewInv
<1>8. \A s \in Projecting' : /\ kind'[s] = "dry"
                             /\ orig'[s] = Own \/ (leaked' /\ orig'[s] \in Previewed')
  BY <1>1, <1>2 DEF PreviewInv
<1>. QED  BY <1>5, <1>6, <1>7, <1>8 DEF PreviewInv

LEMMA StepKeepsSettings ==
  ASSUME HistInv, SettingsInv, [Next]_vars
  PROVE  SettingsInv'
<1>1. CallsOK'
  BY StepKeepsTypes DEF HistInv, TypeInv
<1>2. ASSUME UNCHANGED vars PROVE ValuesOK' /\ PreviewInv'
  <2>1. UNCHANGED <<settings, kind, proposal, orig, pc, leaked>>
    BY <1>2 DEF vars, locals
  <2>. QED  BY <2>1, OthersKeepSettings
<1>3. ASSUME NEW r \in Requests, Post(r) \/ Preview(r)
      PROVE  ValuesOK' /\ PreviewInv'
  <2>1. PICK k \in {"update", "dry"}, v \in Versions : Arrive(r, k, v)
    BY <1>3 DEF Post, Preview, SettingsInv, ValuesOK
  <2>. QED  BY <2>1, ArriveKeepsSettings
<1>4. ASSUME NEW r \in Requests,
             Admit(r) \/ Reject(r) \/ ReadGeneration(r) \/ Insert(r) \/ Abort(r)
      PROVE  ValuesOK' /\ PreviewInv'
  <2>1. UNCHANGED <<settings, kind, proposal, orig>>
    BY <1>4 DEF Admit, Reject, ReadGeneration, Insert, Abort, locals
  <2>2. leaked => leaked'
    BY <1>4 DEF Admit, Reject, ReadGeneration, Insert, Abort
  <2>3. \A s \in Requests : /\ pc'[s] = "new" <=> pc[s] = "new"
                            /\ pc'[s] = "project" => pc[s] = "project"
                            /\ pc[s] = "project" /\ pc'[s] # "project" => leaked'
    BY <1>4 DEF Admit, Reject, ReadGeneration, Insert, Abort, At, SettingsInv, CallsOK
  <2>. QED  BY <2>1, <2>2, <2>3, OthersKeepSettings
<1>5. ASSUME NEW r \in Requests, Override(r) \/ PreviewFails(r) \/ Restore(r)
      PROVE  ValuesOK' /\ PreviewInv'
  <2>1. CASE Override(r)
    BY <2>1, OverrideKeepsSettings
  <2>2. CASE PreviewFails(r)
    BY <2>2, PreviewFailsKeepsSettings
  <2>3. CASE Restore(r)
    BY <2>3, RestoreKeepsSettings
  <2>. QED  BY <1>5, <2>1, <2>2, <2>3
<1>6. ValuesOK' /\ PreviewInv'
  BY <1>2, <1>3, <1>4, <1>5 DEF Next
<1>. QED  BY <1>1, <1>6 DEF SettingsInv

-----------------------------------------------------------------------------
IInv == HistInv /\ SettingsInv

LEMMA Invariant == Spec => []IInv
<1>1. Init => IInv
  BY InitHistory, InitSettings DEF IInv
<1>2. IInv /\ [Next]_vars => IInv'
  BY StepKeepsHistory, StepKeepsSettings DEF IInv
<1>. QED  BY <1>1, <1>2, PTL DEF Spec

(* Types, for any number of requests: a generation is a number however     *)
(* many were stored (update_config, dry_run, save_table_config).           *)
THEOREM TypeCorrect == Spec => []TypeOK
<1>1. IInv => TypeOK
  BY DEF IInv, HistInv, TypeInv, HistoryOK, ReadOK, SettingsInv, CallsOK, ValuesOK,
         TypeOK, Saves, States
<1>. QED  BY <1>1, Invariant, PTL

(* A post that began after another was answered gets the higher            *)
(* generation, whatever overlaps (save_table_config).                      *)
THEOREM LaterPostWinsHolds == Spec => []LaterPostWins
<1>1. IInv => LaterPostWins
  BY DEF IInv, HistInv, OrderInv
<1>. QED  BY <1>1, Invariant, PTL

(* Failed and overlapping saves leave no gap in the generations            *)
(* (save_table_config).                                                    *)
THEOREM GenerationsDenseHolds == Spec => []GenerationsDense
<1>1. IInv => GenerationsDense
  BY DEF IInv, HistInv, DenseInv
<1>. QED  BY <1>1, Invariant, PTL

(* The shared settings hold the process's own configuration, a preview's   *)
(* proposal, or one left behind (update_config, dry_run).                  *)
THEOREM SettingsAreOwnHolds == Spec => []SettingsAreOwn
<1>1. IInv => SettingsAreOwn
  BY DEF IInv, SettingsInv, PreviewInv
<1>. QED  BY <1>1, Invariant, PTL
=============================================================================
