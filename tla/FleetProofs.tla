------------------------------ MODULE FleetProofs ------------------------------
(***************************************************************************)
(* The safety properties of Fleet, for any pipelines, sources, branches    *)
(* and bounds.                                                             *)
(*                                                                         *)
(*   TypeInv    types; what the actions of a plan are for                  *)
(*   ShapeInv   what a store implies, and when a vectorizer is planned     *)
(*   ScarInv    the objects no plan looks for exist, or are scars, or are  *)
(*              about to be made by the action under way                   *)
(*   OwedInv    whatever a target lacks, the rest of the plan makes        *)
(*   ToldInv    the status of a generation while the plan is applied       *)
(*                                                                         *)
(* Last comes a measure of what is left to apply, lowered by every step.   *)
(***************************************************************************)
EXTENDS Fleet, FiniteSetTheorems, WellFoundedInduction, TLAPS

-----------------------------------------------------------------------------
(* The invariants.                                                         *)

Has(kind, t) == Object(kind, t) \in objects \cup scars

(* The action of that type for t is under way, before statement n + 1.     *)
UpTo(type, t, n)  == pc = "apply" /\ action = <<type, t>> /\ t \notin failed /\ step <= n
Beyond(type, t, n) == pc = "apply" /\ action = <<type, t>> /\ t \notin failed /\ step > n

PlanOK ==
  /\ \A a \in plan : a[1] = "StateInit" <=> a[2] = Sink
  /\ \A a \in plan : a[1] \in {"CacheSetup", "Recovery", "OutboxSetup"} => a[2][2] = "main"
  /\ pc # "apply" => plan = {}
TypeInv == TypeOK /\ PlanOK

PlannedOnce ==
  \A t \in Targets :
    /\ <<"OutboxSetup", t>> \in plan => Exists("store", t) /\ <<"VectorizerSetup", t>> \notin plan
    /\ <<"VectorizerSetup", t>> \in plan /\ t \notin failed =>
         ~Exists("store", t) \/ Beyond("VectorizerSetup", t, 5)
StoreShape ==
  \A t \in Targets :
    /\ Exists("view", t) \/ Exists("trigger", t) => Exists("store", t)
    /\ Exists("store", t) => Exists("row", t) /\ Exists("table", Main(t[1]))
    /\ Beyond("VectorizerSetup", t, 3) => Exists("row", t)
    /\ Beyond("VectorizerSetup", t, 4) => Exists("table", Main(t[1]))
    /\ Beyond("VectorizerSetup", t, 5) => Exists("store", t)
CursorShape ==
  \A p \in Polling :
    /\ Exists("cursor", Main(p)) => Exists("rows", Main(p))
    /\ Beyond("Recovery", Main(p), 2) => Exists("rows", Main(p))
ShapeInv == PlannedOnce /\ StoreShape /\ CursorShape

ScarInv ==
  /\ \A t \in Targets : t[1] \notin Polling /\ Exists("store", t) =>
       Has("sub", t) \/ UpTo("VectorizerSetup", t, 6)
  /\ \A p \in Branched : Exists("store", Branch(p)) =>
       \/ Has("trigger", Branch(p))
       \/ UpTo("VectorizerSetup", Branch(p), IF p \in Polling THEN 6 ELSE 7)
  /\ \A p \in Pipelines \ Polling : Exists("slot", Main(p)) =>
       Has("rows", Main(p)) \/ UpTo("Recovery", Main(p), 3)

(* The rest of the plan makes it. *)
Ahead(a) == IF a = action THEN step ELSE 1
Owed(kind, t) ==
  \E a \in plan : a[2] = t /\ \E i \in DOMAIN Steps(a[1], t) : Steps(a[1], t)[i] = kind /\ Ahead(a) <= i
OwedInv ==
  pc = "apply" => \A t \in Targets \ failed : t[1] \in reached =>
    \A kind \in PieceKinds(t) : Has(kind, t) \/ Owed(kind, t)

ToldInv ==
  pc = "apply" => \A p \in MainsOf(affected) :
    status[p] = "none" \/ status[p] = IF Main(p) \in failed THEN "Failed" ELSE "Syncing"

-----------------------------------------------------------------------------
(* Targets, statements, and the order of the actions.                      *)

LEMMA MainFacts ==
  ASSUME NEW p \in Pipelines
  PROVE  /\ Main(p) \in Targets /\ Main(p)[1] = p /\ Main(p)[2] = "main" /\ Main(p) # Sink
         /\ \A q : Main(p) = Main(q) => p = q
         /\ \A q : Main(p) # Branch(q)
BY DEF Main, Branch, Sink, Targets

LEMMA BranchFacts ==
  ASSUME NEW p \in Branched
  PROVE  /\ Branch(p) \in Targets /\ Branch(p)[1] = p /\ Branch(p)[2] = "branch" /\ Branch(p) # Sink
         /\ \A q : Branch(p) = Branch(q) => p = q
BY DEF Main, Branch, Sink, Targets

LEMMA TargetFacts ==
  ASSUME NEW t \in Targets
  PROVE  /\ t # Sink /\ t[1] \in Pipelines /\ t[2] \in {"main", "branch"}
         /\ t[2] = "main" => t = Main(t[1])
         /\ t[2] = "branch" => t = Branch(t[1]) /\ t[1] \in Branched
BY SetsAssumption DEF Main, Branch, Sink, Targets

LEMMA SinkFacts == Sink[2] = "sink" /\ Sink[1] \notin Pipelines /\ Sink \notin Targets
BY SetsAssumption DEF Main, Branch, Sink, Targets

(* Statement i of such an action is of that kind. *)
Statement(type, t, kind, i) ==
  \/ type = "StateInit" /\ kind = "states" /\ i = 1
  \/ type = "CacheSetup" /\ kind = "cache" /\ i = 1
  \/ type = "SourceSetup" /\ t[1] \notin Polling /\ kind = "publication" /\ i = 1
  \/ type = "CreateTable" /\ kind = "table" /\ i = 1
  \/ type = "Recovery" /\ t[1] \in Polling
       /\ <<kind, i>> \in {<<"lsn", 1>>, <<"rows", 2>>, <<"cursor", 3>>}
  \/ type = "Recovery" /\ t[1] \notin Polling
       /\ <<kind, i>> \in {<<"slot", 1>>, <<"lsn", 2>>, <<"rows", 3>>}
  \/ type = "VectorizerSetup"
       /\ <<kind, i>> \in {<<"cleanup", 1>>, <<"states", 2>>, <<"row", 3>>, <<"table", 4>>,
                           <<"store", 5>>}
  \/ type = "VectorizerSetup" /\ t[1] \in Polling /\ kind = "trigger" /\ i = 6
  \/ type = "VectorizerSetup" /\ t[1] \notin Polling
       /\ <<kind, i>> \in {<<"sub", 6>>, <<"trigger", 7>>}
  \/ type = "OutboxSetup" /\ kind = "trigger" /\ i = 1
  \/ type = "ViewSetup" /\ kind = "view" /\ i = 1

Count(type, t) ==
  CASE type = "Recovery" -> 3
    [] type = "VectorizerSetup" -> IF t[1] \in Polling THEN 6 ELSE 7
    [] type = "SourceSetup" -> IF t[1] \in Polling THEN 0 ELSE 1
    [] OTHER -> 1

LEMMA StepsCount ==
  ASSUME NEW type \in ActionTypes, NEW t
  PROVE  Len(Steps(type, t)) = Count(type, t) /\ DOMAIN Steps(type, t) = 1 .. Count(type, t)
<1>1. CASE type = "Recovery"
  <2>1. CASE t[1] \in Polling
    BY <1>1, <2>1 DEF Steps, Count
  <2>2. CASE t[1] \notin Polling
    BY <1>1, <2>2 DEF Steps, Count
  <2>. QED  BY <2>1, <2>2
<1>2. CASE type = "VectorizerSetup"
  <2>1. CASE t[1] \in Polling
    BY <1>2, <2>1 DEF Steps, Count
  <2>2. CASE t[1] \notin Polling
    BY <1>2, <2>2 DEF Steps, Count
  <2>. QED  BY <2>1, <2>2
<1>3. CASE type = "SourceSetup"
  <2>1. CASE t[1] \in Polling
    BY <1>3, <2>1 DEF Steps, Count
  <2>2. CASE t[1] \notin Polling
    BY <1>3, <2>2 DEF Steps, Count
  <2>. QED  BY <2>1, <2>2
<1>4. CASE type \notin {"Recovery", "VectorizerSetup", "SourceSetup"}
  <2>1. Count(type, t) = 1
    BY <1>4 DEF Count
  <2>2. \E kind : Steps(type, t) = <<kind>>
    BY <1>4 DEF ActionTypes, Steps
  <2>. QED  BY <2>1, <2>2
<1>. QED  BY <1>1, <1>2, <1>3, <1>4

LEMMA StepsTable ==
  ASSUME NEW type \in ActionTypes, NEW t, NEW i \in 1 .. Count(type, t)
  PROVE  Statement(type, t, Steps(type, t)[i], i)
<1>1. CASE type = "Recovery"
  <2>1. i = 1 \/ i = 2 \/ i = 3
    BY <1>1 DEF Count
  <2>. QED  BY <1>1, <2>1 DEF Steps, Statement
<1>2. CASE type = "VectorizerSetup"
  <2>1. i \in 1 .. 7 /\ (t[1] \in Polling => i # 7)
    BY <1>2 DEF Count
  <2>2. i = 1 \/ i = 2 \/ i = 3 \/ i = 4 \/ i = 5 \/ i = 6 \/ i = 7
    BY <2>1
  <2>3. CASE t[1] \in Polling
    BY <1>2, <2>1, <2>2, <2>3 DEF Steps, Statement
  <2>4. CASE t[1] \notin Polling
    BY <1>2, <2>2, <2>4 DEF Steps, Statement
  <2>. QED  BY <2>3, <2>4
<1>3. CASE type = "SourceSetup"
  BY <1>3 DEF Count, Steps, Statement
<1>4. CASE type \notin {"Recovery", "VectorizerSetup", "SourceSetup"}
  <2>1. i = 1
    BY <1>4 DEF Count
  <2>. QED  BY <1>4, <2>1 DEF Steps, Statement, ActionTypes
<1>. QED  BY <1>1, <1>2, <1>3, <1>4

(* No two kinds share a place.                                             *)
LEMMA StatementIs ==
  ASSUME NEW type \in ActionTypes, NEW t, NEW kind, NEW i, Statement(type, t, kind, i)
  PROVE  i \in 1 .. Count(type, t) /\ Steps(type, t)[i] = kind
<1>1. i \in 1 .. Count(type, t)
  BY DEF Statement, Count
<1>2. Statement(type, t, Steps(type, t)[i], i)
  BY <1>1, StepsTable
<1>. QED  BY <1>1, <1>2 DEF Statement

LEMMA LeastNat ==
  ASSUME NEW S \in SUBSET Nat, S # {}
  PROVE  \E k \in S : \A j \in S : k <= j
<1>1. PICK k \in S : \A j \in S : ~ (<<j, k>> \in OpToRel(<, Nat))
  BY NatLessThanWellFounded, WFMin
<1>2. ASSUME NEW j \in S PROVE k <= j
  <2>1. <<j, k>> \in Nat \X Nat
    OBVIOUS
  <2>2. ~ (j < k)
    BY <1>1, <2>1 DEF OpToRel
  <2>. QED  BY <2>2
<1>. QED  BY <1>2

LEMMA TurnFacts ==
  ASSUME NEW p \in Pipelines
  PROVE  Turn(p) \in Nat
<1>1. \E i \in DOMAIN Order : Order[i] = p
  BY DEF Pipelines
<1>2. DOMAIN Order \subseteq Nat
  BY SetsAssumption
<1>. QED  BY <1>1, <1>2 DEF Turn

LEMMA PlaceFacts ==
  ASSUME NEW a \in ActionTypes \X (Targets \cup {Sink})
  PROVE  Place[a] \in Nat
<1>1. Rank[a[1]] \in Nat
  BY DEF Rank, ActionTypes
<1>2. Len(Order) \in Nat
  BY SetsAssumption
<1>3. CASE a[2] = Sink
  BY <1>1, <1>3, SinkFacts DEF Place
<1>4. CASE a[2] \in Targets
  <2>1. Turn(a[2][1]) \in Nat /\ a[2][2] \in {"main", "branch"}
    BY <1>4, TargetFacts, TurnFacts
  <2>. QED  BY <1>1, <1>2, <2>1 DEF Place
<1>. QED  BY <1>3, <1>4

(* The next action is one of those left.                                   *)
LEMMA FirstFacts ==
  ASSUME NEW S \in SUBSET (ActionTypes \X (Targets \cup {Sink}))
  PROVE  /\ S # {} => First(S) \in S
         /\ S = {} => First(S) = NoAction
<1>1. CASE S # {}
  <2>. DEFINE Places == {Place[a] : a \in S}
  <2>1. Places \in SUBSET Nat /\ Places # {}
    BY <1>1, PlaceFacts
  <2>2. PICK n \in Places : \A m \in Places : n <= m
    BY <2>1, LeastNat
  <2>3. \E a \in S : \A b \in S : Place[a] <= Place[b]
    BY <2>2
  <2>. QED  BY <1>1, <2>3 DEF First
<1>. QED  BY <1>1 DEF First

-----------------------------------------------------------------------------
(* What the statement under way does.                                      *)

Statements == Make \/ Save \/ Cleanup \/ Subscribe \/ SubscribeHalf

LEMMA UnderWay ==
  ASSUME TypeInv, Applying
  PROVE  /\ action \in plan /\ action = <<Type, Target>> /\ pc = "apply"
         /\ Type \in ActionTypes /\ Target \in Targets \cup {Sink}
         /\ Type = "StateInit" <=> Target = Sink
         /\ Type \in {"CacheSetup", "Recovery", "OutboxSetup"} => Target[2] = "main"
         /\ step \in 1 .. Count(Type, Target) + 1
         /\ Finished <=> step = Count(Type, Target) + 1
<1>1. action \in plan /\ plan \subseteq ActionTypes \X (Targets \cup {Sink})
  BY DEF Applying, TypeInv, TypeOK
<1>2. action = <<Type, Target>> /\ Type \in ActionTypes /\ Target \in Targets \cup {Sink}
  BY <1>1 DEF Type, Target
<1>3. Len(Steps(Type, Target)) = Count(Type, Target) /\ Count(Type, Target) \in Nat
  BY <1>2, StepsCount DEF Count
<1>4. step \in 1 .. Count(Type, Target) + 1
  BY <1>3 DEF TypeInv, TypeOK
<1>. QED  BY <1>1, <1>2, <1>3, <1>4 DEF Finished, Applying, TypeInv, PlanOK, Type, Target

LEMMA AtStatement ==
  ASSUME TypeInv, NEW kind, AtStep(kind)
  PROVE  /\ Applying /\ Target \notin failed
         /\ Statement(Type, Target, kind, step)
         /\ step \in 1 .. Count(Type, Target)
<1>1. step \in 1 .. Count(Type, Target)
  <2>1. Count(Type, Target) \in Nat
    BY DEF Count
  <2>. QED  BY <2>1, UnderWay DEF AtStep
<1>. QED  BY <1>1, UnderWay, StepsTable DEF AtStep, Kind

(* The kinds of object a statement makes. *)
Makes == {"publication", "table", "slot", "rows", "row", "store", "sub", "trigger", "view"}

Effect(kind) ==
  /\ AtStep(kind) /\ StepDone
  /\ objects \subseteq objects' /\ objects' \subseteq Kinds \X (Targets \cup {Sink})
  /\ scars' \subseteq {"rows", "sub", "trigger"} \X Targets /\ scars' \cap objects' = {}
  /\ objects \cup scars \subseteq objects' \cup scars'
  /\ kind \in Makes => Object(kind, Target) \in objects' \cup scars'
  /\ kind \in Makes \ {"sub"} => Object(kind, Target) \in objects'
  /\ \A o \in objects' \ objects :
       /\ o[1] \in {"view", "trigger", "store"} => o = <<kind, Target>>
       /\ o[1] = "cursor" => o = <<kind, Target>>
       /\ o[1] = "publication" => o = <<kind, Target>>
       /\ o[1] = "sub" => o = <<kind, Target>>
       /\ o[1] = "slot" => /\ o[2] = Target /\ kind \in {"slot", "sub"}
                           /\ kind = "sub" /\ Target[2] = "main" =>
                                <<"rows", Target>> \in objects' \cup scars'
  /\ kind = "view" => Exists("store", Target)
  /\ faults' \in 0 .. MaxFaults

LEMMA ObjectFacts ==
  ASSUME NEW t \in Targets, NEW kind
  PROVE  /\ Object(kind, t)[1] = kind /\ Object(kind, t)[2] \in Targets
         /\ Object(kind, t) = <<kind, Object(kind, t)[2]>>
         /\ kind \notin {"table", "rows"} \/ t[2] = "main" => Object(kind, t) = <<kind, t>>
         /\ kind \in {"table", "rows"} => Object(kind, t) = <<kind, Main(t[1])>>
BY TargetFacts, MainFacts DEF Object, Owner

LEMMA MakeEffect ==
  ASSUME TypeInv, Make
  PROVE  \E kind : Effect(kind)
<1>1. PICK kind \in {"states", "cache", "publication", "table", "slot", "rows", "row",
                     "store", "trigger", "view"} :
        /\ AtStep(kind) /\ Possible(kind)
        /\ objects' = objects \cup {IF kind \in {"states", "cache"} THEN <<kind, Sink>>
                                    ELSE Object(kind, Target)}
        /\ scars' = scars \ {Object(kind, Target)}
  BY DEF Make
<1>2. StepDone /\ faults' = faults
  BY DEF Make
<1>3. Statement(Type, Target, kind, step) /\ Target \in Targets \cup {Sink}
  BY <1>1, AtStatement, UnderWay
<1>4. CASE kind \in {"states", "cache"}
  <2>1. Object(kind, Target)[1] = kind
    BY DEF Object
  <2>2. scars' = scars
    BY <1>1, <1>4, <2>1 DEF TypeInv, TypeOK
  <2>. QED  BY <1>1, <1>2, <1>4, <2>2 DEF Effect, Makes, Kinds, TypeInv, TypeOK
<1>5. CASE kind \notin {"states", "cache"}
  <2>1. Target \in Targets
    BY <1>3, <1>5, UnderWay, AtStatement, <1>1 DEF Statement
  <2>2. /\ Object(kind, Target)[1] = kind /\ Object(kind, Target)[2] \in Targets
        /\ Object(kind, Target) = <<kind, Object(kind, Target)[2]>>
        /\ kind \notin {"table", "rows"} => Object(kind, Target) = <<kind, Target>>
    BY <2>1, ObjectFacts
  <2>3. kind = "view" => Exists("store", Target)
    BY <1>1 DEF Possible
  <2>4. objects' = objects \cup {Object(kind, Target)}
    BY <1>1, <1>5
  <2>5. Object(kind, Target) \in Kinds \X (Targets \cup {Sink})
    BY <1>1, <2>2 DEF Kinds
  <2>. QED  BY <1>1, <1>2, <2>2, <2>3, <2>4, <2>5 DEF Effect, TypeInv, TypeOK
<1>. QED  BY <1>4, <1>5

LEMMA SaveEffect ==
  ASSUME TypeInv, Save
  PROVE  \E kind : Effect(kind)
<1>1. PICK kind \in {"lsn", "cursor"} :
        /\ AtStep(kind)
        /\ objects' = IF Exists("row", Target) THEN objects \cup {<<kind, Target>>} ELSE objects
  BY DEF Save
<1>2. StepDone /\ faults' = faults /\ scars' = scars
  BY DEF Save
<1>3. Target \in Targets \cup {Sink}
  BY <1>1, UnderWay, AtStatement
<1>4. Effect(kind)
  BY <1>1, <1>2, <1>3 DEF Effect, Makes, Kinds, TypeInv, TypeOK
<1>. QED  BY <1>4

(* There is nothing to clean up.                                           *)
LEMMA CleanupEffect ==
  ASSUME TypeInv, ShapeInv, Cleanup
  PROVE  Effect("cleanup") /\ objects' = objects
<1>1. AtStep("cleanup") /\ StepDone /\ faults' = faults /\ scars' = scars
  BY DEF Cleanup
<1>2. Type = "VectorizerSetup" /\ step = 1 /\ Target \in Targets /\ Target \notin failed
  BY <1>1, AtStatement, UnderWay DEF Statement
<1>3. <<"VectorizerSetup", Target>> \in plan
  BY <1>1, <1>2, AtStatement, UnderWay
<1>4. ~ Exists("store", Target)
  <2>1. ~ Beyond("VectorizerSetup", Target, 5)
    BY <1>2 DEF Beyond
  <2>. QED  BY <1>2, <1>3, <2>1 DEF ShapeInv, PlannedOnce
<1>5. ~ Exists("view", Target) /\ ~ Exists("trigger", Target)
  BY <1>2, <1>4 DEF ShapeInv, StoreShape
<1>6. objects' = objects
  BY <1>4, <1>5 DEF Cleanup, Exists
<1>. QED  BY <1>1, <1>6 DEF Effect, Makes, TypeInv, TypeOK

LEMMA SubscribeEffect ==
  ASSUME TypeInv, Subscribe
  PROVE  Effect("sub")
<1>1. AtStep("sub") /\ StepDone /\ faults' = faults
  BY DEF Subscribe
<1>2. Target \in Targets
  BY <1>1, AtStatement, UnderWay DEF Statement
<1>3. CASE Exists("sub", Target) /\ UNCHANGED <<objects, scars>>
  <2>1. Object("sub", Target) = <<"sub", Target>>
    BY <1>2, ObjectFacts
  <2>. QED  BY <1>1, <1>3, <2>1 DEF Effect, Makes, Exists, TypeInv, TypeOK
<1>4. ASSUME NEW copied \in SUBSET {Object("rows", Target)},
             objects' = objects \cup copied \cup {<<"sub", Target>>, <<"slot", Target>>},
             scars' = (scars \cup RowsOf(Target)) \ objects'
      PROVE  Effect("sub")
  <2>1. /\ Object("rows", Target) = <<"rows", Main(Target[1])>> /\ Main(Target[1]) \in Targets
        /\ Object("sub", Target) = <<"sub", Target>>
        /\ Target[2] = "main" => RowsOf(Target) = {<<"rows", Target>>}
        /\ RowsOf(Target) \subseteq {<<"rows", Target>>}
    BY <1>2, ObjectFacts, TargetFacts, MainFacts DEF RowsOf
  <2>2. objects' \subseteq Kinds \X (Targets \cup {Sink})
    BY <1>2, <1>4, <2>1 DEF Kinds, TypeInv, TypeOK
  <2>3. scars' \subseteq {"rows", "sub", "trigger"} \X Targets
    BY <1>2, <1>4, <2>1 DEF TypeInv, TypeOK
  <2>4. \A o \in objects' \ objects :
          o \in {<<"rows", Main(Target[1])>>, <<"sub", Target>>, <<"slot", Target>>}
    BY <1>4, <2>1
  <2>5. Target[2] = "main" => <<"rows", Target>> \in objects' \cup scars'
    BY <1>4, <2>1
  <2>6. faults \in 0 .. MaxFaults
    BY DEF TypeInv, TypeOK
  <2>. QED  BY <1>1, <1>4, <2>1, <2>2, <2>3, <2>4, <2>5, <2>6 DEF Effect, Makes
<1>5. \/ Exists("sub", Target) /\ UNCHANGED <<objects, scars>>
      \/ \E copied \in SUBSET {Object("rows", Target)} :
           /\ objects' = objects \cup copied \cup {<<"sub", Target>>, <<"slot", Target>>}
           /\ scars' = (scars \cup RowsOf(Target)) \ objects'
  BY DEF Subscribe
<1>. QED  BY <1>3, <1>4, <1>5

LEMMA SubscribeHalfEffect ==
  ASSUME TypeInv, SubscribeHalf
  PROVE  Effect("sub")
<1>1. AtStep("sub") /\ StepDone /\ ~ Exists("sub", Target)
  BY DEF SubscribeHalf
<1>2. Target \in Targets
  BY <1>1, AtStatement, UnderWay DEF Statement
<1>3. /\ objects' = objects \cup {<<"slot", Target>>}
      /\ scars' = (scars \cup RowsOf(Target) \cup {<<"sub", Target>>}) \ objects'
  BY DEF SubscribeHalf
<1>4. /\ Object("sub", Target) = <<"sub", Target>>
      /\ Target[2] = "main" => RowsOf(Target) = {<<"rows", Target>>}
      /\ RowsOf(Target) \subseteq {<<"rows", Target>>}
  BY <1>2, ObjectFacts DEF RowsOf
<1>5. objects' \subseteq Kinds \X (Targets \cup {Sink})
  BY <1>2, <1>3 DEF Kinds, TypeInv, TypeOK
<1>6. scars' \subseteq {"rows", "sub", "trigger"} \X Targets
  BY <1>2, <1>3, <1>4 DEF TypeInv, TypeOK
<1>7. \A o \in objects' \ objects : o = <<"slot", Target>>
  BY <1>3
<1>8. Target[2] = "main" => <<"rows", Target>> \in objects' \cup scars'
  BY <1>3, <1>4
<1>9. faults' \in 0 .. MaxFaults
  BY BoundsAssumption DEF SubscribeHalf, TypeInv, TypeOK
<1>10. <<"sub", Target>> \in objects' \cup scars'
  BY <1>3
<1>. QED  BY <1>1, <1>3, <1>4, <1>5, <1>6, <1>7, <1>8, <1>9, <1>10 DEF Effect, Makes

LEMMA StatementEffect ==
  ASSUME TypeInv, ShapeInv, Statements
  PROVE  \E kind : Effect(kind)
BY MakeEffect, SaveEffect, CleanupEffect, SubscribeEffect, SubscribeHalfEffect DEF Statements

-----------------------------------------------------------------------------
(* Types.                                                                  *)

LEMMA InitTypes == Init => TypeInv
<1>. SUFFICES ASSUME Init PROVE TypeInv
  OBVIOUS
<1>1. ~ Applying
  BY DEF Init, Applying
<1>2. 0 \in 0 .. MaxStarts /\ 0 \in 0 .. MaxFaults
  BY BoundsAssumption
<1>. QED  BY <1>1, <1>2 DEF Init, TypeInv, TypeOK, PlanOK, Exists

(* Nothing in a plan but what the Planner puts there.                      *)
LEMMA PlanFacts ==
  ASSUME NEW up
  PROVE  /\ Plan(up) \subseteq ActionTypes \X (Targets \cup {Sink})
         /\ \A a \in Plan(up) : a[1] = "StateInit" <=> a[2] = Sink
         /\ \A a \in Plan(up) : a[1] \in {"CacheSetup", "Recovery", "OutboxSetup"} => a[2][2] = "main"
         /\ \A p \in Pipelines, type \in ActionTypes :
              <<type, Main(p)>> \in Plan(up) <=> MainNeeds(type, Main(p), up)
         /\ \A p \in Branched, type \in ActionTypes :
              <<type, Branch(p)>> \in Plan(up) <=> BranchNeeds(type, Branch(p), up)
<1>1. ASSUME NEW a \in Plan(up)
      PROVE  \/ a = <<"StateInit", Sink>>
             \/ \E p \in Pipelines, type \in ActionTypes : a = <<type, Main(p)>> /\ MainNeeds(type, Main(p), up)
             \/ \E p \in Branched, type \in ActionTypes : a = <<type, Branch(p)>> /\ BranchNeeds(type, Branch(p), up)
  BY DEF Plan
<1>2. ASSUME NEW p \in Pipelines, NEW type \in ActionTypes
      PROVE  <<type, Main(p)>> \in Plan(up) <=> MainNeeds(type, Main(p), up)
  <2>1. MainNeeds(type, Main(p), up) => <<type, Main(p)>> \in Plan(up)
    BY DEF Plan
  <2>2. ASSUME <<type, Main(p)>> \in Plan(up) PROVE MainNeeds(type, Main(p), up)
    BY <1>1, <2>2, MainFacts
  <2>. QED  BY <2>1, <2>2
<1>3. ASSUME NEW p \in Branched, NEW type \in ActionTypes
      PROVE  <<type, Branch(p)>> \in Plan(up) <=> BranchNeeds(type, Branch(p), up)
  <2>1. BranchNeeds(type, Branch(p), up) => <<type, Branch(p)>> \in Plan(up)
    BY DEF Plan
  <2>2. ASSUME <<type, Branch(p)>> \in Plan(up) PROVE BranchNeeds(type, Branch(p), up)
    BY <1>1, <2>2, MainFacts, BranchFacts, SetsAssumption
  <2>. QED  BY <2>1, <2>2
<1>. DEFINE Fits(a) == /\ a \in ActionTypes \X (Targets \cup {Sink})
                       /\ a[1] = "StateInit" <=> a[2] = Sink
                       /\ a[1] \in {"CacheSetup", "Recovery", "OutboxSetup"} => a[2][2] = "main"
<1>4. Fits(<<"StateInit", Sink>>)
  BY DEF ActionTypes
<1>5. ASSUME NEW p \in Pipelines, NEW type \in ActionTypes, MainNeeds(type, Main(p), up)
      PROVE  Fits(<<type, Main(p)>>)
  BY <1>5, MainFacts DEF MainNeeds
<1>6. ASSUME NEW p \in Branched, NEW type \in ActionTypes, BranchNeeds(type, Branch(p), up)
      PROVE  Fits(<<type, Branch(p)>>)
  BY <1>6, BranchFacts DEF BranchNeeds
<1>. HIDE DEF Fits
<1>7. \A a \in Plan(up) : Fits(a)
  BY <1>1, <1>4, <1>5, <1>6
<1>. QED  BY <1>2, <1>3, <1>7 DEF Fits

(* The end of an action, one way or another.                               *)
LEMMA NextActionTypes ==
  ASSUME TypeInv, Applying, NextAction
  PROVE  /\ plan' \subseteq plan
         /\ IF plan' = {} THEN action' = NoAction ELSE action' \in plan'
         /\ step' = 1
<1>1. plan' \in SUBSET (ActionTypes \X (Targets \cup {Sink})) /\ plan' \subseteq plan
  BY DEF NextAction, TypeInv, TypeOK
<1>. QED  BY <1>1, FirstFacts DEF NextAction

LEMMA FirstStep ==
  ASSUME NEW a \in ActionTypes \X (Targets \cup {Sink})
  PROVE  1 \in 1 .. Len(Steps(a[1], a[2])) + 1
<1>1. Len(Steps(a[1], a[2])) = Count(a[1], a[2]) /\ Count(a[1], a[2]) \in Nat
  BY StepsCount DEF Count
<1>. QED  BY <1>1

(* What a statement leaves alone, and how it moves on.                     *)
LEMMA StatementTypes ==
  ASSUME TypeInv, NEW kind, Effect(kind)
  PROVE  TypeInv'
<1>1. /\ UNCHANGED <<hasDefault, pc, reached, plan, action, affected, failed, status, starts>>
      /\ step' = step + 1 /\ Applying
  BY AtStatement DEF Effect, StepDone
<1>2. step \in 1 .. Count(Type, Target) /\ Statement(Type, Target, kind, step) /\ Type \in ActionTypes
  BY AtStatement, UnderWay DEF Effect
<1>3. Len(Steps(Type, Target)) = Count(Type, Target) /\ Count(Type, Target) \in Nat
  BY <1>2, StepsCount DEF Count
<1>4. step' \in 1 .. Len(Steps(Type, Target)') + 1
  <2>1. Steps(Type, Target)' = Steps(Type, Target)
    BY <1>1 DEF Type, Target
  <2>. QED  BY <1>1, <1>2, <1>3, <2>1
<1>5. ASSUME NEW p \in Polling, NEW k \in {"publication", "slot", "sub"}
      PROVE  ~ Exists(k, Main(p))'
  <2>1. <<k, Main(p)>> \notin objects
    BY DEF TypeInv, TypeOK, Exists
  <2>2. SUFFICES ASSUME <<k, Main(p)>> \in objects' \ objects PROVE FALSE
    BY <2>1 DEF Exists
  <2>3. Target = Main(p) /\ kind \in {"publication", "slot", "sub"}
    BY <2>2 DEF Effect
  <2>4. Target[1] \in Polling
    BY <2>3, MainFacts, SetsAssumption
  <2>. QED  BY <1>2, <2>3, <2>4 DEF Statement
<1>. QED  BY <1>1, <1>4, <1>5 DEF Effect, TypeInv, TypeOK, PlanOK, Applying

LEMMA MarkedTypes ==
  ASSUME TypeInv, NEW ps, NEW s \in {"Pending", "Syncing", "Ready", "Failed"}
  PROVE  Marked(ps, s) \in [Pipelines -> {"none", "Pending", "Syncing", "Ready", "Failed"}]
BY DEF Marked, TypeInv, TypeOK

LEMMA ScarTypes ==
  ASSUME TypeInv, Applying, NewScars, UNCHANGED objects
  PROVE  scars' \subseteq {"rows", "sub", "trigger"} \X Targets /\ scars' \cap objects = {} /\ scars \subseteq scars'
<1>1. Scars \subseteq {"rows", "sub", "trigger"} \X Targets
  <2>1. Type \in {"Recovery", "VectorizerSetup"} => Target \in Targets
    BY UnderWay
  <2>2. ASSUME NEW o \in Scars PROVE o[1] \in {"rows", "sub", "trigger"} /\ o = <<o[1], Target>> /\ Type \in {"Recovery", "VectorizerSetup"}
    BY DEF Scars
  <2>. QED  BY <2>1, <2>2
<1>. QED  BY <1>1 DEF NewScars, TypeInv, TypeOK

(* An action that ends leaves the rest of the plan as it was.              *)
LEMMA MoveTypes ==
  ASSUME TypeInv, Skip \/ ActionDone \/ StepFails
  PROVE  TypeInv'
<1>1. Applying /\ NextAction /\ UNCHANGED <<objects, hasDefault, pc, reached, affected, starts>>
  BY DEF Skip, ActionDone, StepFails
<1>2. /\ plan' \subseteq plan /\ step' = 1
      /\ IF plan' = {} THEN action' = NoAction ELSE action' \in plan'
  BY <1>1, NextActionTypes
<1>3. Applying' => step' \in 1 .. Len(Steps(Type, Target)') + 1
  <2>1. Applying' => action' \in ActionTypes \X (Targets \cup {Sink})
    BY <1>2 DEF Applying, TypeInv, TypeOK
  <2>. QED  BY <1>2, <2>1, FirstStep DEF Type, Target
<1>4. /\ scars' \subseteq {"rows", "sub", "trigger"} \X Targets /\ scars' \cap objects = {}
      /\ failed' \subseteq affected /\ faults' \in 0 .. MaxFaults
      /\ status' \in [Pipelines -> {"none", "Pending", "Syncing", "Ready", "Failed"}]
  <2>1. CASE Skip \/ ActionDone
    BY <2>1 DEF Skip, ActionDone, TypeInv, TypeOK
  <2>2. CASE StepFails
    <3>1. action \in plan
      BY <1>1, UnderWay
    <3>2. Target \in affected \cup {Sink}
      BY <3>1 DEF Target, TypeInv, TypeOK
    <3>3. failed' \subseteq affected
      BY <2>2, <3>2 DEF StepFails, TypeInv, TypeOK
    <3>4. faults' \in 0 .. MaxFaults
      BY <2>2, BoundsAssumption DEF StepFails, TypeInv, TypeOK
    <3>5. scars' \subseteq {"rows", "sub", "trigger"} \X Targets /\ scars' \cap objects = {}
      BY <1>1, <2>2, ScarTypes DEF StepFails
    <3>6. status' = Marked(MainsOf({Target}), "Failed")
      BY <2>2 DEF StepFails
    <3>. QED  BY <3>3, <3>4, <3>5, <3>6, MarkedTypes
  <2>. QED  BY <2>1, <2>2
<1>5. \A p \in Polling : \A kind \in {"publication", "slot", "sub"} : ~ Exists(kind, Main(p))'
  BY <1>1 DEF TypeInv, TypeOK, Exists
<1>. QED  BY <1>1, <1>2, <1>3, <1>4, <1>5 DEF TypeInv, TypeOK, PlanOK

LEMMA DiscoverTypes ==
  ASSUME TypeInv, NEW up \in SUBSET Pipelines, Discover(up)
  PROVE  TypeInv'
<1>1. /\ UNCHANGED <<objects, hasDefault, scars, starts>> /\ step' = 1 /\ failed' = {}
      /\ reached' = up /\ pc = "discover" /\ plan = {}
  BY DEF Discover, TypeInv, PlanOK
<1>2. faults' \in 0 .. MaxFaults
  BY BoundsAssumption DEF Discover, TypeInv, TypeOK
<1>3. \A p \in Polling : \A kind \in {"publication", "slot", "sub"} : ~ Exists(kind, Main(p))'
  BY <1>1 DEF TypeInv, TypeOK, Exists
<1>4. CASE Raises(up)
  <2>1. UNCHANGED <<plan, action, affected, status>> /\ pc' = "gave_up"
    BY <1>4 DEF Discover
  <2>. QED  BY <1>1, <1>2, <1>3, <2>1 DEF TypeInv, TypeOK, PlanOK, Applying
<1>5. CASE ~ Raises(up)
  <2>1. /\ plan' = Plan(up) /\ action' = First(plan') /\ affected' = {a[2] : a \in plan'} \ {Sink}
        /\ \/ plan' = {} /\ pc' = "idle" /\ status' = Marked(Pipelines, "Ready")
           \/ plan' # {} /\ pc' = "apply" /\ status' = Marked(MainsOf(affected'), "Syncing")
    BY <1>5 DEF Discover
  <2>2. /\ plan' \subseteq ActionTypes \X (Targets \cup {Sink})
        /\ \A a \in plan' : a[1] = "StateInit" <=> a[2] = Sink
        /\ \A a \in plan' : a[1] \in {"CacheSetup", "Recovery", "OutboxSetup"} => a[2][2] = "main"
    BY <2>1, PlanFacts
  <2>3. affected' \subseteq Targets /\ plan' \subseteq ActionTypes \X (affected' \cup {Sink})
    BY <2>1, <2>2
  <2>4. IF plan' = {} THEN action' = NoAction ELSE action' \in plan'
    BY <2>1, <2>2, FirstFacts
  <2>5. Applying' => step' \in 1 .. Len(Steps(Type, Target)') + 1
    <3>1. Applying' => action' \in ActionTypes \X (Targets \cup {Sink})
      BY <2>2, <2>4 DEF Applying
    <3>. QED  BY <1>1, <3>1, FirstStep DEF Type, Target
  <2>6. status' \in [Pipelines -> {"none", "Pending", "Syncing", "Ready", "Failed"}]
    BY <2>1, MarkedTypes
  <2>. QED  BY <1>1, <1>2, <1>3, <2>1, <2>2, <2>3, <2>4, <2>5, <2>6 DEF TypeInv, TypeOK, PlanOK
<1>. QED  BY <1>4, <1>5

(* Whatever a teardown leaves of a vectorizer, it leaves the store.        *)
LEMMA LeftoverFacts ==
  ASSUME NEW kinds \in Leftovers
  PROVE  /\ kinds \subseteq Torn
         /\ "view" \in kinds \/ "trigger" \in kinds => "store" \in kinds
<1>1. PICK a \in SinkLeft, b \in {{}, {"slot"}} : kinds = a \cup b
  BY DEF Leftovers
<1>2. a \subseteq Torn /\ ("view" \in a \/ "trigger" \in a => "store" \in a)
  BY DEF SinkLeft, Torn
<1>3. b \subseteq Torn /\ "view" \notin b /\ "trigger" \notin b
  BY DEF Torn
<1>. QED  BY <1>1, <1>2, <1>3

(* What a teardown leaves: the branches, raw tables and state rows, and of *)
(* the pipelines what it fails to drop.                                    *)
LEMMA StopEffect ==
  ASSUME Stop
  PROVE  /\ \A t, kind : kind \notin Torn => (Exists(kind, t)' <=> Exists(kind, t))
         /\ \A q, kind : Exists(kind, Branch(q))' <=> Exists(kind, Branch(q))
         /\ \A t, kind : kind # "husk" /\ Exists(kind, t)' => Exists(kind, t)
         /\ \A p \in Pipelines : \A kind \in {"view", "trigger"} :
              Exists(kind, Main(p))' /\ Exists("store", Main(p)) => Exists("store", Main(p))'
         /\ \A o \in objects' : o \in objects \/ \E p \in Pipelines : o = <<"husk", Main(p)>>
         /\ pc' = "down" /\ pc = "idle" /\ UNCHANGED <<hasDefault, planVars, status, starts>>
<1>1. PICK left \in [Pipelines -> Leftovers] :
        objects' = (objects \ {<<kind, Main(p)>> : p \in Pipelines, kind \in Torn})
                     \cup UNION {Left(p, left[p]) : p \in Pipelines}
  BY DEF Stop
<1>2. ASSUME NEW o
      PROVE  o \in objects' <=>
               \/ o \in objects /\ ~ \E p \in Pipelines, kind \in Torn : o = <<kind, Main(p)>>
               \/ \E p \in Pipelines : o \in Left(p, left[p])
  BY <1>1
<1>3. ASSUME NEW p \in Pipelines, NEW o \in Left(p, left[p])
      PROVE  \/ o \in objects /\ o[2] = Main(p) /\ o[1] \in left[p]
             \/ o = <<"husk", Main(p)>>
  BY DEF Left
<1>4. ASSUME NEW p \in Pipelines, NEW o \in objects, o[2] = Main(p), o[1] \in left[p]
      PROVE  o \in objects'
  <2>1. o \in Left(p, left[p])
    BY <1>4 DEF Left
  <2>. QED  BY <1>1, <2>1
<1>5. \A p \in Pipelines : left[p] \in Leftovers
  OBVIOUS
<1>6. \A o \in objects' : o \in objects \/ \E p \in Pipelines : o = <<"husk", Main(p)>>
  BY <1>2, <1>3
<1>7. ASSUME NEW t, NEW kind, kind \notin Torn PROVE Exists(kind, t)' <=> Exists(kind, t)
  <2>1. Exists(kind, t)' => Exists(kind, t)
    BY <1>6, <1>7 DEF Exists, Torn
  <2>2. Exists(kind, t) => Exists(kind, t)'
    BY <1>2, <1>7 DEF Exists
  <2>. QED  BY <2>1, <2>2
<1>8. ASSUME NEW q, NEW kind PROVE Exists(kind, Branch(q))' <=> Exists(kind, Branch(q))
  <2>1. \A p \in Pipelines : Main(p) # Branch(q)
    BY MainFacts
  <2>2. Exists(kind, Branch(q))' => Exists(kind, Branch(q))
    BY <1>6, <2>1 DEF Exists
  <2>3. Exists(kind, Branch(q)) => Exists(kind, Branch(q))'
    BY <1>2, <2>1 DEF Exists
  <2>. QED  BY <2>2, <2>3
<1>9. ASSUME NEW p \in Pipelines, NEW kind \in {"view", "trigger"}, Exists(kind, Main(p))',
             Exists("store", Main(p))
      PROVE  Exists("store", Main(p))'
  <2>1. <<kind, Main(p)>> \in objects'
    BY <1>9 DEF Exists
  <2>2. kind \in Torn
    BY DEF Torn
  <2>3. PICK q \in Pipelines : <<kind, Main(p)>> \in Left(q, left[q])
    BY <1>2, <2>1, <2>2
  <2>4. Main(p) = Main(q) /\ kind \in left[q]
    BY <1>3, <2>3
  <2>5. "store" \in left[p]
    BY <1>5, <2>4, MainFacts, LeftoverFacts
  <2>. QED  BY <1>4, <1>9, <2>5 DEF Exists
<1>10. pc' = "down" /\ pc = "idle" /\ UNCHANGED <<hasDefault, planVars, status, starts>>
  BY DEF Stop
<1>. QED  BY <1>6, <1>7, <1>8, <1>9, <1>10 DEF Exists

LEMMA OtherTypes ==
  ASSUME TypeInv, Start \/ Finish \/ Crash \/ Stop \/ UNCHANGED vars
  PROVE  TypeInv'
<1>1. CASE Start
  <2>1. starts' \in 0 .. MaxStarts
    BY <1>1, BoundsAssumption DEF Start, TypeInv, TypeOK
  <2>. QED  BY <1>1, <2>1 DEF Start, planVars, TypeInv, TypeOK, PlanOK, Applying, Exists
<1>2. CASE Finish
  BY <1>2, MarkedTypes DEF Finish, planVars, TypeInv, TypeOK, PlanOK, Applying, Exists
<1>3. CASE Crash
  <2>1. faults' \in 0 .. MaxFaults
    BY <1>3, BoundsAssumption DEF Crash, TypeInv, TypeOK
  <2>2. scars' \subseteq {"rows", "sub", "trigger"} \X Targets /\ scars' \cap objects = {}
    <3>1. CASE Applying /\ Target \notin failed
      BY <1>3, <3>1, ScarTypes DEF Crash
    <3>2. CASE ~ (Applying /\ Target \notin failed)
      BY <1>3, <3>2 DEF Crash, TypeInv, TypeOK
    <3>. QED  BY <3>1, <3>2
  <2>3. /\ plan' = {} /\ action' = NoAction /\ step' = 1 /\ affected' = {} /\ failed' = {} /\ pc' = "crashed"
        /\ UNCHANGED <<objects, hasDefault, reached, status, starts>>
    BY <1>3 DEF Crash
  <2>. QED  BY <2>1, <2>2, <2>3 DEF TypeInv, TypeOK, PlanOK, Applying, Exists
<1>4. CASE Stop
  <2>1. /\ pc' = "down" /\ UNCHANGED <<hasDefault, planVars, status, starts>>
        /\ \A o \in objects' : o \in objects \/ \E p \in Pipelines : o = <<"husk", Main(p)>>
    BY <1>4, StopEffect
  <2>2. faults' \in 0 .. MaxFaults
    BY <1>4, BoundsAssumption DEF Stop, TypeInv, TypeOK
  <2>3. objects' \subseteq Kinds \X (Targets \cup {Sink})
    BY <2>1, MainFacts DEF Kinds, TypeInv, TypeOK
  <2>4. \A p \in Polling : \A kind \in {"publication", "slot", "sub"} : ~Exists(kind, Main(p))'
    BY <2>1 DEF Exists, TypeInv, TypeOK
  <2>5. \A o \in scars' : o \notin objects' /\ (o \in scars \/ \E p \in Pipelines : o = <<"sub", Main(p)>>)
    <3>1. ASSUME NEW o \in scars', o \in scars PROVE o \notin objects'
      <4>1. o \notin objects /\ o[1] # "husk"
        BY <3>1 DEF TypeInv, TypeOK
      <4>. QED  BY <2>1, <4>1
    <3>2. ASSUME NEW o \in scars', o \notin scars
          PROVE  o \notin objects' /\ \E p \in Pipelines : o = <<"sub", Main(p)>>
      BY <1>4, <3>2 DEF Stop
    <3>. QED  BY <3>1, <3>2
  <2>6. scars' \subseteq {"rows", "sub", "trigger"} \X Targets /\ scars' \cap objects' = {}
    BY <2>5, MainFacts DEF TypeInv, TypeOK
  <2>. QED
    BY <1>4, <2>1, <2>2, <2>3, <2>4, <2>6 DEF Stop, planVars, TypeInv, TypeOK, PlanOK, Applying
<1>5. CASE UNCHANGED vars
  BY <1>5 DEF vars, planVars, TypeInv, TypeOK, PlanOK, Applying, Exists, Type, Target
<1>. QED  BY <1>1, <1>2, <1>3, <1>4, <1>5

(* The disjuncts of Next as the proofs go through them.                    *)
LEMMA Moves ==
  ASSUME [Next]_vars
  PROVE  \/ Statements
         \/ Skip \/ ActionDone \/ StepFails
         \/ \E up \in SUBSET Pipelines : Discover(up)
         \/ Start \/ Finish \/ Crash \/ Stop \/ UNCHANGED vars
BY DEF Next, Reconcile, Apply, Statements

LEMMA TypeStep == TypeInv /\ ShapeInv /\ [Next]_vars => TypeInv'
<1>. SUFFICES ASSUME TypeInv, ShapeInv, [Next]_vars PROVE TypeInv'
  OBVIOUS
<1>1. CASE Statements
  BY <1>1, StatementEffect, StatementTypes
<1>2. CASE Skip \/ ActionDone \/ StepFails
  BY <1>2, MoveTypes
<1>3. CASE \E up \in SUBSET Pipelines : Discover(up)
  BY <1>3, DiscoverTypes
<1>4. CASE Start \/ Finish \/ Crash \/ Stop \/ UNCHANGED vars
  BY <1>4, OtherTypes
<1>. QED  BY <1>1, <1>2, <1>3, <1>4, Moves

-----------------------------------------------------------------------------
(* The store and what comes with it.                                       *)

LEMMA InitShape == Init => ShapeInv
BY DEF Init, ShapeInv, PlannedOnce, StoreShape, CursorShape, Exists, Beyond

LEMMA StatementShape ==
  ASSUME TypeInv, ShapeInv, NEW kind, Effect(kind)
  PROVE  ShapeInv'
<1>1. /\ UNCHANGED <<pc, plan, action, failed>> /\ step' = step + 1 /\ step \in Nat
      /\ pc = "apply" /\ action = <<Type, Target>> /\ Target \notin failed
      /\ action \in plan /\ objects \subseteq objects'
  BY AtStatement, UnderWay DEF Effect, StepDone
<1>2. Statement(Type, Target, kind, step)
  BY AtStatement DEF Effect
<1>3. ASSUME NEW type, NEW t, NEW n \in Nat
      PROVE  /\ Beyond(type, t, n) => Beyond(type, t, n)'
             /\ Beyond(type, t, n)' => Beyond(type, t, n) \/ (type = Type /\ t = Target /\ step = n)
             /\ type = Type /\ t = Target /\ step > n => Beyond(type, t, n)
             /\ type = Type /\ t = Target /\ step = n => Beyond(type, t, n)'
  BY <1>1 DEF Beyond
<1>4. ASSUME NEW t, NEW k, Exists(k, t) PROVE Exists(k, t)'
  BY <1>1, <1>4 DEF Exists
<1>5. ASSUME NEW t, NEW k \in {"view", "trigger", "store", "cursor"}, Exists(k, t)', ~ Exists(k, t)
      PROVE  k = kind /\ t = Target
  BY <1>5 DEF Exists, Effect
<1>6. ASSUME NEW t \in Targets PROVE
        /\ Beyond("VectorizerSetup", t, 3)' => Exists("row", t)'
        /\ Beyond("VectorizerSetup", t, 4)' => Exists("table", Main(t[1]))'
        /\ Beyond("VectorizerSetup", t, 5)' => Exists("store", t)'
  <2>1. Type = "VectorizerSetup" /\ t = Target =>
          /\ step = 3 => kind = "row"
          /\ step = 4 => kind = "table"
          /\ step = 5 => kind = "store"
    BY <1>2 DEF Statement
  <2>2. t = Target /\ kind \in {"row", "table", "store"} => Object(kind, t) \in objects'
    BY DEF Effect, Makes
  <2>3. /\ Object("row", t) = <<"row", t>> /\ Object("store", t) = <<"store", t>>
        /\ Object("table", t) = <<"table", Main(t[1])>>
    BY ObjectFacts
  <2>4. Beyond("VectorizerSetup", t, 3) => Exists("row", t)
    BY DEF ShapeInv, StoreShape
  <2>5. Beyond("VectorizerSetup", t, 4) => Exists("table", Main(t[1]))
    BY DEF ShapeInv, StoreShape
  <2>6. Beyond("VectorizerSetup", t, 5) => Exists("store", t)
    BY DEF ShapeInv, StoreShape
  <2>7. Beyond("VectorizerSetup", t, 3)' => Exists("row", t)'
    BY <1>3, <1>4, <2>1, <2>2, <2>3, <2>4 DEF Exists
  <2>8. Beyond("VectorizerSetup", t, 4)' => Exists("table", Main(t[1]))'
    BY <1>3, <1>4, <2>1, <2>2, <2>3, <2>5 DEF Exists
  <2>9. Beyond("VectorizerSetup", t, 5)' => Exists("store", t)'
    BY <1>3, <1>4, <2>1, <2>2, <2>3, <2>6 DEF Exists
  <2>. QED  BY <2>7, <2>8, <2>9
<1>7. PlannedOnce'
  <2>. SUFFICES ASSUME NEW t \in Targets
                PROVE  /\ <<"OutboxSetup", t>> \in plan => Exists("store", t)' /\ <<"VectorizerSetup", t>> \notin plan
                       /\ <<"VectorizerSetup", t>> \in plan /\ t \notin failed =>
                            ~ Exists("store", t)' \/ Beyond("VectorizerSetup", t, 5)'
    BY <1>1 DEF PlannedOnce
  <2>1. <<"OutboxSetup", t>> \in plan => Exists("store", t)' /\ <<"VectorizerSetup", t>> \notin plan
    BY <1>4 DEF ShapeInv, PlannedOnce
  <2>2. ASSUME <<"VectorizerSetup", t>> \in plan, t \notin failed, Exists("store", t)'
        PROVE  Beyond("VectorizerSetup", t, 5)'
    <3>1. CASE Exists("store", t)
      BY <1>3, <2>2, <3>1 DEF ShapeInv, PlannedOnce
    <3>2. CASE ~ Exists("store", t)
      <4>1. kind = "store" /\ t = Target
        BY <1>5, <2>2, <3>2
      <4>2. Type = "VectorizerSetup" /\ step = 5
        BY <1>2, <4>1 DEF Statement
      <4>. QED  BY <1>3, <4>1, <4>2
    <3>. QED  BY <3>1, <3>2
  <2>. QED  BY <2>1, <2>2
<1>8. StoreShape'
  <2>. SUFFICES ASSUME NEW t \in Targets
                PROVE  /\ Exists("view", t)' \/ Exists("trigger", t)' => Exists("store", t)'
                       /\ Exists("store", t)' => Exists("row", t)' /\ Exists("table", Main(t[1]))'
    BY <1>6 DEF StoreShape
  <2>1. ASSUME Exists("view", t)', ~ Exists("view", t) PROVE Exists("store", t)
    BY <1>5, <2>1 DEF Effect
  <2>2. ASSUME Exists("trigger", t)', ~ Exists("trigger", t) PROVE Exists("store", t)
    <3>1. kind = "trigger" /\ t = Target
      BY <1>5, <2>2
    <3>2. (Type = "VectorizerSetup" /\ step > 5) \/ Type = "OutboxSetup"
      BY <1>2, <3>1 DEF Statement
    <3>3. CASE Type = "VectorizerSetup" /\ step > 5
      <4>1. Beyond("VectorizerSetup", t, 5)
        BY <1>3, <3>1, <3>3
      <4>. QED  BY <4>1 DEF ShapeInv, StoreShape
    <3>4. CASE Type = "OutboxSetup"
      <4>1. <<"OutboxSetup", t>> \in plan
        BY <1>1, <3>1, <3>4
      <4>. QED  BY <4>1 DEF ShapeInv, PlannedOnce
    <3>. QED  BY <3>2, <3>3, <3>4
  <2>3. ASSUME Exists("store", t)', ~ Exists("store", t) PROVE Exists("row", t) /\ Exists("table", Main(t[1]))
    <3>1. kind = "store" /\ t = Target
      BY <1>5, <2>3
    <3>2. Type = "VectorizerSetup" /\ step = 5
      BY <1>2, <3>1 DEF Statement
    <3>3. Beyond("VectorizerSetup", t, 3) /\ Beyond("VectorizerSetup", t, 4)
      BY <1>3, <3>1, <3>2
    <3>. QED  BY <3>3 DEF ShapeInv, StoreShape
  <2>4. (Exists("view", t) \/ Exists("trigger", t) => Exists("store", t))
        /\ (Exists("store", t) => Exists("row", t) /\ Exists("table", Main(t[1])))
    BY DEF ShapeInv, StoreShape
  <2>. QED  BY <1>4, <2>1, <2>2, <2>3, <2>4
<1>9. CursorShape'
  <2>. SUFFICES ASSUME NEW p \in Polling
                PROVE  /\ Exists("cursor", Main(p))' => Exists("rows", Main(p))'
                       /\ Beyond("Recovery", Main(p), 2)' => Exists("rows", Main(p))'
    BY DEF CursorShape
  <2>1. Main(p)[1] = p /\ Main(p) \in Targets /\ Main(p)[2] = "main"
    BY MainFacts, SetsAssumption
  <2>2. (Exists("cursor", Main(p)) => Exists("rows", Main(p)))
        /\ (Beyond("Recovery", Main(p), 2) => Exists("rows", Main(p)))
    BY DEF ShapeInv, CursorShape
  <2>3. ASSUME Exists("cursor", Main(p))', ~ Exists("cursor", Main(p)) PROVE Exists("rows", Main(p))
    <3>1. kind = "cursor" /\ Main(p) = Target
      BY <1>5, <2>3
    <3>2. Type = "Recovery" /\ step = 3
      BY <1>2, <3>1 DEF Statement
    <3>3. Beyond("Recovery", Main(p), 2)
      BY <1>3, <3>1, <3>2
    <3>. QED  BY <2>2, <3>3
  <2>4. ASSUME Type = "Recovery", Main(p) = Target, step = 2 PROVE Exists("rows", Main(p))'
    <3>1. kind = "rows"
      BY <1>2, <2>1, <2>4 DEF Statement
    <3>2. Object("rows", Main(p)) \in objects' /\ Object("rows", Main(p)) = <<"rows", Main(p)>>
      BY <2>1, <2>4, <3>1, ObjectFacts DEF Effect, Makes
    <3>. QED  BY <3>2 DEF Exists
  <2>. QED  BY <1>3, <1>4, <2>2, <2>3, <2>4
<1>. QED  BY <1>7, <1>8, <1>9 DEF ShapeInv

(* At the first statement of an action, nothing is half done.              *)
LEMMA NothingBegun ==
  ASSUME NEW type, NEW t, NEW n \in Nat \ {0}, step' = 1 \/ pc' # "apply"
  PROVE  ~ Beyond(type, t, n)'
BY DEF Beyond

LEMMA MoveShape ==
  ASSUME TypeInv, ShapeInv, Skip \/ ActionDone \/ StepFails
  PROVE  ShapeInv'
<1>1. UNCHANGED objects /\ Applying /\ plan' = plan \ {action} /\ step' = 1 /\ failed \subseteq failed'
  BY DEF Skip, ActionDone, StepFails, NextAction
<1>2. \A t, k : Exists(k, t)' <=> Exists(k, t)
  BY <1>1 DEF Exists
<1>3. \A type, t : \A n \in Nat \ {0} : ~ Beyond(type, t, n)'
  BY <1>1, NothingBegun
<1>4. PlannedOnce'
  <2>. SUFFICES ASSUME NEW t \in Targets
                PROVE  /\ <<"OutboxSetup", t>> \in plan' => Exists("store", t) /\ <<"VectorizerSetup", t>> \notin plan'
                       /\ <<"VectorizerSetup", t>> \in plan' /\ t \notin failed' => ~ Exists("store", t)
    BY <1>2 DEF PlannedOnce
  <2>1. <<"VectorizerSetup", t>> \in plan' => ~ Beyond("VectorizerSetup", t, 5)
    BY <1>1 DEF Beyond
  <2>. QED  BY <1>1, <2>1 DEF ShapeInv, PlannedOnce
<1>5. StoreShape' /\ CursorShape'
  BY <1>2, <1>3 DEF ShapeInv, StoreShape, CursorShape
<1>. QED  BY <1>4, <1>5 DEF ShapeInv

LEMMA DiscoverShape ==
  ASSUME TypeInv, ShapeInv, NEW up \in SUBSET Pipelines, Discover(up)
  PROVE  ShapeInv'
<1>1. UNCHANGED objects /\ step' = 1 /\ (plan' = Plan(up) \/ plan' = {})
  BY DEF Discover, TypeInv, PlanOK
<1>2. \A t, k : Exists(k, t)' <=> Exists(k, t)
  BY <1>1 DEF Exists
<1>3. \A type, t : \A n \in Nat \ {0} : ~ Beyond(type, t, n)'
  BY <1>1, NothingBegun
<1>4. PlannedOnce'
  <2>. SUFFICES ASSUME NEW t \in Targets
                PROVE  /\ <<"OutboxSetup", t>> \in Plan(up) => Exists("store", t) /\ <<"VectorizerSetup", t>> \notin Plan(up)
                       /\ <<"VectorizerSetup", t>> \in Plan(up) => ~ Exists("store", t)
    BY <1>1, <1>2 DEF PlannedOnce
  <2>1. {"OutboxSetup", "VectorizerSetup"} \subseteq ActionTypes
    BY DEF ActionTypes
  <2>2. CASE t[2] = "main"
    <3>1. t = Main(t[1]) /\ t[1] \in Pipelines
      BY <2>2, TargetFacts
    <3>2. \A type \in ActionTypes : <<type, t>> \in Plan(up) <=> MainNeeds(type, t, up)
      BY <3>1, PlanFacts
    <3>. QED  BY <2>1, <3>2 DEF MainNeeds
  <2>3. CASE t[2] = "branch"
    <3>1. t = Branch(t[1]) /\ t[1] \in Branched
      BY <2>3, TargetFacts
    <3>2. \A type \in ActionTypes : <<type, t>> \in Plan(up) <=> BranchNeeds(type, t, up)
      BY <3>1, PlanFacts
    <3>. QED  BY <2>1, <3>2 DEF BranchNeeds
  <2>. QED  BY <2>2, <2>3, TargetFacts
<1>5. StoreShape' /\ CursorShape'
  BY <1>2, <1>3 DEF ShapeInv, StoreShape, CursorShape
<1>. QED  BY <1>4, <1>5 DEF ShapeInv

LEMMA OtherShape ==
  ASSUME TypeInv, ShapeInv, Start \/ Finish \/ Crash \/ Stop
  PROVE  ShapeInv'
<1>1. pc' # "apply" /\ plan' = {}
  BY DEF Start, Finish, Crash, Stop, planVars, TypeInv, PlanOK
<1>2. \A type, t : \A n \in Nat \ {0} : ~ Beyond(type, t, n)'
  BY <1>1, NothingBegun
<1>3. PlannedOnce'
  BY <1>1 DEF PlannedOnce
<1>4. CASE Start \/ Finish \/ Crash
  <2>1. \A t, k : Exists(k, t)' <=> Exists(k, t)
    BY <1>4 DEF Start, Finish, Crash, Exists
  <2>. QED  BY <1>2, <1>3, <2>1 DEF ShapeInv, StoreShape, CursorShape
<1>5. CASE Stop
  <2>1. ASSUME NEW t \in Targets
        PROVE  /\ Exists("view", t)' \/ Exists("trigger", t)' => Exists("store", t)'
               /\ Exists("store", t)' => Exists("row", t)' /\ Exists("table", Main(t[1]))'
    <3>1. CASE t[2] = "main"
      <4>1. t = Main(t[1]) /\ t[1] \in Pipelines
        BY <3>1, TargetFacts
      <4>2. \A k : k # "husk" /\ Exists(k, t)' => Exists(k, t)
        BY <1>5, StopEffect
      <4>3. \A k \in {"row", "table"} : Exists(k, t)' <=> Exists(k, t)
        BY <1>5, StopEffect DEF Torn
      <4>4. /\ Exists("view", t)' \/ Exists("trigger", t)'
            /\ Exists("store", t)
            => Exists("store", t)'
        BY <1>5, <4>1, StopEffect
      <4>5. /\ Exists("view", t) \/ Exists("trigger", t) => Exists("store", t)
            /\ Exists("store", t) => Exists("row", t) /\ Exists("table", Main(t[1]))
        BY DEF ShapeInv, StoreShape
      <4>. QED  BY <4>1, <4>2, <4>3, <4>4, <4>5
    <3>2. CASE t[2] = "branch"
      <4>1. t = Branch(t[1])
        BY <3>2, TargetFacts
      <4>2. \A k : Exists(k, t)' <=> Exists(k, t)
        BY <1>5, <4>1, StopEffect
      <4>3. Exists("table", Main(t[1]))' <=> Exists("table", Main(t[1]))
        BY <1>5, StopEffect DEF Torn
      <4>. QED  BY <4>2, <4>3 DEF ShapeInv, StoreShape
    <3>. QED  BY <3>1, <3>2, TargetFacts
  <2>2. ASSUME NEW p \in Polling PROVE Exists("cursor", Main(p))' => Exists("rows", Main(p))'
    BY <1>5, StopEffect DEF Torn, ShapeInv, CursorShape
  <2>. QED  BY <1>2, <1>3, <2>1, <2>2 DEF ShapeInv, StoreShape, CursorShape
<1>. QED  BY <1>4, <1>5

LEMMA ShapeStep == TypeInv /\ ShapeInv /\ [Next]_vars => ShapeInv'
<1>. SUFFICES ASSUME TypeInv, ShapeInv, [Next]_vars PROVE ShapeInv'
  OBVIOUS
<1>1. CASE Statements
  BY <1>1, StatementEffect, StatementShape
<1>2. CASE Skip \/ ActionDone \/ StepFails
  BY <1>2, MoveShape
<1>3. CASE \E up \in SUBSET Pipelines : Discover(up)
  BY <1>3, DiscoverShape
<1>4. CASE Start \/ Finish \/ Crash \/ Stop
  BY <1>4, OtherShape
<1>5. CASE UNCHANGED vars
  BY <1>5 DEF vars, planVars, ShapeInv, PlannedOnce, StoreShape, CursorShape, Exists, Beyond
<1>. QED  BY <1>1, <1>2, <1>3, <1>4, <1>5, Moves

(* Every variable keeps its type, and of a pipeline without slots nothing  *)
(* is ever made that belongs to one (Applier.apply).                       *)
THEOREM TypeCorrect == Spec => []TypeOK
<1>. DEFINE Inv == TypeInv /\ ShapeInv
<1>1. Init => Inv
  BY InitTypes, InitShape
<1>2. Inv /\ [Next]_vars => Inv'
  BY TypeStep, ShapeStep
<1>3. Inv => TypeOK
  BY DEF TypeInv
<1>. QED  BY <1>1, <1>2, <1>3, PTL DEF Spec

(* A reconciliation only builds: whatever failed, crashed or was torn down *)
(* before, nothing that exists is removed while a plan is applied          *)
(* (Planner.plan, cleanup_vectorizer_infrastructure).                      *)
THEOREM OnlyBuildsHolds == Spec => OnlyBuilds
<1>. DEFINE Inv == TypeInv /\ ShapeInv
<1>1. Init => Inv
  BY InitTypes, InitShape
<1>2. Inv /\ [Next]_vars => Inv'
  BY TypeStep, ShapeStep
<1>3. Inv /\ [Next]_vars => [pc = "apply" => objects \subseteq objects']_vars
  <2>. SUFFICES ASSUME TypeInv, ShapeInv, [Next]_vars, pc = "apply" PROVE objects \subseteq objects'
    OBVIOUS
  <2>1. CASE Statements
    BY <2>1, StatementEffect DEF Effect
  <2>2. CASE Skip \/ ActionDone \/ StepFails \/ Start \/ Finish \/ Crash \/ UNCHANGED vars
    BY <2>2 DEF Skip, ActionDone, StepFails, Start, Finish, Crash, vars
  <2>3. ~ (\E up \in SUBSET Pipelines : Discover(up)) /\ ~ Stop
    BY DEF Discover, Stop
  <2>. QED  BY <2>1, <2>2, <2>3, Moves
<1>. QED  BY <1>1, <1>2, <1>3, PTL DEF Spec, OnlyBuilds

-----------------------------------------------------------------------------
(* The objects no plan looks for.                                          *)

(* ScarInv between two actions: no action will make what is missing.       *)
Settled ==
  /\ \A t \in Targets : t[1] \notin Polling /\ Exists("store", t) => Has("sub", t)
  /\ \A p \in Branched : Exists("store", Branch(p)) => Has("trigger", Branch(p))
  /\ \A p \in Pipelines \ Polling : Exists("slot", Main(p)) => Has("rows", Main(p))

LEMMA SettledScars == Settled => ScarInv
BY DEF Settled, ScarInv

LEMMA InitScars == Init => Settled
BY DEF Init, Settled, Exists

LEMMA StatementScars ==
  ASSUME TypeInv, ScarInv, NEW kind, Effect(kind)
  PROVE  ScarInv'
<1>1. /\ UNCHANGED <<pc, plan, action, failed>> /\ step' = step + 1 /\ step \in Nat
      /\ pc = "apply" /\ action = <<Type, Target>> /\ Target \notin failed
      /\ Target \in Targets \cup {Sink}
  BY AtStatement, UnderWay DEF Effect, StepDone
<1>2. Statement(Type, Target, kind, step)
  BY AtStatement DEF Effect
<1>3. ASSUME NEW type, NEW t, NEW n \in Nat
      PROVE  /\ UpTo(type, t, n) => UpTo(type, t, n)' \/ (type = Type /\ t = Target /\ step = n)
             /\ type = Type /\ t = Target /\ step < n => UpTo(type, t, n)'
  BY <1>1 DEF UpTo
<1>4. ASSUME NEW t, NEW k, Has(k, t) PROVE Has(k, t)'
  BY <1>4 DEF Has, Effect
<1>5. ASSUME NEW t, Exists("store", t)', ~ Exists("store", t)
      PROVE  t = Target /\ Type = "VectorizerSetup" /\ step = 5
  <2>1. kind = "store" /\ t = Target
    BY <1>5 DEF Exists, Effect
  <2>. QED  BY <1>2, <2>1 DEF Statement
<1>6. ASSUME NEW t, t = Target, kind \in {"sub", "trigger", "rows"}
      PROVE  Has(kind, t)'
  BY <1>6 DEF Has, Effect, Makes
<1>7. ASSUME NEW t \in Targets, t[1] \notin Polling, Exists("store", t)'
      PROVE  Has("sub", t)' \/ UpTo("VectorizerSetup", t, 6)'
  <2>1. CASE ~ Exists("store", t)
    BY <1>3, <1>5, <1>7, <2>1
  <2>2. CASE Exists("store", t)
    <3>1. Has("sub", t) \/ UpTo("VectorizerSetup", t, 6)
      BY <1>7, <2>2 DEF ScarInv
    <3>2. t = Target /\ Type = "VectorizerSetup" /\ step = 6 => kind = "sub"
      BY <1>2, <1>7 DEF Statement
    <3>. QED  BY <1>3, <1>4, <1>6, <3>1, <3>2
  <2>. QED  BY <2>1, <2>2
<1>8. ASSUME NEW p \in Branched, Exists("store", Branch(p))'
      PROVE  \/ Has("trigger", Branch(p))'
             \/ UpTo("VectorizerSetup", Branch(p), IF p \in Polling THEN 6 ELSE 7)'
  <2>. DEFINE n == IF p \in Polling THEN 6 ELSE 7
  <2>1. Branch(p)[1] = p
    BY BranchFacts
  <2>2. CASE ~ Exists("store", Branch(p))
    BY <1>3, <1>5, <1>8, <2>2
  <2>3. CASE Exists("store", Branch(p))
    <3>1. Has("trigger", Branch(p)) \/ UpTo("VectorizerSetup", Branch(p), n)
      BY <2>3 DEF ScarInv
    <3>2. Branch(p) = Target /\ Type = "VectorizerSetup" /\ step = n => kind = "trigger"
      BY <1>2, <2>1 DEF Statement
    <3>. QED  BY <1>3, <1>4, <1>6, <3>1, <3>2
  <2>. QED  BY <2>2, <2>3
<1>9. ASSUME NEW p \in Pipelines \ Polling, Exists("slot", Main(p))'
      PROVE  Has("rows", Main(p))' \/ UpTo("Recovery", Main(p), 3)'
  <2>1. Main(p)[1] = p /\ Main(p)[2] = "main" /\ Main(p) \in Targets
    BY MainFacts
  <2>2. CASE ~ Exists("slot", Main(p))
    <3>1. /\ Main(p) = Target /\ kind \in {"slot", "sub"}
          /\ kind = "sub" => <<"rows", Main(p)>> \in objects' \cup scars'
      BY <1>9, <2>1, <2>2 DEF Exists, Effect
    <3>2. kind = "slot" => Type = "Recovery" /\ step = 1
      BY <1>2 DEF Statement
    <3>3. Object("rows", Main(p)) = <<"rows", Main(p)>>
      BY <2>1, ObjectFacts
    <3>. QED  BY <1>3, <3>1, <3>2, <3>3 DEF Has
  <2>3. CASE Exists("slot", Main(p))
    <3>1. Has("rows", Main(p)) \/ UpTo("Recovery", Main(p), 3)
      BY <2>3 DEF ScarInv
    <3>2. Main(p) = Target /\ Type = "Recovery" /\ step = 3 => kind = "rows"
      BY <1>2, <2>1 DEF Statement
    <3>. QED  BY <1>3, <1>4, <1>6, <3>1, <3>2
  <2>. QED  BY <2>2, <2>3
<1>. QED  BY <1>7, <1>8, <1>9 DEF ScarInv

(* Of an action that is over, or skipped, nothing is to come.              *)
LEMMA SettledNow ==
  ASSUME TypeInv, ScarInv, pc # "apply" \/ plan = {} \/ Target \in failed \/ Finished
  PROVE  Settled
<1>1. ASSUME NEW t \in Targets, NEW type \in {"VectorizerSetup", "Recovery"}, NEW n \in Nat, n <= Count(type, t)
      PROVE  ~ UpTo(type, t, n)
  <2>. SUFFICES ASSUME UpTo(type, t, n) PROVE FALSE
    OBVIOUS
  <2>1. pc = "apply" /\ Type = type /\ Target = t /\ t \notin failed /\ step <= n
    BY DEF UpTo, Type, Target
  <2>2. plan # {}
    BY <2>1, TargetFacts DEF Target, NoAction, TypeInv, TypeOK
  <2>3. step = Count(type, t) + 1
    BY <2>1, <2>2, UnderWay DEF Applying
  <2>4. Count(type, t) \in Nat
    BY DEF Count
  <2>. QED  BY <1>1, <2>1, <2>3, <2>4
<1>2. ASSUME NEW t \in Targets
      PROVE  /\ t[1] \notin Polling => 6 <= Count("VectorizerSetup", t) /\ 7 <= Count("VectorizerSetup", t)
             /\ 6 <= Count("VectorizerSetup", t) /\ 3 <= Count("Recovery", t)
  BY DEF Count
<1>3. ASSUME NEW t \in Targets, t[1] \notin Polling, Exists("store", t) PROVE Has("sub", t)
  BY <1>1, <1>2, <1>3 DEF ScarInv
<1>4. ASSUME NEW p \in Branched, Exists("store", Branch(p)) PROVE Has("trigger", Branch(p))
  <2>1. Branch(p) \in Targets /\ Branch(p)[1] = p
    BY BranchFacts
  <2>2. ~ UpTo("VectorizerSetup", Branch(p), IF p \in Polling THEN 6 ELSE 7)
    BY <1>1, <1>2, <2>1
  <2>. QED  BY <1>4, <2>2 DEF ScarInv
<1>5. ASSUME NEW p \in Pipelines \ Polling, Exists("slot", Main(p)) PROVE Has("rows", Main(p))
  <2>1. Main(p) \in Targets
    BY MainFacts
  <2>2. ~ UpTo("Recovery", Main(p), 3)
    BY <1>1, <1>2, <2>1
  <2>. QED  BY <1>5, <2>2 DEF ScarInv
<1>. QED  BY <1>3, <1>4, <1>5 DEF Settled

(* What an action that stops here leaves out for good is a scar.           *)
LEMMA LeftBehind ==
  ASSUME TypeInv, ShapeInv, ScarInv, Applying, Target \notin failed, NewScars, UNCHANGED objects
  PROVE  Settled'
<1>1. /\ pc = "apply" /\ action \in plan /\ action = <<Type, Target>>
      /\ step \in 1 .. Count(Type, Target) + 1 /\ (Finished <=> step = Count(Type, Target) + 1)
      /\ Type \in ActionTypes
  BY UnderWay
<1>2. scars' = scars \cup (Scars \ objects) /\ objects' = objects
  BY DEF NewScars
<1>3. ASSUME NEW t, NEW k, Has(k, t) \/ Object(k, t) \in Scars PROVE Has(k, t)'
  BY <1>2, <1>3 DEF Has
<1>4. \A t, k : Exists(k, t)' <=> Exists(k, t)
  BY <1>2 DEF Exists
<1>5. ASSUME NEW t \in Targets, Exists("store", t), NEW n \in Nat, UpTo("VectorizerSetup", t, n)
      PROVE  Type = "VectorizerSetup" /\ Target = t /\ step > 5 /\ step <= n
  <2>1. Type = "VectorizerSetup" /\ Target = t /\ step <= n /\ t \notin failed
    BY <1>5 DEF UpTo, Type, Target
  <2>2. Beyond("VectorizerSetup", t, 5)
    BY <1>1, <1>5, <2>1 DEF ShapeInv, PlannedOnce
  <2>. QED  BY <2>1, <2>2 DEF Beyond
<1>6. ASSUME Type = "VectorizerSetup", step > 5, ~ Finished
      PROVE  /\ Kind \in {"sub", "trigger"}
             /\ step = 6 /\ Target[1] \notin Polling => Kind = "sub"
  <2>1. step \in 1 .. Count(Type, Target)
    <3>1. Count(Type, Target) \in Nat
      BY DEF Count
    <3>. QED  BY <1>1, <1>6, <3>1
  <2>2. Statement(Type, Target, Kind, step)
    BY <1>1, <2>1, StepsTable DEF Kind
  <2>. QED  BY <1>6, <2>2 DEF Statement
<1>7. ASSUME NEW t \in Targets, t[1] \notin Polling, Exists("store", t) PROVE Has("sub", t)'
  <2>1. CASE Has("sub", t)
    BY <1>3, <2>1
  <2>2. CASE UpTo("VectorizerSetup", t, 6)
    <3>1. Type = "VectorizerSetup" /\ Target = t /\ step > 5 /\ step <= 6
      BY <1>5, <1>7, <2>2
    <3>2. ~ Finished
      BY <1>1, <1>7, <3>1 DEF Count
    <3>3. <<"sub", t>> \in Scars
      BY <1>6, <1>7, <3>1, <3>2 DEF Scars
    <3>. QED  BY <1>3, <3>3, ObjectFacts
  <2>. QED  BY <1>7, <2>1, <2>2 DEF ScarInv
<1>8. ASSUME NEW p \in Branched, Exists("store", Branch(p)) PROVE Has("trigger", Branch(p))'
  <2>. DEFINE n == IF p \in Polling THEN 6 ELSE 7
  <2>1. Branch(p) \in Targets /\ Branch(p)[1] = p /\ Branch(p)[2] = "branch"
    BY BranchFacts
  <2>2. CASE Has("trigger", Branch(p))
    BY <1>3, <2>2
  <2>3. CASE UpTo("VectorizerSetup", Branch(p), n)
    <3>1. Type = "VectorizerSetup" /\ Target = Branch(p) /\ step > 5 /\ step <= n
      BY <1>5, <1>8, <2>1, <2>3
    <3>2. ~ Finished
      BY <1>1, <2>1, <3>1 DEF Count
    <3>3. <<"trigger", Branch(p)>> \in Scars
      BY <1>6, <2>1, <3>1, <3>2 DEF Scars
    <3>. QED  BY <1>3, <2>1, <3>3, ObjectFacts
  <2>. QED  BY <1>8, <2>2, <2>3 DEF ScarInv
<1>9. ASSUME NEW p \in Pipelines \ Polling, Exists("slot", Main(p)) PROVE Has("rows", Main(p))'
  <2>1. Main(p) \in Targets /\ Main(p)[1] = p /\ Main(p)[2] = "main"
    BY MainFacts
  <2>2. CASE Has("rows", Main(p))
    BY <1>3, <2>2
  <2>3. CASE UpTo("Recovery", Main(p), 3)
    <3>1. Type = "Recovery" /\ Target = Main(p)
      BY <2>3 DEF UpTo, Type, Target
    <3>2. <<"rows", Main(p)>> \in Scars
      BY <1>9, <2>1, <3>1 DEF Scars
    <3>. QED  BY <1>3, <2>1, <3>2, ObjectFacts
  <2>. QED  BY <1>9, <2>2, <2>3 DEF ScarInv
<1>. QED  BY <1>4, <1>7, <1>8, <1>9 DEF Settled

LEMMA MoveScars ==
  ASSUME TypeInv, ShapeInv, ScarInv,
         \/ Skip \/ ActionDone \/ StepFails
         \/ \E up \in SUBSET Pipelines : Discover(up)
         \/ Start \/ Finish \/ Crash \/ Stop
  PROVE  Settled'
<1>1. CASE StepFails
  BY <1>1, LeftBehind DEF StepFails
<1>2. CASE Crash /\ Applying /\ Target \notin failed
  BY <1>2, LeftBehind DEF Crash
<1>3. CASE \/ Skip \/ ActionDone \/ Start \/ Finish
           \/ \E up \in SUBSET Pipelines : Discover(up)
           \/ Crash /\ ~ (Applying /\ Target \notin failed)
  <2>1. UNCHANGED <<objects, scars>>
    BY <1>3 DEF Skip, ActionDone, Start, Finish, Discover, Crash
  <2>2. Settled
    BY <1>3, SettledNow DEF Skip, ActionDone, Start, Finish, Discover, Crash, Applying
  <2>. QED  BY <2>1, <2>2 DEF Settled, Exists, Has
<1>4. CASE Stop
  <2>1. Settled
    BY <1>4, SettledNow DEF Stop
  <2>2. ASSUME NEW q \in Branched, NEW k \in {"sub", "trigger"}, Has(k, Branch(q)) PROVE Has(k, Branch(q))'
    <3>1. Object(k, Branch(q)) = <<k, Branch(q)>> /\ Branch(q)[2] = "branch"
      BY BranchFacts, ObjectFacts
    <3>2. Exists(k, Branch(q))' <=> Exists(k, Branch(q))
      BY <1>4, StopEffect
    <3>3. <<k, Branch(q)>> \in scars => <<k, Branch(q)>> \in scars'
      <4>1. ASSUME NEW o \in scars, o[2][2] = "branch" PROVE o \in scars'
        BY <1>4, <4>1 DEF Stop
      <4>. QED  BY <3>1, <4>1
    <3>4. <<k, Branch(q)>> \in objects' \cup scars'
      BY <2>2, <3>1, <3>2, <3>3 DEF Has, Exists
    <3>. QED  BY <3>1, <3>4 DEF Has, Object, Owner
  <2>3. ASSUME NEW t \in Targets, t[1] \notin Polling, Exists("store", t)' PROVE Has("sub", t)'
    <3>1. Exists("store", t) /\ Has("sub", t)
      BY <1>4, <2>1, <2>3, StopEffect DEF Settled
    <3>2. CASE t[2] = "branch"
      BY <2>2, <3>1, <3>2, TargetFacts
    <3>3. CASE t[2] = "main"
      <4>1. Object("sub", t) = <<"sub", t>> /\ t = Main(t[1]) /\ t[1] \in Pipelines \ Polling
        BY <2>3, <3>3, ObjectFacts, TargetFacts
      <4>2. <<"sub", t>> \notin objects' => <<"sub", t>> \in scars'
        BY <1>4, <2>3, <4>1 DEF Stop, Exists
      <4>. QED  BY <4>1, <4>2 DEF Has, Object, Owner
    <3>. QED  BY <3>2, <3>3, TargetFacts
  <2>4. ASSUME NEW p \in Branched, Exists("store", Branch(p))' PROVE Has("trigger", Branch(p))'
    <3>1. Exists("store", Branch(p))
      BY <1>4, <2>4, StopEffect
    <3>. QED  BY <2>1, <2>2, <3>1 DEF Settled
  <2>5. ASSUME NEW p \in Pipelines \ Polling, Exists("slot", Main(p))' PROVE Has("rows", Main(p))'
    <3>1. /\ Object("rows", Main(p)) = <<"rows", Main(p)>>
          /\ <<"rows", Main(p)>> \in objects \cup scars
      <4>1. Exists("slot", Main(p))
        BY <1>4, <2>5, StopEffect
      <4>. QED  BY <2>1, <4>1, MainFacts, ObjectFacts DEF Settled, Has
    <3>2. <<"rows", Main(p)>> \in objects => <<"rows", Main(p)>> \in objects'
      BY <1>4, StopEffect DEF Torn, Exists
    <3>3. <<"rows", Main(p)>> \in scars => <<"rows", Main(p)>> \in scars'
      BY <1>4, <2>5 DEF Stop, Exists
    <3>. QED  BY <3>1, <3>2, <3>3 DEF Has, Object, Owner
  <2>. QED  BY <2>3, <2>4, <2>5 DEF Settled
<1>. QED  BY <1>1, <1>2, <1>3, <1>4

LEMMA ScarStep == TypeInv /\ ShapeInv /\ ScarInv /\ [Next]_vars => ScarInv'
<1>. SUFFICES ASSUME TypeInv, ShapeInv, ScarInv, [Next]_vars PROVE ScarInv'
  OBVIOUS
<1>1. CASE Statements
  BY <1>1, StatementEffect, StatementScars
<1>2. CASE \/ Skip \/ ActionDone \/ StepFails
           \/ \E up \in SUBSET Pipelines : Discover(up)
           \/ Start \/ Finish \/ Crash \/ Stop
  <2>1. Settled'
    BY <1>2, MoveScars
  <2>. QED  BY <2>1 DEF Settled, ScarInv
<1>3. CASE UNCHANGED vars
  BY <1>3 DEF vars, planVars, ScarInv, Exists, Has, UpTo
<1>. QED  BY <1>1, <1>2, <1>3, Moves

-----------------------------------------------------------------------------
(* Whatever a target lacks, the rest of the plan makes.                    *)

LEMMA PieceMakes ==
  ASSUME NEW t, NEW kind \in PieceKinds(t)
  PROVE  kind \in Makes
BY DEF PieceKinds, Makes

(* A plan makes whatever a target lacks whose source answered, but for the *)
(* objects no plan looks for.                                              *)
LEMMA PlanOwes ==
  ASSUME TypeInv, ShapeInv, Settled, NEW up \in SUBSET Pipelines,
         NEW t \in Targets, t[1] \in up, NEW kind \in PieceKinds(t), ~ Has(kind, t)
  PROVE  \E type \in ActionTypes : <<type, t>> \in Plan(up) /\ \E i : Statement(type, t, kind, i)
<1>. DEFINE Planned(type) == type \in ActionTypes /\ <<type, t>> \in Plan(up)
<1>1. /\ kind \notin {"table", "rows"} => ~ Exists(kind, t)
      /\ kind \in {"table", "rows"} => ~ Exists(kind, Main(t[1]))
  BY ObjectFacts DEF Has, Exists
<1>2. t[1] \notin Polling /\ Exists("store", t) => Has("sub", t)
  BY DEF Settled
<1>3. (Exists("view", t) \/ Exists("trigger", t) => Exists("store", t)) /\ (Exists("store", t) => Exists("row", t))
  BY DEF ShapeInv, StoreShape
<1>4. /\ Statement("CreateTable", t, "table", 1) /\ Statement("ViewSetup", t, "view", 1)
      /\ Statement("OutboxSetup", t, "trigger", 1)
      /\ Statement("VectorizerSetup", t, "row", 3) /\ Statement("VectorizerSetup", t, "store", 5)
      /\ \E i : Statement("VectorizerSetup", t, "trigger", i)
      /\ \E i : Statement("Recovery", t, "rows", i)
      /\ t[1] \notin Polling =>
           /\ Statement("SourceSetup", t, "publication", 1) /\ Statement("VectorizerSetup", t, "sub", 6)
           /\ Statement("Recovery", t, "slot", 1)
  BY DEF Statement
<1>5. /\ kind \in {"publication", "sub", "slot"} => t[1] \notin Polling
      /\ kind \in {"rows", "slot"} => t[2] = "main"
      /\ kind \in {"table", "row", "store", "trigger", "view", "rows", "publication", "sub", "slot"}
  BY DEF PieceKinds
<1>6. CASE t[2] = "main"
  <2>1. t = Main(t[1]) /\ t[1] \in Pipelines
    BY <1>6, TargetFacts
  <2>2. \A type \in ActionTypes : MainNeeds(type, t, up) => Planned(type)
    BY <2>1, PlanFacts
  <2>3. /\ ~ Exists("table", t) => Planned("CreateTable")
        /\ ~ Exists("store", t) => Planned("VectorizerSetup")
        /\ Exists("store", t) /\ ~ Exists("trigger", t) => Planned("OutboxSetup")
        /\ ~ Exists("view", t) => Planned("ViewSetup")
        /\ ~ Exists("publication", t) => Planned("SourceSetup")
        /\ t[1] \in Polling /\ ~ Exists("cursor", t) => Planned("Recovery")
        /\ t[1] \notin Polling /\ ~ Exists("slot", t) => Planned("Recovery")
    BY <2>2 DEF MainNeeds, ActionTypes, NoCursor
  <2>4. t[1] \in Polling /\ Exists("cursor", t) => Exists("rows", t)
    BY <2>1 DEF ShapeInv, CursorShape
  <2>5. t[1] \notin Polling /\ Exists("slot", t) => Has("rows", t)
    BY <2>1 DEF Settled
  <2>. HIDE DEF Planned
  <2>6. \E type : Planned(type) /\ \E i : Statement(type, t, kind, i)
    BY <1>1, <1>2, <1>3, <1>4, <1>5, <2>1, <2>3, <2>4, <2>5
  <2>. QED  BY <2>6 DEF Planned
<1>7. CASE t[2] = "branch"
  <2>1. t = Branch(t[1]) /\ t[1] \in Branched
    BY <1>7, TargetFacts
  <2>2. \A type \in ActionTypes : BranchNeeds(type, t, up) => Planned(type)
    BY <2>1, PlanFacts
  <2>3. /\ ~ Exists("table", Main(t[1])) => Planned("CreateTable")
        /\ ~ Exists("store", t) => Planned("VectorizerSetup")
        /\ ~ Exists("publication", t) => Planned("SourceSetup")
        /\ Planned("ViewSetup")
    BY <2>2 DEF BranchNeeds, ActionTypes
  <2>4. Exists("store", t) => Has("trigger", t)
    BY <2>1 DEF Settled
  <2>. HIDE DEF Planned
  <2>5. \E type : Planned(type) /\ \E i : Statement(type, t, kind, i)
    BY <1>1, <1>2, <1>3, <1>4, <1>5, <1>7, <2>3, <2>4
  <2>. QED  BY <2>5 DEF Planned
<1>. QED  BY <1>6, <1>7, TargetFacts

LEMMA InitOwed == Init => OwedInv
BY DEF Init, OwedInv

LEMMA StatementOwed ==
  ASSUME TypeInv, OwedInv, NEW made, Effect(made)
  PROVE  OwedInv'
<1>1. /\ UNCHANGED <<pc, reached, plan, action, failed>> /\ step' = step + 1
      /\ Type \in ActionTypes /\ step \in 1 .. Count(Type, Target) /\ pc = "apply"
  BY AtStatement, UnderWay DEF Effect, StepDone
<1>2. Steps(Type, Target)[step] = made
  BY <1>1, AtStatement, StatementIs DEF Effect
<1>. SUFFICES ASSUME NEW t \in Targets \ failed, t[1] \in reached, NEW kind \in PieceKinds(t)
              PROVE  Has(kind, t)' \/ Owed(kind, t)'
  BY <1>1 DEF OwedInv, PieceKinds
<1>3. CASE Has(kind, t)
  BY <1>3 DEF Has, Effect
<1>4. CASE Owed(kind, t)
  <2>1. PICK a \in plan : a[2] = t /\ \E i \in DOMAIN Steps(a[1], t) : Steps(a[1], t)[i] = kind /\ Ahead(a) <= i
    BY <1>4 DEF Owed
  <2>2. PICK i \in DOMAIN Steps(a[1], t) : Steps(a[1], t)[i] = kind /\ Ahead(a) <= i
    BY <2>1
  <2>3. i \in Int
    <3>1. a[1] \in ActionTypes
      BY DEF TypeInv, TypeOK
    <3>. QED  BY <3>1, StepsCount, <2>2 DEF Count
  <2>4. CASE a = action /\ i = step
    <3>1. Type = a[1] /\ Target = t
      BY <2>1, <2>4 DEF Type, Target
    <3>2. kind = made
      BY <1>2, <2>2, <2>4, <3>1
    <3>. QED  BY <3>1, <3>2, PieceMakes DEF Effect, Has
  <2>5. CASE ~ (a = action /\ i = step)
    <3>1. Ahead(a)' <= i
      BY <1>1, <2>2, <2>3, <2>5 DEF Ahead
    <3>. QED  BY <1>1, <2>1, <2>2, <3>1 DEF Owed
  <2>. QED  BY <2>4, <2>5
<1>. QED  BY <1>1, <1>3, <1>4 DEF OwedInv

LEMMA MoveOwed ==
  ASSUME TypeInv, OwedInv, Skip \/ ActionDone \/ StepFails
  PROVE  OwedInv'
<1>1. /\ Applying /\ plan' = plan \ {action} /\ step' = 1 /\ UNCHANGED <<objects, pc, reached>>
      /\ failed \subseteq failed' /\ pc = "apply"
  BY DEF Skip, ActionDone, StepFails, NextAction, Applying
<1>2. scars \subseteq scars'
  BY DEF Skip, ActionDone, StepFails, NewScars
<1>. SUFFICES ASSUME NEW t \in Targets \ failed', t[1] \in reached, NEW kind \in PieceKinds(t)
              PROVE  Has(kind, t)' \/ Owed(kind, t)'
  BY <1>1 DEF OwedInv, PieceKinds
<1>3. Has(kind, t) \/ Owed(kind, t)
  BY <1>1 DEF OwedInv
<1>4. CASE Has(kind, t)
  BY <1>1, <1>2, <1>4 DEF Has
<1>5. CASE Owed(kind, t)
  <2>1. PICK a \in plan : a[2] = t /\ \E i \in DOMAIN Steps(a[1], t) : Steps(a[1], t)[i] = kind /\ Ahead(a) <= i
    BY <1>5 DEF Owed
  <2>2. PICK i \in DOMAIN Steps(a[1], t) : Steps(a[1], t)[i] = kind /\ Ahead(a) <= i
    BY <2>1
  <2>3. a[1] \in ActionTypes
    BY DEF TypeInv, TypeOK
  <2>4. i \in 1 .. Count(a[1], t) /\ Count(a[1], t) \in Nat
    BY <2>2, <2>3, StepsCount DEF Count
  <2>5. a # action
    <3>. SUFFICES ASSUME a = action PROVE FALSE
      OBVIOUS
    <3>1. Target = t /\ Type = a[1] /\ t # Sink
      BY <2>1, TargetFacts DEF Target, Type
    <3>2. ActionDone
      BY <1>1, <3>1 DEF Skip, StepFails
    <3>3. step = Count(a[1], t) + 1
      BY <1>1, <3>1, <3>2, UnderWay DEF ActionDone
    <3>. QED  BY <2>2, <2>4, <3>3 DEF Ahead
  <2>6. a \in plan' /\ Ahead(a)' = 1
    BY <1>1, <2>5 DEF Ahead
  <2>. QED  BY <2>1, <2>2, <2>4, <2>6 DEF Owed
<1>. QED  BY <1>3, <1>4, <1>5

LEMMA DiscoverOwed ==
  ASSUME TypeInv, ShapeInv, ScarInv, NEW up \in SUBSET Pipelines, Discover(up)
  PROVE  OwedInv'
<1>. SUFFICES ASSUME pc' = "apply", NEW t \in Targets, t[1] \in reached', NEW kind \in PieceKinds(t), ~ Has(kind, t)'
              PROVE  Owed(kind, t)'
  BY DEF OwedInv, PieceKinds
<1>1. UNCHANGED <<objects, scars>> /\ plan' = Plan(up) /\ step' = 1 /\ reached' = up
  BY DEF Discover
<1>2. Settled
  BY SettledNow DEF Discover
<1>3. ~ Has(kind, t)
  BY <1>1 DEF Has
<1>4. PICK type \in ActionTypes : <<type, t>> \in Plan(up) /\ \E i : Statement(type, t, kind, i)
  BY <1>1, <1>2, <1>3, PlanOwes
<1>5. PICK i : Statement(type, t, kind, i)
  BY <1>4
<1>6. i \in 1 .. Count(type, t) /\ Steps(type, t)[i] = kind /\ i \in DOMAIN Steps(type, t)
  BY <1>5, StatementIs, StepsCount
<1>7. Ahead(<<type, t>>)' <= i
  <2>1. Count(type, t) \in Nat
    BY DEF Count
  <2>. QED  BY <1>1, <1>6, <2>1 DEF Ahead
<1>. QED  BY <1>1, <1>4, <1>6, <1>7 DEF Owed

LEMMA OwedStep == TypeInv /\ ShapeInv /\ ScarInv /\ OwedInv /\ [Next]_vars => OwedInv'
<1>. SUFFICES ASSUME TypeInv, ShapeInv, ScarInv, OwedInv, [Next]_vars PROVE OwedInv'
  OBVIOUS
<1>1. CASE Statements
  BY <1>1, StatementEffect, StatementOwed
<1>2. CASE Skip \/ ActionDone \/ StepFails
  BY <1>2, MoveOwed
<1>3. CASE \E up \in SUBSET Pipelines : Discover(up)
  BY <1>3, DiscoverOwed
<1>4. CASE Start \/ Finish \/ Crash \/ Stop
  <2>1. pc' # "apply"
    BY <1>4 DEF Start, Finish, Crash, Stop
  <2>. QED  BY <2>1 DEF OwedInv
<1>5. CASE UNCHANGED vars
  BY <1>5 DEF vars, planVars, OwedInv, PieceKinds, Has, Owed, Ahead
<1>. QED  BY <1>1, <1>2, <1>3, <1>4, <1>5, Moves

-----------------------------------------------------------------------------
(* A reconciliation repairs.                                               *)

LEMMA PieceOf ==
  ASSUME NEW t, \A kind \in PieceKinds(t) : Has(kind, t)
  PROVE  Pieces(t) \subseteq objects \cup scars
BY DEF Pieces, Has

LEMMA WholeStep ==
  ASSUME TypeInv, ShapeInv, ScarInv, OwedInv, IdleIsWhole, [Next]_vars
  PROVE  IdleIsWhole'
<1>1. CASE \E up \in SUBSET Pipelines : Discover(up)
  <2>1. PICK up \in SUBSET Pipelines : Discover(up)
    BY <1>1
  <2>. SUFFICES ASSUME pc' = "idle", NEW t \in Targets, t[1] \in reached'
                PROVE  Pieces(t) \subseteq objects' \cup scars'
    BY DEF IdleIsWhole, Pieces
  <2>2. reached' = up /\ Plan(up) = {} /\ UNCHANGED <<objects, scars>>
    BY <2>1 DEF Discover
  <2>3. Settled
    BY <2>1, SettledNow DEF Discover
  <2>4. \A kind \in PieceKinds(t) : Has(kind, t)
    BY <2>2, <2>3, PlanOwes
  <2>. QED  BY <2>2, <2>4, PieceOf
<1>2. CASE Finish
  <2>1. UNCHANGED <<objects, scars, reached, failed>> /\ plan = {} /\ pc = "apply"
    BY <1>2 DEF Finish, planVars
  <2>2. ASSUME NEW t \in Targets \ failed, t[1] \in reached PROVE Pieces(t) \subseteq objects \cup scars
    <3>1. \A kind \in PieceKinds(t) : Has(kind, t)
      BY <2>1, <2>2 DEF OwedInv, Owed
    <3>. QED  BY <3>1, PieceOf
  <2>. QED  BY <2>1, <2>2 DEF IdleIsWhole, Pieces
<1>3. CASE Statements
  <2>1. pc' = "apply"
    BY <1>3, StatementEffect, AtStatement, UnderWay DEF Effect, StepDone
  <2>. QED  BY <2>1 DEF IdleIsWhole
<1>4. CASE Skip \/ ActionDone \/ StepFails \/ Start \/ Crash \/ Stop
  <2>1. pc' # "idle"
    BY <1>4 DEF Skip, ActionDone, StepFails, Start, Crash, Stop, Applying
  <2>. QED  BY <2>1 DEF IdleIsWhole
<1>5. CASE UNCHANGED vars
  BY <1>5 DEF vars, planVars, IdleIsWhole, Pieces
<1>. QED  BY <1>1, <1>2, <1>3, <1>4, <1>5, Moves

(* When a reconciliation ends, every target whose source answered and none *)
(* of whose own actions failed is whole, but for the scars, whatever       *)
(* failed for other targets and wherever earlier reconciliations broke off *)
(* (Planner.plan, _expand_branches, Applier.apply).                        *)
THEOREM IdleIsWholeHolds == Spec => []IdleIsWhole
<1>. DEFINE Inv == TypeInv /\ ShapeInv /\ ScarInv /\ OwedInv /\ IdleIsWhole
<1>1. Init => Inv
  <2>1. Init => IdleIsWhole
    BY DEF Init, IdleIsWhole
  <2>. QED  BY <2>1, InitTypes, InitShape, InitScars, SettledScars, InitOwed
<1>2. Inv /\ [Next]_vars => Inv'
  BY TypeStep, ShapeStep, ScarStep, OwedStep, WholeStep
<1>. QED  BY <1>1, <1>2, PTL DEF Spec

-----------------------------------------------------------------------------
(* What is told of a reconciliation.                                       *)

LEMMA MarkedFacts ==
  ASSUME NEW ps, NEW s, NEW p \in Pipelines
  PROVE  Marked(ps, s)[p] = IF p \in ps /\ status[p] # "none" THEN s ELSE status[p]
BY DEF Marked

LEMMA ToldStep ==
  ASSUME TypeInv, ShapeInv, ToldInv, StatusTold, [Next]_vars
  PROVE  ToldInv' /\ StatusTold'
<1>1. CASE Statements
  <2>1. UNCHANGED <<pc, affected, failed, status>> /\ pc = "apply"
    BY <1>1, StatementEffect, AtStatement, UnderWay DEF Effect, StepDone
  <2>. QED  BY <2>1 DEF ToldInv, StatusTold, MainsOf
<1>2. CASE Skip \/ ActionDone
  BY <1>2 DEF Skip, ActionDone, Applying, ToldInv, StatusTold, MainsOf
<1>3. CASE StepFails
  <2>1. /\ failed' = failed \cup ({Target} \ {Sink}) /\ status' = Marked(MainsOf({Target}), "Failed")
        /\ UNCHANGED <<pc, affected>> /\ pc = "apply"
    BY <1>3 DEF StepFails, Applying
  <2>2. ASSUME NEW p \in MainsOf(affected)
        PROVE  status'[p] = "none" \/ status'[p] = IF Main(p) \in failed' THEN "Failed" ELSE "Syncing"
    <3>1. p \in Pipelines /\ Main(p) # Sink /\ (p \in MainsOf({Target}) <=> Main(p) = Target)
      BY MainFacts DEF MainsOf
    <3>2. status[p] = "none" \/ status[p] = IF Main(p) \in failed THEN "Failed" ELSE "Syncing"
      BY <2>1 DEF ToldInv
    <3>. QED  BY <2>1, <3>1, <3>2, MarkedFacts
  <2>. QED  BY <2>1, <2>2 DEF ToldInv, StatusTold, MainsOf
<1>4. CASE \E up \in SUBSET Pipelines : Discover(up)
  <2>1. \/ pc' = "gave_up"
        \/ pc' = "idle" /\ affected' = {}
        \/ pc' = "apply" /\ failed' = {} /\ status' = Marked(MainsOf(affected'), "Syncing")
    BY <1>4 DEF Discover
  <2>2. CASE pc' = "idle" /\ affected' = {}
    BY <2>2 DEF ToldInv, StatusTold, MainsOf
  <2>3. CASE pc' = "apply" /\ failed' = {} /\ status' = Marked(MainsOf(affected'), "Syncing")
    <3>1. ASSUME NEW p \in MainsOf(affected') PROVE status'[p] \in {"none", "Syncing"}
      <4>1. p \in Pipelines
        BY DEF MainsOf
      <4>. QED  BY <2>3, <4>1, MarkedFacts
    <3>. QED  BY <2>3, <3>1 DEF ToldInv, StatusTold, MainsOf
  <2>. QED  BY <2>1, <2>2, <2>3 DEF ToldInv, StatusTold
<1>5. CASE Finish
  <2>1. /\ pc = "apply" /\ pc' = "idle" /\ status' = Marked(MainsOf(affected \ failed), "Ready")
        /\ UNCHANGED <<affected, failed>>
    BY <1>5 DEF Finish, planVars
  <2>2. ASSUME NEW p \in MainsOf(affected)
        PROVE  status'[p] = "none" \/ status'[p] = IF Main(p) \in failed THEN "Failed" ELSE "Ready"
    <3>1. p \in Pipelines /\ (p \in MainsOf(affected \ failed) <=> Main(p) \notin failed)
      BY DEF MainsOf
    <3>2. status[p] = "none" \/ status[p] = IF Main(p) \in failed THEN "Failed" ELSE "Syncing"
      BY <2>1 DEF ToldInv
    <3>. QED  BY <2>1, <3>1, <3>2, MarkedFacts
  <2>. QED  BY <2>1, <2>2 DEF ToldInv, StatusTold, MainsOf
<1>6. CASE Start \/ Crash \/ Stop
  <2>1. pc' \notin {"apply", "idle"}
    BY <1>6 DEF Start, Crash, Stop
  <2>. QED  BY <2>1 DEF ToldInv, StatusTold
<1>7. CASE UNCHANGED vars
  BY <1>7 DEF vars, planVars, ToldInv, StatusTold, MainsOf
<1>. QED  BY <1>1, <1>2, <1>3, <1>4, <1>5, <1>6, <1>7, Moves

(* At the end of a reconciliation a generation it had actions for is Ready *)
(* if and only if none of them failed (Reconciler.reconcile).              *)
THEOREM StatusToldHolds == Spec => []StatusTold
<1>. DEFINE Inv == TypeInv /\ ShapeInv /\ ToldInv /\ StatusTold
<1>1. Init => Inv
  <2>1. Init => ToldInv /\ StatusTold
    BY DEF Init, ToldInv, StatusTold
  <2>. QED  BY <2>1, InitTypes, InitShape
<1>2. Inv /\ [Next]_vars => Inv'
  BY TypeStep, ShapeStep, ToldStep
<1>. QED  BY <1>1, <1>2, PTL DEF Spec

-----------------------------------------------------------------------------
(* The way to the end: an action has at most seven statements, and then it *)
(* is done, so nine times the actions left is more than there is to do.    *)

StepsLeft == IF plan = {} THEN 0 ELSE 9 * Cardinality(plan) - step
ApplyGetsOn ==
  /\ [](StepsLeft \in Nat)
  /\ [][pc = "apply" => pc' # "apply" \/ StepsLeft' < StepsLeft]_vars

LEMMA ActionsAreFinite ==
  ASSUME NEW S \in SUBSET (ActionTypes \X (Targets \cup {Sink}))
  PROVE  IsFiniteSet(S) /\ Cardinality(S) \in Nat
<1>1. IsFiniteSet(ActionTypes)
  <2>1. IsFiniteSet(1..8)
    <3>1. 1 \in Int /\ 8 \in Int
      OBVIOUS
    <3>. QED  BY <3>1, FS_Interval
  <2>. DEFINE list == <<"StateInit", "CacheSetup", "SourceSetup", "CreateTable", "Recovery",
                        "VectorizerSetup", "OutboxSetup", "ViewSetup">>
  <2>2. list \in [1..8 -> ActionTypes]
    BY DEF ActionTypes
  <2>3. \A t \in ActionTypes : \E i \in 1..8 : list[i] = t
    BY DEF ActionTypes
  <2>4. list \in Surjection(1..8, ActionTypes)
    BY <2>2, <2>3 DEF Surjection
  <2>. HIDE DEF list
  <2>. QED  BY <2>1, <2>4, FS_Surjection
<1>2. IsFiniteSet(Pipelines)
  <2>1. Order \in [1..Len(Order) -> Pipelines] /\ Len(Order) \in Nat /\ DOMAIN Order = 1..Len(Order)
    BY SetsAssumption
  <2>2. Order \in Surjection(1..Len(Order), Pipelines)
    BY <2>1 DEF Surjection, Pipelines
  <2>. QED  BY <2>1, <2>2, FS_Interval, FS_Surjection
<1>3. IsFiniteSet({"main", "branch"})
  <2>1. {"main", "branch"} = {"main"} \cup {"branch"}
    OBVIOUS
  <2>2. IsFiniteSet({"main"})
    BY FS_Singleton
  <2>. QED  BY <2>1, <2>2, FS_AddElement
<1>4. IsFiniteSet(Pipelines \X {"main", "branch"})
  BY <1>2, <1>3, FS_Product
<1>5. IsFiniteSet((Pipelines \X {"main", "branch"}) \cup {Sink})
  BY <1>4, FS_AddElement
<1>6. Targets \cup {Sink} \subseteq (Pipelines \X {"main", "branch"}) \cup {Sink}
  BY SetsAssumption DEF Targets, Main, Branch
<1>7. IsFiniteSet(Targets \cup {Sink})
  BY <1>5, <1>6, FS_Subset
<1>8. IsFiniteSet(ActionTypes \X (Targets \cup {Sink}))
  BY <1>1, <1>7, FS_Product
<1>. QED  BY <1>8, FS_Subset, FS_CardinalityType

LEMMA StepIsShort ==
  ASSUME TypeInv, Applying
  PROVE  step \in 1..8
<1>1. Count(Type, Target) \in 0..7 /\ step \in 1 .. Count(Type, Target) + 1
  BY UnderWay DEF Count
<1>. QED  BY <1>1

LEMMA PlanIsFinite ==
  ASSUME TypeInv
  PROVE  IsFiniteSet(plan) /\ Cardinality(plan) \in Nat /\ (plan # {} => Cardinality(plan) >= 1)
<1>1. plan \in SUBSET (ActionTypes \X (Targets \cup {Sink}))
  BY DEF TypeInv, TypeOK
<1>2. IsFiniteSet(plan) /\ Cardinality(plan) \in Nat
  BY <1>1, ActionsAreFinite
<1>. QED  BY <1>2, FS_EmptySet

LEMMA StepsLeftIsNatural == TypeInv => StepsLeft \in Nat
<1>. SUFFICES ASSUME TypeInv, plan # {} PROVE 9 * Cardinality(plan) - step \in Nat
  BY DEF StepsLeft
<1>1. step \in 1..8
  BY StepIsShort DEF Applying, TypeInv, PlanOK
<1>. QED  BY <1>1, PlanIsFinite

LEMMA ApplySteps ==
  ASSUME TypeInv, ShapeInv, Next, pc = "apply", pc' = "apply"
  PROVE  StepsLeft' < StepsLeft
<1>1. CASE Statements
  <2>1. step' = step + 1 /\ UNCHANGED plan /\ Applying
    BY <1>1, StatementEffect, AtStatement DEF Effect, StepDone
  <2>. QED  BY <2>1, StepIsShort, PlanIsFinite DEF StepsLeft, Applying
<1>2. CASE Skip \/ ActionDone \/ StepFails
  <2>1. Applying /\ plan' = plan \ {action} /\ step' = 1
    BY <1>2 DEF Skip, ActionDone, StepFails, NextAction
  <2>2. action \in plan /\ IsFiniteSet(plan)
    BY <2>1, UnderWay, PlanIsFinite
  <2>3. Cardinality(plan') = Cardinality(plan) - 1
    BY <2>1, <2>2, FS_RemoveElement
  <2>. QED  BY <2>1, <2>3, StepIsShort, PlanIsFinite DEF StepsLeft, Applying
<1>3. ~ (\E up \in SUBSET Pipelines : Discover(up)) /\ ~ (Start \/ Finish \/ Crash \/ Stop)
  BY DEF Discover, Start, Finish, Crash, Stop
<1>. QED  BY <1>1, <1>2, <1>3 DEF Next, Reconcile, Apply, Statements

(* A reconciliation gets on with every step: each statement, each failure  *)
(* and each action skipped leaves less of the plan to apply, and nothing   *)
(* puts an action back, so that one that keeps running ends, as            *)
(* FleetSettles says (Applier.apply).                                      *)
THEOREM ApplyGetsOnHolds == Spec => ApplyGetsOn
<1>. DEFINE Inv == TypeInv /\ ShapeInv
<1>1. Init => Inv
  BY InitTypes, InitShape
<1>2. Inv /\ [Next]_vars => Inv'
  BY TypeStep, ShapeStep
<1>3. Inv => StepsLeft \in Nat
  BY StepsLeftIsNatural
<1>4. Inv /\ [Next]_vars => [pc = "apply" => pc' # "apply" \/ StepsLeft' < StepsLeft]_vars
  BY ApplySteps
<1>. QED  BY <1>1, <1>2, <1>3, <1>4, PTL DEF Spec, ApplyGetsOn

=============================================================================
