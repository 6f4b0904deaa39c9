-------------------------------- MODULE Fleet --------------------------------
(***************************************************************************)
(* One reconciliation over all targets: the plan of Planner.plan and       *)
(* _expand_branches, and Applier.apply, which works through it action by   *)
(* action and drops what is left of a target once one of its actions       *)
(* failed.                                                                 *)
(*                                                                         *)
(* A pipeline is a target; a branch of it is another, its shadow target,   *)
(* with a publication, a subscription, a vectorizer and a view of its own  *)
(* over the same raw table.  What exists is discovered at the start; most  *)
(* actions make several objects, in several statements, and what was made  *)
(* before one of them fails stays.  The next plan looks at some of the     *)
(* objects only.                                                           *)
(*                                                                         *)
(* Abstractions.  One version per target, one daemon, every configuration  *)
(* active, and a generation, if any, posted before the daemon starts: the  *)
(* other cases are ConfigRollout's.  An object is there or not: what the   *)
(* raw table holds, and whether a subscription's first copy fails on it,   *)
(* is HybridRecovery's and SourceSync's subject; columns added to a table  *)
(* and targets named unlike their table are left out.  A retry loop is one *)
(* step: it succeeds or times out.  A subscription that a teardown cut off *)
(* from its slot and could not drop is an object of its own, "husk"; one   *)
(* that is only disabled is HybridRecovery's subject.                      *)
(***************************************************************************)
EXTENDS Integers, Sequences, Functions

CONSTANTS
  Order,      \* the pipelines, in the order of the settings
  Polling,    \* those whose source has no replication slots
  Branched,   \* those with a branch
  None,       \* not a pipeline
  MaxStarts,  \* bound: starts of the daemon
  MaxFaults   \* bound: failing steps, outages and crashes

Pipelines == {Order[i] : i \in DOMAIN Order}

ASSUME SetsAssumption ==
  /\ Order \in Seq(Pipelines) \ {<<>>} /\ IsInjective(Order)
  /\ Polling \subseteq Pipelines /\ Branched \subseteq Pipelines
  /\ None \notin Pipelines
ASSUME BoundsAssumption == MaxStarts \in Nat /\ MaxFaults \in Nat

VARIABLES
  objects,     \* what exists: pairs of a kind and a target
  hasDefault,  \* is there a source named "default"?
  pc,          \* "down", "discover", "apply", "idle", "crashed", "gave_up"
  reached,     \* pipelines whose source answered the last discovery
  plan,        \* actions left, each a type and a target
  action,      \* the one under way, or NoAction
  step,        \* its statement that is next
  affected,    \* targets with an action in the plan
  failed,      \* failed_targets
  status,      \* pipeline -> status of its generation, "none" without one
  scars,       \* history: objects that a failure left out for good
  starts, faults

planVars == <<reached, plan, action, step, affected, failed>>
vars == <<objects, hasDefault, pc, planVars, status, scars, starts, faults>>

-----------------------------------------------------------------------------
Main(p)   == <<p, "main">>
Branch(p) == <<p, "branch">>
Sink      == <<None, "sink">>
Targets   == {Main(p) : p \in Pipelines} \cup {Branch(p) : p \in Branched}
Exists(kind, t) == <<kind, t>> \in objects

(* The raw table and the rows in it belong to the pipeline.                *)
Owner(kind, t) == IF kind \in {"table", "rows"} THEN Main(t[1]) ELSE t
Object(kind, t) == <<kind, Owner(kind, t)>>

(* Mutant: a subscription for every source. *)
Steps_AlwaysSubscribe(type, t) ==
  CASE type = "StateInit"   -> <<"states">>
    [] type = "CacheSetup"  -> <<"cache">>
    [] type = "SourceSetup" -> IF t[1] \in Polling THEN <<>> ELSE <<"publication">>
    [] type = "CreateTable" -> <<"table">>
    [] type = "Recovery"    -> IF t[1] \in Polling THEN <<"lsn", "rows", "cursor">>
                               ELSE <<"slot", "lsn", "rows">>
    [] type = "VectorizerSetup" ->
         <<"cleanup", "states", "row", "table", "store", "sub", "trigger">>
    [] type = "OutboxSetup" -> <<"trigger">>
    [] type = "ViewSetup"   -> <<"view">>

(* The statements of an action, by what they make; "lsn" and "cursor"      *)
(* update the target's row, "cleanup" removes what is left of the store.   *)
Steps(type, t) ==
  CASE type = "StateInit"   -> <<"states">>
    [] type = "CacheSetup"  -> <<"cache">>
    [] type = "SourceSetup" -> IF t[1] \in Polling THEN <<>> ELSE <<"publication">>
    [] type = "CreateTable" -> <<"table">>
    [] type = "Recovery"    -> IF t[1] \in Polling THEN <<"lsn", "rows", "cursor">>
                               ELSE <<"slot", "lsn", "rows">>
    [] type = "VectorizerSetup" ->
         IF t[1] \in Polling
           THEN <<"cleanup", "states", "row", "table", "store", "trigger">>
           ELSE <<"cleanup", "states", "row", "table", "store", "sub", "trigger">>
    [] type = "OutboxSetup" -> <<"trigger">>
    [] type = "ViewSetup"   -> <<"view">>

-----------------------------------------------------------------------------
(* Planner.plan and _expand_branches, as functions of what exists and of   *)
(* the sources that answered.                                              *)
ActionTypes == {"StateInit", "CacheSetup", "SourceSetup", "CreateTable", "Recovery",
                "VectorizerSetup", "OutboxSetup", "ViewSetup"}

NoCursor(t) == ~(Exists("row", t) /\ Exists("cursor", t))

(* Mutant: a missing trigger is repaired by a new vectorizer. *)
MainNeeds_Rebuild(type, t, up) ==
  \/ type = "CacheSetup" /\ t = Main(Order[1]) /\ ~Exists("cache", Sink)
  \/ type = "SourceSetup" /\ t[1] \in up /\ (t[1] \in Polling \/ ~Exists("publication", t))
  \/ type = "CreateTable" /\ ~Exists("table", t)
  \/ type = "Recovery" /\ t[1] \in up
       /\ IF t[1] \in Polling THEN NoCursor(t) ELSE ~Exists("slot", t)
  \/ type = "VectorizerSetup" /\ (~Exists("store", t) \/ ~Exists("trigger", t))
  \/ type = "ViewSetup" /\ ~Exists("view", t)

MainNeeds(type, t, up) ==
  \/ type = "CacheSetup" /\ t = Main(Order[1]) /\ ~Exists("cache", Sink)
  \/ type = "SourceSetup" /\ t[1] \in up /\ (t[1] \in Polling \/ ~Exists("publication", t))
  \/ type = "CreateTable" /\ ~Exists("table", t)
  \/ type = "Recovery" /\ t[1] \in up
       /\ IF t[1] \in Polling THEN NoCursor(t) ELSE ~Exists("slot", t)
  \/ type = "VectorizerSetup" /\ ~Exists("store", t)
  \/ type = "OutboxSetup" /\ Exists("store", t) /\ ~Exists("trigger", t)
  \/ type = "ViewSetup" /\ ~Exists("view", t)

(* No slot check, no repair of the trigger, and a view set up every time,  *)
(* for the target it is compared with is never found among its relations.  *)
BranchNeeds(type, t, up) ==
  \/ type = "SourceSetup" /\ ~(t[1] \in up /\ Exists("publication", t))
  \/ type = "CreateTable" /\ ~Exists("table", Main(t[1]))
  \/ type = "VectorizerSetup" /\ ~Exists("store", t)
  \/ type = "ViewSetup"

(* A polled or file source's state has no "publications": KeyError.        *)
Raises(up) == Branched \cap Polling \cap up # {}

Plan(up) ==
       {<<type, Sink>> : type \in {x \in {"StateInit"} : ~Exists("states", Sink)}}
  \cup {a \in ActionTypes \X {Main(p) : p \in Pipelines} : MainNeeds(a[1], a[2], up)}
  \cup {a \in ActionTypes \X {Branch(p) : p \in Branched} : BranchNeeds(a[1], a[2], up)}

(* The order of the actions: the sink's first, then pipeline by pipeline,  *)
(* and then branch by branch, in the order they are planned in.            *)
Turn(p) == CHOOSE i \in DOMAIN Order : Order[i] = p
Rank == [StateInit |-> 0, CacheSetup |-> 1, SourceSetup |-> 2, CreateTable |-> 3,
         Recovery |-> 4, VectorizerSetup |-> 5, OutboxSetup |-> 6, ViewSetup |-> 7]
Place == [a \in ActionTypes \X (Targets \cup {Sink}) |->
            Rank[a[1]] + CASE a[2][2] = "sink"   -> 0
                           [] a[2][2] = "main"   -> 8 * Turn(a[2][1])
                           [] a[2][2] = "branch" -> 8 * (Len(Order) + Turn(a[2][1]))]
NoAction == <<"none", Sink>>
First(actions) == IF actions = {} THEN NoAction
                  ELSE CHOOSE a \in actions : \A b \in actions : Place[a] <= Place[b]

-----------------------------------------------------------------------------
Init ==
  /\ objects = {} /\ hasDefault \in BOOLEAN
  /\ pc = "down"
  /\ reached = {} /\ plan = {} /\ action = NoAction /\ step = 1 /\ affected = {} /\ failed = {}
  /\ status \in [Pipelines -> {"none", "Pending"}]
  /\ scars = {}
  /\ starts = 0 /\ faults = 0

Marked(ps, s) == [p \in Pipelines |-> IF p \in ps /\ status[p] # "none" THEN s ELSE status[p]]
MainsOf(ts)   == {p \in Pipelines : Main(p) \in ts}

(* Orchestrator.start *)
Start ==
  /\ pc \in {"down", "crashed"}
  /\ starts < MaxStarts /\ starts' = starts + 1
  /\ pc' = "discover"
  /\ UNCHANGED <<objects, hasDefault, planVars, status, scars, faults>>

(* Discovery, plan and the marks; an empty plan makes everyone Ready.  If  *)
(* the Planner raises, try_reconcile meets the same state until wait_until *)
(* gives up, and the daemon does not start.                                *)
Discover(up) ==
  /\ pc = "discover"
  /\ up # Pipelines => faults < MaxFaults
  /\ faults' = IF up = Pipelines THEN faults ELSE faults + 1
  /\ reached' = up
  /\ IF Raises(up)
       THEN pc' = "gave_up" /\ UNCHANGED <<plan, action, affected, status>>
       ELSE /\ plan' = Plan(up) /\ action' = First(plan')
            /\ affected' = {a[2] : a \in plan'} \ {Sink}
            /\ IF plan' = {}
                 THEN pc' = "idle" /\ status' = Marked(Pipelines, "Ready")
                 ELSE pc' = "apply" /\ status' = Marked(MainsOf(affected'), "Syncing")
  /\ step' = 1 /\ failed' = {}
  /\ UNCHANGED <<objects, hasDefault, scars, starts>>

-----------------------------------------------------------------------------
(* Applier.apply.                                                          *)
Applying == pc = "apply" /\ plan # {}
Type     == action[1]
Target   == action[2]
Finished == step > Len(Steps(Type, Target))
Kind     == Steps(Type, Target)[step]

NextAction == plan' = plan \ {action} /\ action' = First(plan') /\ step' = 1

Skip ==
  /\ Applying /\ Target \in failed
  /\ NextAction
  /\ UNCHANGED <<objects, hasDefault, pc, reached, affected, failed, status, scars, starts, faults>>

ActionDone ==
  /\ Applying /\ Target \notin failed /\ Finished
  /\ NextAction
  /\ UNCHANGED <<objects, hasDefault, pc, reached, affected, failed, status, scars, starts, faults>>

AtStep(kind) == Applying /\ Target \notin failed /\ ~Finished /\ Kind = kind

StepDone ==
  /\ step' = step + 1
  /\ UNCHANGED <<hasDefault, pc, reached, plan, action, affected, failed, status, starts>>

(* A statement that finds what it needs: update_replica_state its table,   *)
(* the view its relations, a slot no other of its name, and setup_sink the *)
(* source it asks for the slot, which for a branch is called "default"; a  *)
(* subscription without a slot cannot be enabled.                          *)
Possible(kind) ==
  CASE kind = "lsn"  -> Exists("states", Sink)
    [] kind = "view" -> Exists("store", Target) /\ Exists("table", Main(Target[1]))
    [] kind = "slot" -> ~Exists("slot", Target)
    [] kind = "sub"  -> \/ Exists("sub", Target)
                        \/ ~Exists("husk", Target) /\ (Target[2] = "main" \/ hasDefault)
    [] OTHER         -> TRUE

Make ==
  /\ \E kind \in {"states", "cache", "publication", "table", "slot", "rows", "row",
                  "store", "trigger", "view"} :
       /\ AtStep(kind) /\ Possible(kind)
       /\ objects' = objects \cup {IF kind \in {"states", "cache"} THEN <<kind, Sink>>
                                   ELSE Object(kind, Target)}
       /\ scars' = scars \ {Object(kind, Target)}
  /\ StepDone /\ UNCHANGED faults

(* last_lsn and last_id go to the target's row, if there is one. *)
Save ==
  /\ \E kind \in {"lsn", "cursor"} :
       /\ AtStep(kind) /\ Possible(kind)
       /\ objects' = IF Exists("row", Target) THEN objects \cup {<<kind, Target>>} ELSE objects
  /\ StepDone /\ UNCHANGED <<scars, faults>>

RowsOf(t) == IF t[2] = "main" THEN {<<"rows", t>>} ELSE {}

(* cleanup_vectorizer_infrastructure.  The triggers it drops on the raw    *)
(* table have the very name of the vectorizer it has dropped before.       *)
Cleanup ==
  /\ AtStep("cleanup")
  /\ objects' = objects \ {<<kind, Target>> : kind \in {"view", "store", "trigger"}}
  /\ StepDone /\ UNCHANGED <<scars, faults>>

(* CREATE SUBSCRIPTION makes the slot if it is missing, and then copies    *)
(* the table, unless _replica_state knows of an earlier recovery; one that *)
(* exists is enabled.                                                      *)
Subscribe ==
  /\ AtStep("sub") /\ Possible("sub")
  /\ LET copied == {Object(kind, Target) : kind \in
                      IF Exists("slot", Target) \/ Exists("lsn", Target) THEN {} ELSE {"rows"}}
     IN  \/ /\ Exists("sub", Target)
            /\ UNCHANGED <<objects, scars>>
         \/ /\ ~Exists("sub", Target)
            /\ objects' = objects \cup copied \cup {<<"sub", Target>>, <<"slot", Target>>}
            /\ scars' = (scars \cup RowsOf(Target)) \ objects'
  /\ StepDone /\ UNCHANGED faults

(* It makes the slot and fails; the next attempt meets "already exists",   *)
(* which passes for the subscription's existence.                          *)
SubscribeHalf ==
  /\ AtStep("sub") /\ Possible("sub")
  /\ ~Exists("sub", Target) /\ ~Exists("slot", Target)
  /\ faults < MaxFaults /\ faults' = faults + 1
  /\ objects' = objects \cup {<<"slot", Target>>}
  /\ scars' = (scars \cup RowsOf(Target) \cup {<<"sub", Target>>}) \ objects'
  /\ StepDone

(* What no later plan asks for: the rows once the slot exists, and once    *)
(* the vectorizer does the subscription and a branch's trigger.            *)
Scars == {o \in {<<"rows", Target>>} :
            Type = "Recovery" /\ Target[1] \notin Polling /\ Exists("slot", Target)}
    \cup {o \in {<<"sub", Target>>} \cup
                (IF Target[2] = "branch" THEN {<<"trigger", Target>>} ELSE {}) :
            Type = "VectorizerSetup" /\ ~Finished /\ Kind \in {"sub", "trigger"}
            /\ ~(o[1] = "sub" /\ Target[1] \in Polling)}

NewScars == scars' = scars \cup (Scars \ objects)

(* Mutant: the exception ends the reconciliation. *)
StepFails_Raises ==
  /\ Applying /\ Target \notin failed /\ ~Finished
  /\ Possible(Kind) => faults < MaxFaults
  /\ faults' = IF Possible(Kind) THEN faults + 1 ELSE faults
  /\ failed' = failed \cup ({Target} \ {Sink})
  /\ pc' = "gave_up"
  /\ status' = Marked(MainsOf({Target}), "Failed")
  /\ NewScars
  /\ NextAction
  /\ UNCHANGED <<objects, hasDefault, reached, affected, starts>>

(* Mutant: the rest of the plan is dropped. *)
StepFails_DropsPlan ==
  /\ Applying /\ Target \notin failed /\ ~Finished
  /\ Possible(Kind) => faults < MaxFaults
  /\ faults' = IF Possible(Kind) THEN faults + 1 ELSE faults
  /\ failed' = failed \cup ({Target} \ {Sink})
  /\ status' = Marked(MainsOf({Target}), "Failed")
  /\ NewScars
  /\ plan' = {} /\ action' = NoAction /\ step' = 1
  /\ UNCHANGED <<objects, hasDefault, pc, reached, affected, starts>>

(* The rest of the target's actions will be skipped; a failure of no       *)
(* target's action is only logged.                                         *)
StepFails ==
  /\ Applying /\ Target \notin failed /\ ~Finished
  /\ Possible(Kind) => faults < MaxFaults
  /\ faults' = IF Possible(Kind) THEN faults + 1 ELSE faults
  /\ failed' = failed \cup ({Target} \ {Sink})
  /\ status' = Marked(MainsOf({Target}), "Failed")
  /\ NewScars
  /\ NextAction
  /\ UNCHANGED <<objects, hasDefault, pc, reached, affected, starts>>

(* Mutant: everyone the plan had actions for is Ready. *)
Finish_AllReady ==
  /\ pc = "apply" /\ plan = {}
  /\ pc' = "idle"
  /\ status' = Marked(MainsOf(affected), "Ready")
  /\ UNCHANGED <<objects, hasDefault, planVars, scars, starts, faults>>

Finish ==
  /\ pc = "apply" /\ plan = {}
  /\ pc' = "idle"
  /\ status' = Marked(MainsOf(affected \ failed), "Ready")
  /\ UNCHANGED <<objects, hasDefault, planVars, scars, starts, faults>>

Crash ==
  /\ pc \in {"discover", "apply"}
  /\ faults < MaxFaults /\ faults' = faults + 1
  /\ pc' = "crashed"
  /\ IF Applying /\ Target \notin failed THEN NewScars ELSE UNCHANGED scars
  /\ plan' = {} /\ action' = NoAction /\ step' = 1 /\ affected' = {} /\ failed' = {}
  /\ UNCHANGED <<objects, hasDefault, reached, status, starts>>

(* What drop_subscription_completely may leave of a pipeline.  The sink's  *)
(* half ends at the first error, but one in dropping the subscription: the *)
(* view goes first, the vectorizer with store and trigger last.  It leaves *)
(* the subscription as it was, without its slot, or not at all.  The       *)
(* source's half drops the slot or does not.                               *)
Torn == {"view", "store", "trigger", "sub", "husk", "slot"}

SinkLeft == {Torn \ {"slot"}} \cup
            {a \cup b : a \in {{}, {"store", "trigger"}}, b \in {{}, {"husk"}, {"sub", "husk"}}}
Leftovers == {a \cup b : a \in SinkLeft, b \in {{}, {"slot"}}}

Left(p, kinds) ==
  LET detached == "husk" \in kinds /\ "sub" \notin kinds /\ Exists("sub", Main(p))
  IN  {o \in objects : o[2] = Main(p) /\ o[1] \in kinds}
        \cup (IF detached THEN {<<"husk", Main(p)>>} ELSE {})

(* Orchestrator.stop tears the pipelines down, not their branches; raw     *)
(* tables, publications and _replica_state stay.                           *)
Stop ==
  /\ pc = "idle"
  /\ pc' = "down"
  /\ \E left \in [Pipelines -> Leftovers] :
       /\ objects' = (objects \ {<<kind, Main(p)>> : p \in Pipelines, kind \in Torn})
                        \cup UNION {Left(p, left[p]) : p \in Pipelines}
       /\ IF \A p \in Pipelines : left[p] = {} THEN UNCHANGED faults
          ELSE faults < MaxFaults /\ faults' = faults + 1
  /\ scars' = {o \in scars : o[2][2] = "branch" \/ (o[1] = "rows" /\ <<"slot", o[2]>> \in objects')}
       \cup {o \in {<<"sub", Main(p)>> : p \in Pipelines \ Polling} :
               o \notin objects' /\ <<"store", o[2]>> \in objects'}
  /\ UNCHANGED <<hasDefault, planVars, status, starts>>

Apply == \/ Skip \/ ActionDone \/ Make \/ Save \/ Cleanup
         \/ Subscribe \/ SubscribeHalf \/ StepFails \/ Finish

Reconcile == Apply \/ \E up \in SUBSET Pipelines : Discover(up)

Next == Start \/ Reconcile \/ Crash \/ Stop

Spec == Init /\ [][Next]_vars
FairSpec == Spec /\ WF_vars(Reconcile)

-----------------------------------------------------------------------------
Kinds == {"states", "cache", "publication", "table", "slot", "lsn", "rows", "cursor",
          "row", "store", "sub", "husk", "trigger", "view"}

(* Every variable keeps its type, and of a pipeline without slots nothing  *)
(* is ever made that belongs to one (Steps of Applier.apply).              *)
TypeOK ==
  /\ objects \subseteq Kinds \X (Targets \cup {Sink})
  /\ hasDefault \in BOOLEAN
  /\ pc \in {"down", "discover", "apply", "idle", "crashed", "gave_up"}
  /\ reached \subseteq Pipelines
  /\ plan \subseteq ActionTypes \X (affected \cup {Sink})
  /\ IF plan = {} THEN action = NoAction ELSE action \in plan
  /\ Applying => step \in 1..(Len(Steps(Type, Target)) + 1)
  /\ affected \subseteq Targets /\ failed \subseteq affected
  /\ status \in [Pipelines -> {"none", "Pending", "Syncing", "Ready", "Failed"}]
  /\ scars \subseteq {"rows", "sub", "trigger"} \X Targets
  /\ scars \cap objects = {}
  /\ \A p \in Polling : \A kind \in {"publication", "slot", "sub"} : ~Exists(kind, Main(p))
  /\ starts \in 0..MaxStarts /\ faults \in 0..MaxFaults

(* What a target consists of, once a reconciliation went well for it.      *)
PieceKinds(t) ==
  {"table", "row", "store", "trigger", "view"}
     \cup (IF t[2] = "main" THEN {"rows"} ELSE {})
     \cup (IF t[1] \in Polling THEN {} ELSE {"publication", "sub"})
     \cup (IF t[2] = "main" /\ t[1] \notin Polling THEN {"slot"} ELSE {})
Pieces(t) == {Object(kind, t) : kind \in PieceKinds(t)}

(* A reconciliation repairs: when it ends, every target whose source       *)
(* answered and none of whose own actions failed is whole, whatever failed *)
(* for other targets and at whatever statement earlier reconciliations     *)
(* failed or crashed; the exceptions are the scars, which no later plan    *)
(* looks for (Planner.plan, _expand_branches, Applier.apply).              *)
IdleIsWhole ==
  pc = "idle" => \A t \in Targets \ failed : t[1] \in reached => Pieces(t) \subseteq objects \cup scars

(* A reconciliation only builds: nothing that exists is removed while a    *)
(* plan is applied, for a vectorizer is cleaned up only to be made for the *)
(* first time (Planner.plan, cleanup_vectorizer_infrastructure).           *)
OnlyBuilds == [][pc = "apply" => objects \subseteq objects']_vars

(* At the end of a reconciliation a generation it had actions for is Ready *)
(* if and only if none of them failed (Reconciler.reconcile).              *)
StatusTold ==
  pc = "idle" => \A p \in MainsOf(affected) :
    status[p] = "none" \/ status[p] = IF Main(p) \in failed THEN "Failed" ELSE "Ready"

(* One broken target does not block the others: a reconciliation that does *)
(* not crash comes to its end, however many of its actions fail            *)
(* (Applier.apply), as long as no polled or file source has a branch.      *)
FleetSettles == pc = "discover" ~> pc \in {"idle", "crashed"}
=============================================================================
