---------------------------- MODULE ConfigRollout ----------------------------
(***************************************************************************)
(* What becomes of the configuration of one target: posted generations,    *)
(* the reconciliation lock, the plan, the vectorizer of a version, the     *)
(* search view, and the teardown that runs without the lock.               *)
(*                                                                         *)
(* Several daemons share the sink.  Each reconciles at its start, after a  *)
(* self-destruct, and whenever a caller of its own asks; it takes the      *)
(* newest generation, or its own configuration if none was ever posted.    *)
(* A reconciliation that finds the lock taken is skipped, not postponed.   *)
(*                                                                         *)
(* Abstractions.  A version stands for configuration, hash and version id. *)
(* A store is filled when pgai has nothing pending for it.  Discovery is   *)
(* one step and includes the plan, which is a function of what was read.   *)
(* Recovery, subscription and outbox are the subject of other modules; the *)
(* mirrors' part of the promotion comes after the count of pending items   *)
(* and is left out, as are branches, inactive configurations and targets   *)
(* whose name differs from their table's.                                  *)
(***************************************************************************)
EXTENDS Integers, Sequences, FiniteSets

CONSTANTS
  Versions,    \* configurations of the target
  Daemons,     \* processes with a Reconciler
  None,        \* no version, no daemon
  Own,         \* daemon -> the version in its settings
  MaxPosts,    \* bound: configurations posted
  MaxFaults,   \* bound: what happens out of Env
  Env          \* what may happen besides ordinary operation

(* "crash": a process dies; "step_fails": a statement of an action raises; *)
(* "raises": one outside the actions does, which ends the whole call and   *)
(* is reported; "unrecorded": one does and is not reported; "teardown": a  *)
(* daemon drops what there is of the target.                               *)
EnvEvents == {"crash", "step_fails", "raises", "unrecorded", "teardown"}

ASSUME SetsAssumption ==
  /\ IsFiniteSet(Versions) /\ IsFiniteSet(Daemons)
  /\ None \notin Versions /\ None \notin Daemons
ASSUME OwnAssumption == Own \in [Daemons -> Versions]
ASSUME BoundsAssumption == MaxPosts \in Nat /\ MaxFaults \in Nat
ASSUME EnvAssumption == Env \subseteq EnvEvents

VARIABLES
  history,    \* _replica_config_history, in the order of its ids
  posting,    \* save_table_config calls between their two statements
  lock,       \* who holds the reconciliation lock
  stores,     \* versions whose vectorizer and store table exist
  filled,     \* stores without pending items
  view,       \* the version the search view selects from
  stateRow,   \* does row sub_<target> of _replica_state exist?
  hash,       \* its config_hash
  pc,         \* daemon -> where its reconciliation is
  config,     \* daemon -> the version it reconciles
  gen,        \* daemon -> that configuration's generation, 0 for its own
  plan,       \* daemon -> actions still to be applied
  due,        \* daemons that are bound to call reconcile
  disturbed,  \* history: reconciliations under which a teardown ran
  faults,     \* how often something of Env has happened
  seen        \* history: "failure", anything but a crash, and "silence",
              \* one that was not reported

postVars  == <<history, posting>>
storeVars == <<stores, filled>>
viewVars  == <<view, stateRow, hash>>
localVars == <<config, gen, plan>>
faultVars == <<faults, seen>>
vars == <<postVars, lock, storeVars, viewVars, pc, localVars, due, disturbed, faultVars>>

-----------------------------------------------------------------------------
Generations == {history[i].generation : i \in DOMAIN history}
Latest == IF history = <<>> THEN 0
          ELSE CHOOSE g \in Generations : \A h \in Generations : h <= g

Entry(v, g) == [version |-> v, generation |-> g, status |-> "Pending"]

(* update_config_status, without observed_generation, which nothing reads. *)
Marked(g, status) ==
  [i \in DOMAIN history |->
     IF history[i].generation # g THEN history[i]
     ELSE [history[i] EXCEPT !.status = status]]

(* Relations of the sink as the Inspector names them.  The search view     *)
(* joins the raw table with the embedding view of a version; it never      *)
(* names a store table.                                                    *)
RawTable     == <<"table">>
Store(v)     == <<"store", v>>
Embedding(v) == <<"embedding", v>>
ViewUsage    == {RawTable, Embedding(view)}

(* get_vectorizer_statuses: pending items by source table.                 *)
Statuses   == [t \in {RawTable} |-> IF stores = filled THEN 0 ELSE 1]
Pending(v) == IF Store(v) \in DOMAIN Statuses THEN Statuses[Store(v)] ELSE 9999

-----------------------------------------------------------------------------
Init ==
  /\ history = <<>> /\ posting = <<>>
  /\ lock = None
  /\ stores = {} /\ filled = {}
  /\ view = None /\ stateRow = FALSE /\ hash = None
  /\ pc = [d \in Daemons |-> "idle"]
  /\ config = Own /\ gen = [d \in Daemons |-> 0] /\ plan = [d \in Daemons |-> {}]
  /\ due = Daemons /\ disturbed = {} /\ faults = 0 /\ seen = {}

-----------------------------------------------------------------------------
(* save_table_config: MAX(generation), then the INSERT, in autocommit.     *)

BeginPost(v) ==
  /\ Len(history) + Len(posting) < MaxPosts
  /\ posting' = Append(posting, Entry(v, Latest + 1))
  /\ UNCHANGED <<history, lock, storeVars, viewVars, pc, localVars, due, disturbed, faultVars>>

EndPost(i) ==
  /\ history' = Append(history, posting[i])
  /\ posting' = [j \in 1 .. Len(posting) - 1 |-> posting[IF j < i THEN j ELSE j + 1]]
  /\ UNCHANGED <<lock, storeVars, viewVars, pc, localVars, due, disturbed, faultVars>>

-----------------------------------------------------------------------------
(* The vectorizer worker, and rows arriving in the raw table.              *)

Embed(v) ==
  /\ v \in stores \ filled
  /\ filled' = filled \cup {v}
  /\ UNCHANGED <<postVars, lock, stores, viewVars, pc, localVars, due, disturbed, faultVars>>

RowArrives ==
  /\ filled # {}
  /\ filled' = {}
  /\ UNCHANGED <<postVars, lock, stores, viewVars, pc, localVars, due, disturbed, faultVars>>

-----------------------------------------------------------------------------
(* Reconciler.reconcile.                                                   *)

At(d, here) == pc[d] = here
Go(d, there) == pc' = [pc EXCEPT ![d] = there]

(* Mutant: nobody asks whether the lock was granted.                       *)
TryLock_Unchecked(d) ==
  /\ At(d, "idle")
  /\ lock' = d /\ Go(d, "load") /\ due' = due \ {d}
  /\ UNCHANGED <<postVars, storeVars, viewVars, localVars, disturbed, faultVars>>

TryLock(d) ==
  /\ At(d, "idle") /\ lock = None
  /\ lock' = d /\ Go(d, "load") /\ due' = due \ {d}
  /\ UNCHANGED <<postVars, storeVars, viewVars, localVars, disturbed, faultVars>>

(* pg_try_advisory_xact_lock does not queue: the call returns.             *)
Skip(d) ==
  /\ At(d, "idle") /\ d \in due /\ lock # None
  /\ due' = due \ {d}
  /\ UNCHANGED <<postVars, lock, storeVars, viewVars, pc, localVars, disturbed, faultVars>>

(* ORDER BY generation DESC LIMIT 1: any of several with the newest.       *)
LoadConfig(d) ==
  /\ At(d, "load")
  /\ \/ /\ history = <<>>
        /\ config' = [config EXCEPT ![d] = Own[d]] /\ gen' = [gen EXCEPT ![d] = 0]
     \/ \E i \in DOMAIN history :
          /\ history[i].generation = Latest
          /\ config' = [config EXCEPT ![d] = history[i].version]
          /\ gen' = [gen EXCEPT ![d] = Latest]
  /\ Go(d, "discover")
  /\ UNCHANGED <<postVars, lock, storeVars, viewVars, plan, due, disturbed, faultVars>>

(* A view that exists is swapped when it serves something else and nothing *)
(* is pending; one that does not exist is set up at once.                  *)
Promotes(v, target) ==
  \/ view = None
  \/ (target # Store(v) \/ (stateRow /\ hash # v)) /\ Pending(v) = 0

(* Mutant: the first view waits for the embeddings, too.                   *)
Discover_NoBootstrap(d) ==
  /\ At(d, "discover")
  /\ plan' = [plan EXCEPT ![d] =
       {a \in {"SINK_VECTORIZER_SETUP", "SINK_VIEW_SETUP"} :
          /\ a = "SINK_VECTORIZER_SETUP" => config[d] \notin stores
          /\ a = "SINK_VIEW_SETUP" => Pending(config[d]) = 0}]
  /\ Go(d, "mark")
  /\ UNCHANGED <<postVars, lock, storeVars, viewVars, config, gen, due, disturbed, faultVars>>

(* Inspector and Planner.  A store that no configuration names is planned  *)
(* for cleanup (the live one, too), which the Applier does not carry out.  *)
Discover(d) ==
  /\ At(d, "discover")
  /\ \E target \in ViewUsage :
       plan' = [plan EXCEPT ![d] =
         {a \in {"SINK_VECTORIZER_SETUP", "SINK_VIEW_SETUP", "SINK_TABLE_CLEANUP"} :
            /\ a = "SINK_VECTORIZER_SETUP" => config[d] \notin stores
            /\ a = "SINK_VIEW_SETUP" => Promotes(config[d], target)
            /\ a = "SINK_TABLE_CLEANUP" => stores \ {config[d]} # {}}]
  /\ Go(d, "mark")
  /\ UNCHANGED <<postVars, lock, storeVars, viewVars, config, gen, due, disturbed, faultVars>>

AfterMark(d)   == IF "SINK_VECTORIZER_SETUP" \in plan[d] THEN "cleanup" ELSE "swap"

(* What a call leaves in the daemon's settings is replaced by the next one *)
(* before it is read.                                                      *)
Forget(d) ==
  /\ plan' = [plan EXCEPT ![d] = {}]
  /\ config' = [config EXCEPT ![d] = Own[d]] /\ gen' = [gen EXCEPT ![d] = 0]
  /\ disturbed' = disturbed \ {d}

Leave(d) ==
  /\ lock' = IF lock = d THEN None ELSE lock
  /\ Go(d, "idle") /\ Forget(d)

Finish(d, status) == history' = Marked(gen[d], status) /\ Leave(d)

(* Without drift the configuration is Ready at once.                       *)
MarkSyncing(d) ==
  /\ At(d, "mark")
  /\ \/ /\ plan[d] = {}
        /\ Finish(d, "Ready")
     \/ /\ plan[d] # {}
        /\ history' = Marked(gen[d], "Syncing")
        /\ Go(d, AfterMark(d)) /\ UNCHANGED <<lock, localVars, disturbed>>
  /\ UNCHANGED <<posting, storeVars, viewVars, due, faultVars>>

(* Mutant: the embeddings' work queue outlives its store.                  *)
Cleanup_KeepsQueue(d) ==
  /\ At(d, "cleanup")
  /\ view' = IF view = config[d] THEN None ELSE view
  /\ stores' = stores \ {config[d]} /\ filled' = filled \cup {config[d]}
  /\ Go(d, "create")
  /\ UNCHANGED <<postVars, lock, stateRow, hash, localVars, due, disturbed, faultVars>>

(* cleanup_vectorizer_infrastructure: a search view over the version goes  *)
(* first, then whatever there is of the version.                           *)
Cleanup(d) ==
  /\ At(d, "cleanup")
  /\ view' = IF view = config[d] THEN None ELSE view
  /\ stores' = stores \ {config[d]} /\ filled' = filled \ {config[d]}
  /\ Go(d, "create")
  /\ UNCHANGED <<postVars, lock, stateRow, hash, localVars, due, disturbed, faultVars>>

CreateStore(d) ==
  /\ At(d, "create")
  /\ stateRow' = TRUE /\ stores' = stores \cup {config[d]}
  /\ Go(d, "swap")
  /\ UNCHANGED <<postVars, lock, filled, view, hash, localVars, due, disturbed, faultVars>>

(* Mutant: the hash is recorded in a transaction of its own, and only when *)
(* there was a view before.                                                *)
SwapView_HashLater(d) ==
  /\ At(d, "swap")
  /\ IF "SINK_VIEW_SETUP" \in plan[d] /\ config[d] \in stores
     THEN view' = config[d] /\ hash' = IF hash = None THEN config[d] ELSE hash
     ELSE UNCHANGED <<view, hash>>
  /\ Go(d, "ready")
  /\ UNCHANGED <<postVars, lock, storeVars, stateRow, localVars, due, disturbed, faultVars>>

(* atomic_view_swap; CREATE VIEW needs the version's embedding view.       *)
SwapView(d) ==
  /\ At(d, "swap")
  /\ \/ /\ "SINK_VIEW_SETUP" \in plan[d] /\ config[d] \in stores
        /\ view' = config[d] /\ hash' = IF stateRow THEN config[d] ELSE hash
     \/ "SINK_VIEW_SETUP" \notin plan[d] /\ UNCHANGED <<view, hash>>
  /\ Go(d, "ready")
  /\ UNCHANGED <<postVars, lock, storeVars, stateRow, localVars, due, disturbed, faultVars>>

MarkReady(d) ==
  /\ At(d, "ready")
  /\ Finish(d, "Ready")
  /\ UNCHANGED <<posting, storeVars, viewVars, due, faultVars>>

-----------------------------------------------------------------------------
(* Failures.                                                               *)

Fault(kind) ==
  /\ kind \in Env /\ faults < MaxFaults
  /\ faults' = faults + 1
  /\ seen' = seen \cup (CASE kind = "crash"      -> {}
                           [] kind = "unrecorded" -> {"failure", "silence"}
                           [] OTHER               -> {"failure"})

(* CREATE VIEW without its embedding view: a teardown was there meanwhile. *)
SwapFails(d) ==
  /\ At(d, "swap") /\ "SINK_VIEW_SETUP" \in plan[d] /\ config[d] \notin stores
  /\ Finish(d, "Failed")
  /\ UNCHANGED <<posting, storeVars, viewVars, due, faultVars>>

(* Mutant: the other actions of a failed target are applied all the same,  *)
(* and it is reported Ready.                                               *)
StepFails_Continues(d) ==
  /\ Fault("step_fails")
  /\ \/ At(d, "cleanup") \/ At(d, "create")
     \/ At(d, "swap") /\ "SINK_VIEW_SETUP" \in plan[d]
  /\ Go(d, "ready")
  /\ UNCHANGED <<postVars, lock, storeVars, viewVars, localVars, due, disturbed>>

(* Mutant: the failed target is left as it is.                             *)
StepFails_Unreported(d) ==
  /\ Fault("step_fails")
  /\ \/ At(d, "cleanup") \/ At(d, "create")
     \/ At(d, "swap") /\ "SINK_VIEW_SETUP" \in plan[d]
  /\ Finish(d, "Syncing")
  /\ UNCHANGED <<posting, storeVars, viewVars, due>>

(* Applier.apply reports Failed and skips the target's other actions.      *)
StepFails(d) ==
  /\ Fault("step_fails")
  /\ \/ At(d, "cleanup") \/ At(d, "create")
     \/ At(d, "swap") /\ "SINK_VIEW_SETUP" \in plan[d]
  /\ Finish(d, "Failed")
  /\ UNCHANGED <<posting, storeVars, viewVars, due>>

(* A call that raises once the actions have begun reports every target it  *)
(* has an action for as Failed, unless that raises, too; before, or if     *)
(* there is nothing to do, it reports nothing.  At a start it is made      *)
(* again (wait_until), after an auto-heal it is not.                       *)
Applying(d) == pc[d] \in {"mark", "cleanup", "create", "swap", "ready"} /\ plan[d] # {}

CallRaises(d) ==
  /\ pc[d] \notin {"idle", "drop"}
  /\ \/ Fault("raises") /\ Applying(d) /\ Finish(d, "Failed")
     \/ Fault("unrecorded") /\ Leave(d) /\ UNCHANGED history
  /\ due' \in {due, due \cup {d}}
  /\ UNCHANGED <<posting, storeVars, viewVars>>

(* The lock ends with the daemon's transaction, and a daemon that starts   *)
(* again reconciles.                                                       *)
Crash(d) ==
  /\ Fault("crash")
  /\ pc[d] # "idle"
  /\ Leave(d) /\ due' = due \cup {d}
  /\ UNCHANGED <<postVars, storeVars, viewVars>>

(* drop_subscription_completely of a daemon that is not reconciling: it    *)
(* drops the search view, then the vectorizers, and asks for no lock.      *)
Reconciling == {d \in Daemons : pc[d] \notin {"idle", "drop"}}

BeginTeardown(d) ==
  /\ Fault("teardown")
  /\ At(d, "idle") /\ d \notin due
  /\ view' = None /\ disturbed' = disturbed \cup Reconciling
  /\ Go(d, "drop")
  /\ UNCHANGED <<postVars, lock, storeVars, stateRow, hash, localVars, due>>

(* Vectorizers are dropped one by one until an error: one that a new       *)
(* search view depends on is not dropped.  The watchdog reconciles next; a *)
(* daemon that stops does not.                                             *)
DropStores(d) ==
  /\ At(d, "drop")
  /\ stores' \in SUBSET stores
  /\ view # None => view \in stores'
  /\ filled' = filled \cap stores' /\ disturbed' = disturbed \cup Reconciling
  /\ Go(d, "idle") /\ due' \in {due, due \cup {d}}
  /\ UNCHANGED <<postVars, lock, viewVars, localVars, faultVars>>

-----------------------------------------------------------------------------
Goes(d) ==
  \/ LoadConfig(d) \/ Discover(d) \/ MarkSyncing(d)
  \/ Cleanup(d) \/ CreateStore(d) \/ SwapView(d) \/ SwapFails(d) \/ MarkReady(d)

Posts == (\E v \in Versions : BeginPost(v)) \/ \E i \in DOMAIN posting : EndPost(i)

Next ==
  \/ Posts \/ RowArrives
  \/ \E v \in Versions : Embed(v)
  \/ \E d \in Daemons : \/ TryLock(d) \/ Skip(d) \/ Goes(d) \/ StepFails(d)
                        \/ CallRaises(d) \/ Crash(d) \/ BeginTeardown(d) \/ DropStores(d)

Spec == Init /\ [][Next]_vars

(* A call that began goes on, and so does a teardown; a daemon that is     *)
(* bound to reconcile does.  Nobody is bound to call it again: not after a *)
(* post, a failed step or a skipped call.                                  *)
Calls(d) == d \in due /\ TryLock(d)

Fairness ==
  /\ \A d \in Daemons : /\ WF_vars(Calls(d) \/ Skip(d)) /\ WF_vars(Goes(d))
                        /\ WF_vars(DropStores(d))
  /\ \A v \in Versions : WF_vars(Embed(v))
  /\ WF_vars(\E i \in DOMAIN posting : EndPost(i))

FairSpec == Spec /\ Fairness

-----------------------------------------------------------------------------
(* Properties.                                                             *)

StatusNames == {"Pending", "Syncing", "Ready", "Failed"}
Actions   == {"SINK_VECTORIZER_SETUP", "SINK_VIEW_SETUP", "SINK_TABLE_CLEANUP"}
Entries   == [version : Versions, generation : 1 .. MaxPosts,
              status : StatusNames]

Places    == {"idle", "load", "discover", "mark", "cleanup", "create", "swap",
              "ready", "drop"}

HistoryOK ==
  /\ history \in Seq(Entries) /\ posting \in Seq(Entries)
  /\ Len(history) + Len(posting) <= MaxPosts

SinkOK ==
  /\ lock \in Daemons \cup {None}
  /\ stores \subseteq Versions /\ filled \subseteq stores
  /\ view \in Versions \cup {None} /\ hash \in Versions \cup {None}
  /\ stateRow \in BOOLEAN

CallsOK ==
  /\ pc \in [Daemons -> Places]
  /\ config \in [Daemons -> Versions] /\ gen \in [Daemons -> 0 .. MaxPosts]
  /\ plan \in [Daemons -> SUBSET Actions]
  /\ due \subseteq Daemons /\ disturbed \subseteq Daemons
  /\ faults \in 0 .. MaxFaults /\ seen \subseteq {"failure", "silence"}

(* The type invariant; a generation never exceeds the number of posts.     *)
TypeOK == HistoryOK /\ SinkOK /\ CallsOK

(* Why the properties below hold: whoever reconciles holds the lock; the   *)
(* view's store exists; a vectorizer is set up only where there is none;   *)
(* and what a reconciliation without a teardown has achieved so far.       *)
HoldsLock == \A d \in Reconciling : lock = d

ViewHasStore ==
  /\ view # None => view \in stores
  /\ stores # {} => stateRow

SetupIsNeeded ==
  \A d \in Daemons :
    /\ pc[d] \in {"mark", "cleanup"} /\ "SINK_VECTORIZER_SETUP" \in plan[d]
         => config[d] \notin stores
    /\ pc[d] = "cleanup" => "SINK_VECTORIZER_SETUP" \in plan[d]

StoreComes(d) == config[d] \in stores \/ "SINK_VECTORIZER_SETUP" \in plan[d]
ViewComes(d)  == view # None \/ "SINK_VIEW_SETUP" \in plan[d]

PlanIsEnough ==
  \A d \in Daemons \ disturbed :
    /\ pc[d] = "mark" => StoreComes(d) /\ ViewComes(d)
    /\ pc[d] \in {"cleanup", "create"} => ViewComes(d)
    /\ pc[d] = "swap" => config[d] \in stores /\ ViewComes(d)
    /\ pc[d] = "ready" => config[d] \in stores /\ view # None

(* A search view that is served goes away only in a teardown: two          *)
(* reconciliations that both plan the same vectorizer would have the later *)
(* one's cleanup_vectorizer_infrastructure drop the view the earlier one   *)
(* has just set up.  What prevents it is reconciliation_lock.              *)
ViewStays ==
  [][view # None /\ view' = None =>
       \E d \in Daemons : pc[d] = "idle" /\ pc'[d] = "drop"]_vars

(* A generation becomes Ready only when its version has its vectorizer and *)
(* the target has a search view, unless a teardown ran meanwhile: what     *)
(* failed is not among successful_targets, whichever step failed.          *)
BecomesReady(i) == history'[i].status = "Ready" /\ history[i].status # "Ready"

ReadyIsBuilt ==
  [][\A i \in DOMAIN history, d \in Daemons :
       BecomesReady(i) /\ pc[d] # "idle" /\ pc'[d] = "idle" /\ d \notin disturbed
         => config[d] \in stores' /\ view' # None]_vars

(* The recorded config_hash is that of the version the search view shows,  *)
(* through crashes and teardowns: atomic_view_swap is one transaction, and *)
(* the row it updates is there before any view is.                         *)
HashFollowsView == view # None => hash = view

(* The newest generation does not stay Syncing: whoever marked it so ends  *)
(* it, or dies and reconciles again, or is skipped because another daemon  *)
(* is about to load the newest generation itself - unless a call failed    *)
(* without a report of it.                                                 *)
Newest == {i \in DOMAIN history : history[i].generation = Latest}

NewestSettles ==
  []<>("silence" \in seen \/ \A i \in Newest : history[i].status # "Syncing")

(* Crashes alone never leave the target without its search view for good:  *)
(* not even when all other daemons skipped their reconciliation because    *)
(* the one that crashed was at it.                                         *)
Served == <>[](view # None \/ "failure" \in seen)

(* "The system automatically builds new vector versions in the background  *)
(* and only swaps the public view once synchronization is complete": a     *)
(* version that stays the newest one, with nothing pending and daemons     *)
(* that keep reconciling, is shown at last.                                *)
Promoted ==
  \A v \in Versions :
    /\ <>[](Newest # {} /\ \A i \in Newest : history[i].version = v)
    /\ <>[](stores = filled)
    /\ []<>(\E d \in Daemons : pc[d] = "discover")
    => <>(view = v)

=============================================================================
