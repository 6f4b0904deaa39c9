---------------------------- MODULE ControlPlane ----------------------------
(***************************************************************************)
(* The two control-plane requests of the HTTP server on one target:        *)
(* update_config posts a configuration after a trial plan, dry_run         *)
(* previews one.                                                           *)
(*                                                                         *)
(* All requests run on one event loop and share the process's settings;    *)
(* both put the proposal there for the Planner to see.  update_config does *)
(* so between two awaits and restores in a finally; dry_run awaits the     *)
(* resource projections first and restores only if nothing went wrong.     *)
(* save_table_config, called by any process, reads the highest generation  *)
(* and inserts the next one in two statements, with no transaction or      *)
(* unique constraint over them: two saves may store one generation twice.  *)
(*                                                                         *)
(* Abstractions.  A version stands for a configuration.  What discovery    *)
(* reads matters only in whether the Planner then raises, which is left    *)
(* open.  Other targets have their own generations and settings entries.   *)
(* ConfigRollout follows a stored generation from there.                   *)
(***************************************************************************)
EXTENDS Integers, Sequences, FiniteSets

CONSTANTS
  Requests,   \* requests that may arrive
  Versions,   \* configurations
  Own,        \* the version in the process's settings
  None        \* no version

ASSUME RequestsAssumption == IsFiniteSet(Requests)
ASSUME VersionsAssumption == Own \in Versions /\ None \notin Versions

VARIABLES
  settings,   \* settings.pipelines[target_name]
  history,    \* _replica_config_history: requests with their generations
  pc,         \* request -> where it is
  kind,       \* request -> "update" or "dry"
  proposal,   \* request -> the version it carries
  orig,       \* request -> orig_config
  read,       \* request -> curr_gen
  older,      \* history: request -> updates answered before its save began
  leaked      \* history: has a dry run left its proposal behind?

locals == <<kind, proposal, orig, read, older>>
vars == <<settings, history, pc, locals, leaked>>

-----------------------------------------------------------------------------
Generations == {history[i].generation : i \in DOMAIN history}

(* Mutant: the row inserted last. *)
Latest_LastRow == IF history = <<>> THEN 0 ELSE history[Len(history)].generation

Latest == IF history = <<>> THEN 0
          ELSE CHOOSE g \in Generations : \A h \in Generations : h <= g

Projecting == {r \in Requests : pc[r] = "project"}
Answered   == {r \in Requests : pc[r] = "answered"}

At(r, from, to) == pc[r] = from /\ pc' = [pc EXCEPT ![r] = to]

Init ==
  /\ settings = Own
  /\ history = <<>>
  /\ pc = [r \in Requests |-> "new"]
  /\ kind = [r \in Requests |-> "update"]
  /\ proposal = [r \in Requests |-> None]
  /\ orig = [r \in Requests |-> None]
  /\ read = [r \in Requests |-> 0]
  /\ older = [r \in Requests |-> {}]
  /\ leaked = FALSE

(* A request arrives and discovers both ends.  A dry run without a body    *)
(* takes what the settings hold at this moment.                            *)
Arrive(r, k, v) ==
  /\ At(r, "new", "discover")
  /\ kind' = [kind EXCEPT ![r] = k]
  /\ proposal' = [proposal EXCEPT ![r] = v]
  /\ UNCHANGED <<settings, history, orig, read, older, leaked>>

Post(r)    == \E v \in Versions : Arrive(r, "update", v)
Preview(r) == \E v \in Versions \cup {settings} : Arrive(r, "dry", v)

-----------------------------------------------------------------------------
(* update_config.                                                          *)

(* Mutant: the original is put back only if the Planner raises. *)
Admit_KeepsProposal(r) ==
  /\ kind[r] = "update"
  /\ At(r, "discover", "save")
  /\ settings' = proposal[r]
  /\ UNCHANGED <<history, locals, leaked>>

(* Override, plan and restore lie between two awaits.                      *)
Admit(r) ==
  /\ kind[r] = "update"
  /\ At(r, "discover", "save")
  /\ UNCHANGED <<settings, history, locals, leaked>>

Reject(r) ==
  /\ kind[r] = "update"
  /\ At(r, "discover", "rejected")
  /\ UNCHANGED <<settings, history, locals, leaked>>

(* Mutant: saves under way are counted in. *)
ReadGeneration_Reserves(r) ==
  /\ At(r, "save", "insert")
  /\ read' = [read EXCEPT ![r] = Latest + Cardinality({s \in Requests : pc[s] = "insert"})]
  /\ older' = [older EXCEPT ![r] = {a \in Answered : kind[a] = "update"}]
  /\ UNCHANGED <<settings, history, kind, proposal, orig, leaked>>

(* save_table_config, its two statements. *)
ReadGeneration(r) ==
  /\ At(r, "save", "insert")
  /\ read' = [read EXCEPT ![r] = Latest]
  /\ older' = [older EXCEPT ![r] = {a \in Answered : kind[a] = "update"}]
  /\ UNCHANGED <<settings, history, kind, proposal, orig, leaked>>

(* Mutant: the generation read, not the next one. *)
Insert_Same(r) ==
  /\ At(r, "insert", "answered")
  /\ history' = Append(history, [req |-> r, generation |-> read[r]])
  /\ UNCHANGED <<settings, locals, leaked>>

Insert(r) ==
  /\ At(r, "insert", "answered")
  /\ history' = Append(history, [req |-> r, generation |-> read[r] + 1])
  /\ UNCHANGED <<settings, locals, leaked>>

-----------------------------------------------------------------------------
(* dry_run.                                                                *)
Override(r) ==
  /\ kind[r] = "dry"
  /\ At(r, "discover", "project")
  /\ orig' = [orig EXCEPT ![r] = settings]
  /\ settings' = proposal[r]
  /\ leaked' = (leaked \/ Projecting # {})
  /\ UNCHANGED <<history, kind, proposal, read, older>>

(* The Planner raises: nothing restores the settings. *)
PreviewFails(r) ==
  /\ kind[r] = "dry"
  /\ At(r, "discover", "failed")
  /\ settings' = proposal[r]
  /\ leaked' = TRUE
  /\ UNCHANGED <<history, locals>>

Restore(r) ==
  /\ At(r, "project", "answered")
  /\ settings' = orig[r]
  /\ UNCHANGED <<history, locals, leaked>>

(* A query fails or the client goes away at an await. *)
Abort(r) ==
  /\ pc[r] \in {"discover", "save", "insert", "project"}
  /\ pc' = [pc EXCEPT ![r] = "failed"]
  /\ leaked' = (leaked \/ pc[r] = "project")
  /\ UNCHANGED <<settings, history, locals>>

Next == \E r \in Requests :
  \/ Post(r) \/ Admit(r) \/ Reject(r) \/ ReadGeneration(r) \/ Insert(r)
  \/ Preview(r) \/ Override(r) \/ PreviewFails(r) \/ Restore(r)
  \/ Abort(r)

Spec == Init /\ [][Next]_vars

-----------------------------------------------------------------------------
(* Every variable keeps its type; a request is in the history if its       *)
(* insert ran (update_config, dry_run, save_table_config).                 *)
TypeOK ==
  /\ settings \in Versions
  /\ history \in Seq([req : Requests, generation : Nat \ {0}])
  /\ pc \in [Requests -> {"new", "discover", "save", "insert", "project",
                          "answered", "rejected", "failed"}]
  /\ kind \in [Requests -> {"update", "dry"}]
  /\ proposal \in [Requests -> Versions \cup {None}]
  /\ orig \in [Requests -> Versions \cup {None}]
  /\ read \in [Requests -> Nat]
  /\ older \in [Requests -> SUBSET Requests]
  /\ leaked \in BOOLEAN

(* However saves overlap, a post that began after another was answered     *)
(* gets the higher generation, so the newest generation is never a         *)
(* configuration already superseded (save_table_config).                   *)
LaterPostWins ==
  \A i, j \in DOMAIN history :
    history[i].req \in older[history[j].req] =>
      history[i].generation < history[j].generation

(* Generations have no gap: a save that fails between its two statements   *)
(* uses none up, and overlapping saves only ever repeat one                *)
(* (save_table_config).                                                    *)
GenerationsDense == \A g \in Generations : 1..g \subseteq Generations

(* What the shared settings hold is the process's own configuration, or    *)
(* the proposal of a preview in flight, or of one that was left behind     *)
(* because it failed or overlapped another one: a posted configuration is  *)
(* never deployed by the trial plan (update_config, dry_run).              *)
SettingsAreOwn ==
  \/ settings = Own
  \/ \E r \in Requests : /\ kind[r] = "dry" /\ settings = proposal[r]
                         /\ r \in Projecting \/ leaked
=============================================================================
