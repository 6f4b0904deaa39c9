--------------------------- MODULE ReplicaContract ---------------------------
(***************************************************************************)
(* What a CDC target promises about its copy of the source table, key by   *)
(* key and without any mechanism: with an anchor (a replication slot) in   *)
(* place, a key that is level stays level until it is written, a written   *)
(* key is owed until it is delivered, and no key gets lost.  Only giving   *)
(* the anchor up, or writing without one, loses a key.  The contract may   *)
(* become void, and then promises nothing.                                 *)
(***************************************************************************)
CONSTANT Keys

VARIABLES
  anchored,   \* does the source keep what the copy has not seen?
  standing,   \* key -> "level", "owed" or "lost"
  void        \* has something happened that ends the contract?

vars == <<anchored, standing, void>>

Init ==
  /\ anchored = FALSE /\ void = FALSE
  /\ standing = [k \in Keys |-> "level"]

(* A write under the anchor is owed; if the key was lost it may remain so, *)
(* and without an anchor nobody will deliver it.                           *)
Write(k) ==
  /\ \E now \in {"level", "owed", "lost"} :
       /\ standing' = [standing EXCEPT ![k] = now]
       /\ anchored => now = "owed" \/ (now = "lost" /\ standing[k] = "lost")
       /\ ~anchored => now # "owed"
  /\ UNCHANGED <<anchored, void>>

(* Delivery and repair: owed keys become level, lost keys become anything. *)
Mend ==
  /\ anchored
  /\ standing' \in [Keys -> {"level", "owed", "lost"}]
  /\ \A k \in Keys : \/ standing'[k] = standing[k]
                     \/ standing[k] = "owed" /\ standing'[k] = "level"
                     \/ standing[k] = "lost"
  /\ UNCHANGED <<anchored, void>>

Anchor ==
  /\ ~anchored /\ anchored' = TRUE
  /\ UNCHANGED <<standing, void>>

(* Giving the anchor up forgets what is owed.                              *)
Release ==
  /\ anchored /\ anchored' = FALSE
  /\ standing' \in [Keys -> {"level", "lost"}]
  /\ \A k \in Keys : standing[k] # "owed" => standing'[k] = standing[k]
  /\ UNCHANGED void

Next == void' \/ (\E k \in Keys : Write(k)) \/ Mend \/ Anchor \/ Release

Spec == Init /\ [][Next]_vars
=============================================================================
