--------------------------- MODULE MCOutboxMirror ---------------------------
(* Instances of OutboxMirror: the surroundings of each run.                *)
EXTENDS OutboxMirror, TLC

Calm     == {}
Faults   == {"worker_crash", "sync_fails"}
Anything == EnvEvents

RowSymmetry == Permutations(Rows)
=============================================================================
