---------------------------- MODULE MCGhostSweep ----------------------------
(* GhostSweep over four keys on either side of zero: two chunks that       *)
(* share a key, the first with two pairs of keys of equal bit_xor.         *)
EXTENDS GhostSweep

MCKeys == -2..1
Everything == {"app", "stream", "range_fails", "step_fails"}
=============================================================================
