------------------------------ MODULE MCFleet ------------------------------
(* Fleet with a branched pipeline over a replication slot and a polled one *)
(* after it.                                                               *)
EXTENDS Fleet

CONSTANTS p1, p2

MCOrder == <<p1, p2>>
=============================================================================
