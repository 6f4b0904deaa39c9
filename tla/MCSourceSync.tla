---------------------------- MODULE MCSourceSync ----------------------------
(* SourceSync with as many keys as it takes for a page of markers to lie   *)
(* between two pages of objects.                                           *)
EXTENDS SourceSync

CONSTANTS a, b
=============================================================================
