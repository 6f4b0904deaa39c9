--------------------------- MODULE MCConfigRollout ---------------------------
(* ConfigRollout for two daemons whose settings name different versions.   *)
EXTENDS ConfigRollout, TLC

CONSTANTS v1, v2, d1, d2

MCOwn == d1 :> v1 @@ d2 :> v2

Calm     == {}
Trouble  == EnvEvents
=============================================================================
