-------------------------- MODULE MCHybridRecovery --------------------------
(* Instances of HybridRecovery: the surroundings of each run, and what the *)
(* filter lets through.                                                    *)
EXTENDS HybridRecovery

Calm       == {}
Crashes    == {"crash"}
HotInserts == {"hot_inserts"}
SinkOutage == {"sink_down"}
Outage     == {"outage"}
Anything   == EnvEvents

Everything == 1 .. MaxWrites
FirstTwo   == 1 .. 2
=============================================================================
