--------------------------- MODULE MCLogPipeline ---------------------------
(* Instances of LogPipeline for TLC. *)
EXTENDS LogPipeline

CONSTANTS k1, k2

MCKeys2 == {k1, k2}
==============================================================================
