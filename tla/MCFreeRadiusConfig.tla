------------------------- MODULE MCFreeRadiusConfig -------------------------
(* An instance of FreeRadiusConfig for TLC. *)
EXTENDS FreeRadiusConfig, TLC

CONSTANTS d1, v1, v2, m1, t1, t2

MCDevices == {d1}
MCValues == {v1, v2}
MCMacs1 == {m1}
MCThreads == {t1, t2}
=============================================================================
