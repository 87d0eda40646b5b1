---------------------------- MODULE MCReadiness ----------------------------
(***************************************************************************)
(* The instance of Readiness for TLC: probes over two checks.              *)
(***************************************************************************)
EXTENDS Readiness

MCOrder == <<"database", "cache">>
=============================================================================
