------------------------------ MODULE MCEventIds ----------------------------
(* Two bridges and the operator take turns on one run; every process counts  *)
(* from zero, and one of the bridges is restarted.                           *)
EXTENDS EventIds
=============================================================================
