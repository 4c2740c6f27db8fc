---------------------------- MODULE MCErpInbound ----------------------------
(* Two processes, and a table of three keys; read in units, the last two  *)
(* are one.                                                                *)
EXTENDS ErpInbound

CONSTANTS r1, r2

MCVersions == [k \in Keys |-> IF k = 2 THEN 2 ELSE 1]
MCUnitOf == [k \in Keys |-> IF k = 1 THEN 1 ELSE 2]
=============================================================================
