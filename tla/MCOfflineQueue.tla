----------------------------- MODULE MCOfflineQueue -----------------------------
(***************************************************************************)
(* Two tabs and more codes than the plan of the position takes.            *)
(***************************************************************************)
EXTENDS OfflineQueue

CONSTANTS a, b, d, t1, t2
==============================================================================
