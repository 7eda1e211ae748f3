----------------------------- MODULE MCEventLeases -----------------------------
(***************************************************************************)
(* Two processes, and more owners than can be in use.                      *)
(***************************************************************************)
EXTENDS EventLeases

CONSTANTS a, b, x, y, u, v, o1, o2, o3, o4, o5
==============================================================================
