--------------------------- MODULE MCSkladBotCreate ---------------------------
(***************************************************************************)
(* Two orders with the same content.                                       *)
(***************************************************************************)
EXTENDS SkladBotCreate

CONSTANTS a, b
==============================================================================
