------------------------ MODULE MCSkladBotReturnCreate ------------------------
(***************************************************************************)
(* Small instances of SkladBotReturnCreate: two returned orders whose      *)
(* requests have different bodies, or the same one.                        *)
(***************************************************************************)
EXTENDS SkladBotReturnCreate

CONSTANTS a, b

DistinctBodies == [o \in Orders |-> o]
SameBody == [o \in Orders |-> "body"]
=============================================================================
