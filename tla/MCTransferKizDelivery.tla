------------------------- MODULE MCTransferKizDelivery -------------------------
(***************************************************************************)
(* Two positions, one scan more than they need.                            *)
(***************************************************************************)
EXTENDS TransferKizDelivery

CONSTANTS i1, i2
==============================================================================
