---------------------------- MODULE MCDesktopQueue ----------------------------
(***************************************************************************)
(* Instances of DesktopQueue for TLC.  The codes are interchangeable, no   *)
(* liveness property is checked, so symmetry is sound.                     *)
(***************************************************************************)
EXTENDS DesktopQueue, TLC

Symmetry == Permutations(Codes)
=============================================================================
