---------------------------- MODULE MCKizLifecycle ----------------------------
(***************************************************************************)
(* Small instances of KizLifecycle: two orders, the first with an item of  *)
(* two blocks and, in the wide instance, a second one; two unit codes that *)
(* fit every item and a box of two blocks that fits the first item.        *)
(***************************************************************************)
EXTENDS KizLifecycle, FiniteSetsExt, TLC

CONSTANTS o1, o2, i1, i2, i3, c1, c2, box

MCOrderOf == [i \in Items |-> IF i = i2 THEN o2 ELSE o1]
MCPlan == [i \in Items |-> IF i = i1 THEN 2 ELSE 1]
MCBlocks == [c \in Codes |-> IF c = box THEN 2 ELSE 1]
MCBlocksIn == [S \in SUBSET Codes |-> MapThenSumSet(LAMBDA c : MCBlocks[c], S)]
MCFits == {<<i, c>> \in Items \X Codes : c # box \/ i = i1}

\* Sound where every code of the instance fits every item alike.
Symmetry == Permutations(Releasers) \cup Permutations(Codes)
=============================================================================
