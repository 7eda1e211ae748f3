------------------------------- MODULE MCImports -------------------------------
(***************************************************************************)
(* Five rows of one client and product: two without a deal, which become   *)
(* one position, one of a Smartup order, and two of another.               *)
(***************************************************************************)
EXTENDS Imports

CONSTANTS w1, w2, r1, r2, r3, r4, r5, p, d1, d2

MCDeal == (r1 :> NoDeal) @@ (r2 :> NoDeal) @@ (r3 :> d1) @@ (r4 :> d2) @@ (r5 :> d2)
MCProduct == [r \in Rows |-> p]

\* Files that share rows, a file uploaded twice, and one that repeats a row.
MCFile ==
    ("e1" :> <<r1, r2>>) @@ ("e2" :> <<r2, r3, r2, r5>>)
    @@ ("e3" :> <<r4>>) @@ ("e4" :> <<r1, r2>>)

Symmetry == Permutations(Importers)
==============================================================================
