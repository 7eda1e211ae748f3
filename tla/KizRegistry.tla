------------------------------ MODULE KizRegistry ------------------------------
(***************************************************************************)
(* What the warehouse is promised about a marking code, whatever requests  *)
(* run: a code is bound to at most one order item at a time; it is bound   *)
(* by a shipment and unbound by an undo, a reset or a return; a shipment   *)
(* that follows a return is recorded as re_outbound and any other one as   *)
(* outbound (docs/db-only-architecture.md).                                *)
(***************************************************************************)
CONSTANTS Items, Codes

VARIABLES
    bindings,  \* the <<item, code>> pairs that bind a code
    history    \* the type of the latest movement of a code

TakeBacks == {"return", "undo", "reset"}

RegistryInit ==
    /\ bindings = {}
    /\ history = [c \in Codes |-> "none"]

\* A free code is shipped with an item.
Ship(i, c) ==
    /\ \A j \in Items : <<j, c>> \notin bindings
    /\ bindings' = bindings \cup {<<i, c>>}
    /\ history' = [history EXCEPT ![c] =
                      IF history[c] = "return" THEN "re_outbound" ELSE "outbound"]

\* Some bindings are dissolved in one transaction, for one reason.
TakeBack(S, reason) ==
    /\ bindings' = bindings \ S
    /\ history' = [c \in Codes |->
                      IF \E i \in Items : <<i, c>> \in S THEN reason ELSE history[c]]

RegistryNext ==
    \/ \E i \in Items, c \in Codes : Ship(i, c)
    \/ \E S \in SUBSET bindings, reason \in TakeBacks : TakeBack(S, reason)

RegistrySpec == RegistryInit /\ [][RegistryNext]_<<bindings, history>>
=============================================================================
