------------------------------- MODULE CallOnce -------------------------------
(***************************************************************************)
(* What four parts of the program promise of their calls to a service      *)
(* without a key of idempotency (SkladBot's POST, a document of Telegram): *)
(* a call leaves at most one effect, because a mark that the program still *)
(* finds after a crash is there before the call, keeps others from making  *)
(* it, and is taken back only while the call has had no effect; and what   *)
(* is recorded as done was done ("started is committed before the only     *)
(* POST", docs/runbook/SMARTUP_SAGA_RUNBOOK.md:72).                        *)
(*                                                                         *)
(* The effect may come at any time between the mark and its withdrawal,    *)
(* after the program stopped waiting for it as well.                       *)
(***************************************************************************)
CONSTANTS Calls, Effects

VARIABLES
    marked,   \* calls that may have been made, as the program remembers it
    effects,  \* what the calls left behind
    recorded  \* calls the program knows to have succeeded

Init ==
    /\ marked = {}
    /\ effects = [c \in Calls |-> {}]
    /\ recorded = {}

Mark(c) ==
    /\ c \notin marked
    /\ marked' = marked \cup {c}
    /\ UNCHANGED <<effects, recorded>>

TakeEffect(c) ==
    /\ c \in marked
    /\ effects[c] = {}
    /\ \E x \in Effects : effects' = [effects EXCEPT ![c] = {x}]
    /\ UNCHANGED <<marked, recorded>>

Record(c) ==
    /\ effects[c] # {}
    /\ recorded' = recorded \cup {c}
    /\ UNCHANGED <<marked, effects>>

\* The call is known to have had no effect, and may be made again.
Withdraw(c) ==
    /\ c \in marked
    /\ effects[c] = {}
    /\ marked' = marked \ {c}
    /\ UNCHANGED <<effects, recorded>>

Next == \E c \in Calls : Mark(c) \/ TakeEffect(c) \/ Record(c) \/ Withdraw(c)

Spec == Init /\ [][Next]_<<marked, effects, recorded>>
==============================================================================
