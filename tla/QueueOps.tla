------------------------------- MODULE QueueOps -------------------------------
(***************************************************************************)
(* What DesktopQueue and OfflineQueue share: the codes and the blocks of   *)
(* the position, and queues as lists that events are filtered out of.      *)
(***************************************************************************)
EXTENDS Naturals, Sequences

CONSTANTS
    Codes,   \* marking codes
    Plan     \* how many of them the position takes

\* The queue q without the events of S: SelectSeq(q, LAMBDA e : e \notin S), as a
\* recursive function, which a proof can unfold.
Without(q, S) ==
    LET rest[n \in 0..Len(q)] ==
            IF n = 0 THEN <<>>
            ELSE IF q[n] \in S THEN rest[n - 1]
            ELSE Append(rest[n - 1], q[n])
    IN rest[Len(q)]
=============================================================================
