------------------------------ MODULE LeasedQueue ------------------------------
(***************************************************************************)
(* What docs/event-queue-lifecycle.md promises of a queue with leases: a   *)
(* row has at most one holder; who loses a row may go on working on it,    *)
(* but only the holder decides about it, and a row that has ended is never *)
(* handed out again.                                                       *)
(***************************************************************************)
CONSTANTS Rows, Owners, Nobody

VARIABLES
    holder,  \* the owner of the lease of a row, or Nobody
    busy,    \* who is working on what, with a lease or without
    ended    \* rows that need no more work

Init ==
    /\ holder = [e \in Rows |-> Nobody]
    /\ busy = {}
    /\ ended = {}

\* An owner that works on nothing takes free rows.
Take(o, rows) ==
    /\ \A e \in Rows : holder[e] # o /\ <<o, e>> \notin busy
    /\ \A e \in rows : holder[e] = Nobody /\ e \notin ended
    /\ holder' = [e \in Rows |-> IF e \in rows THEN o ELSE holder[e]]
    /\ busy' = busy \cup ({o} \X rows)
    /\ UNCHANGED ended

\* Leases run out, are taken back, or are forgotten by the database.
Lose(rows) ==
    /\ holder' = [e \in Rows |-> IF e \in rows THEN Nobody ELSE holder[e]]
    /\ UNCHANGED <<busy, ended>>

\* The holder decides about a row: it ends, or waits for another try.
Decide(o, e) ==
    /\ holder[e] = o
    /\ <<o, e>> \in busy
    /\ holder' = [holder EXCEPT ![e] = Nobody]
    /\ busy' = busy \ {<<o, e>>}
    /\ ended' \in {ended, ended \cup {e}}

\* Work is given up, and rows may be lost with it.
Quit(gone, rows) ==
    /\ busy' = busy \ gone
    /\ holder' = [e \in Rows |-> IF e \in rows THEN Nobody ELSE holder[e]]
    /\ UNCHANGED ended

Next ==
    \/ \E o \in Owners, rows \in SUBSET Rows : Take(o, rows)
    \/ \E rows \in SUBSET Rows : Lose(rows)
    \/ \E o \in Owners, e \in Rows : Decide(o, e)
    \/ \E gone \in SUBSET (Owners \X Rows), rows \in SUBSET Rows : Quit(gone, rows)

Spec == Init /\ [][Next]_<<holder, busy, ended>>
==============================================================================
