------------------------------ MODULE EventLeases ------------------------------
(***************************************************************************)
(* The queue pending_events with leases (backend/app/event_leases.py,      *)
(* TAKSKLAD_EVENT_LEASES_ENABLED=1) and its two kinds of consumers: the    *)
(* notifications of Telegram (backend/app/telegram_admin_processor.py),    *)
(* claimed one by one, and the creation of SkladBot requests               *)
(* (backend/app/skladbot_request_dry_run.py), claimed in batches.          *)
(*                                                                         *)
(* One action is one transaction or one call to the outside.  A lease that *)
(* has run out is a mark on the rows; when a row may be tried again is     *)
(* left open.                                                              *)
(***************************************************************************)
EXTENDS Naturals, FiniteSets

CONSTANTS
    Events,
    Telegram,   \* the rows that are notifications; the others create requests
    Workers,    \* processes of both kinds
    Owners,     \* uuids
    Nobody,
    MaxFaults   \* bound on deaths, leases that run out under a living worker,
                \* deployments and answers other than success

ASSUME TelegramAssumption == Telegram \subseteq Events
ASSUME EventAssumption == Nobody \notin Owners \cup Events
ASSUME FaultAssumption == MaxFaults \in Nat

VARIABLES
    row,       \* pending_events
    before,    \* rows as the disk has them, for claims that are not flushed yet
    worker,    \* what a process is doing
    sent,      \* how often the outside executed the call of a row, up to two
    limited,   \* rows that got a 429
    faults

vars == <<row, before, worker, sent, limited, faults>>

SkladBot == Events \ Telegram
PostOutcomeAmbiguous == {"started", "ambiguous", "response_received"}
Terminal == {"completed", "blocked"}

NewRow == [status |-> "pending", owner |-> Nobody, expired |-> FALSE, attempts |-> 0, post |-> "none"]
IdleWorker ==
    [pc |-> "idle", owner |-> Nobody, todo |-> {}, event |-> Nobody, result |-> "none", lease |-> Nobody]
Flushed == [e \in {} |-> NewRow]

Init ==
    /\ row = [e \in Events |-> NewRow]
    /\ before = Flushed
    /\ worker = [w \in Workers |-> IdleWorker]
    /\ sent = [e \in Events |-> 0]
    /\ limited = {}
    /\ faults = 0

-----------------------------------------------------------------------------
Fault == faults < MaxFaults /\ faults' = faults + 1
At(w, pc) == worker[w].pc = pc
Goto(w, pc) == worker' = [worker EXCEPT ![w].pc = pc]
Event(w) == worker[w].event
UpToTwo(n) == IF n < 2 THEN n + 1 ELSE 2

\* The batch loop goes to its next row, or the process is done.
NextRow(w) ==
    worker' = [worker EXCEPT ![w] =
                  IF @.todo = {} THEN IdleWorker ELSE [@ EXCEPT !.pc = "batch", !.event = Nobody]]
GiveUp(w) == worker' = [worker EXCEPT ![w] = IdleWorker]

\* Mutant: a row whose lease has run out waits for a recovery.
ClaimableUnlessLeased(e) == row[e].status \in {"pending", "failed"}
Claimable(e) ==
    \/ row[e].status \in {"pending", "failed"}
    \/ row[e].status = "processing" /\ row[e].owner # Nobody /\ row[e].expired

\* Every claim has an owner of its own.
Unused == Owners \ ({row[e].owner : e \in Events} \cup {worker[w].owner : w \in Workers})
NewOwner == CHOOSE o \in Unused : TRUE

Claimed(e, o) ==
    [row[e] EXCEPT !.status = "processing", !.owner = o, !.expired = FALSE, !.attempts = UpToTwo(@)]

\* claim_event_leases.  The claim is committed without waiting for the disk: until
\* something else is, a crash of the database forgets it.
Claim(w, rows) ==
    /\ At(w, "idle")
    /\ Unused # {}
    /\ rows # {}
    /\ \A e \in rows : Claimable(e)
    /\ row' = [e \in Events |-> IF e \in rows THEN Claimed(e, NewOwner) ELSE row[e]]
    /\ before' = [e \in DOMAIN before \cup rows |-> IF e \in DOMAIN before THEN before[e] ELSE row[e]]
    /\ worker' = [worker EXCEPT ![w] = [IdleWorker EXCEPT !.pc = "batch", !.owner = NewOwner, !.todo = rows]]
    /\ UNCHANGED <<sent, limited, faults>>

ClaimNotification(w) == \E e \in Telegram : Claim(w, {e})
ClaimCreates(w) == Claim(w, {e \in SkladBot : Claimable(e)})

Pick(w, e) ==
    /\ At(w, "batch")
    /\ e \in worker[w].todo
    /\ worker' = [worker EXCEPT ![w].pc = IF e \in Telegram THEN "send" ELSE "read",
                                ![w].event = e, ![w].todo = @ \ {e}]
    /\ UNCHANGED <<row, before, sent, limited, faults>>

\* finalize_event_leases for an owner.
\* Mutant: the clock is not compared.
OwnsForever(e, o) == row[e].status = "processing" /\ row[e].owner = o
Owns(e, o) == row[e].status = "processing" /\ row[e].owner = o /\ ~row[e].expired

Finalized(e, status) ==
    [row[e] EXCEPT !.status = status, !.owner = Nobody, !.expired = FALSE]

-----------------------------------------------------------------------------
\* A notification.  send_message may raise although the message got through.
SendNotification(w) ==
    /\ At(w, "send")
    /\ \/ /\ sent' = [sent EXCEPT ![Event(w)] = UpToTwo(@)]
          /\ worker' = [worker EXCEPT ![w].pc = "finish", ![w].result = "completed"]
          /\ UNCHANGED faults
       \/ /\ Fault
          /\ sent' \in {sent, [sent EXCEPT ![Event(w)] = UpToTwo(@)]}
          /\ worker' = [worker EXCEPT ![w].pc = "finish", ![w].result = "failed"]
    /\ UNCHANGED <<row, before, limited>>

\* finish_telegram_notification_event: the owner is the one of the claim.
FinishNotification(w) ==
    /\ At(w, "finish")
    /\ Event(w) \in Telegram
    /\ Owns(Event(w), worker[w].owner)
    /\ row' = [row EXCEPT ![Event(w)] = Finalized(Event(w), worker[w].result)]
    /\ before' = Flushed
    /\ NextRow(w)
    /\ UNCHANGED <<sent, limited, faults>>

\* LeaseOwnershipError: twice for a message that was sent, which ends the poll.
NotificationRefused(w) ==
    /\ At(w, "finish")
    /\ Event(w) \in Telegram
    /\ ~Owns(Event(w), worker[w].owner)
    /\ GiveUp(w)
    /\ UNCHANGED <<row, before, sent, limited, faults>>

-----------------------------------------------------------------------------
\* A create event.  process_skladbot_create_event does not look at the lease.

\* Mutant: the number of attempts does not matter.
MayPostAgain(e) == row[e].post \notin PostOutcomeAmbiguous
MayPost(e) ==
    /\ row[e].post \notin PostOutcomeAmbiguous
    /\ row[e].attempts > 1 => row[e].post = "retry_scheduled"

\* The row is read again after every commit, the owner of its lease with it.
Judged(w, result) ==
    worker' = [worker EXCEPT ![w].pc = "finish", ![w].result = result, ![w].lease = row[Event(w)].owner]

\* A request is found again by its id or by the link of the order, or not at all.
\* Mutant: a POST that was started counts as a request.
IdentifiedByStart == {"started", "response_received", "completed"}
Identified == {"response_received", "completed"}

ReadCreate(w) ==
    /\ At(w, "read")
    /\ IF MayPost(Event(w))
       THEN Goto(w, "start") /\ UNCHANGED faults
       ELSE \/ Judged(w, IF row[Event(w)].post \in Identified THEN "completed" ELSE "ambiguous")
               /\ UNCHANGED faults
            \/ Judged(w, "ambiguous") /\ Fault
    /\ UNCHANGED <<row, before, sent, limited>>

\* post_state is written by primary key, whoever has the row.
StartPost(w) ==
    /\ At(w, "start")
    /\ row' = [row EXCEPT ![Event(w)].post = "started"]
    /\ before' = Flushed
    /\ Goto(w, "post")
    /\ UNCHANGED <<sent, limited, faults>>

PostAnswered(w) ==
    /\ At(w, "post")
    /\ sent' = [sent EXCEPT ![Event(w)] = UpToTwo(@)]
    /\ worker' = [worker EXCEPT ![w].pc = "record", ![w].result = "completed"]
    /\ UNCHANGED <<row, before, limited, faults>>

PostFails(w) ==
    /\ At(w, "post")
    /\ Fault
    /\ \/ /\ sent' \in {sent, [sent EXCEPT ![Event(w)] = UpToTwo(@)]}
          /\ worker' = [worker EXCEPT ![w].pc = "record", ![w].result = "ambiguous"]
          /\ UNCHANGED limited
       \/ Judged(w, "retry_scheduled") /\ limited' = limited \cup {Event(w)} /\ UNCHANGED sent
       \/ Judged(w, "failed_confirmed") /\ UNCHANGED <<sent, limited>>
    /\ UNCHANGED <<row, before>>

\* The commit of response_received, or of ambiguous, before anything else is done.
RecordPost(w) ==
    /\ At(w, "record")
    /\ row' = [row EXCEPT ![Event(w)].post =
                  IF worker[w].result = "completed" THEN "response_received" ELSE "ambiguous"]
    /\ before' = Flushed
    /\ Goto(w, "detail")
    /\ UNCHANGED <<sent, limited, faults>>

\* The number of a request is read by its id; without an id there is nothing to read.
ReadDetail(w) ==
    /\ At(w, "detail")
    /\ \/ Judged(w, worker[w].result) /\ UNCHANGED faults
       \/ worker[w].result = "completed" /\ Judged(w, "ambiguous") /\ Fault
    /\ UNCHANGED <<row, before, sent, limited>>

StatusOf(result) ==
    CASE result = "completed" -> "completed"
      [] result = "retry_scheduled" -> "pending"
      [] OTHER -> "blocked"

\* finish_skladbot_create_event: the owner is the one that was read from the row, and
\* without one nothing is compared.
MayDecide(w) == worker[w].lease = Nobody \/ Owns(Event(w), worker[w].lease)

FinishCreate(w) ==
    LET e == Event(w) IN
    /\ At(w, "finish")
    /\ e \in SkladBot
    /\ MayDecide(w)
    /\ row' = [row EXCEPT ![e] = [Finalized(e, StatusOf(worker[w].result)) EXCEPT !.post = worker[w].result]]
    /\ before' = Flushed
    /\ NextRow(w)
    /\ UNCHANGED <<sent, limited, faults>>

CreateRefused(w) ==
    /\ At(w, "finish")
    /\ Event(w) \in SkladBot
    /\ ~MayDecide(w)
    /\ GiveUp(w)
    /\ UNCHANGED <<row, before, sent, limited, faults>>

-----------------------------------------------------------------------------
\* The leases of an owner run out together: free of charge if its worker is gone.
Expire(o) ==
    /\ \E e \in Events : row[e].status = "processing" /\ row[e].owner = o /\ ~row[e].expired
    /\ IF \E w \in Workers : worker[w].owner = o THEN Fault ELSE UNCHANGED faults
    /\ row' = [e \in Events |-> IF row[e].status = "processing" /\ row[e].owner = o
                                THEN [row[e] EXCEPT !.expired = TRUE] ELSE row[e]]
    /\ UNCHANGED <<before, worker, sent, limited>>

Crash(w) ==
    /\ ~At(w, "idle")
    /\ Fault
    /\ GiveUp(w)
    /\ UNCHANGED <<row, before, sent, limited>>

Requeued(e) == [row[e] EXCEPT !.status = "pending", !.owner = Nobody, !.expired = FALSE]

\* reset_stale_skladbot_create_events, at the start of a pass
ResetStale(e) ==
    /\ e \in SkladBot
    /\ row[e].status = "processing"
    /\ row[e].owner = Nobody \/ row[e].expired
    /\ row' = [row EXCEPT ![e] = Requeued(e)]
    /\ before' = Flushed
    /\ UNCHANGED <<worker, sent, limited, faults>>

\* recover_inflight_event_leases_after_worker_stop: the deployment has stopped the workers.
Deploy ==
    /\ Fault
    /\ worker' = [w \in Workers |-> IdleWorker]
    /\ row' = [e \in Events |-> IF row[e].status = "processing" /\ row[e].owner # Nobody
                                THEN Requeued(e) ELSE row[e]]
    /\ before' = Flushed
    /\ UNCHANGED <<sent, limited>>

WalFlush ==
    /\ before # Flushed
    /\ before' = Flushed
    /\ UNCHANGED <<row, worker, sent, limited, faults>>

\* The database restarts.  Telegram opens a session for every step; the session of
\* the create worker is broken, and its pass ends.
DatabaseCrash ==
    /\ Fault
    /\ row' = [e \in Events |-> IF e \in DOMAIN before THEN before[e] ELSE row[e]]
    /\ before' = Flushed
    /\ worker' = [w \in Workers |->
                     IF (worker[w].todo \cup {Event(w)}) \cap SkladBot # {} THEN IdleWorker ELSE worker[w]]
    /\ UNCHANGED <<sent, limited>>

-----------------------------------------------------------------------------
WorkerStep(w) ==
    \/ \E e \in Events : Pick(w, e)
    \/ SendNotification(w) \/ FinishNotification(w) \/ NotificationRefused(w)
    \/ ReadCreate(w) \/ StartPost(w) \/ PostAnswered(w) \/ PostFails(w) \/ RecordPost(w) \/ ReadDetail(w)
    \/ FinishCreate(w) \/ CreateRefused(w)

Next ==
    \/ \E w \in Workers : ClaimNotification(w) \/ ClaimCreates(w) \/ WorkerStep(w) \/ Crash(w)
    \/ \E o \in Owners : Expire(o)
    \/ \E e \in Events : ResetStale(e)
    \/ Deploy \/ WalFlush \/ DatabaseCrash

\* Processes poll for ever and claim by available_at, so that no row is passed over
\* for ever; calls return; clocks go on.
Fairness ==
    /\ \A w \in Workers : WF_vars(WorkerStep(w))
    /\ \A e \in Telegram : SF_vars(\E w \in Workers : Claim(w, {e}))
    /\ SF_vars(\E w \in Workers : ClaimCreates(w))
    /\ \A o \in Owners : WF_vars(Expire(o))

Spec == Init /\ [][Next]_vars
FairSpec == Spec /\ Fairness

-----------------------------------------------------------------------------
Rows == [status : {"pending", "processing", "failed"} \cup Terminal, owner : Owners \cup {Nobody},
         expired : BOOLEAN, attempts : 0..2,
         post : PostOutcomeAmbiguous \cup {"none", "completed", "retry_scheduled", "failed_confirmed"}]

\* The rows keep the types of their columns, and the locals of the processes theirs.
TypeOK ==
    /\ row \in [Events -> Rows]
    /\ DOMAIN before \subseteq Events
    /\ \A e \in DOMAIN before : before[e] \in Rows
    /\ \A w \in Workers : worker[w].owner \in Owners \cup {Nobody} /\ worker[w].todo \subseteq Events
    /\ sent \in [Events -> 0..2]

\* What a lease is for, on the rows of notifications: one holder at a time, only the
\* holder decides about a row, and a row that ended is not handed out again.  It has
\* to survive leases that run out under a working process, claims the database
\* forgets in a crash, and deployments.
Leases ==
    INSTANCE LeasedQueue WITH
        Rows <- Telegram,
        holder <- [e \in Telegram |->
                      IF row[e].status = "processing" /\ ~row[e].expired THEN row[e].owner ELSE Nobody],
        busy <- {p \in Owners \X Telegram :
                    \E w \in Workers : worker[w].owner = p[1] /\ p[2] \in worker[w].todo \cup {Event(w)}},
        ended <- {e \in Telegram : row[e].status \in Terminal}
LeasesImplemented == Leases!Spec

\* Delivery is at least once: a row is not completed unless the outside did what it
\* asks for, whoever worked on it and whatever was forgotten.
CompletedIsSent == \A e \in Events : row[e].status = "completed" => sent[e] > 0

\* A POST is not repeated by a second owner of the row, although no one looks at the
\* lease before it: the number of attempts tells the second from the first.  After a
\* 429 it does not, and two owners that read the row before either writes both post.
PostedOnce == \A e \in SkladBot \ limited : sent[e] <= 1

\* Every row ends, although claims are forgotten, owners die and leases run out.
Ends == \A e \in Events : <>(row[e].status \in Terminal)

\* A row that is being processed is only decided about by the worker that claimed it.
Decides(w, e) ==
    /\ Event(w) = e /\ At(w, "finish") /\ worker'[w].event # e
    /\ row[e].status = "processing" /\ row'[e].status # "processing"
OnlyHolderDecides ==
    [][\A w \in Workers, e \in Events : Decides(w, e) => row[e].owner = worker[w].owner]_vars
==============================================================================
