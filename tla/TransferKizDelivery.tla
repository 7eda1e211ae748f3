-------------------------- MODULE TransferKizDelivery --------------------------
(***************************************************************************)
(* The file of codes a client gets when every position of an imported file *)
(* paid by transfer is scanned: backend/app/transfer_kiz_service.py        *)
(* decides in the transactions of the scans, and the one thread of the     *)
(* Telegram worker (backend/app/telegram_transfer_kiz_processor.py) checks *)
(* and sends while the warehouse goes on scanning, undoing and releasing   *)
(* and the administrators close, archive, restore and reset orders         *)
(* (order_actions_service.py).                                             *)
(*                                                                         *)
(* One imported file is modelled, its positions spread over orders.  A     *)
(* position needs one code; a scan is named by the number of its row.  One *)
(* action is one session of the worker or one transaction of the API; the  *)
(* undo is two, because it reads the deliveries before it commits, and a   *)
(* release is its three commits.                                           *)
(***************************************************************************)
EXTENDS Naturals

CONSTANTS
    Items,          \* positions of the file
    Orders,         \* its orders, each the set of its positions
    MayAct,         \* bound: the orders the administrators act on
    MayRelease,     \* bound: the positions whose codes are released
    MaxScans,       \* bound on scans
    MaxDeliveries,  \* bound on deliveries; all but the first are put by hand
    MaxPreSendAttempts, \* TRANSFER_KIZ_MAX_PRE_SEND_ATTEMPTS, 3 in the code
    MaxFaults       \* bound on deaths and failures of the worker

ASSUME OrderAssumption ==
    /\ UNION Orders = Items
    /\ \A o \in Orders, p \in Orders : o \cap p # {} => o = p
    /\ MayAct \subseteq Orders /\ MayRelease \subseteq Items
ASSUME ScanAssumption == MaxScans \in Nat
ASSUME DeliveryAssumption == MaxDeliveries \in Nat \ {0}
ASSUME AttemptAssumption == MaxPreSendAttempts \in Nat
ASSUME FaultAssumption == MaxFaults \in Nat

VARIABLES
    scan,      \* the scan each position holds, or NoScan
    scans,     \* scans so far
    numbered,  \* the orders have their SkladBot request numbers
    order,     \* status of each order
    item,      \* status of each position
    flagged,   \* orders marked completed_without_kiz, themselves and their positions
    released,  \* positions with kiz_released_blocks
    undo,      \* the undo or release of a position under way
    owed,      \* releases whose last commit is due: the position, and the order's status before
    check,     \* status of the completion check of each scan
    delivery,  \* the rows transfer_kiz_client_delivery
    alerts,    \* deliveries with an undo alert
    worker,    \* what its thread is doing, with which row
    file,      \* the file of each delivery that was started
    sends,     \* how often Telegram posted the file of a delivery
    racing,    \* history: scans undone while a delivery was under way
    reset,     \* history: scans removed by a reset of their order
    faults

statusVars == <<order, item, flagged>>
apiVars == <<scan, scans, numbered, statusVars, released, undo, owed, alerts, reset>>
vars == <<apiVars, check, delivery, worker, file, sends, racing, faults>>

NoScan == 0
Waived == MaxScans + 1 \* in a file: a position that needs no code
ScanIds == 1..MaxScans
Deliveries == 1..MaxDeliveries
NoDelivery == 0

Statuses == {"open", "completed", "terminal"} \* terminal: archived or cancelled

NoUndo == [pc |-> "none", alert |-> NoDelivery, was |-> "open"]
NoRow == [status |-> "none", started |-> FALSE, attempts |-> 0]
NoFile == [i \in Items |-> NoScan]
Idle == [pc |-> "idle", row |-> 0, ready |-> FALSE, file |-> NoFile]

Init ==
    /\ scan = [i \in Items |-> NoScan]
    /\ scans = 0
    /\ numbered = FALSE
    /\ order = [o \in Orders |-> "open"]
    /\ item = [i \in Items |-> "open"]
    /\ flagged = {}
    /\ owed = {}
    /\ released = {}
    /\ undo = [i \in Items |-> NoUndo]
    /\ check = [s \in ScanIds |-> "none"]
    /\ delivery = [d \in Deliveries |-> NoRow]
    /\ alerts = {}
    /\ worker = Idle
    /\ file = [d \in Deliveries |-> NoFile]
    /\ sends = [d \in Deliveries |-> 0]
    /\ racing = {}
    /\ reset = {}
    /\ faults = 0

OrderOf(i) == CHOOSE o \in Orders : i \in o

\* item_requires_kiz_completion: the flag alone does not excuse, it takes a
\* status that is closed now, of the position or of its order
Excused(i) ==
    \/ "terminal" \in {item[i], order[OrderOf(i)]}
    \/ OrderOf(i) \in flagged /\ "completed" \in {item[i], order[OrderOf(i)]}

\* transfer_kiz_delivery_readiness and _completion_blockers
Ready ==
    /\ \E i \in Items : scan[i] # NoScan
    /\ numbered
    /\ \A i \in Items : scan[i] # NoScan \/ i \in released \/ Excused(i)

\* build_kiz_source_file_report_xlsx: the codes of the positions
Report == [i \in Items |-> IF scan[i] = NoScan /\ Excused(i) THEN Waived ELSE scan[i]]

Fault == faults < MaxFaults /\ faults' = faults + 1
SetRow(d, status) == delivery' = [delivery EXCEPT ![d].status = status]
DoingDelivery == worker.pc \in {"delivering", "prepared", "sending", "sent"}

-----------------------------------------------------------------------------
(* The API and the SkladBot sync.                                          *)

\* The transaction of an undo holds the rows of its order
Locked(o) == \E i \in o : undo[i].pc = "undoing"

\* create_scan: the row and its check are one transaction
Scan(i) ==
    /\ scan[i] = NoScan
    /\ order[OrderOf(i)] = "open" /\ item[i] # "completed"
    /\ ~Locked(OrderOf(i))
    /\ scans < MaxScans
    /\ scans' = scans + 1
    /\ scan' = [scan EXCEPT ![i] = scans + 1]
    /\ item' = [item EXCEPT ![i] = "completed"]
    /\ check' = [check EXCEPT ![scans + 1] = "pending"]
    /\ UNCHANGED <<numbered, order, flagged, released, undo, owed, delivery, alerts,
                   worker, file, sends, racing, reset, faults>>

Number ==
    /\ ~numbered
    /\ numbered' = TRUE
    /\ UNCHANGED <<scan, scans, statusVars, released, undo, owed, check, delivery, alerts,
                   worker, file, sends, racing, reset, faults>>

EarliestCompleted == \* mutant of LatestCompleted: the alert is about the first delivery
    IF \A d \in Deliveries : delivery[d].status # "completed"
    THEN NoDelivery
    ELSE CHOOSE d \in Deliveries :
            /\ delivery[d].status = "completed"
            /\ \A e \in Deliveries : delivery[e].status = "completed" => d <= e

\* queue_transfer_kiz_undo_alert: the last delivery that is completed
LatestCompleted ==
    IF \A d \in Deliveries : delivery[d].status # "completed"
    THEN NoDelivery
    ELSE CHOOSE d \in Deliveries :
            /\ delivery[d].status = "completed"
            /\ \A e \in Deliveries : delivery[e].status = "completed" => e <= d

\* release_kiz reopens an order that is closed, in a commit of its own
Reopen(i) ==
    /\ i \in MayRelease
    /\ scan[i] # NoScan /\ order[OrderOf(i)] # "open"
    /\ undo[i] = NoUndo /\ ~Locked(OrderOf(i))
    /\ undo' = [undo EXCEPT ![i].pc = "reopened", ![i].was = order[OrderOf(i)]]
    /\ order' = [order EXCEPT ![OrderOf(i)] = "open"]
    /\ UNCHANGED <<scan, scans, numbered, item, flagged, released, owed, check, delivery, alerts,
                   worker, file, sends, racing, reset, faults>>

\* ... and gives it its status back
Restored(o, was) == IF was = "open" THEN order ELSE [order EXCEPT ![o] = was]

\* undo_scan, by itself or for a release, up to its last query.  The rows stay
\* locked until CommitUndo.
BeginUndo(i) ==
    /\ scan[i] # NoScan
    /\ order[OrderOf(i)] = "open"
    /\ undo[i].pc \in {"none", "reopened"} /\ ~Locked(OrderOf(i))
    /\ undo' = [undo EXCEPT ![i].pc = "undoing", ![i].alert = LatestCompleted]
    /\ racing' = IF worker.file[i] = scan[i]
                 THEN racing \cup {scan[i]}
                 ELSE racing
    /\ UNCHANGED <<scan, scans, numbered, statusVars, released, owed, check, delivery, alerts,
                   worker, file, sends, reset, faults>>

CommitUndo(i, release) ==
    /\ undo[i].pc = "undoing"
    /\ IF release THEN i \in MayRelease ELSE undo[i].was = "open"
    /\ scan' = [scan EXCEPT ![i] = NoScan]
    /\ item' = [item EXCEPT ![i] = "open"]
    /\ alerts' = alerts \cup ({undo[i].alert} \ {NoDelivery})
    /\ owed' = IF release THEN owed \cup {<<i, undo[i].was>>} ELSE owed
    /\ undo' = [undo EXCEPT ![i] = NoUndo]
    /\ UNCHANGED <<scans, numbered, order, flagged, released, check, delivery,
                   worker, file, sends, racing, reset, faults>>

\* The undo of a release is refused, or its process dies before
DropRelease(i) ==
    /\ undo[i].pc = "reopened"
    /\ order' = Restored(OrderOf(i), undo[i].was) \/ UNCHANGED order
    /\ undo' = [undo EXCEPT ![i] = NoUndo]
    /\ UNCHANGED <<scan, scans, numbered, item, flagged, released, owed, check, delivery, alerts,
                   worker, file, sends, racing, reset, faults>>

\* release_kiz counts the block and restores the statuses in its last commit,
\* which the process may not live to see
FinishRelease(i, was) ==
    /\ <<i, was>> \in owed /\ ~Locked(OrderOf(i))
    /\ released' = released \cup {i}
    /\ order' = Restored(OrderOf(i), was)
    /\ item' = [item EXCEPT ![i] = "completed"]
    /\ owed' = owed \ {<<i, was>>}
    /\ UNCHANGED <<scan, scans, numbered, flagged, undo, check, delivery, alerts,
                   worker, file, sends, racing, reset, faults>>

-----------------------------------------------------------------------------
(* The administrators, on the rows of an order no undo holds.              *)

\* The same status for an order and the positions among those given
Put(o, status, positions) ==
    /\ o \in MayAct /\ ~Locked(o)
    /\ order' = [order EXCEPT ![o] = status]
    /\ item' = [i \in Items |-> IF i \in positions THEN status ELSE item[i]]
    /\ UNCHANGED <<scans, numbered, released, undo, owed, check, delivery, alerts,
                   worker, file, sends, racing, faults>>

CompleteOrder(o) ==
    /\ order[o] = "open"
    /\ \A i \in o : scan[i] # NoScan
    /\ Put(o, "completed", o)
    /\ UNCHANGED <<scan, flagged, reset>>

\* complete_orders_without_kiz, whatever has been scanned
CompleteWithoutKiz(o) ==
    /\ order[o] = "open"
    /\ Put(o, "completed", o)
    /\ flagged' = flagged \cup {o}
    /\ UNCHANGED <<scan, reset>>

\* archive_order_without_kiz and cancel_order
Archive(o) ==
    /\ order[o] = "open"
    /\ \A i \in o : scan[i] = NoScan
    /\ Put(o, "terminal", o)
    /\ UNCHANGED <<scan, flagged, reset>>

RestoreOrder(o) ==
    /\ order[o] = "terminal"
    /\ Put(o, "open", {i \in o : item[i] = "terminal"})
    /\ UNCHANGED <<scan, flagged, reset>>

\* reset_order_for_rescan: the scans go, and nobody is told; the flag and the
\* released blocks stay
Reset(o) ==
    /\ Put(o, "open", o)
    /\ scan' = [i \in Items |-> IF i \in o THEN NoScan ELSE scan[i]]
    /\ reset' = reset \cup ({scan[i] : i \in o} \ {NoScan})
    /\ UNCHANGED flagged

-----------------------------------------------------------------------------
(* The worker: completion checks.                                          *)

Claimable(status) == status \in {"pending", "failed"}

ClaimCheck(s) ==
    /\ worker.pc = "idle"
    /\ Claimable(check[s])
    /\ check' = [check EXCEPT ![s] = "processing"]
    /\ worker' = [Idle EXCEPT !.pc = "checking", !.row = s]
    /\ UNCHANGED <<apiVars, delivery, file, sends, racing, faults>>

\* process_transfer_kiz_completion_check reads: a scan that is gone ends it
ReadCheck ==
    /\ worker.pc = "checking"
    /\ worker' = [worker EXCEPT !.pc = "checked",
                                !.ready = Ready /\ \E i \in Items : scan[i] = worker.row]
    /\ UNCHANGED <<apiVars, check, delivery, file, sends, racing, faults>>

\* ... and commits: one delivery for the file, ever
CommitCheck ==
    /\ worker.pc = "checked"
    /\ check' = [check EXCEPT ![worker.row] = "completed"]
    /\ IF worker.ready /\ delivery[1] = NoRow THEN SetRow(1, "pending") ELSE UNCHANGED delivery
    /\ worker' = Idle
    /\ UNCHANGED <<apiVars, file, sends, racing, faults>>

FailCheckForGood == \* mutant of FailCheck: not to be tried again
    /\ worker.pc \in {"checking", "checked"}
    /\ Fault
    /\ check' = [check EXCEPT ![worker.row] = "completed"]
    /\ worker' = Idle
    /\ UNCHANGED <<apiVars, delivery, file, sends, racing>>

\* _finish_check_failure: to be tried again, without a limit
FailCheck ==
    /\ worker.pc \in {"checking", "checked"}
    /\ Fault
    /\ check' = [check EXCEPT ![worker.row] = "failed"]
    /\ worker' = Idle
    /\ UNCHANGED <<apiVars, delivery, file, sends, racing>>

-----------------------------------------------------------------------------
(* The worker: deliveries.                                                 *)

ClaimDelivery(d) ==
    /\ worker.pc = "idle"
    /\ Claimable(delivery[d].status)
    /\ delivery' = [delivery EXCEPT ![d].status = "processing", ![d].attempts = @ + 1]
    /\ worker' = [Idle EXCEPT !.pc = "delivering", !.row = d]
    /\ UNCHANGED <<apiVars, check, file, sends, racing, faults>>

\* _deliver: a row already started, or a file no longer complete, is blocked
\* with an alert to the administrators
Invalid ==
    /\ worker.pc = "delivering"
    /\ delivery[worker.row].started \/ ~Ready
    /\ SetRow(worker.row, "blocked")
    /\ worker' = Idle
    /\ UNCHANGED <<apiVars, check, file, sends, racing, faults>>

PrepareUnchecked == \* mutant of Prepare: relies on the check that queued the row
    /\ worker.pc = "delivering"
    /\ ~delivery[worker.row].started
    /\ worker' = [worker EXCEPT !.pc = "prepared", !.file = Report]
    /\ racing' = racing \cup {scan[i] : i \in {j \in Items : undo[j].pc = "undoing"}}
    /\ UNCHANGED <<apiVars, check, delivery, file, sends, faults>>

\* ... otherwise the session that found the file complete builds it
Prepare ==
    /\ worker.pc = "delivering"
    /\ ~delivery[worker.row].started /\ Ready
    /\ worker' = [worker EXCEPT !.pc = "prepared", !.file = Report]
    /\ racing' = racing \cup {scan[i] : i \in {j \in Items : undo[j].pc = "undoing"}}
    /\ UNCHANGED <<apiVars, check, delivery, file, sends, faults>>

StartUnmarked == \* mutant of StartDelivery: the mark is not committed before the call
    /\ worker.pc = "prepared"
    /\ worker' = [worker EXCEPT !.pc = "sending"]
    /\ file' = [file EXCEPT ![worker.row] = worker.file]
    /\ UNCHANGED <<apiVars, check, delivery, sends, racing, faults>>

\* delivery_started is written in a session of its own before the call
StartDelivery ==
    /\ worker.pc = "prepared"
    /\ delivery' = [delivery EXCEPT ![worker.row].started = TRUE]
    /\ worker' = [worker EXCEPT !.pc = "sending"]
    /\ file' = [file EXCEPT ![worker.row] = worker.file]
    /\ UNCHANGED <<apiVars, check, sends, racing, faults>>

\* _delivery_failure before the start: another try after a pause, or a block
FailPreSend ==
    /\ worker.pc \in {"delivering", "prepared"}
    /\ Fault
    /\ SetRow(worker.row, IF delivery[worker.row].attempts >= MaxPreSendAttempts THEN "blocked" ELSE "failed")
    /\ worker' = Idle
    /\ UNCHANGED <<apiVars, check, file, sends, racing>>

Post(d) == sends' = [sends EXCEPT ![d] = @ + 1]

Send ==
    /\ worker.pc = "sending"
    /\ Post(worker.row)
    /\ worker' = [worker EXCEPT !.pc = "sent"]
    /\ UNCHANGED <<apiVars, check, delivery, file, racing, faults>>

\* send_document raises; Telegram may have posted the file all the same
FailSend ==
    /\ worker.pc = "sending"
    /\ Fault
    /\ Post(worker.row) \/ UNCHANGED sends
    /\ SetRow(worker.row, "blocked")
    /\ worker' = Idle
    /\ UNCHANGED <<apiVars, check, file, racing>>

FinishDelivery ==
    /\ worker.pc = "sent"
    /\ SetRow(worker.row, "completed")
    /\ worker' = Idle
    /\ UNCHANGED <<apiVars, check, file, sends, racing, faults>>

-----------------------------------------------------------------------------
(* Death of the process, or of the session that would record an outcome,   *)
(* and the recovery ten minutes later.                                     *)

Die ==
    /\ worker.pc # "idle"
    /\ Fault
    /\ \/ UNCHANGED sends
       \/ worker.pc = "sending" /\ Post(worker.row)
    /\ worker' = Idle
    /\ UNCHANGED <<apiVars, check, delivery, file, racing>>

RecoverCheck(s) ==
    /\ worker.pc = "idle"
    /\ check[s] = "processing"
    /\ check' = [check EXCEPT ![s] = "pending"]
    /\ UNCHANGED <<apiVars, delivery, worker, file, sends, racing, faults>>

RecoverUnstarted(d) == \* mutant of RecoverDelivery: a started row is left alone
    /\ worker.pc = "idle"
    /\ delivery[d].status = "processing" /\ ~delivery[d].started
    /\ SetRow(d, "pending")
    /\ UNCHANGED <<apiVars, check, worker, file, sends, racing, faults>>

RecoverDelivery(d) ==
    /\ worker.pc = "idle"
    /\ delivery[d].status = "processing"
    /\ SetRow(d, IF delivery[d].started THEN "blocked" ELSE "pending")
    /\ UNCHANGED <<apiVars, check, worker, file, sends, racing, faults>>

\* The administrators put a new delivery of the same file by hand, once the
\* previous one has ended (docs/CURRENT_STATUS.md:114)
Resend(d) ==
    /\ d > 1 /\ delivery[d] = NoRow
    /\ delivery[d - 1].status \in {"completed", "blocked"}
    /\ SetRow(d, "pending")
    /\ UNCHANGED <<apiVars, check, worker, file, sends, racing, faults>>

-----------------------------------------------------------------------------
Api(i) ==
    \/ Scan(i)
    \/ Reopen(i) \/ BeginUndo(i) \/ DropRelease(i)
    \/ \E release \in BOOLEAN : CommitUndo(i, release)
    \/ \E was \in Statuses : FinishRelease(i, was)

Admin(o) ==
    CompleteOrder(o) \/ CompleteWithoutKiz(o) \/ Archive(o) \/ RestoreOrder(o) \/ Reset(o)

Progress ==
    \/ \E s \in ScanIds : ClaimCheck(s) \/ RecoverCheck(s)
    \/ ReadCheck \/ CommitCheck
    \/ \E d \in Deliveries : ClaimDelivery(d) \/ RecoverDelivery(d)
    \/ Invalid \/ Prepare \/ StartDelivery \/ Send \/ FinishDelivery

Next ==
    \/ \E i \in Items : Api(i)
    \/ \E o \in Orders : Admin(o)
    \/ Number
    \/ Progress
    \/ FailCheck \/ FailPreSend \/ FailSend \/ Die
    \/ \E d \in Deliveries : Resend(d)

Spec == Init /\ [][Next]_vars

\* The container of the worker is restarted and its loop has no other end;
\* a transaction of the API commits.
Fairness == WF_vars(Progress) /\ \A i \in Items : WF_vars(\E release \in BOOLEAN : CommitUndo(i, release))
FairSpec == Spec /\ Fairness

-----------------------------------------------------------------------------
\* The rows are in states of the queue, and the items and counters within bounds.
TypeOK ==
    /\ scan \in [Items -> ScanIds \cup {NoScan}]
    /\ scans \in 0..MaxScans
    /\ numbered \in BOOLEAN /\ released \subseteq Items
    /\ order \in [Orders -> Statuses] /\ item \in [Items -> Statuses] /\ flagged \subseteq Orders
    /\ undo \in [Items -> [pc : {"none", "reopened", "undoing"}, alert : Deliveries \cup {NoDelivery},
                           was : Statuses]]
    /\ owed \subseteq Items \X Statuses
    /\ check \in [ScanIds -> {"none", "pending", "processing", "completed", "failed"}]
    /\ delivery \in [Deliveries ->
            [status : {"none", "pending", "processing", "completed", "failed", "blocked"},
             started : BOOLEAN, attempts : Nat]]
    /\ alerts \subseteq Deliveries
    /\ worker.pc \in {"idle", "checking", "checked", "delivering", "prepared", "sending", "sent"}
    /\ worker.pc \in {"checking", "checked"} => worker.row \in ScanIds
    /\ DoingDelivery => worker.row \in Deliveries
    /\ worker.ready \in BOOLEAN
    /\ worker.file \in [Items -> ScanIds \cup {NoScan, Waived}]
    /\ file \in [Deliveries -> [Items -> ScanIds \cup {NoScan, Waived}]]
    /\ sends \in [Deliveries -> Nat]
    /\ racing \subseteq ScanIds /\ reset \subseteq ScanIds
    /\ faults \in 0..MaxFaults

\* Deliveries as calls of Telegram: delivery_started is the mark, the status
\* completed the record.
Once == INSTANCE CallOnce WITH
    Calls <- Deliveries,
    Effects <- {1},
    marked <- {d \in Deliveries : delivery[d].started},
    effects <- [d \in Deliveries |-> 1..sends[d]],
    recorded <- {d \in Deliveries : delivery[d].status = "completed"}

\* The file of a delivery is posted once at most and under its mark, whatever
\* dies or fails between the mark, the call and the record of its outcome, and
\* a delivery counts as completed only if its file was posted (_deliver,
\* _delivery_failure, recover_stale_transfer_kiz_events).
DeliveryIsOneCall == Once!Spec

\* A client never gets the file of one delivery twice, whatever dies or fails
\* between the mark of the start, the call and the record of its outcome
\* (_deliver, _delivery_failure, recover_stale_transfer_kiz_events).
SentOnce == \A d \in Deliveries : sends[d] <= 1

\* A position that needed a code when the file was built is missing in a file
\* that was sent only if its block had been released, whatever was undone, reset
\* or restored after the check that queued the delivery (incomplete_kiz_items).
SentIsComplete ==
    \A d \in Deliveries : sends[d] > 0 =>
        \A i \in Items : file[d][i] = NoScan => i \in released

\* A code a client was told of and that its position no longer holds has an
\* alert about that delivery or a later one, unless the undo ran while the
\* file was being built and sent, or the whole order was reset
\* (queue_transfer_kiz_undo_alert).
Undone(d) ==
    {i \in Items : file[d][i] \in ScanIds /\ scan[i] # file[d][i]}
UndoneIsAlerted ==
    \A d \in Deliveries : delivery[d].status = "completed" =>
        \A i \in Undone(d) :
            \/ \E a \in alerts : a >= d
            \/ file[d][i] \in racing \cup reset

\* The same without the exceptions: what the docstring of the alert promises
\* of a delivered code.
DeliveredUndoAlerted ==
    \A d \in Deliveries : delivery[d].status = "completed" =>
        \A i \in Undone(d) : \E a \in alerts : a >= d

\* Every delivery ends, sent or handed to the administrators.
DeliveryEnds ==
    \A d \in Deliveries :
        delivery[d].status # "none" ~> delivery[d].status \in {"completed", "blocked"}

\* A file that is complete while the check of one of its scans waits gets its
\* delivery, unless it stops being complete or that scan is undone; failures
\* and deaths of the worker do not lose the check.  A file that becomes
\* complete later than that, by a request number, is delivered by hand
\* (docs/taksklad-full-functionality.md:359).
Held(s) == \E i \in Items : scan[i] = s
ReadyIsQueued ==
    \A s \in ScanIds :
        Ready /\ Held(s) /\ Claimable(check[s]) ~> \/ delivery[1] # NoRow
                                                  \/ ~Ready
                                                  \/ ~Held(s)
==============================================================================
