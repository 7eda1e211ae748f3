----------------------------- MODULE SmartupSaga -----------------------------
(***************************************************************************)
(* The Smartup worker in the production mode "enforced"                    *)
(* (backend/app/smartup_auto_import.py and smartup_saga.py): the slots of  *)
(* one export day, the saga of each deal, the sweep that resumes sagas     *)
(* whatever their slot, the file for the client and the report for the     *)
(* logistics.  Smartup, Telegram and the worker that creates the SkladBot  *)
(* requests are the environment.                                           *)
(*                                                                         *)
(* One action is one commit, or one exchange with Smartup or Telegram.  A  *)
(* deal has one order; its payload does not change while it is processed.  *)
(***************************************************************************)
EXTENDS Naturals, Sequences, FiniteSets

CONSTANTS
    Deals,      \* deals of one target delivery date
    Processes,  \* processes that run sweeps and slots: the worker, a run-once
    LastSlot,   \* the slots of the day are 1..LastSlot
    MayLeave,   \* deals a manager may take out of the statuses we can read
    MayReturn,  \* deals a manager may put back to the source status, once each
    MayChat,    \* deals whose order may come through the chat as well
    MaxFaults   \* bound on crashes, lost answers and refusals

ASSUME DealsAssumption == IsFiniteSet(Deals)
ASSUME SlotAssumption == LastSlot \in Nat \ {0}
ASSUME ManagerAssumption == MayLeave \subseteq Deals /\ MayReturn \subseteq Deals /\ MayChat \subseteq Deals
ASSUME FaultAssumption == MaxFaults \in Nat

Slots == 1..LastSlot
Chat == 0   \* an import that is not of a slot
Evening == LastSlot + 1

\* smartup_fulfillments.state; "none": no row
States ==
    {"none", "local_ready", "smartup_write_started", "smartup_ambiguous", "smartup_confirmed",
     "skladbot_create_queued", "skladbot_post_started", "skladbot_created", "skladbot_ambiguous"}
\* Mutant: a deal with an unproved write is left to the next slot.
RecoverableUnlessAmbiguous == {"local_ready", "smartup_write_started", "smartup_confirmed"}
RecoverableStates ==
    {"local_ready", "smartup_write_started", "smartup_ambiguous", "smartup_confirmed"}
\* payload.saga_state of the deal's pending_events row
EventStates ==
    {"intent_persisted", "remote_write_started", "remote_failed", "remote_confirmed",
     "skladbot_pending", "skladbot_queued"}
RemoteConfirmed == {"remote_confirmed", "skladbot_pending", "skladbot_queued"}
Reconcile == {"remote_write_started", "remote_failed"}

VARIABLES
    remote,    \* the status of a deal in Smartup
    back,      \* history: the status a deal was put back to the source status from
    flying,    \* deals whose write got no answer and may still arrive in Smartup
    jobs,      \* the slot whose import job brought the rows of the deal, or Chat, if any
    saga,      \* the fulfilment of a deal and its event
    create,    \* the SkladBot create event of the deal's order
    slot,      \* the event of a slot, with the result of the run that completed it
    delivery,  \* the durable claim of a slot's file for the client
    file,      \* the files the client received for a slot: their deals, and the imported ones
    report,    \* the event of the logistics report of the day
    now,       \* the slot that is due; LastSlot + 1 in the evening
    proc,      \* what each process is doing
    unread,    \* deals written to and not read back since
    faults

vars == <<remote, back, flying, jobs, saga, create, slot, delivery, file, report, now, proc, unread, faults>>

NoSaga == [state |-> "none", event |-> "intent_persisted", row |-> "pending", slot |-> 0, tied |-> FALSE]
NewSlot == [row |-> "none", result |-> "none", deals |-> {}]
Idle ==
    [pc |-> "idle", kind |-> "none", slot |-> 0, work |-> {}, todo |-> {}, export |-> {},
     seen |-> [d \in {} |-> "none"], ok |-> {}, bad |-> FALSE]

Init ==
    /\ remote = [d \in Deals |-> "absent"]
    /\ back = [d \in Deals |-> "none"]
    /\ flying = {}
    /\ jobs = [d \in Deals |-> {}]
    /\ saga = [d \in Deals |-> NoSaga]
    /\ create = [d \in Deals |-> "none"]
    /\ slot = [s \in Slots |-> NewSlot]
    /\ delivery = [s \in Slots |-> "none"]
    /\ file = [s \in Slots |-> <<>>]
    /\ report = "none"
    /\ now = 1
    /\ proc = [p \in Processes |-> Idle]
    /\ unread = {}
    /\ faults = 0

-----------------------------------------------------------------------------
dbVars == <<jobs, saga, create, slot, delivery, report>>
worldVars == <<remote, back, flying, file, now, unread>>

At(p, pc) == proc[p].pc = pc
Goto(p, pc) == proc' = [proc EXCEPT ![p].pc = pc]
Fault == faults < MaxFaults /\ faults' = faults + 1

\* sync_legacy_saga_event: states without an entry leave the event as it is.
Legacy ==
    [local_ready |-> "intent_persisted", smartup_write_started |-> "remote_write_started",
     smartup_confirmed |-> "remote_confirmed", skladbot_create_queued |-> "skladbot_queued",
     skladbot_post_started |-> "skladbot_pending", skladbot_created |-> "skladbot_queued"]
Synced(x) ==
    IF x.state \in DOMAIN Legacy THEN [x EXCEPT !.event = Legacy[x.state]] ELSE x

\* The exception that ends a slot is recorded on its event; a sweep just ends.
Fail(p, row) ==
    /\ slot' = IF proc[p].kind = "sweep" THEN slot ELSE [slot EXCEPT ![proc[p].slot].row = row]
    /\ proc' = [proc EXCEPT ![p] = Idle]

\* mark_smartup_slot_completed
Complete(p, result, deals) ==
    /\ slot' = [slot EXCEPT ![proc[p].slot] = [row |-> "completed", result |-> result, deals |-> deals]]
    /\ proc' = [proc EXCEPT ![p] = Idle]

-----------------------------------------------------------------------------
\* How a process starts.

\* load_recoverable_fulfillment_events: an ambiguous deal may be in its backoff.
Recoverable == {d \in Deals : saga[d].state \in RecoverableStates}
MayWait == {d \in Deals : saga[d].state = "smartup_ambiguous"}

\* sweep_incomplete_smartup_fulfillments, under its advisory lock
Sweep(p, deals) ==
    /\ At(p, "idle")
    /\ \A q \in Processes : proc[q].kind # "sweep"
    /\ deals # {}
    /\ Recoverable \ MayWait \subseteq deals /\ deals \subseteq Recoverable
    /\ proc' = [proc EXCEPT ![p] = [Idle EXCEPT !.pc = "read", !.kind = "sweep", !.work = deals]]
    /\ UNCHANGED <<dbVars, worldVars, faults>>

\* claim_smartup_slot, under the advisory lock of the slot: new, failed, or left
\* in processing by a run that died half an hour ago
ClaimSlot(p) ==
    /\ At(p, "idle")
    /\ now \in Slots
    /\ \A q \in Processes : proc[q].slot # now
    /\ slot[now].row \in {"none", "failed", "processing"}
    /\ slot' = [slot EXCEPT ![now].row = "processing"]
    /\ proc' = [proc EXCEPT ![p] = [Idle EXCEPT !.pc = "orphans", !.kind = "slot", !.slot = now]]
    /\ UNCHANGED <<jobs, saga, create, delivery, report, worldVars, faults>>

\* prepare_deal_sagas: a new row, or the existing one with its first slot
Prepared(deals, s) ==
    [d \in Deals |->
        IF d \notin deals THEN saga[d]
        ELSE IF saga[d].state = "none"
        THEN [NoSaga EXCEPT !.state = "local_ready", !.slot = s]
        ELSE Synced(saga[d])]

\* prepare_orphaned_smartup_sagas, then load_slot_sagas
Recover(p) ==
    LET s == proc[p].slot
        mine == Prepared({d \in Deals : s \in jobs[d]}, s)
        open == {d \in Deals : mine[d].state # "none" /\ mine[d].slot = s /\ mine[d].row # "completed"}
    IN  /\ At(p, "orphans")
        /\ saga' = mine
        /\ proc' = [proc EXCEPT ![p].work = open,
                                ![p].kind = IF open = {} THEN "slot" ELSE "recovery",
                                ![p].pc = IF open = {} THEN "export" ELSE "read"]
        /\ UNCHANGED <<jobs, create, slot, delivery, report, worldVars, faults>>

-----------------------------------------------------------------------------
\* A slot that has nothing to recover exports the new deals.

ExportOrders(p) ==
    LET new == {d \in Deals : remote[d] = "source"}
    IN  /\ At(p, "export")
        /\ IF new = {}
           THEN Complete(p, "no_orders", {})
           ELSE /\ proc' = [proc EXCEPT ![p].pc = "import", ![p].todo = new, ![p].export = new]
                /\ slot' = slot
        /\ UNCHANGED <<jobs, saga, create, delivery, report, worldVars, faults>>

\* find_skladbot_linked_order_for_import_rows: an order with a create event is linked,
\* whatever became of the event.  The deal is skipped, and stays in the file, which
\* was written before.
Duplicate(d) == create[d] # "none"

\* create_delivery_group_imports: one import job per deal and commit.  A job that
\* finds the order of the deal brings no rows, and is not recovered.
ImportDeal(p, d) ==
    /\ At(p, "import")
    /\ d \in proc[p].todo
    /\ proc' = [proc EXCEPT ![p].todo = @ \ {d},
                            ![p].work = IF Duplicate(d) THEN @ ELSE @ \cup {d}]
    /\ jobs' = IF Duplicate(d) \/ jobs[d] # {} THEN jobs ELSE [jobs EXCEPT ![d] = {proc[p].slot}]
    /\ UNCHANGED <<saga, create, slot, delivery, report, worldVars, faults>>

PrepareDealSagas(p) ==
    /\ At(p, "import")
    /\ proc[p].todo = {}
    /\ saga' = Prepared(proc[p].work, proc[p].slot)
    /\ Goto(p, "read")
    /\ UNCHANGED <<jobs, create, slot, delivery, report, worldVars, faults>>

-----------------------------------------------------------------------------
\* execute_status_sagas

ToReconcile(p) == {d \in proc[p].work : saga[d].event \in Reconcile}

\* get_deal_statuses asks for the two statuses of the workflow; a deal in
\* another status is not in the answer.
Readable(d) == IF remote[d] \in {"source", "target"} THEN remote[d] ELSE ""

ReadBack(p) ==
    /\ At(p, "read")
    /\ ToReconcile(p) # {}
    /\ proc' = [proc EXCEPT ![p].pc = "reread", ![p].seen = [d \in ToReconcile(p) |-> Readable(d)]]
    /\ unread' = unread \ ToReconcile(p)
    /\ UNCHANGED <<dbVars, remote, back, flying, file, now, faults>>

\* Mutant: any status at all confirms the write.
ReconciledByAny(x, status) ==
    IF status = "" THEN [x EXCEPT !.state = "smartup_ambiguous", !.event = "remote_failed", !.row = "failed"]
    ELSE [x EXCEPT !.state = "smartup_confirmed", !.event = "remote_confirmed", !.row = "pending"]
Reconciled(x, status) ==
    CASE status = "target" -> [x EXCEPT !.state = "smartup_confirmed", !.event = "remote_confirmed", !.row = "pending"]
      [] status = "source" -> [x EXCEPT !.state = "smartup_ambiguous", !.event = "intent_persisted", !.row = "pending"]
      [] status = ""       -> [x EXCEPT !.state = "smartup_ambiguous", !.event = "remote_failed", !.row = "failed"]

\* The states transition_fulfillment expects; another one raises.
Expected(status) ==
    {"smartup_write_started", "smartup_ambiguous"}
        \cup (IF status = "target" THEN {"smartup_confirmed"} ELSE {})

RecordReadBack(p) ==
    LET seen == proc[p].seen
    IN  /\ At(p, "reread")
        /\ IF \A d \in DOMAIN seen : saga[d].state \in Expected(seen[d])
           THEN /\ saga' = [d \in Deals |-> IF d \in DOMAIN seen THEN Reconciled(saga[d], seen[d]) ELSE saga[d]]
                /\ proc' = [proc EXCEPT ![p].pc = "claim", ![p].seen = Idle.seen]
                /\ slot' = slot
           ELSE /\ Fail(p, "failed")
                /\ saga' = saga
        /\ UNCHANGED <<jobs, create, delivery, report, worldVars, faults>>

\* The deals that are to be written, as read without a lock ...
Intents(p) == {d \in proc[p].work : saga[d].event = "intent_persisted"}
Ready(p) == At(p, "claim") \/ (At(p, "read") /\ ToReconcile(p) = {})

ReadIntents(p) ==
    /\ Ready(p)
    /\ Intents(p) # {}
    /\ proc' = [proc EXCEPT ![p].pc = "lock", ![p].todo = Intents(p)]
    /\ UNCHANGED <<dbVars, worldVars, faults>>

\* ... and those of them a write is durably announced for, under the lock of each
\* fulfilment.
Claimable(p) ==
    {d \in proc[p].todo : saga[d].event = "intent_persisted" /\ saga[d].state \in {"local_ready", "smartup_ambiguous"}}

ClaimWrites(p) ==
    /\ At(p, "lock")
    /\ Claimable(p) # {}
    /\ saga' = [d \in Deals |->
                    IF d \in Claimable(p)
                    THEN Synced([saga[d] EXCEPT !.state = "smartup_write_started", !.row = "processing"])
                    ELSE saga[d]]
    /\ proc' = [proc EXCEPT ![p].pc = "write", ![p].todo = Claimable(p)]
    /\ UNCHANGED <<jobs, create, slot, delivery, report, worldVars, faults>>

\* Others took every intent: the function calls itself.
ClaimedByOthers(p) ==
    /\ At(p, "lock")
    /\ Claimable(p) = {}
    /\ proc' = [proc EXCEPT ![p].pc = "read", ![p].todo = {}]
    /\ UNCHANGED <<dbVars, worldVars, faults>>

\* Nothing left to write: the answer is made of the states of the events.
NothingToWrite(p) ==
    LET confirmed == {d \in proc[p].work : saga[d].event \in RemoteConfirmed}
    IN  /\ Ready(p)
        /\ Intents(p) = {}
        /\ proc' = [proc EXCEPT ![p].pc = "queue", ![p].ok = confirmed, ![p].bad = confirmed # proc[p].work]
        /\ UNCHANGED <<dbVars, worldVars, faults>>

Written(deals) == [d \in Deals |-> IF d \in deals THEN "target" ELSE remote[d]]

\* client.change_status with an answer: Smartup refuses a deal that has left the
\* workflow, and may refuse any other one.
WriteAnswered(p) ==
    /\ At(p, "write")
    /\ \E applied \in SUBSET {d \in proc[p].todo : remote[d] \in {"source", "target"}} :
        /\ remote' = Written(applied)
        /\ unread' = unread \cup proc[p].todo
        /\ proc' = [proc EXCEPT ![p].pc = "record", ![p].ok = applied, ![p].bad = applied # proc[p].todo]
        /\ IF \E d \in proc[p].todo \ applied : remote[d] # "other" THEN Fault ELSE faults' = faults
    /\ UNCHANGED <<dbVars, back, flying, file, now>>

\* No answer: the batch is written, not written, or still on its way.
WriteUnanswered(p) ==
    LET sent == {d \in proc[p].todo : remote[d] = "source"}
    IN  /\ At(p, "write")
        /\ Fault
        /\ \E applied \in SUBSET sent, late \in SUBSET sent :
            /\ remote' = Written(applied)
            /\ flying' = flying \cup (late \ applied)
        /\ unread' = unread \cup proc[p].todo
        /\ Fail(p, "failed")
        /\ UNCHANGED <<jobs, saga, create, delivery, report, back, file, now>>

WriteArrives(d) ==
    /\ d \in flying
    /\ flying' = flying \ {d}
    /\ remote' = IF remote[d] = "source" THEN Written({d}) ELSE remote
    /\ UNCHANGED <<dbVars, back, file, now, proc, unread, faults>>

\* status_change_successful_deal_ids: an answer without errors stands for every
\* deal of the run, those that were not written included.
Successes(p) == IF proc[p].bad THEN proc[p].ok ELSE proc[p].work

\* Mutant: a refused deal is written again straight away.
RecordedForRetry(x, confirmed) ==
    IF confirmed
    THEN [x EXCEPT !.state = "smartup_confirmed", !.event = "remote_confirmed", !.row = "pending"]
    ELSE [x EXCEPT !.state = "smartup_ambiguous", !.event = "intent_persisted", !.row = "failed"]
Recorded(x, confirmed) ==
    IF confirmed
    THEN [x EXCEPT !.state = "smartup_confirmed", !.event = "remote_confirmed", !.row = "pending"]
    ELSE [x EXCEPT !.state = "smartup_ambiguous", !.event = "remote_failed", !.row = "failed"]

RecordWrite(p) ==
    LET sent == proc[p].todo
    IN  /\ At(p, "record")
        /\ IF \A d \in sent : saga[d].state = "smartup_write_started"
           THEN /\ saga' = [d \in Deals |-> IF d \in sent THEN Recorded(saga[d], d \in proc[p].ok) ELSE saga[d]]
                /\ proc' = [proc EXCEPT ![p].pc = "queue", ![p].todo = {}, ![p].ok = Successes(p)]
                /\ slot' = slot
           ELSE /\ Fail(p, "failed")
                /\ saga' = saga
        /\ UNCHANGED <<jobs, create, delivery, report, worldVars, faults>>

-----------------------------------------------------------------------------
\* queue_skladbot_after_smartup_status and mark_skladbot_results, one commit.

Queued(p) ==
    [d \in Deals |-> IF d \in proc[p].work \cap proc[p].ok /\ create[d] = "none" THEN "queued" ELSE create[d]]

\* transition_fulfillment_order: the state of a fulfilment follows its order.
Aggregate ==
    [queued |-> "skladbot_create_queued", started |-> "skladbot_post_started",
     created |-> "skladbot_created", ambiguous |-> "skladbot_ambiguous"]

\* Mutant: a deal with a create event is done, confirmed or not.
MarkedIfQueued(x, event) ==
    IF event = "none" THEN [x EXCEPT !.event = "skladbot_pending", !.row = "pending"]
    ELSE Synced([x EXCEPT !.event = "skladbot_queued", !.row = "completed", !.tied = TRUE,
                          !.state = Aggregate[event]])
Marked(x, event) ==
    IF x.event \notin RemoteConfirmed THEN x
    ELSE IF event = "none" THEN [x EXCEPT !.event = "skladbot_pending", !.row = "pending"]
    ELSE Synced([x EXCEPT !.event = "skladbot_queued", !.row = "completed", !.tied = TRUE,
                          !.state = Aggregate[event]])

\* assert_enforced_sagas_complete guards a slot; a sweep reports the rest.  The
\* slot of an answer with errors fails as well.
\* Mutant: a slot goes on with the deals it could confirm.
AllDoneOrSkipped(p, marked) == TRUE
AllDone(p, marked) == ~proc[p].bad /\ \A d \in proc[p].work : marked[d].event = "skladbot_queued"

QueueAndMark(p) ==
    LET marked == [d \in Deals |-> IF d \in proc[p].work THEN Marked(saga[d], Queued(p)[d]) ELSE saga[d]]
        complete == AllDone(p, marked)
    IN  /\ At(p, "queue")
        /\ create' = Queued(p)
        /\ saga' = marked
        /\ CASE proc[p].kind = "sweep" -> proc' = [proc EXCEPT ![p] = Idle] /\ slot' = slot
             [] proc[p].kind # "sweep" /\ ~complete -> Fail(p, "failed")
             [] proc[p].kind = "recovery" /\ complete -> Complete(p, "completed_recovery", proc[p].work)
             [] proc[p].kind = "slot" /\ complete -> Goto(p, "deliver") /\ slot' = slot
        /\ UNCHANGED <<jobs, delivery, report, worldVars, faults>>

-----------------------------------------------------------------------------
\* send_smartup_export_to_client: a durable claim and one attempt.  A claim that
\* is not completed is never taken up again: what Telegram did is unknown.

\* Mutant: a delivery that was started and not completed starts over.
UnclaimedOrStarted(s) == delivery[s] \in {"none", "started"}
Unclaimed(s) == delivery[s] = "none"

ClaimDelivery(p) ==
    LET s == proc[p].slot
    IN  /\ At(p, "deliver")
        /\ CASE Unclaimed(s) ->
                    /\ delivery' = [delivery EXCEPT ![s] = "started"]
                    /\ Goto(p, "send")
                    /\ slot' = slot
             [] delivery[s] = "completed" ->
                    /\ Complete(p, "completed", proc[p].work)
                    /\ delivery' = delivery
             [] ~Unclaimed(s) /\ delivery[s] # "completed" ->
                    /\ Fail(p, "blocked")
                    /\ delivery' = delivery
        /\ UNCHANGED <<jobs, saga, create, report, worldVars, faults>>

Received(p) ==
    file' = [file EXCEPT ![proc[p].slot] = Append(@, [deals |-> proc[p].export, imported |-> proc[p].work])]

SendFile(p) ==
    /\ At(p, "send")
    /\ Received(p)
    /\ Goto(p, "sent")
    /\ UNCHANGED <<dbVars, remote, back, flying, now, unread, faults>>

FileSent(p) ==
    /\ At(p, "sent")
    /\ delivery' = [delivery EXCEPT ![proc[p].slot] = "completed"]
    /\ Complete(p, "completed", proc[p].work)
    /\ UNCHANGED <<jobs, saga, create, report, worldVars, faults>>

SendFails(p) ==
    /\ At(p, "send")
    /\ Fault
    /\ Received(p) \/ file' = file
    /\ delivery' = [delivery EXCEPT ![proc[p].slot] = "blocked"]
    /\ Fail(p, "blocked")
    /\ UNCHANGED <<jobs, saga, create, report, remote, back, flying, now, unread>>

-----------------------------------------------------------------------------
\* The logistics report of the evening.

\* smartup_logistics_dependency_proof
Proved(s) ==
    /\ slot[s].row = "completed"
    /\ \/ slot[s].result = "no_orders"
       \/ /\ slot[s].result = "completed"
          /\ slot[s].deals # {}
          /\ \A d \in slot[s].deals : create[d] = "created"

\* claim_smartup_logistics_report: new, failed, or left by a worker that died
ClaimReport(p) ==
    /\ At(p, "idle")
    /\ now = Evening
    /\ \A s \in Slots : Proved(s)
    /\ \A q \in Processes : proc[q].kind # "report"
    /\ \/ /\ report \in {"none", "failed", "processing"}
          /\ report' = "processing"
          /\ proc' = [proc EXCEPT ![p] = [Idle EXCEPT !.pc = "build", !.kind = "report"]]
       \/ /\ report = "started"
          /\ report' = "blocked"
          /\ UNCHANGED proc
    /\ UNCHANGED <<jobs, saga, create, slot, delivery, worldVars, faults>>

\* The build may fail; then nothing was sent and the report is tried again.
BuildReport(p) ==
    /\ At(p, "build")
    /\ \/ report' = "started" /\ Goto(p, "post") /\ faults' = faults
       \/ report' = "failed" /\ proc' = [proc EXCEPT ![p] = Idle] /\ Fault
    /\ UNCHANGED <<jobs, saga, create, slot, delivery, worldVars>>

PostReport(p) ==
    /\ At(p, "post")
    /\ \/ report' = "completed" /\ faults' = faults
       \/ report' = "blocked" /\ Fault
    /\ proc' = [proc EXCEPT ![p] = Idle]
    /\ UNCHANGED <<jobs, saga, create, slot, delivery, worldVars>>

-----------------------------------------------------------------------------
\* Faults of the process: the exception of an export or a read-back, and death.
\* The locks go with the connection; rows stay as the last commit left them.

NetworkFails(p) ==
    /\ At(p, "export") \/ (At(p, "read") /\ ToReconcile(p) # {})
    /\ Fault
    /\ Fail(p, "failed")
    /\ UNCHANGED <<jobs, saga, create, delivery, report, worldVars>>

Crash(p) ==
    /\ ~At(p, "idle")
    /\ Fault
    /\ proc' = [proc EXCEPT ![p] = Idle]
    /\ UNCHANGED <<dbVars, worldVars>>

-----------------------------------------------------------------------------
\* The environment.

Appear(d) ==
    /\ remote[d] = "absent"
    /\ remote' = [remote EXCEPT ![d] = "source"]
    /\ UNCHANGED <<dbVars, back, flying, file, now, proc, unread, faults>>

Leave(d) ==
    /\ d \in MayLeave
    /\ remote[d] = "source"
    /\ remote' = [remote EXCEPT ![d] = "other"]
    /\ UNCHANGED <<dbVars, back, flying, file, now, proc, unread, faults>>

\* A manager puts a deal back, and the next slot exports it again.
PutBack(d) ==
    /\ d \in MayReturn
    /\ back[d] = "none"
    /\ remote[d] \in {"target", "other"}
    /\ remote' = [remote EXCEPT ![d] = "source"]
    /\ back' = [back EXCEPT ![d] = remote[d]]
    /\ UNCHANGED <<dbVars, flying, file, now, proc, unread, faults>>

\* The order of a deal comes in a file of the chat before a slot imports it, and
\* SkladBot gets its request by that way.
ChatOrder(d) ==
    /\ d \in MayChat
    /\ remote[d] # "absent"
    /\ jobs[d] = {} /\ create[d] = "none"
    /\ jobs' = [jobs EXCEPT ![d] = {Chat}]
    /\ create' = [create EXCEPT ![d] = "queued"]
    /\ UNCHANGED <<saga, slot, delivery, report, worldVars, proc, faults>>

\* The window of a slot closes and the next one opens.
PassTime ==
    /\ now < Evening
    /\ now' = now + 1
    /\ UNCHANGED <<dbVars, remote, back, flying, file, proc, unread, faults>>

\* The SkladBot worker: each step also moves the fulfilment the event is tied to.
SkladBotStep(d, from, to) ==
    /\ create[d] = from
    /\ create' = [create EXCEPT ![d] = to]
    /\ saga' = IF saga[d].tied THEN [saga EXCEPT ![d].state = Aggregate[to]] ELSE saga
    /\ UNCHANGED <<jobs, slot, delivery, report, worldVars, proc, faults>>
SkladBotStarts(d) == SkladBotStep(d, "queued", "started")
SkladBotCreates(d) == SkladBotStep(d, "started", "created")
SkladBotIsUnsure(d) == SkladBotStep(d, "started", "ambiguous")

Worker(p) ==
    \/ \E deals \in SUBSET Deals : Sweep(p, deals)
    \/ ClaimSlot(p) \/ Recover(p)
    \/ ExportOrders(p) \/ PrepareDealSagas(p)
    \/ ReadBack(p) \/ RecordReadBack(p) \/ ReadIntents(p) \/ ClaimWrites(p) \/ ClaimedByOthers(p) \/ NothingToWrite(p)
    \/ WriteAnswered(p) \/ RecordWrite(p) \/ QueueAndMark(p)
    \/ ClaimDelivery(p) \/ SendFile(p) \/ FileSent(p)
    \/ ClaimReport(p) \/ BuildReport(p) \/ PostReport(p)
    \/ \E d \in Deals : ImportDeal(p, d)

Next ==
    \/ \E p \in Processes : Worker(p) \/ WriteUnanswered(p) \/ SendFails(p) \/ NetworkFails(p) \/ Crash(p)
    \/ \E d \in Deals :
        \/ Appear(d) \/ Leave(d) \/ PutBack(d) \/ ChatOrder(d) \/ WriteArrives(d)
        \/ SkladBotStarts(d) \/ SkladBotCreates(d) \/ SkladBotIsUnsure(d)
    \/ PassTime

\* The worker runs its cycle for ever, every cycle starts with the sweep, and a
\* backoff is a deadline: a deal that stays recoverable is swept in the end.
\* Neither the day nor Smartup's users owe the system anything.
SweepOf(d) == \E p \in Processes, deals \in SUBSET Deals : d \in deals /\ Sweep(p, deals)
Fairness ==
    /\ \A p \in Processes : WF_vars(Worker(p))
    /\ \A d \in Deals : SF_vars(SweepOf(d))

Spec == Init /\ [][Next]_vars
FairSpec == Spec /\ Fairness

-----------------------------------------------------------------------------
\* The rows of deals, slots, files and of the report are in states the code knows,
\* and the processes in steps of their passes.
TypeOK ==
    /\ remote \in [Deals -> {"absent", "source", "target", "other"}]
    /\ back \in [Deals -> {"none", "target", "other"}]
    /\ flying \subseteq Deals /\ unread \subseteq Deals
    /\ jobs \in [Deals -> SUBSET ({Chat} \cup Slots)]
    /\ \A d \in Deals :
        /\ saga[d].state \in States
        /\ saga[d].event \in EventStates
        /\ saga[d].row \in {"pending", "processing", "failed", "completed"}
    /\ create \in [Deals -> {"none", "queued", "started", "created", "ambiguous"}]
    /\ \A s \in Slots :
        /\ slot[s].row \in {"none", "processing", "failed", "completed", "blocked"}
        /\ delivery[s] \in {"none", "started", "completed", "blocked"}
    /\ report \in {"none", "processing", "failed", "started", "completed", "blocked"}
    /\ now \in 1..Evening

\* Smartup shows a deal in the target status, or did until it was put back; it is,
\* or was, out of the workflow.
Reached(d) == "target" \in {remote[d], back[d]}
Gone(d) == "other" \in {remote[d], back[d]}

\* A fulfilment past the write stands for a deal that Smartup really showed in the
\* target status: late and lost answers never make one up.
ConfirmedIsWritten ==
    \A d \in Deals :
        saga[d].state \in {"smartup_confirmed"} \cup (States \ (RecoverableStates \cup {"none"})) =>
            Reached(d)

\* The runbook: after a write without a proved result only the read-back of the
\* deal may come next, never another write.  One worker keeps it; a run-once next
\* to it does not.
NoBlindWrite == \A p \in Processes : At(p, "write") => proc[p].todo \cap unread = {}

\* A slot that is completed with orders left none of them without a request of
\* SkladBot or a queued one.
CompletedSlotIsCovered ==
    \A s \in Slots : slot[s].row = "completed" =>
        \A d \in slot[s].deals : create[d] # "none" /\ Reached(d)

\* The client gets the file of a slot once, whatever becomes of the answer of
\* Telegram and of the process that sent it.
FileIsSentOnce == \A s \in Slots : Len(file[s]) <= 1

\* Slots as calls of Telegram: the claim of the file is the mark, and is never
\* taken back.
Once == INSTANCE CallOnce WITH
    Calls <- Slots,
    Effects <- {1},
    marked <- {s \in Slots : delivery[s] # "none"},
    effects <- [s \in Slots |-> 1..Len(file[s])],
    recorded <- {s \in Slots : delivery[s] = "completed"}

\* The client gets the file of a slot once at most and only under its claim, and
\* a delivery is completed only if the client got the file, whatever becomes of
\* the answer of Telegram and of the process that sent it.
FileIsOneCall == Once!Spec

\* The request of a deal in a file of the client is ordered; and the deal is written,
\* if the slot imported it and did not skip it as a duplicate.
FileIsConfirmed ==
    \A s \in Slots : \A i \in 1..Len(file[s]) : \A d \in file[s][i].deals :
        /\ create[d] # "none"
        /\ d \in file[s][i].imported => Reached(d)

\* The SkladBot request of an order of a slot is only ordered for a deal whose write
\* is confirmed.
CreateIsConfirmed == \A d \in Deals : create[d] # "none" /\ Chat \notin jobs[d] => Reached(d)

\* The report of the logistics goes out when every file of the day has: a deal
\* that a slot imported and wrote is in one of the client's files.
ReportFollowsFiles ==
    report = "completed" =>
        \A d \in Deals : create[d] = "created" /\ Chat \notin jobs[d] =>
            \E s \in Slots : \E i \in 1..Len(file[s]) : d \in file[s][i].deals

\* A saga that was persisted is finished, whatever failed and whatever became of
\* its slot, unless the deal left the workflow.
SagaIsFinished ==
    \A d \in Deals : saga[d].state # "none" ~> create[d] # "none" \/ Gone(d)
==============================================================================
