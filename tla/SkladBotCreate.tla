---------------------------- MODULE SkladBotCreate ----------------------------
(***************************************************************************)
(* The creation of the SkladBot requests of orders                         *)
(* (backend/app/skladbot_request_dry_run.py, the mode "enabled", without   *)
(* leases) next to the synchronisation that looks for the requests of      *)
(* orders (backend/app/skladbot_worker.py).  Both write the whole          *)
(* raw_payload of an order.  The worker runs them one after the other; the *)
(* API may run a synchronisation at any time.                              *)
(*                                                                         *)
(* One action is one transaction, or one exchange with SkladBot.  A link   *)
(* is always a complete pair of id and WH-R number; markers, which are not *)
(* sent any more, and the search by content, which is off, are left out.   *)
(***************************************************************************)
EXTENDS Naturals, FiniteSets

CONSTANTS
    Orders,
    None,       \* no request
    FromFile,   \* orders that are committed together with their create event
    MaxFaults   \* bound on crashes, on answers other than success and on
                \* synchronisations that the API starts

ASSUME OrderAssumption == IsFiniteSet(Orders)
ASSUME FileAssumption == FromFile \subseteq Orders
ASSUME FaultAssumption == MaxFaults \in Nat

VARIABLES
    order,   \* status and link in orders.raw_payload
    event,   \* the pending_events row that creates the request of an order
    remote,  \* the requests SkladBot holds
    flying,  \* requests of POSTs that got no answer and may still be executed
    worker,  \* what the create worker is doing
    sync,    \* what each synchronisation is doing
    faults

vars == <<order, event, remote, flying, worker, sync, faults>>

\* A request is named by the order it was posted for; the counter tells POSTs apart.
Requests == Orders \X (1..(MaxFaults + 2))
Owner(r) == r[1]

ASSUME NoneAssumption == None \notin Orders \cup Requests

\* Orders of one client for one day with the same products match the same requests:
\* request_match_diagnostics does not look at the address.
Matching(o, requests) == requests

Syncs == {"worker", "api"}

\* raw_payload.skladbot_status; for these the synchronisation asks the event.
\* Mutant: an order with an event that waits is looked for like any other.
ProtectedAfterPost == {"ambiguous", "blocked_stock", "create_failed"}
Protected == {"create_queued", "ambiguous", "blocked_stock", "create_failed"}
Linked == {"created", "created_recovered", "found"}
OrderStates == {"absent", "new", "not_found", "multiple"} \cup Protected \cup Linked

\* payload.post_state of an event
PostOutcomeAmbiguous == {"started", "ambiguous", "response_received"}
PostStates ==
    PostOutcomeAmbiguous \cup {"none", "retry_scheduled", "rejected", "failed_confirmed", "completed"}

NoEvent == [row |-> "none", post |-> "none", resp |-> None, tried |-> FALSE, again |-> FALSE, waits |-> FALSE]
QueuedEvent == [NoEvent EXCEPT !.row = "pending"]
IdleWorker == [pc |-> "idle", order |-> None, id |-> None]
IdleSync == [pc |-> "idle", seen |-> {}, snap |-> [o \in {} |-> None]]

Init ==
    /\ order = [o \in Orders |-> [status |-> "absent", link |-> None]]
    /\ event = [o \in Orders |-> NoEvent]
    /\ remote = {}
    /\ flying = {}
    /\ worker = IdleWorker
    /\ sync = [s \in Syncs |-> IdleSync]
    /\ faults = 0

-----------------------------------------------------------------------------
Fault == faults < MaxFaults /\ faults' = faults + 1
At(pc) == worker.pc = pc
Mine == worker.order
Goto(pc) == worker' = [worker EXCEPT !.pc = pc]

Stored(o) == order[o].status # "absent"
QueuedOrder(o) == [order EXCEPT ![o].status = "create_queued"]

\* apply_import, followed by queue_skladbot_create_events in the same transaction
\* for a file of an operator, and by nothing for an order of Smartup.
Import(o) ==
    /\ ~Stored(o)
    /\ IF o \in FromFile
       THEN order' = QueuedOrder(o) /\ event' = [event EXCEPT ![o] = QueuedEvent]
       ELSE order' = [order EXCEPT ![o].status = "new"] /\ UNCHANGED event
    /\ UNCHANGED <<remote, flying, worker, sync, faults>>

\* queue_skladbot_create_events of a later transaction: an order that is linked is
\* not ready, and an event that exists is left alone.
Queue(o) ==
    /\ Stored(o)
    /\ order[o].link = None
    /\ event[o].row = "none"
    /\ order' = QueuedOrder(o)
    /\ event' = [event EXCEPT ![o] = QueuedEvent]
    /\ UNCHANGED <<remote, flying, worker, sync, faults>>

-----------------------------------------------------------------------------
\* The create worker.

\* claim_next_pending_event_without_lease; the number of attempts only matters
\* when it is above one.
Claim(o) ==
    /\ At("idle")
    /\ sync["worker"].pc = "idle"
    /\ event[o].row = "pending"
    /\ ~event[o].waits
    /\ event' = [event EXCEPT ![o].row = "processing", ![o].again = event[o].tried, ![o].tried = TRUE]
    /\ worker' = [pc |-> "decide", order |-> o, id |-> None]
    /\ UNCHANGED <<order, remote, flying, sync, faults>>

\* save_skladbot_create_result and finish_skladbot_create_event, one commit
Saved(o, id, status) ==
    /\ order' = [order EXCEPT ![o] = [status |-> status, link |-> id]]
    /\ event' = [event EXCEPT ![o].row = "completed", ![o].post = "completed"]

\* mark_skladbot_create_ambiguous and finish_skladbot_create_event
MarkAmbiguous ==
    /\ order' = [order EXCEPT ![Mine].status = "ambiguous"]
    /\ event' = [event EXCEPT ![Mine].row = "blocked", ![Mine].post = "ambiguous"]
    /\ worker' = IdleWorker

\* mark_order_skladbot_create_failed, block_order_after_skladbot_stock_shortage
Block(status, post) ==
    /\ order' = [order EXCEPT ![Mine].status = status]
    /\ event' = [event EXCEPT ![Mine].row = "blocked", ![Mine].post = post]
    /\ worker' = IdleWorker

AlreadyLinked ==
    /\ At("decide")
    /\ order[Mine].link # None
    /\ event[Mine].resp \in {None, order[Mine].link}
    /\ event' = [event EXCEPT ![Mine].row = "completed"]
    /\ worker' = IdleWorker
    /\ UNCHANGED <<order, remote, flying, sync, faults>>

LinkConflicts ==
    /\ At("decide")
    /\ order[Mine].link # None
    /\ event[Mine].resp \notin {None, order[Mine].link}
    /\ MarkAmbiguous
    /\ UNCHANGED <<remote, flying, sync, faults>>

\* The dry run finds a product without an SKU.
SkuMissing ==
    /\ At("decide")
    /\ order[Mine].link = None
    /\ Fault
    /\ Block("create_failed", event[Mine].post)
    /\ UNCHANGED <<remote, flying, sync>>

\* Mutant: whatever was not answered may be sent.
MayPostUnanswered(e) == e.resp = None
MayPost(e) ==
    /\ e.post \notin PostOutcomeAmbiguous
    /\ e.again => e.post = "retry_scheduled"

StartPost ==
    /\ At("decide")
    /\ order[Mine].link = None
    /\ MayPost(event[Mine])
    /\ event' = [event EXCEPT ![Mine].post = "started"]
    /\ Goto("post")
    /\ UNCHANGED <<order, remote, flying, sync, faults>>

StartLookUp ==
    /\ At("decide")
    /\ order[Mine].link = None
    /\ ~MayPost(event[Mine])
    /\ worker' = [worker EXCEPT !.pc = IF event[Mine].resp = None THEN "match" ELSE "detail",
                                !.id = event[Mine].resp]
    /\ UNCHANGED <<order, event, remote, flying, sync, faults>>

\* The POST.
NewRequest(o) == <<o, 1 + Cardinality({r \in remote \cup flying : Owner(r) = o})>>

PostAnswered ==
    /\ At("post")
    /\ remote' = remote \cup {NewRequest(Mine)}
    /\ worker' = [worker EXCEPT !.pc = "answered", !.id = NewRequest(Mine)]
    /\ UNCHANGED <<order, event, flying, sync, faults>>

RecordResponse ==
    /\ At("answered")
    /\ event' = [event EXCEPT ![Mine].post = "response_received", ![Mine].resp = worker.id]
    /\ Goto("detail")
    /\ UNCHANGED <<order, remote, flying, sync, faults>>

\* A success without an id.
PostAnsweredWithoutId ==
    /\ At("post")
    /\ Fault
    /\ remote' = remote \cup {NewRequest(Mine)}
    /\ MarkAmbiguous
    /\ UNCHANGED <<flying, sync>>

\* Mutant: a timeout counts as a request that was not accepted.
UnknownOutcomeIsRetry == "retry_scheduled"
UnknownOutcome == "ambiguous"

\* A timeout or a 5xx: the POST was executed, will be, or never is.
PostUnanswered ==
    /\ At("post")
    /\ Fault
    /\ \/ remote' = remote \cup {NewRequest(Mine)} /\ UNCHANGED flying
       \/ flying' = flying \cup {NewRequest(Mine)} /\ UNCHANGED remote
       \/ UNCHANGED <<remote, flying>>
    /\ event' = [event EXCEPT ![Mine].post = UnknownOutcome]
    /\ Goto("match")
    /\ UNCHANGED <<order, sync>>

PostRateLimited ==
    /\ At("post")
    /\ Fault
    /\ order' = QueuedOrder(Mine)
    /\ event' = [event EXCEPT ![Mine].row = "pending", ![Mine].post = "retry_scheduled", ![Mine].waits = TRUE]
    /\ worker' = IdleWorker
    /\ UNCHANGED <<remote, flying, sync>>

\* A 4xx: the stock falls short, or something else is wrong.
PostRefused ==
    /\ At("post")
    /\ Fault
    /\ \/ Block("blocked_stock", "rejected")
       \/ Block("create_failed", "failed_confirmed")
    /\ UNCHANGED <<remote, flying, sync>>

\* A success whose body is not JSON: an error of no known kind counts as a
\* confirmed failure, although SkladBot has the request.
PostUnreadable ==
    /\ At("post")
    /\ Fault
    /\ remote' = remote \cup {NewRequest(Mine)}
    /\ Block("create_failed", "failed_confirmed")
    /\ UNCHANGED <<flying, sync>>

\* GET of the request by the id of the response, straight after it or later.
ReadDetail ==
    /\ At("detail")
    /\ Saved(Mine, worker.id, IF event[Mine].again THEN "created_recovered" ELSE "created")
    /\ worker' = IdleWorker
    /\ UNCHANGED <<remote, flying, sync, faults>>

DetailFails ==
    /\ At("detail")
    /\ Fault
    /\ MarkAmbiguous
    /\ UNCHANGED <<remote, flying, sync>>

\* Without an id, a marker or the search by content nothing can be recognised.
NothingToLookFor ==
    /\ At("match")
    /\ MarkAmbiguous
    /\ UNCHANGED <<remote, flying, sync, faults>>

-----------------------------------------------------------------------------
\* Death of the worker, the reset of the row it leaves, the end of a 429 pause.

Crash ==
    /\ ~At("idle")
    /\ Fault
    /\ worker' = IdleWorker
    /\ UNCHANGED <<order, event, remote, flying, sync>>

\* Mutant: only rows that were never posted are reset.
StaleUnposted(o) == event[o].row = "processing" /\ event[o].post = "none"
Stale(o) == event[o].row = "processing"

\* reset_stale_skladbot_create_events, at the start of a cycle
StaleReset(o) ==
    /\ At("idle")
    /\ sync["worker"].pc = "idle"
    /\ Stale(o)
    /\ event' = [event EXCEPT ![o].row = "pending"]
    /\ UNCHANGED <<order, remote, flying, worker, sync, faults>>

TimePasses(o) ==
    /\ event[o].waits
    /\ event' = [event EXCEPT ![o].waits = FALSE]
    /\ UNCHANGED <<order, remote, flying, worker, sync, faults>>

Land(r) ==
    /\ r \in flying
    /\ flying' = flying \ {r}
    /\ remote' = remote \cup {r}
    /\ UNCHANGED <<order, event, worker, sync, faults>>

-----------------------------------------------------------------------------
\* update_orders_from_skladbot.  The lock is let go for the fetch; the orders are
\* read again under it, and written at the end of the same transaction.

NeedsBackfill(o) == Stored(o) /\ order[o].link = None
Locked == \E s \in Syncs : sync[s].pc = "read"

SyncFetch(s, seen) ==
    /\ sync[s].pc = "idle"
    /\ s = "worker" => At("idle")
    /\ ~Locked
    /\ \E o \in Orders : NeedsBackfill(o)
    /\ IF s = "api" THEN Fault ELSE UNCHANGED faults
    /\ sync' = [sync EXCEPT ![s] = [IdleSync EXCEPT !.pc = "fetched", !.seen = seen]]
    /\ UNCHANGED <<order, event, remote, flying, worker>>

SyncRead(s) ==
    /\ sync[s].pc = "fetched"
    /\ sync' = [sync EXCEPT ![s] =
                    IF Locked THEN IdleSync
                    ELSE [@ EXCEPT !.pc = "read", !.snap = [o \in {x \in Orders : NeedsBackfill(x)} |-> order[o]]]]
    /\ UNCHANGED <<order, event, remote, flying, worker, faults>>

\* The requests that may be linked to an order: for a protected one only the id
\* SkladBot answered its POST with, and nothing while the worker has its event.
\* Mutant: without that id the content is used.
EvidenceByContent(o, status, seen) ==
    IF status \notin Protected \/ event[o].resp = None THEN Matching(o, seen)
    ELSE IF event[o].row = "processing" THEN {} ELSE seen \cap {event[o].resp}
Evidence(o, status, seen) ==
    IF status \notin Protected THEN Matching(o, seen)
    ELSE IF event[o].row = "processing" THEN {} ELSE seen \cap {event[o].resp}

\* What is written to an order: always made from the snapshot.
Written(o, x, matches) ==
    CASE Cardinality(matches) = 1 ->
            [status |-> IF x.status \in Protected THEN "created_recovered" ELSE "found",
             link |-> CHOOSE r \in matches : TRUE]
      [] Cardinality(matches) # 1 /\ x.status \in Protected -> x
      [] Cardinality(matches) > 1 /\ x.status \notin Protected -> [x EXCEPT !.status = "multiple"]
      [] matches = {} /\ x.status \notin Protected -> [x EXCEPT !.status = "not_found"]

SyncApply(s) ==
    LET snap == sync[s].snap
        Found(o) == Evidence(o, snap[o].status, sync[s].seen)
        Recovered(o) == snap[o].status \in Protected /\ Cardinality(Found(o)) = 1
    IN  /\ sync[s].pc = "read"
        /\ order' = [o \in Orders |-> IF o \in DOMAIN snap THEN Written(o, snap[o], Found(o)) ELSE order[o]]
        /\ event' = [o \in Orders |->
                        IF o \in DOMAIN snap /\ Recovered(o)
                        THEN [event[o] EXCEPT !.row = "completed", !.post = "completed"]
                        ELSE event[o]]
        /\ sync' = [sync EXCEPT ![s] = IdleSync]
        /\ UNCHANGED <<remote, flying, worker, faults>>

-----------------------------------------------------------------------------
WorkerStep ==
    \/ \E o \in Orders : Claim(o)
    \/ AlreadyLinked \/ LinkConflicts \/ StartPost \/ StartLookUp
    \/ PostAnswered \/ RecordResponse \/ ReadDetail \/ NothingToLookFor

SyncStep(s) == SyncRead(s) \/ SyncApply(s)

Next ==
    \/ \E o \in Orders : Import(o) \/ Queue(o) \/ StaleReset(o) \/ TimePasses(o)
    \/ WorkerStep
    \/ SkuMissing \/ PostAnsweredWithoutId \/ PostUnreadable \/ PostUnanswered
    \/ PostRateLimited \/ PostRefused \/ DetailFails
    \/ Crash
    \/ \E r \in flying : Land(r)
    \/ \E s \in Syncs : SyncStep(s) \/ \E seen \in SUBSET remote : SyncFetch(s, seen)

\* The worker runs for ever, one cycle after another, and in the end the fetch of
\* its synchronisation gets everything: requests stay in the window of the fetch
\* for days.
Fairness ==
    /\ SF_vars(WorkerStep)
    /\ \A o \in Orders : SF_vars(StaleReset(o)) /\ WF_vars(TimePasses(o))
    /\ \A s \in Syncs : WF_vars(SyncStep(s))
    /\ SF_vars(SyncFetch("worker", remote))

Spec == Init /\ [][Next]_vars
FairSpec == Spec /\ Fairness

-----------------------------------------------------------------------------
\* Orders and events are in states the code knows, and links and responses are
\* requests of SkladBot.
TypeOK ==
    /\ \A o \in Orders : order[o].status \in OrderStates /\ order[o].link \in Requests \cup {None}
    /\ \A o \in Orders :
        /\ event[o].row \in {"none", "pending", "processing", "completed", "blocked"}
        /\ event[o].post \in PostStates
        /\ event[o].resp \in Requests \cup {None}
    /\ remote \subseteq Requests /\ flying \subseteq Requests

RequestsOf(o) == {r \in remote \cup flying : Owner(r) = o}

\* However a POST ends, whatever dies and whoever writes the payload of the order,
\* SkladBot gets at most one request for an order: there is no key that would let
\* it notice a second one.
AtMostOneRequest == \A o \in Orders : Cardinality(RequestsOf(o)) <= 1

\* The post states that say that no POST went out, or that SkladBot did not accept it
Untried == {"none", "retry_scheduled"}

\* Orders as calls of SkladBot: the event's note that a POST went out, or its id,
\* is the mark.
Once == INSTANCE CallOnce WITH
    Calls <- Orders,
    Effects <- Requests,
    marked <- {o \in Orders : event[o].resp # None \/ event[o].post \notin Untried},
    effects <- [o \in Orders |-> {r \in remote : Owner(r) = o}],
    recorded <- {o \in Orders : event[o].resp # None}

\* A request comes into being, at once or after the worker stopped waiting, only
\* while the event says that a POST went out; only a 429 withdraws that note, while
\* there is no request; and an id the event knows is of a request that exists.
CreateIsOneCall == Once!Spec

\* No request is lost track of, also where it was taken for a failure: the order has
\* its number, or the event has its id, or a post state that forbids another POST.
UnlinkedRequestIsTraced ==
    \A o \in Orders : \A r \in RequestsOf(o) :
        order[o].link = r \/ event[o].resp = r \/ event[o].post \notin Untried

\* An order that is known to the synchronisation only with its event is never linked
\* to the request of another order, even if that has the same content.
LinkIsOwn == \A o \in FromFile : order[o].link # None => Owner(order[o].link) = o

\* The rule of the reports: the pair of id and number belongs to one order.
RequestLinkedOnce ==
    \A a, b \in Orders : a # b => order[a].link = None \/ order[a].link # order[b].link

\* A link may be lost to a synchronisation that writes back an older payload, but
\* not for good: an order whose request is known by its id ends up linked to it.
StaysLinked ==
    \A o \in FromFile :
        <>[](event[o].resp # None \/ event[o].row = "completed" => order[o].link # None)

\* Every event is completed, or blocked for an operator to look at.
Settles == \A o \in Orders : event[o].row = "pending" ~> event[o].row \in {"completed", "blocked"}
==============================================================================
