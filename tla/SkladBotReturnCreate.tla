-------------------------- MODULE SkladBotReturnCreate --------------------------
(***************************************************************************)
(* The creation of a return request in the external SkladBot system for a  *)
(* returned order (backend/app/skladbot_return_requests.py), with the      *)
(* queue row of the order, the worker that serves it, the administrator    *)
(* who may retry it (event_queue_service.py) and the remote system.        *)
(*                                                                         *)
(* SkladBot has no idempotency key: a POST that is repeated makes a second *)
(* request.  The worker therefore commits what it is about to do before it *)
(* talks to SkladBot, and after an unknown outcome reads the list of the   *)
(* requests back.                                                          *)
(*                                                                         *)
(* One action is one commit, or one exchange with SkladBot.  Leases are    *)
(* off (TAKSKLAD_EVENT_LEASES_ENABLED is unset in the deployment).         *)
(***************************************************************************)
EXTENDS Naturals, FiniteSets

CONSTANTS
    Orders,       \* returned orders; each has one queue row
    Workers,      \* processes that serve the queue
    Requests,     \* the requests SkladBot can hold, a bound of the model
    Body,         \* the body of the request of an order, as it is compared
    None,         \* no request, no order
    RetryLimit,   \* return_detail_retry_limit()
    RepostLimit,  \* SKLADBOT_RETURN_AUTO_REPOST_LIMIT
    AdminRace,    \* may others commit between an administrator's read and write?
    SoundDetails  \* does SkladBot show every listed request under its own id?

ASSUME NoneAssumption == None \notin Requests \cup Orders
ASSUME BodyAssumption == DOMAIN Body = Orders
ASSUME LimitAssumption == RetryLimit \in Nat \ {0} /\ RepostLimit \in Nat
ASSUME RaceAssumption == AdminRace \in BOOLEAN
ASSUME DetailsAssumption == SoundDetails \in BOOLEAN
ASSUME RequestsAssumption == IsFiniteSet(Requests)

PostStates ==
    {"none", "started", "response_received", "retry_scheduled", "readback_scheduled",
     "readback_started", "ambiguous", "rejected", "completed"}
ReadbackStates == {"readback_scheduled", "readback_started"}
Statuses == {"none", "pending", "processing", "completed", "blocked"}

VARIABLES
    status,    \* pending_events.status; "none" before the order is returned
    attempts,  \* pending_events.attempts; the code only asks whether it exceeds 1
    due,       \* is available_at in the past?
    payload,   \* pending_events.payload
    link,      \* the request id in the order's raw_payload
    created,   \* the order a request of SkladBot was created for
    flying,    \* orders whose POST timed out and is still on its way to SkladBot
    worker,    \* what each worker is doing
    admin      \* the row an administrator has read and is about to write back

vars == <<status, attempts, due, payload, link, created, flying, worker, admin>>

NewPayload == [post |-> "none", response |-> None, reposts |-> 0, readbacks |-> 0, details |-> 0]
IdleWorker ==
    [pc |-> "idle", order |-> None, got |-> None, seen |-> {}, complete |-> FALSE,
     reposts |-> 0, readbacks |-> 0]
IdleAdmin == [order |-> None, payload |-> NewPayload]

Init ==
    /\ status = [o \in Orders |-> "none"]
    /\ attempts = [o \in Orders |-> 0]
    /\ due = [o \in Orders |-> TRUE]
    /\ payload = [o \in Orders |-> NewPayload]
    /\ link = [o \in Orders |-> None]
    /\ created = [r \in Requests |-> None]
    /\ flying = {}
    /\ worker = [w \in Workers |-> IdleWorker]
    /\ admin = IdleAdmin

-----------------------------------------------------------------------------
remoteVars == <<created, flying>>

RequestsOf(o) == {r \in Requests : created[r] = o}
Unused == {r \in Requests : created[r] = None}
Holds(w, o) == worker[w].pc # "idle" /\ worker[w].order = o
At(w, pc) == worker[w].pc = pc

\* queue_skladbot_return_request_create, in the transaction of the return
Queue(o) ==
    /\ status[o] = "none"
    /\ status' = [status EXCEPT ![o] = "pending"]
    /\ UNCHANGED <<attempts, due, payload, link, remoteVars, worker, admin>>

\* claim_next_pending_event_without_lease
Claim(w, o) ==
    /\ At(w, "idle")
    /\ status[o] = "pending"
    /\ due[o]
    /\ status' = [status EXCEPT ![o] = "processing"]
    /\ attempts' = [attempts EXCEPT ![o] = IF @ = 0 THEN 1 ELSE 2]
    /\ worker' = [worker EXCEPT ![w] = [IdleWorker EXCEPT !.pc = "claimed", !.order = o]]
    /\ UNCHANGED <<due, payload, link, remoteVars, admin>>

\* The worker is done with its row: finish_skladbot_return_create_event without
\* a lease writes the status whatever the row says now.
Finish(w, state, newPayload) ==
    LET o == worker[w].order
    IN  /\ status' = [status EXCEPT ![o] = state]
        /\ payload' = [payload EXCEPT ![o] = newPayload]
        /\ worker' = [worker EXCEPT ![w] = IdleWorker]

\* mark_skladbot_return_manual_review
Review(w, post) == Finish(w, "blocked", [payload[worker[w].order] EXCEPT !.post = post])

\* Back to the queue, for now or for later.
Reschedule(w, newPayload, now) ==
    /\ Finish(w, "pending", newPayload)
    /\ due' = [due EXCEPT ![worker[w].order] = now]

-----------------------------------------------------------------------------
\* process_skladbot_return_create_event: what the row and the order say is next.

Fresh(w) ==
    LET o == worker[w].order
    IN  At(w, "claimed") /\ link[o] = None /\ payload[o].response = None

\* A complete link of the order closes the row, unless it contradicts the
\* response of an earlier POST.
AlreadyLinked(w) ==
    LET o == worker[w].order
    IN  /\ At(w, "claimed")
        /\ link[o] # None
        /\ IF payload[o].response \in {None, link[o]}
           THEN Finish(w, "completed", payload[o])
           ELSE Review(w, "response_received")
        /\ UNCHANGED <<attempts, due, link, remoteVars, admin>>

\* The response id of an earlier POST is known: only that request is looked up.
LookUp(w) ==
    LET o == worker[w].order
    IN  /\ At(w, "claimed")
        /\ link[o] = None
        /\ payload[o].response # None
        /\ worker' = [worker EXCEPT ![w].pc = "detail", ![w].got = payload[o].response]
        /\ UNCHANGED <<status, attempts, due, payload, link, remoteVars, admin>>

\* A product of the return is unknown to SkladBot; no body was ever stored.
BodyRefused(w) ==
    /\ Fresh(w)
    /\ payload[worker[w].order].post = "none"
    /\ Review(w, "none")
    /\ UNCHANGED <<attempts, due, link, remoteVars, admin>>

\* The attempts of a readback are counted as far as the limit they are compared with.
StartReadback(w) ==
    LET o == worker[w].order
        p == payload[o]
        n == IF p.readbacks < RetryLimit THEN p.readbacks + 1 ELSE RetryLimit
    IN  /\ Fresh(w)
        /\ p.post \in ReadbackStates
        /\ payload' = [payload EXCEPT ![o] =
                          [p EXCEPT !.post = "readback_started", !.readbacks = n]]
        /\ worker' = [worker EXCEPT ![w].pc = "reading", ![w].reposts = p.reposts,
                                    ![w].readbacks = n]
        /\ UNCHANGED <<status, attempts, due, link, remoteVars, admin>>

\* Mutant: a POST that was started before a crash is started again.
MayPostAgain(o) == payload[o].post \in {"none", "retry_scheduled", "started"}

\* The first attempt, or one that was scheduled after a proof that the last
\* POST had no effect.
MayPost(o) ==
    \/ payload[o].post = "retry_scheduled"
    \/ payload[o].post = "none" /\ attempts[o] = 1

\* "started" is committed before the POST.
StartPost(w) ==
    LET o == worker[w].order
    IN  /\ Fresh(w)
        /\ MayPost(o)
        /\ payload' = [payload EXCEPT ![o].post = "started"]
        /\ worker' = [worker EXCEPT ![w].pc = "posting"]
        /\ UNCHANGED <<status, attempts, due, link, remoteVars, admin>>

\* A POST without a known outcome, or an attempt that left no trace.
RefusePost(w) ==
    LET o == worker[w].order
    IN  /\ Fresh(w)
        /\ payload[o].post \notin ReadbackStates
        /\ ~MayPost(o)
        /\ Review(w, "ambiguous")
        /\ UNCHANGED <<attempts, due, link, remoteVars, admin>>

-----------------------------------------------------------------------------
\* client.create_request and its outcomes.

\* SkladBot makes the request, refuses it, or the POST is still on its way (or
\* lost) when the worker stops waiting.
Send(w) ==
    LET o == worker[w].order
    IN  /\ At(w, "posting")
        /\ \/ \E r \in Unused :
                 /\ created' = [created EXCEPT ![r] = o]
                 /\ worker' = [worker EXCEPT ![w].pc = "sent", ![w].got = r]
                 /\ UNCHANGED flying
           \/ /\ worker' = [worker EXCEPT ![w].pc = "refused"]
              /\ UNCHANGED remoteVars
           \/ /\ flying' = flying \cup {o}
              /\ worker' = [worker EXCEPT ![w].pc = "sent"]
              /\ UNCHANGED created
        /\ UNCHANGED <<status, attempts, due, payload, link, admin>>

\* The response carries the id; it is committed before anything else is asked.
Answered(w) ==
    LET o == worker[w].order
    IN  /\ At(w, "sent")
        /\ worker[w].got # None
        /\ payload' = [payload EXCEPT ![o].post = "response_received",
                                      ![o].response = worker[w].got]
        /\ worker' = [worker EXCEPT ![w].pc = "detail"]
        /\ UNCHANGED <<status, attempts, due, link, remoteVars, admin>>

\* The response carries no id.
Malformed(w) ==
    /\ At(w, "sent")
    /\ worker[w].got # None
    /\ Review(w, "ambiguous")
    /\ UNCHANGED <<attempts, due, link, remoteVars, admin>>

\* 429: SkladBot did not take the request.
RateLimited(w) ==
    /\ At(w, "refused")
    /\ Reschedule(w, [payload[worker[w].order] EXCEPT !.post = "retry_scheduled"], FALSE)
    /\ UNCHANGED <<attempts, link, remoteVars, admin>>

\* Any other 4xx
Rejected(w) ==
    /\ At(w, "refused")
    /\ Review(w, "rejected")
    /\ UNCHANGED <<attempts, due, link, remoteVars, admin>>

\* A 2xx answer whose body is not JSON: an error of no known kind counts as a
\* refusal, although SkladBot has the request.
Unreadable(w) ==
    /\ At(w, "sent")
    /\ worker[w].got # None
    /\ Review(w, "rejected")
    /\ UNCHANGED <<attempts, due, link, remoteVars, admin>>

\* Timeout, connection error or 5xx: schedule_skladbot_return_readback
Ambiguous(w) ==
    /\ At(w, "sent")
    /\ Reschedule(w, [payload[worker[w].order] EXCEPT !.post = "readback_scheduled",
                                                      !.readbacks = 0], FALSE)
    /\ UNCHANGED <<attempts, link, remoteVars, admin>>

-----------------------------------------------------------------------------
\* recover_skladbot_return_request_by_exact_id

\* save_skladbot_return_create_result
Save(w, r) ==
    /\ link' = [link EXCEPT ![worker[w].order] = r]
    /\ Finish(w, "completed", [payload[worker[w].order] EXCEPT !.post = "completed"])

DetailFound(w) ==
    /\ At(w, "detail")
    /\ Save(w, worker[w].got)
    /\ UNCHANGED <<attempts, due, remoteVars, admin>>

\* Mutant: failed look-ups are not counted.
TriesUncounted(p) == p.details

Tries(p) == p.details + 1

DetailFails(w) ==
    LET p == payload[worker[w].order]
    IN  /\ At(w, "detail")
        /\ \/ /\ Tries(p) < RetryLimit
              /\ Reschedule(w, [p EXCEPT !.post = "response_received", !.details = Tries(p)], FALSE)
           \/ /\ Tries(p) >= RetryLimit
              /\ Finish(w, "blocked",
                        [p EXCEPT !.post = "response_received", !.details = Tries(p)])
              /\ UNCHANGED due
        /\ UNCHANGED <<attempts, link, remoteVars, admin>>

\* A deterministic 4xx, another id, or no canonical number.
DetailRefused(w) ==
    /\ At(w, "detail")
    /\ Review(w, "response_received")
    /\ UNCHANGED <<attempts, due, link, remoteVars, admin>>

-----------------------------------------------------------------------------
\* readback_skladbot_return_request_after_ambiguous_post

\* Mutant: the bodies are not compared.
MatchingAny(o) == {r \in Requests : created[r] # None}

\* The requests with the fingerprint of the order's body.
Matching(o) == {r \in Requests : created[r] # None /\ Body[created[r]] = Body[o]}

\* The list is cut off at a limit, so a request may be missing from it unless the
\* list is proved to reach back before the POST.  A listed request whose detail
\* has another id, or is not a record, is passed over without a word.  SkladBot is
\* assumed to have executed or dropped a timed-out POST by the time the list is read.
ListRequests(w) ==
    LET o == worker[w].order
    IN  /\ At(w, "reading")
        /\ o \notin flying
        /\ \E complete \in BOOLEAN, seen \in SUBSET Matching(o) :
              /\ complete /\ SoundDetails => seen = Matching(o)
              /\ worker' = [worker EXCEPT ![w].pc = "listed", ![w].seen = seen,
                                          ![w].complete = complete]
        /\ UNCHANGED <<status, attempts, due, payload, link, remoteVars, admin>>

ListFails(w) ==
    LET p == payload[worker[w].order]
        n == worker[w].readbacks
    IN  /\ At(w, "reading")
        /\ \/ /\ n < RetryLimit
              /\ Reschedule(w, [p EXCEPT !.post = "readback_scheduled", !.readbacks = n], FALSE)
           \/ /\ n >= RetryLimit
              /\ Review(w, "ambiguous")
              /\ UNCHANGED due
        /\ UNCHANGED <<attempts, link, remoteVars, admin>>

\* The listed requests no other order is linked to.
Matches(w) ==
    {r \in worker[w].seen : \A o \in Orders \ {worker[w].order} : link[o] # r}

LinkMatch(w) ==
    /\ At(w, "listed")
    /\ \E r \in Matches(w) : Matches(w) = {r} /\ Save(w, r)
    /\ UNCHANGED <<attempts, due, remoteVars, admin>>

\* Mutant: a list that was cut off counts as a proof.
ProvedAbsentUncovered(w) == Matches(w) = {}

ProvedAbsent(w) == Matches(w) = {} /\ worker[w].complete

MayRepost(w) == ProvedAbsent(w) /\ worker[w].reposts < RepostLimit

\* The request is proved absent, and the POST may be repeated.
Repost(w) ==
    /\ At(w, "listed")
    /\ MayRepost(w)
    /\ Reschedule(w, [payload[worker[w].order] EXCEPT
                         !.post = "retry_scheduled", !.reposts = worker[w].reposts + 1,
                         !.readbacks = 0], TRUE)
    /\ UNCHANGED <<attempts, link, remoteVars, admin>>

\* The detail of the only match has no canonical number.
MatchRefused(w) ==
    /\ At(w, "listed")
    /\ \E r \in Matches(w) : Matches(w) = {r}
    /\ Review(w, "response_received")
    /\ UNCHANGED <<attempts, due, link, remoteVars, admin>>

\* Several matches, no proof, or no repost left.
ReviewReadback(w) ==
    /\ At(w, "listed")
    /\ ~\E r \in Matches(w) : Matches(w) = {r}
    /\ ~MayRepost(w)
    /\ Review(w, "ambiguous")
    /\ UNCHANGED <<attempts, due, link, remoteVars, admin>>

-----------------------------------------------------------------------------
\* The worker process dies; the row stays in "processing" ...
Crash(w) ==
    /\ ~At(w, "idle")
    /\ worker' = [worker EXCEPT ![w] = IdleWorker]
    /\ UNCHANGED <<status, attempts, due, payload, link, remoteVars, admin>>

\* ... until reset_stale_skladbot_return_create_events finds it ten minutes old.
\* No exchange of a live worker is assumed to last that long.
StaleReset(o) ==
    /\ status[o] = "processing"
    /\ \A w \in Workers : ~Holds(w, o)
    /\ status' = [status EXCEPT ![o] = "pending"]
    /\ due' = [due EXCEPT ![o] = TRUE]
    /\ UNCHANGED <<attempts, payload, link, remoteVars, worker, admin>>

TimePasses(o) ==
    /\ status[o] = "pending"
    /\ ~due[o]
    /\ due' = [due EXCEPT ![o] = TRUE]
    /\ UNCHANGED <<status, attempts, payload, link, remoteVars, worker, admin>>

\* SkladBot executes a delayed POST, or never sees it.
Land(o) ==
    /\ o \in flying
    /\ flying' = flying \ {o}
    /\ created' \in {created} \cup {[created EXCEPT ![r] = o] : r \in Unused}
    /\ UNCHANGED <<status, attempts, due, payload, link, worker, admin>>

\* retry_event_queue_event reads the row without a lock ...
AdminRead(o) ==
    /\ admin = IdleAdmin
    /\ status[o] = "pending"
    /\ admin' = [order |-> o, payload |-> payload[o]]
    /\ UNCHANGED <<status, attempts, due, payload, link, remoteVars, worker>>

\* ... and writes back the payload it read and a new available_at.  The status
\* it assigns is the one it read, so the ORM leaves that column out.
AdminWrite ==
    LET o == admin.order
    IN  /\ o # None
        /\ payload' = [payload EXCEPT ![o] = admin.payload]
        /\ due' = [due EXCEPT ![o] = TRUE]
        /\ admin' = IdleAdmin
        /\ UNCHANGED <<status, attempts, link, remoteVars, worker>>

-----------------------------------------------------------------------------
Decide(w) ==
    \/ AlreadyLinked(w) \/ LookUp(w) \/ BodyRefused(w)
    \/ StartReadback(w) \/ StartPost(w) \/ RefusePost(w)

Post(w) ==
    \/ Send(w) \/ Answered(w) \/ Malformed(w)
    \/ RateLimited(w) \/ Rejected(w) \/ Unreadable(w) \/ Ambiguous(w)

Detail(w) == DetailFound(w) \/ DetailFails(w) \/ DetailRefused(w)

Readback(w) ==
    \/ ListRequests(w) \/ ListFails(w)
    \/ LinkMatch(w) \/ MatchRefused(w) \/ Repost(w) \/ ReviewReadback(w)

WorkerStep(w) == Decide(w) \/ Post(w) \/ Detail(w) \/ Readback(w)

Undisturbed == AdminRace \/ admin = IdleAdmin

OrderStep(o) ==
    \/ Queue(o) \/ StaleReset(o) \/ TimePasses(o) \/ Land(o) \/ AdminRead(o)
    \/ \E w \in Workers : Claim(w, o)

Next ==
    \/ Undisturbed /\ \E o \in Orders : OrderStep(o)
    \/ Undisturbed /\ \E w \in Workers : WorkerStep(w) \/ Crash(w)
    \/ AdminWrite

Spec == Init /\ [][Next]_vars

\* The workers and the clock run on, SkladBot settles a delayed POST; crashes,
\* 429 answers and manual retries do not go on for ever.
FairSpec ==
    /\ Spec
    /\ \A w \in Workers : WF_vars(WorkerStep(w))
    /\ \A o \in Orders :
          /\ WF_vars(\E w \in Workers : Claim(w, o))
          /\ WF_vars(StaleReset(o))
          /\ WF_vars(TimePasses(o))
          /\ WF_vars(Land(o))
    /\ WF_vars(AdminWrite)
    /\ <>[][~(\E w \in Workers : Crash(w) \/ RateLimited(w))]_vars
    /\ <>[][~AdminWrite]_vars

-----------------------------------------------------------------------------
(***************************************************************************)
(* Properties                                                              *)
(***************************************************************************)
PayloadType ==
    [post : PostStates, response : Requests \cup {None}, reposts : 0..RepostLimit,
     readbacks : 0..RetryLimit, details : 0..RetryLimit]

\* The row, the order and the workers hold what their columns and locals admit,
\* and the counters of retries stay within their limits.
TypeOK ==
    /\ status \in [Orders -> Statuses]
    /\ attempts \in [Orders -> 0..2]
    /\ due \in [Orders -> BOOLEAN]
    /\ payload \in [Orders -> PayloadType]
    /\ link \in [Orders -> Requests \cup {None}]
    /\ created \in [Requests -> Orders \cup {None}]
    /\ flying \subseteq Orders
    /\ worker \in [Workers ->
          [pc : {"idle", "claimed", "posting", "sent", "refused", "detail", "reading", "listed"},
           order : Orders \cup {None}, got : Requests \cup {None},
           seen : SUBSET Requests, complete : BOOLEAN,
           reposts : 0..RepostLimit, readbacks : 0..RetryLimit]]
    /\ admin \in [order : Orders \cup {None}, payload : PayloadType]

\* A returned order gets at most one request in SkladBot, whatever crashes,
\* timeouts, 429 answers and retries befall its creation: "started" is committed
\* "before the only POST" (docs/runbook/SMARTUP_SAGA_RUNBOOK.md:72), and a second
\* one needs the proof that the first had no effect.
AtMostOneRequest ==
    \A o \in Orders :
        /\ \A r, s \in RequestsOf(o) : r = s
        /\ o \in flying => RequestsOf(o) = {}

\* A request that exists, or may still come to exist, and that its order does
\* not know of has left a trace in the row that forbids another POST.
UnlinkedRequestIsTraced ==
    \A o \in Orders :
        (RequestsOf(o) # {} \/ o \in flying) /\ link[o] = None
            => payload[o].post \notin {"none", "retry_scheduled"}

\* Returns as calls of SkladBot: the post state of the row is the mark.
Once == INSTANCE CallOnce WITH
    Calls <- Orders,
    Effects <- Requests,
    marked <- {o \in Orders : link[o] # None \/ payload[o].post \notin {"none", "retry_scheduled"}},
    effects <- [o \in Orders |-> RequestsOf(o)],
    recorded <- {o \in Orders : link[o] # None}

\* A request comes into being, at once or after the worker stopped waiting, only
\* while the row says that a POST may have gone out; only a 429 and a complete list
\* without a match take that back, and only while there is no request; and an
\* order is linked only when there is one.
ReturnIsOneCall == Once!Spec

\* A row is closed as completed only with a link, and the link is a request that
\* was made for this order.
CompletedIsLinked ==
    \A o \in Orders :
        /\ status[o] = "completed" => link[o] # None
        /\ link[o] # None => created[link[o]] = o

\* The row of a returned order does not stay open for ever: it is completed or
\* handed to manual review, and a worker that died with it does not keep it.
Settles ==
    \A o \in Orders : status[o] = "pending" ~> status[o] \in {"completed", "blocked"}

\* No request of SkladBot stands for the returns of two orders: a readback skips
\* the requests other orders are linked to (skladbot_return_requests.py:934).
RequestLinkedOnce ==
    \A a, b \in Orders : link[a] # None /\ link[a] = link[b] => a = b

\* Only what SkladBot did not accept is recorded as rejected: "a timeout, the
\* network, a 5xx, an empty or invalid response id ... count as ambiguous"
\* (docs/runbook/SMARTUP_SAGA_RUNBOOK.md:60).
RejectedHasNoRequest ==
    \A o \in Orders : payload[o].post = "rejected" => RequestsOf(o) = {}

\* "Timeout/network/5xx or a response without an id blocks the event for manual
\* review; looking the request up in a list and repeating the POST are forbidden"
\* (docs/runbook/SMARTUP_SAGA_RUNBOOK.md:73).
NoPostAfterUnknownOutcome ==
    [][\A o \in Orders :
          payload[o].post \in ReadbackStates => payload'[o].post # "retry_scheduled"]_vars
=============================================================================
