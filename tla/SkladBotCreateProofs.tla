------------------------- MODULE SkladBotCreateProofs -------------------------
(***************************************************************************)
(* For every finite set of orders and every number of faults: the types of *)
(* SkladBotCreate, its safety, and that the POST for an order is one call  *)
(* of CallOnce.                                                            *)
(*                                                                         *)
(* An order's first request is its only one.  So the proof never counts:   *)
(* it follows one request per order, from the POST to the place where the  *)
(* order, or its event, still knows of it.                                 *)
(***************************************************************************)
EXTENDS SkladBotCreate, FiniteSetTheorems, TLAPS

First(o) == <<o, 1>>
Made(o) == First(o) \in remote \cup flying
FirstRequests == {First(o) : o \in Orders}

-----------------------------------------------------------------------------
(***************************************************************************)
(* The invariant                                                           *)
(***************************************************************************)
Rows == {"none", "pending", "processing", "completed", "blocked"}
Pcs == {"idle", "decide", "post", "answered", "detail", "match"}

OrderType == [status : OrderStates, link : Requests \cup {None}]
EventType == [row : Rows, post : PostStates, resp : Requests \cup {None},
              tried : BOOLEAN, again : BOOLEAN, waits : BOOLEAN]
WorkerType == [pc : Pcs, order : Orders \cup {None}, id : Requests \cup {None}]
SnapType == UNION {[D -> OrderType] : D \in SUBSET Orders}
SyncType == [pc : {"idle", "fetched", "read"}, seen : SUBSET Requests, snap : SnapType]

Typing ==
    /\ order \in [Orders -> OrderType]
    /\ event \in [Orders -> EventType]
    /\ remote \subseteq FirstRequests
    /\ flying \subseteq FirstRequests
    /\ worker \in WorkerType
    /\ sync \in [Syncs -> SyncType]

\* What an event knows of the request of its order
EventSafe(o) ==
    /\ event[o].resp \in {None, First(o)}
    /\ event[o].resp # None => event[o].post \in {"response_received", "ambiguous", "completed"}
    /\ event[o].post = "completed" => event[o].row = "completed"
    /\ event[o].post \in {"rejected", "failed_confirmed"} => event[o].row = "blocked"
    /\ Made(o) => event[o].resp # None \/ event[o].post \notin Untried
    /\ event[o].row = "none" => event[o].post = "none"

\* An order that is not stored has no event; one that came with its event is
\* protected until it is linked, and linked to its own request.
OrderSafe(o) ==
    /\ order[o].status = "absent" => event[o].row = "none"
    /\ o \in FromFile =>
          /\ order[o].link \in {None, First(o)}
          /\ order[o].link = None => order[o].status \in Protected \cup {"absent"}

\* What the worker knows at each of its steps
WorkerSafe ==
    worker.pc # "idle" =>
        /\ worker.order \in Orders
        /\ event[worker.order].row = "processing"
        /\ worker.pc \in {"post", "answered"} => event[worker.order].post = "started"
        /\ worker.pc = "post" => ~Made(worker.order)
        /\ worker.pc = "answered" => worker.id = First(worker.order)
        /\ worker.pc = "detail" => worker.id # None /\ worker.id = event[worker.order].resp

\* A synchronisation holds orders without a link.
SnapSafe(snap) ==
    \A o \in DOMAIN snap :
        /\ snap[o].link = None
        /\ snap[o].status # "absent"
        /\ o \in FromFile => snap[o].status \in Protected

SyncSafe == \A s \in Syncs : SnapSafe(sync[s].snap)

Inv ==
    /\ Typing
    /\ \A o \in Orders : EventSafe(o) /\ OrderSafe(o)
    /\ WorkerSafe
    /\ SyncSafe

-----------------------------------------------------------------------------
(***************************************************************************)
(* What the invariant gives                                                *)
(***************************************************************************)
LEMMA FirstIsRequest == FirstRequests \subseteq Requests /\ \A o \in Orders : First(o) \in Requests /\ First(o) # None
  BY FaultAssumption, NoneAssumption DEF FirstRequests, First, Requests

LEMMA InvGivesTypeOK == Inv => TypeOK
  BY FirstIsRequest DEF Inv, Typing, TypeOK, OrderType, EventType, Rows

LEMMA RequestsAreFirst ==
    ASSUME Inv, NEW o \in Orders
    PROVE  RequestsOf(o) = IF Made(o) THEN {First(o)} ELSE {}
  BY DEF Inv, Typing, RequestsOf, Owner, Made, First, FirstRequests

LEMMA InvGivesOneRequest == Inv => AtMostOneRequest
  <1> SUFFICES ASSUME Inv, NEW o \in Orders PROVE Cardinality(RequestsOf(o)) <= 1
    BY DEF AtMostOneRequest
  <1>1. CASE Made(o)
    <2>1. RequestsOf(o) = {First(o)}
      BY <1>1, RequestsAreFirst
    <2>2. Cardinality({First(o)}) = 1
      BY FS_Singleton
    <2> QED
      BY <2>1, <2>2
  <1>2. CASE ~Made(o)
    <2>1. RequestsOf(o) = {}
      BY <1>2, RequestsAreFirst
    <2> QED
      BY <2>1, FS_EmptySet
  <1> QED
    BY <1>1, <1>2

LEMMA InvGivesTraced == Inv => UnlinkedRequestIsTraced
  <1> SUFFICES ASSUME Inv, NEW o \in Orders, NEW r \in RequestsOf(o)
               PROVE  event[o].resp = r \/ event[o].post \notin Untried
    BY DEF UnlinkedRequestIsTraced
  <1>1. Made(o) /\ r = First(o)
    BY RequestsAreFirst
  <1> QED
    BY <1>1 DEF Inv, EventSafe

LEMMA InvGivesOwnLink == Inv => LinkIsOwn
  BY FileAssumption DEF Inv, OrderSafe, LinkIsOwn, First, Owner

LEMMA IdleSyncSafe == IdleSync \in SyncType /\ SnapSafe(IdleSync.snap)
  <1> DEFINE none == [o \in {} |-> None]
  <1>1. none \in [{} -> OrderType] /\ DOMAIN none = {}
    OBVIOUS
  <1> HIDE DEF none
  <1>2. none \in SnapType
    <2>1. [{} -> OrderType] \in {[D -> OrderType] : D \in SUBSET Orders}
      OBVIOUS
    <2> QED
      BY <1>1, <2>1 DEF SnapType
  <1>3. IdleSync = [pc |-> "idle", seen |-> {}, snap |-> none]
    BY DEF IdleSync, none
  <1>4. IdleSync.snap = none
    BY <1>3
  <1> QED
    BY <1>1, <1>2, <1>3, <1>4 DEF SyncType, SnapSafe

LEMMA InvInit == Init => Inv
  <1> SUFFICES ASSUME Init PROVE Inv
    OBVIOUS
  <1>1. /\ NoEvent \in EventType /\ NoEvent.row = "none" /\ NoEvent.post = "none" /\ NoEvent.resp = None
        /\ IdleWorker \in WorkerType /\ IdleWorker.pc = "idle"
    BY DEF NoEvent, EventType, Rows, PostStates, IdleWorker, WorkerType, Pcs
  <1>2. IdleSync \in SyncType /\ SnapSafe(IdleSync.snap)
    BY IdleSyncSafe
  <1>3. Typing
    BY <1>1, <1>2 DEF Init, Typing, OrderType, OrderStates
  <1>4. ASSUME NEW o \in Orders PROVE EventSafe(o) /\ OrderSafe(o)
    BY <1>1, <1>4 DEF Init, EventSafe, OrderSafe, Made
  <1> QED
    BY <1>1, <1>2, <1>3, <1>4 DEF Inv, Init, WorkerSafe, SyncSafe

-----------------------------------------------------------------------------
(***************************************************************************)
(* Steps on the rows of one order                                          *)
(***************************************************************************)
Others(o) ==
    /\ \A p \in Orders \ {o} :
          /\ order'[p] = order[p]
          /\ event'[p] = event[p]
          /\ Made(p)' <=> Made(p)
    /\ UNCHANGED sync

LEMMA OneOrder ==
    ASSUME Inv, NEW o \in Orders, Others(o), Typing', EventSafe(o)', OrderSafe(o)', WorkerSafe'
    PROVE  Inv'
  <1>1. ASSUME NEW p \in Orders, p # o PROVE EventSafe(p)' /\ OrderSafe(p)'
    BY <1>1 DEF Inv, EventSafe, OrderSafe, Others
  <1>2. SyncSafe'
    BY DEF Inv, SyncSafe, Others
  <1> QED
    BY <1>1, <1>2 DEF Inv

\* What is known of the order the worker is at
LEMMA AtWork ==
    ASSUME Inv, worker.pc # "idle", NEW o, o = worker.order
    PROVE  /\ o \in Orders /\ EventSafe(o) /\ OrderSafe(o)
           /\ order[o] \in OrderType /\ event[o] \in EventType /\ worker \in WorkerType
           /\ event[o].row = "processing" /\ event[o].post # "completed" /\ order[o].status # "absent"
  BY DEF Inv, Typing, WorkerSafe, EventSafe, OrderSafe

LEMMA IdleIs == IdleWorker \in WorkerType /\ IdleWorker.pc = "idle"
  BY DEF IdleWorker, WorkerType, Pcs

\* A step that ends the work on an order, or leaves nothing of it
LEMMA Leaves == worker' = IdleWorker => WorkerSafe'
  BY IdleIs DEF WorkerSafe

-----------------------------------------------------------------------------
\* What the assignments of the steps leave in the rows of an order
LEMMA SetStatus ==
    ASSUME Inv, NEW o \in Orders, NEW s \in OrderStates, order' = [order EXCEPT ![o].status = s]
    PROVE  /\ order' \in [Orders -> OrderType]
           /\ order'[o].status = s /\ order'[o].link = order[o].link
           /\ \A p \in Orders \ {o} : order'[p] = order[p]
  <1>1. order \in [Orders -> OrderType]
    BY DEF Inv, Typing
  <1> QED
    BY <1>1 DEF OrderType

LEMMA EventTyped ==
    ASSUME Inv, NEW o \in Orders
    PROVE  event \in [Orders -> EventType] /\ event[o] \in EventType
  BY DEF Inv, Typing

LEMMA Queued == /\ QueuedEvent \in EventType /\ QueuedEvent.row = "pending"
                /\ QueuedEvent.post = "none" /\ QueuedEvent.resp = None
  BY DEF QueuedEvent, NoEvent, EventType, Rows, PostStates

-----------------------------------------------------------------------------
(***************************************************************************)
(* Orders and events that are stored                                       *)
(***************************************************************************)
LEMMA ImportKeeps ==
    ASSUME Inv, NEW o \in Orders, Import(o) \/ Queue(o)
    PROVE  Inv'
  <1>1. event[o].row = "none" /\ EventSafe(o) /\ OrderSafe(o) /\ order[o] \in OrderType
    BY DEF Inv, Typing, OrderSafe, Import, Queue, Stored
  <1>2. /\ order' \in [Orders -> OrderType]
        /\ order'[o].status # "absent" /\ order'[o].link = order[o].link
        /\ o \in FromFile => order'[o].status \in Protected
        /\ \A p \in Orders \ {o} : order'[p] = order[p]
    <2>1. PICK s \in {"create_queued", "new"} :
             order' = [order EXCEPT ![o].status = s] /\ (o \in FromFile => s = "create_queued")
      BY DEF Import, Queue, QueuedOrder
    <2>2. s \in OrderStates /\ (o \in FromFile => s \in Protected)
      BY <2>1 DEF OrderStates, Protected
    <2> QED
      BY <2>1, <2>2, SetStatus
  <1>3. /\ event' = event \/ event' = [event EXCEPT ![o] = QueuedEvent]
        /\ UNCHANGED <<remote, flying, worker, sync>>
    BY DEF Import, Queue
  <1>4. event' \in [Orders -> EventType] /\ event'[o] \in {event[o], QueuedEvent}
        /\ \A p \in Orders \ {o} : event'[p] = event[p]
    BY <1>3, Queued DEF Inv, Typing
  <1>5. Typing' /\ Others(o)
    BY <1>2, <1>3, <1>4 DEF Inv, Typing, Others, Made
  <1>6. EventSafe(o)'
    BY <1>1, <1>3, <1>4, Queued DEF EventSafe, Made, Untried
  <1>7. OrderSafe(o)'
    BY <1>1, <1>2 DEF OrderSafe
  <1>8. WorkerSafe'
    BY <1>1, <1>3, <1>4 DEF Inv, WorkerSafe, Made
  <1> QED
    BY <1>5, <1>6, <1>7, <1>8, OneOrder

-----------------------------------------------------------------------------
(***************************************************************************)
(* The worker                                                              *)
(***************************************************************************)
LEMMA ClaimKeeps ==
    ASSUME Inv, NEW o \in Orders, Claim(o)
    PROVE  Inv'
  <1>1. event[o].row = "pending" /\ EventSafe(o) /\ OrderSafe(o) /\ event[o] \in EventType
    BY DEF Inv, Typing, Claim
  <1>2. /\ event' \in [Orders -> EventType]
        /\ event'[o].row = "processing" /\ event'[o].post = event[o].post /\ event'[o].resp = event[o].resp
        /\ \A p \in Orders \ {o} : event'[p] = event[p]
    BY DEF Claim, Inv, Typing, EventType, Rows
  <1>3. /\ worker' = [pc |-> "decide", order |-> o, id |-> None]
        /\ UNCHANGED <<order, remote, flying, sync>>
    BY DEF Claim
  <1>4. Typing' /\ Others(o)
    BY <1>2, <1>3 DEF Inv, Typing, Others, Made, WorkerType, Pcs
  <1>5. EventSafe(o)' /\ OrderSafe(o)'
    BY <1>1, <1>2, <1>3 DEF EventSafe, OrderSafe, Made
  <1>6. WorkerSafe'
    BY <1>2, <1>3 DEF WorkerSafe
  <1> QED
    BY <1>4, <1>5, <1>6, OneOrder

\* A step that ends the work on the order o
LEMMA EndKeeps ==
    ASSUME Inv, NEW o \in Orders, worker' = IdleWorker, UNCHANGED sync,
           order' \in [Orders -> OrderType], event' \in [Orders -> EventType],
           \A p \in Orders \ {o} : order'[p] = order[p] /\ event'[p] = event[p] /\ (Made(p)' <=> Made(p)),
           remote' \subseteq FirstRequests, flying' \subseteq FirstRequests,
           EventSafe(o)', OrderSafe(o)'
    PROVE  Inv'
  <1>1. Typing' /\ Others(o)
    BY IdleIs DEF Inv, Typing, Others
  <1> QED
    BY <1>1, OneOrder, Leaves

LEMMA AmbiguousKeeps ==
    ASSUME Inv, worker.pc # "idle", NEW o \in Orders, o = worker.order, MarkAmbiguous, UNCHANGED sync,
           remote' \subseteq FirstRequests, flying' \subseteq FirstRequests,
           \A p \in Orders \ {o} : Made(p)' <=> Made(p),
           Made(o) => Made(o)', event[o].resp = None \/ UNCHANGED <<remote, flying>>
    PROVE  Inv'
  <1>1. "ambiguous" \in OrderStates /\ "ambiguous" \in Protected
        /\ "blocked" \in Rows /\ "ambiguous" \in PostStates /\ "ambiguous" \notin Untried
    BY DEF OrderStates, Protected, Rows, PostStates, PostOutcomeAmbiguous, Untried
  <1>2. /\ order' = [order EXCEPT ![o].status = "ambiguous"]
        /\ event' = [event EXCEPT ![o].row = "blocked", ![o].post = "ambiguous"]
        /\ worker' = IdleWorker
    BY DEF MarkAmbiguous, Mine
  <1>3. /\ order' \in [Orders -> OrderType]
        /\ order'[o].status = "ambiguous" /\ order'[o].link = order[o].link
        /\ \A p \in Orders \ {o} : order'[p] = order[p]
    BY <1>1, <1>2, SetStatus
  <1>4. /\ event' \in [Orders -> EventType]
        /\ event'[o].row = "blocked" /\ event'[o].post = "ambiguous" /\ event'[o].resp = event[o].resp
        /\ \A p \in Orders \ {o} : event'[p] = event[p]
    BY <1>1, <1>2, EventTyped DEF EventType
  <1>5. EventSafe(o)'
    BY <1>1, <1>4, AtWork DEF EventSafe
  <1>6. OrderSafe(o)'
    BY <1>1, <1>3, AtWork DEF OrderSafe
  <1> QED
    BY <1>2, <1>3, <1>4, <1>5, <1>6, EndKeeps

LEMMA BlockKeeps ==
    ASSUME Inv, worker.pc # "idle", NEW o \in Orders, o = worker.order,
           NEW status \in Protected, NEW post \in PostStates \ {"completed"}, Block(status, post),
           UNCHANGED sync, remote' \subseteq FirstRequests, flying' \subseteq FirstRequests,
           \A p \in Orders \ {o} : Made(p)' <=> Made(p),
           \/ post = event[o].post /\ UNCHANGED <<remote, flying>>
           \/ worker.pc = "post" /\ (Made(o)' => post \notin Untried)
    PROVE  Inv'
  <1>1. status \in OrderStates /\ status # "absent" /\ "blocked" \in Rows
    BY DEF OrderStates, Protected, Rows
  <1>2. /\ order' = [order EXCEPT ![o].status = status]
        /\ event' = [event EXCEPT ![o].row = "blocked", ![o].post = post]
        /\ worker' = IdleWorker
    BY DEF Block, Mine
  <1>3. /\ order' \in [Orders -> OrderType]
        /\ order'[o].status = status /\ order'[o].link = order[o].link
        /\ \A p \in Orders \ {o} : order'[p] = order[p]
    BY <1>1, <1>2, SetStatus
  <1>4. /\ event' \in [Orders -> EventType]
        /\ event'[o].row = "blocked" /\ event'[o].post = post /\ event'[o].resp = event[o].resp
        /\ \A p \in Orders \ {o} : event'[p] = event[p]
    BY <1>1, <1>2, EventTyped DEF EventType
  <1>5. UNCHANGED <<remote, flying>> => (Made(o)' <=> Made(o))
    BY DEF Made
  <1>6. worker.pc = "post" => event[o].resp = None
    BY AtWork DEF Inv, WorkerSafe, EventSafe
  <1>7. EventSafe(o)'
    BY <1>4, <1>5, <1>6, AtWork DEF EventSafe
  <1>8. OrderSafe(o)'
    BY <1>1, <1>3, AtWork DEF OrderSafe
  <1> QED
    BY <1>2, <1>3, <1>4, <1>7, <1>8, EndKeeps

LEMMA LinkedKeeps ==
    ASSUME Inv, NEW o \in Orders, o = worker.order, AlreadyLinked
    PROVE  Inv'
  <1>1. /\ worker.pc # "idle" /\ order' = order
        /\ event' = [event EXCEPT ![o].row = "completed"] /\ worker' = IdleWorker
        /\ UNCHANGED <<remote, flying, sync>>
    BY DEF AlreadyLinked, At, Mine
  <1>2. /\ event' \in [Orders -> EventType]
        /\ event'[o].row = "completed" /\ event'[o].post = event[o].post /\ event'[o].resp = event[o].resp
        /\ \A p \in Orders \ {o} : event'[p] = event[p]
    BY <1>1, EventTyped DEF EventType, Rows
  <1>3. \A p \in Orders : Made(p)' <=> Made(p)
    BY <1>1 DEF Made
  <1>4. EventSafe(o)' /\ OrderSafe(o)'
    BY <1>1, <1>2, <1>3, AtWork DEF EventSafe, OrderSafe
  <1> QED
    BY <1>1, <1>2, <1>3, <1>4, EndKeeps DEF Inv, Typing

LEMMA RateLimitedKeeps ==
    ASSUME Inv, NEW o \in Orders, o = worker.order, PostRateLimited
    PROVE  Inv'
  <1>1. /\ worker.pc = "post" /\ worker' = IdleWorker
        /\ order' = [order EXCEPT ![o].status = "create_queued"]
        /\ event' = [event EXCEPT ![o].row = "pending", ![o].post = "retry_scheduled", ![o].waits = TRUE]
        /\ UNCHANGED <<remote, flying, sync>>
    BY DEF PostRateLimited, At, Mine, QueuedOrder
  <1>2. "create_queued" \in OrderStates /\ "create_queued" \in Protected
        /\ "pending" \in Rows /\ "retry_scheduled" \in PostStates
    BY DEF OrderStates, Protected, Rows, PostStates
  <1>3. /\ order' \in [Orders -> OrderType]
        /\ order'[o].status = "create_queued" /\ order'[o].link = order[o].link
        /\ \A p \in Orders \ {o} : order'[p] = order[p]
    BY <1>1, <1>2, SetStatus
  <1>4. /\ event' \in [Orders -> EventType]
        /\ event'[o].row = "pending" /\ event'[o].post = "retry_scheduled" /\ event'[o].resp = event[o].resp
        /\ \A p \in Orders \ {o} : event'[p] = event[p]
    <2> DEFINE e == [event[o] EXCEPT !.row = "pending", !.post = "retry_scheduled", !.waits = TRUE]
    <2>1. event \in [Orders -> EventType] /\ event[o] \in EventType
      BY EventTyped
    <2>2. event' = [event EXCEPT ![o] = e]
      BY <1>1, <2>1
    <2>3. e \in EventType /\ e.row = "pending" /\ e.post = "retry_scheduled" /\ e.resp = event[o].resp
      BY <1>2, <2>1 DEF EventType
    <2> HIDE DEF e
    <2> QED
      BY <2>1, <2>2, <2>3
  <1>5. ~Made(o) /\ event[o].resp = None /\ \A p \in Orders : Made(p)' <=> Made(p)
    BY <1>1, AtWork DEF Inv, WorkerSafe, EventSafe, Made
  <1>6. EventSafe(o)'
    BY <1>4, <1>5 DEF EventSafe
  <1>7. OrderSafe(o)'
    BY <1>1, <1>2, <1>3, AtWork DEF OrderSafe
  <1> QED
    BY <1>1, <1>3, <1>4, <1>5, <1>6, <1>7, EndKeeps DEF Inv, Typing

LEMMA DetailKeeps ==
    ASSUME Inv, NEW o \in Orders, o = worker.order, ReadDetail
    PROVE  Inv'
  <1>1. worker.pc = "detail" /\ worker' = IdleWorker /\ UNCHANGED <<remote, flying, sync>>
    BY DEF ReadDetail, At
  <1>2. worker.id = First(o) /\ worker.id # None /\ worker.id = event[o].resp /\ worker.id \in Requests
    BY <1>1, AtWork, FirstIsRequest DEF Inv, WorkerSafe, EventSafe
  <1>3. PICK status \in Linked : order' = [order EXCEPT ![o] = [status |-> status, link |-> worker.id]]
    BY DEF ReadDetail, Saved, Mine, Linked
  <1>4. event' = [event EXCEPT ![o].row = "completed", ![o].post = "completed"]
    BY DEF ReadDetail, Saved, Mine
  <1>5. /\ order' \in [Orders -> OrderType]
        /\ order'[o].link = worker.id /\ order'[o].status # "absent"
        /\ \A p \in Orders \ {o} : order'[p] = order[p]
    BY <1>2, <1>3 DEF Inv, Typing, OrderType, OrderStates, Linked
  <1>6. "completed" \in Rows /\ "completed" \in PostStates
    BY DEF Rows, PostStates
  <1>7. /\ event' \in [Orders -> EventType]
        /\ event'[o].row = "completed" /\ event'[o].post = "completed" /\ event'[o].resp = event[o].resp
        /\ \A p \in Orders \ {o} : event'[p] = event[p]
    BY <1>4, <1>6, EventTyped DEF EventType
  <1>8. EventSafe(o)'
    BY <1>2, <1>7 DEF EventSafe
  <1>9. OrderSafe(o)'
    BY <1>2, <1>5 DEF OrderSafe
  <1>10. \A p \in Orders : Made(p)' <=> Made(p)
    BY <1>1 DEF Made
  <1> QED
    BY <1>1, <1>5, <1>7, <1>8, <1>9, <1>10, EndKeeps DEF Inv, Typing

\* Steps that go on with the same order and leave its row in processing
LEMMA GoOnKeeps ==
    ASSUME Inv, worker.pc # "idle", NEW o \in Orders, o = worker.order, UNCHANGED <<order, sync>>,
           NEW post \in PostOutcomeAmbiguous, NEW resp \in {None, First(o)},
           event' \in [Orders -> EventType],
           event'[o].row = "processing", event'[o].post = post, event'[o].resp = resp,
           \A p \in Orders \ {o} : event'[p] = event[p] /\ (Made(p)' <=> Made(p)),
           remote' \subseteq FirstRequests, flying' \subseteq FirstRequests,
           resp # None => post \in {"response_received", "ambiguous"},
           worker' \in WorkerType, worker'.order = o, WorkerSafe'
    PROVE  Inv'
  <1>1. Typing' /\ Others(o)
    BY DEF Inv, Typing, Others
  <1>2. EventSafe(o)'
    BY DEF EventSafe, PostOutcomeAmbiguous, Untried
  <1>3. OrderSafe(o)'
    BY AtWork DEF OrderSafe
  <1> QED
    BY <1>1, <1>2, <1>3, OneOrder

LEMMA StartPostKeeps ==
    ASSUME Inv, NEW o \in Orders, o = worker.order, StartPost
    PROVE  Inv'
  <1>1. /\ worker.pc = "decide" /\ MayPost(event[o])
        /\ event' = [event EXCEPT ![o].post = "started"]
        /\ worker' = [worker EXCEPT !.pc = "post"]
        /\ UNCHANGED <<order, remote, flying, sync>>
    BY DEF StartPost, At, Mine, Goto
  <1>2. "started" \in PostStates /\ "post" \in Pcs /\ "started" \in PostOutcomeAmbiguous
    BY DEF PostStates, Pcs, PostOutcomeAmbiguous
  <1>3. event[o].resp = None /\ ~Made(o) /\ event[o].row = "processing" /\ worker \in WorkerType
    BY <1>1, AtWork DEF EventSafe, MayPost, EventType, PostStates, PostOutcomeAmbiguous, Untried
  <1>4. /\ event' \in [Orders -> EventType]
        /\ event'[o].row = "processing" /\ event'[o].post = "started" /\ event'[o].resp = None
        /\ \A p \in Orders \ {o} : event'[p] = event[p]
    BY <1>1, <1>2, <1>3, EventTyped DEF EventType
  <1>5. worker' \in WorkerType /\ worker'.order = o /\ worker'.pc = "post"
    BY <1>1, <1>2, <1>3 DEF WorkerType
  <1>6. \A p \in Orders : Made(p)' <=> Made(p)
    BY <1>1 DEF Made
  <1>7. WorkerSafe'
    BY <1>3, <1>4, <1>5, <1>6 DEF WorkerSafe
  <1> QED
    BY <1>1, <1>2, <1>4, <1>5, <1>6, <1>7, GoOnKeeps DEF Inv, Typing

LEMMA StartLookUpKeeps ==
    ASSUME Inv, NEW o \in Orders, o = worker.order, StartLookUp
    PROVE  Inv'
  <1>1. /\ worker.pc = "decide" /\ UNCHANGED <<order, event, remote, flying, sync>>
        /\ worker' = [worker EXCEPT !.pc = IF event[o].resp = None THEN "match" ELSE "detail",
                                    !.id = event[o].resp]
    BY DEF StartLookUp, At, Mine
  <1>2. /\ EventSafe(o) /\ OrderSafe(o) /\ event[o] \in EventType /\ worker \in WorkerType
        /\ event[o].row = "processing"
    BY <1>1, AtWork
  <1>3. /\ worker' \in WorkerType /\ worker'.order = o /\ worker'.id = event[o].resp
        /\ worker'.pc = IF event[o].resp = None THEN "match" ELSE "detail"
    BY <1>1, <1>2 DEF WorkerType, Pcs, EventType
  <1>4. \A p \in Orders : Made(p)' <=> Made(p)
    BY <1>1 DEF Made
  <1>5. WorkerSafe'
    BY <1>1, <1>2, <1>3 DEF WorkerSafe
  <1>6. Typing' /\ Others(o) /\ EventSafe(o)' /\ OrderSafe(o)'
    BY <1>1, <1>2, <1>3, <1>4 DEF Inv, Typing, Others, EventSafe, OrderSafe
  <1> QED
    BY <1>5, <1>6, OneOrder

\* The first request of an order gets the first number.
LEMMA NewIsFirst ==
    ASSUME Inv, NEW o \in Orders, ~Made(o)
    PROVE  NewRequest(o) = First(o)
  <1>1. {r \in remote \cup flying : Owner(r) = o} = {}
    BY RequestsAreFirst DEF RequestsOf
  <1> QED
    BY <1>1, FS_EmptySet DEF NewRequest, First

\* What is known when the POST of the order o goes out, and what it may add
LEMMA AtPost ==
    ASSUME Inv, NEW o \in Orders, o = worker.order, worker.pc = "post"
    PROVE  /\ NewRequest(o) = First(o) /\ ~Made(o)
           /\ event[o].resp = None /\ event[o].post = "started" /\ event[o].row = "processing"
           /\ remote \subseteq FirstRequests /\ flying \subseteq FirstRequests
           /\ First(o) \in FirstRequests
           /\ \A p \in Orders \ {o} : First(p) # First(o)
  <1>1. ~Made(o) /\ EventSafe(o) /\ event[o].post = "started" /\ event[o].row = "processing"
    BY DEF Inv, WorkerSafe
  <1> QED
    BY <1>1, NewIsFirst DEF Inv, Typing, FirstRequests, First, EventSafe

LEMMA PostAnsweredKeeps ==
    ASSUME Inv, NEW o \in Orders, o = worker.order, PostAnswered
    PROVE  Inv'
  <1>1. /\ worker.pc = "post" /\ remote' = remote \cup {NewRequest(o)}
        /\ worker' = [worker EXCEPT !.pc = "answered", !.id = NewRequest(o)]
        /\ UNCHANGED <<order, event, flying, sync>>
    BY DEF PostAnswered, At, Mine
  <1>2. worker \in WorkerType /\ "answered" \in Pcs /\ First(o) \in Requests
    BY FirstIsRequest DEF Inv, Typing, Pcs
  <1>3. worker' \in WorkerType /\ worker'.order = o /\ worker'.pc = "answered" /\ worker'.id = First(o)
    BY <1>1, <1>2, AtPost DEF WorkerType
  <1>4. /\ remote' \subseteq FirstRequests /\ flying' \subseteq FirstRequests
        /\ \A p \in Orders \ {o} : Made(p)' <=> Made(p)
    BY <1>1, AtPost DEF Made
  <1>5. WorkerSafe'
    BY <1>1, <1>3, AtPost DEF WorkerSafe
  <1>6. "started" \in PostOutcomeAmbiguous
    BY DEF PostOutcomeAmbiguous
  <1>7. event' \in [Orders -> EventType] /\ event'[o].row = "processing" /\ event'[o].post = "started"
        /\ event'[o].resp = None /\ event' = event
    BY <1>1, AtPost, EventTyped
  <1> QED
    BY <1>1, <1>3, <1>4, <1>5, <1>6, <1>7, GoOnKeeps

LEMMA RecordResponseKeeps ==
    ASSUME Inv, NEW o \in Orders, o = worker.order, RecordResponse
    PROVE  Inv'
  <1>1. /\ worker.pc = "answered" /\ UNCHANGED <<order, remote, flying, sync>>
        /\ event' = [event EXCEPT ![o].post = "response_received", ![o].resp = worker.id]
        /\ worker' = [worker EXCEPT !.pc = "detail"]
    BY DEF RecordResponse, At, Mine, Goto
  <1>2. /\ worker.id = First(o) /\ First(o) \in Requests /\ First(o) # None
        /\ worker \in WorkerType /\ event[o].row = "processing"
    BY <1>1, FirstIsRequest DEF Inv, Typing, WorkerSafe
  <1>3. "response_received" \in PostStates /\ "response_received" \in PostOutcomeAmbiguous /\ "detail" \in Pcs
    BY DEF PostStates, PostOutcomeAmbiguous, Pcs
  <1>4. /\ event' \in [Orders -> EventType]
        /\ event'[o].row = "processing" /\ event'[o].post = "response_received" /\ event'[o].resp = First(o)
        /\ \A p \in Orders \ {o} : event'[p] = event[p]
    BY <1>1, <1>2, <1>3, EventTyped DEF EventType
  <1>5. worker' \in WorkerType /\ worker'.order = o /\ worker'.pc = "detail" /\ worker'.id = First(o)
    BY <1>1, <1>2, <1>3 DEF WorkerType
  <1>6. \A p \in Orders : Made(p)' <=> Made(p)
    BY <1>1 DEF Made
  <1>7. WorkerSafe'
    BY <1>2, <1>4, <1>5 DEF WorkerSafe
  <1> QED
    BY <1>1, <1>2, <1>3, <1>4, <1>5, <1>6, <1>7, GoOnKeeps DEF Inv, Typing

LEMMA UnansweredKeeps ==
    ASSUME Inv, NEW o \in Orders, o = worker.order, PostUnanswered
    PROVE  Inv'
  <1>1. /\ worker.pc = "post" /\ UNCHANGED <<order, sync>>
        /\ event' = [event EXCEPT ![o].post = "ambiguous"]
        /\ worker' = [worker EXCEPT !.pc = "match"]
        /\ \/ remote' = remote \cup {NewRequest(o)} /\ UNCHANGED flying
           \/ flying' = flying \cup {NewRequest(o)} /\ UNCHANGED remote
           \/ UNCHANGED <<remote, flying>>
    BY DEF PostUnanswered, At, Mine, Goto, UnknownOutcome
  <1>2. "ambiguous" \in PostStates /\ "match" \in Pcs /\ "ambiguous" \in PostOutcomeAmbiguous
    BY DEF PostStates, PostOutcomeAmbiguous, Pcs
  <1>3. /\ event' \in [Orders -> EventType]
        /\ event'[o].row = "processing" /\ event'[o].post = "ambiguous" /\ event'[o].resp = None
        /\ \A p \in Orders \ {o} : event'[p] = event[p]
    BY <1>1, <1>2, AtPost, EventTyped DEF EventType
  <1>4. worker \in WorkerType
    BY DEF Inv, Typing
  <1>5. worker' \in WorkerType /\ worker'.order = o /\ worker'.pc = "match"
    BY <1>1, <1>2, <1>4 DEF WorkerType
  <1>6. /\ remote' \subseteq FirstRequests /\ flying' \subseteq FirstRequests
        /\ \A p \in Orders \ {o} : Made(p)' <=> Made(p)
    BY <1>1, AtPost DEF Made
  <1>7. WorkerSafe'
    BY <1>3, <1>5 DEF WorkerSafe
  <1> QED
    BY <1>1, <1>2, <1>3, <1>5, <1>6, <1>7, GoOnKeeps

LEMMA NoIdKeeps ==
    ASSUME Inv, NEW o \in Orders, o = worker.order, PostAnsweredWithoutId
    PROVE  Inv'
  <1>1. /\ worker.pc = "post" /\ remote' = remote \cup {NewRequest(o)}
        /\ MarkAmbiguous /\ UNCHANGED <<flying, sync>>
    BY DEF PostAnsweredWithoutId, At, Mine
  <1>2. /\ remote' \subseteq FirstRequests /\ flying' \subseteq FirstRequests
        /\ \A p \in Orders \ {o} : Made(p)' <=> Made(p)
        /\ Made(o) => Made(o)'
    BY <1>1, AtPost DEF Made
  <1> QED
    BY <1>1, <1>2, AtPost, AmbiguousKeeps

LEMMA UnreadableKeeps ==
    ASSUME Inv, NEW o \in Orders, o = worker.order, PostUnreadable
    PROVE  Inv'
  <1>1. /\ worker.pc = "post" /\ remote' = remote \cup {NewRequest(o)}
        /\ Block("create_failed", "failed_confirmed") /\ UNCHANGED <<flying, sync>>
    BY DEF PostUnreadable, At, Mine
  <1>2. /\ remote' \subseteq FirstRequests /\ flying' \subseteq FirstRequests
        /\ \A p \in Orders \ {o} : Made(p)' <=> Made(p)
    BY <1>1, AtPost DEF Made
  <1>3. "create_failed" \in Protected /\ "failed_confirmed" \in PostStates \ {"completed"}
        /\ "failed_confirmed" \notin Untried
    BY DEF Protected, PostStates, Untried
  <1> QED
    BY <1>1, <1>2, <1>3, BlockKeeps

\* The other steps that leave an event for an operator
LEMMA BlockedKeeps ==
    ASSUME Inv, NEW o \in Orders, o = worker.order,
           LinkConflicts \/ DetailFails \/ NothingToLookFor \/ SkuMissing \/ PostRefused
    PROVE  Inv'
  <1>1. UNCHANGED <<remote, flying, sync>> /\ worker.pc # "idle"
    BY DEF LinkConflicts, DetailFails, NothingToLookFor, SkuMissing, PostRefused, At
  <1>2. CASE MarkAmbiguous
    BY <1>1, <1>2, AmbiguousKeeps DEF Made, Inv, Typing
  <1>3. CASE SkuMissing
    <2>1. Block("create_failed", event[o].post) /\ event[o].post \in PostStates \ {"completed"}
      BY <1>1, <1>3, AtWork, EventTyped DEF SkuMissing, Mine, EventType
    <2> QED
      BY <1>1, <2>1, BlockKeeps DEF Protected, Made, Inv, Typing
  <1>4. CASE PostRefused
    <2>1. worker.pc = "post" /\ \E s \in Protected, q \in PostStates \ {"completed"} : Block(s, q)
      BY <1>4 DEF PostRefused, At, Protected, PostStates
    <2>2. ~Made(o)' /\ \A p \in Orders : Made(p)' <=> Made(p)
      BY <1>1, <2>1, AtPost DEF Made
    <2> QED
      BY <1>1, <2>1, <2>2, BlockKeeps DEF Inv, Typing
  <1> QED
    BY <1>2, <1>3, <1>4 DEF LinkConflicts, DetailFails, NothingToLookFor

-----------------------------------------------------------------------------
(***************************************************************************)
(* Deaths, resets, pauses and late POSTs                                   *)
(***************************************************************************)
LEMMA CrashKeeps ==
    ASSUME Inv, Crash
    PROVE  Inv'
  <1>1. worker' = IdleWorker /\ UNCHANGED <<order, event, remote, flying, sync>>
    BY DEF Crash
  <1>2. Typing' /\ SyncSafe'
    BY <1>1, IdleIs DEF Inv, Typing, SyncSafe
  <1>3. \A p \in Orders : EventSafe(p)' /\ OrderSafe(p)'
    BY <1>1 DEF Inv, EventSafe, OrderSafe, Made
  <1> QED
    BY <1>1, <1>2, <1>3, Leaves DEF Inv

LEMMA ResetKeeps ==
    ASSUME Inv, NEW o \in Orders, StaleReset(o)
    PROVE  Inv'
  <1>1. /\ worker.pc = "idle" /\ event[o].row = "processing"
        /\ event' = [event EXCEPT ![o].row = "pending"]
        /\ UNCHANGED <<order, remote, flying, worker, sync>>
    BY DEF StaleReset, At, Stale
  <1>2. /\ event' \in [Orders -> EventType]
        /\ event'[o].row = "pending" /\ event'[o].post = event[o].post /\ event'[o].resp = event[o].resp
        /\ \A p \in Orders \ {o} : event'[p] = event[p]
    BY <1>1, EventTyped DEF EventType, Rows
  <1>3. Typing' /\ Others(o) /\ WorkerSafe'
    BY <1>1, <1>2 DEF Inv, Typing, Others, Made, WorkerSafe
  <1>4. EventSafe(o)' /\ OrderSafe(o)'
    BY <1>1, <1>2 DEF Inv, EventSafe, OrderSafe, Made
  <1> QED
    BY <1>3, <1>4, OneOrder

LEMMA TimeKeeps ==
    ASSUME Inv, NEW o \in Orders, TimePasses(o)
    PROVE  Inv'
  <1>1. /\ event' = [event EXCEPT ![o].waits = FALSE]
        /\ UNCHANGED <<order, remote, flying, worker, sync>>
    BY DEF TimePasses
  <1>2. /\ event' \in [Orders -> EventType]
        /\ event'[o].row = event[o].row /\ event'[o].post = event[o].post /\ event'[o].resp = event[o].resp
        /\ \A p \in Orders \ {o} : event'[p] = event[p]
    BY <1>1, EventTyped DEF EventType
  <1>3. Typing' /\ Others(o)
    BY <1>1, <1>2 DEF Inv, Typing, Others, Made
  <1>4. EventSafe(o)' /\ OrderSafe(o)'
    BY <1>1, <1>2 DEF Inv, EventSafe, OrderSafe, Made
  <1>5. WorkerSafe'
    BY <1>1, <1>2 DEF Inv, WorkerSafe, Made
  <1> QED
    BY <1>3, <1>4, <1>5, OneOrder

\* A late POST makes no request that was not on its way.
LEMMA LandKeeps ==
    ASSUME Inv, NEW r, Land(r)
    PROVE  Inv'
  <1>1. /\ remote' \cup flying' = remote \cup flying /\ UNCHANGED <<order, event, worker, sync>>
    BY DEF Land
  <1>2. \A p : Made(p)' <=> Made(p)
    BY <1>1 DEF Made
  <1>3. Typing' /\ SyncSafe'
    BY <1>1 DEF Inv, Typing, SyncSafe, Land
  <1>4. (\A p \in Orders : EventSafe(p)' /\ OrderSafe(p)') /\ WorkerSafe'
    BY <1>1, <1>2 DEF Inv, EventSafe, OrderSafe, WorkerSafe
  <1> QED
    BY <1>3, <1>4 DEF Inv

-----------------------------------------------------------------------------
(***************************************************************************)
(* The synchronisation                                                     *)
(***************************************************************************)
\* A step that touches what a synchronisation holds, and nothing else
LEMMA OneSync ==
    ASSUME Inv, NEW s \in Syncs, NEW x \in SyncType, SnapSafe(x.snap), sync' = [sync EXCEPT ![s] = x],
           UNCHANGED <<order, event, remote, flying, worker>>
    PROVE  Inv'
  <1>1. Typing'
    BY DEF Inv, Typing
  <1>2. \A p \in Orders : EventSafe(p)' /\ OrderSafe(p)'
    BY DEF Inv, EventSafe, OrderSafe, Made
  <1>3. WorkerSafe'
    BY DEF Inv, WorkerSafe, Made
  <1>4. SyncSafe'
    BY DEF Inv, Typing, SyncSafe
  <1> QED
    BY <1>1, <1>2, <1>3, <1>4 DEF Inv

LEMMA FetchKeeps ==
    ASSUME Inv, NEW s \in Syncs, NEW seen \in SUBSET remote, SyncFetch(s, seen)
    PROVE  Inv'
  <1> DEFINE x == [IdleSync EXCEPT !.pc = "fetched", !.seen = seen]
  <1>1. seen \in SUBSET Requests
    BY FirstIsRequest DEF Inv, Typing
  <1>2. x \in SyncType /\ x.snap = IdleSync.snap
    BY <1>1, IdleSyncSafe DEF SyncType
  <1>3. sync' = [sync EXCEPT ![s] = x] /\ UNCHANGED <<order, event, remote, flying, worker>>
    BY DEF SyncFetch
  <1> HIDE DEF x
  <1> QED
    BY <1>2, <1>3, IdleSyncSafe, OneSync

LEMMA ReadKeeps ==
    ASSUME Inv, NEW s \in Syncs, SyncRead(s)
    PROVE  Inv'
  <1> DEFINE D == {o \in Orders : NeedsBackfill(o)}
             snap == [o \in D |-> order[o]]
             x == [sync[s] EXCEPT !.pc = "read", !.snap = snap]
  <1>1. UNCHANGED <<order, event, remote, flying, worker>>
    BY DEF SyncRead
  <1>2. sync' = [sync EXCEPT ![s] = IF Locked THEN IdleSync ELSE x]
    BY DEF SyncRead, Inv, Typing
  <1>3. D \in SUBSET Orders /\ order \in [Orders -> OrderType] /\ sync[s] \in SyncType
    BY DEF Inv, Typing
  <1>4. snap \in [D -> OrderType] /\ DOMAIN snap = D /\ \A o \in D : snap[o] = order[o]
    BY <1>3
  <1>5. snap \in SnapType
    BY <1>3, <1>4 DEF SnapType
  <1>6. SnapSafe(snap)
    BY <1>3, <1>4 DEF SnapSafe, NeedsBackfill, Stored, Inv, OrderSafe
  <1> HIDE DEF D, snap
  <1>7. x \in SyncType /\ x.snap = snap
    BY <1>3, <1>5 DEF SyncType
  <1> HIDE DEF x
  <1>8. CASE Locked
    BY <1>1, <1>2, <1>8, IdleSyncSafe, OneSync
  <1>9. CASE ~Locked
    BY <1>1, <1>2, <1>6, <1>7, <1>9, OneSync
  <1> QED
    BY <1>8, <1>9

LEMMA Finite == ASSUME NEW m \in SUBSET Requests PROVE Cardinality(m) \in Nat /\ (Cardinality(m) = 0 <=> m = {})
  <1>1. IsFiniteSet(1..(MaxFaults + 2))
    BY FaultAssumption, FS_Interval
  <1>2. IsFiniteSet(Requests)
    BY <1>1, OrderAssumption, FS_Product DEF Requests
  <1>3. IsFiniteSet(m)
    BY <1>2, FS_Subset
  <1> QED
    BY <1>3, FS_CardinalityType, FS_EmptySet

\* What is written to an order without a link
LEMMA WrittenIs ==
    ASSUME NEW o, NEW x \in OrderType, x.link = None, x.status # "absent", NEW m \in SUBSET Requests
    PROVE  /\ Written(o, x, m) \in OrderType
           /\ Written(o, x, m).status # "absent"
           /\ Written(o, x, m).link \in m \cup {None}
           /\ x.status \in Protected /\ Written(o, x, m).link = None => Written(o, x, m).status \in Protected
  <1>1. CASE Cardinality(m) = 1
    <2>1. m # {}
      BY <1>1, Finite
    <2>2. PICK r \in m : r = CHOOSE q \in m : TRUE
      BY <2>1
    <2>3. Written(o, x, m) = [status |-> IF x.status \in Protected THEN "created_recovered" ELSE "found", link |-> r]
      BY <1>1, <2>2 DEF Written
    <2>4. r # None
      BY NoneAssumption
    <2> QED
      BY <2>3, <2>4 DEF OrderType, OrderStates, Linked
  <1>2. CASE Cardinality(m) # 1 /\ x.status \in Protected
    BY <1>2 DEF Written
  <1>3. CASE Cardinality(m) # 1 /\ x.status \notin Protected
    <2>1. Cardinality(m) > 1 \/ m = {}
      BY <1>3, Finite
    <2>2. PICK st \in {"multiple", "not_found"} : Written(o, x, m) = [x EXCEPT !.status = st]
      BY <1>3, <2>1, Finite DEF Written
    <2> QED
      BY <1>3, <2>2 DEF OrderType, OrderStates
  <1> QED
    BY <1>1, <1>2, <1>3

LEMMA ApplyKeeps ==
    ASSUME Inv, NEW s \in Syncs, SyncApply(s)
    PROVE  Inv'
  <1> DEFINE snap == sync[s].snap
             Found(o) == Evidence(o, snap[o].status, sync[s].seen)
             Recovered(o) == snap[o].status \in Protected /\ Cardinality(Found(o)) = 1
  <1>1. /\ order' = [o \in Orders |-> IF o \in DOMAIN snap THEN Written(o, snap[o], Found(o)) ELSE order[o]]
        /\ event' = [o \in Orders |-> IF o \in DOMAIN snap /\ Recovered(o)
                                      THEN [event[o] EXCEPT !.row = "completed", !.post = "completed"]
                                      ELSE event[o]]
        /\ sync' = [sync EXCEPT ![s] = IdleSync]
        /\ UNCHANGED <<remote, flying, worker>>
    BY DEF SyncApply
  <1>2. /\ sync[s].seen \in SUBSET Requests /\ DOMAIN snap \subseteq Orders
        /\ \A o \in DOMAIN snap : snap[o] \in OrderType
        /\ SnapSafe(snap)
    <2>1. sync[s] \in SyncType /\ SnapSafe(snap)
      BY DEF Inv, Typing, SyncSafe
    <2>2. PICK D \in SUBSET Orders : snap \in [D -> OrderType]
      BY <2>1 DEF SyncType, SnapType
    <2> QED
      BY <2>1, <2>2 DEF SyncType
  <1>3. ASSUME NEW o \in DOMAIN snap
        PROVE  /\ Found(o) \in SUBSET Requests
               /\ snap[o].status \in Protected =>
                     Found(o) \subseteq {event[o].resp} /\ (event[o].row = "processing" => Found(o) = {})
    BY <1>2 DEF Evidence, Matching
  <1> HIDE DEF snap, Found
  <1>4. ASSUME NEW o \in DOMAIN snap
        PROVE  /\ order'[o] \in OrderType /\ order'[o].status # "absent"
               /\ order'[o].link \in Found(o) \cup {None}
               /\ snap[o].status \in Protected /\ order'[o].link = None => order'[o].status \in Protected
    <2>1. o \in Orders /\ order'[o] = Written(o, snap[o], Found(o))
      BY <1>1, <1>2
    <2>2. snap[o] \in OrderType /\ snap[o].link = None /\ snap[o].status # "absent" /\ Found(o) \in SUBSET Requests
      BY <1>2, <1>3 DEF SnapSafe
    <2> QED
      BY <2>1, <2>2, WrittenIs
  <1>5. ASSUME NEW o \in DOMAIN snap, Recovered(o)
        PROVE  event[o].resp # None /\ event[o].row # "processing"
    <2>1. Found(o) # {}
      BY <1>3, <1>5, Finite
    <2> QED
      BY <1>3, <1>5, <2>1, NoneAssumption
  <1>6. ASSUME NEW o \in Orders, o \in DOMAIN snap, Recovered(o)
        PROVE  /\ event'[o] \in EventType /\ event'[o].resp = event[o].resp
               /\ event'[o].row = "completed" /\ event'[o].post = "completed"
    BY <1>1, <1>6, EventTyped DEF EventType, Rows, PostStates
  <1>7. ASSUME NEW o \in Orders, ~(o \in DOMAIN snap /\ Recovered(o)) PROVE event'[o] = event[o]
    BY <1>1, <1>7
  <1> HIDE DEF Recovered
  <1>8. ASSUME NEW o \in Orders, o \notin DOMAIN snap PROVE order'[o] = order[o]
    BY <1>1, <1>8
  <1>9. Typing'
    <2>1. \A o \in Orders : order'[o] \in OrderType /\ event'[o] \in EventType
      BY <1>4, <1>6, <1>7, <1>8 DEF Inv, Typing
    <2>2. DOMAIN order' = Orders /\ DOMAIN event' = Orders
          /\ order' = [o \in Orders |-> order'[o]] /\ event' = [o \in Orders |-> event'[o]]
      BY <1>1
    <2> QED
      BY <1>1, <2>1, <2>2, IdleSyncSafe DEF Inv, Typing
  <1>10. ASSUME NEW o \in Orders PROVE EventSafe(o)'
    BY <1>1, <1>5, <1>6, <1>7 DEF Inv, EventSafe, Made
  <1>11. ASSUME NEW o \in Orders PROVE OrderSafe(o)'
    <2>1. CASE o \in DOMAIN snap
      <3>1. o \in FromFile => snap[o].status \in Protected
        BY <1>2, <2>1 DEF SnapSafe
      <3>2. event[o].resp \in {None, First(o)}
        BY DEF Inv, EventSafe
      <3> QED
        BY <1>3, <1>4, <2>1, <3>1, <3>2 DEF OrderSafe
    <2>2. CASE o \notin DOMAIN snap
      BY <1>5, <1>7, <1>8, <2>2 DEF Inv, OrderSafe
    <2> QED
      BY <2>1, <2>2
  <1>12. WorkerSafe'
    BY <1>1, <1>5, <1>7 DEF Inv, WorkerSafe, Made
  <1>13. SyncSafe'
    BY <1>1, IdleSyncSafe DEF Inv, Typing, SyncSafe
  <1> QED
    BY <1>9, <1>10, <1>11, <1>12, <1>13 DEF Inv

-----------------------------------------------------------------------------
(***************************************************************************)
(* The theorems                                                            *)
(***************************************************************************)
LEMMA WorkerKeeps ==
    ASSUME Inv,
           \/ AlreadyLinked \/ LinkConflicts \/ StartPost \/ StartLookUp
           \/ PostAnswered \/ RecordResponse \/ ReadDetail \/ NothingToLookFor
           \/ SkuMissing \/ PostAnsweredWithoutId \/ PostUnreadable \/ PostUnanswered
           \/ PostRateLimited \/ PostRefused \/ DetailFails
    PROVE  Inv'
  <1>1. worker.pc # "idle"
    BY DEF AlreadyLinked, LinkConflicts, StartPost, StartLookUp, PostAnswered, RecordResponse, ReadDetail,
           NothingToLookFor, SkuMissing, PostAnsweredWithoutId, PostUnreadable, PostUnanswered, PostRateLimited,
           PostRefused, DetailFails, At
  <1>2. PICK o \in Orders : o = worker.order
    BY <1>1 DEF Inv, WorkerSafe
  <1> QED
    BY <1>2, LinkedKeeps, BlockedKeeps, StartPostKeeps, StartLookUpKeeps, PostAnsweredKeeps, RecordResponseKeeps,
       DetailKeeps, NoIdKeeps, UnreadableKeeps, UnansweredKeeps, RateLimitedKeeps

LEMMA InvStep ==
    ASSUME Inv, [Next]_vars
    PROVE  Inv'
  <1>1. ASSUME NEW o \in Orders, Import(o) \/ Queue(o) \/ StaleReset(o) \/ TimePasses(o) \/ Claim(o)
        PROVE  Inv'
    BY <1>1, ImportKeeps, ResetKeeps, TimeKeeps, ClaimKeeps
  <1>2. ASSUME NEW r \in flying, Land(r) PROVE Inv'
    BY <1>2, LandKeeps
  <1>3. ASSUME NEW s \in Syncs, SyncStep(s) \/ \E seen \in SUBSET remote : SyncFetch(s, seen)
        PROVE  Inv'
    BY <1>3, ReadKeeps, ApplyKeeps, FetchKeeps DEF SyncStep
  <1>4. CASE UNCHANGED vars
    <2>1. Typing' /\ SyncSafe'
      BY <1>4 DEF vars, Inv, Typing, SyncSafe
    <2>2. (\A p \in Orders : EventSafe(p)' /\ OrderSafe(p)') /\ WorkerSafe'
      BY <1>4 DEF vars, Inv, EventSafe, OrderSafe, WorkerSafe, Made
    <2> QED
      BY <2>1, <2>2 DEF Inv
  <1> QED
    BY <1>1, <1>2, <1>3, <1>4, WorkerKeeps, CrashKeeps DEF Next, WorkerStep

LEMMA Invariant == Spec => []Inv
  <1>1. Inv /\ [Next]_vars => Inv'
    BY InvStep
  <1> QED
    BY <1>1, InvInit, PTL DEF Spec

\* Orders, events, the worker's request and the requests of SkladBot keep their
\* types, however many faults happen.
THEOREM TypeCorrect == Spec => []TypeOK
  BY Invariant, InvGivesTypeOK, PTL

\* SkladBot gets at most one request for an order, however its POST ends, wherever
\* the worker dies and whichever synchronisation writes the order's payload back.
THEOREM OneRequest == Spec => []AtMostOneRequest
  BY Invariant, InvGivesOneRequest, PTL

\* Of every request that SkladBot holds, or may still get, its event knows the id,
\* or has a post state after which the order gets no other POST.
THEOREM RequestIsTraced == Spec => []UnlinkedRequestIsTraced
  BY Invariant, InvGivesTraced, PTL

\* An order that was committed together with its event is linked to its own request
\* or to none, even if the requests of other orders have the same content.
THEOREM LinksAreOwn == Spec => []LinkIsOwn
  BY Invariant, InvGivesOwnLink, PTL
-----------------------------------------------------------------------------
(***************************************************************************)
(* The POST for an order as one call                                       *)
(***************************************************************************)
Noted == {o \in Orders : event[o].resp # None \/ event[o].post \notin Untried}
Held == [o \in Orders |-> {r \in remote : Owner(r) = o}]
Known == {o \in Orders : event[o].resp # None}

\* An id that SkladBot answered with is of a request it holds.
Answered == worker.pc = "answered" => First(worker.order) \in remote

\* What SkladBot holds for an order is its first request, or nothing.
LEMMA HeldIs ==
    ASSUME NEW R, R \subseteq FirstRequests, NEW o \in Orders
    PROVE  {r \in R : Owner(r) = o} = IF First(o) \in R THEN {First(o)} ELSE {}
  BY DEF FirstRequests, First, Owner

\* How a step may change the event and the request of an order
SameCall(o) ==
    /\ o \in Noted' <=> o \in Noted
    /\ o \in Known' <=> o \in Known
    /\ First(o) \in remote' <=> First(o) \in remote

SomeCall(o) ==
    \/ o \in Noted' /\ (o \in Known' <=> o \in Known) /\ (First(o) \in remote' <=> First(o) \in remote)
    \/ o \in Noted /\ o \in Noted' /\ (o \in Known' <=> o \in Known) /\ First(o) \notin remote /\ First(o) \in remote'
    \/ o \in Noted /\ o \in Noted' /\ o \in Known' /\ First(o) \in remote /\ First(o) \in remote'
    \/ o \in Noted /\ o \notin Noted' /\ (o \in Known' <=> o \in Known) /\ First(o) \notin remote /\ First(o) \notin remote'

\* A step that changes these of one order alone is a step of that call.
LEMMA CallFrame ==
    ASSUME remote \subseteq FirstRequests, remote' \subseteq FirstRequests,
           NEW o \in Orders, SameCall(o) \/ SomeCall(o), \A p \in Orders \ {o} : SameCall(p)
    PROVE  [Once!Next]_<<Noted, Held, Known>>
  <1>1. /\ Held = [p \in Orders |-> IF First(p) \in remote THEN {First(p)} ELSE {}]
        /\ Held' = [p \in Orders |-> IF First(p) \in remote' THEN {First(p)} ELSE {}]
    BY HeldIs DEF Held
  <1>2. \A p \in Orders \ {o} : Held'[p] = Held[p]
    BY <1>1 DEF SameCall
  <1>3. Noted \subseteq Orders /\ Noted' \subseteq Orders /\ Known \subseteq Orders /\ Known' \subseteq Orders
    BY DEF Noted, Known
  <1>4. Noted' \in {Noted, Noted \cup {o}, Noted \ {o}} /\ Known' \in {Known, Known \cup {o}, Known \ {o}}
    BY <1>3 DEF SameCall
  <1>5. ASSUME First(o) \in remote' <=> First(o) \in remote PROVE Held' = Held
    BY <1>1, <1>2, <1>5
  <1>6. ASSUME o \in Known' <=> o \in Known PROVE Known' = Known
    BY <1>3, <1>6 DEF SameCall
  <1>7. ASSUME o \in Noted' <=> o \in Noted PROVE Noted' = Noted
    BY <1>3, <1>7 DEF SameCall
  <1>8. Held[o] = IF First(o) \in remote THEN {First(o)} ELSE {}
    BY <1>1
  <1>9. CASE SameCall(o)
    BY <1>5, <1>6, <1>7, <1>9 DEF SameCall
  <1>10. CASE o \in Noted' /\ (o \in Known' <=> o \in Known) /\ (First(o) \in remote' <=> First(o) \in remote)
    <2>1. CASE o \in Noted
      BY <1>5, <1>6, <1>7, <1>10, <2>1
    <2>2. CASE o \notin Noted
      <3>1. Noted' = Noted \cup {o}
        BY <1>4, <1>10, <2>2
      <3>2. Once!Mark(o)
        BY <1>5, <1>6, <1>10, <2>2, <3>1 DEF Once!Mark, Noted, Held, Known
      <3> QED
        BY <3>2 DEF Once!Next
    <2> QED
      BY <2>1, <2>2
  <1>11. CASE /\ o \in Noted /\ o \in Noted' /\ (o \in Known' <=> o \in Known)
              /\ First(o) \notin remote /\ First(o) \in remote'
    <2>1. Noted' = Noted /\ Known' = Known
      BY <1>6, <1>7, <1>11
    <2>2. First(o) \in Requests /\ Held' = [Held EXCEPT ![o] = {First(o)}]
      BY <1>1, <1>2, <1>11, FirstIsRequest
    <2>3. Held[o] = {}
      BY <1>8, <1>11
    <2>4. Once!TakeEffect(o)
      BY <1>11, <2>1, <2>2, <2>3 DEF Once!TakeEffect, Noted, Held, Known
    <2> QED
      BY <2>4 DEF Once!Next
  <1>12. CASE o \in Noted /\ o \in Noted' /\ o \in Known' /\ First(o) \in remote /\ First(o) \in remote'
    <2>1. Noted' = Noted /\ Held' = Held /\ Held[o] # {}
      BY <1>5, <1>7, <1>8, <1>12
    <2>2. Known' = Known \cup {o}
      BY <1>4, <1>12
    <2>3. Once!Record(o)
      BY <2>1, <2>2 DEF Once!Record, Noted, Held, Known
    <2> QED
      BY <2>3 DEF Once!Next
  <1>13. CASE /\ o \in Noted /\ o \notin Noted' /\ (o \in Known' <=> o \in Known)
              /\ First(o) \notin remote /\ First(o) \notin remote'
    <2>1. Held' = Held /\ Known' = Known /\ Held[o] = {}
      BY <1>5, <1>6, <1>8, <1>13
    <2>2. Noted' = Noted \ {o}
      BY <1>4, <1>13
    <2>3. Once!Withdraw(o)
      BY <1>13, <2>1, <2>2 DEF Once!Withdraw, Noted, Held, Known
    <2> QED
      BY <2>3 DEF Once!Next
  <1> QED
    BY <1>9, <1>10, <1>11, <1>12, <1>13 DEF SomeCall

\* What the two notes of an event say
LEMMA Notes ==
    ASSUME NEW o \in Orders
    PROVE  /\ o \in Noted <=> event[o].resp # None \/ event[o].post \notin Untried
           /\ o \in Noted' <=> event'[o].resp # None \/ event'[o].post \notin Untried
           /\ o \in Known <=> event[o].resp # None
           /\ o \in Known' <=> event'[o].resp # None
  BY DEF Noted, Known

\* Steps that leave the requests alone, and change neither note
LEMMA KeepsCalls ==
    ASSUME remote \subseteq FirstRequests, UNCHANGED remote,
           \A o \in Orders : /\ event'[o].resp # None <=> event[o].resp # None
                             /\ \/ event'[o].post \in Untried <=> event[o].post \in Untried
                                \/ event[o].resp # None
    PROVE  UNCHANGED <<Noted, Held, Known>>
  BY DEF Noted, Held, Known

\* Steps at the row of one order
LEMMA CallOfOrder ==
    ASSUME remote \subseteq FirstRequests, remote' \subseteq FirstRequests,
           NEW o \in Orders, SameCall(o) \/ SomeCall(o),
           \A p \in Orders \ {o} : event'[p] = event[p] /\ (First(p) \in remote' <=> First(p) \in remote)
    PROVE  [Once!Next]_<<Noted, Held, Known>>
  <1>1. \A p \in Orders \ {o} : SameCall(p)
    BY Notes DEF SameCall
  <1> QED
    BY <1>1, CallFrame

LEMMA StoreCalls ==
    ASSUME Inv, NEW o \in Orders, Import(o) \/ Queue(o) \/ StaleReset(o) \/ TimePasses(o) \/ Claim(o)
    PROVE  UNCHANGED <<Noted, Held, Known>>
  <1>1. UNCHANGED remote /\ remote \subseteq FirstRequests /\ event \in [Orders -> EventType]
    BY DEF Import, Queue, StaleReset, TimePasses, Claim, Inv, Typing
  <1>2. CASE Import(o) \/ Queue(o)
    <2>1. event[o].row = "none" /\ event[o].post = "none" /\ event[o].resp = None
      BY <1>2 DEF Import, Queue, Stored, Inv, OrderSafe, EventSafe
    <2>2. event' = event \/ event' = [event EXCEPT ![o] = QueuedEvent]
      BY <1>2 DEF Import, Queue
    <2> QED
      BY <1>1, <2>1, <2>2, Queued, KeepsCalls
  <1>3. CASE StaleReset(o) \/ TimePasses(o) \/ Claim(o)
    <2>1. \A p \in Orders : event'[p].resp = event[p].resp /\ event'[p].post = event[p].post
      BY <1>1, <1>3 DEF StaleReset, TimePasses, Claim, EventType
    <2> QED
      BY <1>1, <2>1, KeepsCalls
  <1> QED
    BY <1>2, <1>3

\* A synchronisation completes the event of an order whose request the event knows.
LEMMA ApplyIs ==
    ASSUME Inv, NEW s \in Syncs, SyncApply(s), NEW o \in Orders
    PROVE  event'[o].resp = event[o].resp /\ (event'[o].post = event[o].post \/ event[o].resp # None)
  <1> DEFINE snap == sync[s].snap
             Found == Evidence(o, snap[o].status, sync[s].seen)
  <1>1. CASE o \in DOMAIN snap /\ snap[o].status \in Protected /\ Cardinality(Found) = 1
    <2>1. event'[o] = [event[o] EXCEPT !.row = "completed", !.post = "completed"] /\ event[o] \in EventType
      BY <1>1, EventTyped DEF SyncApply
    <2>2. sync[s].seen \in SUBSET Requests
      BY DEF Inv, Typing, SyncType
    <2>3. Found \in SUBSET Requests /\ Found \subseteq {event[o].resp}
      BY <1>1, <2>2 DEF Evidence
    <2>4. Found # {}
      BY <1>1, <2>3, Finite
    <2>5. event[o].resp # None
      BY <2>3, <2>4, NoneAssumption
    <2> QED
      BY <2>1, <2>5 DEF EventType
  <1>2. CASE ~(o \in DOMAIN snap /\ snap[o].status \in Protected /\ Cardinality(Found) = 1)
    BY <1>2 DEF SyncApply
  <1> QED
    BY <1>1, <1>2

LEMMA SyncCalls ==
    ASSUME Inv, NEW s \in Syncs, SyncStep(s) \/ \E seen \in SUBSET remote : SyncFetch(s, seen)
    PROVE  UNCHANGED <<Noted, Held, Known>>
  <1>1. UNCHANGED remote /\ remote \subseteq FirstRequests
    BY DEF SyncStep, SyncRead, SyncApply, SyncFetch, Inv, Typing
  <1>2. CASE SyncRead(s) \/ \E seen \in SUBSET remote : SyncFetch(s, seen)
    <2>1. event' = event
      BY <1>2 DEF SyncRead, SyncFetch
    <2> QED
      BY <1>1, <2>1, KeepsCalls
  <1>3. CASE SyncApply(s)
    <2>1. \A o \in Orders : event'[o].resp = event[o].resp /\ (event'[o].post = event[o].post \/ event[o].resp # None)
      BY <1>3, ApplyIs
    <2> QED
      BY <1>1, <2>1, KeepsCalls
  <1> QED
    BY <1>2, <1>3 DEF SyncStep

LEMMA WorkerCalls ==
    ASSUME Inv, Inv', Answered,
           \/ AlreadyLinked \/ LinkConflicts \/ StartPost \/ StartLookUp
           \/ PostAnswered \/ RecordResponse \/ ReadDetail \/ NothingToLookFor
           \/ SkuMissing \/ PostAnsweredWithoutId \/ PostUnreadable \/ PostUnanswered
           \/ PostRateLimited \/ PostRefused \/ DetailFails
    PROVE  [Once!Next]_<<Noted, Held, Known>> /\ Answered'
  <1>1. worker.pc # "idle"
    BY DEF AlreadyLinked, LinkConflicts, StartPost, StartLookUp, PostAnswered, RecordResponse, ReadDetail,
           NothingToLookFor, SkuMissing, PostAnsweredWithoutId, PostUnreadable, PostUnanswered, PostRateLimited,
           PostRefused, DetailFails, At
  <1>2. PICK o \in Orders : o = worker.order
    BY <1>1 DEF Inv, WorkerSafe
  <1>3. event \in [Orders -> EventType] /\ remote \subseteq FirstRequests /\ remote' \subseteq FirstRequests
        /\ worker \in WorkerType
    BY DEF Inv, Typing
  <1>4. \A post \in {"started", "ambiguous", "response_received", "failed_confirmed"} : post \notin Untried
    BY DEF Untried
  <1>5. \A p \in Orders \ {o} : First(p) # First(o)
    BY DEF First
  <1>6. CASE MarkAmbiguous /\ UNCHANGED remote
    <2>1. event' = [event EXCEPT ![o].row = "blocked", ![o].post = "ambiguous"] /\ worker' = IdleWorker
      BY <1>2, <1>6 DEF MarkAmbiguous, Mine
    <2>2. event'[o].post = "ambiguous" /\ event'[o].resp = event[o].resp
          /\ \A p \in Orders \ {o} : event'[p] = event[p]
      BY <1>3, <2>1 DEF EventType
    <2>3. SomeCall(o)
      BY <1>4, <1>6, <2>2, Notes DEF SomeCall
    <2> QED
      BY <1>3, <1>6, <2>1, <2>2, <2>3, IdleIs, CallOfOrder DEF Answered
  <1>7. CASE AlreadyLinked \/ StartLookUp \/ SkuMissing
    <2>1. UNCHANGED remote /\ worker'.pc # "answered"
      BY <1>3, <1>7, IdleIs DEF AlreadyLinked, StartLookUp, SkuMissing, Block, WorkerType
    <2> DEFINE Same == \A p \in Orders : event'[p].resp = event[p].resp /\ event'[p].post = event[p].post
    <2>2. ASSUME StartLookUp PROVE Same
      BY <2>2 DEF StartLookUp
    <2>3. ASSUME AlreadyLinked PROVE Same
      <3>1. event' = [event EXCEPT ![o].row = "completed"]
        BY <1>2, <2>3 DEF AlreadyLinked, Mine
      <3> QED
        BY <1>3, <3>1 DEF EventType
    <2>4. ASSUME SkuMissing PROVE Same
      <3>1. event' = [event EXCEPT ![o].row = "blocked", ![o].post = event[o].post]
        BY <1>2, <2>4 DEF SkuMissing, Block, Mine
      <3> QED
        BY <1>3, <3>1 DEF EventType
    <2>5. Same
      BY <1>7, <2>2, <2>3, <2>4
    <2> QED
      BY <1>3, <2>1, <2>5, KeepsCalls DEF Answered
  <1>8. CASE StartPost
    <2>1. /\ UNCHANGED remote /\ worker'.pc # "answered" /\ event' = [event EXCEPT ![o].post = "started"]
      BY <1>2, <1>3, <1>8 DEF StartPost, Mine, Goto, WorkerType
    <2>2. event'[o].post = "started" /\ event'[o].resp = event[o].resp
          /\ \A p \in Orders \ {o} : event'[p] = event[p]
      BY <1>3, <2>1 DEF EventType
    <2>3. SomeCall(o)
      BY <1>4, <2>1, <2>2, Notes DEF SomeCall
    <2> QED
      BY <1>3, <2>1, <2>2, <2>3, CallOfOrder DEF Answered
  <1>9. CASE PostAnswered \/ PostAnsweredWithoutId \/ PostUnreadable
    <2>1. /\ worker.pc = "post" /\ remote' = remote \cup {First(o)}
          /\ worker'.pc = "answered" => worker'.order = o
      BY <1>2, <1>3, <1>9, AtPost, IdleIs
         DEF PostAnswered, PostAnsweredWithoutId, PostUnreadable, MarkAmbiguous, Block, Mine, At, WorkerType
    <2>2. First(o) \notin remote /\ event[o].resp = None /\ event[o].post = "started"
      BY <1>2, <2>1, AtPost DEF Made
    <2>3. /\ event'[o].resp = None /\ event'[o].post \in {"started", "ambiguous", "failed_confirmed"}
          /\ \A p \in Orders \ {o} : event'[p] = event[p]
      BY <1>2, <1>3, <1>9, <2>2
         DEF PostAnswered, PostAnsweredWithoutId, PostUnreadable, MarkAmbiguous, Block, Mine, EventType
    <2>4. SomeCall(o)
      BY <1>4, <2>1, <2>2, <2>3, Notes DEF SomeCall
    <2>5. \A p \in Orders \ {o} : First(p) \in remote' <=> First(p) \in remote
      BY <1>5, <2>1
    <2>6. Answered'
      BY <2>1 DEF Answered
    <2> QED
      BY <1>3, <2>3, <2>4, <2>5, <2>6, CallOfOrder
  <1>10. CASE PostUnanswered
    <2>1. /\ worker.pc = "post" /\ remote' \in {remote, remote \cup {First(o)}} /\ worker'.pc = "match"
          /\ event' = [event EXCEPT ![o].post = "ambiguous"]
      BY <1>2, <1>3, <1>10, AtPost DEF PostUnanswered, Mine, At, Goto, UnknownOutcome, WorkerType
    <2>2. First(o) \notin remote /\ event[o].resp = None /\ event[o].post = "started"
      BY <1>2, <2>1, AtPost DEF Made
    <2>3. /\ event'[o].resp = None /\ event'[o].post = "ambiguous"
          /\ \A p \in Orders \ {o} : event'[p] = event[p]
      BY <1>3, <2>1, <2>2 DEF EventType
    <2>4. SomeCall(o)
      BY <1>4, <2>1, <2>2, <2>3, Notes DEF SomeCall
    <2>5. \A p \in Orders \ {o} : First(p) \in remote' <=> First(p) \in remote
      BY <1>5, <2>1
    <2>6. Answered'
      BY <2>1 DEF Answered
    <2> QED
      BY <1>3, <2>3, <2>4, <2>5, <2>6, CallOfOrder
  <1>11. CASE RecordResponse
    <2>1. /\ worker.pc = "answered" /\ UNCHANGED remote /\ worker'.pc = "detail"
          /\ event' = [event EXCEPT ![o].post = "response_received", ![o].resp = worker.id]
      BY <1>2, <1>3, <1>11 DEF RecordResponse, Mine, At, Goto, WorkerType
    <2>2. First(o) \in remote /\ event[o].post = "started" /\ worker.id = First(o) /\ First(o) # None
      BY <1>2, <2>1, FirstIsRequest DEF Answered, Inv, WorkerSafe
    <2>3. event'[o].resp # None /\ \A p \in Orders \ {o} : event'[p] = event[p]
      BY <1>3, <2>1, <2>2 DEF EventType
    <2>4. SomeCall(o)
      BY <1>4, <2>1, <2>2, <2>3, Notes DEF SomeCall
    <2>5. Answered'
      BY <2>1 DEF Answered
    <2> QED
      BY <1>3, <2>1, <2>3, <2>4, <2>5, CallOfOrder
  <1>12. CASE ReadDetail
    <2>1. /\ worker.pc = "detail" /\ UNCHANGED remote /\ worker' = IdleWorker
          /\ event' = [event EXCEPT ![o].row = "completed", ![o].post = "completed"]
      BY <1>2, <1>12 DEF ReadDetail, Saved, Mine, At
    <2>2. event[o].resp # None
      BY <1>2, <2>1 DEF Inv, WorkerSafe
    <2>3. \A p \in Orders : event'[p].resp = event[p].resp /\ (event'[p].post = event[p].post \/ event[p].resp # None)
      BY <1>3, <2>1, <2>2 DEF EventType
    <2> QED
      BY <1>3, <2>1, <2>3, IdleIs, KeepsCalls DEF Answered
  <1>13. CASE PostRateLimited \/ PostRefused
    <2>1. worker.pc = "post" /\ UNCHANGED remote /\ worker' = IdleWorker
      BY <1>13 DEF PostRateLimited, PostRefused, Block, At
    <2>2. First(o) \notin remote /\ event[o].resp = None /\ event[o].post = "started"
      BY <1>2, <2>1, AtPost DEF Made
    <2>3. PICK post \in {"retry_scheduled", "rejected", "failed_confirmed"} :
             event'[o].post = post /\ event'[o].resp = None /\ \A p \in Orders \ {o} : event'[p] = event[p]
      BY <1>2, <1>3, <1>13, <2>2 DEF PostRateLimited, PostRefused, Block, Mine, EventType
    <2>4. SomeCall(o)
      BY <1>4, <2>1, <2>2, <2>3, Notes DEF SomeCall
    <2> QED
      BY <1>3, <2>1, <2>3, <2>4, IdleIs, CallOfOrder DEF Answered
  <1> QED
    BY <1>6, <1>7, <1>8, <1>9, <1>10, <1>11, <1>12, <1>13 DEF LinkConflicts, DetailFails, NothingToLookFor

LEMMA CallStep ==
    ASSUME Inv, Answered, [Next]_vars
    PROVE  [Once!Next]_<<Noted, Held, Known>> /\ Answered'
  <1>1. Inv'
    BY InvStep
  <1>2. CASE UNCHANGED <<worker, remote>> /\ UNCHANGED <<Noted, Held, Known>>
    BY <1>2 DEF Answered
  <1>3. ASSUME NEW o \in Orders, Import(o) \/ Queue(o) \/ StaleReset(o) \/ TimePasses(o)
        PROVE  UNCHANGED <<worker, remote>> /\ UNCHANGED <<Noted, Held, Known>>
    BY <1>3, StoreCalls DEF Import, Queue, StaleReset, TimePasses
  <1>4. ASSUME NEW o \in Orders, Claim(o)
        PROVE  worker'.pc # "answered" /\ UNCHANGED <<Noted, Held, Known>>
    BY <1>4, StoreCalls DEF Claim
  <1>5. ASSUME NEW s \in Syncs, SyncStep(s) \/ \E seen \in SUBSET remote : SyncFetch(s, seen)
        PROVE  UNCHANGED <<worker, remote>> /\ UNCHANGED <<Noted, Held, Known>>
    BY <1>5, SyncCalls DEF SyncStep, SyncRead, SyncApply, SyncFetch
  <1>6. CASE Crash
    <2>1. worker'.pc # "answered" /\ UNCHANGED <<event, remote>>
      BY <1>6, IdleIs DEF Crash
    <2> QED
      BY <2>1 DEF Answered, Noted, Held, Known
  <1>7. ASSUME NEW r \in flying, Land(r)
        PROVE  [Once!Next]_<<Noted, Held, Known>> /\ Answered'
    <2>1. /\ remote' = remote \cup {r} /\ UNCHANGED <<event, worker>>
          /\ remote \subseteq FirstRequests /\ remote' \subseteq FirstRequests /\ flying \subseteq FirstRequests
      BY <1>1, <1>7 DEF Land, Inv, Typing
    <2>2. PICK o \in Orders : r = First(o)
      BY <2>1 DEF FirstRequests
    <2>3. \A p \in Orders \ {o} : First(p) \in remote' <=> First(p) \in remote
      BY <2>1, <2>2 DEF First
    <2>4. event[o].resp # None \/ event[o].post \notin Untried
      BY <1>7, <2>2 DEF Inv, EventSafe, Made
    <2>5. SomeCall(o)
      BY <2>1, <2>2, <2>4, Notes DEF SomeCall
    <2>6. Answered'
      BY <2>1 DEF Answered
    <2> QED
      BY <2>1, <2>3, <2>5, <2>6, CallOfOrder
  <1>8. CASE UNCHANGED vars
    BY <1>8 DEF vars, Answered, Noted, Held, Known
  <1> QED
    BY <1>1, <1>2, <1>3, <1>4, <1>5, <1>6, <1>7, <1>8, WorkerCalls DEF Next, WorkerStep, Answered

\* The POST for an order is one call: it makes at most one request, at once or after
\* the worker gave up waiting, only while the event says that it went out; only a 429
\* withdraws that note, while there is no request; and an id the event knows is of a
\* request.
THEOREM CreateCallsOnce == Spec => CreateIsOneCall
  <1>1. Init => Once!Init /\ Answered
    BY DEF Init, Once!Init, NoEvent, Untried, Answered, IdleWorker
  <1>2. Inv /\ Answered /\ [Next]_vars => [Once!Next]_<<Noted, Held, Known>> /\ Answered'
    BY CallStep
  <1>3. Spec => Once!Init /\ [][Once!Next]_<<Noted, Held, Known>>
    BY <1>1, <1>2, Invariant, PTL DEF Spec
  <1> QED
    BY <1>3, PTL DEF CreateIsOneCall, Once!Spec, Noted, Held, Known
===============================================================================
