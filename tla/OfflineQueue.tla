------------------------------ MODULE OfflineQueue ------------------------------
(***************************************************************************)
(* The offline scan queue of the warehouse panel in the browser            *)
(* (frontend/src/features/warehouse/WarehousePanel.tsx and offline/): tabs *)
(* that share one queue in IndexedDB, scan and undo live, and replay the   *)
(* queue in the background.  The tabs show the same position of one order. *)
(*                                                                         *)
(* One action is one await of a tab or one request at the server.  A       *)
(* request that timed out may still reach the server later, a scan as well *)
(* as an undo: every request is given up after fifteen seconds.            *)
(***************************************************************************)
EXTENDS Naturals, Sequences, FiniteSets, SequencesExt, QueueOps

CONSTANTS         \* and Codes and Plan, quantity_blocks of the position
    Tabs,
    Foreign,      \* codes another position holds: refused on the merits
    Poisoned,     \* codes whose request may end in a 5xx, however often it is repeated
    NoCode,
    MaxConsecutiveFailures,  \* MAX_CONSECUTIVE_RETRY_FAILURES, 3 in the code
    BlockedLimit, \* BLOCKED_LIMIT: refused scans that are kept, 500 in the code
    WebLocks,     \* the browser has the Web Locks API
    MaxScans,     \* bound on scans of the operators
    MaxFaults     \* bound on lost requests and answers, and reloaded tabs

ASSUME CodeAssumption ==
    NoCode \notin Codes /\ Foreign \subseteq Codes /\ Poisoned \subseteq Codes
ASSUME NumberAssumption ==
    /\ Plan \in Nat /\ MaxConsecutiveFailures \in Nat \ {0} /\ BlockedLimit \in Nat \ {0}
    /\ MaxScans \in Nat /\ MaxFaults \in Nat
ASSUME LockAssumption == WebLocks \in BOOLEAN

VARIABLES
    stored,    \* the server: codes of the position, oldest first
    completed, \* the server: the order is completed
    flying,    \* <<kind, code>> of requests that timed out and may still be executed
    pending,   \* IndexedDB: queued scans in the order of their sequence
    blocked,   \* IndexedDB: refused scans in the order of their sequence
    view,      \* pending as a tab last read it
    shown,     \* stored as a tab last loaded it
    live,      \* what the operator of a tab waits for (scanBusy)
    replay,    \* the pass over the queue of a tab
    wanted,    \* codes that were saved or queued for an operator, who did not take them back
    evicted,   \* codes whose record of a refusal was pushed out by newer ones
    crossed,   \* codes undone at the server while a pass was sending them, or by a late
               \* request after they were acknowledged again
    scans,
    faults

serverVars == <<stored, completed>>
storeVars == <<pending, blocked, evicted>>
tabVars == <<view, shown, live, replay>>
panelVars == <<serverVars, flying, storeVars, tabVars, wanted, crossed, scans, faults>>

NoAction == [pc |-> "none", code |-> NoCode, result |-> "none"]
NoPass == [pc |-> "none", todo |-> <<>>, result |-> "none", failures |-> 0, synced |-> FALSE]

PanelInit ==
    /\ stored = <<>> /\ completed = FALSE /\ flying = {}
    /\ pending = <<>> /\ blocked = <<>>
    /\ view = [t \in Tabs |-> <<>>]
    /\ shown = [t \in Tabs |-> <<>>]
    /\ live = [t \in Tabs |-> NoAction]
    /\ replay = [t \in Tabs |-> NoPass]
    /\ wanted = {} /\ evicted = {} /\ crossed = {}
    /\ scans = 0 /\ faults = 0

\* Requests at the server
Kinds == {"scan", "undo"}

Fault == faults < MaxFaults /\ faults' = faults + 1

-----------------------------------------------------------------------------
(* The server, as the panel sees it.                                       *)

\* What createScan answers: a code the position holds is acknowledged again
ScanAnswer(c) ==
    IF Contains(stored, c) THEN "synced"
    ELSE IF completed \/ c \in Foreign \/ Len(stored) >= Plan THEN "blocked"
    ELSE "saved"
Answers(c) == {ScanAnswer(c)} \cup (IF c \in Poisoned THEN {"retry"} ELSE {})

ExecuteScan(c, answer) == stored' = IF answer = "saved" THEN Append(stored, c) ELSE stored

\* undo_scan: by the position and the code, whoever scanned it and however often; an
\* order that is completed refuses it
CanUndo(c) == ~completed /\ Contains(stored, c)
InReplay(c) == \E t \in Tabs : replay[t].pc = "running" /\ Contains(replay[t].todo, c)

\* A request that timed out at the client and is executed after all; one that is
\* refused whenever it comes is left out
Late(k, c) == IF c \in Foreign THEN {} ELSE {<<k, c>>}
Arrive(c) ==
    /\ <<"scan", c>> \in flying
    /\ flying' = flying \ {<<"scan", c>>}
    /\ ExecuteScan(c, ScanAnswer(c))
    /\ UNCHANGED <<completed, storeVars, tabVars, wanted, crossed, scans, faults>>

ArriveUndo(c) ==
    /\ <<"undo", c>> \in flying
    /\ flying' = flying \ {<<"undo", c>>}
    /\ IF CanUndo(c)
       THEN /\ stored' = Without(stored, {c})
            /\ crossed' = IF InReplay(c) \/ (c \in wanted /\ ~Contains(pending, c))
                          THEN crossed \cup {c} ELSE crossed
       ELSE UNCHANGED <<stored, crossed>>
    /\ UNCHANGED <<completed, storeVars, tabVars, wanted, scans, faults>>

-----------------------------------------------------------------------------
(* The store.                                                              *)

Enqueued(c) == IF Contains(pending, c) THEN pending ELSE Append(pending, c)
Removed(c) == Without(pending, {c})

\* block keeps the newest records: a refused scan is the newest, also if it was
\* refused before, and the oldest one beyond the limit is deleted
Refuse(c) ==
    LET list == Append(Without(blocked, {c}), c) IN
    IF Len(list) > BlockedLimit
    THEN blocked' = Tail(list) /\ evicted' = evicted \cup {Head(list)}
    ELSE blocked' = list /\ UNCHANGED evicted

\* refresh reads the store again, at the end of every operation of a tab
Refreshed(t) == view' = [view EXCEPT ![t] = pending']

\* refreshOrders may fail and leave the screen as it was
OrdersReloaded(t) ==
    \/ shown' = [shown EXCEPT ![t] = stored]
    \/ UNCHANGED shown

-----------------------------------------------------------------------------
(* submitScan                                                              *)

CanScan(t, c) ==
    /\ ~Contains(view[t], c)
    /\ Cardinality(ToSet(shown[t]) \cup ToSet(view[t])) < Plan

Submit(t, c) ==
    /\ live[t] = NoAction
    /\ CanScan(t, c)
    /\ scans < MaxScans
    /\ scans' = scans + 1
    /\ live' = [live EXCEPT ![t] = [pc |-> "scan", code |-> c, result |-> "none"]]
    /\ UNCHANGED <<serverVars, flying, storeVars, view, shown, replay, wanted,
                   crossed, faults>>

LiveScan(t) ==
    /\ live[t].pc = "scan" /\ live[t].result = "none"
    /\ \E answer \in Answers(live[t].code) :
        /\ ExecuteScan(live[t].code, answer)
        /\ live' = [live EXCEPT ![t].result = answer]
        /\ wanted' = IF answer \in {"saved", "synced"}
                     THEN wanted \cup {live[t].code} ELSE wanted
    /\ UNCHANGED <<completed, flying, storeVars, view, shown, replay, crossed, scans,
                   faults>>

\* The answer arrives: saved, or refused on the merits and still in the field
LiveAnswered(t) ==
    /\ live[t].pc = "scan" /\ live[t].result \in {"saved", "synced", "blocked"}
    /\ IF live[t].result = "blocked" THEN UNCHANGED shown ELSE OrdersReloaded(t)
    /\ live' = [live EXCEPT ![t] = NoAction]
    /\ UNCHANGED <<serverVars, flying, storeVars, view, replay, wanted, crossed,
                   scans, faults>>

\* enqueueScan, when the failure is one a later attempt can resolve
Queue(t) ==
    /\ pending' = Enqueued(live[t].code)
    /\ Refreshed(t)
    /\ wanted' = wanted \cup {live[t].code}
    /\ live' = [live EXCEPT ![t] = NoAction]

LiveFailed(t) ==
    /\ live[t].pc = "scan" /\ live[t].result = "retry"
    /\ Queue(t)
    /\ UNCHANGED <<serverVars, flying, blocked, evicted, shown, replay, crossed, scans, faults>>

LiveLost(t) ==
    /\ live[t].pc = "scan"
    /\ Fault
    /\ \/ UNCHANGED flying
       \/ live[t].result = "none" /\ flying' = flying \cup Late("scan", live[t].code)
    /\ Queue(t)
    /\ UNCHANGED <<serverVars, blocked, evicted, shown, replay, crossed, scans>>

-----------------------------------------------------------------------------
(* removeLastCode, completeOrder, dismissBlocked                           *)

UndoQueuedMirrored(t) == \* mutant of UndoQueued: writes back the list the tab holds
    /\ live[t] = NoAction /\ view[t] # <<>>
    /\ pending' = Front(view[t])
    /\ Refreshed(t)
    /\ wanted' = wanted \ {Last(view[t])}
    /\ UNCHANGED <<serverVars, flying, blocked, evicted, shown, live, replay, crossed, scans,
                   faults>>

\* The newest queued scan of the position goes first, and only from the store
UndoQueued(t) ==
    /\ live[t] = NoAction /\ view[t] # <<>>
    /\ pending' = Removed(Last(view[t]))
    /\ Refreshed(t)
    /\ wanted' = wanted \ {Last(view[t])}
    /\ UNCHANGED <<serverVars, flying, blocked, evicted, shown, live, replay, crossed, scans,
                   faults>>

UndoSaved(t) ==
    /\ live[t] = NoAction /\ view[t] = <<>> /\ shown[t] # <<>>
    /\ live' = [live EXCEPT ![t] = [pc |-> "undo", code |-> Last(shown[t]), result |-> "none"]]
    /\ UNCHANGED <<serverVars, flying, storeVars, view, shown, replay, wanted,
                   crossed, scans, faults>>

LiveUndo(t) ==
    /\ live[t].pc = "undo" /\ live[t].result = "none"
    /\ LET c == live[t].code IN
       IF CanUndo(c)
       THEN /\ stored' = Without(stored, {c})
            /\ wanted' = wanted \ {c}
            /\ crossed' = IF InReplay(c) THEN crossed \cup {c} ELSE crossed
       ELSE UNCHANGED <<stored, wanted, crossed>>
    /\ live' = [live EXCEPT ![t].result = "done"]
    /\ UNCHANGED <<completed, flying, storeVars, view, shown, replay, scans, faults>>

UndoAnswered(t) ==
    /\ live[t].pc = "undo" /\ live[t].result = "done"
    /\ OrdersReloaded(t)
    /\ live' = [live EXCEPT ![t] = NoAction]
    /\ UNCHANGED <<serverVars, flying, storeVars, view, replay, wanted, crossed,
                   scans, faults>>

\* No answer in time: the operator sees an error, nothing is queued, and whether the
\* code is taken back is open
UndoLost(t) ==
    /\ live[t].pc = "undo"
    /\ Fault
    /\ \/ UNCHANGED flying
       \/ live[t].result = "none" /\ flying' = flying \cup Late("undo", live[t].code)
    /\ wanted' = wanted \ {live[t].code}
    /\ live' = [live EXCEPT ![t] = NoAction]
    /\ UNCHANGED <<serverVars, storeVars, view, shown, replay, crossed, scans>>

\* The button is off while the tab sees queued scans; the server refuses an
\* order that is not covered
Complete(t) ==
    /\ live[t] = NoAction /\ view[t] = <<>>
    /\ Len(shown[t]) >= Plan
    /\ completed' = (completed \/ Len(stored) >= Plan)
    /\ UNCHANGED <<stored, flying, storeVars, tabVars, wanted, crossed, scans, faults>>

RefreshOrders(t) ==
    /\ shown' = [shown EXCEPT ![t] = stored]
    /\ UNCHANGED <<serverVars, flying, storeVars, view, live, replay, wanted,
                   crossed, scans, faults>>

DismissBlocked(t, c) ==
    /\ Contains(blocked, c)
    /\ blocked' = Without(blocked, {c})
    /\ wanted' = wanted \ {c}
    /\ UNCHANGED <<pending, evicted>>
    /\ Refreshed(t)
    /\ UNCHANGED <<serverVars, flying, shown, live, replay, crossed, scans, faults>>

-----------------------------------------------------------------------------
(* replayNow and replayQueue                                               *)

StartReplay(t) ==
    /\ replay[t] = NoPass /\ view[t] # <<>>
    /\ replay' = [replay EXCEPT ![t].pc = "waiting"]
    /\ UNCHANGED <<serverVars, flying, storeVars, view, shown, live, wanted, crossed,
                   scans, faults>>

\* The lock is granted, and the pass takes its list
ListPending(t) ==
    /\ replay[t].pc = "waiting"
    /\ WebLocks => \A u \in Tabs : replay[u].pc # "running"
    /\ replay' = [replay EXCEPT ![t].pc = "running", ![t].todo = pending]
    /\ UNCHANGED <<serverVars, flying, storeVars, view, shown, live, wanted, crossed,
                   scans, faults>>

\* sendScan of the first event left, whether or not it is still queued
Sending(t) == replay[t].pc = "running" /\ replay[t].todo # <<>>
Current(t) == Head(replay[t].todo)
SendScan(t) ==
    /\ Sending(t) /\ replay[t].result = "none"
    /\ \E answer \in Answers(Current(t)) :
        /\ ExecuteScan(Current(t), answer)
        /\ replay' = [replay EXCEPT ![t].result = answer]
    /\ UNCHANGED <<completed, flying, storeVars, view, shown, live, wanted, crossed,
                   scans, faults>>

Advance(t, synced) ==
    LET p == replay[t] IN
    replay' = [replay EXCEPT ![t] = [p EXCEPT !.todo = Tail(p.todo), !.result = "none",
                                          !.failures = 0, !.synced = p.synced \/ synced]]

Synced(t) ==
    /\ Sending(t) /\ replay[t].result \in {"saved", "synced"}
    /\ pending' = Removed(Current(t))
    /\ Advance(t, TRUE)
    /\ UNCHANGED <<serverVars, flying, blocked, evicted, view, shown, live, wanted, crossed,
                   scans, faults>>

\* block: an event that is no longer queued is not recorded
Blocked(t) ==
    /\ Sending(t) /\ replay[t].result = "blocked"
    /\ IF Contains(pending, Current(t)) THEN Refuse(Current(t))
       ELSE UNCHANGED <<blocked, evicted>>
    /\ pending' = Removed(Current(t))
    /\ Advance(t, FALSE)
    /\ UNCHANGED <<serverVars, flying, view, shown, live, wanted, crossed, scans,
                   faults>>

SkippedAll(t) == \* mutant of Skipped: the first failure ends the pass
    LET p == replay[t] IN
    replay' = [replay EXCEPT ![t] = [p EXCEPT !.todo = <<>>, !.result = "none",
                                          !.failures = p.failures + 1]]

\* A failure leaves the event queued; too many in a row end the pass
Skipped(t) ==
    LET p == replay[t]
        failures == p.failures + 1 IN
    replay' = [replay EXCEPT ![t] =
                [p EXCEPT !.todo = IF failures >= MaxConsecutiveFailures
                                   THEN <<>> ELSE Tail(p.todo),
                          !.result = "none",
                          !.failures = failures]]

Failed(t) ==
    /\ Sending(t) /\ replay[t].result = "retry"
    /\ Skipped(t)
    /\ UNCHANGED <<serverVars, flying, storeVars, view, shown, live, wanted, crossed,
                   scans, faults>>

PassLost(t) ==
    /\ Sending(t)
    /\ Fault
    /\ \/ UNCHANGED flying
       \/ replay[t].result = "none" /\ flying' = flying \cup Late("scan", Current(t))
    /\ Skipped(t)
    /\ UNCHANGED <<serverVars, storeVars, view, shown, live, wanted, crossed, scans>>

EndPass(t) ==
    /\ replay[t].pc = "running" /\ replay[t].todo = <<>>
    /\ UNCHANGED storeVars
    /\ Refreshed(t)
    /\ IF replay[t].synced THEN OrdersReloaded(t) ELSE UNCHANGED shown
    /\ replay' = [replay EXCEPT ![t] = NoPass]
    /\ UNCHANGED <<serverVars, flying, live, wanted, crossed, scans, faults>>

\* The tab is reloaded, or closed and opened again: its promises and its lock
\* are gone, requests on their way are not
Reload(t) ==
    /\ Fault
    /\ flying' = flying
            \cup (IF live[t].pc \in Kinds /\ live[t].result = "none"
                  THEN Late(live[t].pc, live[t].code) ELSE {})
            \cup (IF Sending(t) /\ replay[t].result = "none"
                  THEN Late("scan", Current(t)) ELSE {})
    /\ wanted' = IF live[t].pc = "undo" THEN wanted \ {live[t].code} ELSE wanted
    /\ view' = [view EXCEPT ![t] = pending]
    /\ shown' = [shown EXCEPT ![t] = stored]
    /\ live' = [live EXCEPT ![t] = NoAction]
    /\ replay' = [replay EXCEPT ![t] = NoPass]
    /\ UNCHANGED <<serverVars, storeVars, crossed, scans>>

-----------------------------------------------------------------------------
Replay(t) ==
    \/ StartReplay(t) \/ ListPending(t) \/ SendScan(t)
    \/ Synced(t) \/ Blocked(t) \/ Failed(t) \/ EndPass(t)

Operate(t) ==
    \/ \E c \in Codes : Submit(t, c) \/ DismissBlocked(t, c)
    \/ LiveScan(t) \/ LiveAnswered(t) \/ LiveFailed(t)
    \/ UndoQueued(t) \/ UndoSaved(t) \/ LiveUndo(t) \/ UndoAnswered(t)
    \/ Complete(t) \/ RefreshOrders(t)

PanelNext ==
    \/ \E t \in Tabs : Replay(t) \/ Operate(t) \/ LiveLost(t) \/ UndoLost(t) \/ PassLost(t)
                     \/ Reload(t)
    \/ \E c \in Codes : Arrive(c) \/ ArriveUndo(c)

PanelSpec == PanelInit /\ [][PanelNext]_panelVars

\* A tab that sees queued scans replays them every thirty seconds; the lock is
\* granted in the order of the requests.
Fairness ==
    \A t \in Tabs :
        /\ WF_panelVars(StartReplay(t)) /\ SF_panelVars(ListPending(t))
        /\ WF_panelVars(SendScan(t) \/ Synced(t) \/ Blocked(t) \/ Failed(t) \/ EndPass(t))
FairSpec == PanelSpec /\ Fairness

-----------------------------------------------------------------------------
Results == {"none", "saved", "synced", "blocked", "retry"}
\* The queue holds a code once at most, the refused scans are never more than their
\* limit, and the tabs are in steps of their passes.
PanelTypeOK ==
    /\ stored \in Seq(Codes) /\ IsInjective(stored) /\ completed \in BOOLEAN
    /\ flying \subseteq Kinds \X Codes
    /\ pending \in Seq(Codes) /\ IsInjective(pending)
    /\ blocked \in Seq(Codes) /\ Len(blocked) <= BlockedLimit
    /\ \A t \in Tabs :
        /\ view[t] \in Seq(Codes) /\ shown[t] \in Seq(Codes)
        /\ live[t].pc \in {"none", "scan", "undo"}
        /\ live[t].code \in Codes \cup {NoCode}
        /\ live[t].result \in Results \cup {"done"}
        /\ replay[t].pc \in {"none", "waiting", "running"}
        /\ replay[t].todo \in Seq(Codes)
        /\ replay[t].result \in Results
        /\ replay[t].failures \in 0..MaxConsecutiveFailures
        /\ replay[t].synced \in BOOLEAN
    /\ wanted \subseteq Codes /\ evicted \subseteq Codes /\ crossed \subseteq Codes
    /\ scans \in 0..MaxScans /\ faults \in 0..MaxFaults

Accounted == ToSet(stored) \cup ToSet(pending) \cup ToSet(blocked)

\* A scan that was saved or queued for an operator, who did not take it back, is
\* at the server, in the queue, or in front of the operator as refused, whichever
\* tab replays, removes, blocks or reloads.  The exceptions: its record was the
\* oldest of more refused scans than the browser keeps (a deliberate bound on its
\* storage), it was undone at the server while a pass was sending it, or a late
\* undo met it after it was acknowledged again.
NoScanLost == wanted \subseteq Accounted \cup evicted \cup crossed

\* The same without the exceptions: what the head comment of queueStore.ts
\* promises of a queued event.
NoScanLostEver == wanted \subseteq Accounted

\* What removeLastCode says of the scan it takes from the queue: it did not go
\* to the server (WarehousePanel.tsx:322 and 332).
UndoneNeverReachedServer ==
    [][\A t \in Tabs : UndoQueued(t) => ~Contains(stored, Last(view[t]))]_panelVars

\* Every queued scan leaves the queue in the end, unless its own request may
\* fail every time: fewer such scans than the limit do not seal the queue behind
\* them.
Drains ==
    \A c \in Codes \ Poisoned : Contains(pending, c) ~> ~Contains(pending, c)
==============================================================================
