------------------------------ MODULE KizLifecycle ------------------------------
(***************************************************************************)
(* The life of marking codes (KIZ) across warehouse orders, as the backend *)
(* services backend/app/orders_service.py, order_actions_service.py and    *)
(* kiz_movements_service.py commit it to PostgreSQL.                       *)
(*                                                                         *)
(* One action is one committed transaction.  Every writer but release_kiz  *)
(* is a single transaction that holds the locks of the whole order graph   *)
(* (order_locking.py) from its first read to its commit, so it is atomic.  *)
(* release_kiz commits up to three times and reads the donor without a     *)
(* lock, so it is a small process with a program counter.                  *)
(*                                                                         *)
(* A request the code refuses (409, 422) writes nothing and is a stutter.  *)
(***************************************************************************)
EXTENDS Naturals, FiniteSets

CONSTANTS
    Orders,        \* order rows
    Items,         \* order_items rows
    Codes,         \* marking codes of blocks and of aggregate boxes
    Releasers,     \* requests that may run release_kiz at the same time
    OrderOf,       \* the order of an item
    Plan,          \* quantity_blocks of an item
    RequiresKiz,   \* the items with requires_kiz
    Blocks,        \* block quantity of a code: 1, or the size of a box
    BlocksIn,      \* total block quantity of a set of codes
    Fits,          \* <<item, code>> pairs whose product keys agree
    None,          \* no item, no code
    MaxReleased,   \* bound of the model: blocks released from one item
    Overlap,       \* may other requests commit inside a release of the order?
    Faults         \* may a release die between two of its commits?

ASSUME OrderOfAssumption == OrderOf \in [Items -> Orders]
ASSUME PlanAssumption == Plan \in [Items -> Nat \ {0}]
ASSUME RequiresKizAssumption == RequiresKiz \subseteq Items
ASSUME BlocksAssumption == Blocks \in [Codes -> Nat \ {0}]
ASSUME FitsAssumption == Fits \subseteq Items \X Codes
ASSUME NoneAssumption == None \notin Items \cup Codes
ASSUME MaxReleasedAssumption == MaxReleased \in Nat
ASSUME SwitchAssumption == Overlap \in BOOLEAN /\ Faults \in BOOLEAN

\* BlocksIn is the sum of Blocks over a set of codes.
ASSUME BlocksInAssumption ==
    /\ BlocksIn \in [SUBSET Codes -> Nat]
    /\ BlocksIn[{}] = 0
    /\ \A S \in SUBSET Codes : \A c \in Codes \ S :
           BlocksIn[S \cup {c}] = BlocksIn[S] + Blocks[c]

-----------------------------------------------------------------------------
\* Order statuses (order_statuses.py); a deleted order is a row that is gone.
Open == "not_completed"
Closed == "completed"
Returned == "returned"
Archived == "archived_no_kiz"
Cancelled == "cancelled"
Deleted == "deleted"

INACTIVE == {Closed, Returned, Archived, Cancelled}
OrderStatus == INACTIVE \cup {Open, Deleted}
ItemStatus == {Open, Closed, Archived, Cancelled}

\* Movements of a code; "none" is a code the backend never saw.
BusyMovements == {"outbound", "re_outbound"}
FreeMovements == {"return", "undo", "reset"}
Movement == [type : BusyMovements \cup FreeMovements, item : Items]
                \cup {[type |-> "none", item |-> None]}

ReleasePc == {"idle", "reopened", "undone", "refused", "settling", "settling_refused"}

VARIABLES
    orderStatus,     \* orders.status
    withoutKiz,      \* the orders whose raw_payload says completed_without_kiz
    returnStatus,    \* the orders whose raw_payload says return_status = returned
    itemStatus,      \* order_items.status
    scannedBlocks,   \* order_items.scanned_blocks
    releasedBlocks,  \* raw_payload.kiz_released_blocks of an item
    scans,           \* scan_codes rows, as <<item, code>>
    latest,          \* the latest kiz_movements row of a code
    release          \* the local variables of the running release_kiz requests

itemVars == <<itemStatus, scannedBlocks, releasedBlocks>>
vars == <<orderStatus, withoutKiz, returnStatus, itemStatus, scannedBlocks,
          releasedBlocks, scans, latest, release>>

IdleRelease ==
    [pc |-> "idle", item |-> None, code |-> None, orderWas |-> Open,
     itemWas |-> Open, orderDirty |-> FALSE, itemDirty |-> FALSE, released |-> 0]

Init ==
    /\ orderStatus = [o \in Orders |-> Open]
    /\ withoutKiz = {}
    /\ returnStatus = {}
    /\ itemStatus = [i \in Items |-> Open]
    /\ scannedBlocks = [i \in Items |-> 0]
    /\ releasedBlocks = [i \in Items |-> 0]
    /\ scans = {}
    /\ latest = [c \in Codes |-> [type |-> "none", item |-> None]]
    /\ release = [w \in Releasers |-> IdleRelease]

-----------------------------------------------------------------------------
Active(o) == orderStatus[o] \notin INACTIVE \cup {Deleted}
ItemsOf(o) == {i \in Items : OrderOf[i] = o}
ScansOf(o) == {s \in scans : OrderOf[s[1]] = o}
CodesOn(S, i) == {c \in Codes : <<i, c>> \in S}

\* Mutant: a code counts as free while its first shipment holds it.
AvailableAfterOutbound(c) == latest[c].type # "re_outbound"

Available(c) == latest[c].type \notin BusyMovements

\* Mutant: the fact that a code came back is forgotten when it is shipped again.
OutboundTypeAlways(c) == "outbound"

OutboundType(c) == IF latest[c].type = "return" THEN "re_outbound" ELSE "outbound"

\* The status an item gets from its counter after a scan or an undo.
StatusFor(i, blocks) == IF blocks >= Plan[i] THEN Closed ELSE Open

InRelease(o) ==
    \E w \in Releasers : release[w].pc # "idle" /\ OrderOf[release[w].item] = o

\* Nothing in the code keeps other requests out of a running release; without
\* Overlap the model assumes that none arrives at the donor order meanwhile.
Undisturbed(o) == Overlap \/ ~InRelease(o)

\* Mutant: the scans go without a movement.
MovedNothing(S, type) == latest

\* Movements written in one transaction for the scans S.
Moved(S, type) ==
    [c \in Codes |-> IF \E i \in Items : <<i, c>> \in S
                     THEN [type |-> type, item |-> CHOOSE i \in Items : <<i, c>> \in S]
                     ELSE latest[c]]

-----------------------------------------------------------------------------
\* create_scan
CreateScan(i, c) ==
    LET o == OrderOf[i]
        total == scannedBlocks[i] + Blocks[c]
    IN  /\ Undisturbed(o)
        /\ <<i, c>> \notin scans
        /\ Active(o)
        /\ latest[c].type = "none" => \A j \in Items : <<j, c>> \notin scans
        /\ Available(c)
        /\ itemStatus[i] # Closed
        /\ <<i, c>> \in Fits
        /\ total <= Plan[i]
        /\ scans' = scans \cup {<<i, c>>}
        /\ latest' = [latest EXCEPT ![c] = [type |-> OutboundType(c), item |-> i]]
        /\ scannedBlocks' = [scannedBlocks EXCEPT ![i] = total]
        /\ itemStatus' = [itemStatus EXCEPT ![i] = StatusFor(i, total)]
        /\ UNCHANGED <<orderStatus, withoutKiz, returnStatus, releasedBlocks, release>>

\* Mutant: the recount of undo_scan still sees the scan it deletes.
BlocksLeftStale(i, c) == BlocksIn[CodesOn(scans, i)]

\* The blocks of the scans of item i other than that of code c.
BlocksLeft(i, c) == BlocksIn[CodesOn(scans \ {<<i, c>>}, i)]

\* What undo_scan commits for the scan of code c on item i.
UndoEffect(i, c) ==
    LET left == BlocksLeft(i, c)
    IN  /\ scans' = scans \ {<<i, c>>}
        /\ latest' = [latest EXCEPT ![c] = [type |-> "undo", item |-> i]]
        /\ scannedBlocks' = [scannedBlocks EXCEPT ![i] = left]
        /\ itemStatus' = [itemStatus EXCEPT ![i] = StatusFor(i, left)]
        /\ orderStatus' = [orderStatus EXCEPT ![OrderOf[i]] = Open]
        /\ UNCHANGED <<withoutKiz, returnStatus, releasedBlocks>>

\* undo_scan
UndoScan(i, c) ==
    /\ Undisturbed(OrderOf[i])
    /\ Active(OrderOf[i])
    /\ <<i, c>> \in scans
    /\ UndoEffect(i, c)
    /\ UNCHANGED release

-----------------------------------------------------------------------------
\* Status changes of a whole order.

SetOrder(S, order, item) ==
    /\ orderStatus' = [o \in Orders |-> IF o \in S THEN order ELSE orderStatus[o]]
    /\ itemStatus' = [i \in Items |-> IF OrderOf[i] \in S THEN item ELSE itemStatus[i]]

\* complete_order; a completed order is answered without a write.
CompleteOrder(o) ==
    /\ Undisturbed(o)
    /\ Active(o)
    /\ \A i \in ItemsOf(o) \cap RequiresKiz : scannedBlocks[i] >= Plan[i]
    /\ SetOrder({o}, Closed, Closed)
    /\ UNCHANGED <<withoutKiz, returnStatus, scannedBlocks, releasedBlocks, scans, latest, release>>

\* complete_orders_without_kiz: all the orders of the request or none; the
\* scans that the orders already have stay.
CompleteOrdersWithoutKiz(S) ==
    /\ \A o \in S : Undisturbed(o) /\ Active(o)
    /\ SetOrder(S, Closed, Closed)
    /\ withoutKiz' = withoutKiz \cup S
    /\ UNCHANGED <<returnStatus, scannedBlocks, releasedBlocks, scans, latest, release>>

\* mark_order_returned, past the approval of a transfer payment: every scan of
\* the order gets a return movement and the scan rows stay.
MarkOrderReturned(o) ==
    /\ Undisturbed(o)
    /\ o \notin returnStatus
    /\ orderStatus[o] = Closed
    /\ orderStatus' = [orderStatus EXCEPT ![o] = Returned]
    /\ returnStatus' = returnStatus \cup {o}
    /\ latest' = Moved(ScansOf(o), "return")
    /\ UNCHANGED <<withoutKiz, itemVars, scans, release>>

HasNoScans(o) ==
    /\ ScansOf(o) = {}
    /\ \A i \in ItemsOf(o) : scannedBlocks[i] = 0

\* archive_order_without_kiz and cancel_order
ArchiveOrCancel(o, target) ==
    /\ Undisturbed(o)
    /\ Active(o)
    /\ HasNoScans(o)
    /\ SetOrder({o}, target, target)
    /\ UNCHANGED <<withoutKiz, returnStatus, scannedBlocks, releasedBlocks, scans, latest, release>>

\* delete_active_order
DeleteActiveOrder(o) ==
    /\ Undisturbed(o)
    /\ Active(o)
    /\ HasNoScans(o)
    /\ orderStatus' = [orderStatus EXCEPT ![o] = Deleted]
    /\ UNCHANGED <<withoutKiz, returnStatus, itemVars, scans, latest, release>>

\* restore_order
RestoreOrder(o) ==
    /\ Undisturbed(o)
    /\ orderStatus[o] \in {Archived, Cancelled}
    /\ orderStatus' = [orderStatus EXCEPT ![o] = Open]
    /\ itemStatus' = [i \in Items |->
                         IF OrderOf[i] = o /\ itemStatus[i] \in {Archived, Cancelled}
                         THEN Open ELSE itemStatus[i]]
    /\ UNCHANGED <<withoutKiz, returnStatus, scannedBlocks, releasedBlocks, scans, latest, release>>

\* reset_order_for_rescan; kiz_released_blocks and return_status are kept.
ResetOrderForRescan(o) ==
    /\ Undisturbed(o)
    /\ orderStatus[o] \notin {Returned, Deleted}
    /\ SetOrder({o}, Open, Open)
    /\ scannedBlocks' = [i \in Items |-> IF OrderOf[i] = o THEN 0 ELSE scannedBlocks[i]]
    /\ latest' = Moved(ScansOf(o), "reset")
    /\ scans' = scans \ ScansOf(o)
    /\ UNCHANGED <<withoutKiz, returnStatus, releasedBlocks, release>>

-----------------------------------------------------------------------------
\* release_kiz: read the donor, reopen it, undo the scan, settle the donor.

\* Mutant: the donor is any item with a scan of the code, a returned one too.
DonorByScan(c) == CHOOSE i \in Items : <<i, c>> \in scans

\* The donor item of a busy code is the item of its latest movement.
Donor(c) == latest[c].item

Releasable(w, c) ==
    LET i == Donor(c)
    IN  /\ release[w].pc = "idle"
        /\ ~Available(c)
        /\ <<i, c>> \in scans
        /\ Undisturbed(OrderOf[i])
        /\ releasedBlocks[i] + Blocks[c] <= MaxReleased

ReadDonor(w, c, pc) ==
    LET i == Donor(c)
    IN  release' = [release EXCEPT ![w] =
            [IdleRelease EXCEPT !.pc = pc, !.item = i, !.code = c,
                 !.orderWas = orderStatus[OrderOf[i]], !.itemWas = itemStatus[i]]]

\* A donor that is closed is reopened in a transaction of its own.
ReleaseReopen(w, c) ==
    LET o == OrderOf[Donor(c)]
    IN  /\ Releasable(w, c)
        /\ orderStatus[o] \in INACTIVE
        /\ orderStatus' = [orderStatus EXCEPT ![o] = Open]
        /\ ReadDonor(w, c, "reopened")
        /\ UNCHANGED <<withoutKiz, returnStatus, itemVars, scans, latest>>

\* A donor that is still open: the undo commits with the first reads.
ReleaseUndoOpen(w, c) ==
    /\ Releasable(w, c)
    /\ Active(OrderOf[Donor(c)])
    /\ UndoEffect(Donor(c), c)
    /\ ReadDonor(w, c, "undone")

\* undo_scan inside the release of a reopened donor ...
ReleaseUndo(w) ==
    LET r == release[w]
    IN  /\ r.pc = "reopened"
        /\ Active(OrderOf[r.item])
        /\ <<r.item, r.code>> \in scans
        /\ UndoEffect(r.item, r.code)
        /\ release' = [release EXCEPT ![w].pc = "undone"]

\* ... and its refusal: the order was closed or the scan undone in between.
ReleaseUndoRefused(w) ==
    LET r == release[w]
    IN  /\ r.pc = "reopened"
        /\ ~Active(OrderOf[r.item]) \/ <<r.item, r.code>> \notin scans
        /\ release' = [release EXCEPT ![w].pc = "refused"]
        /\ UNCHANGED <<orderStatus, withoutKiz, returnStatus, itemVars, scans, latest>>

\* Mutant: the status of the item is not put back.
ItemNeverDirty(r) == FALSE

\* The undo gave the item another status than the release had read.
ItemDirty(r) == r.pc = "undone" /\ itemStatus[r.item] # r.itemWas

\* Mutant: a released box explains one block of the gap.
ReleasedQuantityOne(c) == 1

\* The blocks a release takes from its donor.
ReleasedQuantity(c) == Blocks[c]

\* The finally block reads the donor again, without a lock.  The ORM will write
\* a status only if it differs from the one read here ...
ReleaseReadBack(w) ==
    LET r == release[w]
        o == OrderOf[r.item]
        undone == r.pc = "undone"
    IN  /\ r.pc \in {"undone", "refused"}
        /\ release' = [release EXCEPT ![w] =
               [r EXCEPT
                  !.pc = IF undone THEN "settling" ELSE "settling_refused",
                  !.orderDirty = r.orderWas \in INACTIVE /\ orderStatus[o] # r.orderWas,
                  !.itemDirty = ItemDirty(r),
                  !.released = IF undone THEN releasedBlocks[r.item] ELSE 0]]
        /\ UNCHANGED <<orderStatus, withoutKiz, returnStatus, itemVars, scans, latest>>

\* ... and commits.  A row deleted meanwhile takes nothing.
ReleaseSettle(w) ==
    LET r == release[w]
        o == OrderOf[r.item]
        exists == orderStatus[o] # Deleted
    IN  /\ r.pc \in {"settling", "settling_refused"}
        /\ orderStatus' = IF exists /\ r.orderDirty
                          THEN [orderStatus EXCEPT ![o] = r.orderWas]
                          ELSE orderStatus
        /\ itemStatus' = IF exists /\ r.itemDirty
                         THEN [itemStatus EXCEPT ![r.item] = r.itemWas]
                         ELSE itemStatus
        /\ releasedBlocks' = IF exists /\ r.pc = "settling"
                             THEN [releasedBlocks EXCEPT
                                      ![r.item] = r.released + ReleasedQuantity(r.code)]
                             ELSE releasedBlocks
        /\ release' = [release EXCEPT ![w] = IdleRelease]
        /\ UNCHANGED <<withoutKiz, returnStatus, scannedBlocks, scans, latest>>

\* The process dies, or a lock timeout or deadlock aborts the transaction in
\* undo_scan and with it the select of the finally block.
ReleaseDies(w) ==
    /\ Faults
    /\ release[w].pc # "idle"
    /\ release' = [release EXCEPT ![w] = IdleRelease]
    /\ UNCHANGED <<orderStatus, withoutKiz, returnStatus, itemVars, scans, latest>>

-----------------------------------------------------------------------------
ScanStep == \E i \in Items, c \in Codes : CreateScan(i, c) \/ UndoScan(i, c)

OrderStep ==
    \/ \E o \in Orders :
          \/ CompleteOrder(o)
          \/ MarkOrderReturned(o)
          \/ DeleteActiveOrder(o)
          \/ RestoreOrder(o)
          \/ ResetOrderForRescan(o)
          \/ \E target \in {Archived, Cancelled} : ArchiveOrCancel(o, target)
    \/ \E S \in SUBSET Orders \ {{}} : CompleteOrdersWithoutKiz(S)

ReleaseStep ==
    \E w \in Releasers :
       \/ \E c \in Codes : ReleaseReopen(w, c) \/ ReleaseUndoOpen(w, c)
       \/ ReleaseUndo(w)
       \/ ReleaseUndoRefused(w)
       \/ ReleaseReadBack(w)
       \/ ReleaseSettle(w)
       \/ ReleaseDies(w)

Next == ScanStep \/ OrderStep \/ ReleaseStep

Spec == Init /\ [][Next]_vars

-----------------------------------------------------------------------------
(***************************************************************************)
(* Properties                                                              *)
(***************************************************************************)
ReleaseType ==
    [pc : ReleasePc, item : Items \cup {None}, code : Codes \cup {None},
     orderWas : OrderStatus, itemWas : ItemStatus,
     orderDirty : BOOLEAN, itemDirty : BOOLEAN, released : Nat]

\* The rows and the local variables of release_kiz have the values the
\* columns admit, and a running release knows its donor.
TypeOK ==
    /\ orderStatus \in [Orders -> OrderStatus]
    /\ withoutKiz \subseteq Orders
    /\ returnStatus \subseteq Orders
    /\ itemStatus \in [Items -> ItemStatus]
    /\ scannedBlocks \in [Items -> Nat]
    /\ releasedBlocks \in [Items -> Nat]
    /\ scans \subseteq Items \X Codes
    /\ latest \in [Codes -> Movement]
    /\ release \in [Releasers -> ReleaseType]
    /\ \A w \in Releasers : release[w].pc # "idle" =>
           release[w].item \in Items /\ release[w].code \in Codes

\* The scans that bind a code to an order: those of orders not returned.
LiveScans == {s \in scans : OrderOf[s[1]] \notin returnStatus}

\* No code is bound to two orders at once (docs/db-only-architecture.md, "an
\* active binding of one KIZ to two orders is forbidden in the backend"), nor
\* twice to one order.
SingleHolder ==
    \A s, t \in LiveScans : s[2] = t[2] => s = t

\* The scan rows and the movement history, two tables that create_scan,
\* undo_scan, reset, return and release each write on their own, agree on who
\* holds a code: the live scan of a code is the item of its latest movement.
LiveScanIsHolder ==
    \A s \in LiveScans :
        /\ latest[s[2]].type \in BusyMovements
        /\ latest[s[2]].item = s[1]

\* The two records of a return, orders.status and raw_payload.return_status,
\* agree; no code is held by a returned order, and no release works on one.
ReturnedIsFinal ==
    /\ \A o \in Orders : o \in returnStatus <=> orderStatus[o] = Returned
    /\ \A c \in Codes : ~Available(c) => OrderOf[latest[c].item] \notin returnStatus
    /\ \A w \in Releasers : release[w].pc # "idle" =>
           /\ OrderOf[release[w].item] \notin returnStatus
           /\ release[w].orderWas # Returned

\* A busy code always has the scan row its latest movement names, so that an
\* undo or a release can always free it; release_kiz's branch for a movement
\* without its scan row (orders_service.py:316) serves legacy rows only.
BusyCodeHasScan ==
    \A c \in Codes : ~Available(c) => <<latest[c].item, c>> \in scans

\* The inductive invariant behind SingleHolder: who holds a code is one fact in
\* three places, the scan rows, the movements and the return flags of orders.
RegistryInv == TypeOK /\ BusyCodeHasScan /\ LiveScanIsHolder /\ ReturnedIsFinal

\* scanned_blocks, which create_scan increments and undo_scan recomputes, is
\* the block total of the scan rows of the item, and never exceeds the plan.
CountersMatchScans ==
    \A i \in Items :
        /\ scannedBlocks[i] = BlocksIn[CodesOn(scans, i)]
        /\ scannedBlocks[i] <= Plan[i]

\* An order that is completed or returned and has no release in flight has no
\* open item: otherwise its source file counts as unfinished for ever (comment
\* at orders_service.py:388).
ClosedOrderHasNoOpenItem ==
    \A o \in Orders :
        orderStatus[o] \in {Closed, Returned} /\ ~InRelease(o)
            => \A i \in ItemsOf(o) : itemStatus[i] = Closed

\* item_kiz_is_completed of the KIZ report (kiz_reports_service.py:302).
KizIsCompleted(i) ==
    i \in RequiresKiz => scannedBlocks[i] + releasedBlocks[i] >= Plan[i]

\* An order that was completed by scanning is complete for the KIZ report once no
\* release of it is in flight: what releases took from it is covered, block for
\* block, by the counter of released blocks.  (An administrator may complete an
\* order without codes; its report may be incomplete.)
ClosedOrderIsCovered ==
    \A o \in Orders :
        orderStatus[o] \in {Closed, Returned} /\ o \notin withoutKiz /\ ~InRelease(o)
            => \A i \in ItemsOf(o) : KizIsCompleted(i)

\* kiz_released_blocks counts "blocks deliberately released from a closed order"
\* (docstring at kiz_reports_service.py:309): an item of an open order that no
\* release is working on, and that still needs blocks, is not complete in the
\* KIZ report.
OpenGapIsIncomplete ==
    \A i \in RequiresKiz :
        Active(OrderOf[i]) /\ ~InRelease(OrderOf[i]) /\ scannedBlocks[i] < Plan[i]
            => ~KizIsCompleted(i)

\* "The statuses are always put back, otherwise a failed undo would leave a
\* closed order open" (comment at orders_service.py:377): when a release of a
\* closed donor is over, the donor is closed.
StatusAlwaysRestored ==
    [][\A w \in Releasers :
          /\ release[w].orderWas \in INACTIVE
          /\ release[w].pc # "idle"
          /\ release'[w].pc = "idle"
          => orderStatus'[OrderOf[release[w].item]] # Open]_vars

-----------------------------------------------------------------------------
\* The abstract registry this module implements as long as no other request
\* works on the donor of a running release.
Registry == INSTANCE KizRegistry WITH
                bindings <- LiveScans,
                history <- [c \in Codes |-> latest[c].type]

\* Every committed transaction ships one free code, takes bindings back for one
\* reason, or leaves the bindings alone.
RegistryImplemented == Registry!RegistrySpec
=============================================================================
