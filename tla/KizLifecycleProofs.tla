--------------------------- MODULE KizLifecycleProofs ---------------------------
(***************************************************************************)
(* Theorems about KizLifecycle for every value of its constants.           *)
(***************************************************************************)
EXTENDS KizLifecycle, TLAPS

USE DEF Donor, OutboundType, BlocksLeft, ItemDirty, ReleasedQuantity

\* The values of the rows: TypeOK without the release requests.
RowsOK ==
    /\ orderStatus \in [Orders -> OrderStatus]
    /\ withoutKiz \subseteq Orders
    /\ returnStatus \subseteq Orders
    /\ itemStatus \in [Items -> ItemStatus]
    /\ scannedBlocks \in [Items -> Nat]
    /\ releasedBlocks \in [Items -> Nat]
    /\ scans \subseteq Items \X Codes
    /\ latest \in [Codes -> Movement]

\* The release requests: the rest of TypeOK.
ReleasesOK ==
    /\ release \in [Releasers -> ReleaseType]
    /\ \A w \in Releasers : release[w].pc # "idle" =>
           release[w].item \in Items /\ release[w].code \in Codes

LEMMA TypeParts == TypeOK <=> RowsOK /\ ReleasesOK
  BY DEF TypeOK, RowsOK, ReleasesOK

LEMMA Statuses ==
    /\ {Open, Closed, Returned, Archived, Cancelled, Deleted} \subseteq OrderStatus
    /\ {Open, Closed, Archived, Cancelled} \subseteq ItemStatus
  BY DEF OrderStatus, ItemStatus, INACTIVE, Open, Closed, Returned, Archived,
         Cancelled, Deleted

LEMMA StatusForType ==
    ASSUME NEW i \in Items, NEW n \in Nat
    PROVE  StatusFor(i, n) \in ItemStatus
  BY Statuses DEF StatusFor

LEMMA BlocksOnType ==
    ASSUME NEW S, NEW i
    PROVE  BlocksIn[CodesOn(S, i)] \in Nat
  BY BlocksInAssumption DEF CodesOn

LEMMA MovedType ==
    ASSUME latest \in [Codes -> Movement], NEW S, NEW t \in FreeMovements
    PROVE  Moved(S, t) \in [Codes -> Movement]
  <1> SUFFICES ASSUME NEW c \in Codes
               PROVE  (IF \E i \in Items : <<i, c>> \in S
                       THEN [type |-> t, item |-> CHOOSE i \in Items : <<i, c>> \in S]
                       ELSE latest[c]) \in Movement
    BY DEF Moved
  <1>1. CASE \E i \in Items : <<i, c>> \in S
    <2>1. (CHOOSE i \in Items : <<i, c>> \in S) \in Items
      BY <1>1
    <2> QED
      BY <1>1, <2>1 DEF Movement
  <1>2. CASE ~ \E i \in Items : <<i, c>> \in S
    BY <1>2
  <1> QED
    BY <1>1, <1>2

LEMMA UndoRows ==
    ASSUME RowsOK, NEW i \in Items, NEW c \in Codes, UndoEffect(i, c),
           withoutKiz' = withoutKiz
    PROVE  RowsOK'
  <1> DEFINE left == BlocksIn[CodesOn(scans \ {<<i, c>>}, i)]
  <1>1. left \in Nat
    BY BlocksOnType
  <1>2. StatusFor(i, left) \in ItemStatus
    BY <1>1, StatusForType
  <1>3. /\ scans' = scans \ {<<i, c>>}
        /\ latest' = [latest EXCEPT ![c] = [type |-> "undo", item |-> i]]
        /\ scannedBlocks' = [scannedBlocks EXCEPT ![i] = left]
        /\ itemStatus' = [itemStatus EXCEPT ![i] = StatusFor(i, left)]
        /\ orderStatus' = [orderStatus EXCEPT ![OrderOf[i]] = Open]
        /\ UNCHANGED <<returnStatus, releasedBlocks>>
    BY DEF UndoEffect
  <1>4. [type |-> "undo", item |-> i] \in Movement
    BY DEF Movement, FreeMovements
  <1> HIDE DEF left
  <1> QED
    BY <1>1, <1>2, <1>3, <1>4, Statuses DEF RowsOK

-----------------------------------------------------------------------------
(***************************************************************************)
(* Types                                                                   *)
(***************************************************************************)
LEMMA ScanTypes ==
    ASSUME RowsOK, ScanStep
    PROVE  RowsOK' /\ release' = release
  <1>1. ASSUME NEW i \in Items, NEW c \in Codes, CreateScan(i, c)
        PROVE  RowsOK' /\ release' = release
    <2> DEFINE total == scannedBlocks[i] + Blocks[c]
               type == IF latest[c].type = "return" THEN "re_outbound" ELSE "outbound"
    <2>1. total \in Nat
      BY BlocksAssumption DEF RowsOK
    <2>2. StatusFor(i, total) \in ItemStatus
      BY <2>1, StatusForType
    <2>3. [type |-> type, item |-> i] \in Movement
      BY DEF Movement, BusyMovements
    <2>4. /\ scans' = scans \cup {<<i, c>>}
          /\ latest' = [latest EXCEPT ![c] = [type |-> type, item |-> i]]
          /\ scannedBlocks' = [scannedBlocks EXCEPT ![i] = total]
          /\ itemStatus' = [itemStatus EXCEPT ![i] = StatusFor(i, total)]
          /\ UNCHANGED <<orderStatus, withoutKiz, returnStatus, releasedBlocks, release>>
      BY <1>1 DEF CreateScan
    <2> HIDE DEF total, type
    <2> QED
      BY <2>1, <2>2, <2>3, <2>4 DEF RowsOK
  <1>2. ASSUME NEW i \in Items, NEW c \in Codes, UndoScan(i, c)
        PROVE  RowsOK' /\ release' = release
    <2>1. UndoEffect(i, c) /\ withoutKiz' = withoutKiz /\ release' = release
      BY <1>2 DEF UndoScan, UndoEffect
    <2> QED
      BY <2>1, UndoRows
  <1> QED
    BY <1>1, <1>2 DEF ScanStep

LEMMA SetOrderType ==
    ASSUME RowsOK, NEW S, NEW t \in {Open, Closed, Archived, Cancelled}, SetOrder(S, t, t)
    PROVE  /\ orderStatus' \in [Orders -> OrderStatus]
           /\ itemStatus' \in [Items -> ItemStatus]
  BY Statuses DEF SetOrder, RowsOK

LEMMA OrderTypes ==
    ASSUME RowsOK, OrderStep
    PROVE  RowsOK' /\ release' = release
  <1>1. ASSUME NEW o \in Orders, CompleteOrder(o)
        PROVE  RowsOK' /\ release' = release
    BY <1>1, SetOrderType DEF CompleteOrder, RowsOK
  <1>2. ASSUME NEW S \in SUBSET Orders, CompleteOrdersWithoutKiz(S)
        PROVE  RowsOK' /\ release' = release
    BY <1>2, SetOrderType DEF CompleteOrdersWithoutKiz, RowsOK
  <1>3. ASSUME NEW o \in Orders, MarkOrderReturned(o)
        PROVE  RowsOK' /\ release' = release
    <2>1. latest' \in [Codes -> Movement]
      BY <1>3, MovedType DEF MarkOrderReturned, RowsOK, FreeMovements
    <2> QED
      BY <1>3, <2>1, Statuses DEF MarkOrderReturned, RowsOK, itemVars
  <1>4. ASSUME NEW o \in Orders, DeleteActiveOrder(o)
        PROVE  RowsOK' /\ release' = release
    BY <1>4, Statuses DEF DeleteActiveOrder, RowsOK, itemVars
  <1>5. ASSUME NEW o \in Orders, RestoreOrder(o)
        PROVE  RowsOK' /\ release' = release
    BY <1>5, Statuses DEF RestoreOrder, RowsOK
  <1>6. ASSUME NEW o \in Orders, ResetOrderForRescan(o)
        PROVE  RowsOK' /\ release' = release
    <2>1. latest' \in [Codes -> Movement]
      BY <1>6, MovedType DEF ResetOrderForRescan, RowsOK, FreeMovements
    <2> QED
      BY <1>6, <2>1, SetOrderType DEF ResetOrderForRescan, RowsOK
  <1>7. ASSUME NEW o \in Orders, NEW t \in {Archived, Cancelled}, ArchiveOrCancel(o, t)
        PROVE  RowsOK' /\ release' = release
    BY <1>7, SetOrderType DEF ArchiveOrCancel, RowsOK
  <1> QED
    BY <1>1, <1>2, <1>3, <1>4, <1>5, <1>6, <1>7 DEF OrderStep

\* Assigning one request a record keeps ReleasesOK if the record is typed.
LEMMA ReleaseAssigned ==
    ASSUME ReleasesOK, NEW w \in Releasers, NEW r \in ReleaseType,
           r.pc # "idle" => r.item \in Items /\ r.code \in Codes,
           release' = [release EXCEPT ![w] = r]
    PROVE  ReleasesOK'
  BY DEF ReleasesOK

LEMMA IdleType == IdleRelease \in ReleaseType /\ IdleRelease.pc = "idle"
  BY Statuses DEF IdleRelease, ReleaseType, ReleasePc

\* The donor a request may release from is an item of the model.
LEMMA DonorType ==
    ASSUME RowsOK, NEW c \in Codes, ~Available(c)
    PROVE  latest[c].item \in Items /\ OrderOf[latest[c].item] \in Orders
  BY OrderOfAssumption DEF RowsOK, Available, Movement, BusyMovements

LEMMA ReadDonorType ==
    ASSUME RowsOK, ReleasesOK, NEW w \in Releasers, NEW c \in Codes, ~Available(c),
           NEW pc \in ReleasePc, ReadDonor(w, c, pc)
    PROVE  ReleasesOK'
  <1> DEFINE i == latest[c].item
             r == [IdleRelease EXCEPT !.pc = pc, !.item = i, !.code = c,
                   !.orderWas = orderStatus[OrderOf[i]], !.itemWas = itemStatus[i]]
  <1>1. i \in Items /\ OrderOf[i] \in Orders
    BY DonorType
  <1>2. /\ r.pc = pc /\ r.item = i /\ r.code = c
        /\ r \in ReleaseType
    BY <1>1, IdleType DEF ReleaseType, RowsOK, IdleRelease
  <1>3. release' = [release EXCEPT ![w] = r]
    BY DEF ReadDonor
  <1> HIDE DEF r
  <1> QED
    BY <1>1, <1>2, <1>3, ReleaseAssigned

LEMMA ReleaseTypes ==
    ASSUME RowsOK, ReleasesOK, ReleaseStep
    PROVE  RowsOK' /\ ReleasesOK'
  <1>1. ASSUME NEW w \in Releasers, NEW c \in Codes, ReleaseReopen(w, c)
        PROVE  RowsOK' /\ ReleasesOK'
    <2>1. RowsOK'
      BY <1>1, Statuses DEF ReleaseReopen, RowsOK, itemVars
    <2>2. ~Available(c) /\ ReadDonor(w, c, "reopened") /\ "reopened" \in ReleasePc
      BY <1>1 DEF ReleaseReopen, Releasable, ReleasePc
    <2> QED
      BY <2>1, <2>2, ReadDonorType
  <1>2. ASSUME NEW w \in Releasers, NEW c \in Codes, ReleaseUndoOpen(w, c)
        PROVE  RowsOK' /\ ReleasesOK'
    <2>1. /\ ~Available(c) /\ ReadDonor(w, c, "undone") /\ "undone" \in ReleasePc
          /\ UndoEffect(latest[c].item, c) /\ withoutKiz' = withoutKiz
      BY <1>2 DEF ReleaseUndoOpen, Releasable, ReleasePc, UndoEffect
    <2> QED
      BY <2>1, ReadDonorType, DonorType, UndoRows
  <1>3. ASSUME NEW w \in Releasers, ReleaseUndo(w)
        PROVE  RowsOK' /\ ReleasesOK'
    <2> DEFINE r == [release[w] EXCEPT !.pc = "undone"]
    <2>1. /\ UndoEffect(release[w].item, release[w].code) /\ withoutKiz' = withoutKiz
          /\ release[w].pc = "reopened"
          /\ release' = [release EXCEPT ![w] = r]
      BY <1>3 DEF ReleaseUndo, UndoEffect, ReleasesOK
    <2>2. release[w].item \in Items /\ release[w].code \in Codes
      BY <2>1 DEF ReleasesOK
    <2>3. r \in ReleaseType /\ r.item = release[w].item /\ r.code = release[w].code
      BY <2>2 DEF ReleasesOK, ReleaseType, ReleasePc
    <2> HIDE DEF r
    <2> QED
      BY <2>1, <2>2, <2>3, UndoRows, ReleaseAssigned
  <1>4. ASSUME NEW w \in Releasers, ReleaseUndoRefused(w)
        PROVE  RowsOK' /\ ReleasesOK'
    <2> DEFINE r == [release[w] EXCEPT !.pc = "refused"]
    <2>1. /\ release[w].pc = "reopened"
          /\ release' = [release EXCEPT ![w] = r]
          /\ UNCHANGED <<orderStatus, withoutKiz, returnStatus, itemVars, scans, latest>>
      BY <1>4 DEF ReleaseUndoRefused, ReleasesOK
    <2>2. /\ r \in ReleaseType
          /\ r.item \in Items /\ r.code \in Codes
      BY <2>1 DEF ReleasesOK, ReleaseType, ReleasePc
    <2> HIDE DEF r
    <2>3. RowsOK'
      BY <2>1 DEF RowsOK, itemVars
    <2> QED
      BY <2>1, <2>2, <2>3, ReleaseAssigned
  <1>5. ASSUME NEW w \in Releasers, ReleaseReadBack(w)
        PROVE  RowsOK' /\ ReleasesOK'
    <2> DEFINE o == OrderOf[release[w].item]
               undone == release[w].pc = "undone"
               r == [release[w] EXCEPT
                  !.pc = IF undone THEN "settling" ELSE "settling_refused",
                  !.orderDirty = /\ release[w].orderWas \in INACTIVE
                                 /\ orderStatus[o] # release[w].orderWas,
                  !.itemDirty = undone /\ itemStatus[release[w].item] # release[w].itemWas,
                  !.released = IF undone THEN releasedBlocks[release[w].item] ELSE 0]
    <2>1. /\ release[w].pc \in {"undone", "refused"}
          /\ release' = [release EXCEPT ![w] = r]
          /\ UNCHANGED <<orderStatus, withoutKiz, returnStatus, itemVars, scans, latest>>
      BY <1>5 DEF ReleaseReadBack
    <2>2. release[w].item \in Items /\ release[w].code \in Codes
      BY <2>1 DEF ReleasesOK
    <2>3. /\ r \in ReleaseType
          /\ r.item = release[w].item /\ r.code = release[w].code
      BY <2>1, <2>2 DEF ReleasesOK, ReleaseType, ReleasePc, RowsOK
    <2> HIDE DEF r
    <2>4. RowsOK'
      BY <2>1 DEF RowsOK, itemVars
    <2> QED
      BY <2>1, <2>2, <2>3, <2>4, ReleaseAssigned
  <1>6. ASSUME NEW w \in Releasers, ReleaseSettle(w)
        PROVE  RowsOK' /\ ReleasesOK'
    <2>1. /\ release[w].item \in Items /\ release[w].code \in Codes
          /\ release[w] \in ReleaseType
      BY <1>6 DEF ReleaseSettle, ReleasesOK
    <2>2. release[w].released + Blocks[release[w].code] \in Nat
      BY <2>1, BlocksAssumption DEF ReleaseType
    <2>3. RowsOK'
      BY <1>6, <2>1, <2>2 DEF ReleaseSettle, RowsOK, ReleaseType
    <2>4. ReleasesOK'
      BY <1>6, IdleType, ReleaseAssigned DEF ReleaseSettle
    <2> QED
      BY <2>3, <2>4
  <1>7. ASSUME NEW w \in Releasers, ReleaseDies(w)
        PROVE  RowsOK' /\ ReleasesOK'
    <2>1. RowsOK'
      BY <1>7 DEF ReleaseDies, RowsOK, itemVars
    <2> QED
      BY <1>7, <2>1, IdleType, ReleaseAssigned DEF ReleaseDies
  <1> QED
    BY <1>1, <1>2, <1>3, <1>4, <1>5, <1>6, <1>7 DEF ReleaseStep

LEMMA InitTypes == Init => TypeOK
  <1> SUFFICES ASSUME Init PROVE RowsOK /\ ReleasesOK
    BY TypeParts
  <1>1. [type |-> "none", item |-> None] \in Movement
    BY DEF Movement
  <1>2. RowsOK
    BY <1>1, Statuses DEF Init, RowsOK
  <1>3. ReleasesOK
    BY IdleType DEF Init, ReleasesOK
  <1> QED
    BY <1>2, <1>3

LEMMA StepTypes == TypeOK /\ [Next]_vars => TypeOK'
  <1> SUFFICES ASSUME RowsOK, ReleasesOK, [Next]_vars
               PROVE  RowsOK' /\ ReleasesOK'
    BY TypeParts DEF TypeOK, RowsOK, ReleasesOK
  <1>1. CASE ScanStep
    BY <1>1, ScanTypes DEF ReleasesOK
  <1>2. CASE OrderStep
    BY <1>2, OrderTypes DEF ReleasesOK
  <1>3. CASE ReleaseStep
    BY <1>3, ReleaseTypes
  <1>4. CASE UNCHANGED vars
    BY <1>4 DEF vars, RowsOK, ReleasesOK
  <1> QED
    BY <1>1, <1>2, <1>3, <1>4 DEF Next

\* The rows of orders, items, scans and movements keep the values their columns
\* admit, and a running release always knows its donor item and code.
THEOREM TypeCorrect == Spec => []TypeOK
  <1> QED
    BY InitTypes, StepTypes, PTL DEF Spec

-----------------------------------------------------------------------------
(***************************************************************************)
(* The scan rows and the movement history                                  *)
(***************************************************************************)
KizUnchanged == UNCHANGED <<scans, latest, scannedBlocks, returnStatus>>

\* What a step can do to scans, movements and counters.
LEMMA StepKinds ==
    ASSUME TypeOK, [Next]_vars
    PROVE  \/ \E i \in Items, c \in Codes : CreateScan(i, c)
           \/ \E i \in Items, c \in Codes : <<i, c>> \in scans /\ UndoEffect(i, c)
           \/ \E o \in Orders : MarkOrderReturned(o)
           \/ \E o \in Orders : ResetOrderForRescan(o)
           \/ KizUnchanged
  <1> USE DEF KizUnchanged, itemVars
  <1>1. CASE ScanStep
    BY <1>1 DEF ScanStep, UndoScan
  <1>2. CASE OrderStep
    BY <1>2 DEF OrderStep, CompleteOrder, CompleteOrdersWithoutKiz, DeleteActiveOrder,
                RestoreOrder, ArchiveOrCancel
  <1>3. CASE ReleaseStep
    <2>1. ASSUME NEW w \in Releasers, NEW c \in Codes, ReleaseUndoOpen(w, c)
          PROVE  \E i \in Items, d \in Codes : <<i, d>> \in scans /\ UndoEffect(i, d)
      <3>1. latest[c].item \in Items
        BY <2>1, TypeParts, DonorType DEF ReleaseUndoOpen, Releasable
      <3> QED
        BY <2>1, <3>1 DEF ReleaseUndoOpen, Releasable
    <2>2. ASSUME NEW w \in Releasers, ReleaseUndo(w)
          PROVE  \E i \in Items, d \in Codes : <<i, d>> \in scans /\ UndoEffect(i, d)
      <3>1. release[w].item \in Items /\ release[w].code \in Codes
        BY <2>2 DEF ReleaseUndo, TypeOK
      <3> QED
        BY <2>2, <3>1 DEF ReleaseUndo
    <2>3. ASSUME NEW w \in Releasers,
                 \/ \E c \in Codes : ReleaseReopen(w, c)
                 \/ ReleaseUndoRefused(w)
                 \/ ReleaseReadBack(w)
                 \/ ReleaseSettle(w)
                 \/ ReleaseDies(w)
          PROVE  KizUnchanged
      BY <2>3 DEF ReleaseReopen, ReleaseUndoRefused, ReleaseReadBack, ReleaseSettle,
                  ReleaseDies
    <2> QED
      BY <1>3, <2>1, <2>2, <2>3 DEF ReleaseStep
  <1>4. CASE UNCHANGED vars
    BY <1>4 DEF vars
  <1> QED
    BY <1>1, <1>2, <1>3, <1>4 DEF Next

\* Moved leaves a code alone that is not among the scans, and frees one that is.
LEMMA MovedCases ==
    ASSUME NEW S, NEW t, NEW c \in Codes
    PROVE  /\ (\E i \in Items : <<i, c>> \in S) => Moved(S, t)[c].type = t
           /\ ~(\E i \in Items : <<i, c>> \in S) => Moved(S, t)[c] = latest[c]
  BY DEF Moved

LEMMA BusyStep ==
    ASSUME TypeOK, BusyCodeHasScan, [Next]_vars
    PROVE  BusyCodeHasScan'
  <1> SUFFICES ASSUME NEW d \in Codes, ~Available(d)'
               PROVE  (<<latest[d].item, d>> \in scans)'
    BY DEF BusyCodeHasScan
  <1>t. TypeOK'
    BY StepTypes
  <1>1. ASSUME NEW i \in Items, NEW c \in Codes, CreateScan(i, c)
        PROVE  (<<latest[d].item, d>> \in scans)'
    <2>1. CASE d = c
      BY <1>1, <2>1 DEF CreateScan, TypeOK
    <2>2. CASE d # c
      <3>1. latest'[d] = latest[d] /\ scans \subseteq scans'
        BY <1>1, <2>2 DEF CreateScan, TypeOK
      <3> QED
        BY <3>1 DEF BusyCodeHasScan, Available
    <2> QED
      BY <2>1, <2>2
  <1>2. ASSUME NEW i \in Items, NEW c \in Codes, <<i, c>> \in scans, UndoEffect(i, c)
        PROVE  (<<latest[d].item, d>> \in scans)'
    <2>1. d # c
      BY <1>2 DEF UndoEffect, TypeOK, Available, BusyMovements
    <2>2. latest'[d] = latest[d] /\ scans' = scans \ {<<i, c>>}
      BY <1>2, <2>1 DEF UndoEffect, TypeOK
    <2> QED
      BY <2>1, <2>2 DEF BusyCodeHasScan, Available
  <1>3. ASSUME NEW o \in Orders, NEW t \in FreeMovements,
               latest' = Moved(ScansOf(o), t),
               scans' = scans \/ scans' = scans \ ScansOf(o)
        PROVE  (<<latest[d].item, d>> \in scans)'
    <2>1. ~(\E i \in Items : <<i, d>> \in ScansOf(o))
      BY <1>3, MovedCases DEF Available, BusyMovements, FreeMovements
    <2>2. latest'[d] = latest[d]
      BY <1>3, <2>1, MovedCases
    <2>3. latest[d].item \in Items /\ <<latest[d].item, d>> \in scans
      BY <2>2, TypeParts, DonorType DEF BusyCodeHasScan, Available
    <2> QED
      BY <1>3, <2>1, <2>2, <2>3
  <1>4. ASSUME NEW o \in Orders, MarkOrderReturned(o)
        PROVE  (<<latest[d].item, d>> \in scans)'
    BY <1>3, <1>4 DEF MarkOrderReturned, FreeMovements
  <1>5. ASSUME NEW o \in Orders, ResetOrderForRescan(o)
        PROVE  (<<latest[d].item, d>> \in scans)'
    BY <1>3, <1>5 DEF ResetOrderForRescan, FreeMovements
  <1>6. CASE KizUnchanged
    BY <1>6 DEF KizUnchanged, BusyCodeHasScan, Available
  <1> QED
    BY <1>1, <1>2, <1>4, <1>5, <1>6, StepKinds

\* However requests interleave, and wherever a release dies, a busy code has the
\* scan row its latest movement names, so it can still be undone or released.
THEOREM BusyCodesFreeable == Spec => []BusyCodeHasScan
  <1>1. Init => BusyCodeHasScan
    BY DEF Init, BusyCodeHasScan, Available, BusyMovements
  <1>2. TypeOK /\ BusyCodeHasScan /\ [Next]_vars => BusyCodeHasScan'
    BY BusyStep
  <1> QED
    BY <1>1, <1>2, TypeCorrect, PTL DEF Spec

-----------------------------------------------------------------------------
(***************************************************************************)
(* Counters                                                                *)
(***************************************************************************)
\* Taking a code out of a set of codes takes its blocks out of the total.
LEMMA BlocksWithout ==
    ASSUME NEW S \in SUBSET Codes, NEW c \in S
    PROVE  /\ BlocksIn[S] = BlocksIn[S \ {c}] + Blocks[c]
           /\ BlocksIn[S \ {c}] \in Nat /\ Blocks[c] \in Nat
  <1> DEFINE T == S \ {c}
  <1>1. T \in SUBSET Codes /\ c \in Codes \ T /\ S = T \cup {c}
    OBVIOUS
  <1>2. BlocksIn[T \cup {c}] = BlocksIn[T] + Blocks[c]
    BY <1>1, BlocksInAssumption
  <1> QED
    BY <1>1, <1>2, BlocksInAssumption, BlocksAssumption

LEMMA CountersStep ==
    ASSUME TypeOK, CountersMatchScans, [Next]_vars
    PROVE  CountersMatchScans'
  <1> SUFFICES ASSUME NEW j \in Items
               PROVE  /\ scannedBlocks'[j] = BlocksIn[CodesOn(scans', j)]
                      /\ scannedBlocks'[j] <= Plan[j]
    BY DEF CountersMatchScans, CodesOn
  <1> DEFINE Goal == /\ scannedBlocks'[j] = BlocksIn[CodesOn(scans', j)]
                     /\ scannedBlocks'[j] <= Plan[j]
  <1>0. /\ scannedBlocks[j] = BlocksIn[CodesOn(scans, j)]
        /\ scannedBlocks[j] <= Plan[j]
        /\ scannedBlocks[j] \in Nat /\ Plan[j] \in Nat
    BY PlanAssumption DEF CountersMatchScans, TypeOK
  <1>1. ASSUME NEW i \in Items, NEW c \in Codes, CreateScan(i, c)
        PROVE  Goal
    <2>1. CASE j = i
      <3>1. /\ scannedBlocks'[j] = scannedBlocks[j] + Blocks[c]
            /\ scannedBlocks[j] + Blocks[c] <= Plan[j]
            /\ c \notin CodesOn(scans, j)
            /\ CodesOn(scans', j) = CodesOn(scans, j) \cup {c}
        BY <1>1, <2>1 DEF CreateScan, CodesOn, TypeOK
      <3>2. BlocksIn[CodesOn(scans, j) \cup {c}] = BlocksIn[CodesOn(scans, j)] + Blocks[c]
        BY <3>1, BlocksInAssumption DEF CodesOn
      <3> QED
        BY <3>1, <3>2, <1>0
    <2>2. CASE j # i
      <3>1. scannedBlocks'[j] = scannedBlocks[j] /\ CodesOn(scans', j) = CodesOn(scans, j)
        BY <1>1, <2>2 DEF CreateScan, CodesOn, TypeOK
      <3> QED
        BY <3>1, <1>0
    <2> QED
      BY <2>1, <2>2
  <1>2. ASSUME NEW i \in Items, NEW c \in Codes, <<i, c>> \in scans, UndoEffect(i, c)
        PROVE  Goal
    <2>1. CASE j = i
      <3>1. /\ scannedBlocks'[j] = BlocksIn[CodesOn(scans', j)]
            /\ CodesOn(scans', j) = CodesOn(scans, j) \ {c}
            /\ c \in CodesOn(scans, j)
        BY <1>2, <2>1 DEF UndoEffect, CodesOn, TypeOK
      <3>2. /\ BlocksIn[CodesOn(scans, j)] = BlocksIn[CodesOn(scans, j) \ {c}] + Blocks[c]
            /\ BlocksIn[CodesOn(scans, j) \ {c}] \in Nat /\ Blocks[c] \in Nat
        BY <3>1, BlocksWithout DEF CodesOn
      <3> QED
        BY <3>1, <3>2, <1>0
    <2>2. CASE j # i
      <3>1. scannedBlocks'[j] = scannedBlocks[j] /\ CodesOn(scans', j) = CodesOn(scans, j)
        BY <1>2, <2>2 DEF UndoEffect, CodesOn, TypeOK
      <3> QED
        BY <3>1, <1>0
    <2> QED
      BY <2>1, <2>2
  <1>3. ASSUME NEW o \in Orders, MarkOrderReturned(o)
        PROVE  Goal
    BY <1>0, <1>3 DEF MarkOrderReturned, itemVars
  <1>4. ASSUME NEW o \in Orders, ResetOrderForRescan(o)
        PROVE  Goal
    <2>1. CASE OrderOf[j] = o
      <3>1. CodesOn(scans', j) = {} /\ scannedBlocks'[j] = 0
        BY <1>4, <2>1 DEF ResetOrderForRescan, CodesOn, ScansOf
      <3> QED
        BY <3>1, <1>0, BlocksInAssumption
    <2>2. CASE OrderOf[j] # o
      <3>1. scannedBlocks'[j] = scannedBlocks[j] /\ CodesOn(scans', j) = CodesOn(scans, j)
        BY <1>4, <2>2 DEF ResetOrderForRescan, CodesOn, ScansOf
      <3> QED
        BY <3>1, <1>0
    <2> QED
      BY <2>1, <2>2
  <1>5. CASE KizUnchanged
    BY <1>0, <1>5 DEF KizUnchanged
  <1> QED
    BY <1>1, <1>2, <1>3, <1>4, <1>5, StepKinds

\* scanned_blocks is the block total of the scan rows, and within the plan,
\* after any interleaving of scans, undos, resets and releases: the increment
\* of create_scan and the recount of undo_scan never drift apart.
THEOREM CountersCorrect == Spec => []CountersMatchScans
  <1>1. Init => CountersMatchScans
    <2> SUFFICES ASSUME Init, NEW i \in Items
                 PROVE  /\ scannedBlocks[i] = BlocksIn[CodesOn(scans, i)]
                        /\ scannedBlocks[i] <= Plan[i]
      BY DEF CountersMatchScans
    <2>1. CodesOn(scans, i) = {} /\ scannedBlocks[i] = 0
      BY DEF Init, CodesOn
    <2> QED
      BY <2>1, BlocksInAssumption, PlanAssumption
  <1>2. TypeOK /\ CountersMatchScans /\ [Next]_vars => CountersMatchScans'
    BY CountersStep
  <1> QED
    BY <1>1, <1>2, TypeCorrect, PTL DEF Spec

-----------------------------------------------------------------------------
(***************************************************************************)
(* One holder per code, as long as no other request works on the donor of  *)
(* a running release                                                       *)
(***************************************************************************)
\* What the reads of a release leave in its local variables.
LEMMA ReadDonorFields ==
    ASSUME ReleasesOK, NEW w \in Releasers, NEW c, NEW pc, ReadDonor(w, c, pc)
    PROVE  /\ release'[w].pc = pc
           /\ release'[w].item = latest[c].item /\ release'[w].code = c
           /\ release'[w].orderWas = orderStatus[OrderOf[latest[c].item]]
           /\ release'[w].itemWas = itemStatus[latest[c].item]
           /\ \A v \in Releasers \ {w} : release'[v] = release[v]
  <1> DEFINE i == latest[c].item
             r == [IdleRelease EXCEPT !.pc = pc, !.item = i, !.code = c,
                   !.orderWas = orderStatus[OrderOf[i]], !.itemWas = itemStatus[i]]
  <1>1. /\ r.pc = pc /\ r.item = i /\ r.code = c
        /\ r.orderWas = orderStatus[OrderOf[i]] /\ r.itemWas = itemStatus[i]
    BY DEF IdleRelease
  <1>2. release' = [release EXCEPT ![w] = r]
    BY DEF ReadDonor
  <1> HIDE DEF r
  <1> QED
    BY <1>1, <1>2 DEF ReleasesOK

LEMMA ReadBackFields ==
    ASSUME ReleasesOK, NEW w \in Releasers, ReleaseReadBack(w)
    PROVE  /\ release[w].pc # "idle" /\ release'[w].pc # "idle"
           /\ release'[w].item = release[w].item /\ release'[w].code = release[w].code
           /\ release'[w].orderWas = release[w].orderWas
           /\ \A v \in Releasers \ {w} : release'[v] = release[v]
  <1> DEFINE o == OrderOf[release[w].item]
             undone == release[w].pc = "undone"
             pc == IF undone THEN "settling" ELSE "settling_refused"
             dirty == /\ release[w].orderWas \in INACTIVE
                      /\ orderStatus[o] # release[w].orderWas
             itemDirty == undone /\ itemStatus[release[w].item] # release[w].itemWas
             taken == IF undone THEN releasedBlocks[release[w].item] ELSE 0
             r == [release[w] EXCEPT !.pc = pc, !.orderDirty = dirty,
                                     !.itemDirty = itemDirty, !.released = taken]
  <1>1. release' = [release EXCEPT ![w] = r] /\ release[w].pc # "idle"
    BY DEF ReleaseReadBack
  <1>2. release[w] \in ReleaseType
    BY DEF ReleasesOK
  <1>3. pc # "idle"
    OBVIOUS
  <1> HIDE DEF pc, dirty, itemDirty, taken
  <1>4. /\ r.pc = pc /\ r.item = release[w].item /\ r.code = release[w].code
        /\ r.orderWas = release[w].orderWas
    BY <1>2 DEF ReleaseType
  <1> HIDE DEF r
  <1> QED
    BY <1>1, <1>3, <1>4 DEF ReleasesOK

LEMMA ReturnedStep ==
    ASSUME Overlap = FALSE, RegistryInv, [Next]_vars
    PROVE  ReturnedIsFinal'
  <1> USE DEF Open, Closed, Returned, Archived, Cancelled, Deleted, INACTIVE
  <1>t. TypeOK /\ TypeOK' /\ BusyCodeHasScan /\ ReturnedIsFinal
    BY StepTypes DEF RegistryInv
  <1> DEFINE Flags == \A o \in Orders : o \in returnStatus <=> orderStatus[o] = Returned
             Holders == \A c \in Codes : ~Available(c) =>
                            OrderOf[latest[c].item] \notin returnStatus
             Donors == \A w \in Releasers : release[w].pc # "idle" =>
                           /\ OrderOf[release[w].item] \notin returnStatus
                           /\ release[w].orderWas # Returned
  <1>u. Flags /\ Holders /\ Donors
    BY <1>t DEF ReturnedIsFinal
  <1>g. SUFFICES Flags' /\ Holders' /\ Donors'
    BY DEF ReturnedIsFinal
  <1>1. ASSUME NEW i \in Items, NEW c \in Codes, CreateScan(i, c)
        PROVE  Flags' /\ Holders' /\ Donors'
    <2>1. OrderOf[i] \in Orders /\ OrderOf[i] \notin returnStatus
      BY <1>1, <1>u, OrderOfAssumption DEF CreateScan, Active
    <2>2. Holders'
      BY <1>1, <1>t, <1>u, <2>1 DEF CreateScan, Available, TypeOK
    <2> QED
      BY <1>1, <1>u, <2>2 DEF CreateScan
  <1>2. ASSUME NEW i \in Items, NEW c \in Codes, UndoScan(i, c)
        PROVE  Flags' /\ Holders' /\ Donors'
    <2>1. OrderOf[i] \in Orders /\ OrderOf[i] \notin returnStatus
      BY <1>2, <1>u, OrderOfAssumption DEF UndoScan, Active
    <2> QED
      BY <1>2, <1>t, <1>u, <2>1 DEF UndoScan, UndoEffect, Available, BusyMovements, TypeOK
  <1>3. ASSUME NEW S \in SUBSET Orders, CompleteOrdersWithoutKiz(S)
        PROVE  Flags' /\ Holders' /\ Donors'
    BY <1>3, <1>t, <1>u DEF CompleteOrdersWithoutKiz, Active, SetOrder, Available, TypeOK
  <1>4. ASSUME NEW o \in Orders,
               \/ CompleteOrder(o)
               \/ DeleteActiveOrder(o)
               \/ RestoreOrder(o)
               \/ \E t \in {Archived, Cancelled} : ArchiveOrCancel(o, t)
        PROVE  Flags' /\ Holders' /\ Donors'
    BY <1>4, <1>t, <1>u DEF CompleteOrder, DeleteActiveOrder, RestoreOrder,
          ArchiveOrCancel, Active, SetOrder, Available, TypeOK
  <1>5. ASSUME NEW o \in Orders, MarkOrderReturned(o)
        PROVE  Flags' /\ Holders' /\ Donors'
    <2>1. Flags'
      BY <1>5, <1>t, <1>u DEF MarkOrderReturned, TypeOK
    <2>2. ASSUME NEW c \in Codes, ~Available(c)'
          PROVE  (OrderOf[latest[c].item] \notin returnStatus)'
      <3>1. ~(\E i \in Items : <<i, c>> \in ScansOf(o))
        BY <1>5, <2>2, MovedCases DEF MarkOrderReturned, Available, BusyMovements
      <3>2. latest'[c] = latest[c]
        BY <1>5, <3>1, MovedCases DEF MarkOrderReturned
      <3>3. latest[c].item \in Items /\ <<latest[c].item, c>> \in scans
        BY <1>t, <2>2, <3>2, TypeParts, DonorType DEF BusyCodeHasScan, Available
      <3>4. OrderOf[latest[c].item] # o
        BY <3>1, <3>3 DEF ScansOf
      <3> QED
        BY <1>5, <1>u, <2>2, <3>2, <3>4 DEF MarkOrderReturned, Available
    <2>3. Donors'
      BY <1>5, <1>u DEF MarkOrderReturned, Undisturbed, InRelease
    <2> QED
      BY <2>1, <2>2, <2>3
  <1>6. ASSUME NEW o \in Orders, ResetOrderForRescan(o)
        PROVE  Flags' /\ Holders' /\ Donors'
    <2>1. Flags' /\ Donors'
      BY <1>6, <1>t, <1>u DEF ResetOrderForRescan, SetOrder, TypeOK
    <2>2. ASSUME NEW c \in Codes, ~Available(c)'
          PROVE  (OrderOf[latest[c].item] \notin returnStatus)'
      <3>1. latest'[c] = latest[c]
        BY <1>6, <2>2, MovedCases DEF ResetOrderForRescan, Available, BusyMovements
      <3> QED
        BY <1>6, <1>u, <2>2, <3>1 DEF ResetOrderForRescan, Available
    <2> QED
      BY <2>1, <2>2
  <1>7. ASSUME NEW w \in Releasers, NEW c \in Codes,
               ReleaseReopen(w, c) \/ ReleaseUndoOpen(w, c)
        PROVE  Flags' /\ Holders' /\ Donors'
    <2> DEFINE i == latest[c].item
    <2>1. i \in Items /\ OrderOf[i] \in Orders /\ OrderOf[i] \notin returnStatus
      BY <1>7, <1>t, <1>u, TypeParts, DonorType
         DEF ReleaseReopen, ReleaseUndoOpen, Releasable
    <2>2. orderStatus[OrderOf[i]] # Returned
      BY <1>u, <2>1
    <2>3. /\ release'[w].item = i
          /\ release'[w].orderWas = orderStatus[OrderOf[i]]
          /\ \A v \in Releasers \ {w} : release'[v] = release[v]
      <3>1. ReadDonor(w, c, "reopened") \/ ReadDonor(w, c, "undone")
        BY <1>7 DEF ReleaseReopen, ReleaseUndoOpen
      <3> QED
        BY <3>1, <1>t, TypeParts, ReadDonorFields
    <2>4. returnStatus' = returnStatus
      BY <1>7 DEF ReleaseReopen, ReleaseUndoOpen, UndoEffect
    <2>5. Donors'
      BY <1>u, <2>1, <2>2, <2>3, <2>4
    <2>6. Flags'
      BY <1>7, <1>t, <1>u, <2>1, <2>4 DEF ReleaseReopen, ReleaseUndoOpen, UndoEffect, TypeOK
    <2>7. Holders'
      BY <1>7, <1>t, <1>u, <2>4
         DEF ReleaseReopen, ReleaseUndoOpen, UndoEffect, TypeOK, Available, BusyMovements
    <2> QED
      BY <2>5, <2>6, <2>7
  <1>8. ASSUME NEW w \in Releasers, ReleaseUndo(w)
        PROVE  Flags' /\ Holders' /\ Donors'
    <2>1. /\ release[w].item \in Items /\ release[w].code \in Codes
          /\ OrderOf[release[w].item] \in Orders
          /\ OrderOf[release[w].item] \notin returnStatus
      BY <1>8, <1>t, <1>u, OrderOfAssumption DEF ReleaseUndo, TypeOK
    <2>2. returnStatus' = returnStatus
      BY <1>8 DEF ReleaseUndo, UndoEffect
    <2>3. Flags' /\ Holders'
      BY <1>8, <1>t, <1>u, <2>1, <2>2
         DEF ReleaseUndo, UndoEffect, TypeOK, Available, BusyMovements
    <2>4. Donors'
      BY <1>8, <1>t, <1>u, <2>2 DEF ReleaseUndo, TypeOK, ReleaseType
    <2> QED
      BY <2>3, <2>4
  <1>9. ASSUME NEW w \in Releasers,
               ReleaseUndoRefused(w) \/ ReleaseReadBack(w) \/ ReleaseDies(w)
        PROVE  Flags' /\ Holders' /\ Donors'
    <2>1. UNCHANGED <<orderStatus, returnStatus, latest>>
      BY <1>9 DEF ReleaseUndoRefused, ReleaseReadBack, ReleaseDies
    <2>2. ASSUME NEW v \in Releasers, release'[v].pc # "idle"
          PROVE  /\ release[v].pc # "idle"
                 /\ release'[v].item = release[v].item
                 /\ release'[v].orderWas = release[v].orderWas
      <3>1. CASE ReleaseUndoRefused(w)
        BY <3>1, <1>t, <2>2 DEF ReleaseUndoRefused, TypeOK, ReleaseType
      <3>2. CASE ReleaseReadBack(w)
        BY <3>2, <1>t, <2>2, TypeParts, ReadBackFields
      <3>3. CASE ReleaseDies(w)
        BY <3>3, <1>t, <2>2 DEF ReleaseDies, TypeOK, IdleRelease
      <3> QED
        BY <1>9, <3>1, <3>2, <3>3
    <2> QED
      BY <1>u, <2>1, <2>2 DEF Available
  <1>10. ASSUME NEW w \in Releasers, ReleaseSettle(w)
         PROVE  Flags' /\ Holders' /\ Donors'
    <2>1. /\ OrderOf[release[w].item] \notin returnStatus
          /\ release[w].orderWas # Returned
      BY <1>10, <1>u DEF ReleaseSettle
    <2>2. UNCHANGED <<returnStatus, latest>>
      BY <1>10 DEF ReleaseSettle
    <2>3. Flags' /\ Holders'
      BY <1>10, <1>t, <1>u, <2>1, <2>2 DEF ReleaseSettle, TypeOK, Available
    <2>4. Donors'
      BY <1>10, <1>t, <1>u, <2>2 DEF ReleaseSettle, TypeOK, IdleRelease
    <2> QED
      BY <2>3, <2>4
  <1>11. CASE UNCHANGED vars
    BY <1>11, <1>u DEF vars, Available
  <1> QED
    BY <1>1, <1>2, <1>3, <1>4, <1>5, <1>6, <1>7, <1>8, <1>9, <1>10, <1>11
       DEF Next, ScanStep, OrderStep, ReleaseStep

\* An undo never touches a returned order, nor does a reset.
LEMMA UndoneIsLive ==
    ASSUME TypeOK, ReturnedIsFinal', NEW i \in Items, NEW c \in Codes, UndoEffect(i, c)
    PROVE  OrderOf[i] \notin returnStatus
  <1>1. OrderOf[i] \in Orders
    BY OrderOfAssumption
  <1>2. orderStatus'[OrderOf[i]] = Open /\ returnStatus' = returnStatus
    BY <1>1 DEF UndoEffect, TypeOK
  <1> QED
    BY <1>1, <1>2 DEF ReturnedIsFinal, Open, Returned

LEMMA HolderStep ==
    ASSUME Overlap = FALSE, RegistryInv, [Next]_vars
    PROVE  LiveScanIsHolder'
  <1>t. /\ TypeOK /\ LiveScanIsHolder /\ ReturnedIsFinal /\ ReturnedIsFinal'
    BY ReturnedStep DEF RegistryInv
  <1> SUFFICES ASSUME NEW j \in Items, NEW d \in Codes,
                      <<j, d>> \in scans', OrderOf[j] \notin returnStatus'
               PROVE  latest'[d].type \in BusyMovements /\ latest'[d].item = j
    <2>1. scans' \subseteq Items \X Codes
      BY <1>t, StepTypes DEF TypeOK
    <2> QED
      BY <2>1 DEF LiveScanIsHolder, LiveScans
  <1> DEFINE Goal == latest'[d].type \in BusyMovements /\ latest'[d].item = j
  <1>h. ASSUME <<j, d>> \in scans, OrderOf[j] \notin returnStatus
        PROVE  latest[d].type \in BusyMovements /\ latest[d].item = j
    BY <1>t, <1>h DEF LiveScanIsHolder, LiveScans
  <1>1. ASSUME NEW i \in Items, NEW c \in Codes, CreateScan(i, c)
        PROVE  Goal
    <2>1. CASE d = c
      <3>1. ~(latest[c].type \in BusyMovements)
        BY <1>1 DEF CreateScan, Available
      <3>2. j = i
        BY <1>1, <1>h, <2>1, <3>1 DEF CreateScan
      <3> QED
        BY <1>1, <1>t, <2>1, <3>2 DEF CreateScan, TypeOK, BusyMovements
    <2>2. CASE d # c
      BY <1>1, <1>t, <1>h, <2>2 DEF CreateScan, TypeOK
    <2> QED
      BY <2>1, <2>2
  <1>2. ASSUME NEW i \in Items, NEW c \in Codes, <<i, c>> \in scans, UndoEffect(i, c)
        PROVE  Goal
    <2>1. OrderOf[i] \notin returnStatus /\ returnStatus' = returnStatus
      BY <1>2, <1>t, UndoneIsLive DEF UndoEffect
    <2>2. latest[c].item = i
      BY <1>2, <1>t, <2>1 DEF LiveScanIsHolder, LiveScans
    <2>3. d # c
      BY <1>2, <1>h, <2>1, <2>2 DEF UndoEffect
    <2> QED
      BY <1>2, <1>t, <1>h, <2>1, <2>3 DEF UndoEffect, TypeOK
  <1>3. ASSUME NEW o \in Orders, NEW t, latest' = Moved(ScansOf(o), t),
               o \notin returnStatus, OrderOf[j] \notin returnStatus,
               OrderOf[j] # o, <<j, d>> \in scans
        PROVE  Goal
    <2>1. ~(\E i \in Items : <<i, d>> \in ScansOf(o))
      <3> SUFFICES ASSUME NEW i \in Items, <<i, d>> \in scans, OrderOf[i] = o
                   PROVE  FALSE
        BY DEF ScansOf
      <3>1. latest[d].item = i
        BY <1>3, <1>t DEF LiveScanIsHolder, LiveScans
      <3> QED
        BY <1>3, <1>h, <3>1
    <2> QED
      BY <1>3, <1>h, <2>1, MovedCases
  <1>4. ASSUME NEW o \in Orders, MarkOrderReturned(o)
        PROVE  Goal
    BY <1>3, <1>4 DEF MarkOrderReturned
  <1>5. ASSUME NEW o \in Orders, ResetOrderForRescan(o)
        PROVE  Goal
    <2>1. o \notin returnStatus
      BY <1>5, <1>t DEF ResetOrderForRescan, ReturnedIsFinal
    <2> QED
      BY <1>3, <1>5, <2>1 DEF ResetOrderForRescan, ScansOf
  <1>6. CASE KizUnchanged
    BY <1>6, <1>h DEF KizUnchanged
  <1> QED
    BY <1>1, <1>2, <1>4, <1>5, <1>6, <1>t, StepKinds

\* As long as no other request works on the donor of a running release, the scan
\* rows, the movements and the return flags agree on who holds a code: the inductive
\* invariant behind the next two theorems.
THEOREM RegistryInvariant ==
    ASSUME Overlap = FALSE
    PROVE  Spec => []RegistryInv
  <1>1. Init => RegistryInv
    <2> SUFFICES ASSUME Init PROVE RegistryInv
      OBVIOUS
    <2>1. TypeOK
      BY InitTypes
    <2>2. BusyCodeHasScan /\ LiveScanIsHolder
      BY DEF Init, BusyCodeHasScan, LiveScanIsHolder, LiveScans, Available, BusyMovements
    <2>3. ReturnedIsFinal
      BY DEF Init, ReturnedIsFinal, Available, BusyMovements, IdleRelease, Open, Returned
    <2> QED
      BY <2>1, <2>2, <2>3 DEF RegistryInv
  <1>2. RegistryInv /\ [Next]_vars => RegistryInv'
    BY StepTypes, BusyStep, HolderStep, ReturnedStep DEF RegistryInv
  <1> QED
    BY <1>1, <1>2, PTL DEF Spec

\* As long as no other request works on the donor of a running release, no code
\* is ever bound to two orders, or twice to one.
THEOREM OneHolder ==
    ASSUME Overlap = FALSE
    PROVE  Spec => []SingleHolder
  <1>1. RegistryInv => SingleHolder
    <2> SUFFICES ASSUME RegistryInv, NEW s \in LiveScans, NEW t \in LiveScans, s[2] = t[2]
                 PROVE  s = t
      BY DEF SingleHolder
    <2>1. s \in Items \X Codes /\ t \in Items \X Codes
      BY DEF RegistryInv, TypeOK, LiveScans
    <2>2. s[1] = t[1]
      BY DEF RegistryInv, LiveScanIsHolder
    <2> QED
      BY <2>1, <2>2
  <1> QED
    BY <1>1, RegistryInvariant, PTL

-----------------------------------------------------------------------------
(***************************************************************************)
(* KizLifecycle implements KizRegistry                                     *)
(***************************************************************************)
Types == [c \in Codes |-> latest[c].type]

LEMMA RegistryStep ==
    ASSUME Overlap = FALSE, RegistryInv, [Next]_vars
    PROVE  Registry!RegistryNext \/ UNCHANGED <<LiveScans, Types>>
  <1>t. /\ TypeOK /\ LiveScanIsHolder /\ ReturnedIsFinal /\ ReturnedIsFinal'
        /\ \A s \in LiveScans : s \in Items \X Codes
    BY ReturnedStep DEF RegistryInv, TypeOK, LiveScans
  <1>1. ASSUME NEW i \in Items, NEW c \in Codes, CreateScan(i, c)
        PROVE  Registry!Ship(i, c)
    <2>1. \A j \in Items : <<j, c>> \notin LiveScans
      BY <1>1, <1>t DEF CreateScan, Available, LiveScanIsHolder
    <2>2. OrderOf[i] \notin returnStatus /\ returnStatus' = returnStatus
      BY <1>1, <1>t, OrderOfAssumption
         DEF CreateScan, Active, ReturnedIsFinal, INACTIVE, Returned
    <2>3. LiveScans' = LiveScans \cup {<<i, c>>}
      BY <1>1, <2>2 DEF CreateScan, LiveScans
    <2>4. Types' = [Types EXCEPT ![c] =
                       IF Types[c] = "return" THEN "re_outbound" ELSE "outbound"]
      BY <1>1, <1>t DEF CreateScan, Types, TypeOK
    <2> QED
      BY <2>1, <2>3, <2>4 DEF Registry!Ship, Types
  <1>2. ASSUME NEW i \in Items, NEW c \in Codes, <<i, c>> \in scans, UndoEffect(i, c)
        PROVE  \E S \in SUBSET LiveScans : Registry!TakeBack(S, "undo")
    <2>1. OrderOf[i] \notin returnStatus /\ returnStatus' = returnStatus
      BY <1>2, <1>t, UndoneIsLive DEF UndoEffect
    <2>2. /\ {<<i, c>>} \subseteq LiveScans
          /\ LiveScans' = LiveScans \ {<<i, c>>}
      BY <1>2, <2>1 DEF UndoEffect, LiveScans
    <2>3. Types' = [d \in Codes |-> IF \E j \in Items : <<j, d>> \in {<<i, c>>}
                                    THEN "undo" ELSE Types[d]]
      BY <1>2, <1>t DEF UndoEffect, Types, TypeOK
    <2>4. Registry!TakeBack({<<i, c>>}, "undo")
      BY <2>2, <2>3 DEF Registry!TakeBack, Types
    <2> QED
      BY <2>2, <2>4
  <1>3. ASSUME NEW o \in Orders, NEW t, latest' = Moved(ScansOf(o), t)
        PROVE  Types' = [d \in Codes |-> IF \E j \in Items : <<j, d>> \in ScansOf(o)
                                         THEN t ELSE Types[d]]
    BY <1>3, MovedCases DEF Types
  <1>4. ASSUME NEW o \in Orders, MarkOrderReturned(o)
        PROVE  \E S \in SUBSET LiveScans : Registry!TakeBack(S, "return")
    <2>1. /\ ScansOf(o) \subseteq LiveScans
          /\ LiveScans' = LiveScans \ ScansOf(o)
      BY <1>4 DEF MarkOrderReturned, ScansOf, LiveScans
    <2>2. Registry!TakeBack(ScansOf(o), "return")
      BY <1>3, <1>4, <2>1 DEF MarkOrderReturned, Registry!TakeBack, Types
    <2> QED
      BY <2>1, <2>2
  <1>5. ASSUME NEW o \in Orders, ResetOrderForRescan(o)
        PROVE  \E S \in SUBSET LiveScans : Registry!TakeBack(S, "reset")
    <2>1. o \notin returnStatus /\ returnStatus' = returnStatus
      BY <1>5, <1>t DEF ResetOrderForRescan, ReturnedIsFinal
    <2>2. /\ ScansOf(o) \subseteq LiveScans
          /\ LiveScans' = LiveScans \ ScansOf(o)
      BY <1>5, <2>1 DEF ResetOrderForRescan, ScansOf, LiveScans
    <2>3. Registry!TakeBack(ScansOf(o), "reset")
      BY <1>3, <1>5, <2>2 DEF ResetOrderForRescan, Registry!TakeBack, Types
    <2> QED
      BY <2>2, <2>3
  <1>6. CASE KizUnchanged
    BY <1>6 DEF KizUnchanged, LiveScans, Types
  <1> QED
    BY <1>1, <1>2, <1>4, <1>5, <1>6, <1>t, StepKinds
       DEF Registry!RegistryNext, Registry!TakeBacks

\* The rows and movements implement the abstract registry: every committed
\* transaction ships one free code (as re_outbound exactly after a return),
\* takes bindings back for one reason, or leaves them alone.
THEOREM ImplementsRegistry ==
    ASSUME Overlap = FALSE
    PROVE  Spec => RegistryImplemented
  <1>1. Init => Registry!RegistryInit
    BY DEF Init, Registry!RegistryInit, LiveScans
  <1>2. RegistryInv /\ [Next]_vars =>
            [Registry!RegistryNext]_<<LiveScans, [c \in Codes |-> latest[c].type]>>
    BY RegistryStep DEF Types
  <1> QED
    BY <1>1, <1>2, RegistryInvariant, PTL
       DEF Spec, RegistryImplemented, Registry!RegistrySpec

-----------------------------------------------------------------------------
(***************************************************************************)
(* With releases that may die anywhere, but no other request on the donor  *)
(* of a running release: closed orders stay closed and covered.            *)
(*                                                                         *)
(* The invariant is a conjunction over the orders.  A release takes one    *)
(* order out of its closed state and brings it back, so what is known of   *)
(* an order in between is stated with the local variables of its release.  *)
(***************************************************************************)

Done == {Closed, Returned}

\* The releases at work on an order
At(o) == {w \in Releasers : release[w].pc # "idle" /\ OrderOf[release[w].item] = o}

\* What the finally block will find in an order it closes again
ItemsKept(r) ==
    /\ \A j \in ItemsOf(OrderOf[r.item]) \ {r.item} : itemStatus[j] = Closed
    /\ r.itemWas = Closed
    /\ r.pc = "reopened" => itemStatus[r.item] = Closed
    /\ r.pc = "settling" => r.itemDirty \/ itemStatus[r.item] = Closed

\* The blocks of a donor, with those a release has taken and not counted yet
Owed(r) == IF r.pc = "reopened" THEN 0 ELSE Blocks[r.code]

ItemsCovered(r) ==
    /\ \A j \in ItemsOf(OrderOf[r.item]) \ {r.item} : KizIsCompleted(j)
    /\ r.item \in RequiresKiz =>
          scannedBlocks[r.item] + releasedBlocks[r.item] + Owed(r) >= Plan[r.item]
    /\ r.pc = "settling" => r.released = releasedBlocks[r.item]

\* A release under way: its undo is not refused, and it closes what it reopened.
InHand(r) ==
    /\ r.pc \in {"reopened", "undone", "settling"}
    /\ r.pc = "reopened" => <<r.item, r.code>> \in scans
    /\ r.orderWas \in Done =>
          ItemsKept(r) /\ (OrderOf[r.item] \notin withoutKiz => ItemsCovered(r))

\* A closed order that no release works on
Settled(o) ==
    orderStatus[o] \in Done =>
        /\ \A i \in ItemsOf(o) : itemStatus[i] = Closed
        /\ o \notin withoutKiz => \A i \in ItemsOf(o) : KizIsCompleted(i)

OrderInv(o) ==
    /\ \A v, w \in At(o) : v = w
    /\ At(o) # {} => orderStatus[o] = Open
    /\ \A w \in At(o) : InHand(release[w])
    /\ At(o) = {} => Settled(o)

ClosedInv == \A o \in Orders : OrderInv(o)

LEMMA AtIsInRelease ==
    ASSUME NEW o
    PROVE  At(o) = {} <=> ~InRelease(o)
  BY DEF At, InRelease

LEMMA ClosedInvGives ==
    ASSUME ClosedInv
    PROVE  ClosedOrderHasNoOpenItem /\ ClosedOrderIsCovered
  BY AtIsInRelease DEF ClosedInv, OrderInv, Settled, Done, ClosedOrderHasNoOpenItem, ClosedOrderIsCovered

-----------------------------------------------------------------------------
(***************************************************************************)
(* Orders a step does not touch                                            *)
(***************************************************************************)
Same(o) ==
    /\ orderStatus'[o] = orderStatus[o]
    /\ o \in withoutKiz' <=> o \in withoutKiz
    /\ \A j \in ItemsOf(o) :
          /\ itemStatus'[j] = itemStatus[j]
          /\ scannedBlocks'[j] = scannedBlocks[j]
          /\ releasedBlocks'[j] = releasedBlocks[j]
          /\ \A c \in Codes : <<j, c>> \in scans => <<j, c>> \in scans'
    /\ At(o)' = At(o)
    /\ \A w \in At(o) : release'[w] = release[w]

LEMMA SameKeeps ==
    ASSUME TypeOK, NEW o \in Orders, OrderInv(o), Same(o)
    PROVE  OrderInv(o)'
  <1>1. \A j \in ItemsOf(o) : KizIsCompleted(j)' <=> KizIsCompleted(j)
    BY DEF KizIsCompleted, Same
  <1>2. ASSUME NEW w \in At(o) PROVE InHand(release[w])'
    <2> DEFINE r == release[w]
    <2>1. /\ r.item \in ItemsOf(o) /\ r.code \in Codes /\ OrderOf[r.item] = o
          /\ release'[w] = r /\ InHand(r)
      BY DEF TypeOK, At, ItemsOf, Same, OrderInv
    <2>2. ItemsKept(r) => ItemsKept(r)'
      BY <2>1 DEF ItemsKept, Same
    <2>3. ItemsCovered(r) => ItemsCovered(r)'
      BY <1>1, <2>1 DEF ItemsCovered, Owed, Same
    <2> QED
      BY <2>1, <2>2, <2>3 DEF InHand, Same
  <1>3. At(o) = {} => Settled(o)'
    BY <1>1 DEF OrderInv, Settled, Same
  <1> QED
    BY <1>2, <1>3 DEF OrderInv, Same

-----------------------------------------------------------------------------
(***************************************************************************)
(* Every request but a release: it finds no release on its order.          *)
(***************************************************************************)
LEMMA Quiet ==
    ASSUME NEW o, At(o) = {}, UNCHANGED release, Settled(o)'
    PROVE  OrderInv(o)'
  BY DEF OrderInv, At

\* A request that leaves its order open, deleted, archived or cancelled
LEMMA QuietOpens ==
    ASSUME NEW o, At(o) = {}, UNCHANGED release, orderStatus'[o] \notin Done
    PROVE  OrderInv(o)'
  BY Quiet DEF Settled

LEMMA ScanKeeps ==
    ASSUME Overlap = FALSE, TypeOK, ClosedInv, ScanStep
    PROVE  ClosedInv'
  <1> USE DEF Done, Open, Closed, Returned, INACTIVE
  <1>1. PICK i \in Items, c \in Codes : CreateScan(i, c) \/ UndoScan(i, c)
    BY DEF ScanStep
  <1>2. OrderOf[i] \in Orders /\ At(OrderOf[i]) = {} /\ UNCHANGED release
    BY <1>1, OrderOfAssumption, AtIsInRelease DEF CreateScan, UndoScan, Undisturbed
  <1>3. orderStatus'[OrderOf[i]] \notin Done
    BY <1>1, <1>2 DEF CreateScan, UndoScan, UndoEffect, Active, TypeOK
  <1>4. ASSUME NEW o \in Orders, o # OrderOf[i] PROVE Same(o)
    <2>1. \A j \in ItemsOf(o) : j # i /\ j \in Items
      BY <1>4 DEF ItemsOf
    <2> QED
      BY <1>1, <1>2, <1>4, <2>1 DEF CreateScan, UndoScan, UndoEffect, Same, TypeOK, At
  <1> QED
    BY <1>2, <1>3, <1>4, QuietOpens, SameKeeps DEF ClosedInv

\* What a request does that sets the status of the orders S and of their items
LEMMA SetOrderKeeps ==
    ASSUME TypeOK, NEW S \in SUBSET Orders, NEW order, NEW item, SetOrder(S, order, item),
           withoutKiz' \in {withoutKiz, withoutKiz \cup S},
           UNCHANGED <<scannedBlocks, releasedBlocks, scans, release>>,
           NEW o \in Orders, o \notin S
    PROVE  Same(o)
  BY DEF SetOrder, Same, ItemsOf, TypeOK, At

LEMMA CompleteKeeps ==
    ASSUME Overlap = FALSE, TypeOK, ClosedInv, NEW o \in Orders, CompleteOrder(o)
    PROVE  ClosedInv'
  <1>1. At(o) = {} /\ UNCHANGED release
    BY AtIsInRelease DEF CompleteOrder, Undisturbed
  <1>2. \A i \in ItemsOf(o) : itemStatus'[i] = Closed
    BY DEF CompleteOrder, SetOrder, ItemsOf
  <1>3. ASSUME NEW i \in ItemsOf(o), i \in RequiresKiz PROVE scannedBlocks[i] + releasedBlocks[i] >= Plan[i]
    <2>1. i \in Items /\ scannedBlocks[i] \in Nat /\ releasedBlocks[i] \in Nat /\ Plan[i] \in Nat
      BY PlanAssumption DEF ItemsOf, TypeOK
    <2>2. scannedBlocks[i] >= Plan[i]
      BY <1>3 DEF CompleteOrder
    <2> QED
      BY <2>1, <2>2
  <1>4. Settled(o)'
    BY <1>2, <1>3 DEF Settled, KizIsCompleted, CompleteOrder
  <1>5. ASSUME NEW p \in Orders, p # o PROVE Same(p)
    BY <1>5, SetOrderKeeps DEF CompleteOrder
  <1> QED
    BY <1>1, <1>4, <1>5, Quiet, SameKeeps DEF ClosedInv

LEMMA CompleteWithoutKizKeeps ==
    ASSUME Overlap = FALSE, TypeOK, ClosedInv, NEW S \in SUBSET Orders, CompleteOrdersWithoutKiz(S)
    PROVE  ClosedInv'
  <1>1. ASSUME NEW o \in S PROVE OrderInv(o)'
    <2>1. At(o) = {} /\ UNCHANGED release /\ o \in withoutKiz'
      BY AtIsInRelease DEF CompleteOrdersWithoutKiz, Undisturbed
    <2>2. \A i \in ItemsOf(o) : itemStatus'[i] = Closed
      BY DEF CompleteOrdersWithoutKiz, SetOrder, ItemsOf
    <2> QED
      BY <2>1, <2>2, Quiet DEF Settled
  <1>2. ASSUME NEW p \in Orders, p \notin S PROVE Same(p)
    BY <1>2, SetOrderKeeps DEF CompleteOrdersWithoutKiz
  <1> QED
    BY <1>1, <1>2, SameKeeps DEF ClosedInv

LEMMA ReturnKeeps ==
    ASSUME Overlap = FALSE, TypeOK, ClosedInv, NEW o \in Orders, MarkOrderReturned(o)
    PROVE  ClosedInv'
  <1>1. At(o) = {} /\ UNCHANGED release
    BY AtIsInRelease DEF MarkOrderReturned, Undisturbed
  <1>2. Settled(o)
    BY <1>1 DEF ClosedInv, OrderInv
  <1>3. Settled(o)'
    BY <1>2 DEF MarkOrderReturned, Settled, Done, KizIsCompleted, itemVars
  <1>4. ASSUME NEW p \in Orders, p # o PROVE Same(p)
    BY <1>4 DEF MarkOrderReturned, Same, At, TypeOK, itemVars
  <1> QED
    BY <1>1, <1>3, <1>4, Quiet, SameKeeps DEF ClosedInv

LEMMA OpensKeeps ==
    ASSUME Overlap = FALSE, TypeOK, ClosedInv, NEW o \in Orders,
           \/ DeleteActiveOrder(o) \/ RestoreOrder(o) \/ ResetOrderForRescan(o)
           \/ \E target \in {Archived, Cancelled} : ArchiveOrCancel(o, target)
    PROVE  ClosedInv'
  <1> USE DEF Done, Open, Closed, Returned, Archived, Cancelled, Deleted
  <1>1. At(o) = {} /\ UNCHANGED release
    BY AtIsInRelease DEF DeleteActiveOrder, RestoreOrder, ResetOrderForRescan, ArchiveOrCancel, Undisturbed
  <1>2. orderStatus'[o] \notin Done
    BY DEF DeleteActiveOrder, RestoreOrder, ResetOrderForRescan, ArchiveOrCancel, SetOrder, TypeOK
  <1>3. ASSUME NEW p \in Orders, p # o PROVE Same(p)
    <2>1. CASE DeleteActiveOrder(o)
      BY <1>3, <2>1 DEF DeleteActiveOrder, Same, At, TypeOK, itemVars
    <2>2. CASE RestoreOrder(o)
      BY <1>3, <2>2 DEF RestoreOrder, Same, At, TypeOK, ItemsOf
    <2>3. CASE ResetOrderForRescan(o)
      <3>1. \A j \in ItemsOf(p) : j \in Items /\ OrderOf[j] # o
        BY <1>3 DEF ItemsOf
      <3>2. \A j \in ItemsOf(p), c \in Codes : <<j, c>> \in scans => <<j, c>> \in scans'
        BY <2>3, <3>1 DEF ResetOrderForRescan, ScansOf
      <3>3. \A j \in ItemsOf(p) : itemStatus'[j] = itemStatus[j] /\ scannedBlocks'[j] = scannedBlocks[j]
        BY <2>3, <3>1 DEF ResetOrderForRescan, SetOrder
      <3>4. orderStatus'[p] = orderStatus[p]
        BY <1>3, <2>3 DEF ResetOrderForRescan, SetOrder
      <3>5. UNCHANGED <<withoutKiz, releasedBlocks, release>>
        BY <2>3 DEF ResetOrderForRescan
      <3> QED
        BY <3>2, <3>3, <3>4, <3>5 DEF Same, At
    <2>4. ASSUME NEW target, ArchiveOrCancel(o, target) PROVE Same(p)
      BY <1>3, <2>4, SetOrderKeeps DEF ArchiveOrCancel
    <2> QED
      BY <2>1, <2>2, <2>3, <2>4
  <1> QED
    BY <1>1, <1>2, <1>3, QuietOpens, SameKeeps DEF ClosedInv

LEMMA OrderStepKeeps ==
    ASSUME Overlap = FALSE, TypeOK, ClosedInv, OrderStep
    PROVE  ClosedInv'
  BY CompleteKeeps, CompleteWithoutKizKeeps, ReturnKeeps, OpensKeeps DEF OrderStep

-----------------------------------------------------------------------------
(***************************************************************************)
(* The steps of a release                                                  *)
(***************************************************************************)
\* A step of the release of w changes rows of the order o only.
Within(w, o) ==
    /\ \A v \in Releasers \ {w} : release'[v] = release[v]
    /\ release[w].pc # "idle" => OrderOf[release[w].item] = o
    /\ release'[w].pc # "idle" => OrderOf[release'[w].item] = o
    /\ \A p \in Orders \ {o} : orderStatus'[p] = orderStatus[p]
    /\ UNCHANGED withoutKiz
    /\ \A j \in Items : OrderOf[j] # o =>
          /\ itemStatus'[j] = itemStatus[j]
          /\ scannedBlocks'[j] = scannedBlocks[j]
          /\ releasedBlocks'[j] = releasedBlocks[j]
          /\ \A c \in Codes : <<j, c>> \in scans => <<j, c>> \in scans'

LEMMA WithinKeeps ==
    ASSUME TypeOK, ClosedInv, NEW w \in Releasers, NEW o \in Orders, Within(w, o), OrderInv(o)'
    PROVE  ClosedInv'
  <1>1. ASSUME NEW p \in Orders, p # o PROVE Same(p)
    <2>1. \A j \in ItemsOf(p) : j \in Items /\ OrderOf[j] # o
      BY <1>1 DEF ItemsOf
    <2>2. At(p)' = At(p) /\ w \notin At(p)
      BY <1>1 DEF At, Within
    <2>3. \A v \in At(p) : release'[v] = release[v]
      BY <2>2 DEF At, Within
    <2> QED
      BY <1>1, <2>1, <2>2, <2>3 DEF Same, Within
  <1> QED
    BY <1>1, SameKeeps DEF ClosedInv

LEMMA UndoWithin ==
    ASSUME TypeOK, NEW i \in Items, NEW c \in Codes, UndoEffect(i, c)
    PROVE  /\ orderStatus'[OrderOf[i]] = Open
           /\ \A p \in Orders \ {OrderOf[i]} : orderStatus'[p] = orderStatus[p]
           /\ UNCHANGED <<withoutKiz, releasedBlocks>>
           /\ scannedBlocks'[i] = BlocksIn[CodesOn(scans \ {<<i, c>>}, i)]
           /\ \A j \in Items : j # i =>
                 /\ itemStatus'[j] = itemStatus[j]
                 /\ scannedBlocks'[j] = scannedBlocks[j]
                 /\ \A d \in Codes : <<j, d>> \in scans => <<j, d>> \in scans'
  <1>1. OrderOf[i] \in Orders
    BY OrderOfAssumption
  <1> QED
    BY <1>1 DEF UndoEffect, TypeOK

\* A release is under way after the step, or over.
LEMMA TakesInHand ==
    ASSUME NEW w \in Releasers, NEW o, At(o) \subseteq {w}, Within(w, o), release'[w].pc # "idle",
           orderStatus'[o] = Open, InHand(release[w])'
    PROVE  OrderInv(o)'
  <1>1. At(o)' = {w}
    BY DEF At, Within
  <1> QED
    BY <1>1 DEF OrderInv

LEMMA LetsGo ==
    ASSUME NEW w \in Releasers, NEW o, At(o) \subseteq {w}, Within(w, o), release'[w].pc = "idle", Settled(o)'
    PROVE  OrderInv(o)'
  <1>1. At(o)' = {}
    BY DEF At, Within
  <1> QED
    BY <1>1 DEF OrderInv

\* The donor a release takes is an item no other release works on.
LEMMA DonorIsFree ==
    ASSUME Overlap = FALSE, TypeOK, ClosedInv, NEW w \in Releasers, NEW c \in Codes, Releasable(w, c)
    PROVE  /\ latest[c].item \in Items /\ OrderOf[latest[c].item] \in Orders
           /\ At(OrderOf[latest[c].item]) = {}
           /\ release[w].pc = "idle" /\ <<latest[c].item, c>> \in scans
  BY TypeParts, DonorType, AtIsInRelease, OrderOfAssumption DEF Releasable, Undisturbed

LEMMA ReopenKeeps ==
    ASSUME Overlap = FALSE, TypeOK, ClosedInv, NEW w \in Releasers, NEW c \in Codes, ReleaseReopen(w, c),
           NEW i \in Items, i = latest[c].item, NEW o \in Orders, o = OrderOf[i]
    PROVE  ClosedInv'
  <1>1. /\ i \in Items /\ o \in Orders /\ At(o) = {} /\ release[w].pc = "idle" /\ <<i, c>> \in scans
        /\ ReadDonor(w, c, "reopened")
        /\ orderStatus' = [orderStatus EXCEPT ![o] = Open]
        /\ UNCHANGED <<withoutKiz, itemVars, scans>>
    BY DonorIsFree DEF ReleaseReopen
  <1>2. /\ release'[w].pc = "reopened" /\ release'[w].item = i /\ release'[w].code = c
        /\ release'[w].orderWas = orderStatus[o] /\ release'[w].itemWas = itemStatus[i]
        /\ \A v \in Releasers \ {w} : release'[v] = release[v]
    BY <1>1, TypeParts, ReadDonorFields
  <1>3. Within(w, o) /\ orderStatus'[o] = Open
    BY <1>1, <1>2 DEF Within, TypeOK, itemVars
  <1>4. Settled(o)
    BY <1>1 DEF ClosedInv, OrderInv
  <1>5. i \in ItemsOf(o)
    BY <1>1 DEF ItemsOf
  <1>6. orderStatus[o] \in Done => ItemsKept(release[w])'
    BY <1>1, <1>2, <1>4, <1>5 DEF ItemsKept, Settled, itemVars
  <1>7. ASSUME orderStatus[o] \in Done, o \notin withoutKiz PROVE ItemsCovered(release[w])'
    <2>1. \A j \in ItemsOf(o) : KizIsCompleted(j) /\ KizIsCompleted(j)'
      BY <1>1, <1>4, <1>7 DEF Settled, KizIsCompleted, itemVars
    <2>2. scannedBlocks[i] \in Nat /\ releasedBlocks[i] \in Nat
      BY <1>1 DEF TypeOK
    <2>3. Owed(release[w])' = 0
      BY <1>2 DEF Owed
    <2>4. i \in RequiresKiz => scannedBlocks[i] + releasedBlocks[i] >= Plan[i]
      BY <1>5, <2>1 DEF KizIsCompleted
    <2>5. scannedBlocks[i] + releasedBlocks[i] + 0 = scannedBlocks[i] + releasedBlocks[i]
      BY <2>2
    <2>6. scannedBlocks' = scannedBlocks /\ releasedBlocks' = releasedBlocks
      BY <1>1 DEF itemVars
    <2>7. i \in RequiresKiz => scannedBlocks'[i] + releasedBlocks'[i] + 0 >= Plan[i]
      BY <2>4, <2>5, <2>6
    <2> QED
      BY <1>2, <2>1, <2>3, <2>7 DEF ItemsCovered
  <1>8. InHand(release[w])'
    BY <1>1, <1>2, <1>6, <1>7 DEF InHand
  <1>9. OrderInv(o)'
    BY <1>1, <1>2, <1>3, <1>8, TakesInHand
  <1> QED
    BY <1>1, <1>3, <1>9, WithinKeeps

LEMMA UndoOpenKeeps ==
    ASSUME Overlap = FALSE, TypeOK, ClosedInv, NEW w \in Releasers, NEW c \in Codes, ReleaseUndoOpen(w, c),
           NEW i \in Items, i = latest[c].item, NEW o \in Orders, o = OrderOf[i]
    PROVE  ClosedInv'
  <1>1. /\ i \in Items /\ o \in Orders /\ At(o) = {} /\ release[w].pc = "idle"
        /\ ReadDonor(w, c, "undone") /\ UndoEffect(i, c) /\ Active(o)
    BY DonorIsFree DEF ReleaseUndoOpen
  <1>2. /\ release'[w].pc = "undone" /\ release'[w].item = i
        /\ release'[w].orderWas = orderStatus[o]
        /\ \A v \in Releasers \ {w} : release'[v] = release[v]
    BY <1>1, TypeParts, ReadDonorFields
  <1>3. Within(w, o) /\ orderStatus'[o] = Open
    BY <1>1, <1>2, UndoWithin DEF Within
  <1>4. InHand(release[w])'
    BY <1>1, <1>2 DEF InHand, Active, Done, INACTIVE
  <1>5. OrderInv(o)'
    BY <1>1, <1>2, <1>3, <1>4, TakesInHand
  <1> QED
    BY <1>1, <1>3, <1>5, WithinKeeps

\* What is known of the donor when its release takes a step
LEMMA HandIsFull ==
    ASSUME TypeOK, ClosedInv, NEW w \in Releasers, release[w].pc # "idle"
    PROVE  /\ release[w].item \in Items /\ release[w].code \in Codes /\ release[w] \in ReleaseType
           /\ OrderOf[release[w].item] \in Orders
           /\ orderStatus[OrderOf[release[w].item]] = Open
           /\ At(OrderOf[release[w].item]) = {w}
           /\ InHand(release[w])
  <1>1. /\ release[w].item \in Items /\ release[w].code \in Codes /\ release[w] \in ReleaseType
        /\ OrderOf[release[w].item] \in Orders
    BY OrderOfAssumption DEF TypeOK
  <1>2. w \in At(OrderOf[release[w].item])
    BY DEF At
  <1> QED
    BY <1>1, <1>2 DEF ClosedInv, OrderInv

LEMMA UndoKeeps ==
    ASSUME TypeOK, ClosedInv, CountersMatchScans, NEW w \in Releasers, ReleaseUndo(w),
           NEW i \in Items, i = release[w].item, NEW c \in Codes, c = release[w].code,
           NEW o \in Orders, o = OrderOf[i]
    PROVE  ClosedInv'
  <1> DEFINE r == release[w]
  <1>1. /\ r.pc = "reopened" /\ <<i, c>> \in scans /\ UndoEffect(i, c)
        /\ release' = [release EXCEPT ![w].pc = "undone"]
    BY DEF ReleaseUndo
  <1>2. i \in Items /\ c \in Codes /\ r \in ReleaseType /\ o \in Orders /\ At(o) = {w} /\ InHand(r)
    BY <1>1, HandIsFull
  <1>3. /\ release'[w].pc = "undone" /\ release'[w].item = i /\ release'[w].code = c
        /\ release'[w].orderWas = r.orderWas /\ release'[w].itemWas = r.itemWas
        /\ \A v \in Releasers \ {w} : release'[v] = release[v]
    BY <1>1, <1>2 DEF TypeOK, ReleaseType
  <1>u. /\ orderStatus'[o] = Open
        /\ \A p \in Orders \ {o} : orderStatus'[p] = orderStatus[p]
        /\ UNCHANGED <<withoutKiz, releasedBlocks>>
        /\ scannedBlocks'[i] = BlocksIn[CodesOn(scans \ {<<i, c>>}, i)]
        /\ \A j \in Items : j # i =>
              /\ itemStatus'[j] = itemStatus[j]
              /\ scannedBlocks'[j] = scannedBlocks[j]
              /\ \A d \in Codes : <<j, d>> \in scans => <<j, d>> \in scans'
    BY <1>1, <1>2, UndoWithin
  <1>4. Within(w, o)
    BY <1>u, <1>2, <1>3 DEF Within
  <1>5. ItemsKept(r) => ItemsKept(release[w])'
    BY <1>u, <1>1, <1>2, <1>3 DEF ItemsKept, ItemsOf
  <1>6. scannedBlocks[i] = scannedBlocks'[i] + Blocks[c] /\ scannedBlocks'[i] \in Nat
    <2>1. CodesOn(scans \ {<<i, c>>}, i) = CodesOn(scans, i) \ {c}
      BY DEF CodesOn
    <2>2. c \in CodesOn(scans, i) /\ CodesOn(scans, i) \in SUBSET Codes
      BY <1>1, <1>2 DEF CodesOn
    <2>3. scannedBlocks[i] = BlocksIn[CodesOn(scans, i)]
      BY <1>2 DEF CountersMatchScans
    <2>4. /\ BlocksIn[CodesOn(scans, i)] = BlocksIn[CodesOn(scans, i) \ {c}] + Blocks[c]
          /\ BlocksIn[CodesOn(scans, i) \ {c}] \in Nat
      BY <2>2, BlocksWithout
    <2> QED
      BY <1>u, <2>1, <2>3, <2>4
  <1>7. ASSUME ItemsCovered(r) PROVE ItemsCovered(release[w])'
    <2>1. \A j \in ItemsOf(o) \ {i} : KizIsCompleted(j)'
      BY <1>u, <1>2, <1>7 DEF ItemsCovered, KizIsCompleted, ItemsOf
    <2>2. releasedBlocks[i] \in Nat /\ Blocks[c] \in Nat /\ Plan[i] \in Nat
      BY <1>2, BlocksAssumption, PlanAssumption DEF TypeOK
    <2>3. i \in RequiresKiz => scannedBlocks[i] + releasedBlocks[i] + 0 >= Plan[i]
      BY <1>1, <1>7 DEF ItemsCovered, Owed
    <2>4. i \in RequiresKiz => scannedBlocks'[i] + releasedBlocks[i] + Blocks[c] >= Plan[i]
      BY <1>6, <2>2, <2>3
    <2>5. releasedBlocks'[i] = releasedBlocks[i] /\ Owed(release[w])' = Blocks[c]
      BY <1>u, <1>3 DEF Owed
    <2>6. i \in RequiresKiz => scannedBlocks'[i] + releasedBlocks'[i] + Owed(release[w])' >= Plan[i]
      BY <2>4, <2>5
    <2> QED
      BY <1>3, <2>1, <2>6 DEF ItemsCovered
  <1>8. InHand(release[w])'
    BY <1>u, <1>2, <1>3, <1>5, <1>7 DEF InHand
  <1>9. OrderInv(o)'
    BY <1>u, <1>2, <1>3, <1>4, <1>8, TakesInHand
  <1> QED
    BY <1>2, <1>4, <1>9, WithinKeeps

\* What the finally block reads in an order nobody else works on
LEMMA ReadBackRecord ==
    ASSUME TypeOK, NEW w \in Releasers, ReleaseReadBack(w), release[w].pc = "undone"
    PROVE  /\ release'[w].pc = "settling"
           /\ release'[w].item = release[w].item /\ release'[w].code = release[w].code
           /\ release'[w].orderWas = release[w].orderWas
           /\ release'[w].itemWas = release[w].itemWas
           /\ release'[w].itemDirty \/ itemStatus[release[w].item] = release[w].itemWas
           /\ release'[w].released = releasedBlocks[release[w].item]
           /\ \A v \in Releasers \ {w} : release'[v] = release[v]
  <1> DEFINE dirty == /\ release[w].orderWas \in INACTIVE
                      /\ orderStatus[OrderOf[release[w].item]] # release[w].orderWas
             itemDirty == itemStatus[release[w].item] # release[w].itemWas
             r == [release[w] EXCEPT !.pc = "settling", !.orderDirty = dirty,
                      !.itemDirty = itemDirty, !.released = releasedBlocks[release[w].item]]
  <1>1. release' = [release EXCEPT ![w] = r]
    BY DEF ReleaseReadBack
  <1>2. release[w] \in ReleaseType
    BY DEF TypeOK
  <1>3. itemDirty \/ itemStatus[release[w].item] = release[w].itemWas
    OBVIOUS
  <1> HIDE DEF dirty, itemDirty
  <1>4. /\ r.pc = "settling" /\ r.item = release[w].item /\ r.code = release[w].code
        /\ r.orderWas = release[w].orderWas /\ r.itemWas = release[w].itemWas
        /\ r.itemDirty = itemDirty /\ r.released = releasedBlocks[release[w].item]
    BY <1>2 DEF ReleaseType
  <1> HIDE DEF r
  <1> QED
    BY <1>1, <1>3, <1>4 DEF TypeOK

LEMMA ReadBackKeeps ==
    ASSUME TypeOK, ClosedInv, NEW w \in Releasers, ReleaseReadBack(w),
           NEW i \in Items, i = release[w].item, NEW o \in Orders, o = OrderOf[i]
    PROVE  ClosedInv'
  <1> DEFINE r == release[w]
  <1>1. r.pc = "undone" /\ orderStatus[o] = Open /\ At(o) = {w} /\ InHand(r)
    BY HandIsFull DEF ReleaseReadBack, InHand
  <1>2. /\ release'[w].pc = "settling" /\ release'[w].item = i /\ release'[w].code = r.code
        /\ release'[w].orderWas = r.orderWas /\ release'[w].itemWas = r.itemWas
        /\ release'[w].itemDirty \/ itemStatus[i] = r.itemWas
        /\ release'[w].released = releasedBlocks[i]
        /\ \A v \in Releasers \ {w} : release'[v] = release[v]
    BY <1>1, ReadBackRecord
  <1>3. UNCHANGED <<orderStatus, withoutKiz, itemStatus, scannedBlocks, releasedBlocks, scans>>
    BY DEF ReleaseReadBack, itemVars
  <1>4. Within(w, o)
    BY <1>2, <1>3 DEF Within
  <1>5. ItemsKept(r) => ItemsKept(release[w])'
    BY <1>2, <1>3 DEF ItemsKept
  <1>6. ASSUME ItemsCovered(r) PROVE ItemsCovered(release[w])'
    <2>1. \A j \in ItemsOf(o) \ {i} : KizIsCompleted(j)'
      BY <1>3, <1>6 DEF ItemsCovered, KizIsCompleted
    <2>2. Owed(release[w])' = Owed(r)
      BY <1>1, <1>2 DEF Owed
    <2> QED
      BY <1>2, <1>3, <1>6, <2>1, <2>2 DEF ItemsCovered
  <1>7. InHand(release[w])'
    BY <1>1, <1>2, <1>3, <1>5, <1>6 DEF InHand
  <1>8. OrderInv(o)'
    BY <1>1, <1>2, <1>3, <1>4, <1>7, TakesInHand
  <1> QED
    BY <1>4, <1>8, WithinKeeps

\* The release commits its order closed again, with the count of what it took,
\* or it leaves it open.
LEMMA SettleKeeps ==
    ASSUME TypeOK, ClosedInv, NEW w \in Releasers, ReleaseSettle(w),
           NEW i \in Items, i = release[w].item, NEW o \in Orders, o = OrderOf[i]
    PROVE  ClosedInv'
  <1> DEFINE r == release[w]
  <1> USE DEF Open, Closed, Returned, Archived, Cancelled, Deleted
  <1>1. /\ r.pc = "settling" /\ r \in ReleaseType /\ r.code \in Codes
        /\ orderStatus[o] = Open /\ At(o) = {w} /\ InHand(r)
    BY HandIsFull DEF ReleaseSettle, InHand
  <1>2. /\ orderStatus' = IF r.orderDirty THEN [orderStatus EXCEPT ![o] = r.orderWas] ELSE orderStatus
        /\ itemStatus' = IF r.itemDirty THEN [itemStatus EXCEPT ![i] = r.itemWas] ELSE itemStatus
        /\ releasedBlocks' = [releasedBlocks EXCEPT ![i] = r.released + Blocks[r.code]]
        /\ release' = [release EXCEPT ![w] = IdleRelease]
        /\ UNCHANGED <<withoutKiz, scannedBlocks, scans>>
    BY <1>1 DEF ReleaseSettle
  <1>3. release'[w].pc = "idle" /\ \A v \in Releasers \ {w} : release'[v] = release[v]
    BY <1>2, IdleType DEF TypeOK
  <1>4. /\ \A j \in Items \ {i} : itemStatus'[j] = itemStatus[j] /\ releasedBlocks'[j] = releasedBlocks[j]
        /\ releasedBlocks'[i] = r.released + Blocks[r.code]
        /\ itemStatus'[i] = IF r.itemDirty THEN r.itemWas ELSE itemStatus[i]
        /\ orderStatus'[o] = IF r.orderDirty THEN r.orderWas ELSE Open
        /\ \A p \in Orders \ {o} : orderStatus'[p] = orderStatus[p]
    BY <1>1, <1>2 DEF TypeOK
  <1>5. Within(w, o)
    BY <1>2, <1>3, <1>4 DEF Within
  <1>6. ASSUME orderStatus'[o] \in Done PROVE \A j \in ItemsOf(o) : itemStatus'[j] = Closed
    <2>1. ItemsKept(r)
      BY <1>1, <1>4, <1>6 DEF InHand, Done
    <2> QED
      BY <1>1, <1>4, <2>1 DEF ItemsKept, ItemsOf
  <1>7. ASSUME orderStatus'[o] \in Done, o \notin withoutKiz PROVE \A j \in ItemsOf(o) : KizIsCompleted(j)'
    <2>1. ItemsCovered(r)
      BY <1>1, <1>4, <1>7 DEF InHand, Done
    <2>2. \A j \in ItemsOf(o) \ {i} : KizIsCompleted(j)'
      BY <1>2, <1>4, <2>1 DEF ItemsCovered, KizIsCompleted, ItemsOf
    <2>3. scannedBlocks[i] \in Nat /\ releasedBlocks[i] \in Nat /\ Blocks[r.code] \in Nat
      BY <1>1, BlocksAssumption DEF TypeOK
    <2>4. r.released = releasedBlocks[i] /\ Owed(r) = Blocks[r.code]
      BY <1>1, <2>1 DEF ItemsCovered, Owed
    <2>5. i \in RequiresKiz => scannedBlocks[i] + releasedBlocks[i] + Blocks[r.code] >= Plan[i]
      BY <2>1, <2>4 DEF ItemsCovered
    <2>6. scannedBlocks[i] + (releasedBlocks[i] + Blocks[r.code])
              = scannedBlocks[i] + releasedBlocks[i] + Blocks[r.code]
      BY <2>3
    <2>7. KizIsCompleted(i)'
      BY <1>2, <1>4, <2>4, <2>5, <2>6 DEF KizIsCompleted
    <2> QED
      BY <2>2, <2>7
  <1>8. OrderInv(o)'
    BY <1>1, <1>2, <1>3, <1>5, <1>6, <1>7, LetsGo DEF Settled
  <1> QED
    BY <1>5, <1>8, WithinKeeps

\* A release that dies leaves its order open.
LEMMA DiesKeeps ==
    ASSUME TypeOK, ClosedInv, NEW w \in Releasers, ReleaseDies(w),
           NEW i \in Items, i = release[w].item, NEW o \in Orders, o = OrderOf[i]
    PROVE  ClosedInv'
  <1>1. orderStatus[o] = Open /\ At(o) = {w}
    BY HandIsFull DEF ReleaseDies
  <1>2. UNCHANGED <<orderStatus, withoutKiz, itemStatus, scannedBlocks, releasedBlocks, scans>>
    BY DEF ReleaseDies, itemVars
  <1>3. release'[w].pc = "idle" /\ \A v \in Releasers \ {w} : release'[v] = release[v]
    BY IdleType DEF ReleaseDies, TypeOK
  <1>4. Within(w, o)
    BY <1>2, <1>3 DEF Within
  <1>5. Settled(o)'
    BY <1>1, <1>2 DEF Settled, Done, Open, Closed, Returned
  <1>6. OrderInv(o)'
    BY <1>1, <1>3, <1>4, <1>5, LetsGo
  <1> QED
    BY <1>4, <1>6, WithinKeeps

LEMMA ReleaseStepKeeps ==
    ASSUME Overlap = FALSE, TypeOK, ClosedInv, CountersMatchScans, ReleaseStep
    PROVE  ClosedInv'
  <1>1. ASSUME NEW w \in Releasers, NEW c \in Codes, ReleaseReopen(w, c) \/ ReleaseUndoOpen(w, c)
        PROVE  ClosedInv'
    <2>1. Releasable(w, c)
      BY <1>1 DEF ReleaseReopen, ReleaseUndoOpen
    <2>2. PICK i \in Items : i = latest[c].item
      BY <2>1, DonorIsFree
    <2>3. OrderOf[i] \in Orders
      BY OrderOfAssumption
    <2> QED
      BY <1>1, <2>2, <2>3, ReopenKeeps, UndoOpenKeeps
  <1>2. ASSUME NEW w \in Releasers,
               \/ ReleaseUndo(w) \/ ReleaseUndoRefused(w) \/ ReleaseReadBack(w)
               \/ ReleaseSettle(w) \/ ReleaseDies(w)
        PROVE  ClosedInv'
    <2>1. release[w].pc # "idle"
      BY <1>2 DEF ReleaseUndo, ReleaseUndoRefused, ReleaseReadBack, ReleaseSettle, ReleaseDies
    <2>2. PICK i \in Items, c \in Codes : i = release[w].item /\ c = release[w].code
      BY <2>1 DEF TypeOK
    <2>3. OrderOf[i] \in Orders
      BY OrderOfAssumption
    <2>4. ~ReleaseUndoRefused(w)
      BY <2>1, HandIsFull
         DEF ReleaseUndoRefused, InHand, Active, INACTIVE, Open, Closed, Returned, Archived, Cancelled, Deleted
    <2> QED
      BY <1>2, <2>2, <2>3, <2>4, UndoKeeps, ReadBackKeeps, SettleKeeps, DiesKeeps
  <1> QED
    BY <1>1, <1>2 DEF ReleaseStep

-----------------------------------------------------------------------------
(***************************************************************************)
(* The theorems                                                            *)
(***************************************************************************)
LEMMA ClosedInit ==
    ASSUME Init
    PROVE  ClosedInv
  <1>1. ASSUME NEW o \in Orders PROVE At(o) = {} /\ orderStatus[o] = Open
    BY <1>1, IdleType DEF Init, At
  <1> QED
    BY <1>1 DEF ClosedInv, OrderInv, Settled, Done, Open, Closed, Returned

LEMMA ClosedStep ==
    ASSUME Overlap = FALSE, TypeOK, CountersMatchScans, ClosedInv, [Next]_vars
    PROVE  ClosedInv'
  <1>1. CASE UNCHANGED vars
    <2>1. ASSUME NEW o \in Orders PROVE Same(o)
      BY <1>1 DEF vars, Same, At
    <2> QED
      BY <2>1, SameKeeps DEF ClosedInv
  <1>2. CASE ScanStep
    BY <1>2, ScanKeeps
  <1>3. CASE OrderStep
    BY <1>3, OrderStepKeeps
  <1>4. CASE ReleaseStep
    BY <1>4, ReleaseStepKeeps
  <1> QED
    BY <1>1, <1>2, <1>3, <1>4 DEF Next

LEMMA ClosedInvariant ==
    ASSUME Overlap = FALSE
    PROVE  Spec => []ClosedInv
  <1>1. Init => ClosedInv
    BY ClosedInit
  <1>2. ASSUME TypeOK, CountersMatchScans, ClosedInv, [Next]_vars PROVE ClosedInv'
    BY <1>2, ClosedStep
  <1> QED
    BY <1>1, <1>2, TypeCorrect, CountersCorrect, PTL DEF Spec

\* A completed or returned order has no open item once its releases are over,
\* as long as no other request commits on the donor of a running release: the
\* finally block of release_kiz closes the item with the order, and a release
\* that dies leaves both to be closed again.
THEOREM ClosedOrdersStayClosed ==
    ASSUME Overlap = FALSE
    PROVE  Spec => []ClosedOrderHasNoOpenItem
  <1>1. ClosedInv => ClosedOrderHasNoOpenItem
    BY ClosedInvGives
  <1> QED
    BY <1>1, ClosedInvariant, PTL

\* An order completed by scanning stays complete for the KIZ report once its
\* releases are over, under the same condition: what a release takes from a
\* closed order is added, block for block, to kiz_released_blocks.
THEOREM ClosedOrdersAreCovered ==
    ASSUME Overlap = FALSE
    PROVE  Spec => []ClosedOrderIsCovered
  <1>1. ClosedInv => ClosedOrderIsCovered
    BY ClosedInvGives
  <1> QED
    BY <1>1, ClosedInvariant, PTL
====================================================================================
