----------------------- MODULE TransferKizDeliveryProofs -----------------------
(***************************************************************************)
(* Theorems about TransferKizDelivery for every value of its constants:    *)
(* all its safety properties, and that a file is one call of CallOnce.     *)
(***************************************************************************)
EXTENDS TransferKizDelivery, Integers, WellFoundedInduction, TLAPS

Files == [Items -> ScanIds \cup {NoScan}]

Reports == [Items -> ScanIds \cup {NoScan, Waived}]

WorkerStates == {"idle", "checking", "checked", "delivering", "prepared", "sending", "sent"}

Worker == [pc : WorkerStates, row : Nat, ready : BOOLEAN, file : Reports]

Undo == [pc : {"none", "reopened", "undoing"}, alert : Deliveries \cup {NoDelivery}, was : Statuses]

CheckStates == {"none", "pending", "processing", "completed", "failed"}

RowStates == {"none", "pending", "processing", "completed", "failed", "blocked"}

Row == [status : RowStates, started : BOOLEAN, attempts : Nat]

\* TypeOK in three parts: the variables of the API, with the fact that a code
\* being undone is still there, ...
ApiTyping ==
    /\ scan \in Files /\ scans \in 0..MaxScans
    /\ numbered \in BOOLEAN /\ released \subseteq Items
    /\ order \in [Orders -> Statuses] /\ item \in [Items -> Statuses] /\ flagged \subseteq Orders
    /\ undo \in [Items -> Undo]
    /\ owed \subseteq Items \X Statuses
    /\ \A i \in Items : undo[i].pc = "undoing" => scan[i] # NoScan
    /\ alerts \subseteq Deliveries
    /\ reset \subseteq ScanIds

\* ... the worker with its record as a whole, ...
WorkerTyping ==
    /\ worker \in Worker
    /\ worker.pc \in {"checking", "checked"} => worker.row \in ScanIds
    /\ worker.pc \in {"delivering", "prepared", "sending", "sent"} => worker.row \in Deliveries

\* ... and the rows.
RowTyping ==
    /\ check \in [ScanIds -> CheckStates]
    /\ delivery \in [Deliveries -> Row]
    /\ file \in [Deliveries -> Reports]
    /\ sends \in [Deliveries -> Nat]
    /\ racing \subseteq ScanIds
    /\ faults \in 0..MaxFaults

Typing == ApiTyping /\ WorkerTyping /\ RowTyping

(***************************************************************************)
(* The last completed delivery exists, since there are finitely many.      *)
(***************************************************************************)
LEMMA LastOf ==
    ASSUME NEW n \in Nat, NEW S, S \subseteq 0..n, S # {}
    PROVE  \E m \in S : \A k \in S : k <= m
  <1> DEFINE T == {n - k : k \in S}
  <1>1. T \subseteq Nat
    BY Z3
  <1>2. T # {}
    OBVIOUS
  <1> HIDE DEF T
  <1>3. PICK m \in T : \A k \in T : ~(<<k, m>> \in OpToRel(<, Nat))
    BY <1>1, <1>2, NatLessThanWellFounded, WFMin
  <1>4. OpToRel(<, Nat) = {ss \in Nat \X Nat : ss[1] < ss[2]}
    BY Zenon DEF OpToRel
  <1>5. \A k \in T : m <= k
    <2> SUFFICES ASSUME NEW k \in T PROVE m <= k
      OBVIOUS
    <2>1. <<k, m>> \notin {ss \in Nat \X Nat : ss[1] < ss[2]}
      BY <1>3, <1>4, Zenon
    <2>2. ~(k < m)
      BY <1>1, <2>1
    <2> QED
      BY <1>1, <2>2
  <1>6. PICK k \in S : m = n - k
    BY <1>3 DEF T
  <1>7. \A j \in S : n - k <= n - j
    BY <1>5, <1>6 DEF T
  <1> QED
    BY <1>6, <1>7

LEMMA LatestIsLast ==
    /\ LatestCompleted \in Deliveries \cup {NoDelivery}
    /\ \A d \in Deliveries : delivery[d].status = "completed" => d <= LatestCompleted
  <1> DEFINE C == {d \in Deliveries : delivery[d].status = "completed"}
  <1>1. CASE C = {}
    BY <1>1 DEF LatestCompleted
  <1>2. CASE C # {}
    <2>1. \E m \in C : \A k \in C : k <= m
      <3>1. C \subseteq 0..MaxDeliveries
        BY DeliveryAssumption DEF Deliveries
      <3> HIDE DEF C
      <3> QED
        BY <1>2, <3>1, LastOf, DeliveryAssumption
    <2>2. \E m \in Deliveries : /\ delivery[m].status = "completed"
                               /\ \A e \in Deliveries : delivery[e].status = "completed" => e <= m
      BY <2>1
    <2> QED
      BY <1>2, <2>2 DEF LatestCompleted
  <1> QED
    BY <1>1, <1>2

(***************************************************************************)
(* Types.                                                                  *)
(***************************************************************************)
LEMMA Values ==
    /\ ScanIds \subseteq Nat /\ Deliveries \subseteq Nat /\ 0 \notin Deliveries
    /\ NoFile \in Reports /\ Waived \notin ScanIds /\ NoScan \notin ScanIds
    /\ Idle \in Worker /\ Idle.pc = "idle" /\ Idle.file = NoFile
    /\ NoRow \in Row
  <1>1. ScanIds \subseteq Nat /\ Deliveries \subseteq Nat /\ 0 \notin Deliveries
    BY ScanAssumption, DeliveryAssumption DEF ScanIds, Deliveries
  <1>2. NoFile \in Reports /\ Waived \notin ScanIds /\ NoScan \notin ScanIds
    BY ScanAssumption DEF NoFile, Reports, Waived, ScanIds, NoScan
  <1>3. Idle \in Worker /\ Idle.pc = "idle" /\ Idle.file = NoFile
    BY <1>2 DEF Idle, Worker, WorkerStates
  <1>4. NoRow \in Row
    BY DEF NoRow, Row, RowStates
  <1> QED
    BY <1>1, <1>2, <1>3, <1>4

LEMMA TypingGivesTypeOK == Typing => TypeOK
  BY DEF Typing, ApiTyping, WorkerTyping, RowTyping, TypeOK, Worker, WorkerStates, Files, Reports, Undo, CheckStates,
         Row, RowStates, DoingDelivery

LEMMA TypingInit == Init => Typing
  <1> SUFFICES ASSUME Init PROVE Typing
    OBVIOUS
  <1>1. NoUndo \in Undo /\ NoUndo.pc = "none"
    BY DEF NoUndo, Undo, Statuses
  <1>2. ApiTyping
    <2>1. undo \in [Items -> Undo] /\ \A i \in Items : undo[i].pc = "none"
      BY <1>1 DEF Init
    <2>2. scan \in Files /\ scans \in 0..MaxScans
      BY ScanAssumption DEF Init, Files
    <2>3. order \in [Orders -> Statuses] /\ item \in [Items -> Statuses]
      BY DEF Init, Statuses
    <2> QED
      BY <2>1, <2>2, <2>3 DEF Init, ApiTyping
  <1>3. WorkerTyping
    BY Values DEF Init, WorkerTyping
  <1>4. RowTyping
    BY Values, FaultAssumption DEF Init, RowTyping, CheckStates
  <1> QED
    BY <1>2, <1>3, <1>4 DEF Typing

LEMMA WorkerUpdate ==
    ASSUME NEW v \in Worker, NEW p \in WorkerStates
    PROVE  /\ [v EXCEPT !.pc = p] \in Worker
           /\ [v EXCEPT !.pc = p].pc = p
           /\ [v EXCEPT !.pc = p].row = v.row
           /\ [v EXCEPT !.pc = p].file = v.file
  BY DEF Worker

LEMMA Claimed ==
    ASSUME NEW p \in WorkerStates, NEW n \in Nat
    PROVE  /\ [Idle EXCEPT !.pc = p, !.row = n] \in Worker
           /\ [Idle EXCEPT !.pc = p, !.row = n].pc = p
           /\ [Idle EXCEPT !.pc = p, !.row = n].row = n
           /\ [Idle EXCEPT !.pc = p, !.row = n].file = NoFile
  BY Values DEF Worker

LEMMA SetRowEffect ==
    ASSUME delivery \in [Deliveries -> Row], NEW d \in Deliveries, NEW st \in RowStates, SetRow(d, st)
    PROVE  /\ delivery' \in [Deliveries -> Row]
           /\ delivery'[d].status = st
           /\ \A e \in Deliveries : e # d => delivery'[e] = delivery[e]
           /\ \A e \in Deliveries : delivery'[e].started = delivery[e].started
  BY DEF SetRow, Row


LEMMA OrderOfItem ==
    ASSUME NEW i \in Items
    PROVE  OrderOf(i) \in Orders /\ i \in OrderOf(i)
  <1>1. \E o \in Orders : i \in o
    BY OrderAssumption
  <1> QED
    BY <1>1 DEF OrderOf

\* What the API and the administrators leave to the worker.
LEMMA ApiLeaves ==
    ASSUME NEW i \in Items, Api(i)
    PROVE  /\ UNCHANGED <<delivery, worker, file, sends, faults>>
           /\ UNCHANGED check \/ Scan(i)
           /\ UNCHANGED racing \/ BeginUndo(i)
           /\ released \subseteq released' /\ alerts \subseteq alerts' /\ racing \subseteq racing'
           /\ UNCHANGED reset
  BY DEF Api, Scan, Reopen, BeginUndo, CommitUndo, DropRelease, FinishRelease

LEMMA AdminLeaves ==
    ASSUME NEW o \in Orders, Admin(o)
    PROVE  /\ UNCHANGED <<scans, numbered, released, undo, owed, check, delivery, alerts,
                          worker, file, sends, racing, faults>>
           /\ ~Locked(o)
           /\ UNCHANGED <<scan, reset>> \/ Reset(o)
           /\ reset \subseteq reset'
  BY DEF Admin, CompleteOrder, CompleteWithoutKiz, Archive, RestoreOrder, Reset, Put

LEMMA AdminTyping ==
    ASSUME ApiTyping, NEW o \in Orders, Admin(o)
    PROVE  ApiTyping'
  <1> USE DEF ApiTyping
  <1>0. o \subseteq Items
    BY OrderAssumption
  <1>1. PICK status \in Statuses, positions \in SUBSET Items : Put(o, status, positions)
    BY <1>0 DEF Admin, CompleteOrder, CompleteWithoutKiz, Archive, RestoreOrder, Reset, Statuses
  <1>2. order' \in [Orders -> Statuses] /\ item' \in [Items -> Statuses]
    BY <1>1 DEF Put
  <1>3. flagged' \subseteq Orders
    BY DEF Admin, CompleteOrder, CompleteWithoutKiz, Archive, RestoreOrder, Reset
  <1>4. CASE UNCHANGED <<scan, reset>>
    BY <1>2, <1>3, <1>4, AdminLeaves
  <1>5. CASE Reset(o)
    <2>0. \A i \in o : scan[i] # NoScan => scan[i] \in ScanIds
      BY <1>0 DEF Files
    <2>1. scan' \in Files
      BY <1>5 DEF Reset, Files
    <2>3. reset' \subseteq ScanIds
      BY <1>5, <2>0 DEF Reset
    <2>2. ASSUME NEW i \in Items, undo'[i].pc = "undoing" PROVE scan'[i] # NoScan
      <3>1. undo[i].pc = "undoing" /\ i \notin o
        BY <2>2, AdminLeaves DEF Locked
      <3> QED
        BY <1>5, <3>1 DEF Reset
    <2> QED
      BY <1>2, <1>3, <2>1, <2>2, <2>3, AdminLeaves
  <1> QED
    BY <1>4, <1>5, AdminLeaves

LEMMA ApiTypingStep == Typing /\ [Next]_vars => ApiTyping'
  <1> SUFFICES ASSUME Typing, [Next]_vars PROVE ApiTyping'
    OBVIOUS
  <1> USE DEF Typing, ApiTyping
  <1>1. ASSUME NEW i \in Items, Scan(i)
        PROVE  ApiTyping'
    <2>1. scans + 1 \in ScanIds /\ scans + 1 \in 0..MaxScans /\ scans + 1 # NoScan
      BY <1>1, ScanAssumption DEF Scan, ScanIds, NoScan
    <2>2. scan' \in Files
      BY <1>1, <2>1 DEF Scan, Files
    <2>3. item' \in [Items -> Statuses]
      BY <1>1 DEF Scan, Statuses
    <2> QED
      BY <1>1, <2>1, <2>2, <2>3 DEF Scan, Files
  <1>2. ASSUME NEW i \in Items, BeginUndo(i)
        PROVE  ApiTyping'
    <2>1. undo' \in [Items -> Undo]
      BY <1>2, LatestIsLast DEF BeginUndo, Undo
    <2>2. \A j \in Items : j # i => undo'[j] = undo[j]
      BY <1>2 DEF BeginUndo
    <2> QED
      BY <1>2, <2>1, <2>2 DEF BeginUndo, statusVars
  <1>3. ASSUME NEW i \in Items, NEW release \in BOOLEAN, CommitUndo(i, release)
        PROVE  ApiTyping'
    <2>1. NoUndo \in Undo /\ NoUndo.pc = "none"
      BY DEF Undo, NoUndo, Statuses
    <2>2. undo' \in [Items -> Undo] /\ undo'[i].pc # "undoing"
      BY <1>3, <2>1 DEF CommitUndo
    <2>3. undo[i].alert \in Deliveries \cup {NoDelivery} /\ undo[i].was \in Statuses
      BY DEF Undo
    <2>4. alerts' \subseteq Deliveries /\ owed' \subseteq Items \X Statuses
      BY <1>3, <2>3 DEF CommitUndo
    <2>5. scan' \in Files /\ item' \in [Items -> Statuses]
      BY <1>3 DEF CommitUndo, Files, Statuses
    <2>6. \A j \in Items : undo'[j].pc = "undoing" => scan'[j] # NoScan
      BY <1>3, <2>2 DEF CommitUndo, Files
    <2> QED
      BY <1>3, <2>2, <2>4, <2>5, <2>6 DEF CommitUndo
  <1>4. ASSUME NEW i \in Items, NEW was \in Statuses, FinishRelease(i, was)
        PROVE  ApiTyping'
    <2>1. order' \in [Orders -> Statuses] /\ item' \in [Items -> Statuses]
      BY <1>4, OrderOfItem DEF FinishRelease, Restored, Statuses
    <2> QED
      BY <1>4, <2>1 DEF FinishRelease
  <1>5. CASE Number
    BY <1>5 DEF Number, statusVars
  <1>6. CASE UNCHANGED apiVars
    BY <1>6 DEF apiVars, statusVars
  <1>7. Progress => UNCHANGED apiVars
    BY DEF Progress, ClaimCheck, RecoverCheck, ReadCheck, CommitCheck, ClaimDelivery, RecoverDelivery,
           Invalid, Prepare, StartDelivery, Send, FinishDelivery
  <1>8. FailCheck \/ FailPreSend \/ FailSend \/ Die => UNCHANGED apiVars
    BY DEF FailCheck, FailPreSend, FailSend, Die
  <1>9. \A d \in Deliveries : Resend(d) => UNCHANGED apiVars
    BY DEF Resend
  <1>10. ASSUME NEW i \in Items, Reopen(i) \/ DropRelease(i)
         PROVE  ApiTyping'
    <2>1. order[OrderOf(i)] \in Statuses /\ "open" \in Statuses /\ undo[i].was \in Statuses
      BY OrderOfItem DEF Statuses, Undo
    <2>2. order' \in [Orders -> Statuses]
      BY <1>10, <2>1 DEF Reopen, DropRelease, Restored
    <2>3. /\ undo' \in [Items -> Undo] /\ undo'[i].pc # "undoing"
          /\ \A j \in Items : j # i => undo'[j] = undo[j]
      BY <1>10, <2>1 DEF Reopen, DropRelease, Undo, NoUndo
    <2> QED
      BY <1>10, <2>2, <2>3 DEF Reopen, DropRelease
  <1>11. ASSUME NEW o \in Orders, Admin(o)
         PROVE  ApiTyping'
    BY <1>11, AdminTyping
  <1> QED
    BY <1>1, <1>2, <1>3, <1>4, <1>5, <1>6, <1>7, <1>8, <1>9, <1>10, <1>11 DEF Next, Api, vars

LEMMA ReportIsTyped ==
    ASSUME Typing
    PROVE  /\ Report \in Reports
           /\ \A i \in Items : Report[i] \in ScanIds => Report[i] = scan[i]
  BY Values DEF Report, Reports, Typing, ApiTyping, Files

LEMMA WorkerTypingStep == Typing /\ [Next]_vars => WorkerTyping'
  <1> SUFFICES ASSUME Typing, [Next]_vars PROVE WorkerTyping'
    OBVIOUS
  <1> USE DEF WorkerTyping
  <1>0. WorkerTyping
    BY DEF Typing
  <1>1. CASE UNCHANGED worker
    BY <1>0, <1>1
  <1>2. CASE worker' = Idle
    BY <1>2, Values
  <1>3. ASSUME NEW s \in ScanIds, ClaimCheck(s)
        PROVE  WorkerTyping'
    <2>1. "checking" \in WorkerStates /\ s \in Nat
      BY Values DEF WorkerStates
    <2>2. worker' \in Worker /\ worker'.pc = "checking" /\ worker'.row = s
      BY <1>3, <2>1, Claimed DEF ClaimCheck
    <2> QED
      BY <2>2
  <1>4. ASSUME NEW d \in Deliveries, ClaimDelivery(d)
        PROVE  WorkerTyping'
    <2>1. "delivering" \in WorkerStates /\ d \in Nat
      BY Values DEF WorkerStates
    <2>2. worker' \in Worker /\ worker'.pc = "delivering" /\ worker'.row = d
      BY <1>4, <2>1, Claimed DEF ClaimDelivery
    <2> QED
      BY <2>2
  <1>5. CASE ReadCheck
    <2>1. worker' \in Worker /\ worker'.pc = "checked" /\ worker'.row = worker.row
      BY <1>0, <1>5 DEF ReadCheck, Worker, WorkerStates
    <2> QED
      BY <1>0, <1>5, <2>1 DEF ReadCheck
  <1>6. CASE Prepare
    <2>1. Report \in Reports
      BY ReportIsTyped
    <2>2. worker' \in Worker /\ worker'.pc = "prepared" /\ worker'.row = worker.row
      BY <1>0, <1>6, <2>1 DEF Prepare, Worker, WorkerStates
    <2> QED
      BY <1>0, <1>6, <2>2 DEF Prepare
  <1>7. CASE StartDelivery
    BY <1>0, <1>7, WorkerUpdate DEF StartDelivery, WorkerStates
  <1>8. CASE Send
    BY <1>0, <1>8, WorkerUpdate DEF Send, WorkerStates
  <1>9. (\E i \in Items : Api(i)) \/ (\E o \in Orders : Admin(o)) => UNCHANGED worker
    BY ApiLeaves, AdminLeaves
  <1>10. Number => UNCHANGED worker
    BY DEF Number
  <1>11. \/ \E s \in ScanIds : RecoverCheck(s)
         \/ \E d \in Deliveries : RecoverDelivery(d) \/ Resend(d)
         => UNCHANGED worker
    BY DEF RecoverCheck, RecoverDelivery, Resend
  <1>12. CommitCheck \/ Invalid \/ FinishDelivery \/ FailCheck \/ FailPreSend \/ FailSend \/ Die
         => worker' = Idle
    BY DEF CommitCheck, Invalid, FinishDelivery, FailCheck, FailPreSend, FailSend, Die
  <1> QED
    BY <1>1, <1>2, <1>3, <1>4, <1>5, <1>6, <1>7, <1>8, <1>9, <1>10, <1>11, <1>12
       DEF Next, Progress, vars

\* The actions that leave a variable of the rows alone.
LEMMA RowFrame ==
    ASSUME [Next]_vars
    PROVE  /\ \/ UNCHANGED file \/ StartDelivery
           /\ \/ UNCHANGED sends \/ Send \/ FailSend \/ Die
           /\ \/ UNCHANGED racing \/ Prepare \/ \E i \in Items : BeginUndo(i)
           /\ \/ UNCHANGED faults \/ Fault
  <1>1. ASSUME NEW i \in Items, Api(i)
        PROVE  UNCHANGED <<file, sends, faults>> /\ (UNCHANGED racing \/ BeginUndo(i))
    BY <1>1, ApiLeaves
  <1>2. ASSUME NEW o \in Orders, Admin(o)
        PROVE  UNCHANGED <<file, sends, faults, racing>>
    BY <1>2, AdminLeaves
  <1> QED
    BY <1>1, <1>2 DEF Next, Progress, vars, apiVars, Number, ClaimCheck,
         RecoverCheck, ReadCheck, CommitCheck, FailCheck, ClaimDelivery, RecoverDelivery, Invalid, Prepare,
         StartDelivery, Send, FinishDelivery, FailPreSend, FailSend, Die, Resend

LEMMA CheckFrame ==
    ASSUME [Next]_vars, RowTyping, WorkerTyping
    PROVE  check' \in [ScanIds -> CheckStates]
  <1> USE DEF RowTyping, CheckStates
  <1>1. ASSUME NEW i \in Items, Scan(i) PROVE check' \in [ScanIds -> CheckStates]
    BY <1>1 DEF Scan
  <1>2. ASSUME NEW s \in ScanIds, ClaimCheck(s) \/ RecoverCheck(s) PROVE check' \in [ScanIds -> CheckStates]
    BY <1>2 DEF ClaimCheck, RecoverCheck
  <1>3. CASE CommitCheck
    BY <1>3 DEF CommitCheck
  <1>4. CASE FailCheck
    BY <1>4 DEF FailCheck
  <1>5. CASE UNCHANGED check
    BY <1>5
  <1>6. /\ \A i \in Items : Api(i) => UNCHANGED check \/ Scan(i)
        /\ \A o \in Orders : Admin(o) => UNCHANGED check
    BY ApiLeaves, AdminLeaves
  <1>7. Progress => UNCHANGED check \/ CommitCheck \/ \E s \in ScanIds : ClaimCheck(s) \/ RecoverCheck(s)
    BY DEF Progress, ReadCheck, ClaimDelivery, RecoverDelivery, Invalid, Prepare, StartDelivery, Send,
           FinishDelivery
  <1>8. Number \/ FailPreSend \/ FailSend \/ Die \/ (\E d \in Deliveries : Resend(d)) => UNCHANGED check
    BY DEF Number, FailPreSend, FailSend, Die, Resend
  <1> QED
    BY <1>1, <1>2, <1>3, <1>4, <1>5, <1>6, <1>7, <1>8 DEF Next, vars

\* What a step does to the rows of the deliveries.
LEMMA OtherRows ==
    ASSUME [Next]_vars, RowTyping, WorkerTyping, ~StartDelivery, ~FinishDelivery
    PROVE  \/ UNCHANGED delivery
           \/ \E d \in Deliveries, st \in RowStates : st # "completed" /\ SetRow(d, st)
           \/ \E d \in Deliveries : ClaimDelivery(d)
  <1>1. 1 \in Deliveries
    BY DeliveryAssumption DEF Deliveries
  <1>2. CommitCheck => UNCHANGED delivery \/ SetRow(1, "pending")
    BY DEF CommitCheck
  <1>3. Invalid \/ FailSend => worker.row \in Deliveries /\ SetRow(worker.row, "blocked")
    BY DEF Invalid, FailSend, WorkerTyping
  <1>4. FailPreSend => /\ worker.row \in Deliveries
                       /\ SetRow(worker.row, "blocked") \/ SetRow(worker.row, "failed")
    BY DEF FailPreSend, WorkerTyping
  <1>5. \A d \in Deliveries : RecoverDelivery(d) => SetRow(d, "blocked") \/ SetRow(d, "pending")
    BY DEF RecoverDelivery
  <1>6. \A d \in Deliveries : Resend(d) => SetRow(d, "pending")
    BY DEF Resend
  <1>7. {"blocked", "pending", "failed"} \subseteq RowStates
    BY DEF RowStates
  <1>8. (\E i \in Items : Api(i)) \/ (\E o \in Orders : Admin(o)) => UNCHANGED delivery
    BY ApiLeaves, AdminLeaves
  <1>9. Number \/ FailCheck \/ Die => UNCHANGED delivery
    BY DEF Number, FailCheck, Die
  <1>10. ReadCheck \/ Prepare \/ Send \/ (\E s \in ScanIds : ClaimCheck(s) \/ RecoverCheck(s)) => UNCHANGED delivery
    BY DEF ReadCheck, Prepare, Send, ClaimCheck, RecoverCheck
  <1> QED
    BY <1>1, <1>2, <1>3, <1>4, <1>5, <1>6, <1>7, <1>8, <1>9, <1>10 DEF Next, Progress, vars

LEMMA DeliveryFrame ==
    ASSUME [Next]_vars, RowTyping, WorkerTyping
    PROVE  \/ UNCHANGED delivery
           \/ \E d \in Deliveries, st \in RowStates : SetRow(d, st)
           \/ \E d \in Deliveries : ClaimDelivery(d)
           \/ StartDelivery
  <1>1. FinishDelivery => \E d \in Deliveries, st \in RowStates : SetRow(d, st)
    BY DEF FinishDelivery, WorkerTyping, RowStates
  <1> QED
    BY <1>1, OtherRows

LEMMA Incremented ==
    ASSUME NEW S, NEW g \in [S -> Nat], NEW r \in S
    PROVE  [g EXCEPT ![r] = g[r] + 1] \in [S -> Nat]
  OBVIOUS

LEMMA RowTypingStep == Typing /\ [Next]_vars => RowTyping'
  <1> SUFFICES ASSUME Typing, [Next]_vars PROVE RowTyping'
    OBVIOUS
  <1>0. ApiTyping /\ WorkerTyping /\ RowTyping
    BY DEF Typing
  <1>1. check' \in [ScanIds -> CheckStates]
    BY <1>0, CheckFrame
  <1>2. delivery' \in [Deliveries -> Row]
    <2>1. ASSUME NEW d \in Deliveries, ClaimDelivery(d)
          PROVE  delivery' \in [Deliveries -> Row]
      BY <1>0, <2>1 DEF ClaimDelivery, RowTyping, Row, RowStates
    <2>2. ASSUME StartDelivery PROVE delivery' \in [Deliveries -> Row]
      BY <1>0, <2>2 DEF StartDelivery, RowTyping, Row
    <2> QED
      BY <1>0, <2>1, <2>2, DeliveryFrame, SetRowEffect DEF RowTyping
  <1>3. file' \in [Deliveries -> Reports]
    BY <1>0, RowFrame DEF RowTyping, WorkerTyping, Worker, StartDelivery
  <1>4. sends' \in [Deliveries -> Nat]
    <2>1. ASSUME worker.row \in Deliveries, Post(worker.row) PROVE sends' \in [Deliveries -> Nat]
      BY <1>0, <2>1, Incremented DEF Post, RowTyping
    <2>2. UNCHANGED sends \/ (worker.row \in Deliveries /\ Post(worker.row))
      BY <1>0, RowFrame DEF Send, FailSend, Die, WorkerTyping
    <2> QED
      BY <1>0, <2>1, <2>2 DEF RowTyping
  <1>5. racing' \subseteq ScanIds
    <2>1. \A i \in Items : scan[i] # NoScan => scan[i] \in ScanIds
      BY <1>0 DEF ApiTyping, Files
    <2>2. ASSUME NEW i \in Items, BeginUndo(i) PROVE racing' \subseteq ScanIds
      BY <1>0, <2>1, <2>2 DEF BeginUndo, RowTyping
    <2>3. ASSUME Prepare PROVE racing' \subseteq ScanIds
      BY <1>0, <2>1, <2>3 DEF Prepare, RowTyping, ApiTyping
    <2> QED
      BY <1>0, <2>2, <2>3, RowFrame DEF RowTyping
  <1>6. faults' \in 0..MaxFaults
    BY <1>0, RowFrame, FaultAssumption DEF RowTyping, Fault
  <1> QED
    BY <1>1, <1>2, <1>3, <1>4, <1>5, <1>6 DEF RowTyping

LEMMA TypingStep == Typing /\ [Next]_vars => Typing'
  BY ApiTypingStep, WorkerTypingStep, RowTypingStep DEF Typing

THEOREM TypeCorrect == Spec => []TypeOK
  <1>1. Spec => []Typing
    BY TypingInit, TypingStep, PTL DEF Spec
  <1> QED
    BY <1>1, TypingGivesTypeOK, PTL

(***************************************************************************)
(* A file is sent once: the mark of the start is set before the call, is   *)
(* never taken back, and no marked row comes as far as the call again.     *)
(***************************************************************************)
LEMMA StartedFrame ==
    ASSUME [Next]_vars, Typing
    PROVE  StartDelivery \/ \A d \in Deliveries : delivery'[d].started = delivery[d].started
  <1>1. RowTyping /\ WorkerTyping
    BY DEF Typing
  <1>2. ASSUME NEW d \in Deliveries, ClaimDelivery(d)
        PROVE  \A e \in Deliveries : delivery'[e].started = delivery[e].started
    BY <1>1, <1>2 DEF ClaimDelivery, RowTyping, Row
  <1> QED
    BY <1>1, <1>2, DeliveryFrame, SetRowEffect DEF RowTyping

LEMMA WorkerFrame ==
    ASSUME [Next]_vars, Typing
    PROVE  \/ UNCHANGED worker
           \/ worker'.pc \in {"idle", "checking", "checked", "delivering"}
           \/ Prepare \/ StartDelivery \/ Send
  <1>1. WorkerTyping
    BY DEF Typing
  <1>2. worker' = Idle => worker'.pc = "idle"
    BY Values
  <1>3. ASSUME NEW s \in ScanIds, ClaimCheck(s) PROVE worker'.pc = "checking"
    <2>1. "checking" \in WorkerStates /\ s \in Nat
      BY Values DEF WorkerStates
    <2> QED
      BY <1>3, <2>1, Claimed DEF ClaimCheck
  <1>4. ASSUME NEW d \in Deliveries, ClaimDelivery(d) PROVE worker'.pc = "delivering"
    <2>1. "delivering" \in WorkerStates /\ d \in Nat
      BY Values DEF WorkerStates
    <2> QED
      BY <1>4, <2>1, Claimed DEF ClaimDelivery
  <1>5. ReadCheck => worker'.pc = "checked"
    BY <1>1 DEF ReadCheck, WorkerTyping, Worker
  <1>6. CommitCheck \/ Invalid \/ FinishDelivery \/ FailCheck \/ FailPreSend \/ FailSend \/ Die
        => worker' = Idle
    BY DEF CommitCheck, Invalid, FinishDelivery, FailCheck, FailPreSend, FailSend, Die
  <1>7. (\E i \in Items : Api(i)) \/ (\E o \in Orders : Admin(o)) => UNCHANGED worker
    BY ApiLeaves, AdminLeaves
  <1>8. Number \/ (\E s \in ScanIds : RecoverCheck(s)) \/ (\E d \in Deliveries : RecoverDelivery(d) \/ Resend(d))
        => UNCHANGED worker
    BY DEF Number, RecoverCheck, RecoverDelivery, Resend
  <1> QED
    BY <1>2, <1>3, <1>4, <1>5, <1>6, <1>7, <1>8 DEF Next, Progress, vars

Marks ==
    /\ \A d \in Deliveries : sends[d] <= 1
    /\ \A d \in Deliveries : ~delivery[d].started => sends[d] = 0
    /\ worker.pc = "prepared" => ~delivery[worker.row].started
    /\ worker.pc = "sending" => delivery[worker.row].started /\ sends[worker.row] = 0

LEMMA MarksStep == Typing /\ Marks /\ [Next]_vars => Marks'
  <1> SUFFICES ASSUME Typing, Marks, [Next]_vars PROVE Marks'
    OBVIOUS
  <1>0. RowTyping /\ WorkerTyping /\ WorkerTyping'
    BY TypingStep DEF Typing
  <1>1. CASE Prepare
    <2>1. worker'.pc = "prepared" /\ worker'.row = worker.row /\ UNCHANGED <<delivery, sends>>
      BY <1>0, <1>1 DEF Prepare, WorkerTyping, Worker
    <2> QED
      BY <1>1, <2>1 DEF Prepare, Marks
  <1>2. CASE StartDelivery
    <2>1. worker'.pc = "sending" /\ worker'.row = worker.row /\ worker.row \in Deliveries /\ UNCHANGED sends
      BY <1>0, <1>2 DEF StartDelivery, WorkerTyping, Worker
    <2>2. /\ delivery'[worker.row].started
          /\ \A d \in Deliveries : d # worker.row => delivery'[d] = delivery[d]
      BY <1>0, <1>2, <2>1 DEF StartDelivery, RowTyping, Row
    <2> QED
      BY <1>2, <2>1, <2>2 DEF StartDelivery, Marks
  <1>3. CASE Send
    <2>1. worker'.pc = "sent" /\ worker.row \in Deliveries /\ UNCHANGED delivery
      BY <1>0, <1>3 DEF Send, WorkerTyping, Worker
    <2>2. /\ sends'[worker.row] = 1
          /\ \A d \in Deliveries : d # worker.row => sends'[d] = sends[d]
      BY <1>0, <1>3, <2>1 DEF Send, Post, RowTyping, Marks
    <2> QED
      BY <1>3, <2>1, <2>2 DEF Send, Marks
  <1>4. CASE FailSend \/ Die
    <2>1. worker'.pc = "idle"
      BY <1>4, Values DEF FailSend, Die
    <2>2. \A d \in Deliveries : delivery'[d].started = delivery[d].started
      BY <1>4, StartedFrame DEF FailSend, Die, StartDelivery
    <2>3. \/ UNCHANGED sends
          \/ worker.pc = "sending" /\ Post(worker.row)
      BY <1>4 DEF FailSend, Die
    <2>4. ASSUME worker.pc = "sending", Post(worker.row)
          PROVE  /\ worker.row \in Deliveries /\ sends'[worker.row] = 1
                 /\ \A d \in Deliveries : d # worker.row => sends'[d] = sends[d]
      BY <1>0, <2>4 DEF Post, RowTyping, WorkerTyping, Marks
    <2> QED
      BY <2>1, <2>2, <2>3, <2>4 DEF Marks
  <1>5. CASE ~(Prepare \/ StartDelivery \/ Send \/ FailSend \/ Die)
    <2>1. UNCHANGED sends
      BY <1>5, RowFrame
    <2>2. \A d \in Deliveries : delivery'[d].started = delivery[d].started
      BY <1>5, StartedFrame
    <2>3. UNCHANGED worker \/ worker'.pc \notin {"prepared", "sending"}
      BY <1>5, WorkerFrame
    <2> QED
      BY <1>0, <2>1, <2>2, <2>3 DEF Marks, WorkerTyping
  <1> QED
    BY <1>1, <1>2, <1>3, <1>4, <1>5

LEMMA MarksInit == Init => Marks
  BY Values DEF Init, Marks, NoRow

\* No file is sent twice for one delivery.
THEOREM FileSentOnce == Spec => []SentOnce
  <1>1. Marks => SentOnce
    BY DEF Marks, SentOnce
  <1> QED
    BY <1>1, TypingInit, TypingStep, MarksInit, MarksStep, PTL DEF Spec

(***************************************************************************)
(* What was sent is complete.                                              *)
(***************************************************************************)
LEMMA ReleasedGrows ==
    ASSUME [Next]_vars
    PROVE  released \subseteq released'
  <1>1. (\E i \in Items : Api(i)) \/ (\E o \in Orders : Admin(o)) => released \subseteq released'
    BY ApiLeaves, AdminLeaves
  <1> QED
    BY <1>1 DEF Next, Progress, vars, apiVars, Number, ClaimCheck,
         RecoverCheck, ReadCheck, CommitCheck, FailCheck, ClaimDelivery, RecoverDelivery, Invalid, Prepare,
         StartDelivery, Send, FinishDelivery, FailPreSend, FailSend, Die, Resend

Whole(f) == \A i \in Items : f[i] = NoScan => i \in released

Carried ==
    /\ worker.pc \in {"prepared", "sending", "sent"} => Whole(worker.file)
    /\ worker.pc \in {"sending", "sent"} => file[worker.row] = worker.file

LEMMA CarriedStep == Typing /\ Carried /\ [Next]_vars => Carried'
  <1> SUFFICES ASSUME Typing, Carried, [Next]_vars PROVE Carried'
    OBVIOUS
  <1>0. RowTyping /\ WorkerTyping
    BY DEF Typing
  <1>1. \A f : Whole(f) => Whole(f)'
    BY ReleasedGrows DEF Whole
  <1>2. CASE Prepare
    <2>1. worker'.pc = "prepared" /\ worker'.file = Report
      BY <1>0, <1>2 DEF Prepare, WorkerTyping, Worker
    <2>2. Whole(Report)
      <3>1. Waived # NoScan
        BY ScanAssumption DEF Waived, NoScan
      <3> QED
        BY <1>2, <3>1 DEF Prepare, Ready, Report, Whole
    <2> QED
      BY <1>1, <2>1, <2>2 DEF Carried, Whole
  <1>3. CASE StartDelivery
    <2>1. worker'.pc = "sending" /\ worker'.row = worker.row /\ worker.row \in Deliveries
          /\ worker'.file = worker.file
      BY <1>0, <1>3 DEF StartDelivery, WorkerTyping, Worker
    <2>2. file'[worker.row] = worker.file
      BY <1>0, <1>3, <2>1 DEF StartDelivery, RowTyping
    <2> QED
      BY <1>1, <1>3, <2>1, <2>2 DEF StartDelivery, Carried, Whole
  <1>4. CASE Send
    <2>1. worker'.pc = "sent" /\ worker'.row = worker.row /\ worker'.file = worker.file /\ UNCHANGED file
      BY <1>0, <1>4 DEF Send, WorkerTyping, Worker
    <2> QED
      BY <1>1, <1>4, <2>1 DEF Send, Carried, Whole
  <1>5. CASE ~(Prepare \/ StartDelivery \/ Send)
    <2>1. UNCHANGED file
      BY <1>5, RowFrame
    <2>2. UNCHANGED worker \/ worker'.pc \notin {"prepared", "sending", "sent"}
      BY <1>5, WorkerFrame
    <2> QED
      BY <1>1, <2>1, <2>2 DEF Carried, Whole
  <1> QED
    BY <1>2, <1>3, <1>4, <1>5

LEMMA CompleteStep ==
    Typing /\ Marks /\ Carried /\ SentIsComplete /\ [Next]_vars => SentIsComplete'
  <1> SUFFICES ASSUME Typing, Marks, Carried, SentIsComplete, [Next]_vars,
                      NEW d \in Deliveries, sends'[d] > 0
               PROVE  \A i \in Items : file'[d][i] = NoScan => i \in released'
    BY DEF SentIsComplete
  <1>0. RowTyping /\ WorkerTyping
    BY DEF Typing
  <1>1. CASE StartDelivery
    <2>1. sends[d] > 0 /\ worker.row \in Deliveries /\ sends[worker.row] = 0
      BY <1>0, <1>1 DEF StartDelivery, Marks, WorkerTyping
    <2>2. file'[d] = file[d]
      BY <1>0, <1>1, <2>1 DEF StartDelivery, RowTyping
    <2> QED
      BY <2>1, <2>2, ReleasedGrows DEF SentIsComplete
  <1>2. CASE ~StartDelivery /\ sends[d] > 0
    BY <1>2, RowFrame, ReleasedGrows DEF SentIsComplete
  <1>3. CASE ~StartDelivery /\ ~(sends[d] > 0)
    <2>1. worker.pc = "sending" /\ Post(worker.row)
      BY <1>3, RowFrame DEF Send, FailSend, Die
    <2>2. d = worker.row
      BY <1>0, <1>3, <2>1 DEF Post, RowTyping
    <2> QED
      BY <1>3, <2>1, <2>2, RowFrame, ReleasedGrows DEF Carried, Whole
  <1> QED
    BY <1>1, <1>2, <1>3

\* A position that needed a code is missing in a sent file only if its block
\* was released.
THEOREM SentFileIsComplete == Spec => []SentIsComplete
  <1>1. Init => Carried /\ SentIsComplete
    BY Values DEF Init, Carried, SentIsComplete
  <1> QED
    BY <1>1, TypingInit, TypingStep, MarksInit, MarksStep, CarriedStep, CompleteStep, PTL DEF Spec

(***************************************************************************)
(* An undo of a code that was delivered is alerted.  The undo picks the    *)
(* last completed delivery before it commits, so the argument has to say   *)
(* what is known of a code between the two, and of a file between its      *)
(* building and the record that it was sent.                               *)
(***************************************************************************)

\* The row the worker serves is its own to complete.
RowHeld ==
    worker.pc \in {"delivering", "prepared", "sending", "sent"} =>
        delivery[worker.row].status = "processing"

\* A code of the file being built or sent is still there, and not being
\* undone, unless its scan is one of the excepted ones.
FileIsCurrent ==
    worker.pc \in {"prepared", "sending", "sent"} =>
        \A i \in Items :
            /\ worker.file[i] \in ScanIds
            /\ scan[i] # worker.file[i] \/ undo[i].pc = "undoing"
            => worker.file[i] \in racing \cup reset

\* The alert an undo is going to raise is about every completed delivery of
\* its code.
UndoWillAlert ==
    \A i \in Items, d \in Deliveries :
        /\ undo[i].pc = "undoing"
        /\ delivery[d].status = "completed"
        /\ file[d][i] = scan[i]
        => undo[i].alert >= d \/ scan[i] \in racing \cup reset

LEMMA RowHeldStep == Typing /\ RowHeld /\ [Next]_vars => RowHeld'
  <1> SUFFICES ASSUME Typing, RowHeld, [Next]_vars PROVE RowHeld'
    OBVIOUS
  <1>0. RowTyping /\ WorkerTyping
    BY DEF Typing
  <1>1. ASSUME NEW d \in Deliveries, ClaimDelivery(d) PROVE RowHeld'
    <2>1. "delivering" \in WorkerStates /\ d \in Nat
      BY Values DEF WorkerStates
    <2>2. worker'.row = d
      BY <1>1, <2>1, Claimed DEF ClaimDelivery
    <2>3. delivery'[d].status = "processing"
      BY <1>0, <1>1 DEF ClaimDelivery, RowTyping, Row
    <2> QED
      BY <2>2, <2>3 DEF RowHeld
  <1>2. ASSUME NEW d \in Deliveries, RecoverDelivery(d) PROVE RowHeld'
    BY <1>2 DEF RecoverDelivery, RowHeld
  <1>3. ASSUME NEW d \in Deliveries, Resend(d) PROVE RowHeld'
    <2>1. delivery[d].status = "none"
      BY <1>3 DEF Resend, NoRow
    <2>2. \A e \in Deliveries : e # d => delivery'[e] = delivery[e]
      BY <1>0, <1>3 DEF Resend, SetRow, RowTyping
    <2> QED
      BY <1>0, <1>3, <2>1, <2>2 DEF Resend, RowHeld, WorkerTyping
  <1>4. CASE Prepare \/ Send
    <2>1. UNCHANGED delivery /\ worker'.row = worker.row /\ worker.pc \in {"delivering", "sending"}
      BY <1>0, <1>4 DEF Prepare, Send, WorkerTyping, Worker
    <2> QED
      BY <2>1 DEF RowHeld
  <1>5. CASE StartDelivery
    <2>1. worker'.row = worker.row /\ worker.row \in Deliveries /\ worker.pc = "prepared"
      BY <1>0, <1>5 DEF StartDelivery, WorkerTyping, Worker
    <2>2. delivery'[worker.row].status = delivery[worker.row].status
      BY <1>0, <1>5, <2>1 DEF StartDelivery, RowTyping, Row
    <2> QED
      BY <2>1, <2>2 DEF RowHeld
  <1>6. CASE worker' = Idle
    BY <1>6, Values DEF RowHeld
  <1>7. CASE UNCHANGED <<delivery, worker>>
    BY <1>7 DEF RowHeld
  <1>8. CASE ReadCheck
    <2>1. worker'.pc = "checked"
      BY <1>0, <1>8 DEF ReadCheck, WorkerTyping, Worker
    <2> QED
      BY <2>1 DEF RowHeld
  <1>12. ASSUME NEW s \in ScanIds, ClaimCheck(s) PROVE RowHeld'
    <2>1. "checking" \in WorkerStates /\ s \in Nat
      BY Values DEF WorkerStates
    <2>2. worker'.pc = "checking"
      BY <1>12, <2>1, Claimed DEF ClaimCheck
    <2> QED
      BY <2>2 DEF RowHeld
  <1>9. (\E i \in Items : Api(i)) \/ (\E o \in Orders : Admin(o)) => UNCHANGED <<delivery, worker>>
    BY ApiLeaves, AdminLeaves
  <1>10. Number \/ (\E s \in ScanIds : RecoverCheck(s)) => UNCHANGED <<delivery, worker>>
    BY DEF Number, RecoverCheck
  <1>11. CommitCheck \/ Invalid \/ FinishDelivery \/ FailCheck \/ FailPreSend \/ FailSend \/ Die
         => worker' = Idle
    BY DEF CommitCheck, Invalid, FinishDelivery, FailCheck, FailPreSend, FailSend, Die
  <1> QED
    BY <1>1, <1>2, <1>3, <1>4, <1>5, <1>6, <1>7, <1>8, <1>9, <1>10, <1>11, <1>12
    DEF Next, Progress, vars

\* What the steps of the worker leave alone, and what only grows.
LEMMA ApiFrame ==
    ASSUME [Next]_vars
    PROVE  /\ \/ UNCHANGED <<scan, undo, alerts>>
              \/ \E i \in Items : Api(i)
              \/ \E o \in Orders : Admin(o)
           /\ alerts \subseteq alerts'
           /\ racing \subseteq racing' /\ reset \subseteq reset'
  <1>1. (\E i \in Items : Api(i)) \/ (\E o \in Orders : Admin(o))
        => alerts \subseteq alerts' /\ racing \subseteq racing' /\ reset \subseteq reset'
    BY ApiLeaves, AdminLeaves
  <1> QED
    BY <1>1 DEF Next, Progress, vars, apiVars, Number, ClaimCheck,
         RecoverCheck, ReadCheck, CommitCheck, FailCheck, ClaimDelivery, RecoverDelivery, Invalid, Prepare,
         StartDelivery, Send, FinishDelivery, FailPreSend, FailSend, Die, Resend

\* A step of the API at one position, seen from a code that was there before.
LEMMA ApiEffect ==
    ASSUME [Next]_vars, Typing, NEW i \in Items
    PROVE  \/ scan'[i] = scan[i] /\ undo'[i] = undo[i]
           \/ scan'[i] = scan[i] /\ undo'[i].pc # "undoing"
           \/ scan[i] = NoScan /\ undo'[i] = undo[i] /\ undo[i].pc # "undoing"
           \/ /\ BeginUndo(i) /\ scan'[i] = scan[i]
              /\ undo'[i].pc = "undoing" /\ undo'[i].alert = LatestCompleted
           \/ /\ \E release \in BOOLEAN : CommitUndo(i, release)
              /\ scan'[i] = NoScan /\ undo'[i].pc # "undoing"
           \/ /\ scan[i] \in reset' \cup {NoScan} /\ scan'[i] = NoScan
              /\ undo'[i] = undo[i] /\ undo[i].pc # "undoing"
  <1>0. scan \in Files /\ undo \in [Items -> Undo]
    BY DEF Typing, ApiTyping
  <1>1. ASSUME NEW j \in Items, Scan(j)
        PROVE  \/ scan'[i] = scan[i] /\ undo'[i] = undo[i]
               \/ scan[i] = NoScan /\ undo'[i] = undo[i] /\ undo[i].pc # "undoing"
    BY <1>0, <1>1, OrderOfItem DEF Scan, Files, Locked
  <1>2. ASSUME NEW j \in Items, Reopen(j) \/ DropRelease(j)
        PROVE  scan'[i] = scan[i] /\ (undo'[i] = undo[i] \/ undo'[i].pc # "undoing")
    BY <1>0, <1>2 DEF Reopen, DropRelease, NoUndo, Undo
  <1>3. ASSUME NEW j \in Items, BeginUndo(j) PROVE (scan'[i] = scan[i] /\ undo'[i] = undo[i]) \/ i = j
    BY <1>0, <1>3 DEF BeginUndo
  <1>4. BeginUndo(i) => /\ scan'[i] = scan[i]
                        /\ undo'[i].pc = "undoing" /\ undo'[i].alert = LatestCompleted
    BY <1>0 DEF BeginUndo, Undo
  <1>5. ASSUME NEW j \in Items, NEW release \in BOOLEAN, CommitUndo(j, release)
        PROVE  (scan'[i] = scan[i] /\ undo'[i] = undo[i]) \/ i = j
    BY <1>0, <1>5 DEF CommitUndo, Files
  <1>6. ASSUME NEW release \in BOOLEAN, CommitUndo(i, release)
        PROVE  scan'[i] = NoScan /\ undo'[i].pc # "undoing"
    BY <1>0, <1>6 DEF CommitUndo, Files, NoUndo
  <1>7. ASSUME NEW j \in Items, NEW was \in Statuses, FinishRelease(j, was)
        PROVE  scan'[i] = scan[i] /\ undo'[i] = undo[i]
    BY <1>7 DEF FinishRelease
  <1>8. ASSUME NEW o \in Orders, Admin(o)
        PROVE  \/ scan'[i] = scan[i] /\ undo'[i] = undo[i]
               \/ /\ scan[i] \in reset' \cup {NoScan} /\ scan'[i] = NoScan
                  /\ undo'[i] = undo[i] /\ undo[i].pc # "undoing"
    BY <1>0, <1>8, AdminLeaves DEF Reset, Locked, Files
  <1> QED
    BY <1>1, <1>2, <1>3, <1>4, <1>5, <1>6, <1>7, <1>8, ApiFrame DEF Api

LEMMA FileIsCurrentStep == Typing /\ FileIsCurrent /\ [Next]_vars => FileIsCurrent'
  <1> SUFFICES ASSUME Typing, FileIsCurrent, [Next]_vars PROVE FileIsCurrent'
    OBVIOUS
  <1>0. RowTyping /\ WorkerTyping /\ ApiTyping
    BY DEF Typing
  <1>1. CASE Prepare
    <2>1. worker'.file = Report /\ UNCHANGED <<scan, undo>>
      BY <1>0, <1>1 DEF Prepare, apiVars, WorkerTyping, Worker
    <2> QED
      BY <1>1, <2>1, ReportIsTyped DEF Prepare, FileIsCurrent
  <1>2. CASE StartDelivery \/ Send
    <2>1. /\ worker.pc \in {"prepared", "sending"} /\ worker'.file = worker.file
          /\ UNCHANGED <<scan, undo, racing, reset>>
      BY <1>0, <1>2 DEF StartDelivery, Send, apiVars, WorkerTyping, Worker
    <2> QED
      BY <2>1 DEF FileIsCurrent
  <1>3. CASE UNCHANGED worker
    <2> SUFFICES ASSUME worker.pc \in {"prepared", "sending", "sent"}, NEW i \in Items,
                        worker.file[i] \in ScanIds,
                        scan'[i] # worker.file[i] \/ undo'[i].pc = "undoing"
                 PROVE  worker.file[i] \in racing' \cup reset'
      BY <1>3 DEF FileIsCurrent
    <2>1. CASE scan[i] # worker.file[i] \/ undo[i].pc = "undoing"
      BY <2>1, ApiFrame DEF FileIsCurrent
    <2>2. CASE scan[i] = worker.file[i] /\ undo[i].pc # "undoing"
      <3>1. scan[i] # NoScan
        BY <2>2, Values
      <3>2. \/ BeginUndo(i)
            \/ scan[i] \in reset'
        BY <2>2, <3>1, ApiEffect DEF CommitUndo
      <3> QED
        BY <2>2, <3>2 DEF BeginUndo
    <2> QED
      BY <2>1, <2>2
  <1>4. CASE worker'.pc \notin {"prepared", "sending", "sent"}
    BY <1>4 DEF FileIsCurrent
  <1> QED
    BY <1>1, <1>2, <1>3, <1>4, WorkerFrame

\* A delivery that counts as completed after a step did so before, with the
\* same file, or is the one whose sending the worker has just recorded.
LEMMA Completions ==
    ASSUME [Next]_vars, Typing, RowHeld, Carried,
           NEW d \in Deliveries, delivery'[d].status = "completed"
    PROVE  /\ file'[d] = file[d]
           /\ \/ delivery[d].status = "completed"
              \/ FinishDelivery /\ d = worker.row /\ worker.pc = "sent" /\ file[d] = worker.file
  <1>0. RowTyping /\ WorkerTyping
    BY DEF Typing
  <1>1. CASE StartDelivery
    <2>1. worker.row \in Deliveries /\ delivery'[worker.row].status = "processing"
      BY <1>0, <1>1 DEF StartDelivery, RowTyping, WorkerTyping, Row, RowHeld
    <2> QED
      BY <1>0, <1>1, <2>1 DEF StartDelivery, RowTyping
  <1>2. CASE FinishDelivery
    <2>1. worker.row \in Deliveries /\ UNCHANGED file /\ worker.pc = "sent"
      BY <1>0, <1>2 DEF FinishDelivery, WorkerTyping
    <2>2. \A e \in Deliveries : e # worker.row => delivery'[e] = delivery[e]
      BY <1>0, <1>2, <2>1 DEF FinishDelivery, SetRow, RowTyping
    <2> QED
      BY <1>2, <2>1, <2>2 DEF Carried
  <1>3. CASE ~StartDelivery /\ ~FinishDelivery
    <2>1. UNCHANGED file
      BY <1>3, RowFrame
    <2>2. ASSUME NEW e \in Deliveries, NEW st \in RowStates, st # "completed", SetRow(e, st)
          PROVE  delivery[d].status = "completed"
      BY <1>0, <2>2 DEF SetRow, RowTyping, Row
    <2>3. ASSUME NEW e \in Deliveries, ClaimDelivery(e)
          PROVE  delivery[d].status = "completed"
      BY <1>0, <2>3 DEF ClaimDelivery, RowTyping, Row
    <2>4. \/ UNCHANGED delivery
          \/ \E e \in Deliveries, st \in RowStates : st # "completed" /\ SetRow(e, st)
          \/ \E e \in Deliveries : ClaimDelivery(e)
      BY <1>0, <1>3, OtherRows
    <2> QED
      BY <2>1, <2>2, <2>3, <2>4
  <1> QED
    BY <1>1, <1>2, <1>3

LEMMA UndoWillAlertStep ==
    Typing /\ RowHeld /\ Carried /\ FileIsCurrent /\ UndoWillAlert /\ [Next]_vars => UndoWillAlert'
  <1> SUFFICES ASSUME Typing, RowHeld, Carried, FileIsCurrent, UndoWillAlert, [Next]_vars,
                      NEW i \in Items, NEW d \in Deliveries,
                      undo'[i].pc = "undoing", delivery'[d].status = "completed",
                      file'[d][i] = scan'[i]
               PROVE  undo'[i].alert >= d \/ scan'[i] \in racing' \cup reset'
    BY DEF UndoWillAlert
  <1>0. ApiTyping
    BY DEF Typing
  <1>1. CASE BeginUndo(i) /\ scan'[i] = scan[i] /\ undo'[i].alert = LatestCompleted
    <2>1. delivery[d].status = "completed"
      BY <1>1, Completions DEF BeginUndo
    <2>2. LatestCompleted >= d
      BY <2>1, LatestIsLast, Values DEF NoDelivery
    <2> QED
      BY <1>1, <2>2
  <1>2. CASE scan'[i] = scan[i] /\ undo'[i] = undo[i]
    <2>1. scan[i] \in ScanIds
      BY <1>0, <1>2 DEF ApiTyping, Files
    <2>2. CASE delivery[d].status = "completed"
      BY <1>2, <2>2, Completions, ApiFrame DEF UndoWillAlert
    <2>3. CASE worker.pc = "sent" /\ file[d] = worker.file
      BY <1>2, <2>1, <2>3, Completions, ApiFrame DEF FileIsCurrent
    <2> QED
      BY <2>2, <2>3, Completions
  <1> QED
    BY <1>1, <1>2, ApiEffect

LEMMA AlertedStep ==
    /\ Typing /\ RowHeld /\ Carried /\ FileIsCurrent /\ UndoWillAlert /\ UndoneIsAlerted
    /\ [Next]_vars
    => UndoneIsAlerted'
  <1> SUFFICES ASSUME Typing, RowHeld, Carried, FileIsCurrent, UndoWillAlert, UndoneIsAlerted,
                      [Next]_vars,
                      NEW d \in Deliveries, delivery'[d].status = "completed",
                      NEW i \in Items, file'[d][i] \in ScanIds, scan'[i] # file'[d][i]
               PROVE  (\E a \in alerts' : a >= d) \/ file'[d][i] \in racing' \cup reset'
    BY DEF UndoneIsAlerted, Undone
  <1>0. ApiTyping /\ d \in Nat /\ 0 < d
    BY Values, DeliveryAssumption DEF Typing, Deliveries
  <1>1. file'[d] = file[d]
    BY Completions
  <1>2. CASE delivery[d].status = "completed" /\ scan[i] # file[d][i]
    BY <1>1, <1>2, ApiFrame DEF UndoneIsAlerted, Undone
  <1>3. CASE delivery[d].status = "completed" /\ scan[i] = file[d][i]
    <2>0. scan[i] \in reset' \/ \E release \in BOOLEAN : CommitUndo(i, release)
      BY <1>1, <1>3, ApiEffect, Values
    <2> SUFFICES ASSUME \E release \in BOOLEAN : CommitUndo(i, release)
                 PROVE  (\E a \in alerts' : a >= d) \/ file'[d][i] \in racing' \cup reset'
      BY <1>1, <1>3, <2>0
    <2>1. PICK release \in BOOLEAN : CommitUndo(i, release)
      OBVIOUS
    <2>2. undo[i].alert >= d \/ scan[i] \in racing \cup reset
      BY <1>3, <2>1 DEF CommitUndo, UndoWillAlert
    <2>3. undo[i].alert \in Nat
      <3>1. undo[i] \in Undo
        BY <1>0 DEF ApiTyping
      <3>2. undo[i].alert \in Deliveries \cup {0}
        BY <3>1 DEF Undo, NoDelivery
      <3>3. Deliveries \cup {0} \subseteq Nat
        BY Values
      <3> QED
        BY <3>2, <3>3, Zenon
    <2>4. CASE undo[i].alert >= d
      <3>1. undo[i].alert \in alerts'
        BY <1>0, <2>1, <2>3, <2>4 DEF CommitUndo, NoDelivery
      <3> QED
        BY <2>4, <3>1
    <2> QED
      BY <1>1, <1>3, <2>2, <2>4, ApiFrame
  <1>4. CASE delivery[d].status # "completed"
    <2>1. FinishDelivery /\ worker.pc = "sent" /\ file[d] = worker.file
      BY <1>4, Completions
    <2>2. UNCHANGED scan
      BY <2>1 DEF FinishDelivery, apiVars
    <2> QED
      BY <1>1, <2>1, <2>2, ApiFrame DEF FileIsCurrent
  <1> QED
    BY <1>2, <1>3, <1>4

\* A code a client was told of and that is undone has its alert, unless the
\* undo raced the file or the order was reset.
THEOREM DeliveredUndoIsAlerted == Spec => []UndoneIsAlerted
  <1>1. Init => RowHeld /\ Carried /\ FileIsCurrent /\ UndoWillAlert /\ UndoneIsAlerted
    BY Values DEF Init, RowHeld, Carried, FileIsCurrent, UndoWillAlert, UndoneIsAlerted, NoRow, NoUndo
  <1> QED
    BY <1>1, TypingInit, TypingStep, RowHeldStep, CarriedStep, FileIsCurrentStep, UndoWillAlertStep,
       AlertedStep, PTL DEF Spec

(***************************************************************************)
(* TransferKizDelivery implements CallOnce: the mark of the start, the     *)
(* call and the record are the steps of one call.                          *)
(***************************************************************************)
Marked == {d \in Deliveries : delivery[d].started}
Posted == [d \in Deliveries |-> 1..sends[d]]
Delivered == {d \in Deliveries : delivery[d].status = "completed"}

\* The worker that is about to record a success has posted the file.
SentIsPosted == worker.pc = "sent" => sends[worker.row] > 0

LEMMA SentIsPostedStep == Typing /\ SentIsPosted /\ [Next]_vars => SentIsPosted'
  <1> SUFFICES ASSUME Typing, SentIsPosted, [Next]_vars PROVE SentIsPosted'
    OBVIOUS
  <1>0. RowTyping /\ WorkerTyping
    BY DEF Typing
  <1>1. CASE Prepare \/ StartDelivery
    <2>1. worker'.pc \in {"prepared", "sending"}
      BY <1>0, <1>1 DEF Prepare, StartDelivery, WorkerTyping, Worker
    <2> QED
      BY <2>1 DEF SentIsPosted
  <1>2. CASE Send
    <2>1. worker'.row = worker.row /\ worker.row \in Deliveries
      BY <1>0, <1>2 DEF Send, WorkerTyping, Worker
    <2>2. sends'[worker.row] = sends[worker.row] + 1 /\ sends[worker.row] \in Nat
      BY <1>0, <1>2, <2>1 DEF Send, Post, RowTyping
    <2> QED
      BY <2>1, <2>2 DEF SentIsPosted
  <1>3. CASE ~(Prepare \/ StartDelivery \/ Send)
    <2>1. UNCHANGED worker \/ worker'.pc # "sent"
      BY <1>3, WorkerFrame
    <2>2. FailSend \/ Die => worker'.pc # "sent"
      BY Values DEF FailSend, Die
    <2> QED
      BY <1>3, <2>1, <2>2, RowFrame DEF SentIsPosted
  <1> QED
    BY <1>1, <1>2, <1>3

\* Nothing reopens a delivery that is completed.
LEMMA CompletedStays ==
    ASSUME [Next]_vars, Typing, RowHeld, NEW d \in Deliveries, delivery[d].status = "completed"
    PROVE  delivery'[d].status = "completed"
  <1>0. RowTyping /\ WorkerTyping /\ delivery \in [Deliveries -> Row]
    BY DEF Typing, RowTyping
  <1>1. DoingDelivery => worker.row # d
    BY DEF DoingDelivery, RowHeld
  <1>2. ASSUME NEW e \in Deliveries, NEW st, SetRow(e, st), e # d PROVE delivery'[d] = delivery[d]
    BY <1>0, <1>2 DEF SetRow
  <1>3. Invalid \/ FailPreSend \/ FailSend \/ FinishDelivery
        => DoingDelivery /\ worker.row \in Deliveries /\ \E st \in RowStates : SetRow(worker.row, st)
    BY <1>0 DEF Invalid, FailPreSend, FailSend, FinishDelivery, DoingDelivery, WorkerTyping, RowStates
  <1>4. CommitCheck => UNCHANGED delivery \/ (delivery[1].status = "none" /\ SetRow(1, "pending"))
    BY DEF CommitCheck, NoRow
  <1>5. 1 \in Deliveries
    BY DeliveryAssumption DEF Deliveries
  <1>6. ASSUME NEW e \in Deliveries, RecoverDelivery(e) PROVE e # d /\ \E st : SetRow(e, st)
    BY <1>6 DEF RecoverDelivery
  <1>7. ASSUME NEW e \in Deliveries, Resend(e) PROVE e # d /\ \E st : SetRow(e, st)
    BY <1>7 DEF Resend, NoRow
  <1>8. ASSUME NEW e \in Deliveries, ClaimDelivery(e) PROVE delivery'[d] = delivery[d]
    BY <1>0, <1>8 DEF ClaimDelivery, Claimable
  <1>9. StartDelivery => DoingDelivery /\ (worker.row # d => delivery'[d] = delivery[d])
    BY <1>0 DEF StartDelivery, DoingDelivery
  <1>10. Number \/ FailCheck \/ Die \/ (\E i \in Items : Api(i)) \/ (\E o \in Orders : Admin(o))
         => UNCHANGED delivery
    BY ApiLeaves, AdminLeaves DEF Number, FailCheck, Die
  <1>11. ReadCheck \/ Prepare \/ Send \/ (\E s \in ScanIds : ClaimCheck(s) \/ RecoverCheck(s)) => UNCHANGED delivery
    BY DEF ReadCheck, Prepare, Send, ClaimCheck, RecoverCheck
  <1> QED
    BY <1>1, <1>2, <1>3, <1>4, <1>5, <1>6, <1>7, <1>8, <1>9, <1>10, <1>11 DEF Next, Progress, vars

LEMMA CallStep ==
    ASSUME Typing, Marks, RowHeld, Carried, SentIsPosted, [Next]_vars
    PROVE  Once!Next \/ UNCHANGED <<Marked, Posted, Delivered>>
  <1>0. RowTyping /\ WorkerTyping
    BY DEF Typing
  <1>1. CASE StartDelivery
    <2>0. PICK r \in Deliveries : r = worker.row
      BY <1>0, <1>1 DEF StartDelivery, WorkerTyping
    <2>1. /\ r \notin Marked
          /\ UNCHANGED sends
      BY <2>0, <1>0, <1>1 DEF StartDelivery, WorkerTyping, Marked, Marks
    <2>2. /\ delivery'[r].started /\ delivery'[r].status = delivery[r].status
          /\ \A d \in Deliveries : d # r => delivery'[d] = delivery[d]
      BY <2>0, <1>0, <1>1, <2>1 DEF StartDelivery, RowTyping, Row
    <2>3. Marked' = Marked \cup {r} /\ Delivered' = Delivered /\ Posted' = Posted
      BY <2>1, <2>2 DEF Marked, Delivered, Posted
    <2>4. Once!Mark(r)
      BY <2>1, <2>3 DEF Once!Mark, Marked, Delivered, Posted
    <2> QED
      BY <2>4 DEF Once!Next
  <1>2. CASE ~StartDelivery /\ worker.pc = "sending" /\ Post(worker.row)
    <2>0. PICK r \in Deliveries : r = worker.row
      BY <1>0, <1>2 DEF WorkerTyping
    <2>1. /\ r \in Marked
          /\ sends[r] = 0 /\ sends'[r] = 1
          /\ \A d \in Deliveries : d # r => sends'[d] = sends[d]
      BY <2>0, <1>0, <1>2 DEF Post, RowTyping, WorkerTyping, Marked, Marks
    <2>2. Marked' = Marked
      BY <1>2, StartedFrame DEF Marked
    <2>3. Delivered' = Delivered
      BY <1>2, Completions, CompletedStays DEF Delivered
    <2>4. Posted[r] = {} /\ 1..1 = {1}
      BY <2>1 DEF Posted
    <2>5. Posted' = [Posted EXCEPT ![r] = {1}]
      BY <2>1, <2>4 DEF Posted
    <2>6. Once!TakeEffect(r)
      BY <2>1, <2>2, <2>3, <2>4, <2>5 DEF Once!TakeEffect, Marked, Delivered, Posted
    <2> QED
      BY <2>6 DEF Once!Next
  <1>3. CASE FinishDelivery
    <2>0. PICK r \in Deliveries : r = worker.row
      BY <1>0, <1>3 DEF FinishDelivery, WorkerTyping
    <2>1. sends[r] > 0 /\ sends[r] \in Nat /\ UNCHANGED sends
      BY <2>0, <1>0, <1>3 DEF FinishDelivery, WorkerTyping, RowTyping, SentIsPosted
    <2>2. /\ delivery'[r].status = "completed"
          /\ \A d \in Deliveries : d # r => delivery'[d] = delivery[d]
          /\ \A d \in Deliveries : delivery'[d].started = delivery[d].started
      BY <2>0, <1>0, <1>3, <2>1 DEF FinishDelivery, SetRow, RowTyping, Row
    <2>3. Delivered' = Delivered \cup {r} /\ Marked' = Marked /\ Posted' = Posted
      BY <2>1, <2>2 DEF Marked, Delivered, Posted
    <2>4. 1 \in Posted[r]
      BY <2>1 DEF Posted
    <2>5. Once!Record(r)
      BY <2>3, <2>4 DEF Once!Record, Marked, Delivered, Posted
    <2> QED
      BY <2>5 DEF Once!Next
  <1>4. CASE ~StartDelivery /\ ~(worker.pc = "sending" /\ Post(worker.row)) /\ ~FinishDelivery
    <2>1. Marked' = Marked
      BY <1>4, StartedFrame DEF Marked
    <2>2. UNCHANGED sends
      BY <1>4, RowFrame DEF Send, FailSend, Die
    <2>3. Delivered' = Delivered
      BY <1>4, Completions, CompletedStays DEF Delivered
    <2> QED
      BY <2>1, <2>2, <2>3 DEF Posted
  <1> QED
    BY <1>1, <1>2, <1>3, <1>4

\* A delivery is one call: its file is posted once at most and under its mark, and
\* it counts as completed only if its file was posted.
THEOREM DeliveryCallsOnce == Spec => DeliveryIsOneCall
  <1>1. ASSUME Init
        PROVE  Once!Init /\ RowHeld /\ Carried /\ SentIsPosted
    <2>1. \A d \in Deliveries : 1..sends[d] = {}
      BY <1>1 DEF Init
    <2>2. Once!Init
      BY <1>1, <2>1 DEF Init, Once!Init, NoRow
    <2> QED
      BY <1>1, <2>2, Values DEF Init, RowHeld, Carried, SentIsPosted
  <1>2. Spec => [](Typing /\ Marks /\ RowHeld /\ Carried /\ SentIsPosted)
    BY <1>1, TypingInit, TypingStep, MarksInit, MarksStep, RowHeldStep, CarriedStep, SentIsPostedStep,
       PTL DEF Spec
  <1>3. Typing /\ Marks /\ RowHeld /\ Carried /\ SentIsPosted /\ [Next]_vars
        => [Once!Next]_<<Marked, Posted, Delivered>>
    BY CallStep
  <1>4. Spec => Once!Init /\ [][Once!Next]_<<Marked, Posted, Delivered>>
    BY <1>1, <1>2, <1>3, PTL DEF Spec
  <1> QED
    BY <1>4, PTL DEF DeliveryIsOneCall, Once!Spec, Marked, Posted, Delivered
==============================================================================
