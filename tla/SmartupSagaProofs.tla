-------------------------- MODULE SmartupSagaProofs --------------------------
(***************************************************************************)
(* For every finite set of deals, any number of processes, slots and       *)
(* faults: the types of SmartupSaga, its safety, and that a file is one    *)
(* call of CallOnce.  With one worker: no blind write.                     *)
(*                                                                         *)
(* What is known of Smartup and the rows only grows: a deal that was shown *)
(* in the target status was, even if a manager puts it back, and a create  *)
(* event or a claim is not taken back.  So what a process read once stays  *)
(* true under the steps of the others, which is why most of the proof is   *)
(* about one process at a time.                                            *)
(***************************************************************************)
EXTENDS SmartupSaga, TLAPS

-----------------------------------------------------------------------------
(***************************************************************************)
(* The invariant                                                           *)
(***************************************************************************)
\* The records of the rows and of the processes
Saga ==
    [state : States, event : EventStates, row : {"pending", "processing", "failed", "completed"},
     slot : 0..LastSlot, tied : BOOLEAN]
Slot ==
    [row : {"none", "processing", "failed", "completed", "blocked"},
     result : {"none", "no_orders", "completed", "completed_recovery"}, deals : SUBSET Deals]
File == [deals : SUBSET Deals, imported : SUBSET Deals]
Answers == UNION {[S -> {"source", "target", ""}] : S \in SUBSET Deals}

\* The steps of a slot, of a pass over deals, of the report
SlotSteps == {"orphans", "export", "import", "deliver", "send", "sent"}
PassSteps == {"read", "reread", "claim", "lock", "write", "record", "queue"}
ReportSteps == {"build", "post"}
Process ==
    [pc : {"idle"} \cup SlotSteps \cup PassSteps \cup ReportSteps,
     kind : {"none", "sweep", "slot", "recovery", "report"}, slot : 0..LastSlot,
     work : SUBSET Deals, todo : SUBSET Deals, export : SUBSET Deals,
     seen : Answers, ok : SUBSET Deals, bad : BOOLEAN]

WorldTypes ==
    /\ remote \in [Deals -> {"absent", "source", "target", "other"}]
    /\ back \in [Deals -> {"none", "target", "other"}]
    /\ flying \subseteq Deals /\ unread \subseteq Deals
    /\ file \in [Slots -> Seq(File)]
    /\ now \in 1..Evening
RowTypes ==
    /\ jobs \in [Deals -> SUBSET ({Chat} \cup Slots)]
    /\ saga \in [Deals -> Saga]
    /\ create \in [Deals -> {"none", "queued", "started", "created", "ambiguous"}]
    /\ slot \in [Slots -> Slot]
    /\ delivery \in [Slots -> {"none", "started", "completed", "blocked"}]
    /\ report \in {"none", "processing", "failed", "started", "completed", "blocked"}

\* A process whose record is v is in a step of its kind, and has a slot if it runs one.
Sound(v) ==
    /\ v.pc = "idle" => v = Idle
    /\ v.pc \in SlotSteps => v.kind = "slot"
    /\ v.pc \in PassSteps => v.kind \in {"sweep", "slot", "recovery"}
    /\ v.pc \in ReportSteps => v.kind = "report"
    /\ v.slot \in Slots <=> v.kind \in {"slot", "recovery"}
    /\ v.pc = "export" => v.work = {}
ProcTypes == proc \in [Processes -> {v \in Process : Sound(v)}]
Types == WorldTypes /\ RowTypes /\ ProcTypes

\* The advisory lock of a slot.
SlotLock == \A p, q \in Processes : p # q /\ proc[p].slot = proc[q].slot => proc[p].slot = 0

\* The furthest a deal came in Smartup: the target stays, though a manager may put
\* the deal back.
Shown(d) == IF Reached(d) THEN "target" ELSE remote[d]

\* A deal that has a job, a saga, or a process at work on it is in Smartup.
Known == \A d \in Deals : jobs[d] # {} \/ saga[d].state # "none" => Shown(d) # "absent"
Knows(p) ==
    /\ At(p, "import") => \A d \in proc[p].todo \cup proc[p].work : Shown(d) # "absent"
    /\ proc[p].pc \in PassSteps => \A d \in proc[p].work : saga[d].state # "none"

\* The states after the write is confirmed and the request is ordered
Past == {"skladbot_create_queued", "skladbot_post_started", "skladbot_created", "skladbot_ambiguous"}

\* What the two states x of a deal say of each other, and how far r it came in Smartup
Fine(x, r) ==
    /\ x.event = "intent_persisted" => x.state \in {"none", "local_ready", "smartup_ambiguous"}
    /\ x.tied => x.state \in Past /\ x.event \in RemoteConfirmed
    /\ x.state \in {"smartup_confirmed"} \cup Past \/ x.event \in RemoteConfirmed => r = "target"
SagasFine == \A d \in Deals : Fine(saga[d], Shown(d))

\* A slot may count the deal as done.
Covered(d) == create[d] # "none" /\ Shown(d) = "target"

\* What a process knows of Smartup, of its deals and of its file
Tells(p) ==
    /\ At(p, "reread") => \A d \in DOMAIN proc[p].seen : proc[p].seen[d] = "target" => Shown(d) = "target"
    /\ At(p, "record") => \A d \in proc[p].ok : Shown(d) = "target"
    /\ proc[p].pc \in {"deliver", "send", "sent"} => \A d \in proc[p].work : Covered(d)
    /\ At(p, "send") => delivery[proc[p].slot] # "none" /\ file[proc[p].slot] = <<>>

\* What a completed slot claims of its deals
SlotsCovered == \A s \in Slots : \A d \in slot[s].deals : Covered(d)

\* A file comes after its claim, and once.
Files == \A s \in Slots : Len(file[s]) <= 1 /\ (delivery[s] = "none" => file[s] = <<>>)

\* The inductive invariant, for any number of processes
Inv ==
    /\ Types /\ SlotLock /\ Known
    /\ SagasFine
    /\ \A p \in Processes : Knows(p) /\ Tells(p)
    /\ SlotsCovered /\ Files

-----------------------------------------------------------------------------
(***************************************************************************)
(* The rows of a deal.                                                     *)
(***************************************************************************)

\* sync_legacy_saga_event brings the event in line with the state.
LEMMA SyncedFine ==
    ASSUME NEW x \in Saga, NEW r, Fine(x, r)
    PROVE  Synced(x) \in Saga /\ Fine(Synced(x), r) /\ Synced(x).state = x.state
  <1>1. DOMAIN Legacy = {"local_ready", "smartup_write_started", "smartup_confirmed",
                         "skladbot_create_queued", "skladbot_post_started", "skladbot_created"}
    BY DEF Legacy
  <1>2. CASE x.state \notin DOMAIN Legacy
    BY <1>2 DEF Synced
  <1>3. CASE x.state \in DOMAIN Legacy
    <2>1. PICK e : e = Legacy[x.state]
      OBVIOUS
    <2>2. /\ x.state = "local_ready" => e = "intent_persisted"
          /\ x.state = "smartup_write_started" => e = "remote_write_started"
          /\ x.state = "smartup_confirmed" => e = "remote_confirmed"
          /\ x.state = "skladbot_create_queued" => e = "skladbot_queued"
          /\ x.state = "skladbot_post_started" => e = "skladbot_pending"
          /\ x.state = "skladbot_created" => e = "skladbot_queued"
      BY <2>1 DEF Legacy
    <2>3. Synced(x) = [x EXCEPT !.event = e]
      BY <1>3, <2>1 DEF Synced
    <2>4. e \in EventStates
      BY <1>1, <1>3, <2>2 DEF EventStates
    <2>5. PICK y : y = [x EXCEPT !.event = e]
      OBVIOUS
    <2>6. y \in Saga /\ y.event = e /\ y.state = x.state /\ y.tied = x.tied
      BY <2>4, <2>5 DEF Saga
    <2>7. Fine(y, r)
      BY <1>1, <1>3, <2>2, <2>6 DEF Fine, Past, RemoteConfirmed
    <2> QED
      BY <2>3, <2>5, <2>6, <2>7
  <1> QED
    BY <1>2, <1>3

\* A row of prepare_deal_sagas starts with an intent.
LEMMA NewSagaFine ==
    ASSUME NEW s \in 0..LastSlot, NEW r,
           NEW x, x = [NoSaga EXCEPT !.state = "local_ready", !.slot = s]
    PROVE  /\ x \in Saga /\ Fine(x, r)
           /\ x.state = "local_ready" /\ x.event = "intent_persisted"
  BY DEF NoSaga, Saga, States, EventStates, Fine, Past, RemoteConfirmed

\* A process writes state st, event ev and row rw.
Changed(x, st, ev, rw) == [x EXCEPT !.state = st, !.event = ev, !.row = rw]

\* A read-back confirms only a deal Smartup shows in the target status.
LEMMA ReconciledFine ==
    ASSUME NEW x \in Saga, NEW r, Fine(x, r), NEW status \in {"source", "target", ""},
           x.state \in Expected(status), status = "target" => r = "target"
    PROVE  /\ Reconciled(x, status) \in Saga
           /\ Fine(Reconciled(x, status), r)
           /\ Reconciled(x, status).state # "none"
           /\ Reconciled(x, status).state # "local_ready"
           /\ status = "" => Reconciled(x, status).event = "remote_failed"
           /\ status = "target" => Reconciled(x, status).event = "remote_confirmed"
           /\ status = "source" => Reconciled(x, status).event = "intent_persisted"
  <1>0. x.state \in {"local_ready", "smartup_write_started", "smartup_ambiguous", "smartup_confirmed"}
    BY DEF Expected
  <1>1. CASE status = "target"
    <2>1. Reconciled(x, status) = Changed(x, "smartup_confirmed", "remote_confirmed", "pending")
      BY <1>1 DEF Reconciled, Changed
    <2>2. PICK y : y = Changed(x, "smartup_confirmed", "remote_confirmed", "pending")
      OBVIOUS
    <2>3. y \in Saga /\ Fine(y, r) /\ y.state = "smartup_confirmed" /\ y.event = "remote_confirmed"
      BY <1>0, <1>1, <2>2 DEF Changed, Saga, States, EventStates, Fine, Past, RemoteConfirmed
    <2> QED
      BY <1>0, <1>1, <2>1, <2>2, <2>3
  <1>2. CASE status = "source"
    <2>1. Reconciled(x, status) = Changed(x, "smartup_ambiguous", "intent_persisted", "pending")
      BY <1>2 DEF Reconciled, Changed
    <2>2. PICK y : y = Changed(x, "smartup_ambiguous", "intent_persisted", "pending")
      OBVIOUS
    <2>3. y \in Saga /\ Fine(y, r) /\ y.state = "smartup_ambiguous" /\ y.event = "intent_persisted"
      BY <1>0, <1>2, <2>2 DEF Changed, Saga, States, EventStates, Fine, Past, RemoteConfirmed
    <2> QED
      BY <1>0, <1>2, <2>1, <2>2, <2>3
  <1>3. CASE status = ""
    <2>1. Reconciled(x, status) = Changed(x, "smartup_ambiguous", "remote_failed", "failed")
      BY <1>3 DEF Reconciled, Changed
    <2>2. PICK y : y = Changed(x, "smartup_ambiguous", "remote_failed", "failed")
      OBVIOUS
    <2>3. y \in Saga /\ Fine(y, r) /\ y.state = "smartup_ambiguous" /\ y.event = "remote_failed"
      BY <1>0, <1>3, <2>2 DEF Changed, Saga, States, EventStates, Fine, Past, RemoteConfirmed
    <2> QED
      BY <1>0, <1>3, <2>1, <2>2, <2>3
  <1> QED
    BY <1>1, <1>2, <1>3

\* So does an answer that names the deal.
LEMMA RecordedFine ==
    ASSUME NEW x \in Saga, NEW r, Fine(x, r), NEW ok \in BOOLEAN,
           x.state = "smartup_write_started", ok => r = "target"
    PROVE  /\ Recorded(x, ok) \in Saga
           /\ Fine(Recorded(x, ok), r)
           /\ Recorded(x, ok).state \in {"smartup_confirmed", "smartup_ambiguous"}
           /\ Recorded(x, ok).event \in {"remote_confirmed", "remote_failed"}
  <1>1. CASE ok
    <2>1. Recorded(x, ok) = Changed(x, "smartup_confirmed", "remote_confirmed", "pending")
      BY <1>1 DEF Recorded, Changed
    <2>2. PICK y : y = Changed(x, "smartup_confirmed", "remote_confirmed", "pending")
      OBVIOUS
    <2>3. y \in Saga /\ Fine(y, r) /\ y.state = "smartup_confirmed" /\ y.event = "remote_confirmed"
      BY <1>1, <2>2 DEF Changed, Saga, States, EventStates, Fine, Past, RemoteConfirmed
    <2> QED
      BY <1>1, <2>1, <2>2, <2>3
  <1>2. CASE ~ok
    <2>1. Recorded(x, ok) = Changed(x, "smartup_ambiguous", "remote_failed", "failed")
      BY <1>2 DEF Recorded, Changed
    <2>2. PICK y : y = Changed(x, "smartup_ambiguous", "remote_failed", "failed")
      OBVIOUS
    <2>3. y \in Saga /\ Fine(y, r) /\ y.state = "smartup_ambiguous" /\ y.event = "remote_failed"
      BY <2>2 DEF Changed, Saga, States, EventStates, Fine, Past, RemoteConfirmed
    <2> QED
      BY <2>1, <2>2, <2>3
  <1> QED
    BY <1>1, <1>2

\* A claimed deal is no intent any more, in both of its states.
LEMMA ClaimedFine ==
    ASSUME NEW x \in Saga, NEW r, Fine(x, r), x.event = "intent_persisted",
           x.state \in {"local_ready", "smartup_ambiguous"},
           NEW y, y = Synced([x EXCEPT !.state = "smartup_write_started", !.row = "processing"])
    PROVE  /\ y \in Saga /\ Fine(y, r)
           /\ y.state = "smartup_write_started" /\ y.event = "remote_write_started"
  <1>1. PICK z : z = [x EXCEPT !.state = "smartup_write_started", !.row = "processing"]
    OBVIOUS
  <1>2. /\ z \in Saga /\ z.state = "smartup_write_started" /\ z.tied = x.tied /\ z.event = x.event
    BY <1>1 DEF Saga, States
  <1>3. y = Synced(z)
    BY <1>1
  <1>4. y = [z EXCEPT !.event = "remote_write_started"]
    <2>1. /\ "smartup_write_started" \in DOMAIN Legacy
          /\ Legacy["smartup_write_started"] = "remote_write_started"
      BY DEF Legacy
    <2> QED
      BY ZenonT(60), <1>2, <1>3, <2>1 DEF Synced
  <1>5. /\ y \in Saga /\ y.state = "smartup_write_started" /\ y.event = "remote_write_started"
        /\ y.tied = x.tied
    BY <1>2, <1>4 DEF Saga, EventStates
  <1> QED
    BY <1>5 DEF Fine, Past, RemoteConfirmed

CreateStates == {"queued", "started", "created", "ambiguous"}

LEMMA AggregateIsPast == \A c \in CreateStates : Aggregate[c] \in Past
  BY DEF CreateStates, Aggregate, Past

\* Only a confirmed deal goes on to SkladBot.
LEMMA MarkedFine ==
    ASSUME NEW x \in Saga, NEW r, Fine(x, r), NEW c \in {"none"} \cup CreateStates
    PROVE  /\ Marked(x, c) \in Saga /\ Fine(Marked(x, c), r)
           /\ x.state # "none" => Marked(x, c).state # "none"
           /\ x.state = "none" /\ Marked(x, c).state # "none" => r = "target"
           /\ Marked(x, c).event = "skladbot_queued" => x.event \in RemoteConfirmed /\ r = "target"
           /\ Marked(x, c).event = "skladbot_queued" => c # "none"
           /\ x.event \notin RemoteConfirmed => Marked(x, c) = x
           /\ x.event \in RemoteConfirmed => Marked(x, c).event \in RemoteConfirmed
  <1>1. CASE x.event \notin RemoteConfirmed
    BY <1>1 DEF Marked, RemoteConfirmed
  <1>2. CASE x.event \in RemoteConfirmed /\ c = "none"
    <2>1. PICK y : y = [x EXCEPT !.event = "skladbot_pending", !.row = "pending"]
      OBVIOUS
    <2>2. Marked(x, c) = y
      BY <1>2, <2>1 DEF Marked
    <2>3. y \in Saga /\ y.state = x.state /\ y.tied = x.tied /\ y.event = "skladbot_pending"
      BY <2>1 DEF Saga, EventStates
    <2>4. Fine(y, r)
      BY <1>2, <2>3 DEF Fine, RemoteConfirmed
    <2> QED
      BY <1>2, <2>2, <2>3, <2>4 DEF RemoteConfirmed
  <1>3. CASE x.event \in RemoteConfirmed /\ c # "none"
    <2>1. PICK st : st = Aggregate[c]
      OBVIOUS
    <2>2. st \in Past
      BY <1>3, <2>1, AggregateIsPast
    <2>3. PICK y : y = [x EXCEPT !.event = "skladbot_queued", !.row = "completed", !.tied = TRUE, !.state = st]
      OBVIOUS
    <2>4. Marked(x, c) = Synced(y)
      BY <1>3, <2>1, <2>3 DEF Marked
    <2>5. y \in Saga /\ y.state = st /\ y.tied /\ y.event = "skladbot_queued"
      BY <2>2, <2>3 DEF Saga, EventStates, States, Past
    <2>6. r = "target"
      BY <1>3 DEF Fine
    <2>7. Fine(y, r)
      BY <2>2, <2>5, <2>6 DEF Fine, RemoteConfirmed
    <2>8. Synced(y) \in Saga /\ Fine(Synced(y), r) /\ Synced(y).state = st
      BY <2>5, <2>7, SyncedFine
    <2>9. Synced(y).event \in RemoteConfirmed
      <3>1. Synced(y).tied
        BY <2>5 DEF Synced, Saga
      <3> QED
        BY <2>8, <3>1 DEF Fine
    <2> QED
      BY <1>3, <2>2, <2>4, <2>6, <2>8, <2>9 DEF Past
  <1> QED
    BY <1>1, <1>2, <1>3

\* A step of the SkladBot worker.
LEMMA FollowedFine ==
    ASSUME NEW x \in Saga, NEW r, Fine(x, r), NEW st \in Past, x.tied
    PROVE  /\ [x EXCEPT !.state = st] \in Saga /\ Fine([x EXCEPT !.state = st], r)
           /\ [x EXCEPT !.state = st].state = st /\ [x EXCEPT !.state = st].event = x.event
  <1>1. PICK y : y = [x EXCEPT !.state = st]
    OBVIOUS
  <1>2. y \in Saga /\ y.state = st /\ y.event = x.event /\ y.tied = x.tied
    BY <1>1 DEF Saga, States, Past
  <1>3. Fine(y, r)
    BY <1>2 DEF Fine, RemoteConfirmed, Past
  <1> QED
    BY <1>1, <1>2, <1>3

-----------------------------------------------------------------------------
(***************************************************************************)
(* Which step writes the saga of a deal, and that it stays in order.       *)
(***************************************************************************)

\* y is what becomes of the saga x of a deal that came as far as r.
Follows(x, y, r) ==
    /\ y \in Saga /\ Fine(y, r)
    /\ x.state # "none" => y.state # "none"
    /\ x.state = "none" /\ y.state # "none" => r # "absent"

SagasFollow ==
    /\ saga' = [d \in Deals |-> saga'[d]]
    /\ \A d \in Deals : Follows(saga[d], saga'[d], Shown(d))

\* A process in a step of a slot has one.
LEMMA SlotOfProcess ==
    ASSUME ProcTypes, NEW p \in Processes
    PROVE  /\ proc[p] \in Process /\ Sound(proc[p])
           /\ proc[p].pc \in SlotSteps => proc[p].slot \in Slots
  BY DEF ProcTypes, Sound

\* Preparing adds sagas only for deals that are in Smartup.
LEMMA PreparedFollows ==
    ASSUME RowTypes, SagasFine, NEW deals \in SUBSET Deals, NEW s \in 0..LastSlot,
           \A d \in deals : Shown(d) # "absent", NEW f, f = Prepared(deals, s)
    PROVE  /\ f = [d \in Deals |-> f[d]]
           /\ \A d \in Deals : Follows(saga[d], f[d], Shown(d))
           /\ \A d \in deals : f[d].state # "none"
  <1>1. f = [d \in Deals |-> f[d]]
    BY DEF Prepared
  <1>2. ASSUME NEW d \in Deals PROVE Follows(saga[d], f[d], Shown(d)) /\ (d \in deals => f[d].state # "none")
    <2>0. saga[d] \in Saga /\ Fine(saga[d], Shown(d))
      BY DEF RowTypes, SagasFine
    <2>1. CASE d \notin deals
      BY <2>0, <2>1 DEF Prepared, Follows
    <2>2. CASE d \in deals /\ saga[d].state = "none"
      <3>1. f[d] = [NoSaga EXCEPT !.state = "local_ready", !.slot = s]
        BY <2>2 DEF Prepared
      <3> QED
        BY <2>2, <3>1, NewSagaFine DEF Follows
    <2>3. CASE d \in deals /\ saga[d].state # "none"
      <3>1. f[d] = Synced(saga[d])
        BY <2>3 DEF Prepared
      <3> QED
        BY <2>0, <2>3, <3>1, SyncedFine DEF Follows
    <2> QED
      BY <2>1, <2>2, <2>3
  <1> QED
    BY <1>1, <1>2

LEMMA PreparedStep ==
    ASSUME Inv, NEW p \in Processes, Recover(p) \/ PrepareDealSagas(p)
    PROVE  SagasFollow
  <1>0. RowTypes /\ SagasFine /\ ProcTypes /\ Known
    BY DEF Inv, Types
  <1>1. CASE Recover(p)
    <2>1. PICK deals \in SUBSET Deals : deals = {d \in Deals : proc[p].slot \in jobs[d]}
      OBVIOUS
    <2>2. saga' = Prepared(deals, proc[p].slot)
      BY Zenon, <1>1, <2>1 DEF Recover
    <2>3. proc[p].slot \in 0..LastSlot
      BY <1>0, SlotOfProcess DEF Process
    <2>4. \A d \in deals : Shown(d) # "absent"
      BY <1>0, <2>1 DEF Known
    <2> QED
      BY <1>0, <2>2, <2>3, <2>4, PreparedFollows DEF SagasFollow
  <1>2. CASE PrepareDealSagas(p)
    <2>1. /\ saga' = Prepared(proc[p].work, proc[p].slot) /\ At(p, "import")
          /\ proc[p].work \in SUBSET Deals /\ proc[p].slot \in 0..LastSlot
      BY <1>0, <1>2, SlotOfProcess DEF PrepareDealSagas, Process
    <2>2. \A d \in proc[p].work : Shown(d) # "absent"
      BY <2>1 DEF Inv, Knows
    <2> QED
      BY <1>0, <2>1, <2>2, PreparedFollows DEF SagasFollow
  <1> QED
    BY <1>1, <1>2

\* A step that leaves the sagas alone
LEMMA SagasStay ==
    ASSUME Inv, UNCHANGED saga
    PROVE  SagasFollow
  BY DEF Inv, Types, RowTypes, SagasFine, SagasFollow, Follows

LEMMA PassStep ==
    ASSUME Inv, NEW p \in Processes,
           RecordReadBack(p) \/ ClaimWrites(p) \/ RecordWrite(p) \/ QueueAndMark(p)
    PROVE  SagasFollow
  <1>0. /\ RowTypes /\ SagasFine /\ ProcTypes /\ Known /\ Tells(p) /\ Knows(p)
        /\ \A d \in Deals : saga[d] \in Saga /\ Fine(saga[d], Shown(d))
        /\ proc[p] \in Process
    BY SlotOfProcess DEF Inv, Types, RowTypes, SagasFine
  <1>1. CASE RecordReadBack(p)
    <2> DEFINE seen == proc[p].seen
    <2>1. CASE UNCHANGED saga
      BY <2>1, SagasStay
    <2>2. CASE /\ \A d \in DOMAIN seen : saga[d].state \in Expected(seen[d])
               /\ saga' = [d \in Deals |-> IF d \in DOMAIN seen THEN Reconciled(saga[d], seen[d]) ELSE saga[d]]
      <3>1. seen \in Answers /\ \A d \in DOMAIN seen : seen[d] = "target" => Shown(d) = "target"
        BY <1>0, <1>1 DEF Process, RecordReadBack, Tells
      <3>2. \A d \in DOMAIN seen : d \in Deals /\ seen[d] \in {"source", "target", ""}
        BY <3>1 DEF Answers
      <3> HIDE DEF seen
      <3>3. ASSUME NEW d \in Deals PROVE Follows(saga[d], saga'[d], Shown(d))
        <4>1. CASE d \notin DOMAIN seen
          BY <1>0, <2>2, <4>1 DEF Follows
        <4>2. CASE d \in DOMAIN seen
          <5>1. saga'[d] = Reconciled(saga[d], seen[d])
            BY <2>2, <4>2
          <5>2. saga[d].state # "none"
            BY <2>2, <4>2 DEF Expected
          <5> QED
            BY <1>0, <2>2, <3>1, <3>2, <4>2, <5>1, <5>2, ReconciledFine DEF Follows
        <4> QED
          BY <4>1, <4>2
      <3> QED
        BY <2>2, <3>3 DEF SagasFollow
    <2> QED
      BY <1>1, <2>1, <2>2 DEF RecordReadBack
  <1>2. CASE ClaimWrites(p)
    <2>1. saga' = [d \in Deals |->
                    IF d \in Claimable(p)
                    THEN Synced([saga[d] EXCEPT !.state = "smartup_write_started", !.row = "processing"])
                    ELSE saga[d]]
      BY <1>2 DEF ClaimWrites
    <2>2. ASSUME NEW d \in Deals PROVE Follows(saga[d], saga'[d], Shown(d))
      <3>1. CASE d \notin Claimable(p)
        BY <1>0, <2>1, <3>1 DEF Follows
      <3>2. CASE d \in Claimable(p)
        <4>1. saga[d].event = "intent_persisted" /\ saga[d].state \in {"local_ready", "smartup_ambiguous"}
          BY <3>2 DEF Claimable
        <4>2. saga'[d] = Synced([saga[d] EXCEPT !.state = "smartup_write_started", !.row = "processing"])
          BY <2>1, <3>2
        <4>3. saga'[d] \in Saga /\ Fine(saga'[d], Shown(d)) /\ saga'[d].state = "smartup_write_started"
          BY <1>0, <4>1, <4>2, ClaimedFine
        <4> QED
          BY <4>1, <4>3 DEF Follows
      <3> QED
        BY <3>1, <3>2
    <2> QED
      BY <2>1, <2>2 DEF SagasFollow
  <1>3. CASE RecordWrite(p)
    <2>1. CASE UNCHANGED saga
      BY <2>1, SagasStay
    <2>2. CASE /\ \A d \in proc[p].todo : saga[d].state = "smartup_write_started"
               /\ saga' = [d \in Deals |-> IF d \in proc[p].todo THEN Recorded(saga[d], d \in proc[p].ok) ELSE saga[d]]
      <3>1. \A d \in proc[p].ok : Shown(d) = "target"
        BY <1>0, <1>3 DEF RecordWrite, Tells
      <3>2. ASSUME NEW d \in Deals PROVE Follows(saga[d], saga'[d], Shown(d))
        <4>1. CASE d \notin proc[p].todo
          BY <1>0, <2>2, <4>1 DEF Follows
        <4>2. CASE d \in proc[p].todo
          <5>1. PICK ok \in BOOLEAN : ok <=> d \in proc[p].ok
            OBVIOUS
          <5>2. saga'[d] = Recorded(saga[d], ok)
            BY <2>2, <4>2, <5>1 DEF Recorded
          <5> QED
            BY <1>0, <2>2, <3>1, <4>2, <5>1, <5>2, RecordedFine DEF Follows
        <4> QED
          BY <4>1, <4>2
      <3> QED
        BY <2>2, <3>2 DEF SagasFollow
    <2> QED
      BY <1>3, <2>1, <2>2 DEF RecordWrite
  <1>4. CASE QueueAndMark(p)
    <2>1. saga' = [d \in Deals |-> IF d \in proc[p].work THEN Marked(saga[d], Queued(p)[d]) ELSE saga[d]]
      BY <1>4 DEF QueueAndMark
    <2>2. \A d \in Deals : Queued(p)[d] \in {"none"} \cup CreateStates
      BY <1>0 DEF Queued, RowTypes, CreateStates
    <2>3. ASSUME NEW d \in Deals PROVE Follows(saga[d], saga'[d], Shown(d))
      <3>1. CASE d \notin proc[p].work
        BY <1>0, <2>1, <3>1 DEF Follows
      <3>2. CASE d \in proc[p].work
        <4>1. PICK c \in {"none"} \cup CreateStates : c = Queued(p)[d]
          BY <2>2
        <4>2. saga'[d] = Marked(saga[d], c)
          BY <2>1, <3>2, <4>1
        <4>3. saga[d] \in Saga /\ Fine(saga[d], Shown(d))
          BY <1>0
        <4>4. /\ Marked(saga[d], c) \in Saga /\ Fine(Marked(saga[d], c), Shown(d))
              /\ saga[d].state # "none" => Marked(saga[d], c).state # "none"
              /\ saga[d].state = "none" /\ Marked(saga[d], c).state # "none" => Shown(d) = "target"
          BY <4>3, MarkedFine
        <4> QED
          BY <4>2, <4>4 DEF Follows
      <3> QED
        BY <3>1, <3>2
    <2> QED
      BY <2>1, <2>3 DEF SagasFollow
  <1> QED
    BY <1>1, <1>2, <1>3, <1>4

SkladBot(d) == SkladBotStarts(d) \/ SkladBotCreates(d) \/ SkladBotIsUnsure(d)

LEMMA SkladBotFollows ==
    ASSUME Inv, NEW d \in Deals, SkladBot(d)
    PROVE  SagasFollow /\ \A e \in Deals : saga'[e].event = saga[e].event
  <1>0. RowTypes /\ SagasFine /\ \A e \in Deals : saga[e] \in Saga /\ Fine(saga[e], Shown(e))
    BY DEF Inv, Types, RowTypes, SagasFine
  <1>1. PICK to \in CreateStates : saga' = IF saga[d].tied THEN [saga EXCEPT ![d].state = Aggregate[to]] ELSE saga
    BY DEF SkladBot, SkladBotStarts, SkladBotCreates, SkladBotIsUnsure, SkladBotStep, CreateStates
  <1>2. PICK st : st = Aggregate[to]
    OBVIOUS
  <1>3. st \in Past
    BY <1>2, AggregateIsPast
  <1>4. CASE ~saga[d].tied
    BY <1>1, <1>4, SagasStay
  <1>5. CASE saga[d].tied
    <2>1. saga' = [saga EXCEPT ![d] = [saga[d] EXCEPT !.state = st]]
      BY <1>0, <1>1, <1>2, <1>5
    <2>2. saga' = [e \in Deals |-> saga'[e]] /\ \A e \in Deals \ {d} : saga'[e] = saga[e]
      BY <1>0, <2>1 DEF RowTypes
    <2>3. saga'[d] = [saga[d] EXCEPT !.state = st]
      BY <1>0, <2>1 DEF RowTypes
    <2>4. Follows(saga[d], saga'[d], Shown(d)) /\ saga'[d].event = saga[d].event
      <3>1. saga[d].state # "none" /\ st # "none"
        BY <1>0, <1>3, <1>5 DEF Fine, Past
      <3> QED
        BY <1>0, <1>3, <1>5, <2>3, <3>1, FollowedFine DEF Follows
    <2> QED
      BY <1>0, <2>2, <2>4 DEF SagasFollow, Follows
  <1> QED
    BY <1>4, <1>5

\* No step takes a saga back to a state Smartup does not bear out.
LEMMA SagaStep == Inv /\ [Next]_vars => SagasFollow
  <1> SUFFICES ASSUME Inv, [Next]_vars PROVE SagasFollow
    OBVIOUS
  <1>1. ASSUME NEW p \in Processes, Worker(p) PROVE SagasFollow
    <2>1. \/ UNCHANGED saga
          \/ Recover(p) \/ PrepareDealSagas(p)
          \/ RecordReadBack(p) \/ ClaimWrites(p) \/ RecordWrite(p) \/ QueueAndMark(p)
      BY <1>1 DEF Worker, Sweep, ClaimSlot, ExportOrders, ReadBack, ReadIntents, ClaimedByOthers, NothingToWrite,
                  WriteAnswered, ClaimDelivery, SendFile, FileSent, ClaimReport, BuildReport, PostReport,
                  ImportDeal, dbVars
    <2> QED
      BY <2>1, SagasStay, PreparedStep, PassStep
  <1>2. ASSUME NEW p \in Processes, WriteUnanswered(p) \/ SendFails(p) \/ NetworkFails(p) \/ Crash(p)
        PROVE  SagasFollow
    BY <1>2, SagasStay DEF WriteUnanswered, SendFails, NetworkFails, Crash, dbVars
  <1>3. ASSUME NEW d \in Deals, Appear(d) \/ Leave(d) \/ PutBack(d) \/ ChatOrder(d) \/ WriteArrives(d) \/ PassTime
        PROVE  SagasFollow
    BY <1>3, SagasStay DEF Appear, Leave, PutBack, ChatOrder, WriteArrives, PassTime, dbVars
  <1>4. CASE PassTime \/ UNCHANGED vars
    BY <1>4, SagasStay DEF PassTime, dbVars, vars
  <1> QED
    BY <1>1, <1>2, <1>3, <1>4, SkladBotFollows DEF Next, SkladBot

-----------------------------------------------------------------------------
(***************************************************************************)
(* What a process is after its step.                                       *)
(***************************************************************************)

\* Process p moves, the others stay.
Turns(p) ==
    /\ proc' = [q \in Processes |-> proc'[q]]
    /\ \A q \in Processes \ {p} : proc'[q] = proc[q]
    /\ proc'[p] \in Process /\ Sound(proc'[p])

LEMMA Becomes ==
    ASSUME ProcTypes, NEW p \in Processes, NEW u \in Process, Sound(u), proc' = [proc EXCEPT ![p] = u]
    PROVE  Turns(p) /\ proc'[p] = u
  BY DEF ProcTypes, Turns

\* A process that stops, or whose slot fails or completes
LEMMA IdleIsSound == Idle \in Process /\ Sound(Idle)
  <1>1. Idle.seen \in Answers
    <2>1. [d \in {} |-> "none"] \in [{} -> {"source", "target", ""}]
      OBVIOUS
    <2>2. {} \in SUBSET Deals
      OBVIOUS
    <2> QED
      BY <2>1, <2>2 DEF Answers, Idle
  <1>2. Idle \in Process
    BY <1>1, SlotAssumption DEF Idle, Process
  <1> QED
    BY <1>2 DEF Idle, Sound, SlotSteps, PassSteps, ReportSteps, Slots

LEMMA Stops ==
    ASSUME ProcTypes, NEW p \in Processes, proc' = [proc EXCEPT ![p] = Idle]
    PROVE  Turns(p) /\ proc'[p] = Idle
  BY Becomes, IdleIsSound

LEMMA FailStops ==
    ASSUME RowTypes, ProcTypes, NEW p \in Processes, NEW rw \in {"failed", "blocked"}, Fail(p, rw)
    PROVE  /\ Turns(p) /\ proc'[p] = Idle
           /\ slot' \in [Slots -> Slot]
           /\ \A s \in Slots : slot'[s].deals = slot[s].deals
  <1>1. Turns(p) /\ proc'[p] = Idle
    BY Stops DEF Fail
  <1>2. CASE slot' = slot
    BY <1>1, <1>2 DEF RowTypes
  <1>3. CASE slot' = [slot EXCEPT ![proc[p].slot].row = rw]
    <2>1. PICK s : s = proc[p].slot
      OBVIOUS
    <2>2. slot' = [slot EXCEPT ![s].row = rw]
      BY <1>3, <2>1
    <2>3. PICK v : v = [slot[s] EXCEPT !.row = rw]
      OBVIOUS
    <2>4. slot' = [slot EXCEPT ![s] = v]
      BY <2>2, <2>3
    <2>5. s \in Slots => v \in Slot /\ v.deals = slot[s].deals
      BY <2>3 DEF RowTypes, Slot
    <2>6. slot' \in [Slots -> Slot] /\ \A t \in Slots : slot'[t].deals = slot[t].deals
      BY <2>4, <2>5 DEF RowTypes
    <2> QED
      BY <1>1, <2>6
  <1> QED
    BY <1>2, <1>3 DEF Fail

LEMMA CompleteStops ==
    ASSUME RowTypes, ProcTypes, NEW p \in Processes, NEW deals \in SUBSET Deals,
           NEW result \in {"no_orders", "completed", "completed_recovery"}, Complete(p, result, deals)
    PROVE  /\ Turns(p) /\ proc'[p] = Idle
           /\ slot' \in [Slots -> Slot]
           /\ \A s \in Slots : slot'[s].deals \in {slot[s].deals, deals}
  <1>1. Turns(p) /\ proc'[p] = Idle
    BY Stops DEF Complete
  <1>2. PICK r \in Slot : r = [row |-> "completed", result |-> result, deals |-> deals]
    BY DEF Slot
  <1>3. slot' = [slot EXCEPT ![proc[p].slot] = r]
    BY <1>2 DEF Complete
  <1>4. r.deals = deals
    BY <1>2
  <1> QED
    BY <1>1, <1>3, <1>4 DEF RowTypes

\* A step that changes nothing but where the process is.
LEMMA GotoTurns ==
    ASSUME ProcTypes, NEW p \in Processes, NEW c, Goto(p, c), c # "export",
           \/ c \in SlotSteps /\ proc[p].kind = "slot"
           \/ c \in PassSteps /\ proc[p].kind \in {"sweep", "slot", "recovery"}
           \/ c \in ReportSteps /\ proc[p].kind = "report"
    PROVE  Turns(p) /\ proc'[p] = [proc[p] EXCEPT !.pc = c]
  <1>1. PICK v : v = proc[p]
    OBVIOUS
  <1>2. v \in Process /\ Sound(v)
    BY <1>1, SlotOfProcess
  <1>3. PICK u : u = [v EXCEPT !.pc = c]
    OBVIOUS
  <1>4. u \in Process /\ u.pc = c /\ u.kind = v.kind /\ u.slot = v.slot
    BY <1>1, <1>2, <1>3 DEF Process
  <1>5. Sound(u)
    BY <1>1, <1>2, <1>4 DEF Sound, SlotSteps, PassSteps, ReportSteps
  <1>6. proc' = [proc EXCEPT ![p] = u]
    BY <1>1, <1>3 DEF Goto, ProcTypes
  <1> QED
    BY <1>1, <1>3, <1>4, <1>5, <1>6, Becomes

\* A step that keeps the kind, the slot and, unless it says so, the rest.
LEMMA UpdateTurns ==
    ASSUME ProcTypes, NEW p \in Processes, NEW u \in Process, proc' = [proc EXCEPT ![p] = u],
           u.slot = proc[p].slot,
           u.kind \in {"sweep", "slot", "recovery"},
           u.kind # "sweep" => u.slot \in Slots,
           u.kind = "sweep" => u.slot \notin Slots,
           \/ u.pc \in SlotSteps /\ u.kind = "slot" /\ (u.pc = "export" => u.work = {})
           \/ u.pc \in PassSteps
    PROVE  Turns(p) /\ proc'[p] = u
  <1>1. Sound(u)
    BY DEF Sound, SlotSteps, PassSteps, ReportSteps
  <1> QED
    BY <1>1, Becomes

LEMMA StartTurns ==
    ASSUME RowTypes, WorldTypes, ProcTypes, NEW p \in Processes
    PROVE  /\ \A deals \in SUBSET Deals : Sweep(p, deals) =>
                /\ Turns(p) /\ proc'[p].pc = "read" /\ proc'[p].kind = "sweep" /\ proc'[p].slot = 0
                /\ proc'[p].work = deals
           /\ ClaimSlot(p) => Turns(p) /\ proc'[p].pc = "orphans" /\ proc'[p].slot = now
           /\ ClaimReport(p) => UNCHANGED proc
                \/ (Turns(p) /\ proc'[p].pc = "build" /\ proc'[p].slot = 0 /\ proc'[p].kind = "report")
  <1>0. Idle \in Process /\ Sound(Idle) /\ Idle.slot = 0 /\ 0 \in 0..LastSlot /\ 0 \notin Slots
    BY IdleIsSound, SlotAssumption DEF Idle, Slots
  <1>1. ASSUME NEW deals \in SUBSET Deals, Sweep(p, deals)
        PROVE  /\ Turns(p) /\ proc'[p].pc = "read" /\ proc'[p].kind = "sweep" /\ proc'[p].slot = 0
               /\ proc'[p].work = deals
    <2>1. PICK u : u = [Idle EXCEPT !.pc = "read", !.kind = "sweep", !.work = deals]
      OBVIOUS
    <2>2. u \in Process /\ u.pc = "read" /\ u.kind = "sweep" /\ u.slot = 0 /\ u.work = deals
      BY <1>0, <2>1 DEF Process, PassSteps
    <2>3. Sound(u)
      BY <1>0, <2>2 DEF Sound, SlotSteps, PassSteps, ReportSteps
    <2>4. proc' = [proc EXCEPT ![p] = u]
      BY <1>1, <2>1 DEF Sweep
    <2> QED
      BY <2>2, <2>3, <2>4, Becomes
  <1>2. ASSUME ClaimSlot(p) PROVE Turns(p) /\ proc'[p].pc = "orphans" /\ proc'[p].slot = now
    <2>1. PICK u : u = [Idle EXCEPT !.pc = "orphans", !.kind = "slot", !.slot = now]
      OBVIOUS
    <2>2. now \in Slots /\ now \in 0..LastSlot
      BY <1>2, SlotAssumption DEF ClaimSlot, Slots
    <2>3. u \in Process /\ u.pc = "orphans" /\ u.kind = "slot" /\ u.slot = now
      BY <1>0, <2>1, <2>2 DEF Process, SlotSteps
    <2>4. Sound(u)
      BY <2>2, <2>3 DEF Sound, SlotSteps, PassSteps, ReportSteps
    <2>5. proc' = [proc EXCEPT ![p] = u]
      BY <1>2, <2>1 DEF ClaimSlot
    <2> QED
      BY <2>3, <2>4, <2>5, Becomes
  <1>3. ASSUME ClaimReport(p), proc' # proc
        PROVE  Turns(p) /\ proc'[p].pc = "build" /\ proc'[p].slot = 0 /\ proc'[p].kind = "report"
    <2>1. PICK u : u = [Idle EXCEPT !.pc = "build", !.kind = "report"]
      OBVIOUS
    <2>2. u \in Process /\ u.pc = "build" /\ u.kind = "report" /\ u.slot = 0
      BY <1>0, <2>1 DEF Process, ReportSteps
    <2>3. Sound(u)
      BY <1>0, <2>2 DEF Sound, SlotSteps, PassSteps, ReportSteps
    <2>4. proc' = [proc EXCEPT ![p] = u]
      BY <1>3, <2>1 DEF ClaimReport
    <2> QED
      BY <2>2, <2>3, <2>4, Becomes
  <1> QED
    BY <1>1, <1>2, <1>3

\* What stays of the record of a process when only its work changes.
Goes(p, u) ==
    /\ u.slot = proc[p].slot
    /\ \/ u.kind = proc[p].kind
       \/ {u.kind, proc[p].kind} \subseteq {"slot", "recovery"}
    /\ \/ u.pc \in SlotSteps /\ u.kind = "slot" /\ (u.pc = "export" => u.work = {})
       \/ u.pc \in PassSteps /\ u.kind \in {"sweep", "slot", "recovery"}

LEMMA GoesTurns ==
    ASSUME ProcTypes, NEW p \in Processes, NEW u \in Process, proc' = [proc EXCEPT ![p] = u], Goes(p, u)
    PROVE  Turns(p) /\ proc'[p] = u
  <1>1. proc[p].slot \in Slots <=> proc[p].kind \in {"slot", "recovery"}
    BY SMTT(30), SlotOfProcess DEF Sound
  <1> QED
    BY <1>1, UpdateTurns DEF Goes

LEMMA RecoverTurns ==
    ASSUME Types, NEW p \in Processes, Recover(p)
    PROVE  /\ Turns(p) /\ proc'[p].slot = proc[p].slot
           /\ proc'[p].pc = "export" \/ (proc'[p].pc = "read" /\ proc'[p].kind = "recovery")
           /\ \A d \in proc'[p].work : saga'[d].state # "none"
  <1>1. PICK v : v = proc[p]
    OBVIOUS
  <1>2. v \in Process /\ Sound(v) /\ v.pc = "orphans" /\ v.kind = "slot" /\ ProcTypes
    BY ZenonT(60), <1>1, SlotOfProcess DEF Types, Recover, At, Sound, SlotSteps
  <1>3. PICK open \in SUBSET Deals :
            /\ open = {d \in Deals : saga'[d].state # "none" /\ saga'[d].slot = v.slot /\ saga'[d].row # "completed"}
            /\ proc' = [proc EXCEPT ![p].work = open,
                                ![p].kind = IF open = {} THEN "slot" ELSE "recovery",
                                ![p].pc = IF open = {} THEN "export" ELSE "read"]
    BY ZenonT(60), <1>1 DEF Recover
  <1>4. PICK k, c : k = (IF open = {} THEN "slot" ELSE "recovery") /\ c = (IF open = {} THEN "export" ELSE "read")
    OBVIOUS
  <1>5. PICK u : u = [v EXCEPT !.work = open, !.kind = k, !.pc = c]
    OBVIOUS
  <1>6. proc' = [proc EXCEPT ![p] = u]
    BY ZenonT(60), <1>1, <1>2, <1>3, <1>4, <1>5 DEF ProcTypes, Process
  <1>7. u \in Process /\ u.work = open /\ u.kind = k /\ u.pc = c /\ u.slot = v.slot
    BY <1>2, <1>4, <1>5 DEF Process, SlotSteps, PassSteps
  <1>8. Goes(p, u)
    BY <1>1, <1>2, <1>4, <1>7 DEF Goes, SlotSteps, PassSteps
  <1> QED
    BY ZenonT(60), <1>1, <1>2, <1>3, <1>4, <1>6, <1>7, <1>8, GoesTurns

LEMMA ImportTurns ==
    ASSUME Types, NEW p \in Processes
    PROVE  /\ ExportOrders(p) /\ ~Complete(p, "no_orders", {}) =>
                /\ Turns(p) /\ slot' = slot /\ proc'[p].slot = proc[p].slot
                /\ proc'[p].pc = "import" /\ proc'[p].work = {} /\ proc'[p].kind = "slot"
                /\ proc'[p].todo = {d \in Deals : remote[d] = "source"}
                /\ proc'[p].export = proc'[p].todo
           /\ \A d \in Deals : ImportDeal(p, d) =>
                /\ Turns(p) /\ proc'[p].slot = proc[p].slot
                /\ proc'[p].pc = "import" /\ proc'[p].todo = proc[p].todo \ {d} /\ d \in proc[p].todo
                /\ proc'[p].work = IF Duplicate(d) THEN proc[p].work ELSE proc[p].work \cup {d}
                /\ proc'[p].export = proc[p].export
  <1>1. PICK v : v = proc[p]
    OBVIOUS
  <1>2. v \in Process /\ Sound(v) /\ ProcTypes
    BY <1>1, SlotOfProcess DEF Types
  <1>3. ASSUME ExportOrders(p), ~Complete(p, "no_orders", {})
        PROVE  /\ Turns(p) /\ slot' = slot /\ proc'[p].slot = proc[p].slot
               /\ proc'[p].pc = "import" /\ proc'[p].work = {} /\ proc'[p].kind = "slot"
               /\ proc'[p].todo = {d \in Deals : remote[d] = "source"}
               /\ proc'[p].export = proc'[p].todo
    <2>1. PICK new \in SUBSET Deals : new = {d \in Deals : remote[d] = "source"}
      OBVIOUS
    <2>2. proc' = [proc EXCEPT ![p].pc = "import", ![p].todo = new, ![p].export = new] /\ slot' = slot
      BY <1>3, <2>1 DEF ExportOrders
    <2>3. v.pc = "export" /\ v.kind = "slot" /\ v.work = {}
      BY <1>1, <1>2, <1>3 DEF ExportOrders, At, Sound, SlotSteps
    <2>4. PICK u : u = [v EXCEPT !.pc = "import", !.todo = new, !.export = new]
      OBVIOUS
    <2>5. proc' = [proc EXCEPT ![p] = u]
      BY <1>1, <1>2, <2>2, <2>4 DEF ProcTypes, Process
    <2>6. /\ u \in Process /\ u.work = {} /\ u.kind = "slot" /\ u.pc = "import" /\ u.slot = v.slot
          /\ u.todo = new /\ u.export = new
      BY <1>2, <2>3, <2>4 DEF Process, SlotSteps
    <2>7. Goes(p, u)
      BY <1>1, <2>3, <2>6 DEF Goes, SlotSteps
    <2> QED
      BY ZenonT(60), <1>1, <1>2, <2>1, <2>2, <2>5, <2>6, <2>7, GoesTurns
  <1>4. ASSUME NEW d \in Deals, ImportDeal(p, d)
        PROVE  /\ Turns(p) /\ proc'[p].slot = proc[p].slot
               /\ proc'[p].pc = "import" /\ proc'[p].todo = proc[p].todo \ {d} /\ d \in proc[p].todo
               /\ proc'[p].work = IF Duplicate(d) THEN proc[p].work ELSE proc[p].work \cup {d}
               /\ proc'[p].export = proc[p].export
    <2>1. PICK work : work = IF Duplicate(d) THEN v.work ELSE v.work \cup {d}
      OBVIOUS
    <2>2. PICK u : u = [v EXCEPT !.todo = v.todo \ {d}, !.work = work]
      OBVIOUS
    <2>3. v.pc = "import" /\ v.kind = "slot" /\ d \in v.todo
      BY <1>1, <1>2, <1>4 DEF ImportDeal, At, Sound, SlotSteps
    <2>4. proc' = [proc EXCEPT ![p] = u]
      BY <1>1, <1>2, <1>4, <2>1, <2>2 DEF ProcTypes, Process, ImportDeal
    <2>5. /\ u \in Process /\ u.work = work /\ u.kind = "slot" /\ u.pc = "import" /\ u.slot = v.slot
          /\ u.todo = v.todo \ {d} /\ u.export = v.export
      BY <1>2, <2>1, <2>2, <2>3 DEF Process
    <2>6. Goes(p, u)
      BY <1>1, <2>3, <2>5 DEF Goes, SlotSteps
    <2> QED
      BY <1>1, <1>2, <2>1, <2>3, <2>4, <2>5, <2>6, GoesTurns
  <1> QED
    BY <1>3, <1>4

\* A step that keeps the deals of the pass.
Keeps(p) ==
    /\ Turns(p)
    /\ proc'[p].slot = proc[p].slot /\ proc'[p].kind = proc[p].kind
    /\ proc'[p].work = proc[p].work /\ proc'[p].export = proc[p].export

LEMMA KeepsIfPasses ==
    ASSUME ProcTypes, NEW p \in Processes, proc[p].pc \in PassSteps,
           NEW u \in Process, proc' = [proc EXCEPT ![p] = u], u.pc \in PassSteps,
           u.slot = proc[p].slot, u.kind = proc[p].kind, u.work = proc[p].work, u.export = proc[p].export
    PROVE  Keeps(p) /\ proc'[p] = u
  <1>1. proc[p].kind \in {"sweep", "slot", "recovery"}
    BY SlotOfProcess DEF Sound
  <1>2. Goes(p, u)
    BY <1>1 DEF Goes
  <1> QED
    BY <1>2, GoesTurns DEF Keeps

LEMMA ReadBackTurns ==
    ASSUME Types, NEW p \in Processes, ReadBack(p)
    PROVE  /\ Keeps(p) /\ proc'[p].pc = "reread"
           /\ proc'[p].seen = [d \in ToReconcile(p) |-> Readable(d)]
  <1>1. PICK v : v = proc[p]
    OBVIOUS
  <1>2. v \in Process /\ ProcTypes /\ v.pc = "read"
    BY <1>1, SlotOfProcess DEF Types, ReadBack, At
  <1>3. PICK seen : seen = [d \in ToReconcile(p) |-> Readable(d)]
    OBVIOUS
  <1>4. seen \in Answers
    <2>1. ToReconcile(p) \in SUBSET Deals
      BY <1>1, <1>2 DEF ToReconcile, Process
    <2>2. \A d : Readable(d) \in {"source", "target", ""}
      BY DEF Readable
    <2>3. PICK deals \in SUBSET Deals : deals = ToReconcile(p)
      BY <2>1
    <2>4. seen \in [deals -> {"source", "target", ""}]
      BY <1>3, <2>2, <2>3
    <2> QED
      BY <2>4 DEF Answers
  <1>5. PICK u : u = [v EXCEPT !.pc = "reread", !.seen = seen]
    OBVIOUS
  <1>6. proc' = [proc EXCEPT ![p] = u]
    BY <1>1, <1>2, <1>3, <1>5 DEF ReadBack, ProcTypes, Process
  <1>7. /\ u \in Process /\ u.pc = "reread" /\ u.seen = seen
        /\ u.slot = v.slot /\ u.kind = v.kind /\ u.work = v.work /\ u.export = v.export
    BY <1>2, <1>4, <1>5 DEF Process, PassSteps
  <1> QED
    BY <1>1, <1>2, <1>3, <1>6, <1>7, KeepsIfPasses DEF PassSteps

LEMMA RecordReadBackTurns ==
    ASSUME Types, NEW p \in Processes, RecordReadBack(p)
    PROVE  \/ Fail(p, "failed") /\ saga' = saga
           \/ /\ Keeps(p) /\ proc'[p].pc = "claim" /\ slot' = slot
              /\ \A d \in DOMAIN proc[p].seen : saga[d].state \in Expected(proc[p].seen[d])
              /\ saga' = [d \in Deals |-> IF d \in DOMAIN proc[p].seen
                                          THEN Reconciled(saga[d], proc[p].seen[d]) ELSE saga[d]]
  <1>1. PICK v : v = proc[p]
    OBVIOUS
  <1>2. v \in Process /\ ProcTypes /\ v.pc = "reread"
    BY <1>1, SlotOfProcess DEF Types, RecordReadBack, At
  <1> SUFFICES ASSUME ~(Fail(p, "failed") /\ saga' = saga)
               PROVE  /\ Keeps(p) /\ proc'[p].pc = "claim" /\ slot' = slot
                      /\ \A d \in DOMAIN v.seen : saga[d].state \in Expected(v.seen[d])
                      /\ saga' = [d \in Deals |-> IF d \in DOMAIN v.seen
                                                  THEN Reconciled(saga[d], v.seen[d]) ELSE saga[d]]
    BY <1>1
  <1>3. /\ \A d \in DOMAIN v.seen : saga[d].state \in Expected(v.seen[d])
        /\ saga' = [d \in Deals |-> IF d \in DOMAIN v.seen THEN Reconciled(saga[d], v.seen[d]) ELSE saga[d]]
        /\ proc' = [proc EXCEPT ![p].pc = "claim", ![p].seen = Idle.seen] /\ slot' = slot
    BY <1>1 DEF RecordReadBack
  <1>4. PICK seen \in Answers : seen = Idle.seen
    BY IdleIsSound DEF Process
  <1>5. PICK u : u = [v EXCEPT !.pc = "claim", !.seen = seen]
    OBVIOUS
  <1>6. proc' = [proc EXCEPT ![p] = u]
    BY <1>1, <1>2, <1>3, <1>4, <1>5 DEF ProcTypes, Process
  <1>7. /\ u \in Process /\ u.pc = "claim"
        /\ u.slot = v.slot /\ u.kind = v.kind /\ u.work = v.work /\ u.export = v.export
    BY <1>2, <1>4, <1>5 DEF Process, PassSteps
  <1> QED
    BY <1>1, <1>2, <1>3, <1>6, <1>7, KeepsIfPasses DEF PassSteps

LEMMA TodoTurns ==
    ASSUME Types, NEW p \in Processes
    PROVE  /\ ReadIntents(p) => Keeps(p) /\ proc'[p].pc = "lock" /\ proc'[p].todo = Intents(p)
           /\ ClaimWrites(p) => Keeps(p) /\ proc'[p].pc = "write" /\ proc'[p].todo = Claimable(p)
           /\ ClaimedByOthers(p) => Keeps(p) /\ proc'[p].pc = "read"
  <1>1. PICK v : v = proc[p]
    OBVIOUS
  <1>2. v \in Process /\ ProcTypes
    BY <1>1, SlotOfProcess DEF Types
  <1>3. ASSUME NEW c \in PassSteps, NEW deals \in SUBSET Deals, v.pc \in PassSteps,
               proc' = [proc EXCEPT ![p].pc = c, ![p].todo = deals]
        PROVE  Keeps(p) /\ proc'[p].pc = c /\ proc'[p].todo = deals
    <2>1. PICK u : u = [v EXCEPT !.pc = c, !.todo = deals]
      OBVIOUS
    <2>2. proc' = [proc EXCEPT ![p] = u]
      BY <1>1, <1>2, <1>3, <2>1 DEF ProcTypes, Process
    <2>3. /\ u \in Process /\ u.pc = c /\ u.todo = deals
          /\ u.slot = v.slot /\ u.kind = v.kind /\ u.work = v.work /\ u.export = v.export
      BY <1>2, <2>1 DEF Process
    <2> QED
      BY <1>1, <1>2, <1>3, <2>2, <2>3, KeepsIfPasses
  <1>4. Intents(p) \in SUBSET Deals /\ Claimable(p) \in SUBSET Deals /\ {} \in SUBSET Deals
    BY <1>1, <1>2 DEF Intents, Claimable, Process
  <1>5. ASSUME ReadIntents(p) PROVE Keeps(p) /\ proc'[p].pc = "lock" /\ proc'[p].todo = Intents(p)
    <2>1. v.pc \in PassSteps /\ "lock" \in PassSteps
      BY <1>1, <1>5 DEF ReadIntents, Ready, At, PassSteps
    <2>2. proc' = [proc EXCEPT ![p].pc = "lock", ![p].todo = Intents(p)]
      BY <1>5 DEF ReadIntents
    <2> QED
      BY <1>3, <1>4, <2>1, <2>2
  <1>6. ASSUME ClaimWrites(p) PROVE Keeps(p) /\ proc'[p].pc = "write" /\ proc'[p].todo = Claimable(p)
    <2>1. v.pc \in PassSteps /\ "write" \in PassSteps
      BY <1>1, <1>6 DEF ClaimWrites, At, PassSteps
    <2>2. proc' = [proc EXCEPT ![p].pc = "write", ![p].todo = Claimable(p)]
      BY <1>6 DEF ClaimWrites
    <2> QED
      BY <1>3, <1>4, <2>1, <2>2
  <1>7. ASSUME ClaimedByOthers(p) PROVE Keeps(p) /\ proc'[p].pc = "read"
    <2>1. v.pc \in PassSteps /\ "read" \in PassSteps
      BY <1>1, <1>7 DEF ClaimedByOthers, At, PassSteps
    <2>2. proc' = [proc EXCEPT ![p].pc = "read", ![p].todo = {}]
      BY <1>7 DEF ClaimedByOthers
    <2> QED
      BY <1>3, <1>4, <2>1, <2>2
  <1> QED
    BY <1>5, <1>6, <1>7

LEMMA ResultTurns ==
    ASSUME Types, NEW p \in Processes, NEW c \in {"record", "queue"}, NEW ok \in SUBSET Deals, NEW bad \in BOOLEAN,
           proc[p].pc \in PassSteps,
           proc' = [proc EXCEPT ![p].pc = c, ![p].ok = ok, ![p].bad = bad]
    PROVE  Keeps(p) /\ proc'[p].pc = c /\ proc'[p].ok = ok /\ proc'[p].bad = bad /\ proc'[p].todo = proc[p].todo
  <1>1. PICK v : v = proc[p]
    OBVIOUS
  <1>2. v \in Process /\ ProcTypes
    BY <1>1, SlotOfProcess DEF Types
  <1>3. PICK u : u = [v EXCEPT !.pc = c, !.ok = ok, !.bad = bad]
    OBVIOUS
  <1>4. proc' = [proc EXCEPT ![p] = u]
    BY <1>1, <1>2, <1>3 DEF ProcTypes, Process
  <1>5. /\ u \in Process /\ u.pc = c /\ u.ok = ok /\ u.bad = bad /\ u.todo = v.todo
        /\ u.slot = v.slot /\ u.kind = v.kind /\ u.work = v.work /\ u.export = v.export
    BY <1>2, <1>3 DEF Process, PassSteps
  <1> QED
    BY ZenonT(60), <1>1, <1>2, <1>4, <1>5, KeepsIfPasses DEF PassSteps

LEMMA RecordWriteTurns ==
    ASSUME Types, NEW p \in Processes, RecordWrite(p)
    PROVE  \/ Fail(p, "failed") /\ saga' = saga
           \/ /\ Keeps(p) /\ proc'[p].pc = "queue" /\ slot' = slot
              /\ proc'[p].ok = Successes(p)
              /\ \A d \in proc[p].todo : saga[d].state = "smartup_write_started"
              /\ saga' = [d \in Deals |-> IF d \in proc[p].todo
                                          THEN Recorded(saga[d], d \in proc[p].ok) ELSE saga[d]]
  <1>1. PICK v : v = proc[p]
    OBVIOUS
  <1>2. v \in Process /\ ProcTypes /\ v.pc = "record"
    BY <1>1, SlotOfProcess DEF Types, RecordWrite, At
  <1> SUFFICES ASSUME ~(Fail(p, "failed") /\ saga' = saga)
               PROVE  /\ Keeps(p) /\ proc'[p].pc = "queue" /\ slot' = slot
                      /\ proc'[p].ok = Successes(p)
                      /\ \A d \in proc[p].todo : saga[d].state = "smartup_write_started"
                      /\ saga' = [d \in Deals |-> IF d \in proc[p].todo
                                                  THEN Recorded(saga[d], d \in proc[p].ok) ELSE saga[d]]
    OBVIOUS
  <1>3. /\ \A d \in proc[p].todo : saga[d].state = "smartup_write_started"
        /\ saga' = [d \in Deals |-> IF d \in proc[p].todo THEN Recorded(saga[d], d \in proc[p].ok) ELSE saga[d]]
        /\ proc' = [proc EXCEPT ![p].pc = "queue", ![p].todo = {}, ![p].ok = Successes(p)] /\ slot' = slot
    BY DEF RecordWrite
  <1>4. PICK ok \in SUBSET Deals : ok = Successes(p)
    BY <1>1, <1>2 DEF Successes, Process
  <1>5. PICK u : u = [v EXCEPT !.pc = "queue", !.todo = {}, !.ok = ok]
    OBVIOUS
  <1>6. proc' = [proc EXCEPT ![p] = u]
    BY <1>1, <1>2, <1>3, <1>4, <1>5 DEF ProcTypes, Process
  <1>7. /\ u \in Process /\ u.pc = "queue" /\ u.ok = ok
        /\ u.slot = v.slot /\ u.kind = v.kind /\ u.work = v.work /\ u.export = v.export
    BY <1>2, <1>4, <1>5 DEF Process, PassSteps
  <1> QED
    BY <1>1, <1>2, <1>3, <1>4, <1>6, <1>7, KeepsIfPasses DEF PassSteps

LEMMA KeepsIfGoes ==
    ASSUME ProcTypes, NEW p \in Processes, proc[p].kind = "slot", NEW c \in SlotSteps \cup PassSteps, c # "export",
           Goto(p, c)
    PROVE  Keeps(p) /\ proc'[p].pc = c
  <1>1. Turns(p) /\ proc'[p] = [proc[p] EXCEPT !.pc = c]
    BY GotoTurns
  <1>2. proc[p] \in Process
    BY SlotOfProcess
  <1> QED
    BY <1>1, <1>2 DEF Keeps, Process

-----------------------------------------------------------------------------
(***************************************************************************)
(* Smartup, and the rows besides the sagas.                                *)
(***************************************************************************)

RemoteGrows ==
    /\ remote' \in [Deals -> {"absent", "source", "target", "other"}]
    /\ back' \in [Deals -> {"none", "target", "other"}]
    /\ \A d \in Deals : /\ Shown(d) = "target" => Shown(d)' = "target"
                        /\ Shown(d) # "absent" => Shown(d)' # "absent"

\* A step by which no deal disappears, and by which a target becomes at most a
\* deal that was put back.
LEMMA StaysShown ==
    ASSUME remote' \in [Deals -> {"absent", "source", "target", "other"}],
           back' \in [Deals -> {"none", "target", "other"}],
           \A d \in Deals : /\ remote[d] # "absent" => remote'[d] # "absent"
                            /\ remote[d] = "target" => remote'[d] = "target" \/ back'[d] = "target"
                            /\ back[d] = "target" => back'[d] = "target"
    PROVE  RemoteGrows
  <1>1. ASSUME NEW d \in Deals
        PROVE  /\ Shown(d) = "target" => Shown(d)' = "target"
               /\ Shown(d) # "absent" => Shown(d)' # "absent"
    <2>1. Shown(d) = IF remote[d] = "target" \/ back[d] = "target" THEN "target" ELSE remote[d]
      BY DEF Shown, Reached
    <2>2. Shown(d)' = IF remote'[d] = "target" \/ back'[d] = "target" THEN "target" ELSE remote'[d]
      BY DEF Shown, Reached
    <2> QED
      BY <2>1, <2>2
  <1> QED
    BY <1>1 DEF RemoteGrows

LEMMA WrittenGrows ==
    ASSUME WorldTypes, NEW deals, \A d \in deals : remote[d] \in {"source", "target"},
           remote' = Written(deals), back' = back
    PROVE  RemoteGrows /\ \A d \in deals \cap Deals : Shown(d)' = "target"
  <1>1. RemoteGrows
    BY StaysShown DEF WorldTypes, Written
  <1>2. \A d \in deals \cap Deals : Shown(d)' = "target"
    BY DEF Written, Shown, Reached
  <1> QED
    BY <1>1, <1>2

\* Whatever arrives late or is put back, a deal once shown in the target status was.
LEMMA RemoteStep == Types /\ [Next]_vars => RemoteGrows
  <1> SUFFICES ASSUME Types, [Next]_vars PROVE RemoteGrows
    OBVIOUS
  <1>0. WorldTypes
    BY DEF Types
  <1>1. CASE UNCHANGED <<remote, back>>
    BY <1>0, <1>1, StaysShown DEF WorldTypes
  <1>2. ASSUME NEW p \in Processes, WriteAnswered(p) PROVE RemoteGrows
    BY <1>0, <1>2, WrittenGrows DEF WriteAnswered
  <1>3. ASSUME NEW p \in Processes, WriteUnanswered(p) PROVE RemoteGrows
    <2>1. PICK applied \in SUBSET {d \in proc[p].todo : remote[d] = "source"} :
              remote' = Written(applied) /\ back' = back
      BY <1>3 DEF WriteUnanswered
    <2> QED
      BY <1>0, <2>1, WrittenGrows
  <1>4. ASSUME NEW d \in Deals, WriteArrives(d) PROVE RemoteGrows
    <2>1. CASE remote[d] = "source"
      <3>1. remote' = Written({d})
        BY <1>4, <2>1 DEF WriteArrives
      <3>2. back' = back
        BY <1>4 DEF WriteArrives
      <3> QED
        BY <1>0, <2>1, <3>1, <3>2, WrittenGrows
    <2> QED
      BY <1>1, <1>4, <2>1 DEF WriteArrives
  <1>5. ASSUME NEW d \in Deals, Appear(d) \/ Leave(d) \/ PutBack(d) PROVE RemoteGrows
    <2>1. /\ remote' \in [Deals -> {"absent", "source", "target", "other"}]
          /\ back' \in [Deals -> {"none", "target", "other"}]
      BY SMTT(30), <1>0, <1>5 DEF Appear, Leave, PutBack, WorldTypes
    <2>2. \A e \in Deals : /\ remote[e] # "absent" => remote'[e] # "absent"
                           /\ remote[e] = "target" => remote'[e] = "target" \/ back'[e] = "target"
                           /\ back[e] = "target" => back'[e] = "target"
      BY SMTT(30), <1>0, <1>5 DEF Appear, Leave, PutBack, WorldTypes
    <2> QED
      BY <2>1, <2>2, StaysShown
  <1>6. ASSUME NEW p \in Processes, Worker(p) PROVE RemoteGrows
    <2>1. UNCHANGED <<remote, back>> \/ WriteAnswered(p)
      BY Zenon, <1>6 DEF Worker, Sweep, ClaimSlot, Recover, ExportOrders, PrepareDealSagas, ReadBack, RecordReadBack,
                  ReadIntents, ClaimWrites, ClaimedByOthers, NothingToWrite, RecordWrite, QueueAndMark,
                  ClaimDelivery, SendFile, FileSent, ClaimReport, BuildReport, PostReport, ImportDeal, worldVars
    <2> QED
      BY <1>1, <1>2, <2>1
  <1>7. \A p \in Processes : SendFails(p) \/ NetworkFails(p) \/ Crash(p) => UNCHANGED <<remote, back>>
    BY DEF SendFails, NetworkFails, Crash, worldVars
  <1>8. \A d \in Deals : SkladBot(d) \/ ChatOrder(d) => UNCHANGED <<remote, back>>
    BY DEF ChatOrder, SkladBot, SkladBotStarts, SkladBotCreates, SkladBotIsUnsure, SkladBotStep, worldVars
  <1>9. PassTime => UNCHANGED <<remote, back>>
    BY DEF PassTime
  <1> QED
    BY <1>1, <1>2, <1>3, <1>4, <1>5, <1>6, <1>7, <1>8, <1>9 DEF Next, SkladBot, vars

CreateGrows ==
    /\ create' \in [Deals -> {"none", "queued", "started", "created", "ambiguous"}]
    /\ \A d \in Deals : /\ create[d] # "none" => create'[d] # "none"
                        /\ create[d] = "created" => create'[d] = "created"

\* A create event is never taken back.
LEMMA CreateStep == Types /\ [Next]_vars => CreateGrows
  <1> SUFFICES ASSUME Types, [Next]_vars PROVE CreateGrows
    OBVIOUS
  <1>0. RowTypes
    BY DEF Types
  <1>1. CASE UNCHANGED create
    BY <1>0, <1>1 DEF RowTypes, CreateGrows
  <1>2. ASSUME NEW p \in Processes, QueueAndMark(p) PROVE CreateGrows
    BY <1>0, <1>2 DEF QueueAndMark, Queued, RowTypes, CreateGrows
  <1>3. ASSUME NEW d \in Deals, SkladBot(d) PROVE CreateGrows
    BY SMTT(30), <1>0, <1>3 DEF SkladBot, SkladBotStarts, SkladBotCreates, SkladBotIsUnsure, SkladBotStep,
       RowTypes, CreateGrows
  <1>4. ASSUME NEW p \in Processes, Worker(p), ~QueueAndMark(p) PROVE UNCHANGED create
    BY Zenon, <1>4 DEF Worker, Sweep, ClaimSlot, Recover, ExportOrders, PrepareDealSagas, ReadBack, RecordReadBack,
                ReadIntents, ClaimWrites, ClaimedByOthers, NothingToWrite, WriteAnswered, RecordWrite,
                ClaimDelivery, SendFile, FileSent, ClaimReport, BuildReport, PostReport, ImportDeal, dbVars
  <1>5. \A p \in Processes : WriteUnanswered(p) \/ SendFails(p) \/ NetworkFails(p) \/ Crash(p) => UNCHANGED create
    BY DEF WriteUnanswered, SendFails, NetworkFails, Crash, dbVars
  <1>6. \A d \in Deals : Appear(d) \/ Leave(d) \/ PutBack(d) \/ WriteArrives(d) => UNCHANGED create
    BY DEF Appear, Leave, PutBack, WriteArrives, dbVars
  <1>7. PassTime => UNCHANGED create
    BY DEF PassTime, dbVars
  <1>8. ASSUME NEW d \in Deals, ChatOrder(d) PROVE CreateGrows
    BY SMTT(30), <1>0, <1>8 DEF ChatOrder, RowTypes, CreateGrows
  <1> QED
    BY <1>1, <1>2, <1>3, <1>4, <1>5, <1>6, <1>7, <1>8 DEF Next, SkladBot, vars

\* The steps that write the row of a delivery
LEMMA DeliveryFrame ==
    ASSUME [Next]_vars
    PROVE  UNCHANGED delivery \/ \E p \in Processes : ClaimDelivery(p) \/ FileSent(p) \/ SendFails(p)
  <1>1. ASSUME NEW p \in Processes, Worker(p), ~ClaimDelivery(p), ~FileSent(p) PROVE UNCHANGED delivery
    BY Zenon, <1>1 DEF Worker, Sweep, ClaimSlot, Recover, ExportOrders, PrepareDealSagas, ReadBack, RecordReadBack,
                ReadIntents, ClaimWrites, ClaimedByOthers, NothingToWrite, WriteAnswered, RecordWrite,
                QueueAndMark, SendFile, ClaimReport, BuildReport, PostReport, ImportDeal, dbVars
  <1>2. \A p \in Processes : WriteUnanswered(p) \/ NetworkFails(p) \/ Crash(p) => UNCHANGED delivery
    BY DEF WriteUnanswered, NetworkFails, Crash, dbVars
  <1>3. \A d \in Deals : Appear(d) \/ Leave(d) \/ PutBack(d) \/ ChatOrder(d) \/ WriteArrives(d) \/ SkladBot(d) => UNCHANGED delivery
    BY DEF Appear, Leave, PutBack, ChatOrder, WriteArrives, SkladBot, SkladBotStarts, SkladBotCreates, SkladBotIsUnsure,
           SkladBotStep, dbVars
  <1>4. PassTime => UNCHANGED delivery
    BY DEF PassTime, dbVars
  <1> QED
    BY <1>1, <1>2, <1>3, <1>4 DEF Next, SkladBot, vars

DeliveryGrows ==
    /\ delivery' \in [Slots -> {"none", "started", "completed", "blocked"}]
    /\ \A s \in Slots : delivery[s] # "none" => delivery'[s] # "none"

\* Neither is the claim of a delivery.
LEMMA DeliveryStep == Types /\ [Next]_vars => DeliveryGrows
  <1> SUFFICES ASSUME Types, [Next]_vars PROVE DeliveryGrows
    OBVIOUS
  <1>0. RowTypes
    BY DEF Types
  <1>1. CASE UNCHANGED delivery
    BY <1>0, <1>1 DEF RowTypes, DeliveryGrows
  <1>2. ASSUME NEW p \in Processes, ClaimDelivery(p) \/ FileSent(p) \/ SendFails(p) PROVE DeliveryGrows
    <2>1. PICK s : s = proc[p].slot
      OBVIOUS
    <2>2. delivery' \in {delivery, [delivery EXCEPT ![s] = "started"], [delivery EXCEPT ![s] = "completed"],
                         [delivery EXCEPT ![s] = "blocked"]}
      <3>1. CASE ClaimDelivery(p)
        BY Zenon, <2>1, <3>1 DEF ClaimDelivery
      <3>2. CASE FileSent(p)
        BY <2>1, <3>2 DEF FileSent
      <3>3. CASE SendFails(p)
        BY <2>1, <3>3 DEF SendFails
      <3> QED
        BY <1>2, <3>1, <3>2, <3>3
    <2> QED
      BY <1>0, <2>2 DEF RowTypes, DeliveryGrows
  <1> QED
    BY <1>1, <1>2, DeliveryFrame

-----------------------------------------------------------------------------
(***************************************************************************)
(* What a process knows after its step, and after the step of another.     *)
(***************************************************************************)

Grown == RemoteGrows /\ CreateGrows /\ DeliveryGrows /\ SagasFollow

LEMMA StepGrows == Inv /\ [Next]_vars => Grown
  BY RemoteStep, CreateStep, DeliveryStep, SagaStep DEF Grown, Inv

LEMMA CoveredGrows ==
    ASSUME Grown
    PROVE  \A d \in Deals : Covered(d) => Covered(d)'
  BY DEF Grown, RemoteGrows, CreateGrows, Covered

\* A process that did not move knows what it knew, unless its file was touched.
LEMMA StillTells ==
    ASSUME Inv, Grown, NEW p \in Processes, proc'[p] = proc[p],
           At(p, "send") => file'[proc[p].slot] = file[proc[p].slot]
    PROVE  Knows(p)' /\ Tells(p)'
  <1>0. Knows(p) /\ Tells(p) /\ proc[p] \in Process /\ (At(p, "send") => proc[p].slot \in Slots)
    BY SlotOfProcess DEF Inv, Types, At, SlotSteps
  <1>1. Knows(p)'
    BY <1>0 DEF Knows, At, Grown, RemoteGrows, SagasFollow, Follows, Process
  <1>2. /\ At(p, "reread") => \A d \in DOMAIN proc[p].seen : d \in Deals
        /\ At(p, "record") => \A d \in proc[p].ok : d \in Deals
        /\ \A d \in proc[p].work : d \in Deals
    BY <1>0 DEF Process, Answers
  <1>3. \A d \in Deals : Covered(d) => Covered(d)'
    BY CoveredGrows
  <1>4. Tells(p)'
    BY ZenonT(60), <1>0, <1>2, <1>3 DEF Tells, At, Grown, RemoteGrows, DeliveryGrows
  <1> QED
    BY <1>1, <1>4

LEMMA IdleTells ==
    ASSUME NEW p \in Processes, proc'[p] = Idle
    PROVE  Knows(p)' /\ Tells(p)'
  BY DEF Knows, Tells, At, Idle, PassSteps

\* Only deals that are covered enter the result of a slot.
SlotsGood == slot' \in [Slots -> Slot] /\ SlotsCovered'

LEMMA SlotsStay ==
    ASSUME Inv, Grown, slot' \in [Slots -> Slot],
           \A s \in Slots : \A d \in slot'[s].deals : d \in slot[s].deals \/ Covered(d)'
    PROVE  SlotsGood
  <1>1. \A s \in Slots : slot'[s] \in Slot /\ slot[s] \in Slot
    BY DEF Inv, Types, RowTypes
  <1>2. \A s \in Slots : \A d \in slot'[s].deals : d \in Deals
    BY <1>1 DEF Slot
  <1> QED
    BY <1>2, CoveredGrows DEF Inv, SlotsCovered, SlotsGood

LEMMA SameSlots ==
    ASSUME Inv, Grown, slot' = slot
    PROVE  SlotsGood
  BY SlotsStay DEF Inv, Types, RowTypes

\* What is shown of every step of a process
Acts(p) ==
    /\ Turns(p) \/ UNCHANGED proc
    /\ proc'[p].slot \in {0, proc[p].slot} \/ ClaimSlot(p)
    /\ Knows(p)' /\ Tells(p)'
    /\ SlotsGood

\* The ends of a process: a slot that fails, one that completes, a process that dies
LEMMA FailActs ==
    ASSUME Inv, Grown, NEW p \in Processes, NEW rw \in {"failed", "blocked"}, Fail(p, rw)
    PROVE  Acts(p)
  <1>1. /\ Turns(p) /\ proc'[p] = Idle /\ slot' \in [Slots -> Slot]
        /\ \A s \in Slots : slot'[s].deals = slot[s].deals
    BY FailStops DEF Inv, Types
  <1> QED
    BY <1>1, IdleTells, SlotsStay DEF Acts, Idle

LEMMA CompleteActs ==
    ASSUME Inv, Grown, NEW p \in Processes, NEW deals \in SUBSET Deals, \A d \in deals : Covered(d)',
           NEW result \in {"no_orders", "completed", "completed_recovery"}, Complete(p, result, deals)
    PROVE  Acts(p)
  <1>1. /\ Turns(p) /\ proc'[p] = Idle /\ slot' \in [Slots -> Slot]
        /\ \A s \in Slots : slot'[s].deals \in {slot[s].deals, deals}
    BY CompleteStops DEF Inv, Types
  <1> QED
    BY <1>1, IdleTells, SlotsStay DEF Acts, Idle

LEMMA IdleActs ==
    ASSUME Inv, Grown, NEW p \in Processes, proc' = [proc EXCEPT ![p] = Idle], slot' = slot
    PROVE  Acts(p)
  <1>1. Turns(p) /\ proc'[p] = Idle
    BY Stops DEF Inv, Types
  <1>2. Idle.slot = 0
    BY DEF Idle
  <1> QED
    BY <1>1, <1>2, IdleTells, SameSlots DEF Acts

\* The starts of a process
LEMMA StartActs ==
    ASSUME Inv, Grown, NEW p \in Processes,
           \/ \E deals \in SUBSET Deals : Sweep(p, deals)
           \/ ClaimSlot(p) \/ ClaimReport(p)
    PROVE  Acts(p)
  <1>0. RowTypes /\ WorldTypes /\ ProcTypes
    BY DEF Inv, Types
  <1>1. ASSUME NEW deals \in SUBSET Deals, Sweep(p, deals) PROVE Acts(p)
    <2>1. /\ Turns(p) /\ proc'[p].pc = "read" /\ proc'[p].slot = 0 /\ proc'[p].work = deals
      BY <1>0, <1>1, StartTurns
    <2>2. \A d \in deals : saga[d].state # "none"
      BY <1>1 DEF Sweep, Recoverable, RecoverableStates
    <2>3. Knows(p)'
      BY <2>1, <2>2 DEF Knows, At, Grown, SagasFollow, Follows
    <2>4. Tells(p)'
      BY <2>1 DEF Tells, At
    <2>5. slot' = slot
      BY <1>1 DEF Sweep, dbVars
    <2> QED
      BY <2>1, <2>3, <2>4, <2>5, SameSlots DEF Acts
  <1>2. CASE ClaimSlot(p)
    <2>1. Turns(p) /\ proc'[p].pc = "orphans"
      BY <1>0, <1>2, StartTurns
    <2>2. Knows(p)' /\ Tells(p)'
      BY <2>1 DEF Knows, Tells, At, PassSteps
    <2>3. slot' \in [Slots -> Slot] /\ \A s \in Slots : slot'[s].deals = slot[s].deals
      <3>1. slot' = [slot EXCEPT ![now].row = "processing"]
        BY <1>2 DEF ClaimSlot
      <3> QED
        BY ZenonT(60), <1>0, <3>1 DEF RowTypes, Slot
    <2> QED
      BY <1>2, <2>1, <2>2, <2>3, SlotsStay DEF Acts
  <1>3. CASE ClaimReport(p)
    <2>1. slot' = slot
      BY <1>3 DEF ClaimReport
    <2>2. CASE UNCHANGED proc
      <3>1. ~At(p, "send")
        BY <1>3 DEF ClaimReport, At
      <3> QED
        BY <2>1, <2>2, <3>1, StillTells, SameSlots DEF Acts
    <2>3. CASE Turns(p) /\ proc'[p].pc = "build" /\ proc'[p].slot = 0
      <3>1. Knows(p)' /\ Tells(p)'
        BY <2>3 DEF Knows, Tells, At, PassSteps
      <3> QED
        BY <2>1, <2>3, <3>1, SameSlots DEF Acts
    <2> QED
      BY <1>0, <1>3, <2>2, <2>3, StartTurns
  <1> QED
    BY <1>1, <1>2, <1>3

\* A slot until its pass begins
LEMMA ImportActs ==
    ASSUME Inv, Grown, NEW p \in Processes,
           \/ Recover(p) \/ ExportOrders(p) \/ PrepareDealSagas(p)
           \/ \E d \in Deals : ImportDeal(p, d)
    PROVE  Acts(p)
  <1>0. Types /\ RowTypes /\ WorldTypes /\ ProcTypes /\ SagasFine /\ Knows(p)
    BY DEF Inv, Types
  <1>1. CASE Recover(p)
    <2>1. /\ Turns(p) /\ proc'[p].slot = proc[p].slot /\ proc'[p].pc \in {"export", "read"}
          /\ \A d \in proc'[p].work : saga'[d].state # "none"
      BY <1>0, <1>1, RecoverTurns
    <2>2. Knows(p)' /\ Tells(p)'
      BY ZenonT(60), <2>1 DEF Knows, Tells, At, PassSteps
    <2>3. slot' = slot
      BY Zenon, <1>1 DEF Recover
    <2> QED
      BY <2>1, <2>2, <2>3, SameSlots DEF Acts
  <1>2. CASE ExportOrders(p)
    <2>1. CASE Complete(p, "no_orders", {})
      BY <2>1, CompleteActs
    <2>2. CASE ~Complete(p, "no_orders", {})
      <3>1. /\ Turns(p) /\ slot' = slot /\ proc'[p].slot = proc[p].slot
            /\ proc'[p].pc = "import" /\ proc'[p].work = {}
            /\ proc'[p].todo = {d \in Deals : remote[d] = "source"}
        BY <1>0, <1>2, <2>2, ImportTurns
      <3>2. \A d \in proc'[p].todo : d \in Deals /\ Shown(d) # "absent"
        BY <3>1 DEF Shown
      <3>3. Knows(p)' /\ Tells(p)'
        BY <3>1, <3>2 DEF Knows, Tells, At, PassSteps, Grown, RemoteGrows
      <3> QED
        BY <3>1, <3>3, SameSlots DEF Acts
    <2> QED
      BY <2>1, <2>2
  <1>3. CASE PrepareDealSagas(p)
    <2>1. proc[p].kind = "slot" /\ At(p, "import") /\ proc[p].work \in SUBSET Deals /\ proc[p].slot \in 0..LastSlot
      BY <1>0, <1>3, SlotOfProcess DEF PrepareDealSagas, At, Sound, SlotSteps, Process
    <2>2. Keeps(p) /\ proc'[p].pc = "read"
      BY <1>0, <1>3, <2>1, KeepsIfGoes DEF PrepareDealSagas, PassSteps
    <2>3. \A d \in proc[p].work : saga'[d].state # "none"
      <3>1. \A d \in proc[p].work : Shown(d) # "absent"
        BY <1>0, <2>1 DEF Knows
      <3> QED
        BY <1>0, <1>3, <2>1, <3>1, PreparedFollows DEF PrepareDealSagas
    <2>4. Knows(p)' /\ Tells(p)'
      BY <2>2, <2>3 DEF Knows, Tells, At, Keeps
    <2>5. slot' = slot
      BY <1>3 DEF PrepareDealSagas
    <2> QED
      BY <2>2, <2>4, <2>5, SameSlots DEF Acts, Keeps
  <1>4. ASSUME NEW d \in Deals, ImportDeal(p, d) PROVE Acts(p)
    <2>1. /\ Turns(p) /\ proc'[p].slot = proc[p].slot
          /\ proc'[p].pc = "import" /\ proc'[p].todo \cup proc'[p].work \subseteq proc[p].todo \cup proc[p].work
          /\ proc[p].todo \cup proc[p].work \subseteq Deals
      <3>1. /\ Turns(p) /\ proc'[p].slot = proc[p].slot
            /\ proc'[p].pc = "import" /\ proc'[p].todo = proc[p].todo \ {d} /\ d \in proc[p].todo
            /\ proc'[p].work = IF Duplicate(d) THEN proc[p].work ELSE proc[p].work \cup {d}
        BY <1>0, <1>4, ImportTurns
      <3>2. proc[p].todo \subseteq Deals /\ proc[p].work \subseteq Deals
        BY <1>0, SlotOfProcess DEF Process
      <3> QED
        BY <3>1, <3>2
    <2>2. Knows(p)' /\ Tells(p)'
      BY <1>0, <1>4, <2>1 DEF Knows, Tells, At, PassSteps, ImportDeal, Grown, RemoteGrows
    <2>3. slot' = slot
      BY <1>4 DEF ImportDeal
    <2> QED
      BY <2>1, <2>2, <2>3, SameSlots DEF Acts
  <1> QED
    BY <1>1, <1>2, <1>3, <1>4

LEMMA KeepsKnows ==
    ASSUME Inv, Grown, NEW p \in Processes, Keeps(p), proc[p].pc \in PassSteps, proc'[p].pc # "import"
    PROVE  Knows(p)'
  <1>1. proc[p].work \subseteq Deals /\ Knows(p)
    BY SlotOfProcess DEF Inv, Types, Process
  <1> QED
    BY <1>1 DEF Knows, At, Keeps, Grown, SagasFollow, Follows

\* A pass until its results
LEMMA PassActs ==
    ASSUME Inv, Grown, NEW p \in Processes,
           \/ ReadBack(p) \/ RecordReadBack(p) \/ ReadIntents(p) \/ ClaimWrites(p) \/ ClaimedByOthers(p)
           \/ NothingToWrite(p) \/ WriteAnswered(p) \/ RecordWrite(p)
    PROVE  Acts(p)
  <1>0. Types /\ RowTypes /\ WorldTypes /\ ProcTypes /\ Known /\ Knows(p) /\ Tells(p) /\ proc[p] \in Process
    BY SMTT(30), SlotOfProcess DEF Inv, Types
  <1>1. proc[p].pc \in PassSteps
    BY DEF ReadBack, RecordReadBack, ReadIntents, ClaimWrites, ClaimedByOthers, NothingToWrite, WriteAnswered,
           RecordWrite, Ready, At, PassSteps
  <1>2. ASSUME Keeps(p), proc'[p].pc # "import", Tells(p)', slot' = slot PROVE Acts(p)
    BY <1>1, <1>2, KeepsKnows, SameSlots DEF Acts, Keeps
  <1>3. CASE ReadBack(p)
    <2>1. Keeps(p) /\ proc'[p].pc = "reread" /\ proc'[p].seen = [d \in ToReconcile(p) |-> Readable(d)]
      BY <1>0, <1>3, ReadBackTurns
    <2>2. ASSUME NEW d \in ToReconcile(p)
          PROVE  Readable(d) = "target" => Shown(d)' = "target"
      <3>1. d \in Deals
        BY <1>0, <2>2 DEF ToReconcile, Process
      <3>2. Readable(d) = "target" => Shown(d) = "target"
        BY DEF Readable, Shown
      <3> QED
        BY <3>1, <3>2 DEF Grown, RemoteGrows
    <2>3. Tells(p)'
      BY <2>1, <2>2 DEF Tells, At
    <2>4. slot' = slot
      BY <1>3 DEF ReadBack, dbVars
    <2> QED
      BY <1>2, <2>1, <2>3, <2>4
  <1>4. CASE RecordReadBack(p)
    <2>1. CASE Fail(p, "failed")
      BY <2>1, FailActs
    <2>2. CASE Keeps(p) /\ proc'[p].pc = "claim" /\ slot' = slot
      BY <1>2, <2>2 DEF Tells, At
    <2> QED
      BY <1>0, <1>4, <2>1, <2>2, RecordReadBackTurns
  <1>5. CASE ReadIntents(p) \/ ClaimWrites(p) \/ ClaimedByOthers(p)
    <2>1. Keeps(p) /\ proc'[p].pc \in {"lock", "write", "read"}
      BY SMTT(30), <1>0, <1>5, TodoTurns
    <2>2. slot' = slot
      BY <1>5 DEF ReadIntents, ClaimWrites, ClaimedByOthers, dbVars
    <2>3. Tells(p)'
      BY <2>1 DEF Tells, At
    <2> QED
      BY <1>2, <2>1, <2>2, <2>3
  <1>6. CASE NothingToWrite(p)
    <2>1. PICK ok \in SUBSET Deals : ok = {d \in proc[p].work : saga[d].event \in RemoteConfirmed}
      BY <1>0 DEF Process
    <2>2. PICK bad \in BOOLEAN : bad <=> ok # proc[p].work
      OBVIOUS
    <2>3. proc' = [proc EXCEPT ![p].pc = "queue", ![p].ok = ok, ![p].bad = bad] /\ slot' = slot
      BY <1>6, <2>1, <2>2 DEF NothingToWrite, dbVars
    <2>4. Keeps(p) /\ proc'[p].pc = "queue"
      BY <1>0, <1>1, <2>3, ResultTurns
    <2> QED
      BY <1>2, <2>3, <2>4 DEF Tells, At
  <1>7. CASE WriteAnswered(p)
    <2>1. PICK ok \in SUBSET {d \in proc[p].todo : remote[d] \in {"source", "target"}} :
              /\ remote' = Written(ok) /\ back' = back
              /\ proc' = [proc EXCEPT ![p].pc = "record", ![p].ok = ok, ![p].bad = ok # proc[p].todo]
      BY <1>7 DEF WriteAnswered
    <2>2. PICK bad \in BOOLEAN : bad <=> ok # proc[p].todo
      OBVIOUS
    <2>3. ok \in SUBSET Deals /\ proc' = [proc EXCEPT ![p].pc = "record", ![p].ok = ok, ![p].bad = bad]
      BY <1>0, <2>1, <2>2 DEF Process
    <2>4. Keeps(p) /\ proc'[p].pc = "record" /\ proc'[p].ok = ok
      BY <1>0, <1>1, <2>3, ResultTurns
    <2>5. \A d \in ok : Shown(d)' = "target"
      BY <1>0, <2>1, <2>3, WrittenGrows
    <2>6. slot' = slot
      BY <1>7 DEF WriteAnswered, dbVars
    <2> QED
      BY <1>2, <2>4, <2>5, <2>6 DEF Tells, At
  <1>8. CASE RecordWrite(p)
    <2>1. CASE Fail(p, "failed")
      BY <2>1, FailActs
    <2>2. CASE Keeps(p) /\ proc'[p].pc = "queue" /\ slot' = slot
      BY <1>2, <2>2 DEF Tells, At
    <2> QED
      BY <1>0, <1>8, <2>1, <2>2, RecordWriteTurns
  <1> QED
    BY <1>3, <1>4, <1>5, <1>6, <1>7, <1>8

\* A pass is complete when all its deals are confirmed and have a create event.
LEMMA QueueActs ==
    ASSUME Inv, Grown, NEW p \in Processes, QueueAndMark(p)
    PROVE  Acts(p)
  <1>0. /\ Types /\ RowTypes /\ ProcTypes /\ proc[p] \in Process /\ Sound(proc[p]) /\ SagasFine
        /\ At(p, "queue") /\ proc[p].kind \in {"sweep", "slot", "recovery"}
    BY SlotOfProcess DEF Inv, Types, QueueAndMark, At, Sound, PassSteps
  <1>1. PICK marked :
            /\ marked = [d \in Deals |-> IF d \in proc[p].work THEN Marked(saga[d], Queued(p)[d]) ELSE saga[d]]
            /\ create' = Queued(p)
            /\ CASE proc[p].kind = "sweep" -> proc' = [proc EXCEPT ![p] = Idle] /\ slot' = slot
                 [] proc[p].kind # "sweep" /\ ~AllDone(p, marked) -> Fail(p, "failed")
                 [] proc[p].kind = "recovery" /\ AllDone(p, marked) -> Complete(p, "completed_recovery", proc[p].work)
                 [] proc[p].kind = "slot" /\ AllDone(p, marked) -> Goto(p, "deliver") /\ slot' = slot
    BY DEF QueueAndMark
  <1>2. ASSUME AllDone(p, marked), NEW d \in proc[p].work PROVE Covered(d)'
    <2>1. d \in Deals /\ saga[d] \in Saga /\ Fine(saga[d], Shown(d))
      BY <1>0, <1>2 DEF Process, RowTypes, SagasFine
    <2>2. PICK c : c = Queued(p)[d]
      OBVIOUS
    <2>3. c \in {"none"} \cup CreateStates
      BY <1>0, <2>1, <2>2 DEF Queued, RowTypes, CreateStates
    <2>4. Marked(saga[d], c).event = "skladbot_queued"
      BY <1>1, <1>2, <2>1, <2>2 DEF AllDone
    <2>5. c # "none" /\ Shown(d) = "target"
      BY <2>1, <2>3, <2>4, MarkedFine
    <2> QED
      BY <1>1, <2>1, <2>2, <2>5 DEF Covered, Grown, RemoteGrows
  <1>3. CASE proc' = [proc EXCEPT ![p] = Idle] /\ slot' = slot
    BY <1>3, IdleActs
  <1>4. CASE Fail(p, "failed")
    BY <1>4, FailActs
  <1>5. CASE AllDone(p, marked) /\ Complete(p, "completed_recovery", proc[p].work)
    BY <1>0, <1>2, <1>5, CompleteActs DEF Process
  <1>6. CASE AllDone(p, marked) /\ proc[p].kind = "slot" /\ Goto(p, "deliver") /\ slot' = slot
    <2>1. Keeps(p) /\ proc'[p].pc = "deliver"
      BY <1>0, <1>6, KeepsIfGoes DEF SlotSteps
    <2>2. Knows(p)'
      BY <2>1 DEF Knows, At, PassSteps
    <2>3. Tells(p)'
      BY <1>2, <1>6, <2>1 DEF Tells, At, Keeps
    <2> QED
      BY <1>6, <2>1, <2>2, <2>3, SameSlots DEF Acts, Keeps
  <1> QED
    BY <1>0, <1>1, <1>3, <1>4, <1>5, <1>6

\* The claim and the sending of a file
LEMMA DeliverActs ==
    ASSUME Inv, Grown, NEW p \in Processes,
           ClaimDelivery(p) \/ SendFile(p) \/ FileSent(p) \/ SendFails(p)
    PROVE  Acts(p)
  <1>0. /\ Types /\ RowTypes /\ ProcTypes /\ proc[p] \in Process /\ Sound(proc[p]) /\ Tells(p) /\ Files
        /\ proc[p].pc \in {"deliver", "send", "sent"} /\ proc[p].kind = "slot" /\ proc[p].slot \in Slots
        /\ proc[p].work \in SUBSET Deals
    BY SlotOfProcess DEF Inv, Types, ClaimDelivery, SendFile, FileSent, SendFails, At, Sound, SlotSteps, Process
  <1>1. \A d \in proc[p].work : Covered(d)'
    BY <1>0, CoveredGrows DEF Tells
  <1>2. ASSUME NEW c \in {"send", "sent"}, Goto(p, c), slot' = slot,
               c = "send" => delivery'[proc[p].slot] # "none" /\ file'[proc[p].slot] = <<>>
        PROVE  Acts(p)
    <2>1. Keeps(p) /\ proc'[p].pc = c
      BY <1>0, <1>2, KeepsIfGoes DEF SlotSteps
    <2>2. Knows(p)'
      BY <1>2, <2>1 DEF Knows, At, PassSteps
    <2>3. Tells(p)'
      BY <1>1, <1>2, <2>1 DEF Tells, At, Keeps
    <2> QED
      BY <1>2, <2>1, <2>2, <2>3, SameSlots DEF Acts, Keeps
  <1>3. CASE ClaimDelivery(p)
    <2>1. CASE Unclaimed(proc[p].slot)
      <3>1. /\ delivery' = [delivery EXCEPT ![proc[p].slot] = "started"] /\ Goto(p, "send") /\ slot' = slot
            /\ file' = file /\ delivery[proc[p].slot] = "none"
        BY <1>3, <2>1 DEF ClaimDelivery, Unclaimed, worldVars
      <3>2. delivery'[proc[p].slot] # "none" /\ file'[proc[p].slot] = <<>>
        BY <1>0, <3>1 DEF RowTypes, Files
      <3> QED
        BY <1>2, <3>1, <3>2
    <2>2. CASE Complete(p, "completed", proc[p].work)
      BY <1>0, <1>1, <2>2, CompleteActs
    <2>3. CASE Fail(p, "blocked")
      BY <2>3, FailActs
    <2> QED
      BY <1>3, <2>1, <2>2, <2>3 DEF ClaimDelivery
  <1>4. CASE SendFile(p)
    BY <1>2, <1>4 DEF SendFile, dbVars
  <1>5. CASE FileSent(p)
    BY <1>0, <1>1, <1>5, CompleteActs DEF FileSent
  <1>6. CASE SendFails(p)
    BY <1>6, FailActs DEF SendFails
  <1> QED
    BY <1>3, <1>4, <1>5, <1>6

\* The report of the logistics
LEMMA ReportActs ==
    ASSUME Inv, Grown, NEW p \in Processes, BuildReport(p) \/ PostReport(p)
    PROVE  Acts(p)
  <1>0. ProcTypes /\ proc[p] \in Process /\ Sound(proc[p]) /\ proc[p].kind = "report"
    BY SlotOfProcess DEF Inv, Types, BuildReport, PostReport, At, Sound, ReportSteps
  <1>1. slot' = slot
    BY DEF BuildReport, PostReport
  <1>2. CASE proc' = [proc EXCEPT ![p] = Idle]
    BY <1>1, <1>2, IdleActs
  <1>3. CASE Goto(p, "post")
    <2>1. Turns(p) /\ proc'[p] = [proc[p] EXCEPT !.pc = "post"]
      BY <1>0, <1>3, GotoTurns DEF ReportSteps
    <2>2. proc'[p].pc = "post" /\ proc'[p].slot = proc[p].slot
      BY <1>0, <2>1 DEF Process
    <2>3. Knows(p)' /\ Tells(p)'
      BY <2>2 DEF Knows, Tells, At, PassSteps
    <2> QED
      BY <1>1, <2>1, <2>2, <2>3, SameSlots DEF Acts
  <1> QED
    BY <1>2, <1>3 DEF BuildReport, PostReport

-----------------------------------------------------------------------------
(***************************************************************************)
(* A step of a process, with what it does to the files of the client.      *)
(***************************************************************************)

Actor(p) == Worker(p) \/ WriteUnanswered(p) \/ SendFails(p) \/ NetworkFails(p) \/ Crash(p)
World(d) ==
    Appear(d) \/ Leave(d) \/ PutBack(d) \/ ChatOrder(d) \/ WriteArrives(d) \/ SkladBot(d)

LEMMA ActorActs ==
    ASSUME Inv, Grown, NEW p \in Processes, Actor(p)
    PROVE  Acts(p)
  <1>1. CASE WriteUnanswered(p)
    BY <1>1, FailActs DEF WriteUnanswered
  <1>2. CASE NetworkFails(p)
    BY <1>2, FailActs DEF NetworkFails
  <1>3. CASE Crash(p)
    BY Zenon, <1>3, IdleActs DEF Crash, dbVars
  <1>4. CASE SendFails(p)
    BY <1>4, DeliverActs
  <1>5. CASE Worker(p)
    BY <1>5, StartActs, ImportActs, PassActs, QueueActs, DeliverActs, ReportActs DEF Worker
  <1> QED
    BY <1>1, <1>2, <1>3, <1>4, <1>5 DEF Actor

\* The slot of a file is that of the process that sends it.
Copy(p) == [deals |-> proc[p].export, imported |-> proc[p].work]
Sends(p) == At(p, "send") /\ Received(p)

LEMMA ActorSends ==
    ASSUME NEW p \in Processes, Actor(p)
    PROVE  UNCHANGED file \/ Sends(p)
  <1>1. CASE Worker(p)
    BY Zenon, <1>1 DEF Worker, Sweep, ClaimSlot, Recover, ExportOrders, PrepareDealSagas, ReadBack, RecordReadBack,
                ReadIntents, ClaimWrites, ClaimedByOthers, NothingToWrite, WriteAnswered, RecordWrite, QueueAndMark,
                ClaimDelivery, SendFile, FileSent, ClaimReport, BuildReport, PostReport, ImportDeal, worldVars, Sends
  <1>2. CASE WriteUnanswered(p) \/ SendFails(p) \/ NetworkFails(p) \/ Crash(p)
    BY <1>2 DEF WriteUnanswered, SendFails, NetworkFails, Crash, worldVars, Sends
  <1> QED
    BY <1>1, <1>2 DEF Actor

FilesGood == file' \in [Slots -> Seq(File)] /\ Files'

LEMMA SameFiles ==
    ASSUME Inv, Grown, UNCHANGED file
    PROVE  FilesGood
  <1>1. \A s \in Slots : delivery'[s] = "none" => delivery[s] = "none"
    BY DEF Grown, DeliveryGrows
  <1> QED
    BY <1>1 DEF Inv, Types, WorldTypes, Files, FilesGood

\* The file of a slot is empty when the process that owns the slot sends it, and no
\* other process is about to.
LEMMA SentOnce ==
    ASSUME Inv, Grown, NEW p \in Processes, Sends(p)
    PROVE  /\ FilesGood
           /\ \A q \in Processes \ {p} : At(q, "send") => file'[proc[q].slot] = file[proc[q].slot]
  <1>0. /\ file \in [Slots -> Seq(File)] /\ Files /\ SlotLock
        /\ proc[p] \in Process /\ proc[p].slot \in Slots
        /\ delivery[proc[p].slot] # "none" /\ file[proc[p].slot] = <<>>
    BY SlotOfProcess DEF Inv, Types, WorldTypes, Sends, At, SlotSteps, Tells
  <1>1. PICK s \in Slots, f \in File : s = proc[p].slot /\ f = Copy(p)
    BY <1>0 DEF Process, Copy, File
  <1>2. file' = [file EXCEPT ![s] = <<f>>]
    <2>1. Append(<<>>, f) = <<f>>
      OBVIOUS
    <2>2. file' = [file EXCEPT ![s] = Append(@, f)] /\ file[s] = <<>>
      BY <1>0, <1>1 DEF Sends, Received, Copy
    <2> QED
      BY <2>1, <2>2
  <1>3. <<f>> \in Seq(File) /\ Len(<<f>>) = 1
    BY <1>1
  <1>4. \A t \in Slots : file'[t] = IF t = s THEN <<f>> ELSE file[t]
    BY <1>0, <1>2
  <1>5. file' \in [Slots -> Seq(File)]
    BY <1>0, <1>2, <1>3
  <1>6. delivery'[s] # "none" /\ \A t \in Slots : delivery'[t] = "none" => delivery[t] = "none"
    BY <1>0, <1>1 DEF Grown, DeliveryGrows
  <1>7. Files'
    <2>1. ASSUME NEW t \in Slots
          PROVE  Len(file'[t]) <= 1 /\ (delivery'[t] = "none" => file'[t] = <<>>)
      <3>1. CASE t = s
        <4>1. file'[t] = <<f>> /\ delivery'[t] # "none"
          BY <1>4, <1>6, <3>1
        <4>2. Len(file'[t]) = 1
          BY <1>3, <4>1
        <4> QED
          BY <4>1, <4>2
      <3>2. CASE t # s
        <4>1. file'[t] = file[t] /\ Len(file[t]) <= 1 /\ (delivery[t] = "none" => file[t] = <<>>)
          BY <1>0, <1>4, <3>2 DEF Files
        <4> QED
          BY <1>6, <4>1
      <3> QED
        BY <3>1, <3>2
    <2> QED
      BY <2>1 DEF Files
  <1>8. \A q \in Processes \ {p} : At(q, "send") => proc[q].slot \in Slots /\ proc[q].slot # s
    BY <1>0, <1>1, SlotOfProcess DEF Inv, Types, At, SlotSteps, SlotLock, Slots
  <1> QED
    BY <1>4, <1>5, <1>7, <1>8 DEF FilesGood

-----------------------------------------------------------------------------
(***************************************************************************)
(* The invariant is kept.                                                  *)
(***************************************************************************)

\* What the processes and their slots and files satisfy after any step
LEMMA ProcessesStep ==
    ASSUME Inv, [Next]_vars
    PROVE  /\ ProcTypes' /\ SlotLock'
           /\ \A q \in Processes : Knows(q)' /\ Tells(q)'
           /\ SlotsGood /\ FilesGood
  <1>0. Grown /\ ProcTypes
    BY StepGrows DEF Inv, Types
  <1>1. ASSUME NEW p \in Processes, Actor(p)
        PROVE  /\ ProcTypes' /\ SlotLock'
               /\ \A q \in Processes : Knows(q)' /\ Tells(q)'
               /\ SlotsGood /\ FilesGood
    <2>1. Acts(p) /\ (UNCHANGED file \/ Sends(p))
      BY <1>0, <1>1, ActorActs, ActorSends
    <2>2. FilesGood
      BY <1>0, <2>1, SameFiles, SentOnce
    <2>3. \A q \in Processes \ {p} : proc'[q] = proc[q]
      BY <2>1 DEF Acts, Turns
    <2>4. \A q \in Processes : Knows(q)' /\ Tells(q)'
      <3>1. \A q \in Processes \ {p} : At(q, "send") => file'[proc[q].slot] = file[proc[q].slot]
        BY <1>0, <2>1, SentOnce
      <3>2. \A q \in Processes \ {p} : Knows(q)' /\ Tells(q)'
        BY <1>0, <2>3, <3>1, StillTells
      <3> QED
        BY <2>1, <3>2 DEF Acts
    <2>5. ProcTypes'
      BY <1>0, <2>1, <2>3 DEF Acts, Turns, ProcTypes
    <2>6. SlotLock'
      <3>1. \A q \in Processes \ {p} : proc'[p].slot = proc[q].slot => proc'[p].slot = 0
        <4>1. CASE proc'[p].slot \in {0, proc[p].slot}
          BY <4>1 DEF Inv, SlotLock
        <4>2. CASE ClaimSlot(p)
          <5>1. proc'[p].slot = now /\ \A q \in Processes : proc[q].slot # now
            BY <4>2, StartTurns DEF Inv, Types, ClaimSlot
          <5> QED
            BY <5>1
        <4> QED
          BY <2>1, <4>1, <4>2 DEF Acts
      <3> QED
        BY <2>3, <3>1 DEF Inv, SlotLock
    <2> QED
      BY <2>1, <2>2, <2>4, <2>5, <2>6 DEF Acts
  <1>2. CASE UNCHANGED <<proc, slot, file>>
    <2>1. \A q \in Processes : Knows(q)' /\ Tells(q)'
      BY <1>0, <1>2, StillTells
    <2>2. ProcTypes' /\ SlotLock'
      BY <1>2 DEF Inv, Types, ProcTypes, SlotLock
    <2> QED
      BY <1>0, <1>2, <2>1, <2>2, SameSlots, SameFiles
  <1>3. ASSUME NEW d \in Deals, World(d) PROVE UNCHANGED <<proc, slot, file>>
    BY <1>3 DEF World, Appear, Leave, PutBack, ChatOrder, WriteArrives, SkladBot, SkladBotStarts, SkladBotCreates, SkladBotIsUnsure,
                SkladBotStep, dbVars, worldVars
  <1>4. CASE PassTime \/ UNCHANGED vars
    BY <1>2, <1>4 DEF PassTime, dbVars, vars
  <1> QED
    BY <1>1, <1>2, <1>3, <1>4 DEF Next, Actor, World, SkladBot

\* An import job is written for a deal that was in the export.
LEMMA JobsStep ==
    ASSUME Inv, [Next]_vars
    PROVE  /\ jobs' \in [Deals -> SUBSET ({Chat} \cup Slots)]
           /\ \A d \in Deals : jobs'[d] # {} => Shown(d)' # "absent"
  <1>0. Grown /\ RowTypes /\ Known
    BY StepGrows DEF Inv, Types
  <1>1. CASE UNCHANGED jobs
    BY <1>0, <1>1 DEF RowTypes, Known, Grown, RemoteGrows
  <1>2. ASSUME NEW p \in Processes, NEW d \in Deals, ImportDeal(p, d)
        PROVE  /\ jobs' \in [Deals -> SUBSET ({Chat} \cup Slots)]
               /\ \A e \in Deals : jobs'[e] # {} => Shown(e)' # "absent"
    <2>1. proc[p].slot \in Slots /\ Shown(d) # "absent"
      BY <1>2, SlotOfProcess DEF Inv, Types, ImportDeal, At, SlotSteps, Knows
    <2>2. PICK s \in Slots : s = proc[p].slot
      BY <2>1
    <2>3. jobs' = jobs \/ jobs' = [jobs EXCEPT ![d] = {s}]
      BY <1>2, <2>2 DEF ImportDeal
    <2>4. CASE jobs' = [jobs EXCEPT ![d] = {s}]
      BY SMTT(30), <1>0, <2>1, <2>4 DEF RowTypes, Known, Grown, RemoteGrows
    <2> QED
      BY <1>1, <2>3, <2>4
  <1>3. ASSUME NEW p \in Processes, Actor(p), \A d \in Deals : ~ImportDeal(p, d) PROVE UNCHANGED jobs
    BY Zenon, <1>3 DEF Actor, Worker, Sweep, ClaimSlot, Recover, ExportOrders, PrepareDealSagas, ReadBack,
       RecordReadBack,
                ReadIntents, ClaimWrites, ClaimedByOthers, NothingToWrite, WriteAnswered, RecordWrite, QueueAndMark,
                ClaimDelivery, SendFile, FileSent, ClaimReport, BuildReport, PostReport, dbVars,
                WriteUnanswered, SendFails, NetworkFails, Crash
  <1>4. ASSUME NEW d \in Deals, World(d), ~ChatOrder(d) PROVE UNCHANGED jobs
    BY <1>4 DEF World, Appear, Leave, PutBack, WriteArrives, SkladBot, SkladBotStarts, SkladBotCreates, SkladBotIsUnsure,
                SkladBotStep, dbVars
  <1>5. CASE PassTime \/ UNCHANGED vars
    BY <1>1, <1>5 DEF PassTime, dbVars, vars
  <1>6. ASSUME NEW d \in Deals, ChatOrder(d)
        PROVE  /\ jobs' \in [Deals -> SUBSET ({Chat} \cup Slots)]
               /\ \A e \in Deals : jobs'[e] # {} => Shown(e)' # "absent"
    <2>1. jobs' = [jobs EXCEPT ![d] = {Chat}] /\ remote[d] # "absent"
      BY <1>6 DEF ChatOrder
    <2>2. Shown(d) # "absent"
      BY <2>1 DEF Shown
    <2> QED
      BY SMTT(30), <1>0, <2>1, <2>2 DEF RowTypes, Known, Grown, RemoteGrows
  <1> QED
    BY <1>1, <1>2, <1>3, <1>4, <1>5, <1>6 DEF Next, Actor, World, SkladBot

\* The rest of the state
LEMMA RestStep ==
    ASSUME Inv, [Next]_vars
    PROVE  /\ flying' \subseteq Deals /\ unread' \subseteq Deals /\ now' \in 1..Evening
           /\ report' \in {"none", "processing", "failed", "started", "completed", "blocked"}
  <1>0. WorldTypes /\ RowTypes /\ \A p \in Processes : proc[p].todo \subseteq Deals
    BY SMTT(30), SlotOfProcess DEF Inv, Types, Process
  <1>1. ASSUME NEW p \in Processes, Actor(p), ~WriteUnanswered(p) PROVE UNCHANGED <<flying, now>>
    BY ZenonT(60), <1>1 DEF Actor, Worker, Sweep, ClaimSlot, Recover, ExportOrders, PrepareDealSagas, ReadBack,
       RecordReadBack,
                ReadIntents, ClaimWrites, ClaimedByOthers, NothingToWrite, WriteAnswered, RecordWrite, QueueAndMark,
                ClaimDelivery, SendFile, FileSent, ClaimReport, BuildReport, PostReport, ImportDeal, worldVars,
                SendFails, NetworkFails, Crash
  <1>2. ASSUME NEW p \in Processes, WriteUnanswered(p)
        PROVE  flying' \subseteq Deals /\ unread' \subseteq Deals /\ UNCHANGED <<now, report>>
    BY <1>0, <1>2 DEF WriteUnanswered, WorldTypes
  <1>3. ASSUME NEW p \in Processes, Actor(p), ~WriteUnanswered(p) PROVE unread' \subseteq unread \cup proc[p].todo
    BY ZenonT(60), <1>3 DEF Actor, Worker, Sweep, ClaimSlot, Recover, ExportOrders, PrepareDealSagas, ReadBack,
       RecordReadBack,
                ReadIntents, ClaimWrites, ClaimedByOthers, NothingToWrite, WriteAnswered, RecordWrite, QueueAndMark,
                ClaimDelivery, SendFile, FileSent, ClaimReport, BuildReport, PostReport, ImportDeal, worldVars,
                SendFails, NetworkFails, Crash
  <1>4. ASSUME NEW p \in Processes, Actor(p)
        PROVE  report' \in {report, "processing", "blocked", "started", "failed", "completed"}
    BY Zenon, <1>4 DEF Actor, Worker, Sweep, ClaimSlot, Recover, ExportOrders, PrepareDealSagas, ReadBack,
       RecordReadBack,
                ReadIntents, ClaimWrites, ClaimedByOthers, NothingToWrite, WriteAnswered, RecordWrite, QueueAndMark,
                ClaimDelivery, SendFile, FileSent, ClaimReport, BuildReport, PostReport, ImportDeal, dbVars,
                WriteUnanswered, SendFails, NetworkFails, Crash
  <1>5. ASSUME NEW p \in Processes, Actor(p)
        PROVE  /\ flying' \subseteq Deals /\ unread' \subseteq Deals /\ now' = now
               /\ report' \in {report, "processing", "blocked", "started", "failed", "completed"}
    BY <1>0, <1>1, <1>2, <1>3, <1>4, <1>5 DEF WorldTypes
  <1>6. ASSUME NEW d \in Deals, World(d)
        PROVE  flying' \subseteq flying /\ UNCHANGED <<unread, now, report>>
    BY <1>6 DEF World, Appear, Leave, PutBack, ChatOrder, WriteArrives, SkladBot, SkladBotStarts, SkladBotCreates, SkladBotIsUnsure,
                SkladBotStep, dbVars, worldVars
  <1>7. CASE PassTime
    <2>1. now' \in 1..Evening
      BY <1>0, <1>7, SlotAssumption DEF PassTime, WorldTypes, Evening
    <2> QED
      BY <1>0, <1>7, <2>1 DEF PassTime, WorldTypes, RowTypes, dbVars
  <1>8. CASE UNCHANGED vars
    BY <1>0, <1>8 DEF WorldTypes, RowTypes, vars
  <1> QED
    BY <1>0, <1>5, <1>6, <1>7, <1>8 DEF Next, Actor, World, SkladBot, WorldTypes, RowTypes

\* The day begins with nothing known and nothing claimed.
LEMMA InvInit == Init => Inv
  <1> SUFFICES ASSUME Init PROVE Inv
    OBVIOUS
  <1>1. WorldTypes
    <2>1. <<>> \in Seq(File)
      OBVIOUS
    <2>2. 1 \in 1..Evening
      BY SlotAssumption DEF Evening
    <2> QED
      BY <2>1, <2>2 DEF Init, WorldTypes
  <1>2. NoSaga \in Saga /\ \A r : Fine(NoSaga, r)
    BY SlotAssumption DEF NoSaga, Saga, States, EventStates, Fine, Past, RemoteConfirmed
  <1>3. NewSlot \in Slot /\ NewSlot.deals = {}
    BY DEF NewSlot, Slot
  <1>4. RowTypes
    BY <1>2, <1>3 DEF Init, RowTypes
  <1>5. ProcTypes
    BY IdleIsSound DEF Init, ProcTypes
  <1>6. \A p \in Processes : proc[p] = Idle
    BY DEF Init
  <1>7. SlotLock /\ \A p \in Processes : Knows(p) /\ Tells(p)
    <2>1. Idle.pc = "idle" /\ Idle.slot = 0
      BY DEF Idle
    <2>2. \A p \in Processes : proc[p].pc = "idle" /\ proc[p].slot = 0
      BY <1>6, <2>1
    <2> QED
      BY <2>2 DEF SlotLock, Knows, Tells, At, PassSteps
  <1>8. Known
    BY DEF Init, Known, NoSaga
  <1>9. SagasFine
    BY <1>2 DEF Init, SagasFine
  <1>10. SlotsCovered
    BY <1>3 DEF Init, SlotsCovered
  <1>11. Files
    <2>1. \A s \in Slots : file[s] = <<>>
      BY DEF Init
    <2>2. Len(<<>>) = 0
      OBVIOUS
    <2> QED
      BY <2>1, <2>2 DEF Files
  <1> QED
    BY <1>1, <1>4, <1>5, <1>7, <1>8, <1>9, <1>10, <1>11 DEF Inv, Types

\* The parts of the invariant, put together
LEMMA InvNext == Inv /\ [Next]_vars => Inv'
  <1> SUFFICES ASSUME Inv, [Next]_vars PROVE Inv'
    OBVIOUS
  <1>0. Grown /\ SagasFine /\ Known /\ RowTypes
    BY StepGrows DEF Inv, Types
  <1>1. /\ ProcTypes' /\ SlotLock'
        /\ \A q \in Processes : Knows(q)' /\ Tells(q)'
        /\ SlotsGood /\ FilesGood
    BY ProcessesStep
  <1>2. saga' \in [Deals -> Saga]
    BY <1>0 DEF Grown, SagasFollow, Follows
  <1>3. SagasFine'
    BY <1>0 DEF Grown, SagasFollow, Follows, RemoteGrows, SagasFine, Fine
  <1>4. Known'
    BY <1>0, JobsStep DEF Grown, SagasFollow, Follows, RemoteGrows, Known
  <1>5. WorldTypes'
    BY <1>0, <1>1, RestStep DEF Grown, RemoteGrows, FilesGood, WorldTypes
  <1>6. RowTypes'
    BY <1>0, <1>1, <1>2, JobsStep, RestStep DEF Grown, CreateGrows, DeliveryGrows, SlotsGood, RowTypes
  <1> QED
    BY <1>1, <1>3, <1>4, <1>5, <1>6 DEF Inv, Types, SlotsGood, FilesGood

LEMMA Invariant == Spec => []Inv
  BY InvInit, InvNext, PTL DEF Spec

-----------------------------------------------------------------------------
\* The rows of deals, slots, files and of the report are in states the code knows,
\* and the processes in steps of their passes.
THEOREM TypeCorrect == Spec => []TypeOK
  <1>1. Inv => TypeOK
    BY DEF Inv, Types, WorldTypes, RowTypes, Saga, Slot, TypeOK
  <1> QED
    BY <1>1, Invariant, PTL

\* A fulfilment past the write stands for a deal that Smartup showed in the target
\* status, whatever answers were late or lost and however many processes ran
\* (transition_fulfillment, smartup_saga.py).
THEOREM Confirmed == Spec => []ConfirmedIsWritten
  <1>1. Inv => ConfirmedIsWritten
    BY DEF Inv, SagasFine, Fine, Past, States, RecoverableStates, ConfirmedIsWritten, Shown, Reached
  <1> QED
    BY <1>1, Invariant, PTL

\* A slot completed with deals left none of them without a create event, and each
\* of them is written (assert_enforced_sagas_complete).
THEOREM SlotCovered == Spec => []CompletedSlotIsCovered
  <1>1. Inv => CompletedSlotIsCovered
    BY DEF Inv, SlotsCovered, Covered, CompletedSlotIsCovered, Shown, Reached
  <1> QED
    BY <1>1, Invariant, PTL

\* The client gets the file of a slot at most once: the durable claim comes before
\* the attempt, and nobody takes up a claim that was left
\* (send_smartup_export_to_client).
THEOREM SentAtMostOnce == Spec => []FileIsSentOnce
  <1>1. Inv => FileIsSentOnce
    BY DEF Inv, Files, FileIsSentOnce
  <1> QED
    BY <1>1, Invariant, PTL

-----------------------------------------------------------------------------
(***************************************************************************)
(* SmartupSaga implements CallOnce: the claim of a file, its sending and   *)
(* the record of that are the steps of one call.                           *)
(***************************************************************************)
Claims == {s \in Slots : delivery[s] # "none"}
Copies == [s \in Slots |-> 1..Len(file[s])]
Delivered == {s \in Slots : delivery[s] = "completed"}

\* The claim of the process that sends, or sent, is still open.
Serves(p) ==
    /\ proc[p].pc \in {"send", "sent"} => delivery[proc[p].slot] = "started"
    /\ At(p, "sent") => file[proc[p].slot] # <<>>

\* A process comes to the sending only by its claim.
LEMMA OwnPc ==
    ASSUME Inv, Grown, NEW p \in Processes, Actor(p), proc'[p].pc \in {"send", "sent"}
    PROVE  \/ proc'[p] = proc[p]
           \/ ClaimDelivery(p) /\ Unclaimed(proc[p].slot) /\ proc'[p].slot = proc[p].slot /\ proc'[p].pc = "send"
           \/ SendFile(p) /\ proc'[p].slot = proc[p].slot /\ proc'[p].pc = "sent"
  <1>0. Types /\ WorldTypes /\ RowTypes /\ ProcTypes
    BY DEF Inv, Types
  <1>1. ASSUME proc'[p] = Idle PROVE FALSE
    BY <1>1 DEF Idle
  <1>2. ASSUME NEW rw \in {"failed", "blocked"}, Fail(p, rw) PROVE FALSE
    BY <1>0, <1>1, <1>2, FailStops
  <1>3. ASSUME NEW result \in {"no_orders", "completed", "completed_recovery"}, NEW deals \in SUBSET Deals,
               Complete(p, result, deals)
        PROVE  FALSE
    BY <1>0, <1>1, <1>3, CompleteStops
  <1>4. ASSUME NEW c, Goto(p, c) PROVE proc'[p].pc = c /\ proc'[p].slot = proc[p].slot
    BY <1>0, <1>4, SlotOfProcess DEF Goto, ProcTypes, Process
  <1>5. CASE WriteUnanswered(p) \/ SendFails(p) \/ NetworkFails(p) \/ Crash(p)
    BY <1>0, <1>1, <1>2, <1>5, Stops DEF WriteUnanswered, SendFails, NetworkFails, Crash
  <1>6. CASE BuildReport(p) \/ PostReport(p)
    BY <1>0, <1>1, <1>4, <1>6, Stops DEF BuildReport, PostReport
  <1>7. CASE \/ \E deals \in SUBSET Deals : Sweep(p, deals)
            \/ ClaimSlot(p) \/ ClaimReport(p)
    BY <1>0, <1>7, StartTurns DEF ClaimReport
  <1>8. CASE Recover(p)
    BY <1>0, <1>8, RecoverTurns
  <1>9. CASE ExportOrders(p) \/ \E d \in Deals : ImportDeal(p, d)
    BY <1>0, <1>3, <1>9, ImportTurns
  <1>10. CASE PrepareDealSagas(p)
    BY <1>4, <1>10 DEF PrepareDealSagas
  <1>11. CASE ReadBack(p)
    BY <1>0, <1>11, ReadBackTurns
  <1>12. CASE RecordReadBack(p)
    BY <1>0, <1>2, <1>12, RecordReadBackTurns
  <1>13. CASE ReadIntents(p) \/ ClaimWrites(p) \/ ClaimedByOthers(p)
    BY <1>0, <1>13, TodoTurns
  <1>14. CASE NothingToWrite(p) \/ WriteAnswered(p)
    <2>1. PICK v : v = proc[p]
      OBVIOUS
    <2>2. v \in Process
      BY <1>0, <2>1, SlotOfProcess
    <2>3. \E c \in {"record", "queue"} : \E ok, bad :
            proc' = [proc EXCEPT ![p].pc = c, ![p].ok = ok, ![p].bad = bad]
      BY <1>14 DEF NothingToWrite, WriteAnswered
    <2>4. PICK c \in {"record", "queue"} : \E u : proc' = [proc EXCEPT ![p] = u] /\ u.pc = c
      <3>0. PICK c \in {"record", "queue"} :
              \E ok, bad : proc' = [proc EXCEPT ![p].pc = c, ![p].ok = ok, ![p].bad = bad]
        BY <2>3
      <3>1. PICK ok, bad : proc' = [proc EXCEPT ![p].pc = c, ![p].ok = ok, ![p].bad = bad]
        BY <3>0
      <3>2. PICK u : u = [v EXCEPT !.pc = c, !.ok = ok, !.bad = bad]
        OBVIOUS
      <3>3. proc' = [proc EXCEPT ![p] = u]
        BY <1>0, <2>1, <2>2, <3>1, <3>2 DEF ProcTypes, Process
      <3>4. u.pc = c
        BY <2>2, <3>2 DEF Process
      <3> QED
        BY <3>3, <3>4
    <2> QED
      BY <1>0, <2>4 DEF ProcTypes
  <1>15. CASE RecordWrite(p)
    BY <1>0, <1>2, <1>15, RecordWriteTurns
  <1>16. CASE QueueAndMark(p)
    <2>1. proc[p].work \in SUBSET Deals /\ proc[p].kind \in {"sweep", "slot", "recovery"}
      BY <1>0, <1>16, SlotOfProcess DEF QueueAndMark, At, Process, Sound, PassSteps
    <2>2. \/ proc' = [proc EXCEPT ![p] = Idle]
          \/ Fail(p, "failed")
          \/ Complete(p, "completed_recovery", proc[p].work)
          \/ Goto(p, "deliver")
      BY <1>16, <2>1 DEF QueueAndMark
    <2> QED
      BY <1>0, <1>1, <1>2, <1>3, <1>4, <2>1, <2>2, Stops
  <1>17. CASE ClaimDelivery(p) \/ FileSent(p)
    <2>1. proc[p].work \in SUBSET Deals
      BY <1>0, SlotOfProcess DEF Process
    <2>2. CASE FileSent(p)
      BY <1>3, <2>1, <2>2 DEF FileSent
    <2>3. CASE ClaimDelivery(p)
      <3>1. \/ Unclaimed(proc[p].slot) /\ Goto(p, "send")
            \/ Complete(p, "completed", proc[p].work)
            \/ Fail(p, "blocked")
        BY <2>3 DEF ClaimDelivery
      <3> QED
        BY <1>2, <1>3, <1>4, <2>1, <2>3, <3>1
    <2> QED
      BY <1>17, <2>2, <2>3
  <1>18. CASE SendFile(p)
    BY <1>4, <1>18 DEF SendFile
  <1> QED
    BY <1>5, <1>6, <1>7, <1>8, <1>9, <1>10, <1>11, <1>12, <1>13, <1>14, <1>15, <1>16, <1>17, <1>18
       DEF Actor, Worker

\* The rows and files of a slot change only by a step of the process that serves it.
LEMMA SlotFrame ==
    ASSUME Inv, NEW p \in Processes, Actor(p)
    PROVE  \/ UNCHANGED <<delivery, file>>
           \/ ClaimDelivery(p) \/ SendFile(p) \/ FileSent(p) \/ SendFails(p)
  <1>1. CASE Worker(p)
    BY Zenon, <1>1 DEF Worker, Sweep, ClaimSlot, Recover, ExportOrders, PrepareDealSagas, ReadBack, RecordReadBack,
                ReadIntents, ClaimWrites, ClaimedByOthers, NothingToWrite, WriteAnswered, RecordWrite, QueueAndMark,
                ClaimReport, BuildReport, PostReport, ImportDeal, dbVars, worldVars
  <1>2. CASE WriteUnanswered(p) \/ NetworkFails(p) \/ Crash(p)
    BY <1>2 DEF WriteUnanswered, NetworkFails, Crash, dbVars, worldVars
  <1> QED
    BY <1>1, <1>2 DEF Actor

\* The slot of a process that delivers, which no other process has
LEMMA Serving ==
    ASSUME Inv, NEW p \in Processes, ClaimDelivery(p) \/ SendFile(p) \/ FileSent(p) \/ SendFails(p)
    PROVE  /\ proc[p].slot \in Slots /\ Copy(p) \in File
           /\ \A q \in Processes \ {p} : proc[q].pc \in {"send", "sent"} => proc[q].slot # proc[p].slot
  <1>1. ProcTypes /\ SlotLock /\ proc[p].pc \in {"deliver", "send", "sent"}
    BY DEF Inv, Types, ClaimDelivery, SendFile, FileSent, SendFails, At
  <1>2. proc[p].slot \in Slots /\ Copy(p) \in File
    BY <1>1, SlotOfProcess DEF SlotSteps, Process, Copy, File
  <1>3. 0 \notin Slots
    BY DEF Slots
  <1> QED
    BY <1>1, <1>2, <1>3 DEF SlotLock

\* What a step of the delivery does to the row and to the file of its slot
LEMMA SlotEffect ==
    ASSUME Inv, \A q \in Processes : Serves(q),
           NEW p \in Processes, NEW s \in Slots, s = proc[p].slot
    PROVE  /\ ClaimDelivery(p) => /\ UNCHANGED file
                                  /\ \/ ~Unclaimed(s) /\ UNCHANGED delivery
                                     \/ delivery[s] = "none" /\ delivery' = [delivery EXCEPT ![s] = "started"]
           /\ SendFile(p) => /\ delivery[s] = "started" /\ UNCHANGED delivery
                             /\ file[s] = <<>> /\ file' = [file EXCEPT ![s] = <<Copy(p)>>]
           /\ FileSent(p) => /\ delivery[s] = "started" /\ delivery' = [delivery EXCEPT ![s] = "completed"]
                             /\ file[s] # <<>> /\ UNCHANGED file
           /\ SendFails(p) => /\ delivery[s] = "started" /\ delivery' = [delivery EXCEPT ![s] = "blocked"]
                              /\ file[s] = <<>>
                              /\ \/ UNCHANGED file
                                 \/ file' = [file EXCEPT ![s] = <<Copy(p)>>]
  <1>0. Tells(p) /\ Serves(p)
    BY DEF Inv
  <1>1. \A f : Append(<<>>, f) = <<f>>
    OBVIOUS
  <1>2. ClaimDelivery(p) => /\ UNCHANGED file
                            /\ \/ ~Unclaimed(s) /\ UNCHANGED delivery
                               \/ delivery[s] = "none" /\ delivery' = [delivery EXCEPT ![s] = "started"]
    BY DEF ClaimDelivery, worldVars, Unclaimed
  <1>3. Received(p) /\ file[s] = <<>> => file' = [file EXCEPT ![s] = <<Copy(p)>>]
    BY <1>1 DEF Received, Copy, Inv, Types, WorldTypes
  <1>4. SendFile(p) \/ SendFails(p) => delivery[s] = "started" /\ file[s] = <<>>
    BY <1>0 DEF SendFile, SendFails, Serves, Tells, At
  <1>5. SendFile(p) => UNCHANGED delivery /\ Received(p)
    BY DEF SendFile, dbVars
  <1>6. SendFails(p) => /\ delivery' = [delivery EXCEPT ![s] = "blocked"]
                        /\ Received(p) \/ UNCHANGED file
    BY DEF SendFails
  <1>7. FileSent(p) => /\ delivery[s] = "started" /\ delivery' = [delivery EXCEPT ![s] = "completed"]
                       /\ file[s] # <<>> /\ UNCHANGED file
    BY <1>0 DEF FileSent, Serves, At, worldVars
  <1> QED
    BY <1>2, <1>3, <1>4, <1>5, <1>6, <1>7

\* Other slots are left alone.
LEMMA OtherSlots ==
    ASSUME Inv, \A q \in Processes : Serves(q), NEW p \in Processes, Actor(p),
           NEW t \in Slots, t # proc[p].slot
    PROVE  delivery'[t] = delivery[t] /\ file'[t] = file[t]
  <1>1. CASE UNCHANGED <<delivery, file>>
    BY <1>1
  <1>2. CASE ClaimDelivery(p) \/ SendFile(p) \/ FileSent(p) \/ SendFails(p)
    <2>1. PICK s \in Slots : s = proc[p].slot
      BY <1>2, Serving
    <2>2. \/ delivery' = delivery
          \/ \E x : delivery' = [delivery EXCEPT ![s] = x]
      BY <1>2, <2>1, SlotEffect
    <2>3. \/ file' = file
          \/ \E x : file' = [file EXCEPT ![s] = x]
      BY <1>2, <2>1, SlotEffect
    <2>4. delivery'[t] = delivery[t]
      BY <2>1, <2>2 DEF Inv, Types, RowTypes
    <2>5. file'[t] = file[t]
      BY <2>1, <2>3 DEF Inv, Types, WorldTypes
    <2> QED
      BY <2>4, <2>5
  <1> QED
    BY <1>1, <1>2, SlotFrame

LEMMA ServesStep ==
    ASSUME Inv, \A q \in Processes : Serves(q), [Next]_vars
    PROVE  \A q \in Processes : Serves(q)'
  <1>0. Grown /\ ProcTypes /\ RowTypes /\ WorldTypes
    BY StepGrows DEF Inv, Types
  <1>1. ASSUME NEW p \in Processes, Actor(p), NEW q \in Processes, q # p
        PROVE  Serves(q)'
    <2>1. proc'[q] = proc[q]
      BY <1>0, <1>1, ActorActs DEF Acts, Turns
    <2>2. CASE proc[q].pc \in {"send", "sent"}
      <3>1. PICK t \in Slots : t = proc[q].slot
        BY <1>0, <2>2, SlotOfProcess DEF SlotSteps
      <3>2. CASE UNCHANGED <<delivery, file>>
        BY <2>1, <3>2 DEF Serves, At
      <3>3. CASE ClaimDelivery(p) \/ SendFile(p) \/ FileSent(p) \/ SendFails(p)
        <4>1. delivery'[t] = delivery[t] /\ file'[t] = file[t]
          BY <1>1, <2>2, <3>1, <3>3, Serving, OtherSlots
        <4> QED
          BY <2>1, <3>1, <4>1 DEF Serves, At
      <3> QED
        BY <1>1, <3>2, <3>3, SlotFrame
    <2>3. CASE proc[q].pc \notin {"send", "sent"}
      BY <2>1, <2>3 DEF Serves, At
    <2> QED
      BY <2>2, <2>3
  <1>2. ASSUME NEW p \in Processes, Actor(p), proc'[p].pc \in {"send", "sent"}
        PROVE  Serves(p)'
    <2>1. CASE ClaimDelivery(p) /\ Unclaimed(proc[p].slot) /\ proc'[p].slot = proc[p].slot /\ proc'[p].pc = "send"
      <3>1. PICK s \in Slots : s = proc[p].slot
        BY <2>1, Serving
      <3>2. delivery'[s] = "started"
        BY <1>0, <2>1, <3>1, SlotEffect DEF RowTypes
      <3> QED
        BY <2>1, <3>1, <3>2 DEF Serves, At
    <2>2. CASE SendFile(p) /\ proc'[p].slot = proc[p].slot /\ proc'[p].pc = "sent"
      <3>1. PICK s \in Slots : s = proc[p].slot
        BY <2>2, Serving
      <3>2. delivery'[s] = "started" /\ file'[s] = <<Copy(p)>>
        BY <1>0, <2>2, <3>1, SlotEffect DEF WorldTypes
      <3>3. <<Copy(p)>> # <<>>
        OBVIOUS
      <3> QED
        BY <2>2, <3>1, <3>2, <3>3 DEF Serves, At
    <2>3. CASE proc'[p] = proc[p] /\ ~ClaimDelivery(p) /\ ~SendFile(p)
      <3>1. ~FileSent(p) /\ ~SendFails(p)
        <4>1. FileSent(p) => Complete(p, "completed", proc[p].work) /\ proc[p].work \in SUBSET Deals
          BY <1>0, SlotOfProcess DEF FileSent, Process
        <4>2. SendFails(p) => Fail(p, "blocked")
          BY DEF SendFails
        <4>3. Idle.pc = "idle"
          BY DEF Idle
        <4> QED
          BY <1>0, <1>2, <4>1, <4>2, <4>3, CompleteStops, FailStops
      <3>2. UNCHANGED <<delivery, file>>
        BY <1>2, <2>3, <3>1, SlotFrame
      <3> QED
        BY <2>3, <3>2 DEF Serves, At
    <2>4. CASE proc'[p] = proc[p] /\ (ClaimDelivery(p) \/ SendFile(p))
      <3>1. CASE SendFile(p)
        BY <1>0, <2>4, <3>1, SlotOfProcess DEF SendFile, At, Goto, ProcTypes, Process
      <3>2. CASE ClaimDelivery(p)
        BY <1>2, <2>4, <3>2 DEF ClaimDelivery, At
      <3> QED
        BY <2>4, <3>1, <3>2
    <2> QED
      BY <1>0, <1>2, <2>1, <2>2, <2>3, <2>4, OwnPc
  <1>3. ASSUME NEW p \in Processes, proc'[p].pc \notin {"send", "sent"}
        PROVE  Serves(p)'
    BY <1>3 DEF Serves, At
  <1>4. CASE UNCHANGED <<proc, delivery, file>>
    BY <1>4 DEF Serves, At
  <1>5. ASSUME NEW d \in Deals, World(d) PROVE UNCHANGED <<proc, delivery, file>>
    BY <1>5 DEF World, Appear, Leave, PutBack, ChatOrder, WriteArrives, SkladBot, SkladBotStarts, SkladBotCreates, SkladBotIsUnsure,
                SkladBotStep, dbVars, worldVars
  <1>6. CASE PassTime \/ UNCHANGED vars
    BY <1>4, <1>6 DEF PassTime, dbVars, vars
  <1> QED
    BY <1>1, <1>2, <1>3, <1>4, <1>5, <1>6 DEF Next, Actor, World, SkladBot

LEMMA CallStep ==
    ASSUME Inv, \A q \in Processes : Serves(q), [Next]_vars
    PROVE  Once!Next \/ UNCHANGED <<Claims, Copies, Delivered>>
  <1>0. RowTypes /\ WorldTypes
    BY DEF Inv, Types
  <1>1. CASE UNCHANGED <<delivery, file>>
    BY <1>1 DEF Claims, Copies, Delivered
  <1>2. ASSUME NEW p \in Processes, ClaimDelivery(p) \/ SendFile(p) \/ FileSent(p) \/ SendFails(p)
        PROVE  Once!Next \/ UNCHANGED <<Claims, Copies, Delivered>>
    <2>0. PICK f : f = Copy(p)
      OBVIOUS
    <2>1. PICK s \in Slots : s = proc[p].slot
      BY <1>2, Serving
    <2>2. CASE delivery[s] = "none" /\ delivery' = [delivery EXCEPT ![s] = "started"] /\ UNCHANGED file
      <3>1. s \notin Claims /\ Claims' = Claims \cup {s} /\ Delivered' = Delivered /\ Copies' = Copies
        BY <1>0, <2>2 DEF Claims, Delivered, Copies, RowTypes
      <3>2. Once!Mark(s)
        BY <3>1 DEF Once!Mark, Claims, Delivered, Copies
      <3> QED
        BY <3>2 DEF Once!Next
    <2>3. CASE /\ delivery[s] = "started" /\ delivery' \in {delivery, [delivery EXCEPT ![s] = "blocked"]}
               /\ file[s] = <<>> /\ file' = [file EXCEPT ![s] = <<f>>]
      <3>1. s \in Claims /\ Claims' = Claims /\ Delivered' = Delivered
        BY <1>0, <2>3 DEF Claims, Delivered, RowTypes
      <3>2. Copies[s] = {}
        BY <2>3 DEF Copies
      <3>3. 1..Len(<<f>>) = {1}
        OBVIOUS
      <3>4. \A t \in Slots : 1..Len(file'[t]) = IF t = s THEN {1} ELSE 1..Len(file[t])
        BY <1>0, <2>3, <3>3 DEF WorldTypes
      <3>5. Copies' = [Copies EXCEPT ![s] = {1}]
        BY <3>4 DEF Copies
      <3>6. Once!TakeEffect(s)
        BY <3>1, <3>2, <3>5 DEF Once!TakeEffect, Claims, Delivered, Copies
      <3> QED
        BY <3>6 DEF Once!Next
    <2>4. CASE /\ delivery[s] = "started" /\ delivery' = [delivery EXCEPT ![s] = "completed"]
               /\ file[s] # <<>> /\ UNCHANGED file
      <3>1. Delivered' = Delivered \cup {s} /\ Claims' = Claims /\ Copies' = Copies
        BY <1>0, <2>4 DEF Claims, Delivered, Copies, RowTypes
      <3>2. 1 \in Copies[s]
        <4>1. file[s] \in Seq(File)
          BY <1>0 DEF WorldTypes
        <4>2. Len(file[s]) \in Nat \ {0}
          BY <2>4, <4>1
        <4> QED
          BY <4>2 DEF Copies
      <3>3. Once!Record(s)
        BY <3>1, <3>2 DEF Once!Record, Claims, Delivered, Copies
      <3> QED
        BY <3>3 DEF Once!Next
    <2>5. CASE delivery[s] = "started" /\ delivery' = [delivery EXCEPT ![s] = "blocked"] /\ UNCHANGED file
      BY <1>0, <2>5 DEF Claims, Delivered, Copies, RowTypes
    <2> QED
      BY <1>1, <1>2, <2>0, <2>1, <2>2, <2>3, <2>4, <2>5, SlotEffect
  <1>3. ASSUME NEW d \in Deals, World(d) PROVE UNCHANGED <<delivery, file>>
    BY <1>3 DEF World, Appear, Leave, PutBack, ChatOrder, WriteArrives, SkladBot, SkladBotStarts, SkladBotCreates, SkladBotIsUnsure,
                SkladBotStep, dbVars, worldVars
  <1>4. PassTime \/ UNCHANGED vars => UNCHANGED <<delivery, file>>
    BY DEF PassTime, dbVars, vars
  <1> QED
    BY <1>1, <1>2, <1>3, <1>4, SlotFrame DEF Next, Actor, World, SkladBot

\* The file of a slot is one call: it is sent once at most and under its claim, and
\* a delivery is completed only if the client got the file.
THEOREM FileCallsOnce == Spec => FileIsOneCall
  <1>1. ASSUME Init
        PROVE  Once!Init /\ \A q \in Processes : Serves(q)
    <2>1. Once!Init
      BY <1>1 DEF Init, Once!Init
    <2> QED
      BY <1>1, <2>1 DEF Init, Serves, At, Idle
  <1>2. Inv /\ (\A q \in Processes : Serves(q)) /\ [Next]_vars => (\A q \in Processes : Serves(q))'
    BY ServesStep
  <1>3. Inv /\ (\A q \in Processes : Serves(q)) /\ [Next]_vars => [Once!Next]_<<Claims, Copies, Delivered>>
    BY CallStep
  <1>4. Spec => Once!Init /\ [][Once!Next]_<<Claims, Copies, Delivered>>
    BY <1>1, <1>2, <1>3, InvInit, InvNext, PTL DEF Spec
  <1> QED
    BY <1>4, PTL DEF FileIsOneCall, Once!Spec, Claims, Copies, Delivered

-----------------------------------------------------------------------------
(***************************************************************************)
(* Where a step takes a process.                                           *)
(***************************************************************************)
Sending == {"deliver", "send", "sent"}

\* The steps by which p comes to the reread and to the write, and keeps its export.
Proceeds(p) ==
    /\ Keeps(p)
    /\ proc'[p].pc \in PassSteps \cup Sending
    /\ proc[p].pc \in PassSteps \cup Sending \/ PrepareDealSagas(p)
    /\ proc'[p].pc = "reread" => ReadBack(p)
    /\ proc'[p].pc = "write" => ClaimWrites(p)

Moves(p) ==
    \/ proc'[p].pc \in {"idle", "orphans", "export", "build", "post"}
    \/ proc'[p].pc = "read" /\ proc'[p].kind \in {"sweep", "recovery"}
    \/ proc'[p].pc = "import" /\ proc'[p].export = proc'[p].todo
    \/ \E d \in Deals : ImportDeal(p, d)
    \/ Proceeds(p)

LEMMA StartMoves ==
    ASSUME Inv, NEW p \in Processes,
           \/ \E deals \in SUBSET Deals : Sweep(p, deals)
           \/ ClaimSlot(p) \/ ClaimReport(p) \/ Recover(p) \/ ExportOrders(p) \/ PrepareDealSagas(p)
           \/ \E d \in Deals : ImportDeal(p, d)
    PROVE  Moves(p)
  <1>0. Types /\ WorldTypes /\ RowTypes /\ ProcTypes
    BY DEF Inv, Types
  <1>1. CASE \/ \E deals \in SUBSET Deals : Sweep(p, deals)
             \/ ClaimSlot(p)
    BY <1>0, <1>1, StartTurns DEF Moves
  <1>2. CASE ClaimReport(p)
    BY <1>0, <1>2, StartTurns DEF Moves, ClaimReport, At
  <1>3. CASE Recover(p)
    BY <1>0, <1>3, RecoverTurns DEF Moves
  <1>4. CASE ExportOrders(p)
    <2>1. CASE Complete(p, "no_orders", {})
      BY <1>0, <2>1, CompleteStops DEF Moves, Idle
    <2>2. CASE ~Complete(p, "no_orders", {})
      BY <1>0, <1>4, <2>2, ImportTurns DEF Moves
    <2> QED
      BY <2>1, <2>2
  <1>5. CASE PrepareDealSagas(p)
    <2>1. proc[p].kind = "slot" /\ Goto(p, "read")
      BY <1>0, <1>5, SlotOfProcess DEF PrepareDealSagas, At, Sound, SlotSteps
    <2>2. Keeps(p) /\ proc'[p].pc = "read"
      BY <1>0, <2>1, KeepsIfGoes DEF PassSteps
    <2> QED
      BY <1>5, <2>2 DEF Moves, Proceeds, PassSteps
  <1>6. CASE \E d \in Deals : ImportDeal(p, d)
    BY <1>6 DEF Moves
  <1> QED
    BY <1>1, <1>2, <1>3, <1>4, <1>5, <1>6

LEMMA PassMoves ==
    ASSUME Inv, NEW p \in Processes,
           \/ ReadBack(p) \/ RecordReadBack(p) \/ ReadIntents(p) \/ ClaimWrites(p) \/ ClaimedByOthers(p)
           \/ NothingToWrite(p) \/ WriteAnswered(p) \/ RecordWrite(p)
    PROVE  Moves(p)
  <1>0. /\ Types /\ RowTypes /\ ProcTypes /\ proc[p] \in Process /\ proc[p].pc \in PassSteps
    BY SlotOfProcess DEF Inv, Types, ReadBack, RecordReadBack, ReadIntents, ClaimWrites, ClaimedByOthers,
                         NothingToWrite, WriteAnswered, RecordWrite, Ready, At, PassSteps
  <1>1. ASSUME Fail(p, "failed") PROVE Moves(p)
    BY <1>0, <1>1, FailStops DEF Moves, Idle
  <1>2. ASSUME Keeps(p), proc'[p].pc \in {"claim", "lock", "read", "record", "queue"} PROVE Moves(p)
    BY <1>0, <1>2 DEF Moves, Proceeds, PassSteps
  <1>3. CASE ReadBack(p)
    BY <1>0, <1>3, ReadBackTurns DEF Moves, Proceeds, PassSteps
  <1>4. CASE RecordReadBack(p)
    BY <1>0, <1>1, <1>2, <1>4, RecordReadBackTurns
  <1>5. CASE ReadIntents(p) \/ ClaimedByOthers(p)
    BY <1>0, <1>2, <1>5, TodoTurns
  <1>6. CASE ClaimWrites(p)
    BY <1>0, <1>6, TodoTurns DEF Moves, Proceeds, PassSteps
  <1>7. CASE NothingToWrite(p)
    <2>1. PICK ok \in SUBSET Deals : ok = {d \in proc[p].work : saga[d].event \in RemoteConfirmed}
      BY <1>0 DEF Process
    <2>2. PICK bad \in BOOLEAN : bad <=> ok # proc[p].work
      OBVIOUS
    <2>3. proc' = [proc EXCEPT ![p].pc = "queue", ![p].ok = ok, ![p].bad = bad]
      BY <1>7, <2>1, <2>2 DEF NothingToWrite
    <2> QED
      BY <1>0, <1>2, <2>3, ResultTurns
  <1>8. CASE WriteAnswered(p)
    <2>1. PICK ok \in SUBSET proc[p].todo :
              proc' = [proc EXCEPT ![p].pc = "record", ![p].ok = ok, ![p].bad = ok # proc[p].todo]
      BY <1>8 DEF WriteAnswered
    <2>2. PICK bad \in BOOLEAN : bad <=> ok # proc[p].todo
      OBVIOUS
    <2>3. ok \in SUBSET Deals /\ proc' = [proc EXCEPT ![p].pc = "record", ![p].ok = ok, ![p].bad = bad]
      BY <1>0, <2>1, <2>2 DEF Process
    <2> QED
      BY <1>0, <1>2, <2>3, ResultTurns
  <1>9. CASE RecordWrite(p)
    BY <1>0, <1>1, <1>2, <1>9, RecordWriteTurns
  <1> QED
    BY <1>3, <1>4, <1>5, <1>6, <1>7, <1>8, <1>9

LEMMA DeliverMoves ==
    ASSUME Inv, NEW p \in Processes,
           QueueAndMark(p) \/ ClaimDelivery(p) \/ SendFile(p) \/ FileSent(p)
    PROVE  Moves(p)
  <1>0. /\ Types /\ RowTypes /\ ProcTypes /\ proc[p] \in Process /\ proc[p].work \in SUBSET Deals
        /\ proc[p].pc \in {"queue"} \cup Sending
        /\ proc[p].pc # "queue" => proc[p].kind = "slot"
    BY SlotOfProcess DEF Inv, Types, QueueAndMark, ClaimDelivery, SendFile, FileSent, At, Sound,
                         SlotSteps, Process, Sending
  <1>1. ASSUME proc'[p] = Idle PROVE Moves(p)
    BY <1>1 DEF Moves, Idle
  <1>2. ASSUME NEW rw \in {"failed", "blocked"}, Fail(p, rw) PROVE Moves(p)
    BY <1>0, <1>1, <1>2, FailStops
  <1>3. ASSUME NEW result \in {"completed", "completed_recovery"}, Complete(p, result, proc[p].work) PROVE Moves(p)
    BY <1>0, <1>1, <1>3, CompleteStops
  <1>4. ASSUME NEW c \in Sending, Goto(p, c), proc[p].kind = "slot" PROVE Moves(p)
    <2>1. Keeps(p) /\ proc'[p].pc = c
      BY <1>0, <1>4, KeepsIfGoes DEF SlotSteps, Sending
    <2> QED
      BY <1>0, <1>4, <2>1 DEF Moves, Proceeds, PassSteps, Sending
  <1>5. CASE QueueAndMark(p)
    <2>1. \/ proc' = [proc EXCEPT ![p] = Idle]
          \/ Fail(p, "failed")
          \/ Complete(p, "completed_recovery", proc[p].work)
          \/ proc[p].kind = "slot" /\ Goto(p, "deliver")
      <3>1. proc[p].kind \in {"sweep", "slot", "recovery"}
        BY <1>0, <1>5, SlotOfProcess DEF QueueAndMark, At, Sound, PassSteps
      <3> QED
        BY <1>5, <3>1 DEF QueueAndMark
    <2> QED
      BY <1>0, <1>1, <1>2, <1>3, <1>4, <2>1, Stops DEF Sending
  <1>6. CASE ClaimDelivery(p)
    <2>1. Goto(p, "send") \/ Complete(p, "completed", proc[p].work) \/ Fail(p, "blocked")
      BY <1>6 DEF ClaimDelivery
    <2>2. proc[p].kind = "slot"
      BY <1>0, <1>6 DEF ClaimDelivery, At
    <2> QED
      BY <1>2, <1>3, <1>4, <2>1, <2>2 DEF Sending
  <1>7. CASE SendFile(p)
    BY <1>0, <1>4, <1>7 DEF SendFile, At, Sending
  <1>8. CASE FileSent(p)
    BY <1>3, <1>8 DEF FileSent
  <1> QED
    BY <1>5, <1>6, <1>7, <1>8

LEMMA ActorMoves ==
    ASSUME Inv, NEW p \in Processes, Actor(p)
    PROVE  Moves(p)
  <1>0. RowTypes /\ ProcTypes
    BY DEF Inv, Types
  <1>1. ASSUME proc'[p] = Idle PROVE Moves(p)
    BY <1>1 DEF Moves, Idle
  <1>2. CASE WriteUnanswered(p) \/ SendFails(p) \/ NetworkFails(p)
    <2>1. \E rw \in {"failed", "blocked"} : Fail(p, rw)
      BY <1>2 DEF WriteUnanswered, SendFails, NetworkFails
    <2> QED
      BY <1>0, <1>1, <2>1, FailStops
  <1>3. CASE Crash(p)
    BY <1>0, <1>1, <1>3, Stops DEF Crash
  <1>4. CASE BuildReport(p) \/ PostReport(p)
    <2>1. CASE proc' = [proc EXCEPT ![p] = Idle]
      BY <1>0, <1>1, <2>1, Stops
    <2>2. CASE Goto(p, "post")
      BY <1>0, <2>2, SlotOfProcess DEF Goto, ProcTypes, Process, Moves
    <2> QED
      BY <1>4, <2>1, <2>2 DEF BuildReport, PostReport
  <1>5. CASE Worker(p)
    BY <1>4, <1>5, StartMoves, PassMoves, DeliverMoves DEF Worker
  <1> QED
    BY <1>2, <1>3, <1>5 DEF Actor

-----------------------------------------------------------------------------
(***************************************************************************)
(* The deals in a file, for any number of processes.                       *)
(***************************************************************************)

\* What the import left out of the pass is a duplicate: it has a create event.
Skips(p) ==
    /\ At(p, "import") => \A d \in proc[p].export \ (proc[p].work \cup proc[p].todo) : create[d] # "none"
    /\ proc[p].kind = "slot" /\ proc[p].pc \in PassSteps \cup Sending =>
          \A d \in proc[p].export \ proc[p].work : create[d] # "none"

ExportInv == FileIsConfirmed /\ \A p \in Processes : Skips(p)

LEMMA SkipsStep ==
    ASSUME Inv, ExportInv, [Next]_vars
    PROVE  \A q \in Processes : Skips(q)'
  <1>0. /\ Grown /\ Types /\ ProcTypes
        /\ \A p \in Processes : Skips(p) /\ proc[p].export \subseteq Deals
    BY StepGrows, SlotOfProcess DEF Inv, Types, ExportInv, Process
  <1>1. \A d \in Deals : create[d] # "none" => create'[d] # "none"
    BY <1>0 DEF Grown, CreateGrows
  <1>2. ASSUME NEW q \in Processes, proc'[q] = proc[q] PROVE Skips(q)'
    BY <1>0, <1>1, <1>2 DEF Skips, At
  <1>3. ASSUME NEW p \in Processes, Moves(p) PROVE Skips(p)'
    <2>1. CASE proc'[p].pc \in {"idle", "orphans", "export", "build", "post"}
      BY <2>1 DEF Skips, At, PassSteps, Sending
    <2>2. CASE proc'[p].pc = "read" /\ proc'[p].kind \in {"sweep", "recovery"}
      BY <2>2 DEF Skips, At
    <2>3. CASE proc'[p].pc = "import" /\ proc'[p].export = proc'[p].todo
      BY <2>3 DEF Skips, At, PassSteps, Sending
    <2>4. ASSUME NEW d \in Deals, ImportDeal(p, d) PROVE Skips(p)'
      <3>1. /\ proc'[p].pc = "import" /\ proc'[p].todo = proc[p].todo \ {d}
            /\ proc'[p].work = IF Duplicate(d) THEN proc[p].work ELSE proc[p].work \cup {d}
            /\ proc'[p].export = proc[p].export
        BY <1>0, <2>4, ImportTurns
      <3>2. At(p, "import")
        BY <2>4 DEF ImportDeal
      <3>3. ASSUME NEW e \in proc'[p].export \ (proc'[p].work \cup proc'[p].todo) PROVE create'[e] # "none"
        <4>1. e \in Deals
          BY <1>0, <3>1, <3>3
        <4>2. CASE e \notin proc[p].work \cup proc[p].todo
          BY <1>0, <1>1, <3>1, <3>2, <3>3, <4>1, <4>2 DEF Skips
        <4>3. CASE e \in proc[p].work \cup proc[p].todo
          <5>1. e = d /\ Duplicate(d)
            BY <3>1, <3>3, <4>3
          <5> QED
            BY <1>1, <5>1 DEF Duplicate
        <4> QED
          BY <4>2, <4>3
      <3> QED
        BY <3>1, <3>3 DEF Skips, At, PassSteps, Sending
    <2>5. CASE Proceeds(p)
      <3>1. /\ proc'[p].kind = proc[p].kind /\ proc'[p].work = proc[p].work /\ proc'[p].export = proc[p].export
            /\ proc'[p].pc # "import"
        BY <2>5 DEF Proceeds, Keeps, PassSteps, Sending
      <3>2. CASE proc[p].pc \in PassSteps \cup Sending
        BY <1>0, <1>1, <3>1, <3>2 DEF Skips, At
      <3>3. CASE PrepareDealSagas(p)
        <4>1. At(p, "import") /\ proc[p].todo = {}
          BY <3>3 DEF PrepareDealSagas
        <4>2. \A d \in proc[p].export \ proc[p].work : create[d] # "none"
          BY <1>0, <4>1 DEF Skips
        <4> QED
          BY <1>0, <1>1, <3>1, <4>2 DEF Skips, At
      <3> QED
        BY <2>5, <3>2, <3>3 DEF Proceeds
    <2> QED
      BY <1>3, <2>1, <2>2, <2>3, <2>4, <2>5 DEF Moves
  <1>4. ASSUME NEW p \in Processes, Actor(p) PROVE \A q \in Processes : Skips(q)'
    <2>1. Skips(p)'
      BY <1>3, <1>4, ActorMoves
    <2>2. \A q \in Processes \ {p} : proc'[q] = proc[q]
      BY <1>0, <1>4, ActorActs DEF Acts, Turns
    <2> QED
      BY <1>2, <2>1, <2>2
  <1>5. ASSUME NEW d \in Deals, World(d) PROVE UNCHANGED proc
    BY <1>5 DEF World, Appear, Leave, PutBack, ChatOrder, WriteArrives, SkladBot, SkladBotStarts,
                SkladBotCreates, SkladBotIsUnsure, SkladBotStep
  <1>6. CASE PassTime \/ UNCHANGED vars
    BY <1>2, <1>6 DEF PassTime, vars
  <1> QED
    BY <1>2, <1>4, <1>5, <1>6 DEF Next, Actor, World, SkladBot

\* What the file f says of its deals
Confirms(f) ==
    \A d \in f.deals : create[d] # "none" /\ (d \in f.imported => Reached(d))
StillConfirms(f) ==
    \A d \in f.deals : create'[d] # "none" /\ (d \in f.imported => Reached(d)')

LEMMA ConfirmsGrows ==
    ASSUME Grown, NEW f \in File, Confirms(f)
    PROVE  StillConfirms(f)
  <1>1. ASSUME NEW d \in f.deals
        PROVE  create'[d] # "none" /\ (d \in f.imported => Reached(d)')
    <2>1. d \in Deals
      BY <1>1 DEF File
    <2>2. (Reached(d) => Reached(d)')
      BY <2>1 DEF Grown, RemoteGrows, Shown, Reached
    <2> QED
      BY <1>1, <2>1, <2>2 DEF Confirms, Grown, CreateGrows
  <1> QED
    BY <1>1 DEF StillConfirms

\* A deal of the file is one of the pass, which are covered, or a duplicate.
LEMMA FileConfirmedStep ==
    ASSUME Inv, ExportInv, [Next]_vars
    PROVE  FileIsConfirmed'
  <1>0. Grown /\ file \in [Slots -> Seq(File)]
    BY StepGrows DEF Inv, Types, WorldTypes
  <1>1. \A s \in Slots : \A i \in 1..Len(file[s]) : file[s][i] \in File /\ StillConfirms(file[s][i])
    <2>1. \A s \in Slots : \A i \in 1..Len(file[s]) : file[s][i] \in File /\ Confirms(file[s][i])
      BY <1>0 DEF ExportInv, FileIsConfirmed, Confirms
    <2> QED
      BY <1>0, <2>1, ConfirmsGrows
  <1>2. ASSUME UNCHANGED file PROVE FileIsConfirmed'
    BY <1>1, <1>2 DEF FileIsConfirmed, StillConfirms
  <1>3. ASSUME NEW p \in Processes, Sends(p) PROVE FileIsConfirmed'
    <2>1. /\ proc[p] \in Process /\ proc[p].slot \in Slots /\ proc[p].kind = "slot" /\ proc[p].pc = "send"
          /\ \A d \in proc[p].work : Covered(d)
          /\ file[proc[p].slot] = <<>>
      BY <1>3, SlotOfProcess DEF Inv, Types, Sends, At, SlotSteps, Sound, Tells
    <2>2. PICK s \in Slots, f \in File : s = proc[p].slot /\ f = Copy(p)
      BY <2>1 DEF Process, Copy, File
    <2>3. StillConfirms(f)
      <3>1. f.deals = proc[p].export /\ f.imported = proc[p].work
        BY <2>2 DEF Copy
      <3>2. \A d \in proc[p].export \ proc[p].work : create[d] # "none"
        BY <2>1 DEF ExportInv, Skips, Sending
      <3>3. Confirms(f)
        BY <2>1, <3>1, <3>2 DEF Confirms, Covered, Shown, Reached
      <3> QED
        BY <1>0, <2>2, <3>3, ConfirmsGrows
    <2>4. file' = [file EXCEPT ![s] = <<f>>]
      <3>1. Append(<<>>, f) = <<f>>
        OBVIOUS
      <3>2. file' = [file EXCEPT ![s] = Append(@, f)] /\ file[s] = <<>>
        BY <1>3, <2>1, <2>2 DEF Sends, Received, Copy
      <3> QED
        BY <3>1, <3>2
    <2>5. ASSUME NEW t \in Slots, NEW i \in 1..Len(file'[t]) PROVE StillConfirms(file'[t][i])
      <3>1. CASE t = s
        <4>1. file'[t] = <<f>>
          BY <1>0, <2>4, <3>1
        <4>2. Len(<<f>>) = 1 /\ <<f>>[1] = f
          OBVIOUS
        <4>3. file'[t][i] = f
          BY <4>1, <4>2
        <4> QED
          BY <2>3, <4>3
      <3>2. CASE t # s
        <4>1. file'[t] = file[t]
          BY <1>0, <2>4, <3>2
        <4> QED
          BY <1>1, <4>1
      <3> QED
        BY <3>1, <3>2
    <2> QED
      BY <2>5 DEF FileIsConfirmed, StillConfirms
  <1>4. ASSUME NEW p \in Processes, Actor(p) PROVE FileIsConfirmed'
    BY <1>2, <1>3, <1>4, ActorSends
  <1>5. ASSUME NEW d \in Deals, World(d) PROVE UNCHANGED file
    BY <1>5 DEF World, Appear, Leave, PutBack, ChatOrder, WriteArrives, SkladBot, SkladBotStarts,
                SkladBotCreates, SkladBotIsUnsure, SkladBotStep, worldVars
  <1>6. CASE PassTime \/ UNCHANGED vars
    BY <1>2, <1>6 DEF PassTime, vars
  <1> QED
    BY <1>2, <1>4, <1>5, <1>6 DEF Next, Actor, World, SkladBot

LEMMA ExportInit == Init => ExportInv
  <1> SUFFICES ASSUME Init PROVE ExportInv
    OBVIOUS
  <1>1. FileIsConfirmed
    <2>1. \A s \in Slots : file[s] = <<>>
      BY DEF Init
    <2>2. Len(<<>>) = 0
      OBVIOUS
    <2>3. \A s \in Slots : 1..Len(file[s]) = {}
      BY <2>1, <2>2
    <2> QED
      BY <2>3 DEF FileIsConfirmed
  <1>2. \A p \in Processes : proc[p].pc = "idle"
    BY DEF Init, Idle
  <1> QED
    BY <1>1, <1>2 DEF ExportInv, Skips, At, PassSteps, Sending

\* A deal in a file for the client has a create event; and if the slot imported it,
\* and did not skip it as a duplicate, Smartup has shown it in the target status
\* (send_smartup_export_to_client, after assert_enforced_sagas_complete; the skip of
\* create_delivery_group_imports).
THEOREM FilesConfirmed == Spec => []FileIsConfirmed
  <1>1. Inv /\ ExportInv /\ [Next]_vars => ExportInv'
    BY SkipsStep, FileConfirmedStep DEF ExportInv
  <1>2. ExportInv => FileIsConfirmed
    BY DEF ExportInv
  <1> QED
    BY <1>1, <1>2, ExportInit, InvInit, InvNext, PTL DEF Spec

-----------------------------------------------------------------------------
(***************************************************************************)
(* One worker, and nobody who runs the import by hand next to it.          *)
(***************************************************************************)

OneWorker == \A p, q \in Processes : p = q

\* A write that was not read back is no longer an intent.
Ahead(x) == x.state \notin {"none", "local_ready"} /\ x.event # "intent_persisted"
WrittenAhead == \A d \in unread : Ahead(saga[d])

\* What the worker knows because nobody else moves the deals of its pass
Pass(p) ==
    /\ At(p, "reread") => DOMAIN proc[p].seen \cap unread = {}
    /\ At(p, "write") =>
          /\ proc[p].todo \cap unread = {}
          /\ \A d \in proc[p].todo : saga[d].state = "smartup_write_started" /\ saga[d].event = "remote_write_started"

Alone == WrittenAhead /\ \A p \in Processes : Pass(p)

\* Neither the repair of an event nor the mark of a pass turns a written deal back.
LEMMA SyncedAhead ==
    ASSUME NEW x \in Saga, Ahead(x)
    PROVE  Ahead(Synced(x))
  <1>1. CASE x.state \notin DOMAIN Legacy
    BY <1>1 DEF Synced
  <1>2. CASE x.state \in DOMAIN Legacy
    <2>1. PICK e : e = Legacy[x.state]
      OBVIOUS
    <2>2. e # "intent_persisted"
      BY <1>2, <2>1 DEF Legacy, Ahead
    <2>3. Synced(x) = [x EXCEPT !.event = e]
      BY <1>2, <2>1 DEF Synced
    <2> QED
      BY <2>2, <2>3 DEF Ahead, Saga
  <1> QED
    BY <1>1, <1>2

LEMMA MarkedAhead ==
    ASSUME NEW x \in Saga, Ahead(x), NEW r, Fine(x, r), NEW c \in {"none"} \cup CreateStates
    PROVE  Ahead(Marked(x, c))
  <1>1. CASE x.event \notin RemoteConfirmed
    BY <1>1, MarkedFine
  <1>2. CASE x.event \in RemoteConfirmed /\ c = "none"
    BY <1>2 DEF Marked, Ahead, Saga
  <1>3. CASE x.event \in RemoteConfirmed /\ c # "none"
    <2>1. PICK st \in Past : st = Aggregate[c]
      BY <1>3, AggregateIsPast
    <2>2. PICK y : y = [x EXCEPT !.event = "skladbot_queued", !.row = "completed", !.tied = TRUE, !.state = st]
      OBVIOUS
    <2>3. y \in Saga /\ y.state = st /\ y.event = "skladbot_queued"
      BY <2>1, <2>2 DEF Saga, EventStates, States, Past
    <2>4. Ahead(y)
      BY <2>1, <2>3 DEF Ahead, Past
    <2>5. Marked(x, c) = Synced(y)
      BY <1>3, <2>1, <2>2 DEF Marked
    <2> QED
      BY <2>3, <2>4, <2>5, SyncedAhead
  <1> QED
    BY <1>1, <1>2, <1>3

\* A step makes a deal an intent again only when it records what it read of it.
LEMMA SagaStaysAhead ==
    ASSUME Inv, [Next]_vars, NEW d \in Deals, Ahead(saga[d]),
           \A p \in Processes : At(p, "reread") => d \notin DOMAIN proc[p].seen
    PROVE  Ahead(saga'[d])
  <1>0. RowTypes /\ SagasFine /\ saga[d] \in Saga /\ Fine(saga[d], Shown(d))
    BY DEF Inv, Types, RowTypes, SagasFine
  <1>1. CASE UNCHANGED saga
    BY <1>1
  <1>2. ASSUME NEW p \in Processes, Recover(p) \/ PrepareDealSagas(p) PROVE Ahead(saga'[d])
    <2>1. PICK deals, s : saga' = Prepared(deals, s)
      BY Zenon, <1>2 DEF Recover, PrepareDealSagas
    <2>2. saga'[d] \in {saga[d], Synced(saga[d])}
      BY <2>1 DEF Prepared, Ahead
    <2> QED
      BY SMTT(30), <1>0, <2>2, SyncedAhead
  <1>3. ASSUME NEW p \in Processes, RecordReadBack(p) PROVE Ahead(saga'[d])
    BY <1>3 DEF RecordReadBack
  <1>4. ASSUME NEW p \in Processes, ClaimWrites(p) PROVE Ahead(saga'[d])
    BY <1>4 DEF ClaimWrites, Claimable, Ahead
  <1>5. ASSUME NEW p \in Processes, RecordWrite(p) PROVE Ahead(saga'[d])
    <2>1. CASE saga' = saga \/ d \notin proc[p].todo
      BY <1>5, <2>1 DEF RecordWrite
    <2>2. CASE saga' # saga /\ d \in proc[p].todo
      <3>1. PICK ok \in BOOLEAN : ok <=> d \in proc[p].ok
        OBVIOUS
      <3>2. saga'[d] = Recorded(saga[d], ok) /\ saga[d].state = "smartup_write_started"
        BY <1>5, <2>2, <3>1 DEF RecordWrite, Recorded
      <3>3. ok => Shown(d) = "target"
        BY <1>5, <3>1 DEF Inv, Tells, RecordWrite
      <3> QED
        BY <1>0, <3>2, <3>3, RecordedFine DEF Ahead
    <2> QED
      BY <2>1, <2>2
  <1>6. ASSUME NEW p \in Processes, QueueAndMark(p) PROVE Ahead(saga'[d])
    <2>1. PICK c : c = Queued(p)[d]
      OBVIOUS
    <2>2. c \in {"none"} \cup CreateStates
      BY <1>0, <2>1 DEF Queued, RowTypes, CreateStates
    <2>3. saga'[d] \in {saga[d], Marked(saga[d], c)}
      BY <1>6, <2>1 DEF QueueAndMark
    <2> QED
      BY <1>0, <2>2, <2>3, MarkedAhead
  <1>7. ASSUME NEW e \in Deals, SkladBot(e) PROVE Ahead(saga'[d])
    <2>1. saga'[d].event = saga[d].event
      BY <1>7, SkladBotFollows
    <2>2. saga'[d].state = saga[d].state \/ saga'[d].state \in Past
      <3>1. PICK c \in CreateStates : saga' \in {saga, [saga EXCEPT ![e].state = Aggregate[c]]}
        BY <1>7 DEF SkladBot, SkladBotStarts, SkladBotCreates, SkladBotIsUnsure, SkladBotStep, CreateStates
      <3>2. PICK st \in Past : st = Aggregate[c]
        BY <3>1, AggregateIsPast
      <3> QED
        BY SMTT(30), <1>0, <3>1, <3>2 DEF RowTypes, Saga
    <2> QED
      BY <2>1, <2>2 DEF Ahead, Past
  <1>8. ASSUME NEW p \in Processes, Actor(p)
        PROVE  \/ UNCHANGED saga \/ Recover(p) \/ PrepareDealSagas(p)
               \/ RecordReadBack(p) \/ ClaimWrites(p) \/ RecordWrite(p) \/ QueueAndMark(p)
    BY <1>8 DEF Actor, Worker, Sweep, ClaimSlot, ExportOrders, ReadBack, ReadIntents, ClaimedByOthers, NothingToWrite,
                WriteAnswered, ClaimDelivery, SendFile, FileSent, ClaimReport, BuildReport, PostReport, ImportDeal,
                WriteUnanswered, SendFails, NetworkFails, Crash, dbVars
  <1>9. ASSUME NEW e \in Deals, World(e) PROVE UNCHANGED saga \/ SkladBot(e)
    BY <1>9 DEF World, Appear, Leave, PutBack, ChatOrder, WriteArrives, dbVars
  <1>10. CASE PassTime \/ UNCHANGED vars
    BY <1>1, <1>10 DEF PassTime, dbVars, vars
  <1> QED
    BY <1>1, <1>2, <1>3, <1>4, <1>5, <1>6, <1>7, <1>8, <1>9, <1>10 DEF Next, Actor, World, SkladBot

\* Deals become unread by a write, which takes only claimed ones.
LEMMA UnreadStep ==
    ASSUME Inv, [Next]_vars
    PROVE  \/ unread' \subseteq unread
           \/ UNCHANGED saga /\ \E p \in Processes : At(p, "write") /\ unread' = unread \cup proc[p].todo
  <1>1. ASSUME NEW p \in Processes, Actor(p), ~WriteAnswered(p), ~WriteUnanswered(p) PROVE unread' \subseteq unread
    BY Zenon, <1>1 DEF Actor, Worker, Sweep, ClaimSlot, Recover, ExportOrders, PrepareDealSagas, ReadBack,
       RecordReadBack,
                ReadIntents, ClaimWrites, ClaimedByOthers, NothingToWrite, RecordWrite, QueueAndMark,
                ClaimDelivery, SendFile, FileSent, ClaimReport, BuildReport, PostReport, ImportDeal, worldVars,
                SendFails, NetworkFails, Crash
  <1>2. ASSUME NEW p \in Processes, WriteAnswered(p) \/ WriteUnanswered(p)
        PROVE  UNCHANGED saga /\ At(p, "write") /\ unread' = unread \cup proc[p].todo
    BY <1>2 DEF WriteAnswered, WriteUnanswered, dbVars
  <1>3. ASSUME NEW d \in Deals, World(d) PROVE unread' \subseteq unread
    BY <1>3 DEF World, Appear, Leave, PutBack, ChatOrder, WriteArrives, SkladBot, SkladBotStarts, SkladBotCreates, SkladBotIsUnsure,
                SkladBotStep, worldVars
  <1>4. CASE PassTime \/ UNCHANGED vars
    BY <1>4 DEF PassTime, vars
  <1> QED
    BY SMTT(30), <1>1, <1>2, <1>3, <1>4 DEF Next, Actor, World, SkladBot

LEMMA WrittenAheadStep ==
    ASSUME Inv, Alone, [Next]_vars
    PROVE  WrittenAhead'
  <1>0. unread \subseteq Deals
    BY DEF Inv, Types, WorldTypes
  <1>1. CASE unread' \subseteq unread
    <2>1. ASSUME NEW d \in unread PROVE Ahead(saga'[d])
      <3>1. \A p \in Processes : At(p, "reread") => d \notin DOMAIN proc[p].seen
        BY <2>1 DEF Alone, Pass
      <3> QED
        BY <1>0, <2>1, <3>1, SagaStaysAhead DEF Alone, WrittenAhead
    <2> QED
      BY <1>1, <2>1 DEF WrittenAhead, Ahead
  <1>2. ASSUME UNCHANGED saga, NEW p \in Processes, At(p, "write"), unread' = unread \cup proc[p].todo
        PROVE  WrittenAhead'
    <2>1. \A d \in proc[p].todo : saga[d].state = "smartup_write_started" /\ saga[d].event = "remote_write_started"
      BY <1>2 DEF Alone, Pass, At
    <2> QED
      BY <1>2, <2>1 DEF Alone, WrittenAhead, Ahead
  <1> QED
    BY <1>1, <1>2, UnreadStep

\* A step that leaves the processes where they are
Quiet ==
    /\ UNCHANGED <<proc, unread>>
    /\ \A d \in Deals :
        /\ saga'[d].event = saga[d].event
        /\ saga[d].state = "smartup_write_started" => saga'[d].state = saga[d].state

LEMMA QuietPass ==
    ASSUME Inv, Alone, Quiet, NEW p \in Processes
    PROVE  Pass(p)'
  <1>1. Pass(p) /\ proc[p].todo \subseteq Deals
    BY SlotOfProcess DEF Alone, Inv, Types, Process
  <1> QED
    BY <1>1 DEF Quiet, Pass, At

LEMMA WorldIsQuiet ==
    ASSUME Inv, NEW d \in Deals, World(d)
    PROVE  Quiet
  <1>0. RowTypes /\ SagasFine
    BY DEF Inv, Types
  <1>1. CASE SkladBot(d)
    <2>1. PICK to \in CreateStates :
              saga' = IF saga[d].tied THEN [saga EXCEPT ![d].state = Aggregate[to]] ELSE saga
      BY <1>1 DEF SkladBot, SkladBotStarts, SkladBotCreates, SkladBotIsUnsure, SkladBotStep, CreateStates
    <2>2. \A e \in Deals : saga'[e].event = saga[e].event
      BY <1>1, SkladBotFollows
    <2>3. \A e \in Deals : saga[e].state = "smartup_write_started" => saga'[e].state = saga[e].state
      BY <1>0, <2>1 DEF RowTypes, SagasFine, Fine, Past
    <2>4. UNCHANGED <<proc, unread>>
      BY <1>1 DEF SkladBot, SkladBotStarts, SkladBotCreates, SkladBotIsUnsure, SkladBotStep, worldVars
    <2> QED
      BY <2>2, <2>3, <2>4 DEF Quiet
  <1>2. CASE ~SkladBot(d)
    BY <1>2 DEF World, Appear, Leave, PutBack, ChatOrder, WriteArrives, dbVars, worldVars, Quiet
  <1> QED
    BY <1>1, <1>2

LEMMA ActorPass ==
    ASSUME Inv, Alone, NEW p \in Processes, Actor(p)
    PROVE  Pass(p)'
  <1>0. Types /\ RowTypes /\ SagasFine /\ WrittenAhead /\ Moves(p)
    BY ActorMoves DEF Inv, Types, Alone
  <1>1. CASE ReadBack(p)
    <2>1. proc'[p].pc = "reread" /\ DOMAIN proc'[p].seen = ToReconcile(p)
      BY <1>0, <1>1, ReadBackTurns
    <2>2. unread' = unread \ ToReconcile(p)
      BY <1>1 DEF ReadBack
    <2> QED
      BY <2>1, <2>2 DEF Pass, At
  <1>2. CASE ClaimWrites(p)
    <2>1. /\ proc'[p].pc = "write" /\ proc'[p].todo = Claimable(p) /\ unread' = unread
          /\ saga' = [d \in Deals |->
                       IF d \in Claimable(p)
                       THEN Synced([saga[d] EXCEPT !.state = "smartup_write_started", !.row = "processing"])
                       ELSE saga[d]]
      BY <1>0, <1>2, TodoTurns DEF ClaimWrites, worldVars
    <2>2. Claimable(p) \cap unread = {}
      BY <1>0 DEF WrittenAhead, Ahead, Claimable
    <2>3. ASSUME NEW d \in Claimable(p)
          PROVE  saga'[d].state = "smartup_write_started" /\ saga'[d].event = "remote_write_started"
      <3>1. proc[p].todo \subseteq Deals
        BY <1>0, SlotOfProcess DEF Types, Process
      <3>2. /\ d \in Deals /\ saga[d] \in Saga /\ Fine(saga[d], Shown(d))
            /\ saga[d].event = "intent_persisted" /\ saga[d].state \in {"local_ready", "smartup_ambiguous"}
        BY <1>0, <2>3, <3>1 DEF Claimable, RowTypes, SagasFine
      <3>3. saga'[d] = Synced([saga[d] EXCEPT !.state = "smartup_write_started", !.row = "processing"])
        BY <2>1, <2>3, <3>2
      <3> QED
        BY <3>2, <3>3, ClaimedFine
    <2> QED
      BY <2>1, <2>2, <2>3 DEF Pass, At
  <1>3. CASE ~ReadBack(p) /\ ~ClaimWrites(p)
    <2>1. proc'[p].pc \notin {"reread", "write"}
      <3>1. ASSUME NEW d \in Deals, ImportDeal(p, d) PROVE proc'[p].pc = "import"
        BY <1>0, <3>1, ImportTurns
      <3> QED
        BY <1>0, <1>3, <3>1 DEF Moves, Proceeds
    <2> QED
      BY <2>1 DEF Pass, At
  <1> QED
    BY <1>1, <1>2, <1>3

LEMMA AloneInit == Init => Alone
  <1>1. ASSUME Init PROVE \A p \in Processes : proc[p].pc = "idle"
    BY <1>1 DEF Init, Idle
  <1> QED
    BY <1>1 DEF Init, Alone, WrittenAhead, Pass, At

LEMMA AloneNext == ASSUME OneWorker PROVE Inv /\ Alone /\ [Next]_vars => Alone'
  <1> SUFFICES ASSUME Inv, Alone, [Next]_vars PROVE Alone'
    OBVIOUS
  <1>1. ASSUME NEW p \in Processes, Actor(p) PROVE \A q \in Processes : Pass(q)'
    <2>1. Pass(p)'
      BY <1>1, ActorPass
    <2>2. \A q \in Processes : q = p
      BY DEF OneWorker
    <2> QED
      BY <2>1, <2>2
  <1>2. ASSUME Quiet PROVE \A q \in Processes : Pass(q)'
    BY <1>2, QuietPass
  <1>3. ASSUME NEW d \in Deals, World(d) PROVE \A q \in Processes : Pass(q)'
    BY <1>2, <1>3, WorldIsQuiet
  <1>4. ASSUME PassTime \/ UNCHANGED vars PROVE \A q \in Processes : Pass(q)'
    BY <1>2, <1>4 DEF PassTime, dbVars, vars, Quiet
  <1>5. \A q \in Processes : Pass(q)'
    BY <1>1, <1>3, <1>4 DEF Next, Actor, World, SkladBot
  <1> QED
    BY <1>5, WrittenAheadStep DEF Alone

\* The runbook of the saga: with one worker, a deal whose write has no proved
\* result is read back before it is written again (execute_status_sagas).
THEOREM ReadBackFirst == ASSUME OneWorker PROVE Spec => []NoBlindWrite
  <1>1. Alone => NoBlindWrite
    BY DEF Alone, Pass, NoBlindWrite
  <1>2. Spec => [](Inv /\ Alone)
    BY InvInit, InvNext, AloneInit, AloneNext, PTL DEF Spec
  <1> QED
    BY <1>1, <1>2, PTL
==============================================================================
