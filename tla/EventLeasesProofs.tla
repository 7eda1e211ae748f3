--------------------------- MODULE EventLeasesProofs ---------------------------
(***************************************************************************)
(* For every set of rows, processes and owners, and every number of        *)
(* faults: the rows of notifications implement LeasedQueue.                *)
(*                                                                         *)
(* The invariant says what every process has in hand: rows of one kind     *)
(* only, under an owner no other process has; and that a row whose claim   *)
(* the disk does not have yet was free on the disk.  With it each step is  *)
(* mapped: a claim takes, a decision of the holder decides, a lease that   *)
(* runs out is lost, a death gives up, and the crash of the database loses *)
(* the claims that were not flushed.  The steps of the create workers are  *)
(* stutters.                                                               *)
(*                                                                         *)
(* The rows of creations are posted once: what the number of attempts, the *)
(* processes, and the disk say of a row that was not posted (OnceInv).     *)
(***************************************************************************)
EXTENDS EventLeases, TLAPS

Leased == Owners \cup {Nobody}

Results == {"none", "completed", "failed", "ambiguous", "retry_scheduled", "failed_confirmed"}

Worker ==
    [pc : {"idle", "batch", "send", "read", "start", "post", "record", "detail", "finish"},
     owner : Leased, todo : SUBSET Events, event : Events \cup {Nobody}, result : Results, lease : Leased]

\* What a process has in hand when its record is v
Held(v) == v.todo \cup ({v.event} \ {Nobody})

Sound(v) ==
    /\ v.pc = "idle" => v = IdleWorker
    /\ v.pc # "idle" => v.owner # Nobody
    /\ v.pc = "batch" => v.event = Nobody
    /\ v.pc = "send" => v.event \in Telegram
    /\ v.pc \in {"read", "start", "post", "record", "detail"} => v.event \in SkladBot
    /\ v.pc \in {"record", "detail"} => v.result \in {"completed", "ambiguous"}
    /\ v.pc = "finish" =>
          \/ v.event \in Telegram /\ v.result \in {"completed", "failed"}
          \/ v.event \in SkladBot /\ v.result \in Results \ {"none", "failed"}
    /\ v.event \notin v.todo
    /\ Held(v) \subseteq Telegram \/ Held(v) \subseteq SkladBot

WorkersOK == worker \in [Workers -> {v \in Worker : Sound(v)}]

OwnersDiffer ==
    \A p, q \in Workers : p # q /\ worker[p].owner = worker[q].owner => worker[p].owner = Nobody

RowsOK == row \in [Events -> Rows]

SentOK == sent \in [Events -> 0..2]

Free(r) == r.status \in {"pending", "failed"} \/ (r.status = "processing" /\ r.expired)

FlushOK ==
    /\ DOMAIN before \subseteq Events
    /\ \A e \in DOMAIN before : before[e] \in Rows /\ Free(before[e]) /\ row[e].status = "processing"

Inv == WorkersOK /\ OwnersDiffer /\ RowsOK /\ SentOK /\ FlushOK

LEMMA InvGivesTypeOK == Inv => TypeOK
  BY DEF Inv, WorkersOK, RowsOK, SentOK, FlushOK, TypeOK, Worker, Leased

-----------------------------------------------------------------------------
(* Records.                                                                *)

LEMMA IdleIsSound == IdleWorker \in {v \in Worker : Sound(v)}
  <1>1. IdleWorker \in Worker
    BY DEF IdleWorker, Worker, Leased, Results
  <1>2. Held(IdleWorker) = {}
    BY DEF Held, IdleWorker
  <1> QED
    BY <1>1, <1>2 DEF Sound, IdleWorker

LEMMA NewRowIsOK == NewRow \in Rows
  BY DEF NewRow, Rows, PostOutcomeAmbiguous

\* The changes a row sees.
PostStates == PostOutcomeAmbiguous \cup {"none", "completed", "retry_scheduled", "failed_confirmed"}

LEMMA ClaimedRow ==
    ASSUME NEW r \in Rows, NEW o \in Owners
    PROVE  [r EXCEPT !.status = "processing", !.owner = o, !.expired = FALSE, !.attempts = UpToTwo(@)] \in Rows
  <1>1. UpToTwo(r.attempts) \in 0..2
    BY DEF Rows, UpToTwo
  <1> QED
    BY <1>1 DEF Rows

LEMMA DecidedRow ==
    ASSUME NEW r \in Rows, NEW st \in {"pending", "failed"} \cup Terminal
    PROVE  [r EXCEPT !.status = st, !.owner = Nobody, !.expired = FALSE] \in Rows
  BY DEF Rows

LEMMA PostedRow ==
    ASSUME NEW r \in Rows, NEW p \in PostStates
    PROVE  /\ [r EXCEPT !.post = p] \in Rows
           /\ [r EXCEPT !.post = p].status = r.status
  BY DEF Rows, PostStates

LEMMA ExpiredRow ==
    ASSUME NEW r \in Rows
    PROVE  /\ [r EXCEPT !.expired = TRUE] \in Rows
           /\ [r EXCEPT !.expired = TRUE].status = r.status
           /\ [r EXCEPT !.expired = TRUE].expired
  BY DEF Rows

\* Changes of what a process is doing that keep the rows in hand.
Fits(v, p, res) ==
    \/ p \in {"start", "post"} /\ v.event \in SkladBot
    \/ p \in {"record", "detail"} /\ v.event \in SkladBot /\ res \in {"completed", "ambiguous"}
    \/ p = "finish" /\ v.event \in SkladBot /\ res \in Results \ {"none", "failed"}
    \/ p = "finish" /\ v.event \in Telegram /\ res \in {"completed", "failed"}

LEMMA NewOwnerIsNew ==
    ASSUME Unused # {}
    PROVE  /\ NewOwner \in Owners
           /\ \A e \in Events : row[e].owner # NewOwner
           /\ \A w \in Workers : worker[w].owner # NewOwner
  BY DEF NewOwner, Unused

-----------------------------------------------------------------------------
(* The invariant.                                                          *)

LEMMA InvInit == Init => Inv
  <1> SUFFICES ASSUME Init PROVE Inv
    OBVIOUS
  <1>1. WorkersOK
    BY IdleIsSound DEF Init, WorkersOK
  <1>2. OwnersDiffer
    BY DEF Init, OwnersDiffer, IdleWorker
  <1>3. RowsOK /\ SentOK
    BY NewRowIsOK DEF Init, RowsOK, SentOK
  <1>4. FlushOK
    BY DEF Init, FlushOK, Flushed
  <1> QED
    BY <1>1, <1>2, <1>3, <1>4 DEF Inv

\* A process whose new record is sound and has no new owner leaves the others alone.
LEMMA WorkerMoves ==
    ASSUME WorkersOK, OwnersDiffer, NEW w \in Workers, NEW u \in Worker, Sound(u),
           u.owner \in {worker[w].owner, Nobody},
           worker' = [worker EXCEPT ![w] = u]
    PROVE  WorkersOK' /\ OwnersDiffer'
  <1>1. WorkersOK'
    BY DEF WorkersOK
  <1>2. \A p \in Workers : worker'[p].owner \in {worker[p].owner, Nobody}
    BY DEF WorkersOK
  <1>3. OwnersDiffer'
    BY <1>2 DEF OwnersDiffer
  <1> QED
    BY <1>1, <1>3

\* A row in hand is a row, and Nobody is not.
LEMMA InHand ==
    ASSUME WorkersOK, NEW w \in Workers
    PROVE  /\ worker[w] \in Worker /\ Sound(worker[w])
           /\ Nobody \notin Events /\ Nobody \notin Owners
  BY EventAssumption DEF WorkersOK

\* What a process decides about, or drops, leaves a sound process.
LEMMA NextRowMoves ==
    ASSUME WorkersOK, OwnersDiffer, NEW w \in Workers, NextRow(w)
    PROVE  WorkersOK' /\ OwnersDiffer'
  <1> DEFINE v == worker[w]
             u == IF v.todo = {} THEN IdleWorker ELSE [v EXCEPT !.pc = "batch", !.event = Nobody]
  <1>1. worker' = [worker EXCEPT ![w] = u]
    BY DEF NextRow
  <1>2. u \in Worker /\ Sound(u) /\ u.owner \in {v.owner, Nobody}
    <2>1. CASE v.todo = {}
      BY <2>1, IdleIsSound DEF IdleWorker
    <2>2. CASE v.todo # {}
      <3>1. v \in Worker /\ Sound(v) /\ v.todo \subseteq Events /\ v.owner # Nobody
        BY <2>2, InHand DEF Worker, Sound, IdleWorker
      <3>2. u = [v EXCEPT !.pc = "batch", !.event = Nobody]
        BY <2>2
      <3> HIDE DEF u, v
      <3>3. u \in Worker /\ u.pc = "batch" /\ u.event = Nobody /\ u.todo = v.todo /\ u.owner = v.owner
        BY <3>1, <3>2 DEF Worker
      <3>4. Held(u) \subseteq Held(v) /\ u.event \notin u.todo
        BY <3>1, <3>3, InHand DEF Held
      <3> QED
        BY <3>1, <3>3, <3>4 DEF Sound
    <2> QED
      BY <2>1, <2>2
  <1> HIDE DEF u
  <1> QED
    BY <1>1, <1>2, WorkerMoves

LEMMA GiveUpMoves ==
    ASSUME WorkersOK, OwnersDiffer, NEW w \in Workers, GiveUp(w)
    PROVE  WorkersOK' /\ OwnersDiffer'
  <1>1. IdleWorker.owner = Nobody
    BY DEF IdleWorker
  <1> QED
    BY <1>1, IdleIsSound, WorkerMoves DEF GiveUp

LEMMA PickMoves ==
    ASSUME WorkersOK, OwnersDiffer, NEW w \in Workers, NEW e \in Events, Pick(w, e)
    PROVE  WorkersOK' /\ OwnersDiffer'
  <1> DEFINE v == worker[w]
             p == IF e \in Telegram THEN "send" ELSE "read"
             u == [v EXCEPT !.pc = p, !.event = e, !.todo = v.todo \ {e}]
  <1>1. worker' = [worker EXCEPT ![w] = u]
    BY DEF Pick, WorkersOK
  <1>2. v \in Worker /\ Sound(v) /\ v.pc = "batch" /\ e \in v.todo
    BY InHand DEF Pick, At
  <1>3. e # Nobody
    BY InHand
  <1> HIDE DEF u, v
  <1>4. /\ u \in Worker /\ u.pc = p /\ u.event = e /\ u.todo = v.todo \ {e} /\ u.owner = v.owner
    BY <1>2 DEF u, Worker
  <1>5. Held(u) = Held(v)
    BY <1>2, <1>3, <1>4 DEF Held, Sound
  <1>6. Sound(u)
    BY <1>2, <1>4, <1>5 DEF Sound, SkladBot
  <1> QED
    BY <1>1, <1>4, <1>6, WorkerMoves DEF v

LEMMA ClaimMoves ==
    ASSUME WorkersOK, OwnersDiffer, NEW w \in Workers, NEW rows, Claim(w, rows),
           rows \subseteq Telegram \/ rows \subseteq SkladBot
    PROVE  WorkersOK' /\ OwnersDiffer'
  <1> DEFINE u == [IdleWorker EXCEPT !.pc = "batch", !.owner = NewOwner, !.todo = rows]
  <1>1. worker' = [worker EXCEPT ![w] = u] /\ Unused # {}
    BY DEF Claim
  <1>2. NewOwner \in Owners /\ \A p \in Workers : worker[p].owner # NewOwner
    BY <1>1, NewOwnerIsNew
  <1>3. rows \subseteq Events
    BY TelegramAssumption DEF SkladBot
  <1>4. /\ u \in Worker /\ u.pc = "batch" /\ u.event = Nobody /\ u.todo = rows /\ u.owner = NewOwner
    BY <1>2, <1>3 DEF IdleWorker, Worker, Leased, Results
  <1>5. Sound(u)
    BY <1>2, <1>3, <1>4, InHand DEF Sound, Held
  <1> HIDE DEF u
  <1>6. WorkersOK'
    BY <1>1, <1>4, <1>5 DEF WorkersOK
  <1>7. \A p \in Workers : worker'[p].owner = IF p = w THEN NewOwner ELSE worker[p].owner
    BY <1>1, <1>4 DEF WorkersOK
  <1> QED
    BY <1>2, <1>6, <1>7 DEF OwnersDiffer

\* The steps of a notification and of a create event up to the decision.
LEMMA StepMoves ==
    ASSUME WorkersOK, OwnersDiffer, RowsOK, NEW w \in Workers,
           \/ SendNotification(w) \/ ReadCreate(w) \/ StartPost(w) \/ PostAnswered(w) \/ PostFails(w)
           \/ RecordPost(w) \/ ReadDetail(w)
    PROVE  WorkersOK' /\ OwnersDiffer'
  <1>v. PICK v : v = worker[w]
    OBVIOUS
  <1> DEFINE U(p, res, l) == [v EXCEPT !.pc = p, !.result = res, !.lease = l]
  <1>0. v \in Worker /\ Sound(v) /\ v.result \in Results /\ v.lease \in Leased
    BY <1>v, InHand DEF Worker
  <1>1. \A p, res : worker' = [worker EXCEPT ![w].pc = p, ![w].result = res]
                    => worker' = [worker EXCEPT ![w] = U(p, res, v.lease)]
    BY <1>v, <1>0 DEF WorkersOK, Worker
  <1>2. \A p : Goto(w, p) => worker' = [worker EXCEPT ![w] = U(p, v.result, v.lease)]
    BY <1>v, <1>0 DEF WorkersOK, Worker, Goto
  <1>3. \A res : Judged(w, res) => worker' = [worker EXCEPT ![w] = U("finish", res, row[v.event].owner)]
    BY <1>v DEF WorkersOK, Judged, Event
  <1>4. v.event \in SkladBot => row[v.event].owner \in Leased
    BY DEF RowsOK, SkladBot, Rows, Leased
  <1>5. \E p \in {"start", "post", "record", "detail", "finish"}, res \in Results, l \in Leased :
           worker' = [worker EXCEPT ![w] = U(p, res, l)] /\ Fits(v, p, res)
    <2> HIDE DEF U
    <2>1. CASE SendNotification(w)
      BY <1>v, <1>0, <1>1, <2>1 DEF SendNotification, Sound, At, Results, Fits
    <2>2. CASE ReadCreate(w)
      BY <1>v, <1>0, <1>2, <1>3, <1>4, <2>2 DEF ReadCreate, Sound, At, Results, Fits
    <2>3. CASE StartPost(w)
      BY <1>v, <1>0, <1>2, <2>3 DEF StartPost, Sound, At, Fits
    <2>4. CASE PostAnswered(w)
      BY <1>v, <1>0, <1>1, <2>4 DEF PostAnswered, Sound, At, Results, Fits
    <2>5. CASE PostFails(w)
      BY <1>v, <1>0, <1>1, <1>3, <1>4, <2>5 DEF PostFails, Sound, At, Results, Fits
    <2>6. CASE RecordPost(w)
      BY <1>v, <1>0, <1>2, <2>6 DEF RecordPost, Sound, At, Fits
    <2>7. CASE ReadDetail(w)
      BY <1>v, <1>0, <1>3, <1>4, <2>7 DEF ReadDetail, Sound, At, Results, Fits
    <2> QED
      BY <2>1, <2>2, <2>3, <2>4, <2>5, <2>6, <2>7
  <1>6. PICK p \in {"start", "post", "record", "detail", "finish"}, res \in Results, l \in Leased :
           worker' = [worker EXCEPT ![w] = U(p, res, l)] /\ Fits(v, p, res)
    BY <1>5
  <1>7. PICK u : u = [v EXCEPT !.pc = p, !.result = res, !.lease = l]
    OBVIOUS
  <1>8. worker' = [worker EXCEPT ![w] = u]
    BY <1>6, <1>7
  <1> HIDE DEF U
  <1>9. u \in Worker /\ Sound(u) /\ u.owner = v.owner
    <2>1. /\ u \in Worker
          /\ u.pc = p /\ u.result = res /\ u.event = v.event /\ u.todo = v.todo /\ u.owner = v.owner
      BY <1>0, <1>7 DEF Worker
    <2>2. Held(u) = Held(v)
      BY <2>1 DEF Held
    <2>3. v.owner # Nobody
      BY <1>0, <1>6, EventAssumption, TelegramAssumption DEF Sound, Fits, IdleWorker, SkladBot
    <2> QED
      BY <1>0, <1>6, <2>1, <2>2, <2>3 DEF Sound, Fits
  <1> QED
    BY <1>8, <1>9, <1>v, WorkerMoves

LEMMA WorkersStep == Inv /\ [Next]_vars => WorkersOK' /\ OwnersDiffer'
  <1> SUFFICES ASSUME Inv, [Next]_vars PROVE WorkersOK' /\ OwnersDiffer'
    OBVIOUS
  <1>0. WorkersOK /\ OwnersDiffer /\ RowsOK
    BY DEF Inv
  <1>1. CASE UNCHANGED worker
    BY <1>0, <1>1 DEF WorkersOK, OwnersDiffer
  <1>2. ASSUME NEW w \in Workers, ClaimNotification(w) \/ ClaimCreates(w) PROVE WorkersOK' /\ OwnersDiffer'
    <2>1. \E rows : Claim(w, rows) /\ (rows \subseteq Telegram \/ rows \subseteq SkladBot)
      BY <1>2 DEF ClaimNotification, ClaimCreates
    <2> QED
      BY <1>0, <2>1, ClaimMoves
  <1>3. ASSUME NEW w \in Workers, WorkerStep(w) PROVE WorkersOK' /\ OwnersDiffer'
    <2>1. CASE \E e \in Events : Pick(w, e)
      BY <1>0, <2>1, PickMoves
    <2>2. CASE FinishNotification(w) \/ FinishCreate(w)
      BY <1>0, <2>2, NextRowMoves DEF FinishNotification, FinishCreate
    <2>3. CASE NotificationRefused(w) \/ CreateRefused(w)
      BY <1>0, <2>3, GiveUpMoves DEF NotificationRefused, CreateRefused
    <2> QED
      BY <1>0, <1>3, <2>1, <2>2, <2>3, StepMoves DEF WorkerStep
  <1>4. ASSUME NEW w \in Workers, Crash(w) PROVE WorkersOK' /\ OwnersDiffer'
    BY <1>0, <1>4, GiveUpMoves DEF Crash
  <1>5. CASE Deploy \/ DatabaseCrash
    <2>1. \A w \in Workers : worker'[w] = IdleWorker \/ worker'[w] = worker[w]
      BY <1>5 DEF Deploy, DatabaseCrash
    <2>2. \E f : worker' = [w \in Workers |-> f[w]]
      <3>1. CASE Deploy
        BY <3>1 DEF Deploy
      <3>2. CASE DatabaseCrash
        BY <3>2 DEF DatabaseCrash
      <3> QED
        BY <1>5, <3>1, <3>2
    <2>3. worker' = [w \in Workers |-> worker'[w]]
      BY <2>2
    <2>4. WorkersOK'
      BY <1>0, <2>1, <2>3, IdleIsSound DEF WorkersOK
    <2>5. \A w \in Workers : worker'[w].owner \in {worker[w].owner, Nobody}
      BY <2>1 DEF IdleWorker
    <2>6. OwnersDiffer'
      BY <1>0, <2>5 DEF OwnersDiffer
    <2> QED
      BY <2>4, <2>6
  <1>6. (\E o \in Owners : Expire(o)) \/ (\E e \in Events : ResetStale(e)) \/ WalFlush => UNCHANGED worker
    BY DEF Expire, ResetStale, WalFlush
  <1> QED
    BY <1>1, <1>2, <1>3, <1>4, <1>5, <1>6 DEF Next, vars

\* Which steps write rows, and what becomes of the claims that are not flushed.
LEMMA RowFrame ==
    ASSUME [Next]_vars
    PROVE  \/ UNCHANGED <<row, before>>
           \/ /\ before' = Flushed
              /\ \/ \E w \in Workers : FinishNotification(w) \/ StartPost(w) \/ RecordPost(w) \/ FinishCreate(w)
                 \/ \E e \in Events : ResetStale(e)
                 \/ Deploy \/ DatabaseCrash
                 \/ UNCHANGED row
           \/ \E w \in Workers : ClaimNotification(w) \/ ClaimCreates(w)
           \/ \E o \in Owners : Expire(o)
  BY DEF Next, WorkerStep, Pick, SendNotification, FinishNotification, NotificationRefused, ReadCreate,
         StartPost, PostAnswered, PostFails, RecordPost, ReadDetail, FinishCreate, CreateRefused, Crash,
         ResetStale, Deploy, WalFlush, DatabaseCrash, vars

LEMMA ClaimIsSome ==
    ASSUME NEW w \in Workers, ClaimNotification(w) \/ ClaimCreates(w)
    PROVE  \E rows \in SUBSET Events : Claim(w, rows) /\ (rows \subseteq Telegram \/ rows \subseteq SkladBot)
  BY TelegramAssumption DEF ClaimNotification, ClaimCreates, SkladBot

LEMMA RowsStep == Inv /\ [Next]_vars => RowsOK'
  <1> SUFFICES ASSUME Inv, [Next]_vars PROVE RowsOK'
    OBVIOUS
  <1>0. RowsOK /\ WorkersOK /\ FlushOK
    BY DEF Inv
  <1>1. ASSUME NEW w \in Workers, NEW rows \in SUBSET Events, Claim(w, rows) PROVE RowsOK'
    <2>1. NewOwner \in Owners
      BY <1>1, NewOwnerIsNew DEF Claim
    <2>2. \A e \in Events : Claimed(e, NewOwner) \in Rows
      BY <1>0, <2>1, ClaimedRow DEF Claimed, RowsOK
    <2> QED
      BY <1>0, <1>1, <2>2 DEF Claim, RowsOK
  <1>2. ASSUME NEW w \in Workers, FinishNotification(w) PROVE RowsOK'
    <2>1. Event(w) \in Events /\ worker[w].result \in {"completed", "failed"}
      BY <1>0, <1>2, InHand, TelegramAssumption DEF FinishNotification, At, Sound, Event, SkladBot
    <2>2. Finalized(Event(w), worker[w].result) \in Rows
      BY <1>0, <2>1, DecidedRow DEF Finalized, RowsOK, Terminal
    <2> QED
      BY <1>0, <1>2, <2>1, <2>2 DEF FinishNotification, RowsOK
  <1>3. ASSUME NEW w \in Workers, StartPost(w) \/ RecordPost(w) PROVE RowsOK'
    <2>1. Event(w) \in Events
      BY <1>0, <1>3, InHand DEF StartPost, RecordPost, At, Sound, Event, SkladBot
    <2>2. PICK p \in PostStates : row' = [row EXCEPT ![Event(w)] = [row[Event(w)] EXCEPT !.post = p]]
      BY <1>0, <1>3 DEF StartPost, RecordPost, PostStates, PostOutcomeAmbiguous, RowsOK
    <2>3. [row[Event(w)] EXCEPT !.post = p] \in Rows
      BY <1>0, <2>1, PostedRow DEF RowsOK
    <2> QED
      BY <1>0, <2>1, <2>2, <2>3 DEF RowsOK
  <1>4. ASSUME NEW w \in Workers, FinishCreate(w) PROVE RowsOK'
    <2>1. Event(w) \in Events /\ worker[w].result \in Results \ {"none", "failed"}
      BY <1>0, <1>4, InHand, TelegramAssumption DEF FinishCreate, At, Sound, Event, SkladBot
    <2>2. StatusOf(worker[w].result) \in {"pending", "failed"} \cup Terminal
      BY DEF StatusOf, Terminal
    <2>3. Finalized(Event(w), StatusOf(worker[w].result)) \in Rows
      BY <1>0, <2>1, <2>2, DecidedRow DEF Finalized, RowsOK
    <2>4. worker[w].result \in PostStates
      BY <2>1 DEF Results, PostStates, PostOutcomeAmbiguous
    <2>5. [Finalized(Event(w), StatusOf(worker[w].result)) EXCEPT !.post = worker[w].result] \in Rows
      BY <2>3, <2>4, PostedRow
    <2> QED
      BY <1>0, <1>4, <2>1, <2>5 DEF FinishCreate, RowsOK
  <1>5. ASSUME NEW o \in Owners, Expire(o) PROVE RowsOK'
    <2>1. \A e \in Events : [row[e] EXCEPT !.expired = TRUE] \in Rows
      BY <1>0, ExpiredRow DEF RowsOK
    <2> QED
      BY <1>0, <1>5, <2>1 DEF Expire, RowsOK
  <1>6. \A e \in Events : Requeued(e) \in Rows
    BY <1>0, DecidedRow DEF Requeued, RowsOK
  <1>7. ASSUME NEW e \in Events, ResetStale(e) PROVE RowsOK'
    BY <1>0, <1>6, <1>7 DEF ResetStale, RowsOK
  <1>8. CASE Deploy
    BY <1>0, <1>6, <1>8 DEF Deploy, RowsOK
  <1>9. CASE DatabaseCrash
    BY <1>0, <1>9 DEF DatabaseCrash, RowsOK, FlushOK
  <1> QED
    BY <1>0, <1>1, <1>2, <1>3, <1>4, <1>5, <1>7, <1>8, <1>9, RowFrame, ClaimIsSome DEF RowsOK

LEMMA SentStep == Inv /\ [Next]_vars => SentOK'
  <1> SUFFICES ASSUME Inv, [Next]_vars PROVE SentOK'
    OBVIOUS
  <1>0. SentOK
    BY DEF Inv
  <1>1. \A n \in 0..2 : UpToTwo(n) \in 0..2
    BY DEF UpToTwo
  <1>2. \A e : [sent EXCEPT ![e] = UpToTwo(@)] \in [Events -> 0..2]
    BY <1>0, <1>1 DEF SentOK
  <1>3. UNCHANGED sent \/ \E e : sent' = [sent EXCEPT ![e] = UpToTwo(@)]
    BY DEF Next, WorkerStep, ClaimNotification, ClaimCreates, Claim, Expire, Pick, SendNotification,
           FinishNotification, NotificationRefused, ReadCreate, StartPost, PostAnswered, PostFails,
           RecordPost, ReadDetail, FinishCreate, CreateRefused, Crash, ResetStale, Deploy, WalFlush,
           DatabaseCrash, vars
  <1> QED
    BY <1>0, <1>2, <1>3 DEF SentOK

LEMMA FlushStep == Inv /\ [Next]_vars => FlushOK'
  <1> SUFFICES ASSUME Inv, [Next]_vars PROVE FlushOK'
    OBVIOUS
  <1>0. RowsOK /\ FlushOK
    BY DEF Inv
  <1>1. ASSUME NEW w \in Workers, NEW rows \in SUBSET Events, Claim(w, rows) PROVE FlushOK'
    <2>1. /\ DOMAIN before' = DOMAIN before \cup rows
          /\ \A e \in DOMAIN before \cup rows : before'[e] = IF e \in DOMAIN before THEN before[e] ELSE row[e]
          /\ \A e \in rows : Claimable(e)
          /\ \A e \in Events : row'[e] = IF e \in rows THEN Claimed(e, NewOwner) ELSE row[e]
      BY <1>1 DEF Claim
    <2>2. \A e \in Events : Claimed(e, NewOwner).status = "processing"
      BY <1>0 DEF Claimed, RowsOK, Rows
    <2>3. \A e \in rows : row[e] \in Rows /\ Free(row[e])
      BY <1>0, <2>1 DEF Claimable, Free, RowsOK
    <2> QED
      BY <1>0, <2>1, <2>2, <2>3 DEF FlushOK
  <1>2. ASSUME NEW o \in Owners, Expire(o) PROVE FlushOK'
    <2>1. \A e \in Events : row'[e].status = row[e].status
      BY <1>0, <1>2, ExpiredRow DEF Expire, RowsOK
    <2> QED
      BY <1>0, <1>2, <2>1 DEF Expire, FlushOK
  <1>3. CASE before' = Flushed
    BY <1>3 DEF FlushOK, Flushed
  <1> QED
    BY <1>0, <1>1, <1>2, <1>3, RowFrame, ClaimIsSome DEF FlushOK

LEMMA InvStep == Inv /\ [Next]_vars => Inv'
  BY WorkersStep, RowsStep, SentStep, FlushStep DEF Inv

LEMMA InvHolds == Spec => []Inv
  <1>1. Init => Inv
    BY InvInit
  <1>2. Inv /\ [Next]_vars => Inv'
    BY InvStep
  <1> QED
    BY <1>1, <1>2, PTL DEF Spec

\* Rows, processes and claims keep their types.
THEOREM TypeCorrect == Spec => []TypeOK
  BY InvHolds, InvGivesTypeOK, PTL

-----------------------------------------------------------------------------
(* A row is completed only if its call was executed.                       *)

\* The evidence of the call: the row and what the disk has of it, and the result of
\* a process, between the call and the decision.
RowsTell == \A e \in Events : (row[e].status = "completed" \/ row[e].post \in Identified) => sent[e] > 0
FlushTells == \A e \in DOMAIN before : before[e].post \in Identified => sent[e] > 0
ResultsTell ==
    \A w \in Workers :
        worker[w].pc \in {"record", "detail", "finish"} /\ worker[w].result = "completed" => sent[Event(w)] > 0

LEMMA SentGrows ==
    ASSUME Inv, [Next]_vars, NEW e \in Events, sent[e] > 0
    PROVE  sent'[e] > 0
  <1>0. SentOK
    BY DEF Inv
  <1>1. UNCHANGED sent \/ \E d : sent' = [sent EXCEPT ![d] = UpToTwo(@)]
    BY DEF Next, WorkerStep, ClaimNotification, ClaimCreates, Claim, Expire, Pick, SendNotification,
           FinishNotification, NotificationRefused, ReadCreate, StartPost, PostAnswered, PostFails,
           RecordPost, ReadDetail, FinishCreate, CreateRefused, Crash, ResetStale, Deploy, WalFlush,
           DatabaseCrash, vars
  <1>2. \A n \in 0..2 : UpToTwo(n) > 0
    BY DEF UpToTwo
  <1> QED
    BY <1>0, <1>1, <1>2 DEF SentOK

\* What a step writes about a row is what the row, the disk or a result told.
LEMMA RowsTellStep ==
    ASSUME Inv, RowsTell, FlushTells, ResultsTell, [Next]_vars
    PROVE  RowsTell'
  <1>0. RowsOK /\ WorkersOK /\ FlushOK
    BY DEF Inv
  <1> SUFFICES ASSUME NEW e \in Events, row'[e].status = "completed" \/ row'[e].post \in Identified
               PROVE  sent[e] > 0
    BY SentGrows DEF RowsTell
  <1>1. CASE row'[e] = row[e]
    BY <1>1 DEF RowsTell
  <1>2. ASSUME NEW w \in Workers, NEW rows \in SUBSET Events, Claim(w, rows), row'[e] # row[e]
        PROVE  sent[e] > 0
    <2>1. row'[e] = Claimed(e, NewOwner)
      BY <1>2 DEF Claim
    <2>2. row'[e].post = row[e].post /\ row'[e].status = "processing"
      BY <1>0, <2>1 DEF Claimed, RowsOK, Rows
    <2> QED
      BY <2>2 DEF RowsTell
  <1>3. ASSUME NEW w \in Workers, FinishNotification(w), row'[e] # row[e] PROVE sent[e] > 0
    <2>1. e = Event(w) /\ row'[e] = Finalized(e, worker[w].result)
      BY <1>0, <1>3 DEF FinishNotification, RowsOK
    <2>2. row'[e].post = row[e].post /\ row'[e].status = worker[w].result
      BY <1>0, <2>1 DEF Finalized, RowsOK, Rows
    <2> QED
      BY <1>3, <2>1, <2>2 DEF RowsTell, ResultsTell, FinishNotification, At
  <1>4. ASSUME NEW w \in Workers, StartPost(w), row'[e] # row[e] PROVE sent[e] > 0
    <2>1. row'[e].post = "started" /\ row'[e].status = row[e].status
      BY <1>0, <1>4 DEF StartPost, RowsOK, Rows
    <2> QED
      BY <2>1 DEF RowsTell, Identified
  <1>5. ASSUME NEW w \in Workers, RecordPost(w), row'[e] # row[e] PROVE sent[e] > 0
    <2>1. /\ e = Event(w) /\ row'[e].status = row[e].status
          /\ row'[e].post = IF worker[w].result = "completed" THEN "response_received" ELSE "ambiguous"
      BY <1>0, <1>5 DEF RecordPost, RowsOK, Rows
    <2> QED
      BY <1>5, <2>1 DEF RowsTell, ResultsTell, Identified, RecordPost, At
  <1>6. ASSUME NEW w \in Workers, FinishCreate(w), row'[e] # row[e] PROVE sent[e] > 0
    <2>1. /\ e = Event(w)
          /\ row'[e] = [Finalized(e, StatusOf(worker[w].result)) EXCEPT !.post = worker[w].result]
      BY <1>0, <1>6 DEF FinishCreate, RowsOK
    <2>2. row'[e].post = worker[w].result /\ row'[e].status = StatusOf(worker[w].result)
      BY <1>0, <2>1 DEF Finalized, RowsOK, Rows
    <2>3. worker[w].result \in Results \ {"none", "failed"}
      BY <1>0, <1>6, InHand, TelegramAssumption DEF FinishCreate, At, Sound, Event, SkladBot
    <2>4. worker[w].result = "completed"
      BY <2>2, <2>3 DEF Results, Identified, StatusOf
    <2> QED
      BY <1>6, <2>1, <2>4 DEF ResultsTell, FinishCreate, At
  <1>7. ASSUME NEW o \in Owners, Expire(o), row'[e] # row[e] PROVE sent[e] > 0
    <2>1. row'[e].post = row[e].post /\ row'[e].status = row[e].status
      BY <1>0, <1>7 DEF Expire, RowsOK, Rows
    <2> QED
      BY <2>1 DEF RowsTell
  <1>8. ASSUME \/ Deploy
               \/ \E d \in Events : ResetStale(d),
               row'[e] # row[e] PROVE sent[e] > 0
    <2>1. row'[e] = Requeued(e)
      BY <1>0, <1>8 DEF Deploy, ResetStale, RowsOK
    <2>2. row'[e].post = row[e].post /\ row'[e].status = "pending"
      BY <1>0, <2>1 DEF Requeued, RowsOK, Rows
    <2> QED
      BY <2>2 DEF RowsTell
  <1>9. ASSUME DatabaseCrash, row'[e] # row[e] PROVE sent[e] > 0
    <2>1. e \in DOMAIN before /\ row'[e] = before[e]
      BY <1>9 DEF DatabaseCrash
    <2>2. before[e].status # "completed"
      BY <1>0, <2>1 DEF FlushOK, Free
    <2> QED
      BY <2>1, <2>2 DEF FlushTells
  <1> QED
    BY <1>1, <1>2, <1>3, <1>4, <1>5, <1>6, <1>7, <1>8, <1>9, RowFrame, ClaimIsSome

LEMMA FlushTellsStep ==
    ASSUME Inv, RowsTell, FlushTells, [Next]_vars
    PROVE  FlushTells'
  <1>1. ASSUME NEW e \in DOMAIN before' PROVE e \in Events /\ (before'[e].post \in Identified => sent[e] > 0)
    <2>1. CASE before' = Flushed
      BY <1>1, <2>1 DEF Flushed
    <2>2. CASE before' = before
      BY <1>1, <2>2 DEF FlushTells, Inv, FlushOK
    <2>3. ASSUME NEW w \in Workers, NEW rows \in SUBSET Events, Claim(w, rows)
          PROVE  e \in Events /\ (before'[e].post \in Identified => sent[e] > 0)
      <3>1. e \in DOMAIN before \cup rows /\ before'[e] = IF e \in DOMAIN before THEN before[e] ELSE row[e]
        BY <1>1, <2>3 DEF Claim
      <3> QED
        BY <3>1 DEF FlushTells, RowsTell, Inv, FlushOK
    <2> QED
      BY <2>1, <2>2, <2>3, RowFrame, ClaimIsSome DEF Expire
  <1> QED
    BY <1>1, SentGrows DEF FlushTells


\* What a process may become: a process without a result, or one of the steps of a call.
LEMMA WorkerFrame ==
    ASSUME Inv, [Next]_vars, NEW w \in Workers, worker'[w] # worker[w]
    PROVE  \/ worker'[w].pc \in {"idle", "batch", "send", "read"}
           \/ /\ worker[w] \in Worker /\ Sound(worker[w])
              /\ \/ SendNotification(w) \/ ReadCreate(w) \/ StartPost(w) \/ PostAnswered(w) \/ PostFails(w)
                 \/ RecordPost(w) \/ ReadDetail(w)
  <1>0. WorkersOK /\ worker[w] \in Worker /\ Sound(worker[w]) /\ IdleWorker.pc = "idle"
    BY InHand DEF Inv, IdleWorker
  <1>1. ASSUME NEW q \in Workers, ClaimNotification(q) \/ ClaimCreates(q)
        PROVE  worker'[w].pc \in {"idle", "batch", "send", "read"}
    <2>1. PICK rows \in SUBSET Events : Claim(q, rows)
      BY <1>1, ClaimIsSome
    <2>2. q = w /\ worker'[w] = [IdleWorker EXCEPT !.pc = "batch", !.owner = NewOwner, !.todo = rows]
      BY <1>0, <2>1 DEF Claim, WorkersOK
    <2> QED
      BY <2>2 DEF IdleWorker
  <1>2. ASSUME NEW q \in Workers, NEW e \in Events, Pick(q, e)
        PROVE  worker'[w].pc \in {"idle", "batch", "send", "read"}
    BY <1>0, <1>2 DEF Pick, WorkersOK, Worker
  <1>3. ASSUME NEW q \in Workers, NextRow(q)
        PROVE  worker'[w].pc \in {"idle", "batch", "send", "read"}
    BY <1>0, <1>3 DEF NextRow, WorkersOK, Worker
  <1>4. ASSUME NEW q \in Workers, GiveUp(q)
        PROVE  worker'[w].pc \in {"idle", "batch", "send", "read"}
    BY <1>0, <1>4 DEF GiveUp, WorkersOK
  <1>5. ASSUME Deploy \/ DatabaseCrash
        PROVE  worker'[w].pc \in {"idle", "batch", "send", "read"}
    BY <1>0, <1>5 DEF Deploy, DatabaseCrash
  <1>6. ASSUME NEW q \in Workers,
               \/ SendNotification(q) \/ ReadCreate(q) \/ StartPost(q) \/ PostAnswered(q) \/ PostFails(q)
               \/ RecordPost(q) \/ ReadDetail(q)
        PROVE  q = w
    BY <1>0, <1>6 DEF WorkersOK, SendNotification, ReadCreate, StartPost, PostAnswered, PostFails, RecordPost,
                      ReadDetail, Goto, Judged
  <1>7. CASE \E q \in Workers : WorkerStep(q)
    BY <1>0, <1>2, <1>3, <1>4, <1>6, <1>7
       DEF WorkerStep, FinishNotification, NotificationRefused, FinishCreate, CreateRefused
  <1>8. CASE \E q \in Workers : ClaimNotification(q) \/ ClaimCreates(q) \/ Crash(q)
    BY <1>1, <1>4, <1>8 DEF Crash
  <1>9. (\E o \in Owners : Expire(o)) \/ (\E e \in Events : ResetStale(e)) \/ WalFlush => UNCHANGED worker
    BY DEF Expire, ResetStale, WalFlush
  <1> QED
    BY <1>5, <1>7, <1>8, <1>9 DEF Next, vars

LEMMA ResultsTellStep ==
    ASSUME Inv, RowsTell, ResultsTell, [Next]_vars
    PROVE  ResultsTell'
  <1> SUFFICES ASSUME NEW w \in Workers, worker'[w].pc \in {"record", "detail", "finish"},
                      worker'[w].result = "completed"
               PROVE  sent'[worker'[w].event] > 0
    BY DEF ResultsTell, Event
  <1>0. WorkersOK /\ SentOK /\ worker[w] \in Worker /\ Sound(worker[w])
    BY InHand DEF Inv
  <1>1. CASE worker'[w] = worker[w]
    <2>1. worker[w].event \in Events /\ sent[worker[w].event] > 0
      BY <1>0, <1>1, TelegramAssumption DEF ResultsTell, Event, Sound, SkladBot
    <2> QED
      BY <1>1, <2>1, SentGrows
  <1>2. CASE SendNotification(w) \/ PostAnswered(w)
    <2>1. worker'[w].event = worker[w].event /\ worker[w].event \in Events
      BY <1>0, <1>2, TelegramAssumption DEF SendNotification, PostAnswered, At, Sound, SkladBot, WorkersOK, Worker
    <2>2. sent' = [sent EXCEPT ![worker[w].event] = UpToTwo(@)]
      BY <1>0, <1>2 DEF SendNotification, PostAnswered, Event, WorkersOK, Worker
    <2>3. \A n \in 0..2 : UpToTwo(n) > 0
      BY DEF UpToTwo
    <2> QED
      BY <1>0, <2>1, <2>2, <2>3 DEF SentOK
  <1>3. CASE ReadCreate(w)
    <2>1. row[worker[w].event].post \in Identified /\ worker'[w].event = worker[w].event /\ worker[w].event \in Events
      BY <1>0, <1>3 DEF ReadCreate, At, Sound, SkladBot, Goto, Judged, Event, WorkersOK, Worker
    <2> QED
      BY <2>1, SentGrows DEF RowsTell
  <1>4. CASE StartPost(w)
    BY <1>0, <1>4 DEF StartPost, Goto, WorkersOK, Worker
  <1>5. CASE PostFails(w)
    BY <1>0, <1>5 DEF PostFails, Judged, WorkersOK, Worker
  <1>6. CASE RecordPost(w) \/ ReadDetail(w)
    <2>1. /\ worker[w].pc \in {"record", "detail"} /\ worker[w].result = "completed"
          /\ worker'[w].event = worker[w].event /\ worker[w].event \in Events
      BY <1>0, <1>6 DEF RecordPost, ReadDetail, At, Sound, SkladBot, Goto, Judged, WorkersOK, Worker
    <2> QED
      BY <2>1, SentGrows DEF ResultsTell, Event
  <1> QED
    BY <1>1, <1>2, <1>3, <1>4, <1>5, <1>6, WorkerFrame

\* Delivery is at least once: whoever worked on a row and whatever was forgotten, it
\* is completed only after the outside executed its call.
THEOREM CompletedIsExecuted == Spec => []CompletedIsSent
  <1>1. Init => RowsTell /\ FlushTells /\ ResultsTell
    BY DEF Init, RowsTell, FlushTells, ResultsTell, NewRow, Identified, Flushed, IdleWorker
  <1>2. Inv /\ (RowsTell /\ FlushTells /\ ResultsTell) /\ [Next]_vars => (RowsTell /\ FlushTells /\ ResultsTell)'
    BY RowsTellStep, FlushTellsStep, ResultsTellStep
  <1>3. RowsTell => CompletedIsSent
    BY DEF RowsTell, CompletedIsSent
  <1> QED
    BY <1>1, <1>2, <1>3, InvHolds, PTL DEF Spec

-----------------------------------------------------------------------------
(* The refinement.  Holder, Busy and Ended are the state of LeasedQueue.   *)

Holder == [e \in Telegram |-> IF row[e].status = "processing" /\ ~row[e].expired THEN row[e].owner ELSE Nobody]
Busy == {p \in Owners \X Telegram :
            \E w \in Workers : worker[w].owner = p[1] /\ p[2] \in worker[w].todo \cup {Event(w)}}
Ended == {e \in Telegram : row[e].status \in Terminal}

AbstractStep == [Leases!Next]_<<Holder, Busy, Ended>>

LEMMA AbstractTake ==
    ASSUME NEW o \in Owners, NEW rows \in SUBSET Telegram,
           \A e \in Telegram : Holder[e] # o /\ <<o, e>> \notin Busy,
           \A e \in rows : Holder[e] = Nobody /\ e \notin Ended,
           Holder' = [e \in Telegram |-> IF e \in rows THEN o ELSE Holder[e]],
           Busy' = Busy \cup ({o} \X rows), Ended' = Ended
    PROVE  AbstractStep
  <1>1. Leases!Take(o, rows)
    BY DEF Leases!Take, Holder, Busy, Ended
  <1> QED
    BY <1>1 DEF AbstractStep, Leases!Next

LEMMA AbstractDecide ==
    ASSUME NEW o \in Owners, NEW e \in Telegram,
           Holder[e] = o, <<o, e>> \in Busy,
           Holder' = [Holder EXCEPT ![e] = Nobody],
           Busy' = Busy \ {<<o, e>>}, Ended' \in {Ended, Ended \cup {e}}
    PROVE  AbstractStep
  <1>1. Leases!Decide(o, e)
    BY DEF Leases!Decide, Holder, Busy, Ended
  <1> QED
    BY <1>1 DEF AbstractStep, Leases!Next

LEMMA AbstractQuit ==
    ASSUME NEW gone \in SUBSET (Owners \X Telegram), NEW rows \in SUBSET Telegram,
           Busy' = Busy \ gone,
           Holder' = [e \in Telegram |-> IF e \in rows THEN Nobody ELSE Holder[e]],
           Ended' = Ended
    PROVE  AbstractStep
  <1>1. Leases!Quit(gone, rows)
    BY DEF Leases!Quit, Holder, Busy, Ended
  <1> QED
    BY <1>1 DEF AbstractStep, Leases!Next

LEMMA AbstractStutter ==
    ASSUME Holder' = Holder, Busy' = Busy, Ended' = Ended PROVE AbstractStep
  BY DEF AbstractStep

\* What a process has in hand as pairs, and what becomes of Busy when it changes.
Hands(v) == {p \in Owners \X Telegram : v.owner = p[1] /\ p[2] \in v.todo \cup {v.event}}

LEMMA BusyIsHands == Busy = {p \in Owners \X Telegram : \E w \in Workers : p \in Hands(worker[w])}
  BY DEF Busy, Hands, Event

LEMMA BusyShrinks ==
    ASSUME WorkersOK, OwnersDiffer, NEW w \in Workers, NEW u, worker' = [worker EXCEPT ![w] = u],
           Hands(u) \subseteq Hands(worker[w])
    PROVE  Busy' = Busy \ (Hands(worker[w]) \ Hands(u))
  <1>1. \A q \in Workers : worker'[q] = IF q = w THEN u ELSE worker[q]
    BY DEF WorkersOK
  <1>2. Busy' = {p \in Owners \X Telegram : \E q \in Workers : p \in Hands(worker'[q])}
    BY DEF Busy, Hands, Event
  <1>3. ASSUME NEW q \in Workers, q # w, NEW p \in Owners \X Telegram, p \in Hands(worker[q])
        PROVE  p \notin Hands(worker[w])
    <2>1. p[1] = worker[q].owner /\ p[1] # Nobody
      BY <1>3, EventAssumption DEF Hands
    <2>2. worker[q].owner # worker[w].owner
      BY <1>3, <2>1 DEF OwnersDiffer
    <2> QED
      BY <2>1, <2>2 DEF Hands
  <1> QED
    BY <1>1, <1>2, <1>3, BusyIsHands

LEMMA BusyStays ==
    ASSUME WorkersOK, \A w \in Workers : Hands(worker'[w]) = Hands(worker[w])
    PROVE  Busy' = Busy
  <1>1. Busy' = {p \in Owners \X Telegram : \E q \in Workers : p \in Hands(worker'[q])}
    BY DEF Busy, Hands, Event
  <1> QED
    BY <1>1, BusyIsHands

LEMMA IdleHands == Hands(IdleWorker) = {}
  BY EventAssumption DEF Hands, IdleWorker

\* The rows of notifications that do not change.
LEMMA RowsStay ==
    ASSUME \A e \in Telegram : row'[e] = row[e]
    PROVE  Holder' = Holder /\ Ended' = Ended
  BY DEF Holder, Ended

LEMMA GiveUpAbstract ==
    ASSUME Inv, NEW w \in Workers, GiveUp(w), UNCHANGED row
    PROVE  AbstractStep
  <1>1. Busy' = Busy \ Hands(worker[w])
    BY BusyShrinks, IdleHands DEF Inv, GiveUp
  <1>0. PICK none \in SUBSET Telegram : none = {}
    OBVIOUS
  <1>2. Holder' = [e \in Telegram |-> IF e \in none THEN Nobody ELSE Holder[e]] /\ Ended' = Ended
    <2>1. Holder' = Holder /\ Ended' = Ended
      BY RowsStay
    <2>2. Holder = [e \in Telegram |-> IF e \in none THEN Nobody ELSE Holder[e]]
      BY <1>0 DEF Holder
    <2> QED
      BY <2>1, <2>2
  <1>3. Hands(worker[w]) \in SUBSET (Owners \X Telegram)
    BY DEF Hands
  <1> QED
    BY <1>1, <1>2, <1>3, AbstractQuit

LEMMA ClaimAbstract ==
    ASSUME Inv, NEW w \in Workers, NEW rows \in SUBSET Events, Claim(w, rows),
           rows \subseteq Telegram \/ rows \subseteq SkladBot
    PROVE  AbstractStep
  <1> DEFINE u == [IdleWorker EXCEPT !.pc = "batch", !.owner = NewOwner, !.todo = rows]
  <1>0. WorkersOK /\ RowsOK /\ Unused # {} /\ worker' = [worker EXCEPT ![w] = u] /\ worker[w] = IdleWorker
    <2>1. worker[w] = IdleWorker
      BY InHand DEF Inv, Claim, At, Sound
    <2> QED
      BY <2>1 DEF Inv, Claim
  <1>1. /\ NewOwner \in Owners
        /\ \A e \in Events : row[e].owner # NewOwner
        /\ \A q \in Workers : worker[q].owner # NewOwner
    BY <1>0, NewOwnerIsNew
  <1>2. Hands(u) = {p \in Owners \X Telegram : NewOwner = p[1] /\ p[2] \in rows}
    <2>1. u.owner = NewOwner /\ u.todo = rows /\ u.event = Nobody
      BY DEF IdleWorker
    <2> HIDE DEF u
    <2>2. \A p \in Owners \X Telegram : p[2] # Nobody
      BY EventAssumption, TelegramAssumption
    <2> QED
      BY <2>1, <2>2 DEF Hands
  <1>3. \A q \in Workers : worker'[q] = IF q = w THEN u ELSE worker[q]
    BY <1>0 DEF WorkersOK
  <1> HIDE DEF u
  <1>4. CASE rows \subseteq Telegram
    <2>1. Hands(u) = {NewOwner} \X rows
      BY <1>1, <1>2, <1>4
    <2>2. Busy' = Busy \cup ({NewOwner} \X rows)
      <3>1. Busy' = {p \in Owners \X Telegram : \E q \in Workers : p \in Hands(worker'[q])}
        BY DEF Busy, Hands, Event
      <3> QED
        BY <1>0, <1>3, <2>1, <3>1, BusyIsHands, IdleHands DEF Hands
    <2>3. \A e \in Telegram : Holder[e] # NewOwner /\ <<NewOwner, e>> \notin Busy
      BY <1>1, EventAssumption, TelegramAssumption DEF Holder, Busy
    <2>4. \A e \in rows : Holder[e] = Nobody /\ e \notin Ended
      BY <1>4 DEF Holder, Ended, Claim, Claimable, Terminal
    <2>5. \A e \in Events : row'[e] = IF e \in rows THEN Claimed(e, NewOwner) ELSE row[e]
      BY DEF Claim
    <2>6. \A e \in Events : /\ Claimed(e, NewOwner).status = "processing" /\ ~Claimed(e, NewOwner).expired
                           /\ Claimed(e, NewOwner).owner = NewOwner
      BY <1>0 DEF Claimed, RowsOK, Rows
    <2>7. Holder' = [e \in Telegram |-> IF e \in rows THEN NewOwner ELSE Holder[e]]
      BY <2>5, <2>6, TelegramAssumption DEF Holder
    <2>8. Ended' = Ended
      BY <2>4, <2>5, <2>6, <1>4, TelegramAssumption DEF Ended, Terminal
    <2> QED
      BY <1>1, <1>4, <2>2, <2>3, <2>4, <2>7, <2>8, AbstractTake
  <1>5. CASE rows \subseteq SkladBot
    <2>1. Hands(u) = {}
      BY <1>2, <1>5 DEF SkladBot
    <2>2. Busy' = Busy
      BY <1>0, <1>3, <2>1, IdleHands, BusyStays
    <2>3. \A e \in Telegram : row'[e] = row[e]
      BY <1>5, TelegramAssumption DEF Claim, SkladBot
    <2> QED
      BY <2>2, <2>3, RowsStay, AbstractStutter
  <1> QED
    BY <1>4, <1>5

\* The holder decides.
LEMMA FinishAbstract ==
    ASSUME Inv, NEW w \in Workers, FinishNotification(w)
    PROVE  AbstractStep
  <1> DEFINE v == worker[w]
             e == v.event
             u == IF v.todo = {} THEN IdleWorker ELSE [v EXCEPT !.pc = "batch", !.event = Nobody]
  <1>0. /\ WorkersOK /\ OwnersDiffer /\ RowsOK
        /\ v \in Worker /\ Sound(v) /\ Nobody \notin Events /\ Nobody \notin Owners
    BY InHand DEF Inv
  <1>1. e \in Telegram /\ e \in Events /\ v.result \in {"completed", "failed"} /\ Owns(e, v.owner)
    BY <1>0, TelegramAssumption DEF FinishNotification, At, Sound, Event, SkladBot
  <1>2. worker' = [worker EXCEPT ![w] = u]
    BY DEF FinishNotification, NextRow
  <1>3. v.owner \in Owners /\ row[e].owner = v.owner /\ row[e].status = "processing" /\ ~row[e].expired
    BY <1>0, <1>1 DEF Worker, Owns, Leased, Sound, FinishNotification, At
  <1>4. Hands(u) = Hands(v) \ {<<v.owner, e>>} /\ <<v.owner, e>> \in Hands(v)
    <2>1. e \notin v.todo /\ v.todo \subseteq Events
      BY <1>0 DEF Sound, Worker
    <2>2. CASE v.todo = {}
      BY <1>0, <1>1, <1>3, <2>2, IdleHands DEF Hands
    <2>3. CASE v.todo # {}
      <3>1. u.owner = v.owner /\ u.todo = v.todo /\ u.event = Nobody
        BY <1>0, <2>3 DEF Worker
      <3> HIDE DEF u
      <3> QED
        BY <1>0, <1>1, <1>3, <2>1, <3>1, TelegramAssumption DEF Hands
    <2> QED
      BY <2>2, <2>3
  <1> HIDE DEF u
  <1>5. Busy' = Busy \ {<<v.owner, e>>}
    <2>1. Busy' = Busy \ (Hands(v) \ Hands(u))
      BY <1>0, <1>2, <1>4, BusyShrinks
    <2> QED
      BY <1>4, <2>1
  <1>6. <<v.owner, e>> \in Busy
    BY <1>4, BusyIsHands DEF Hands
  <1>7. row' = [row EXCEPT ![e] = Finalized(e, v.result)]
    BY DEF FinishNotification, Event
  <1>8. Finalized(e, v.result).status = v.result
    BY <1>0, <1>1 DEF Finalized, RowsOK, Rows
  <1>9. /\ Holder[e] = v.owner
        /\ Holder' = [Holder EXCEPT ![e] = Nobody]
    BY <1>0, <1>1, <1>3, <1>7, <1>8, TelegramAssumption DEF Holder, RowsOK
  <1>10. Ended' \in {Ended, Ended \cup {e}}
    <2>1. \A d \in Telegram : d # e => row'[d] = row[d]
      BY <1>0, <1>7, TelegramAssumption DEF RowsOK
    <2>2. row'[e].status = v.result /\ e \notin Ended
      BY <1>0, <1>1, <1>3, <1>7, <1>8 DEF RowsOK, Ended, Terminal
    <2>3. CASE v.result = "completed"
      BY <1>1, <2>1, <2>2, <2>3 DEF Ended, Terminal
    <2>4. CASE v.result = "failed"
      BY <1>1, <2>1, <2>2, <2>4 DEF Ended, Terminal
    <2> QED
      BY <1>1, <2>3, <2>4
  <1> QED
    BY <1>1, <1>3, <1>5, <1>6, <1>9, <1>10, AbstractDecide

\* The steps of a process that keep its rows in hand.
LEMMA PickAbstract ==
    ASSUME Inv, NEW w \in Workers, NEW e \in Events, Pick(w, e)
    PROVE  AbstractStep
  <1> DEFINE v == worker[w]
             u == [v EXCEPT !.pc = IF e \in Telegram THEN "send" ELSE "read", !.event = e, !.todo = v.todo \ {e}]
  <1>0. WorkersOK /\ OwnersDiffer /\ v \in Worker /\ Sound(v) /\ e \in v.todo /\ v.event = Nobody
    BY InHand DEF Inv, Pick, At, Sound
  <1>1. worker' = [worker EXCEPT ![w] = u] /\ UNCHANGED row
    BY <1>0 DEF Pick, WorkersOK
  <1>2. u.owner = v.owner /\ u.event = e /\ u.todo = v.todo \ {e}
    BY <1>0 DEF Worker
  <1> HIDE DEF u, v
  <1>3. Hands(u) = Hands(v)
    BY <1>0, <1>2, EventAssumption, TelegramAssumption DEF Hands
  <1>4. Busy' = Busy
    BY <1>0, <1>1, <1>3, BusyShrinks DEF v
  <1> QED
    BY <1>1, <1>4, RowsStay, AbstractStutter

LEMMA StepAbstract ==
    ASSUME Inv, NEW w \in Workers,
           \/ SendNotification(w) \/ ReadCreate(w) \/ StartPost(w) \/ PostAnswered(w) \/ PostFails(w)
           \/ RecordPost(w) \/ ReadDetail(w)
    PROVE  AbstractStep
  <1>0. WorkersOK /\ worker[w] \in Worker /\ Sound(worker[w])
    BY InHand DEF Inv
  <1>5. ASSUME NEW p, NEW res, worker' = [worker EXCEPT ![w].pc = p, ![w].result = res]
        PROVE  \A q \in Workers : /\ worker'[q].owner = worker[q].owner
                                  /\ worker'[q].todo = worker[q].todo
                                  /\ worker'[q].event = worker[q].event
    BY <1>0, <1>5 DEF WorkersOK, Worker
  <1>1. ASSUME NEW p, NEW res, NEW l,
               \/ worker' = [worker EXCEPT ![w].pc = p]
               \/ worker' = [worker EXCEPT ![w].pc = p, ![w].result = res, ![w].lease = l]
        PROVE  \A q \in Workers : /\ worker'[q].owner = worker[q].owner
                                  /\ worker'[q].todo = worker[q].todo
                                  /\ worker'[q].event = worker[q].event
    BY <1>0, <1>1 DEF WorkersOK, Worker
  <1>2. \A q \in Workers : /\ worker'[q].owner = worker[q].owner
                           /\ worker'[q].todo = worker[q].todo
                           /\ worker'[q].event = worker[q].event
    <2>1. CASE SendNotification(w)
      BY <1>5, <2>1 DEF SendNotification
    <2>2. CASE ReadCreate(w)
      BY <1>1, <2>2 DEF ReadCreate, Goto, Judged
    <2>3. CASE StartPost(w) \/ RecordPost(w)
      BY <1>1, <2>3 DEF StartPost, RecordPost, Goto
    <2>4. CASE PostAnswered(w)
      BY <1>5, <2>4 DEF PostAnswered
    <2>5. CASE PostFails(w)
      <3>1. CASE worker' = [worker EXCEPT ![w].pc = "record", ![w].result = "ambiguous"]
        BY <1>5, <3>1
      <3>2. CASE Judged(w, "retry_scheduled") \/ Judged(w, "failed_confirmed")
        BY <1>1, <3>2 DEF Judged
      <3> QED
        BY <2>5, <3>1, <3>2 DEF PostFails
    <2>6. CASE ReadDetail(w)
      <3>1. PICK res : Judged(w, res)
        BY <2>6 DEF ReadDetail
      <3>2. PICK l : l = row[Event(w)].owner
        OBVIOUS
      <3>3. worker' = [worker EXCEPT ![w].pc = "finish", ![w].result = res, ![w].lease = l]
        BY <3>1, <3>2 DEF Judged
      <3> QED
        BY <1>1, <3>3
    <2> QED
      BY <2>1, <2>2, <2>3, <2>4, <2>5, <2>6
  <1>3. Busy' = Busy
    BY <1>0, <1>2, BusyStays DEF Hands
  <1>4. \A e \in Telegram : row'[e] = row[e]
    <2>1. CASE StartPost(w) \/ RecordPost(w)
      <3>1. worker[w].event \in SkladBot
        BY <1>0, <2>1 DEF StartPost, RecordPost, At, Sound
      <3> QED
        BY <2>1, <3>1, TelegramAssumption DEF StartPost, RecordPost, Event, SkladBot, Inv, RowsOK
    <2> QED
      BY <2>1 DEF SendNotification, ReadCreate, PostAnswered, PostFails, ReadDetail
  <1> QED
    BY <1>3, <1>4, RowsStay, AbstractStutter

\* What a create worker decides is no step of the notifications.
LEMMA FinishCreateAbstract ==
    ASSUME Inv, NEW w \in Workers, FinishCreate(w)
    PROVE  AbstractStep
  <1> DEFINE v == worker[w]
             u == IF v.todo = {} THEN IdleWorker ELSE [v EXCEPT !.pc = "batch", !.event = Nobody]
  <1>0. WorkersOK /\ OwnersDiffer /\ RowsOK /\ v \in Worker /\ Sound(v) /\ v.event \in SkladBot
    BY InHand DEF Inv, FinishCreate, Event
  <1>1. worker' = [worker EXCEPT ![w] = u]
    BY DEF FinishCreate, NextRow
  <1>2. Hands(v) = {}
    <2>1. Held(v) \subseteq SkladBot
      BY <1>0, EventAssumption DEF Sound, Held, SkladBot
    <2> QED
      BY <1>0, <2>1, EventAssumption, TelegramAssumption DEF Hands, Held, SkladBot
  <1>3. Hands(u) = {}
    <2>1. CASE v.todo = {}
      BY <2>1, IdleHands
    <2>2. CASE v.todo # {}
      <3>1. u.owner = v.owner /\ u.todo = v.todo /\ u.event = Nobody
        BY <1>0, <2>2 DEF Worker
      <3> HIDE DEF u, v
      <3> QED
        BY <1>2, <3>1, EventAssumption, TelegramAssumption DEF Hands
    <2> QED
      BY <2>1, <2>2
  <1> HIDE DEF u, v
  <1>4. Busy' = Busy
    BY <1>0, <1>1, <1>2, <1>3, BusyShrinks DEF v
  <1>5. \A e \in Telegram : row'[e] = row[e]
    BY <1>0, TelegramAssumption DEF FinishCreate, SkladBot, RowsOK
  <1> QED
    BY <1>4, <1>5, RowsStay, AbstractStutter

\* Leases that run out are lost.
LEMMA ExpireAbstract ==
    ASSUME Inv, NEW o \in Owners, Expire(o)
    PROVE  AbstractStep
  <1>0. RowsOK /\ WorkersOK
    BY DEF Inv
  <1>1. PICK rows \in SUBSET Telegram : rows = {e \in Telegram : row[e].status = "processing" /\ row[e].owner = o}
    OBVIOUS
  <1>2. \A e \in Telegram : /\ e \in rows => row'[e].status = "processing" /\ row'[e].expired
                            /\ e \notin rows => row'[e] = row[e]
    BY <1>0, <1>1, ExpiredRow, TelegramAssumption DEF Expire, RowsOK
  <1>3. Holder' = [e \in Telegram |-> IF e \in rows THEN Nobody ELSE Holder[e]]
    BY <1>2 DEF Holder
  <1>4. Ended' = Ended
    BY <1>1, <1>2 DEF Ended, Terminal
  <1>5. Busy' = Busy \ {}
    BY <1>0, BusyStays DEF Expire
  <1> QED
    BY <1>3, <1>4, <1>5, AbstractQuit

\* A deployment takes all the leases back, when no process works.
LEMMA DeployAbstract ==
    ASSUME Inv, Deploy
    PROVE  AbstractStep
  <1>0. RowsOK /\ WorkersOK
    BY DEF Inv
  <1>1. PICK rows \in SUBSET Telegram :
            rows = {e \in Telegram : row[e].status = "processing" /\ row[e].owner # Nobody}
    OBVIOUS
  <1>2. \A e \in Telegram : /\ e \in rows => row'[e].status = "pending"
                            /\ e \notin rows => row'[e] = row[e]
    BY <1>0, <1>1, TelegramAssumption DEF Deploy, Requeued, RowsOK, Rows
  <1>3. Holder' = [e \in Telegram |-> IF e \in rows THEN Nobody ELSE Holder[e]]
    BY <1>2 DEF Holder
  <1>4. Ended' = Ended
    BY <1>1, <1>2 DEF Ended, Terminal
  <1>5. Busy' = Busy \ Busy
    <2>1. Busy' = {p \in Owners \X Telegram : \E q \in Workers : p \in Hands(worker'[q])}
      BY DEF Busy, Hands, Event
    <2>2. \A q \in Workers : worker'[q] = IdleWorker
      BY DEF Deploy
    <2> QED
      BY <2>1, <2>2, IdleHands
  <1>6. Busy \in SUBSET (Owners \X Telegram)
    BY DEF Busy
  <1> QED
    BY <1>3, <1>4, <1>5, <1>6, AbstractQuit

\* The crash of the database loses the claims that were not flushed.
LEMMA CrashAbstract ==
    ASSUME Inv, DatabaseCrash
    PROVE  AbstractStep
  <1>0. RowsOK /\ WorkersOK /\ FlushOK
    BY DEF Inv
  <1>1. PICK rows \in SUBSET Telegram : rows = Telegram \cap DOMAIN before
    OBVIOUS
  <1>2. \A e \in Telegram : row'[e] = IF e \in rows THEN before[e] ELSE row[e]
    BY <1>1, TelegramAssumption DEF DatabaseCrash
  <1>3. \A e \in rows : Free(before[e]) /\ row[e].status = "processing"
    BY <1>0, <1>1 DEF FlushOK
  <1>4. Holder' = [e \in Telegram |-> IF e \in rows THEN Nobody ELSE Holder[e]]
    BY <1>2, <1>3 DEF Holder, Free
  <1>5. Ended' = Ended
    BY <1>2, <1>3 DEF Ended, Free, Terminal
  <1>6. \A q \in Workers : Hands(worker'[q]) = Hands(worker[q])
    <2>1. ASSUME NEW q \in Workers, worker'[q] # worker[q] PROVE Hands(worker[q]) = {} /\ worker'[q] = IdleWorker
      <3>1. worker[q] \in Worker /\ Sound(worker[q]) /\ worker'[q] = IdleWorker
        BY <1>0, <2>1, InHand DEF DatabaseCrash
      <3>2. (worker[q].todo \cup {worker[q].event}) \cap SkladBot # {}
        BY <2>1 DEF DatabaseCrash, Event
      <3>3. Held(worker[q]) \subseteq SkladBot
        BY <3>1, <3>2, EventAssumption DEF Sound, Held, SkladBot
      <3> QED
        BY <3>1, <3>3, EventAssumption, TelegramAssumption DEF Hands, Held, SkladBot
    <2> QED
      BY <2>1, IdleHands
  <1>7. Busy' = Busy \ {}
    BY <1>0, <1>6, BusyStays
  <1> QED
    BY <1>4, <1>5, <1>7, AbstractQuit

LEMMA StepRefines == Inv /\ [Next]_vars => AbstractStep
  <1> SUFFICES ASSUME Inv, [Next]_vars PROVE AbstractStep
    OBVIOUS
  <1>1. ASSUME NEW w \in Workers, WorkerStep(w) PROVE AbstractStep
    <2>1. CASE NotificationRefused(w) \/ CreateRefused(w)
      BY <2>1, GiveUpAbstract DEF NotificationRefused, CreateRefused
    <2> QED
      BY <1>1, <2>1, PickAbstract, StepAbstract, FinishAbstract, FinishCreateAbstract DEF WorkerStep
  <1>2. ASSUME NEW w \in Workers, ClaimNotification(w) \/ ClaimCreates(w) PROVE AbstractStep
    BY <1>2, ClaimIsSome, ClaimAbstract
  <1>3. ASSUME NEW w \in Workers, Crash(w) PROVE AbstractStep
    BY <1>3, GiveUpAbstract DEF Crash
  <1>4. ASSUME NEW e \in Events, ResetStale(e) PROVE AbstractStep
    <2>1. \A d \in Telegram : row'[d] = row[d]
      BY <1>4, TelegramAssumption DEF ResetStale, SkladBot, Inv, RowsOK
    <2>2. Busy' = Busy
      BY <1>4, BusyStays DEF ResetStale, Inv
    <2> QED
      BY <2>1, <2>2, RowsStay, AbstractStutter
  <1>5. CASE WalFlush \/ UNCHANGED vars
    <2>1. UNCHANGED <<row, worker>>
      BY <1>5 DEF WalFlush, vars
    <2>2. Busy' = Busy
      BY <2>1, BusyStays DEF Inv
    <2> QED
      BY <2>1, <2>2, RowsStay, AbstractStutter
  <1> QED
    BY <1>1, <1>2, <1>3, <1>4, <1>5, ExpireAbstract, DeployAbstract, CrashAbstract DEF Next

LEMMA InitRefines == Init => Leases!Init
  <1> SUFFICES ASSUME Init PROVE Leases!Init
    OBVIOUS
  <1>1. /\ \A e \in Telegram : row[e].status = "pending"
        /\ \A w \in Workers : worker[w].owner = Nobody
    BY TelegramAssumption DEF Init, NewRow, IdleWorker
  <1>2. /\ Holder = [e \in Telegram |-> Nobody] /\ Busy = {} /\ Ended = {}
    BY <1>1, EventAssumption DEF Holder, Busy, Ended, Terminal
  <1> QED
    BY <1>2 DEF Leases!Init, Holder, Busy, Ended

\* The rows of notifications keep the promise of a leased queue: one holder at a
\* time, only the holder decides about a row, and a row that ended is not handed out
\* again.
THEOREM NotificationsAreLeased == Spec => LeasesImplemented
  <1>1. Init => Leases!Init
    BY InitRefines
  <1>2. Inv /\ [Next]_vars => [Leases!Next]_<<Holder, Busy, Ended>>
    BY StepRefines DEF AbstractStep
  <1>3. Spec => Leases!Init /\ [][Leases!Next]_<<Holder, Busy, Ended>>
    BY <1>1, <1>2, InvHolds, PTL DEF Spec
  <1> QED
    BY <1>3, PTL DEF LeasesImplemented, Leases!Spec, Holder, Busy, Ended

-----------------------------------------------------------------------------
(* One POST for a row that got no 429.                                     *)

\* A process whose record is v has the row of e, may still post it, is about to or
\* doing so, or is going to schedule it again.
Has(v, e) == e \in Held(v)
Early(v, e) == e \in v.todo \/ (v.event = e /\ v.pc \in {"read", "start"})
Posting(v, e) == v.event = e /\ v.pc \in {"start", "post"}
Calling(v, e) == v.event = e /\ v.pc = "post"
Scheduling(v, e) == v.event = e /\ v.pc = "finish" /\ v.result = "retry_scheduled"

\* A row of no attempt was not posted, and nobody has it.
NoAttempt(e) == row[e].attempts = 0 => sent[e] = 0 /\ \A w \in Workers : ~Has(worker[w], e)

\* A row of one attempt has one process, which has not posted it before it is done
\* with that.
OneAttempt(e) ==
    row[e].attempts = 1 =>
        /\ \A p, q \in Workers : Has(worker[p], e) /\ Has(worker[q], e) => p = q
        /\ \A w \in Workers : Early(worker[w], e) => sent[e] = 0

\* What the disk does not have yet was not posted either.
NoAttemptOnDisk(e) ==
    e \in DOMAIN before /\ before[e].attempts = 0 =>
        sent[e] = 0 /\ \A w \in Workers : ~Calling(worker[w], e)

OnePoster(e) ==
    /\ \A w \in Workers : Posting(worker[w], e) => sent[e] = 0
    /\ \A p, q \in Workers : Posting(worker[p], e) /\ Posting(worker[q], e) => p = q

\* Without a 429 nobody schedules the row again.
Unscheduled(e) ==
    /\ row[e].post # "retry_scheduled"
    /\ e \in DOMAIN before => before[e].post # "retry_scheduled"
    /\ \A w \in Workers : ~Scheduling(worker[w], e)

Once(e) ==
    e \notin limited =>
        sent[e] <= 1 /\ NoAttempt(e) /\ OneAttempt(e) /\ NoAttemptOnDisk(e) /\ OnePoster(e) /\ Unscheduled(e)

OnceInv == \A e \in SkladBot : Once(e)

LEMMA IdleHasNone == \A e \in Events : ~Has(IdleWorker, e) /\ ~Early(IdleWorker, e) /\ ~Posting(IdleWorker, e)
                        /\ ~Calling(IdleWorker, e) /\ ~Scheduling(IdleWorker, e)
  BY EventAssumption DEF Has, Early, Posting, Calling, Scheduling, Held, IdleWorker

LEMMA OnceInit == Init => OnceInv
  <1> SUFFICES ASSUME Init, NEW e \in SkladBot PROVE Once(e)
    BY DEF OnceInv
  <1>1. /\ e \in Events /\ sent[e] = 0 /\ row[e].attempts = 0 /\ row[e].post = "none" /\ e \notin DOMAIN before
        /\ \A w \in Workers : worker[w] = IdleWorker
    BY DEF Init, SkladBot, NewRow, Flushed
  <1> QED
    BY <1>1, IdleHasNone DEF Once, NoAttempt, OneAttempt, NoAttemptOnDisk, OnePoster, Unscheduled

\* What a process may become when the row of e is not claimed, read or posted
Calmer(v, u, e) ==
    /\ Has(u, e) => Has(v, e)
    /\ Early(u, e) => Early(v, e)
    /\ Posting(u, e) => Posting(v, e)
    /\ Scheduling(u, e) => Scheduling(v, e)

LEMMA OnceKept ==
    ASSUME NEW e \in SkladBot, Once(e),
           limited \subseteq limited', sent'[e] = sent[e],
           row'[e].attempts = row[e].attempts,
           e \notin limited => row'[e].post # "retry_scheduled",
           \/ e \notin DOMAIN before'
           \/ /\ e \in DOMAIN before /\ before'[e] = before[e]
              /\ \A w \in Workers : Calling(worker'[w], e) => Calling(worker[w], e),
           \A w \in Workers : Calmer(worker[w], worker'[w], e)
    PROVE  Once(e)'
  <1> SUFFICES ASSUME e \notin limited'
               PROVE  /\ sent'[e] <= 1
                      /\ NoAttempt(e)' /\ OneAttempt(e)' /\ NoAttemptOnDisk(e)' /\ OnePoster(e)' /\ Unscheduled(e)'
    BY DEF Once
  <1>1. /\ e \notin limited /\ sent[e] <= 1
        /\ NoAttempt(e) /\ OneAttempt(e) /\ NoAttemptOnDisk(e) /\ OnePoster(e) /\ Unscheduled(e)
    BY DEF Once
  <1>2. NoAttempt(e)'
    BY <1>1 DEF NoAttempt, Calmer
  <1>3. OneAttempt(e)'
    BY <1>1 DEF OneAttempt, Calmer
  <1>4. NoAttemptOnDisk(e)'
    BY <1>1 DEF NoAttemptOnDisk
  <1>5. OnePoster(e)'
    BY <1>1 DEF OnePoster, Calmer
  <1>6. Unscheduled(e)'
    BY <1>1 DEF Unscheduled, Calmer
  <1> QED
    BY <1>1, <1>2, <1>3, <1>4, <1>5, <1>6

\* A step of one process
LEMMA CalmStep ==
    ASSUME NEW w \in Workers, NEW e \in SkladBot, Calmer(worker[w], worker'[w], e),
           \A q \in Workers \ {w} : worker'[q] = worker[q]
    PROVE  \A q \in Workers : Calmer(worker[q], worker'[q], e)
  BY DEF Calmer

LEMMA OnlyOneMoves ==
    ASSUME WorkersOK, NEW w \in Workers, NEW u, worker' = [worker EXCEPT ![w] = u]
    PROVE  worker'[w] = u /\ \A q \in Workers \ {w} : worker'[q] = worker[q]
  BY DEF WorkersOK

LEMMA IdleIsCalm == \A v, e : e \in Events => Calmer(v, IdleWorker, e)
  BY IdleHasNone DEF Calmer

LEMMA NextRowIsCalm ==
    ASSUME WorkersOK, NEW w \in Workers, NextRow(w), NEW e \in SkladBot
    PROVE  /\ \A q \in Workers : Calmer(worker[q], worker'[q], e)
           /\ \A q \in Workers : Calling(worker'[q], e) => Calling(worker[q], e)
  <1> DEFINE v == worker[w]
             u == IF v.todo = {} THEN IdleWorker ELSE [v EXCEPT !.pc = "batch", !.event = Nobody]
  <1>0. v \in Worker /\ e \in Events /\ e # Nobody
    BY InHand DEF SkladBot
  <1>1. worker' = [worker EXCEPT ![w] = u]
    BY DEF NextRow
  <1>2. Calmer(v, u, e) /\ ~Calling(u, e)
    <2>1. CASE v.todo = {}
      BY <1>0, <2>1, IdleIsCalm, IdleHasNone
    <2>2. CASE v.todo # {}
      <3>1. u.todo = v.todo /\ u.event = Nobody
        BY <1>0, <2>2 DEF Worker
      <3> HIDE DEF u, v
      <3> QED
        BY <1>0, <3>1 DEF Calmer, Has, Held, Early, Posting, Calling, Scheduling
    <2> QED
      BY <2>1, <2>2
  <1> HIDE DEF u
  <1> QED
    BY <1>1, <1>2, CalmStep, OnlyOneMoves

LEMMA GiveUpIsCalm ==
    ASSUME WorkersOK, NEW w \in Workers, GiveUp(w), NEW e \in SkladBot
    PROVE  /\ \A q \in Workers : Calmer(worker[q], worker'[q], e)
           /\ \A q \in Workers : Calling(worker'[q], e) => Calling(worker[q], e)
  <1>1. e \in Events /\ Calmer(worker[w], IdleWorker, e) /\ ~Calling(IdleWorker, e)
    BY IdleIsCalm, IdleHasNone DEF SkladBot
  <1> QED
    BY <1>1, CalmStep, OnlyOneMoves DEF GiveUp

\* A step that goes on with the row in hand
GoesOn(w, p, res) ==
    /\ worker'[w].pc = p /\ worker'[w].result = res
    /\ worker'[w].todo = worker[w].todo /\ worker'[w].event = worker[w].event
    /\ \A q \in Workers \ {w} : worker'[q] = worker[q]

LEMMA Going ==
    ASSUME WorkersOK, NEW w \in Workers
    PROVE  /\ \A p : Goto(w, p) => GoesOn(w, p, worker[w].result)
           /\ \A p, res : worker' = [worker EXCEPT ![w].pc = p, ![w].result = res] => GoesOn(w, p, res)
           /\ \A res : Judged(w, res) => GoesOn(w, "finish", res)
  <1>0. worker[w] \in Worker /\ worker = [q \in Workers |-> worker[q]]
    BY InHand DEF WorkersOK
  <1>1. \A p : Goto(w, p) => GoesOn(w, p, worker[w].result)
    BY <1>0 DEF Goto, GoesOn, Worker
  <1>2. ASSUME NEW p, NEW res, worker' = [worker EXCEPT ![w].pc = p, ![w].result = res]
        PROVE  GoesOn(w, p, res)
    BY <1>0, <1>2 DEF GoesOn, Worker
  <1>3. ASSUME NEW res, Judged(w, res) PROVE GoesOn(w, "finish", res)
    <2>1. PICK l : l = row[Event(w)].owner
      OBVIOUS
    <2>2. worker' = [worker EXCEPT ![w].pc = "finish", ![w].result = res, ![w].lease = l]
      BY <1>3, <2>1 DEF Judged
    <2> QED
      BY <1>0, <2>2 DEF GoesOn, Worker
  <1> QED
    BY <1>1, <1>2, <1>3

\* It is calm unless the row of e is the one, and a POST begins or a 429 came.
LEMMA GoesOnIsCalm ==
    ASSUME NEW w \in Workers, NEW e \in SkladBot, NEW p, NEW res, GoesOn(w, p, res),
           \/ worker[w].event # e
           \/ p \in {"record", "detail"}
           \/ p = "finish" /\ res # "retry_scheduled"
           \/ p = "post" /\ worker[w].pc = "start"
    PROVE  /\ \A q \in Workers : Calmer(worker[q], worker'[q], e)
           /\ \/ p = "post"
              \/ \A q \in Workers : Calling(worker'[q], e) => Calling(worker[q], e)
  <1>1. Calmer(worker[w], worker'[w], e)
    BY DEF GoesOn, Calmer, Has, Held, Early, Posting, Scheduling
  <1>2. p = "post" \/ (Calling(worker'[w], e) => Calling(worker[w], e))
    BY DEF GoesOn, Calling
  <1> QED
    BY <1>1, <1>2, CalmStep DEF GoesOn

\* The POST is answered, or fails without an answer.
LEMMA PostCounts ==
    ASSUME WorkersOK, SentOK, NEW w \in Workers, NEW res \in {"completed", "ambiguous"},
           NEW e \in SkladBot, Once(e), At(w, "post"), Event(w) = e,
           GoesOn(w, "record", res),
           sent'[e] \in {sent[e], UpToTwo(sent[e])}, UNCHANGED <<row, before, limited>>
    PROVE  Once(e)'
  <1> SUFFICES ASSUME e \notin limited
               PROVE  /\ sent'[e] <= 1
                      /\ NoAttempt(e)' /\ OneAttempt(e)' /\ NoAttemptOnDisk(e)' /\ OnePoster(e)' /\ Unscheduled(e)'
    BY DEF Once
  <1>1. NoAttempt(e) /\ OneAttempt(e) /\ NoAttemptOnDisk(e) /\ OnePoster(e) /\ Unscheduled(e)
    BY DEF Once
  <1>2. /\ Has(worker[w], e) /\ Posting(worker[w], e) /\ Calling(worker[w], e)
        /\ worker[w] \in Worker /\ Sound(worker[w])
    BY InHand DEF Has, Held, Posting, Calling, At, Event, SkladBot
  <1>3. ~Early(worker'[w], e) /\ ~Posting(worker'[w], e) /\ ~Scheduling(worker'[w], e) /\ ~Calling(worker'[w], e)
    BY <1>2 DEF GoesOn, Early, Posting, Scheduling, Calling, Sound, Event
  <1>4. sent[e] = 0 /\ row[e].attempts # 0 /\ sent'[e] <= 1
    BY <1>1, <1>2 DEF OnePoster, NoAttempt, UpToTwo
  <1>5. \A q \in Workers : Has(worker'[q], e) => Has(worker[q], e)
    BY DEF GoesOn, Has, Held
  <1>6. \A q \in Workers : ~Posting(worker'[q], e)
    BY <1>1, <1>2, <1>3 DEF OnePoster, GoesOn
  <1>7. row[e].attempts = 1 => \A q \in Workers : ~Early(worker'[q], e)
    <2>1. \A q \in Workers : Early(worker[q], e) => Has(worker[q], e)
      BY InHand DEF Early, Has, Held, SkladBot
    <2> QED
      BY <1>1, <1>2, <1>3, <2>1 DEF OneAttempt, GoesOn
  <1>8. e \in DOMAIN before => before[e].attempts # 0
    BY <1>1, <1>2 DEF NoAttemptOnDisk
  <1>9. Unscheduled(e)'
    BY <1>1, <1>3 DEF Unscheduled, GoesOn
  <1> QED
    BY <1>1, <1>4, <1>5, <1>6, <1>7, <1>8, <1>9 DEF NoAttempt, OneAttempt, NoAttemptOnDisk, OnePoster

\* A row that may be posted is of one attempt, and that makes its reader the only one.
LEMMA PostBegins ==
    ASSUME WorkersOK, RowsOK, NEW w \in Workers, NEW e \in SkladBot, Once(e),
           At(w, "read"), Event(w) = e, MayPost(e),
           GoesOn(w, "start", worker[w].result), UNCHANGED <<row, before, sent, limited>>
    PROVE  Once(e)'
  <1> SUFFICES ASSUME e \notin limited
               PROVE  /\ sent'[e] <= 1
                      /\ NoAttempt(e)' /\ OneAttempt(e)' /\ NoAttemptOnDisk(e)' /\ OnePoster(e)' /\ Unscheduled(e)'
    BY DEF Once
  <1>1. /\ NoAttempt(e) /\ OneAttempt(e) /\ NoAttemptOnDisk(e) /\ OnePoster(e) /\ Unscheduled(e)
        /\ sent[e] <= 1
    BY DEF Once
  <1>2. Has(worker[w], e) /\ Early(worker[w], e) /\ worker[w] \in Worker
    BY InHand DEF Has, Held, Early, At, Event, SkladBot
  <1>3. row[e].attempts = 1
    <2>1. row[e].attempts \in 0..2 /\ row[e].attempts # 0
      BY <1>1, <1>2 DEF RowsOK, Rows, NoAttempt, SkladBot
    <2> QED
      BY <1>1, <2>1 DEF MayPost, Unscheduled
  <1>4. sent[e] = 0 /\ \A q \in Workers \ {w} : ~Has(worker[q], e)
    BY <1>1, <1>2, <1>3 DEF OneAttempt
  <1>5. \A q \in Workers : /\ Has(worker'[q], e) => Has(worker[q], e)
                           /\ Scheduling(worker'[q], e) => Scheduling(worker[q], e)
                           /\ Calling(worker'[q], e) => Calling(worker[q], e)
    BY DEF GoesOn, Has, Held, Scheduling, Calling
  <1>6. \A q \in Workers : Posting(worker'[q], e) => q = w
    <2>1. \A q \in Workers : Posting(worker[q], e) => Has(worker[q], e)
      BY InHand DEF Posting, Has, Held, SkladBot
    <2> QED
      BY <1>4, <2>1 DEF GoesOn
  <1> QED
    BY <1>1, <1>3, <1>4, <1>5, <1>6 DEF NoAttempt, OneAttempt, NoAttemptOnDisk, OnePoster, Unscheduled

LEMMA OnceStep ==
    ASSUME Inv, OnceInv, NEW w \in Workers, NEW e \in SkladBot,
           \/ SendNotification(w) \/ ReadCreate(w) \/ StartPost(w) \/ PostAnswered(w) \/ PostFails(w)
           \/ RecordPost(w) \/ ReadDetail(w)
    PROVE  Once(e)'
  <1>0. /\ WorkersOK /\ RowsOK /\ SentOK /\ worker[w] \in Worker /\ Sound(worker[w])
        /\ Once(e) /\ e \in Events /\ e \notin Telegram
    BY InHand DEF Inv, OnceInv, SkladBot
  <1>f. PICK f : f = Event(w)
    OBVIOUS
  <1>u. e \notin limited => row[e].post # "retry_scheduled"
    BY <1>0 DEF Once, Unscheduled
  <1>1. CASE SendNotification(w)
    <2>1. f # e /\ UNCHANGED <<row, before, limited>> /\ sent'[e] = sent[e]
      BY <1>0, <1>1, <1>f DEF SendNotification, At, Sound, Event, SentOK
    <2>2. PICK res : GoesOn(w, "finish", res)
      BY <1>0, <1>1, Going DEF SendNotification
    <2> QED
      BY <1>0, <1>f, <1>u, <2>1, <2>2, GoesOnIsCalm, OnceKept DEF Event
  <1>2. CASE ReadCreate(w)
    <2>1. UNCHANGED <<row, before, sent, limited>> /\ At(w, "read")
      BY <1>2 DEF ReadCreate
    <2>2. CASE MayPost(f)
      <3>1. GoesOn(w, "start", worker[w].result)
        BY <1>0, <1>2, <1>f, <2>2, Going DEF ReadCreate
      <3>2. CASE f = e
        BY <1>0, <1>f, <2>1, <2>2, <3>1, <3>2, PostBegins
      <3>3. CASE f # e
        BY <1>0, <1>f, <1>u, <2>1, <3>1, <3>3, GoesOnIsCalm, OnceKept DEF Event
      <3> QED
        BY <3>2, <3>3
    <2>3. CASE ~MayPost(f)
      <3>1. PICK res : GoesOn(w, "finish", res) /\ res # "retry_scheduled"
        BY <1>0, <1>2, <1>f, <2>3, Going DEF ReadCreate
      <3> QED
        BY <1>0, <1>u, <2>1, <3>1, GoesOnIsCalm, OnceKept
    <2> QED
      BY <2>2, <2>3
  <1>3. CASE StartPost(w)
    <2>1. GoesOn(w, "post", worker[w].result) /\ worker[w].pc = "start"
      BY <1>0, <1>3, Going DEF StartPost, At
    <2>2. /\ UNCHANGED <<sent, limited>> /\ e \notin DOMAIN before'
          /\ row'[e].attempts = row[e].attempts /\ row'[e].post \in {row[e].post, "started"}
      BY <1>0, <1>3 DEF StartPost, Flushed, RowsOK, Rows
    <2> QED
      BY <1>0, <1>u, <2>1, <2>2, GoesOnIsCalm, OnceKept
  <1>4. CASE PostAnswered(w)
    <2>1. GoesOn(w, "record", "completed") /\ At(w, "post") /\ UNCHANGED <<row, before, limited>>
      BY <1>0, <1>4, Going DEF PostAnswered
    <2>2. CASE f = e
      BY <1>0, <1>4, <1>f, <2>1, <2>2, PostCounts DEF PostAnswered, SentOK
    <2>3. CASE f # e
      <3>1. sent'[e] = sent[e]
        BY <1>0, <1>4, <1>f, <2>3 DEF PostAnswered, SentOK
      <3> QED
        BY <1>0, <1>u, <2>1, <3>1, GoesOnIsCalm, OnceKept
    <2> QED
      BY <2>2, <2>3
  <1>5. CASE PostFails(w)
    <2>1. At(w, "post") /\ UNCHANGED <<row, before>>
      BY <1>5 DEF PostFails
    <2>2. CASE /\ sent' \in {sent, [sent EXCEPT ![f] = UpToTwo(@)]}
               /\ worker' = [worker EXCEPT ![w].pc = "record", ![w].result = "ambiguous"]
               /\ UNCHANGED limited
      <3>1. GoesOn(w, "record", "ambiguous")
        BY <1>0, <2>2, Going
      <3>2. CASE f = e
        BY <1>0, <1>f, <2>1, <2>2, <3>1, <3>2, PostCounts DEF SentOK
      <3>3. CASE f # e
        <4>1. sent'[e] = sent[e] /\ UNCHANGED limited
          BY <1>0, <2>2, <3>3 DEF SentOK
        <4> QED
          BY <1>0, <1>u, <2>1, <3>1, <4>1, GoesOnIsCalm, OnceKept
      <3> QED
        BY <3>2, <3>3
    <2>3. CASE Judged(w, "retry_scheduled") /\ limited' = limited \cup {f} /\ UNCHANGED sent
      <3>1. CASE f = e
        BY <2>3, <3>1 DEF Once
      <3>2. CASE f # e
        <4>1. GoesOn(w, "finish", "retry_scheduled")
          BY <1>0, <2>3, Going
        <4> QED
          BY <1>0, <1>f, <1>u, <2>1, <2>3, <3>2, <4>1, GoesOnIsCalm, OnceKept DEF Event
      <3> QED
        BY <3>1, <3>2
    <2>4. CASE Judged(w, "failed_confirmed") /\ UNCHANGED <<sent, limited>>
      <3>1. GoesOn(w, "finish", "failed_confirmed")
        BY <1>0, <2>4, Going
      <3> QED
        BY <1>0, <1>u, <2>1, <2>4, <3>1, GoesOnIsCalm, OnceKept
    <2> QED
      BY <1>5, <1>f, <2>2, <2>3, <2>4 DEF PostFails
  <1>6. CASE RecordPost(w)
    <2>1. GoesOn(w, "detail", worker[w].result)
      BY <1>0, <1>6, Going DEF RecordPost
    <2>2. /\ UNCHANGED <<sent, limited>> /\ e \notin DOMAIN before'
          /\ row'[e].attempts = row[e].attempts
          /\ row'[e].post \in {row[e].post, "response_received", "ambiguous"}
      BY <1>0, <1>6 DEF RecordPost, Flushed, RowsOK, Rows
    <2> QED
      BY <1>0, <1>u, <2>1, <2>2, GoesOnIsCalm, OnceKept
  <1>7. CASE ReadDetail(w)
    <2>1. PICK res : GoesOn(w, "finish", res) /\ res \in {"completed", "ambiguous"}
      BY <1>0, <1>7, Going DEF ReadDetail, At, Sound
    <2>2. UNCHANGED <<row, before, sent, limited>>
      BY <1>7 DEF ReadDetail
    <2> QED
      BY <1>0, <1>u, <2>1, <2>2, GoesOnIsCalm, OnceKept
  <1> QED
    BY <1>1, <1>2, <1>3, <1>4, <1>5, <1>6, <1>7

\* A claim counts the attempt, and keeps what the disk has of the row.
LEMMA OnceClaim ==
    ASSUME Inv, OnceInv, NEW w \in Workers, NEW rows, Claim(w, rows), NEW e \in SkladBot
    PROVE  Once(e)'
  <1>0. WorkersOK /\ RowsOK /\ Once(e) /\ e \in Events /\ worker[w] = IdleWorker
    BY InHand DEF Inv, OnceInv, SkladBot, Claim, At, Sound
  <1>1. PICK u : u = [IdleWorker EXCEPT !.pc = "batch", !.owner = NewOwner, !.todo = rows]
    OBVIOUS
  <1>2. u.pc = "batch" /\ u.event = Nobody /\ u.todo = rows
    BY <1>1 DEF IdleWorker
  <1>3. worker'[w] = u /\ \A q \in Workers \ {w} : worker'[q] = worker[q]
    BY <1>0, <1>1, OnlyOneMoves DEF Claim
  <1>4. /\ UNCHANGED <<sent, limited>>
        /\ e \in DOMAIN before' => before'[e] = IF e \in DOMAIN before THEN before[e] ELSE row[e]
        /\ e \in DOMAIN before' /\ e \notin DOMAIN before => e \in rows
    BY <1>0 DEF Claim
  <1>5. ~Early(IdleWorker, e) /\ ~Has(IdleWorker, e) /\ e # Nobody
    BY <1>0, IdleHasNone, EventAssumption
  <1>6. ~Posting(u, e) /\ ~Calling(u, e) /\ ~Scheduling(u, e)
    BY <1>2 DEF Posting, Calling, Scheduling
  <1>7. \A q \in Workers : /\ Posting(worker'[q], e) => Posting(worker[q], e)
                           /\ Calling(worker'[q], e) => Calling(worker[q], e)
                           /\ Scheduling(worker'[q], e) => Scheduling(worker[q], e)
    BY <1>3, <1>6
  <1>8. CASE e \notin rows
    <2>1. Calmer(worker[w], worker'[w], e)
      BY <1>2, <1>3, <1>5, <1>6, <1>8 DEF Calmer, Has, Held, Early
    <2>2. row'[e] = row[e]
      BY <1>0, <1>8 DEF Claim
    <2>3. e \notin limited => row'[e].post # "retry_scheduled"
      BY <1>0, <2>2 DEF Once, Unscheduled
    <2>4. \A q \in Workers : Calmer(worker[q], worker'[q], e)
      BY <1>3, <2>1, CalmStep
    <2> QED
      BY <1>0, <1>4, <1>7, <1>8, <2>2, <2>3, <2>4, OnceKept
  <1>9. CASE e \in rows
    <2> SUFFICES ASSUME e \notin limited
                 PROVE  /\ sent'[e] <= 1
                        /\ NoAttempt(e)' /\ OneAttempt(e)' /\ NoAttemptOnDisk(e)' /\ OnePoster(e)' /\ Unscheduled(e)'
      BY <1>4 DEF Once
    <2>1. /\ NoAttempt(e) /\ OneAttempt(e) /\ NoAttemptOnDisk(e) /\ OnePoster(e) /\ Unscheduled(e)
          /\ sent[e] <= 1
      BY <1>0 DEF Once
    <2>2. row'[e].attempts = UpToTwo(row[e].attempts) /\ row'[e].post = row[e].post
      <3>1. row'[e] = Claimed(e, NewOwner) /\ row[e] \in Rows
        BY <1>0, <1>9 DEF Claim, RowsOK
      <3> QED
        BY <3>1 DEF Claimed, Rows
    <2>3. /\ row'[e].attempts # 0
          /\ row'[e].attempts = 1 => row[e].attempts = 0
      <3>1. row[e].attempts \in 0..2
        BY <1>0 DEF RowsOK, Rows
      <3> QED
        BY <2>2, <3>1 DEF UpToTwo
    <2>4. row[e].attempts = 0 => \A q \in Workers : ~Has(worker[q], e) /\ ~Calling(worker[q], e)
      <3>1. \A q \in Workers : Calling(worker[q], e) => Has(worker[q], e)
        BY <1>5 DEF Calling, Has, Held
      <3> QED
        BY <2>1, <3>1 DEF NoAttempt
    <2>5. OneAttempt(e)'
      BY <1>3, <1>4, <2>1, <2>3, <2>4 DEF OneAttempt, NoAttempt
    <2>6. NoAttemptOnDisk(e)'
      BY <1>4, <1>7, <2>1, <2>4 DEF NoAttemptOnDisk, NoAttempt
    <2>7. OnePoster(e)'
      BY <1>4, <1>7, <2>1 DEF OnePoster
    <2>8. Unscheduled(e)'
      BY <1>4, <1>7, <2>1, <2>2 DEF Unscheduled
    <2> QED
      BY <1>4, <2>1, <2>3, <2>5, <2>6, <2>7, <2>8 DEF NoAttempt
  <1> QED
    BY <1>8, <1>9

\* A crash of the database takes the row from everyone, and puts the disk's in its place.
LEMMA OnceDatabaseCrash ==
    ASSUME Inv, OnceInv, DatabaseCrash, NEW e \in SkladBot
    PROVE  Once(e)'
  <1> SUFFICES ASSUME e \notin limited
               PROVE  /\ sent'[e] <= 1
                      /\ NoAttempt(e)' /\ OneAttempt(e)' /\ NoAttemptOnDisk(e)' /\ OnePoster(e)' /\ Unscheduled(e)'
    BY DEF Once, DatabaseCrash
  <1>1. /\ sent[e] <= 1 /\ NoAttempt(e) /\ NoAttemptOnDisk(e) /\ Unscheduled(e)
        /\ e \in Events /\ e # Nobody
    BY EventAssumption DEF OnceInv, Once, SkladBot
  <1>2. /\ row'[e] = IF e \in DOMAIN before THEN before[e] ELSE row[e]
        /\ UNCHANGED sent /\ e \notin DOMAIN before'
    BY <1>1 DEF DatabaseCrash, Flushed
  <1>3. \A q \in Workers : ~Has(worker'[q], e)
    <2>1. ASSUME NEW q \in Workers, Has(worker[q], e) PROVE worker'[q] = IdleWorker
      BY <2>1 DEF DatabaseCrash, Has, Held, Event
    <2>2. ASSUME NEW q \in Workers PROVE worker'[q] = IdleWorker \/ worker'[q] = worker[q]
      BY DEF DatabaseCrash
    <2> QED
      BY <1>1, <2>1, <2>2, IdleHasNone
  <1>4. \A q \in Workers : ~Early(worker'[q], e) /\ ~Posting(worker'[q], e) /\ ~Scheduling(worker'[q], e)
    BY <1>1, <1>3 DEF Early, Posting, Scheduling, Has, Held
  <1>5. NoAttempt(e)'
    BY <1>1, <1>2, <1>3 DEF NoAttempt, NoAttemptOnDisk
  <1>6. Unscheduled(e)'
    BY <1>1, <1>2, <1>4 DEF Unscheduled
  <1> QED
    BY <1>1, <1>2, <1>3, <1>4, <1>5, <1>6 DEF OneAttempt, NoAttemptOnDisk, OnePoster

\* The other steps leave the attempts alone.
LEMMA OnceRest ==
    ASSUME Inv, OnceInv, NEW e \in SkladBot,
           \/ \E w \in Workers : \/ \E d \in Events : Pick(w, d)
                                 \/ FinishNotification(w) \/ NotificationRefused(w)
                                 \/ FinishCreate(w) \/ CreateRefused(w) \/ Crash(w)
           \/ \E o \in Owners : Expire(o)
           \/ \E d \in Events : ResetStale(d)
           \/ Deploy \/ WalFlush \/ UNCHANGED vars
    PROVE  Once(e)'
  <1>0. /\ WorkersOK /\ RowsOK /\ Once(e) /\ e \in Events /\ e \notin Telegram /\ row[e] \in Rows
        /\ e \notin limited => row[e].post # "retry_scheduled"
    BY DEF Inv, OnceInv, Once, Unscheduled, RowsOK, SkladBot
  <1>1. UNCHANGED <<sent, limited>>
    BY DEF Pick, FinishNotification, NotificationRefused, FinishCreate, CreateRefused, Crash, Expire,
           ResetStale, Deploy, WalFlush, vars
  <1>2. e \notin DOMAIN before' \/ (e \in DOMAIN before /\ before'[e] = before[e])
    BY DEF Pick, FinishNotification, NotificationRefused, FinishCreate, CreateRefused, Crash, Expire,
           ResetStale, Deploy, WalFlush, vars, Flushed
  <1>3. /\ \A q \in Workers : Calmer(worker[q], worker'[q], e)
        /\ \A q \in Workers : Calling(worker'[q], e) => Calling(worker[q], e)
    <2>1. ASSUME NEW w \in Workers, NEW d \in Events, Pick(w, d)
               PROVE  /\ \A q \in Workers : Calmer(worker[q], worker'[q], e)
                      /\ \A q \in Workers : Calling(worker'[q], e) => Calling(worker[q], e)
      <3>1. PICK v : v = worker[w]
        OBVIOUS
      <3>2. PICK u : u = [v EXCEPT !.pc = IF d \in Telegram THEN "send" ELSE "read",
                                   !.event = d, !.todo = v.todo \ {d}]
        OBVIOUS
      <3>3. v \in Worker /\ d \in v.todo /\ worker' = [worker EXCEPT ![w] = u]
        BY <1>0, <2>1, <3>1, <3>2, InHand DEF Pick, WorkersOK
      <3>4. u.pc \in {"send", "read"} /\ u.event = d /\ u.todo = v.todo \ {d}
        BY <3>2, <3>3 DEF Worker
      <3>5. Calmer(v, u, e) /\ ~Calling(u, e)
        BY <3>3, <3>4 DEF Calmer, Calling, Has, Held, Early, Posting, Scheduling
      <3> QED
        BY <1>0, <3>1, <3>3, <3>5, CalmStep, OnlyOneMoves
    <2>2. ASSUME NEW w \in Workers, FinishNotification(w) \/ FinishCreate(w)
               PROVE  /\ \A q \in Workers : Calmer(worker[q], worker'[q], e)
                      /\ \A q \in Workers : Calling(worker'[q], e) => Calling(worker[q], e)
      BY <1>0, <2>2, NextRowIsCalm DEF FinishNotification, FinishCreate
    <2>3. ASSUME NEW w \in Workers, NotificationRefused(w) \/ CreateRefused(w) \/ Crash(w)
               PROVE  /\ \A q \in Workers : Calmer(worker[q], worker'[q], e)
                      /\ \A q \in Workers : Calling(worker'[q], e) => Calling(worker[q], e)
      BY <1>0, <2>3, GiveUpIsCalm DEF NotificationRefused, CreateRefused, Crash
    <2>4. CASE Deploy
      <3>1. \A q \in Workers : worker'[q] = IdleWorker
        BY <2>4 DEF Deploy
      <3> QED
        BY <1>0, <3>1, IdleIsCalm, IdleHasNone
    <2>5. CASE UNCHANGED worker
      BY <2>5 DEF Calmer
    <2> QED
      BY <2>1, <2>2, <2>3, <2>4, <2>5 DEF Expire, ResetStale, WalFlush, vars
  <1>4. /\ row'[e].attempts = row[e].attempts
        /\ e \notin limited => row'[e].post # "retry_scheduled"
    <2>1. ASSUME NEW w \in Workers, FinishNotification(w) PROVE row'[e] = row[e]
      BY <1>0, <2>1 DEF FinishNotification, RowsOK
    <2>2. ASSUME NEW w \in Workers, FinishCreate(w)
               PROVE  /\ row'[e].attempts = row[e].attempts
                      /\ e \notin limited => row'[e].post # "retry_scheduled"
      <3>1. row' = [row EXCEPT ![Event(w)] = [Finalized(Event(w), StatusOf(worker[w].result))
                                                 EXCEPT !.post = worker[w].result]]
        BY <2>2 DEF FinishCreate
      <3>2. CASE Event(w) = e
        <4>1. e \notin limited => worker[w].result # "retry_scheduled"
          BY <1>0, <2>2, <3>2 DEF Once, Unscheduled, Scheduling, FinishCreate, At, Event
        <4>2. PICK st : st = StatusOf(worker[w].result)
          OBVIOUS
        <4>3. row'[e] = [[row[e] EXCEPT !.status = st, !.owner = Nobody, !.expired = FALSE]
                            EXCEPT !.post = worker[w].result]
          BY <1>0, <3>1, <3>2, <4>2 DEF RowsOK, Finalized
        <4> QED
          BY <1>0, <4>1, <4>3 DEF Rows
      <3>3. CASE Event(w) # e
        BY <1>0, <3>1, <3>3 DEF RowsOK
      <3> QED
        BY <3>2, <3>3
    <2>3. ASSUME NEW o \in Owners, Expire(o)
               PROVE  /\ row'[e].attempts = row[e].attempts
                      /\ e \notin limited => row'[e].post # "retry_scheduled"
      BY <1>0, <2>3 DEF Expire, Rows
    <2>4. ASSUME NEW d \in Events, ResetStale(d)
               PROVE  /\ row'[e].attempts = row[e].attempts
                      /\ e \notin limited => row'[e].post # "retry_scheduled"
      BY <1>0, <2>4 DEF ResetStale, Requeued, RowsOK, Rows
    <2>5. CASE Deploy
      BY <1>0, <2>5 DEF Deploy, Requeued, Rows
    <2>6. CASE UNCHANGED row
      BY <1>0, <2>6
    <2> QED
      BY <1>0, <2>1, <2>2, <2>3, <2>4, <2>5, <2>6
         DEF Pick, NotificationRefused, CreateRefused, Crash, WalFlush, vars
  <1> QED
    BY <1>0, <1>1, <1>2, <1>3, <1>4, OnceKept

LEMMA OnceNext == Inv /\ OnceInv /\ [Next]_vars => OnceInv'
  <1> SUFFICES ASSUME Inv, OnceInv, [Next]_vars, NEW e \in SkladBot PROVE Once(e)'
    BY DEF OnceInv
  <1>1. CASE \E w \in Workers : ClaimNotification(w) \/ ClaimCreates(w)
    BY <1>1, OnceClaim DEF ClaimNotification, ClaimCreates
  <1>2. CASE \E w \in Workers : WorkerStep(w) \/ Crash(w)
    BY <1>2, OnceStep, OnceRest DEF WorkerStep
  <1> QED
    BY <1>1, <1>2, OnceRest, OnceDatabaseCrash DEF Next

\* A POST is not repeated by a second owner of the row, for every number of rows,
\* processes, owners and faults, as long as SkladBot does not answer 429.
THEOREM PostOnce == Spec => []PostedOnce
  <1>1. OnceInv => PostedOnce
    BY DEF OnceInv, Once, PostedOnce
  <1> QED
    BY <1>1, InvHolds, OnceInit, OnceNext, PTL DEF Spec
==============================================================================
