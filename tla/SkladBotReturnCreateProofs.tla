---------------------- MODULE SkladBotReturnCreateProofs ----------------------
(***************************************************************************)
(* For every set of returned orders, of workers and of requests, and all   *)
(* limits of retries: the types, the safety of the creation of return      *)
(* requests, and that the POST for an order is one call of CallOnce.  The  *)
(* safety needs three things that the code does not enforce: that nobody   *)
(* commits between the read and the write of an administrator              *)
(* (ReturnAdminRetry.cfg), that the bodies of two orders differ            *)
(* (ReturnSharedLink.cfg), and that SkladBot shows every request of its    *)
(* list under its own id (ReturnBadAnswers.cfg).                           *)
(***************************************************************************)
EXTENDS SkladBotReturnCreate, TLAPS

Pcs == {"idle", "claimed", "posting", "sent", "refused", "detail", "reading", "listed"}

WorkerType ==
    [pc : Pcs, order : Orders \cup {None}, got : Requests \cup {None}, seen : SUBSET Requests,
     complete : BOOLEAN, reposts : 0..RepostLimit, readbacks : 0..RetryLimit]

RowTyping ==
    /\ status \in [Orders -> Statuses]
    /\ attempts \in [Orders -> 0..2]
    /\ due \in [Orders -> BOOLEAN]
    /\ payload \in [Orders -> PayloadType]

LinkTyping ==
    /\ link \in [Orders -> Requests \cup {None}]
    /\ created \in [Requests -> Orders \cup {None}]
    /\ flying \subseteq Orders

WorkerTyping ==
    /\ worker \in [Workers -> WorkerType]
    /\ \A w \in Workers : worker[w].pc = "detail" => worker[w].got \in Requests

AdminTyping ==
    /\ admin \in [order : Orders \cup {None}, payload : PayloadType]
    /\ admin.payload.details < RetryLimit

\* A row that is being processed has one worker at most.
Holding ==
    /\ \A w \in Workers :
          worker[w].pc # "idle" => worker[w].order \in Orders /\ status[worker[w].order] = "processing"
    /\ \A w, q \in Workers :
          worker[w].pc # "idle" /\ worker[q].pc # "idle" /\ worker[w].order = worker[q].order => w = q

\* A row whose look-ups are spent is blocked.
Unspent == \A o \in Orders : payload[o].details < RetryLimit \/ status[o] = "blocked"

Base == RowTyping /\ LinkTyping /\ WorkerTyping /\ AdminTyping /\ Holding /\ Unspent

LEMMA BaseGivesTypeOK == Base => TypeOK
  BY DEF Base, RowTyping, LinkTyping, WorkerTyping, AdminTyping, TypeOK, WorkerType, Pcs

LEMMA Values ==
    /\ IdleWorker \in WorkerType /\ IdleWorker.pc = "idle"
    /\ NewPayload \in PayloadType /\ NewPayload.details < RetryLimit
    /\ RetryLimit \in Nat /\ RepostLimit \in Nat
  BY LimitAssumption DEF IdleWorker, WorkerType, Pcs, NewPayload, PayloadType, PostStates

LEMMA BaseInit == Init => Base
  <1> SUFFICES ASSUME Init PROVE Base
    OBVIOUS
  <1>1. RowTyping /\ LinkTyping
    BY Values DEF Init, RowTyping, LinkTyping, Statuses
  <1>2. WorkerTyping /\ Holding
    BY Values DEF Init, WorkerTyping, Holding
  <1>3. AdminTyping /\ Unspent
    BY Values DEF Init, AdminTyping, Unspent, IdleAdmin
  <1> QED
    BY <1>1, <1>2, <1>3 DEF Base

\* The worker of a row, and what it read.
LEMMA WorkerReads ==
    ASSUME Base, NEW w \in Workers, worker[w].pc # "idle"
    PROVE  /\ worker[w].order \in Orders /\ status[worker[w].order] = "processing"
           /\ worker[w] \in WorkerType
           /\ payload[worker[w].order] \in PayloadType /\ payload[worker[w].order].details < RetryLimit
           /\ link[worker[w].order] \in Requests \cup {None}
  <1>1. worker[w].order \in Orders /\ status[worker[w].order] = "processing"
    BY DEF Base, Holding
  <1> QED
    BY <1>1 DEF Base, RowTyping, LinkTyping, WorkerTyping, Unspent

\* The worker ends with a row that it leaves open, closes or blocks.
LEMMA FinishEffect ==
    ASSUME Base, NEW w \in Workers, worker[w].pc # "idle",
           NEW state \in {"pending", "completed", "blocked"}, NEW p \in PayloadType,
           p.details < RetryLimit \/ state = "blocked", Finish(w, state, p)
    PROVE  /\ status' \in [Orders -> Statuses] /\ payload' \in [Orders -> PayloadType]
           /\ WorkerTyping' /\ Holding' /\ Unspent'
  <1> DEFINE o == worker[w].order
  <1>0. o \in Orders
    BY WorkerReads
  <1>1. /\ status' = [status EXCEPT ![o] = state]
        /\ payload' = [payload EXCEPT ![o] = p]
        /\ worker' = [worker EXCEPT ![w] = IdleWorker]
    BY DEF Finish
  <1>2. status' \in [Orders -> Statuses] /\ payload' \in [Orders -> PayloadType]
    BY <1>0, <1>1 DEF Base, RowTyping, Statuses
  <1>3. WorkerTyping'
    BY <1>1, Values DEF Base, WorkerTyping
  <1>4. \A q \in Workers : worker'[q].pc # "idle" => q # w /\ worker'[q] = worker[q]
    BY <1>1, Values DEF Base, WorkerTyping
  <1>5. \A q \in Workers : q # w /\ worker[q].pc # "idle" => worker[q].order \in Orders /\ worker[q].order # o
    BY DEF Base, Holding
  <1>6. Holding'
    BY <1>1, <1>4, <1>5 DEF Base, Holding, RowTyping
  <1>7. Unspent'
    BY <1>0, <1>1 DEF Base, Unspent, RowTyping
  <1> QED
    BY <1>2, <1>3, <1>6, <1>7

\* The worker goes on with the row it has.
LEMMA GoOnEffect ==
    ASSUME Base, NEW w \in Workers, NEW u \in WorkerType, u.order = worker[w].order,
           u.pc = "detail" => u.got \in Requests,
           worker[w].pc # "idle", worker' = [worker EXCEPT ![w] = u], UNCHANGED status,
           UNCHANGED payload \/ \E p \in PayloadType : /\ p.details = payload[worker[w].order].details
                                                      /\ payload' = [payload EXCEPT ![worker[w].order] = p]
    PROVE  payload' \in [Orders -> PayloadType] /\ WorkerTyping' /\ Holding' /\ Unspent'
  <1> DEFINE o == worker[w].order
  <1>0. o \in Orders /\ status[o] = "processing"
    BY WorkerReads
  <1>1. WorkerTyping'
    BY DEF Base, WorkerTyping
  <1>2. \A q \in Workers : worker'[q].order = worker[q].order /\ (q # w => worker'[q] = worker[q])
    BY DEF Base, WorkerTyping
  <1>3. Holding'
    BY <1>0, <1>2 DEF Base, Holding
  <1>4. payload' \in [Orders -> PayloadType] /\ \A d \in Orders : payload'[d].details = payload[d].details
    BY <1>0 DEF Base, RowTyping
  <1>5. Unspent'
    BY <1>4 DEF Base, Unspent
  <1> QED
    BY <1>1, <1>3, <1>4, <1>5

\* The row says that no POST went out, or that the last one had no effect.
Untried == {"none", "retry_scheduled"}

\* What a worker may leave behind when it ends with a row: the response of a POST is
\* kept, and only a 429 or a proof of absence takes a POST back.
Leaves(w, state, p) ==
    /\ state \in {"pending", "completed", "blocked"} /\ p \in PayloadType
    /\ p.details < RetryLimit \/ state = "blocked"
    /\ p.response = payload[worker[w].order].response
    /\ p.post \in Untried =>
          \/ p.post = payload[worker[w].order].post
          \/ At(w, "refused")
          \/ At(w, "listed") /\ ProvedAbsent(w)

\* The link a worker leaves
Links(w, state) ==
    \/ UNCHANGED link /\ (state = "completed" => link[worker[w].order] # None)
    \/ \E r \in Requests : /\ link' = [link EXCEPT ![worker[w].order] = r]
                           /\ \/ At(w, "detail") /\ r = worker[w].got
                              \/ At(w, "listed") /\ r \in worker[w].seen

EndsRow(w) ==
    /\ worker[w].pc # "idle"
    /\ \E state, p : Leaves(w, state, p) /\ Finish(w, state, p) /\ Links(w, state)
    /\ due' \in [Orders -> BOOLEAN]
    /\ UNCHANGED <<attempts, remoteVars, admin>>

LEMMA PostChange ==
    ASSUME NEW p \in PayloadType, NEW post \in PostStates
    PROVE  /\ [p EXCEPT !.post = post] \in PayloadType
           /\ [p EXCEPT !.post = post].post = post
           /\ [p EXCEPT !.post = post].response = p.response
           /\ [p EXCEPT !.post = post].details = p.details
  BY DEF PayloadType

LEMMA DetailsChange ==
    ASSUME NEW p \in PayloadType, NEW post \in PostStates, NEW n \in 0..RetryLimit
    PROVE  /\ [p EXCEPT !.post = post, !.details = n] \in PayloadType
           /\ [p EXCEPT !.post = post, !.details = n].response = p.response
  BY DEF PayloadType

LEMMA ReadbacksChange ==
    ASSUME NEW p \in PayloadType, NEW post \in PostStates, NEW n \in 0..RetryLimit
    PROVE  /\ [p EXCEPT !.post = post, !.readbacks = n] \in PayloadType
           /\ [p EXCEPT !.post = post, !.readbacks = n].response = p.response
           /\ [p EXCEPT !.post = post, !.readbacks = n].details = p.details
  BY DEF PayloadType

LEMMA RepostsChange ==
    ASSUME NEW p \in PayloadType, NEW m \in 0..RepostLimit,
           NEW r, r = [p EXCEPT !.post = "retry_scheduled", !.reposts = m, !.readbacks = 0]
    PROVE  r \in PayloadType /\ r.response = p.response /\ r.details = p.details
  <1>1. "retry_scheduled" \in PostStates /\ 0 \in 0..RetryLimit
    BY Values DEF PostStates
  <1> QED
    BY <1>1 DEF PayloadType

LEMMA ReviewLeaves ==
    ASSUME Base, NEW w \in Workers, worker[w].pc # "idle",
           NEW post \in PostStates \ {"retry_scheduled"},
           post = "none" => payload[worker[w].order].post = "none",
           Review(w, post), UNCHANGED <<attempts, due, link, remoteVars, admin>>
    PROVE  EndsRow(w)
  <1> DEFINE p == [payload[worker[w].order] EXCEPT !.post = post]
  <1>1. p \in PayloadType /\ p.post = post /\ p.response = payload[worker[w].order].response
    BY WorkerReads, PostChange
  <1>2. Finish(w, "blocked", p)
    BY DEF Review
  <1> HIDE DEF p
  <1>3. Leaves(w, "blocked", p)
    BY <1>1 DEF Leaves, Untried
  <1>4. Links(w, "blocked")
    BY DEF Links
  <1> QED
    BY <1>2, <1>3, <1>4 DEF EndsRow, Base, RowTyping

LEMMA DueChange ==
    ASSUME Base, NEW o \in Orders, NEW now \in BOOLEAN, due' = [due EXCEPT ![o] = now]
    PROVE  due' \in [Orders -> BOOLEAN]
  BY DEF Base, RowTyping

LEMMA RescheduleLeaves ==
    ASSUME Base, NEW w \in Workers, worker[w].pc # "idle", NEW p \in PayloadType, NEW now \in BOOLEAN,
           Leaves(w, "pending", p), Reschedule(w, p, now), UNCHANGED <<attempts, link, remoteVars, admin>>
    PROVE  EndsRow(w)
  <1>1. due' \in [Orders -> BOOLEAN]
    BY DueChange, WorkerReads DEF Reschedule
  <1>2. Links(w, "pending")
    BY DEF Links
  <1> QED
    BY <1>1, <1>2 DEF EndsRow, Reschedule

LEMMA SaveLeaves ==
    ASSUME Base, NEW w \in Workers, NEW r \in Requests,
           \/ At(w, "detail") /\ r = worker[w].got
           \/ At(w, "listed") /\ r \in worker[w].seen,
           Save(w, r), UNCHANGED <<attempts, due, remoteVars, admin>>
    PROVE  EndsRow(w)
  <1> DEFINE p == [payload[worker[w].order] EXCEPT !.post = "completed"]
  <1>0. worker[w].pc # "idle"
    BY DEF At
  <1>1. /\ p \in PayloadType /\ p.post = "completed" /\ p.response = payload[worker[w].order].response
        /\ p.details < RetryLimit
    BY <1>0, WorkerReads, PostChange DEF PostStates
  <1>2. Finish(w, "completed", p) /\ link' = [link EXCEPT ![worker[w].order] = r]
    BY DEF Save
  <1> HIDE DEF p
  <1>3. Leaves(w, "completed", p)
    BY <1>1 DEF Leaves, Untried
  <1>4. Links(w, "completed")
    BY <1>2 DEF Links
  <1> QED
    BY <1>0, <1>2, <1>3, <1>4 DEF EndsRow, Base, RowTyping

LEMMA DetailLeaves ==
    ASSUME Base, NEW w \in Workers, Detail(w)
    PROVE  EndsRow(w)
  <1> DEFINE d == [payload[worker[w].order] EXCEPT !.post = "response_received",
                                                   !.details = Tries(payload[worker[w].order])]
  <1>0. worker[w].pc = "detail" /\ worker[w].got \in Requests
    BY DEF Detail, DetailFound, DetailFails, DetailRefused, At, Base, WorkerTyping
  <1>1. CASE DetailFound(w)
    BY <1>0, <1>1, SaveLeaves DEF DetailFound, At
  <1>2. CASE DetailRefused(w)
    BY <1>0, <1>2, ReviewLeaves DEF DetailRefused, PostStates
  <1>3. CASE DetailFails(w)
    <2>1. /\ d \in PayloadType /\ d.post = "response_received" /\ d.response = payload[worker[w].order].response
          /\ d.details = Tries(payload[worker[w].order])
      <3>1. /\ payload[worker[w].order] \in PayloadType
            /\ Tries(payload[worker[w].order]) \in 0..RetryLimit
        BY <1>0, WorkerReads, Values DEF PayloadType, Tries
      <3>2. "response_received" \in PostStates /\ d.post = "response_received"
            /\ d.details = Tries(payload[worker[w].order])
        BY <3>1 DEF PostStates, PayloadType
      <3> QED
        BY <3>1, <3>2, DetailsChange
    <2>2. \/ Reschedule(w, d, FALSE) /\ d.details < RetryLimit
          \/ Finish(w, "blocked", d) /\ UNCHANGED due
      BY <1>3, <2>1 DEF DetailFails
    <2>3. UNCHANGED <<attempts, link, remoteVars, admin>>
      BY <1>3 DEF DetailFails
    <2> HIDE DEF d
    <2>4. CASE Reschedule(w, d, FALSE) /\ d.details < RetryLimit
      <3>1. Leaves(w, "pending", d)
        BY <2>1, <2>4 DEF Leaves, Untried
      <3> QED
        BY <1>0, <2>1, <2>3, <2>4, <3>1, RescheduleLeaves
    <2>5. CASE Finish(w, "blocked", d) /\ UNCHANGED due
      <3>1. Leaves(w, "blocked", d) /\ Links(w, "blocked")
        BY <2>1, <2>3 DEF Leaves, Links, Untried
      <3> QED
        BY <1>0, <2>3, <2>5, <3>1 DEF EndsRow, Base, RowTyping
    <2> QED
      BY <2>2, <2>4, <2>5
  <1> QED
    BY <1>1, <1>2, <1>3 DEF Detail

LEMMA DecideLeaves ==
    ASSUME Base, NEW w \in Workers, AlreadyLinked(w) \/ BodyRefused(w) \/ RefusePost(w)
    PROVE  EndsRow(w)
  <1> DEFINE o == worker[w].order
  <1>0. worker[w].pc # "idle"
    BY DEF AlreadyLinked, BodyRefused, RefusePost, Fresh, At
  <1>1. CASE AlreadyLinked(w)
    <2>1. CASE Review(w, "response_received")
      BY <1>0, <1>1, <2>1, ReviewLeaves DEF AlreadyLinked, PostStates
    <2>2. CASE Finish(w, "completed", payload[o])
      <3>1. Leaves(w, "completed", payload[o]) /\ Links(w, "completed")
        BY <1>0, <1>1, WorkerReads DEF Leaves, Links, AlreadyLinked
      <3> QED
        BY <1>0, <1>1, <2>2, <3>1 DEF EndsRow, AlreadyLinked, Base, RowTyping
    <2> QED
      BY <1>1, <2>1, <2>2 DEF AlreadyLinked
  <1>2. CASE BodyRefused(w)
    BY <1>0, <1>2, ReviewLeaves DEF BodyRefused, PostStates
  <1>3. CASE RefusePost(w)
    BY <1>0, <1>3, ReviewLeaves DEF RefusePost, PostStates
  <1> QED
    BY <1>1, <1>2, <1>3

LEMMA PostLeaves ==
    ASSUME Base, NEW w \in Workers,
           Malformed(w) \/ RateLimited(w) \/ Rejected(w) \/ Unreadable(w) \/ Ambiguous(w)
    PROVE  EndsRow(w)
  <1> DEFINE o == worker[w].order
             r == [payload[o] EXCEPT !.post = "retry_scheduled"]
             b == [payload[o] EXCEPT !.post = "readback_scheduled", !.readbacks = 0]
  <1>0. worker[w].pc # "idle"
    BY DEF Malformed, RateLimited, Rejected, Unreadable, Ambiguous, At
  <1>1. CASE Malformed(w) \/ Rejected(w) \/ Unreadable(w)
    BY <1>0, <1>1, ReviewLeaves DEF Malformed, Rejected, Unreadable, PostStates
  <1>2. CASE RateLimited(w)
    <2>1. r \in PayloadType /\ r.response = payload[o].response /\ r.details < RetryLimit
      BY <1>0, WorkerReads, PostChange DEF PostStates
    <2>2. Reschedule(w, r, FALSE) /\ At(w, "refused") /\ UNCHANGED <<attempts, link, remoteVars, admin>>
      BY <1>2 DEF RateLimited
    <2> HIDE DEF r
    <2> QED
      BY <1>0, <2>1, <2>2, RescheduleLeaves DEF Leaves
  <1>3. CASE Ambiguous(w)
    <2>1. /\ b \in PayloadType /\ b.response = payload[o].response /\ b.details < RetryLimit
          /\ b.post = "readback_scheduled"
      <3>1. payload[o] \in PayloadType /\ payload[o].details < RetryLimit
        BY <1>0, WorkerReads
      <3>2. "readback_scheduled" \in PostStates /\ 0 \in 0..RetryLimit /\ b.post = "readback_scheduled"
        BY <3>1, Values DEF PostStates, PayloadType
      <3> QED
        BY <3>1, <3>2, ReadbacksChange
    <2>2. Reschedule(w, b, FALSE) /\ UNCHANGED <<attempts, link, remoteVars, admin>>
      BY <1>3 DEF Ambiguous
    <2> HIDE DEF b
    <2> QED
      BY <1>0, <2>1, <2>2, RescheduleLeaves DEF Leaves, Untried
  <1> QED
    BY <1>1, <1>2, <1>3

LEMMA ReadbackLeaves ==
    ASSUME Base, NEW w \in Workers,
           ListFails(w) \/ LinkMatch(w) \/ MatchRefused(w) \/ Repost(w) \/ ReviewReadback(w)
    PROVE  EndsRow(w)
  <1> DEFINE o == worker[w].order
             l == [payload[o] EXCEPT !.post = "readback_scheduled", !.readbacks = worker[w].readbacks]
             r == [payload[o] EXCEPT !.post = "retry_scheduled", !.reposts = worker[w].reposts + 1,
                                     !.readbacks = 0]
  <1>0. worker[w].pc # "idle"
    BY DEF ListFails, LinkMatch, MatchRefused, Repost, ReviewReadback, At
  <1>1. CASE ListFails(w)
    <2>1. /\ l \in PayloadType /\ l.response = payload[o].response /\ l.details < RetryLimit
          /\ l.post = "readback_scheduled"
      BY <1>0, WorkerReads DEF PayloadType, PostStates, WorkerType
    <2>2. \/ Reschedule(w, l, FALSE)
          \/ Review(w, "ambiguous") /\ UNCHANGED due
      BY <1>1 DEF ListFails
    <2>3. UNCHANGED <<attempts, link, remoteVars, admin>>
      BY <1>1 DEF ListFails
    <2> HIDE DEF l
    <2>4. CASE Reschedule(w, l, FALSE)
      <3>1. Leaves(w, "pending", l)
        BY <2>1 DEF Leaves, Untried
      <3> QED
        BY <1>0, <2>1, <2>3, <2>4, <3>1, RescheduleLeaves
    <2>5. CASE Review(w, "ambiguous") /\ UNCHANGED due
      BY <1>0, <2>3, <2>5, ReviewLeaves DEF PostStates
    <2> QED
      BY <2>2, <2>4, <2>5
  <1>2. CASE LinkMatch(w)
    <2>1. PICK m \in Matches(w) : Save(w, m)
      BY <1>2 DEF LinkMatch
    <2>2. m \in worker[w].seen /\ m \in Requests
      BY <1>0, <2>1, WorkerReads DEF Matches, WorkerType
    <2> QED
      BY <1>2, <2>1, <2>2, SaveLeaves DEF LinkMatch
  <1>3. CASE MatchRefused(w) \/ ReviewReadback(w)
    BY <1>0, <1>3, ReviewLeaves DEF MatchRefused, ReviewReadback, PostStates
  <1>4. CASE Repost(w)
    <2>1. worker[w].reposts + 1 \in 0..RepostLimit
      BY <1>0, <1>4, WorkerReads, Values DEF Repost, MayRepost, WorkerType
    <2>2. r \in PayloadType /\ r.response = payload[o].response /\ r.details < RetryLimit
      <3>1. payload[o] \in PayloadType /\ payload[o].details < RetryLimit
        BY <1>0, WorkerReads
      <3>3. PICK m \in 0..RepostLimit : m = worker[w].reposts + 1
        BY <2>1
      <3>4. r = [payload[o] EXCEPT !.post = "retry_scheduled", !.reposts = m, !.readbacks = 0]
        BY <3>3
      <3> HIDE DEF r
      <3> QED
        BY <3>1, <3>4, RepostsChange
    <2>3. Reschedule(w, r, TRUE) /\ ProvedAbsent(w) /\ At(w, "listed") /\ UNCHANGED <<attempts, link, remoteVars, admin>>
      BY <1>4 DEF Repost, MayRepost
    <2> HIDE DEF r
    <2> QED
      BY <1>0, <2>2, <2>3, RescheduleLeaves DEF Leaves
  <1> QED
    BY <1>1, <1>2, <1>3, <1>4

LEMMA EndsOrGoesOn ==
    ASSUME Base, NEW w \in Workers, WorkerStep(w)
    PROVE  \/ EndsRow(w)
           \/ LookUp(w) \/ StartReadback(w) \/ StartPost(w) \/ Send(w) \/ Answered(w) \/ ListRequests(w)
  BY DetailLeaves, DecideLeaves, PostLeaves, ReadbackLeaves DEF WorkerStep, Decide, Post, Readback

-----------------------------------------------------------------------------
(* Types.                                                                  *)

LEMMA EndsRowBase ==
    ASSUME Base, NEW w \in Workers, EndsRow(w)
    PROVE  Base'
  <1>1. PICK state, p : Leaves(w, state, p) /\ Finish(w, state, p) /\ Links(w, state)
    BY DEF EndsRow
  <1>2. /\ status' \in [Orders -> Statuses] /\ payload' \in [Orders -> PayloadType]
        /\ WorkerTyping' /\ Holding' /\ Unspent'
    BY <1>1, FinishEffect DEF EndsRow, Leaves
  <1>3. link' \in [Orders -> Requests \cup {None}]
    BY <1>1, WorkerReads DEF EndsRow, Links, Base, LinkTyping
  <1>4. RowTyping' /\ LinkTyping' /\ AdminTyping'
    BY <1>2, <1>3 DEF EndsRow, Base, RowTyping, LinkTyping, AdminTyping, remoteVars
  <1> QED
    BY <1>2, <1>4 DEF Base

\* The worker goes on: its new record, and what it writes first.
GoesOn(w, u) ==
    /\ worker[w].pc # "idle" /\ worker' = [worker EXCEPT ![w] = u]
    /\ u \in WorkerType /\ u.order = worker[w].order /\ (u.pc = "detail" => u.got \in Requests)
    /\ UNCHANGED <<status, attempts, due, link, admin>>
    /\ \/ UNCHANGED payload
       \/ \E p \in PayloadType : /\ p.details = payload[worker[w].order].details
                                 /\ payload' = [payload EXCEPT ![worker[w].order] = p]

LEMMA GoesOnBase ==
    ASSUME Base, NEW w \in Workers, NEW u, GoesOn(w, u),
           created' \in [Requests -> Orders \cup {None}], flying' \subseteq Orders
    PROVE  Base'
  <1>1. payload' \in [Orders -> PayloadType] /\ WorkerTyping' /\ Holding' /\ Unspent'
    BY GoOnEffect DEF GoesOn
  <1>2. RowTyping' /\ LinkTyping' /\ AdminTyping'
    BY <1>1 DEF GoesOn, Base, RowTyping, LinkTyping, AdminTyping
  <1> QED
    BY <1>1, <1>2 DEF Base

LEMMA LookUpGoesOn ==
    ASSUME Base, NEW w \in Workers, LookUp(w)
    PROVE  \E u : GoesOn(w, u) /\ u.pc = "detail" /\ u.got = payload[worker[w].order].response
  <1>0. worker[w].pc # "idle" /\ worker[w] \in WorkerType /\ payload[worker[w].order].response \in Requests
    BY WorkerReads DEF LookUp, At, PayloadType
  <1>1. PICK u : u = [worker[w] EXCEPT !.pc = "detail", !.got = payload[worker[w].order].response]
    OBVIOUS
  <1>2. /\ u \in WorkerType /\ u.order = worker[w].order
        /\ u.pc = "detail" /\ u.got = payload[worker[w].order].response
    BY <1>0, <1>1 DEF WorkerType, Pcs
  <1>3. worker' = [worker EXCEPT ![w] = u]
    BY <1>1 DEF LookUp
  <1> QED
    BY <1>0, <1>2, <1>3 DEF GoesOn, LookUp

LEMMA ReadbackGoesOn ==
    ASSUME Base, NEW w \in Workers, StartReadback(w)
    PROVE  \E u : GoesOn(w, u) /\ u.pc = "reading"
  <1> DEFINE o == worker[w].order
  <1>0. /\ worker[w].pc # "idle" /\ worker[w] \in WorkerType
        /\ payload[o] \in PayloadType /\ payload[o].details < RetryLimit
    BY WorkerReads DEF StartReadback, Fresh, At
  <1>1. PICK n \in 0..RetryLimit :
           n = IF payload[o].readbacks < RetryLimit THEN payload[o].readbacks + 1 ELSE RetryLimit
    BY <1>0, Values DEF PayloadType
  <1>2. PICK u : u = [worker[w] EXCEPT !.pc = "reading", !.reposts = payload[o].reposts, !.readbacks = n]
    OBVIOUS
  <1>3. u \in WorkerType /\ u.order = o /\ u.pc = "reading"
    BY <1>0, <1>2 DEF WorkerType, Pcs, PayloadType
  <1>4. PICK p : p = [payload[o] EXCEPT !.post = "readback_started", !.readbacks = n]
    OBVIOUS
  <1>5. p \in PayloadType /\ p.details = payload[o].details
    BY <1>0, <1>4, ReadbacksChange DEF PostStates
  <1>6. worker' = [worker EXCEPT ![w] = u] /\ payload' = [payload EXCEPT ![o] = p]
    BY <1>1, <1>2, <1>4 DEF StartReadback
  <1> QED
    BY <1>0, <1>3, <1>5, <1>6 DEF GoesOn, StartReadback

LEMMA PostGoesOn ==
    ASSUME Base, NEW w \in Workers, StartPost(w)
    PROVE  \E u : GoesOn(w, u) /\ u.pc = "posting" /\ u.got = worker[w].got
  <1> DEFINE o == worker[w].order
  <1>0. /\ worker[w].pc # "idle" /\ worker[w] \in WorkerType /\ payload[o] \in PayloadType
    BY WorkerReads DEF StartPost, Fresh, At
  <1>1. PICK u : u = [worker[w] EXCEPT !.pc = "posting"]
    OBVIOUS
  <1>2. u \in WorkerType /\ u.order = o /\ u.pc = "posting" /\ u.got = worker[w].got
    BY <1>0, <1>1 DEF WorkerType, Pcs
  <1>3. PICK p : p = [payload[o] EXCEPT !.post = "started"]
    OBVIOUS
  <1>4. p \in PayloadType /\ p.details = payload[o].details
    BY <1>0, <1>3, PostChange DEF PostStates
  <1>5. worker' = [worker EXCEPT ![w] = u] /\ payload' = [payload EXCEPT ![o] = p]
    BY <1>0, <1>1, <1>3 DEF StartPost, Base, RowTyping
  <1> QED
    BY <1>0, <1>2, <1>4, <1>5 DEF GoesOn, StartPost

LEMMA AnsweredGoesOn ==
    ASSUME Base, NEW w \in Workers, Answered(w)
    PROVE  \E u : GoesOn(w, u) /\ u.pc = "detail" /\ u.got = worker[w].got
  <1> DEFINE o == worker[w].order
  <1>0. /\ worker[w].pc # "idle" /\ worker[w] \in WorkerType /\ payload[o] \in PayloadType
        /\ worker[w].got \in Requests
    BY WorkerReads DEF Answered, At, WorkerType
  <1>1. PICK u : u = [worker[w] EXCEPT !.pc = "detail"]
    OBVIOUS
  <1>2. u \in WorkerType /\ u.order = o /\ u.pc = "detail" /\ u.got = worker[w].got
    BY <1>0, <1>1 DEF WorkerType, Pcs
  <1>3. PICK p : p = [payload[o] EXCEPT !.post = "response_received", !.response = worker[w].got]
    OBVIOUS
  <1>4. p \in PayloadType /\ p.details = payload[o].details
    BY <1>0, <1>3 DEF PayloadType, PostStates
  <1>5. worker' = [worker EXCEPT ![w] = u] /\ payload' = [payload EXCEPT ![o] = p]
    BY <1>0, <1>1, <1>3 DEF Answered, Base, RowTyping
  <1> QED
    BY <1>0, <1>2, <1>4, <1>5 DEF GoesOn, Answered

LEMMA ListGoesOn ==
    ASSUME Base, NEW w \in Workers, ListRequests(w)
    PROVE  \E u : /\ GoesOn(w, u) /\ u.pc = "listed"
                  /\ u.seen \subseteq Matching(worker[w].order)
                  /\ u.complete /\ SoundDetails => u.seen = Matching(worker[w].order)
  <1>0. worker[w].pc # "idle" /\ worker[w] \in WorkerType
    BY WorkerReads DEF ListRequests, At
  <1>1. PICK complete \in BOOLEAN, seen \in SUBSET Matching(worker[w].order) :
            /\ complete /\ SoundDetails => seen = Matching(worker[w].order)
            /\ worker' = [worker EXCEPT ![w].pc = "listed", ![w].seen = seen, ![w].complete = complete]
    BY DEF ListRequests
  <1>2. PICK u : u = [worker[w] EXCEPT !.pc = "listed", !.seen = seen, !.complete = complete]
    OBVIOUS
  <1>3. seen \subseteq Requests
    BY DEF Matching
  <1>4. /\ u \in WorkerType /\ u.order = worker[w].order /\ u.pc = "listed"
        /\ u.seen = seen /\ u.complete = complete
    BY <1>0, <1>2, <1>3 DEF WorkerType, Pcs
  <1>5. worker' = [worker EXCEPT ![w] = u]
    BY <1>0, <1>1, <1>2 DEF Base, WorkerTyping
  <1> QED
    BY <1>0, <1>1, <1>4, <1>5 DEF GoesOn, ListRequests

LEMMA SendGoesOn ==
    ASSUME Base, NEW w \in Workers, Send(w)
    PROVE  /\ \E u : /\ GoesOn(w, u)
                     /\ \/ /\ u.pc = "sent" /\ u.got \in Unused
                           /\ created' = [created EXCEPT ![u.got] = worker[w].order] /\ UNCHANGED flying
                        \/ u.pc = "refused" /\ UNCHANGED remoteVars
                        \/ /\ u.pc = "sent" /\ u.got = worker[w].got
                           /\ flying' = flying \cup {worker[w].order} /\ UNCHANGED created
           /\ created' \in [Requests -> Orders \cup {None}] /\ flying' \subseteq Orders
  <1> DEFINE o == worker[w].order
  <1>0. worker[w].pc # "idle" /\ worker[w] \in WorkerType /\ o \in Orders
    BY WorkerReads DEF Send, At
  <1>1. UNCHANGED <<status, attempts, due, payload, link, admin>>
    BY DEF Send
  <1>2. ASSUME NEW r \in Unused, created' = [created EXCEPT ![r] = o],
               worker' = [worker EXCEPT ![w].pc = "sent", ![w].got = r], UNCHANGED flying
        PROVE  /\ \E u : /\ GoesOn(w, u) /\ u.pc = "sent" /\ u.got \in Unused
                         /\ created' = [created EXCEPT ![u.got] = o]
               /\ created' \in [Requests -> Orders \cup {None}]
    <2>0. r \in Requests
      BY DEF Unused
    <2>1. PICK u : u = [worker[w] EXCEPT !.pc = "sent", !.got = r]
      OBVIOUS
    <2>2. u \in WorkerType /\ u.order = o /\ u.pc = "sent" /\ u.got = r
      BY <1>0, <2>0, <2>1 DEF WorkerType, Pcs
    <2>3. worker' = [worker EXCEPT ![w] = u]
      BY <1>0, <1>2, <2>1 DEF Base, WorkerTyping
    <2> QED
      BY <1>0, <1>1, <1>2, <2>2, <2>3 DEF GoesOn, Base, LinkTyping
  <1>3. ASSUME NEW pc \in {"sent", "refused"}, worker' = [worker EXCEPT ![w].pc = pc]
        PROVE  \E u : GoesOn(w, u) /\ u.pc = pc /\ u.got = worker[w].got
    <2>1. PICK u : u = [worker[w] EXCEPT !.pc = pc]
      OBVIOUS
    <2>2. u \in WorkerType /\ u.order = o /\ u.pc = pc /\ u.got = worker[w].got
      BY <1>0, <2>1 DEF WorkerType, Pcs
    <2>3. worker' = [worker EXCEPT ![w] = u]
      BY <1>3, <2>1
    <2> QED
      BY <1>0, <1>1, <2>2, <2>3 DEF GoesOn
  <1>4. CASE \E r \in Unused : /\ created' = [created EXCEPT ![r] = o]
                               /\ worker' = [worker EXCEPT ![w].pc = "sent", ![w].got = r]
                               /\ UNCHANGED flying
    BY <1>2, <1>4 DEF Base, LinkTyping
  <1>5. CASE worker' = [worker EXCEPT ![w].pc = "refused"] /\ UNCHANGED remoteVars
    BY <1>3, <1>5 DEF Base, LinkTyping, remoteVars
  <1>6. CASE /\ flying' = flying \cup {o} /\ UNCHANGED created
             /\ worker' = [worker EXCEPT ![w].pc = "sent"]
    BY <1>0, <1>3, <1>6 DEF Base, LinkTyping
  <1> QED
    BY <1>4, <1>5, <1>6 DEF Send

LEMMA WorkerStepBase ==
    ASSUME Base, NEW w \in Workers, WorkerStep(w)
    PROVE  Base'
  <1>1. CASE EndsRow(w)
    BY <1>1, EndsRowBase
  <1>2. CASE Send(w)
    BY <1>2, SendGoesOn, GoesOnBase
  <1>3. CASE LookUp(w) \/ StartReadback(w) \/ StartPost(w) \/ Answered(w) \/ ListRequests(w)
    <2>1. \E u : GoesOn(w, u)
      BY <1>3, LookUpGoesOn, ReadbackGoesOn, PostGoesOn, AnsweredGoesOn, ListGoesOn
    <2>2. UNCHANGED <<created, flying>>
      BY <1>3 DEF LookUp, StartReadback, StartPost, Answered, ListRequests, remoteVars
    <2> QED
      BY <2>1, <2>2, GoesOnBase DEF Base, LinkTyping
  <1> QED
    BY <1>1, <1>2, <1>3, EndsOrGoesOn

LEMMA ClaimBase ==
    ASSUME Base, NEW w \in Workers, NEW o \in Orders, Claim(w, o)
    PROVE  Base'
  <1>1. PICK u : u = [IdleWorker EXCEPT !.pc = "claimed", !.order = o]
    OBVIOUS
  <1>2. u \in WorkerType /\ u.order = o /\ u.pc = "claimed"
    <2>1. "claimed" \in Pcs /\ IdleWorker \in WorkerType
      BY Values DEF Pcs
    <2> QED
      BY <1>1, <2>1 DEF WorkerType
  <1>3. worker' = [worker EXCEPT ![w] = u] /\ status' = [status EXCEPT ![o] = "processing"]
    BY <1>1 DEF Claim
  <1>4. WorkerTyping'
    BY <1>2, <1>3 DEF Base, WorkerTyping
  <1>5. \A q \in Workers : worker[q].pc # "idle" => worker[q].order # o
    BY DEF Claim, Base, Holding
  <1>6. Holding'
    BY <1>2, <1>3, <1>5 DEF Base, Holding, WorkerTyping, RowTyping
  <1>7. RowTyping'
    BY <1>3 DEF Claim, Base, RowTyping, Statuses
  <1>8. Unspent'
    BY <1>3 DEF Claim, Base, Unspent, RowTyping
  <1> QED
    BY <1>4, <1>6, <1>7, <1>8 DEF Claim, Base, LinkTyping, AdminTyping, remoteVars

LEMMA OrderStepBase ==
    ASSUME Base, NEW o \in Orders, OrderStep(o)
    PROVE  Base'
  <1>1. CASE Queue(o)
    <2>1. RowTyping' /\ Unspent' /\ Holding'
      BY <1>1 DEF Queue, Base, RowTyping, Unspent, Statuses, Holding
    <2> QED
      BY <1>1, <2>1 DEF Queue, Base, LinkTyping, WorkerTyping, AdminTyping, remoteVars
  <1>2. CASE StaleReset(o)
    <2>1. RowTyping' /\ Unspent'
      BY <1>2 DEF StaleReset, Base, RowTyping, Unspent, Statuses
    <2>2. Holding'
      BY <1>2 DEF StaleReset, Base, RowTyping, Holding, Holds
    <2> QED
      BY <1>2, <2>1, <2>2 DEF StaleReset, Base, LinkTyping, WorkerTyping, AdminTyping, remoteVars
  <1>3. CASE TimePasses(o)
    BY <1>3 DEF TimePasses, Base, RowTyping, LinkTyping, WorkerTyping, AdminTyping, Holding, Unspent, remoteVars
  <1>4. CASE Land(o)
    <2>1. created' \in [Requests -> Orders \cup {None}]
      BY <1>4 DEF Land, Base, LinkTyping, Unused
    <2> QED
      BY <1>4, <2>1 DEF Land, Base, RowTyping, LinkTyping, WorkerTyping, AdminTyping, Holding, Unspent
  <1>5. CASE AdminRead(o)
    <2>1. AdminTyping'
      BY <1>5 DEF AdminRead, Base, AdminTyping, RowTyping, Unspent
    <2> QED
      BY <1>5, <2>1 DEF AdminRead, Base, RowTyping, LinkTyping, WorkerTyping, Holding, Unspent, remoteVars
  <1> QED
    BY <1>1, <1>2, <1>3, <1>4, <1>5, ClaimBase DEF OrderStep

LEMMA BaseStep == Base /\ [Next]_vars => Base'
  <1> SUFFICES ASSUME Base, [Next]_vars PROVE Base'
    OBVIOUS
  <1>1. ASSUME NEW w \in Workers, Crash(w) PROVE Base'
    <2>1. \A q \in Workers : worker'[q].pc # "idle" => worker'[q] = worker[q]
      BY <1>1, Values DEF Crash, Base, WorkerTyping
    <2>2. WorkerTyping'
      BY <1>1, Values DEF Crash, Base, WorkerTyping
    <2>3. Holding'
      BY <1>1, <2>1 DEF Crash, Base, Holding
    <2> QED
      BY <1>1, <2>2, <2>3 DEF Crash, Base, RowTyping, LinkTyping, AdminTyping, Unspent, remoteVars
  <1>2. CASE AdminWrite
    <2>1. admin.order \in Orders
      BY <1>2 DEF AdminWrite, Base, AdminTyping
    <2>2. RowTyping'
      BY <1>2, <2>1 DEF AdminWrite, Base, RowTyping, AdminTyping
    <2>3. Unspent'
      BY <1>2, <2>1 DEF AdminWrite, Base, Unspent, AdminTyping, RowTyping
    <2>4. AdminTyping'
      BY <1>2, Values DEF AdminWrite, AdminTyping, IdleAdmin
    <2> QED
      BY <1>2, <2>2, <2>3, <2>4 DEF AdminWrite, Base, LinkTyping, WorkerTyping, Holding, remoteVars
  <1>3. CASE UNCHANGED vars
    BY <1>3 DEF vars, Base, RowTyping, LinkTyping, WorkerTyping, AdminTyping, Holding, Unspent, remoteVars
  <1> QED
    BY <1>1, <1>2, <1>3, WorkerStepBase, OrderStepBase DEF Next

LEMMA BaseHolds == Spec => []Base
  <1>1. Init => Base
    BY BaseInit
  <1>2. Base /\ [Next]_vars => Base'
    BY BaseStep
  <1> QED
    BY <1>1, <1>2, PTL DEF Spec

\* Rows, workers and counters keep their types, whatever an administrator overwrites.
THEOREM TypeCorrect == Spec => []TypeOK
  BY BaseHolds, BaseGivesTypeOK, PTL

-----------------------------------------------------------------------------
(* Safety.                                                                 *)

BodiesDiffer == \A a, b \in Orders : Body[a] = Body[b] => a = b

\* SkladBot has no request of the order and will not get one.
Clean(o) == RequestsOf(o) = {} /\ o \notin flying

\* What an order, its row and SkladBot say of each other ...
OrderSafe(o) ==
    /\ \A r, s \in RequestsOf(o) : r = s
    /\ o \in flying => RequestsOf(o) = {}
    /\ link[o] = None /\ payload[o].post \in Untried => Clean(o)
    /\ link[o] # None => created[link[o]] = o
    /\ payload[o].response # None => created[payload[o].response] = o
    /\ status[o] = "completed" => link[o] # None

\* ... and what the worker of its row knows of SkladBot.
WorkerSafe(v) ==
    /\ v.pc \in {"claimed", "posting"} => v.got = None
    /\ v.pc \in {"posting", "refused"} => Clean(v.order)
    /\ v.pc = "posting" => payload[v.order].post = "started"
    /\ v.pc \in {"sent", "detail"} /\ v.got # None => created[v.got] = v.order
    /\ v.pc = "listed" =>
          /\ v.order \notin flying
          /\ \A r \in v.seen : created[r] = v.order
          /\ v.complete => RequestsOf(v.order) \subseteq v.seen

AdminSafe == admin = IdleAdmin \/ (admin.order \in Orders /\ admin.payload = payload[admin.order])

Safe == (\A o \in Orders : OrderSafe(o)) /\ (\A w \in Workers : WorkerSafe(worker[w])) /\ AdminSafe

\* An order a step does not touch
Untouched(d) ==
    /\ \A r \in Requests : created'[r] = d <=> created[r] = d
    /\ d \in flying' <=> d \in flying
    /\ link'[d] = link[d] /\ payload'[d] = payload[d] /\ status'[d] = status[d]

LEMMA OrderUntouched ==
    ASSUME NEW o \in Orders, OrderSafe(o), Base, Untouched(o)
    PROVE  OrderSafe(o)'
  <1>1. RequestsOf(o)' = RequestsOf(o)
    BY DEF RequestsOf, Untouched
  <1>2. link[o] \in Requests \cup {None} /\ payload[o].response \in Requests \cup {None}
    BY DEF Base, RowTyping, LinkTyping, PayloadType
  <1> QED
    BY <1>1, <1>2 DEF OrderSafe, Clean, Untouched

LEMMA WorkerUntouched ==
    ASSUME NEW v \in WorkerType, v.order \in Orders, WorkerSafe(v),
           \A r \in Requests : created'[r] = v.order <=> created[r] = v.order,
           v.order \in flying' <=> v.order \in flying,
           payload'[v.order].post = payload[v.order].post
    PROVE  WorkerSafe(v)'
  <1>1. RequestsOf(v.order)' = RequestsOf(v.order)
    BY DEF RequestsOf
  <1>2. v.got \in Requests \cup {None} /\ v.seen \subseteq Requests
    BY DEF WorkerType
  <1> QED
    BY <1>1, <1>2 DEF WorkerSafe, Clean

LEMMA IdleSafe == WorkerSafe(IdleWorker)' /\ WorkerSafe(IdleWorker)
  BY DEF WorkerSafe, IdleWorker

\* The step of a worker is safe if it is for its own row and itself.
LEMMA OwnStep ==
    ASSUME Base, Base', Safe, admin = IdleAdmin, UNCHANGED admin,
           NEW w \in Workers, worker[w].pc # "idle", NEW u, worker' = [worker EXCEPT ![w] = u],
           NEW o \in Orders, o = worker[w].order, \A d \in Orders : d # o => Untouched(d),
           OrderSafe(o)', WorkerSafe(u)'
    PROVE  Safe'
  <1>1. ASSUME NEW d \in Orders PROVE OrderSafe(d)'
    <2>1. CASE d = o
      BY <2>1
    <2>2. CASE d # o
      BY <2>2, OrderUntouched DEF Safe
    <2> QED
      BY <2>1, <2>2
  <1>2. ASSUME NEW q \in Workers PROVE WorkerSafe(worker[q])'
    <2>1. CASE q = w
      <3>1. worker'[q] = u
        BY <2>1 DEF Base, WorkerTyping
      <3> QED
        BY <3>1 DEF WorkerSafe
    <2>2. CASE q # w /\ worker[q].pc = "idle"
      BY <2>2 DEF Base, WorkerTyping, WorkerSafe
    <2>3. CASE q # w /\ worker[q].pc # "idle"
      <3>1. worker[q] \in WorkerType /\ worker[q].order \in Orders /\ worker[q].order # worker[w].order
        BY <2>3 DEF Base, WorkerTyping, Holding
      <3>2. worker'[q] = worker[q]
        BY <2>3 DEF Base, WorkerTyping
      <3>3. PICK v : v = worker[q]
        OBVIOUS
      <3>4. WorkerSafe(v)'
        <4>1. v \in WorkerType /\ v.order \in Orders /\ WorkerSafe(v) /\ Untouched(v.order)
          BY <3>1, <3>3 DEF Safe
        <4> QED
          BY <4>1, WorkerUntouched DEF Untouched
      <3> QED
        BY <3>2, <3>3, <3>4 DEF WorkerSafe
    <2> QED
      BY <2>1, <2>2, <2>3
  <1>3. AdminSafe'
    BY DEF AdminSafe
  <1> QED
    BY <1>1, <1>2, <1>3 DEF Safe

\* What the worker of a row knows from the invariant
LEMMA WorkerKnows ==
    ASSUME Base, Safe, NEW w \in Workers, worker[w].pc # "idle"
    PROVE  OrderSafe(worker[w].order) /\ WorkerSafe(worker[w])
  BY WorkerReads DEF Safe

\* A complete list without a match proves that there is no request.
LEMMA AbsenceIsProved ==
    ASSUME Base, Safe, NEW w \in Workers, At(w, "listed"), ProvedAbsent(w)
    PROVE  Clean(worker[w].order)
  <1> DEFINE o == worker[w].order
  <1>1. worker[w].pc = "listed" /\ worker[w].complete /\ Matches(w) = {} /\ o \in Orders
    BY WorkerReads DEF At, ProvedAbsent
  <1>2. o \notin flying /\ RequestsOf(o) \subseteq worker[w].seen
    BY <1>1, WorkerKnows DEF WorkerSafe
  <1>3. ASSUME NEW r \in RequestsOf(o), NEW d \in Orders \ {o} PROVE link[d] # r
    <2>1. r \in Requests /\ created[r] = o
      BY <1>3 DEF RequestsOf
    <2>2. link[d] # None => created[link[d]] = d
      BY DEF Safe, OrderSafe
    <2> QED
      BY <2>1, <2>2, NoneAssumption
  <1>4. RequestsOf(o) \subseteq Matches(w)
    BY <1>2, <1>3 DEF Matches
  <1> QED
    BY <1>1, <1>2, <1>4 DEF Clean

LEMMA EndsRowSafe ==
    ASSUME Base, Base', Safe, admin = IdleAdmin, NEW w \in Workers, EndsRow(w)
    PROVE  Safe'
  <1>1. PICK state, p : Leaves(w, state, p) /\ Finish(w, state, p) /\ Links(w, state)
    BY DEF EndsRow
  <1>2. PICK o \in Orders : o = worker[w].order
    BY WorkerReads DEF EndsRow
  <1>3. /\ worker[w].pc # "idle" /\ UNCHANGED <<created, flying, admin>>
        /\ status' = [status EXCEPT ![o] = state] /\ payload' = [payload EXCEPT ![o] = p]
        /\ worker' = [worker EXCEPT ![w] = IdleWorker]
    BY <1>1, <1>2 DEF EndsRow, Finish, remoteVars
  <1>4. \A d \in Orders : d # o => link'[d] = link[d]
    BY <1>1, <1>2 DEF Links, Base, LinkTyping
  <1>5. \A d \in Orders : d # o => Untouched(d)
    BY <1>3, <1>4 DEF Untouched, Base, RowTyping
  <1>6. OrderSafe(o) /\ WorkerSafe(worker[w])
    BY <1>2, <1>3, WorkerKnows
  <1>7. RequestsOf(o)' = RequestsOf(o) /\ (Clean(o) => Clean(o)')
    BY <1>3 DEF RequestsOf, Clean
  <1>8. payload'[o] = p /\ status'[o] = state
    BY <1>2, <1>3 DEF Base, RowTyping
  <1>9. \/ link'[o] = link[o] /\ (state = "completed" => link[o] # None)
        \/ link'[o] \in Requests /\ created[link'[o]] = o
    <2>1. CASE UNCHANGED link /\ (state = "completed" => link[o] # None)
      BY <2>1
    <2>2. CASE \E r \in Requests : /\ link' = [link EXCEPT ![o] = r]
                                   /\ \/ At(w, "detail") /\ r = worker[w].got
                                      \/ At(w, "listed") /\ r \in worker[w].seen
      <3>1. PICK r \in Requests : /\ link' = [link EXCEPT ![o] = r]
                                  /\ \/ At(w, "detail") /\ r = worker[w].got
                                     \/ At(w, "listed") /\ r \in worker[w].seen
        BY <2>2
      <3>2. link'[o] = r
        BY <3>1 DEF Base, LinkTyping
      <3>3. created[r] = o
        BY <3>1, <1>2, <1>6, NoneAssumption DEF WorkerSafe, At
      <3> QED
        BY <3>2, <3>3
    <2> QED
      BY <1>1, <1>2, <2>1, <2>2 DEF Links
  <1>10. link'[o] = None => link[o] = None
    BY <1>9, NoneAssumption
  <1>11. link[o] = None /\ p.post \in Untried => Clean(o)
    <2>1. CASE p.post = payload[o].post
      BY <2>1, <1>6 DEF OrderSafe
    <2>2. CASE At(w, "refused")
      BY <2>2, <1>2, <1>6 DEF WorkerSafe, At
    <2>3. CASE At(w, "listed") /\ ProvedAbsent(w)
      BY <2>3, <1>2, AbsenceIsProved
    <2> QED
      BY <1>1, <1>2, <2>1, <2>2, <2>3 DEF Leaves
  <1>12. p.response = payload[o].response
    BY <1>1, <1>2 DEF Leaves
  <1>13. OrderSafe(o)'
    <2>1. (link[o] = None /\ payload[o].post \in Untried => Clean(o))'
      BY <1>7, <1>8, <1>10, <1>11
    <2>2. (\A r, s \in RequestsOf(o) : r = s)' /\ (o \in flying => RequestsOf(o) = {})'
      BY <1>3, <1>6, <1>7 DEF OrderSafe
    <2>3. (link[o] # None => created[link[o]] = o)'
      BY <1>3, <1>6, <1>9 DEF OrderSafe
    <2>4. (payload[o].response # None => created[payload[o].response] = o)'
      BY <1>3, <1>6, <1>8, <1>12 DEF OrderSafe
    <2>5. (status[o] = "completed" => link[o] # None)'
      BY <1>8, <1>9, NoneAssumption
    <2> QED
      BY <2>1, <2>2, <2>3, <2>4, <2>5 DEF OrderSafe
  <1> QED
    BY <1>2, <1>3, <1>5, <1>13, IdleSafe, OwnStep

\* A step of a worker that only writes to its row
LEMMA GoesOnUntouched ==
    ASSUME Base, NEW w \in Workers, NEW u, GoesOn(w, u), UNCHANGED <<created, flying>>
    PROVE  \A d \in Orders : d # worker[w].order => Untouched(d)
  BY DEF GoesOn, Untouched, Base, RowTyping

LEMMA LookUpSafe ==
    ASSUME Base, Base', Safe, admin = IdleAdmin, NEW w \in Workers, LookUp(w)
    PROVE  Safe'
  <1>1. PICK u : GoesOn(w, u) /\ u.pc = "detail" /\ u.got = payload[worker[w].order].response
    BY LookUpGoesOn
  <1>2. PICK o \in Orders : o = worker[w].order
    BY <1>1, WorkerReads DEF GoesOn
  <1>3. UNCHANGED <<status, payload, link, created, flying, admin>>
    BY DEF LookUp, remoteVars
  <1>4. OrderSafe(o)
    BY <1>2 DEF Safe
  <1>5. OrderSafe(o)'
    BY <1>3, <1>4 DEF OrderSafe, Clean, RequestsOf
  <1>6. WorkerSafe(u)'
    BY <1>1, <1>2, <1>3, <1>4 DEF WorkerSafe, OrderSafe, GoesOn
  <1> QED
    BY <1>1, <1>2, <1>3, <1>5, <1>6, GoesOnUntouched, OwnStep DEF GoesOn

LEMMA StartReadbackSafe ==
    ASSUME Base, Base', Safe, admin = IdleAdmin, NEW w \in Workers, StartReadback(w)
    PROVE  Safe'
  <1>1. PICK u : GoesOn(w, u) /\ u.pc = "reading"
    BY ReadbackGoesOn
  <1>2. PICK o \in Orders : o = worker[w].order
    BY <1>1, WorkerReads DEF GoesOn
  <1>3. UNCHANGED <<status, link, created, flying, admin>>
    BY DEF StartReadback, remoteVars
  <1>4. OrderSafe(o) /\ payload[o] \in PayloadType
    BY <1>2 DEF Safe, Base, RowTyping
  <1>5. payload'[o].post = "readback_started" /\ payload'[o].response = payload[o].response
    BY <1>2, <1>4 DEF StartReadback, Base, RowTyping, PayloadType
  <1>6. OrderSafe(o)'
    BY <1>3, <1>4, <1>5 DEF OrderSafe, Clean, RequestsOf, Untried
  <1>7. WorkerSafe(u)'
    BY <1>1 DEF WorkerSafe
  <1> QED
    BY <1>1, <1>2, <1>3, <1>6, <1>7, GoesOnUntouched, OwnStep DEF GoesOn

\* A POST is started only where SkladBot has no request and gets none.
LEMMA StartPostSafe ==
    ASSUME Base, Base', Safe, admin = IdleAdmin, NEW w \in Workers, StartPost(w)
    PROVE  Safe'
  <1>1. PICK u : GoesOn(w, u) /\ u.pc = "posting" /\ u.got = worker[w].got
    BY PostGoesOn
  <1>2. PICK o \in Orders : o = worker[w].order
    BY <1>1, WorkerReads DEF GoesOn
  <1>3. UNCHANGED <<status, link, created, flying, admin>>
    BY DEF StartPost, remoteVars
  <1>4. OrderSafe(o) /\ payload[o] \in PayloadType /\ WorkerSafe(worker[w])
    BY <1>2, <1>1, WorkerKnows DEF Safe, Base, RowTyping, GoesOn
  <1>5. Clean(o)
    BY <1>2, <1>4 DEF StartPost, Fresh, MayPost, OrderSafe, Untried
  <1>6. payload'[o].post = "started" /\ payload'[o].response = payload[o].response
    BY <1>2, <1>4 DEF StartPost, Base, RowTyping, PayloadType
  <1>7. Clean(o)' /\ OrderSafe(o)'
    BY <1>3, <1>4, <1>5, <1>6 DEF OrderSafe, Clean, RequestsOf
  <1>8. u.got = None /\ u.order = o
    BY <1>1, <1>2, <1>4 DEF WorkerSafe, StartPost, Fresh, At, GoesOn
  <1>9. WorkerSafe(u)'
    BY <1>1, <1>6, <1>7, <1>8 DEF WorkerSafe
  <1> QED
    BY <1>1, <1>2, <1>3, <1>7, <1>9, GoesOnUntouched, OwnStep DEF GoesOn

LEMMA AnsweredSafe ==
    ASSUME Base, Base', Safe, admin = IdleAdmin, NEW w \in Workers, Answered(w)
    PROVE  Safe'
  <1>1. PICK u : GoesOn(w, u) /\ u.pc = "detail" /\ u.got = worker[w].got
    BY AnsweredGoesOn
  <1>2. PICK o \in Orders : o = worker[w].order
    BY <1>1, WorkerReads DEF GoesOn
  <1>3. UNCHANGED <<status, link, created, flying, admin>>
    BY DEF Answered, remoteVars
  <1>4. OrderSafe(o) /\ payload[o] \in PayloadType /\ WorkerSafe(worker[w])
    BY <1>2, <1>1, WorkerKnows DEF Safe, Base, RowTyping, GoesOn
  <1>5. worker[w].got # None /\ created[worker[w].got] = o
    BY <1>2, <1>4 DEF Answered, At, WorkerSafe
  <1>6. payload'[o].post = "response_received" /\ payload'[o].response = worker[w].got
    BY <1>2, <1>4 DEF Answered, Base, RowTyping, PayloadType
  <1>7. OrderSafe(o)'
    BY <1>3, <1>4, <1>5, <1>6 DEF OrderSafe, Clean, RequestsOf, Untried
  <1>8. WorkerSafe(u)'
    BY <1>1, <1>2, <1>3, <1>5 DEF WorkerSafe, GoesOn
  <1> QED
    BY <1>1, <1>2, <1>3, <1>7, <1>8, GoesOnUntouched, OwnStep DEF GoesOn

\* Where the bodies of two orders differ, the fingerprint finds the own requests.
LEMMA OwnMatches ==
    ASSUME Base, BodiesDiffer, NEW o \in Orders
    PROVE  Matching(o) = RequestsOf(o)
  BY NoneAssumption DEF Base, LinkTyping, BodiesDiffer, Matching, RequestsOf

LEMMA ListRequestsSafe ==
    ASSUME Base, Base', Safe, BodiesDiffer, SoundDetails, admin = IdleAdmin, NEW w \in Workers, ListRequests(w)
    PROVE  Safe'
  <1>2. PICK o \in Orders : o = worker[w].order
    BY WorkerReads DEF ListRequests, At
  <1>1. PICK u : /\ GoesOn(w, u) /\ u.pc = "listed" /\ u.seen \subseteq Matching(o)
                 /\ u.complete /\ SoundDetails => u.seen = Matching(o)
    BY <1>2, ListGoesOn
  <1>3. UNCHANGED <<status, payload, link, created, flying, admin>> /\ o \notin flying
    BY <1>2 DEF ListRequests, remoteVars
  <1>4. OrderSafe(o)
    BY <1>2 DEF Safe
  <1>5. OrderSafe(o)' /\ RequestsOf(o)' = RequestsOf(o)
    BY <1>3, <1>4 DEF OrderSafe, Clean, RequestsOf
  <1>6. Matching(o) = RequestsOf(o) /\ \A r \in RequestsOf(o) : created[r] = o
    BY OwnMatches DEF RequestsOf
  <1>7. WorkerSafe(u)'
    BY <1>1, <1>2, <1>3, <1>5, <1>6 DEF WorkerSafe, GoesOn
  <1> QED
    BY <1>1, <1>2, <1>3, <1>5, <1>7, GoesOnUntouched, OwnStep DEF GoesOn

LEMMA SendSafe ==
    ASSUME Base, Base', Safe, admin = IdleAdmin, NEW w \in Workers, Send(w)
    PROVE  Safe'
  <1>2. PICK o \in Orders : o = worker[w].order
    BY WorkerReads DEF Send, At
  <1>1. PICK u : /\ GoesOn(w, u)
                 /\ \/ /\ u.pc = "sent" /\ u.got \in Unused
                       /\ created' = [created EXCEPT ![u.got] = o] /\ UNCHANGED flying
                    \/ u.pc = "refused" /\ UNCHANGED remoteVars
                    \/ /\ u.pc = "sent" /\ u.got = worker[w].got
                       /\ flying' = flying \cup {o} /\ UNCHANGED created
    BY <1>2, SendGoesOn
  <1>3. UNCHANGED <<status, payload, link, admin>> /\ worker[w].pc = "posting"
    BY DEF Send, At
  <1>4. OrderSafe(o) /\ WorkerSafe(worker[w])
    BY <1>2, <1>3, WorkerKnows
  <1>5. Clean(o) /\ payload[o].post = "started" /\ worker[w].got = None /\ u.order = o
    BY <1>1, <1>2, <1>3, <1>4 DEF WorkerSafe, GoesOn
  <1>6. CASE u.pc = "sent" /\ u.got \in Unused
             /\ created' = [created EXCEPT ![u.got] = o] /\ UNCHANGED flying
    <2>1. PICK r \in Requests : r = u.got
      BY <1>6 DEF Unused
    <2>2. created[r] = None /\ created'[r] = o /\ \A q \in Requests : q # r => created'[q] = created[q]
      BY <1>6, <2>1 DEF Unused, Base, LinkTyping
    <2>3. \A d \in Orders : d # o => Untouched(d)
      BY <1>3, <1>6, <2>2, NoneAssumption DEF Untouched
    <2>4. RequestsOf(o)' = {r} /\ o \notin flying'
      BY <1>5, <1>6, <2>2 DEF RequestsOf, Clean
    <2>5. link[o] \in Requests \cup {None} /\ payload[o].response \in Requests \cup {None}
      BY DEF Base, RowTyping, LinkTyping, PayloadType
    <2>6. OrderSafe(o)'
      BY <1>3, <1>4, <1>5, <2>2, <2>4, <2>5 DEF OrderSafe, Untried
    <2>7. WorkerSafe(u)'
      BY <1>5, <1>6, <2>1, <2>2 DEF WorkerSafe
    <2> QED
      BY <1>1, <1>2, <1>3, <2>3, <2>6, <2>7, OwnStep DEF GoesOn
  <1>7. CASE u.pc = "refused" /\ UNCHANGED remoteVars
    <2>1. UNCHANGED <<created, flying>>
      BY <1>7 DEF remoteVars
    <2>2. OrderSafe(o)' /\ Clean(o)'
      BY <1>3, <1>4, <1>5, <2>1 DEF OrderSafe, Clean, RequestsOf
    <2>3. WorkerSafe(u)'
      BY <1>5, <1>7, <2>2 DEF WorkerSafe
    <2> QED
      BY <1>1, <1>2, <1>3, <2>1, <2>2, <2>3, GoesOnUntouched, OwnStep DEF GoesOn
  <1>8. CASE u.pc = "sent" /\ u.got = worker[w].got
             /\ flying' = flying \cup {o} /\ UNCHANGED created
    <2>1. \A d \in Orders : d # o => Untouched(d)
      BY <1>3, <1>8 DEF Untouched
    <2>2. RequestsOf(o)' = {}
      BY <1>5, <1>8 DEF Clean, RequestsOf
    <2>3. OrderSafe(o)'
      BY <1>3, <1>4, <1>5, <1>8, <2>2 DEF OrderSafe, Untried
    <2>4. WorkerSafe(u)'
      BY <1>5, <1>8 DEF WorkerSafe
    <2> QED
      BY <1>1, <1>2, <1>3, <2>1, <2>3, <2>4, OwnStep DEF GoesOn
  <1> QED
    BY <1>1, <1>6, <1>7, <1>8

LEMMA WorkerStepSafe ==
    ASSUME Base, Base', Safe, BodiesDiffer, SoundDetails, admin = IdleAdmin, NEW w \in Workers, WorkerStep(w)
    PROVE  Safe'
  BY EndsOrGoesOn, EndsRowSafe, LookUpSafe, StartReadbackSafe, StartPostSafe, AnsweredSafe,
     ListRequestsSafe, SendSafe

\* A step that writes to no order, and starts or ends a worker
LEMMA QuietStep ==
    ASSUME Base, Base', Safe, UNCHANGED <<payload, link, created, flying>>, AdminSafe',
           \A o \in Orders : status'[o] = "completed" => status[o] = "completed",
           \A q \in Workers : \/ worker'[q] = worker[q]
                              \/ worker'[q] = IdleWorker
                              \/ worker'[q].pc = "claimed" /\ worker'[q].got = None
    PROVE  Safe'
  <1>1. ASSUME NEW o \in Orders PROVE OrderSafe(o)'
    <2>1. OrderSafe(o)
      BY DEF Safe
    <2> QED
      BY <2>1 DEF OrderSafe, Clean, RequestsOf
  <1>2. ASSUME NEW q \in Workers PROVE WorkerSafe(worker[q])'
    <2>1. CASE worker'[q] = worker[q]
      <3>1. WorkerSafe(worker[q])
        BY DEF Safe
      <3> QED
        BY <2>1, <3>1 DEF WorkerSafe, Clean, RequestsOf
    <2>2. CASE worker'[q] = IdleWorker
      BY <2>2, Values DEF WorkerSafe
    <2>3. CASE worker'[q].pc = "claimed" /\ worker'[q].got = None
      BY <2>3 DEF WorkerSafe
    <2> QED
      BY <2>1, <2>2, <2>3
  <1> QED
    BY <1>1, <1>2 DEF Safe

LEMMA ClaimSafe ==
    ASSUME Base, Base', Safe, NEW w \in Workers, NEW o \in Orders, Claim(w, o)
    PROVE  Safe'
  <1>1. \A d \in Orders : status'[d] = "completed" => status[d] = "completed"
    BY DEF Claim, Base, RowTyping
  <1>2. \A q \in Workers : \/ worker'[q] = worker[q]
                           \/ worker'[q].pc = "claimed" /\ worker'[q].got = None
    BY DEF Claim, Base, WorkerTyping, IdleWorker
  <1>3. AdminSafe'
    BY DEF Claim, Safe, AdminSafe
  <1> QED
    BY <1>1, <1>2, <1>3, QuietStep DEF Claim, remoteVars

\* SkladBot executes a POST of which it has no request yet.
LEMMA LandSafe ==
    ASSUME Base, Base', Safe, NEW o \in Orders, Land(o)
    PROVE  Safe'
  <1>1. OrderSafe(o) /\ o \in flying /\ flying' = flying \ {o} /\ UNCHANGED <<status, payload, link, worker, admin>>
    BY DEF Safe, Land
  <1>2. RequestsOf(o) = {} /\ (link[o] = None => payload[o].post \notin Untried)
    BY <1>1 DEF OrderSafe, Clean
  <1>3. \/ UNCHANGED created
        \/ \E r \in Requests : /\ created[r] = None /\ created'[r] = o
                               /\ \A q \in Requests : q # r => created'[q] = created[q]
    BY DEF Land, Unused, Base, LinkTyping
  <1>4. \A d \in Orders : d # o => Untouched(d)
    BY <1>1, <1>3, NoneAssumption DEF Untouched
  <1>5. \A r, s \in RequestsOf(o)' : r = s
    BY <1>2, <1>3 DEF RequestsOf
  <1>6. \A r \in Requests : created[r] # None => created'[r] = created[r]
    BY <1>3
  <1>7. link[o] \in Requests \cup {None} /\ payload[o].response \in Requests \cup {None}
    BY DEF Base, RowTyping, LinkTyping, PayloadType
  <1>8. OrderSafe(o)'
    BY <1>1, <1>2, <1>5, <1>6, <1>7, NoneAssumption DEF OrderSafe
  <1>9. ASSUME NEW d \in Orders PROVE OrderSafe(d)'
    BY <1>4, <1>8, OrderUntouched DEF Safe
  <1>10. ASSUME NEW q \in Workers PROVE WorkerSafe(worker[q])'
    <2>1. PICK v : v = worker[q]
      OBVIOUS
    <2>2. v \in WorkerType /\ WorkerSafe(v) /\ worker'[q] = v
      BY <1>1, <2>1 DEF Safe, Base, WorkerTyping
    <2>3. CASE v.pc = "idle"
      BY <2>2, <2>3 DEF WorkerSafe
    <2>4. CASE v.pc # "idle" /\ v.order # o
      <3>1. v.order \in Orders
        BY <2>1, <2>4 DEF Base, Holding
      <3>2. WorkerSafe(v)'
        BY <1>4, <2>2, <2>4, <3>1, WorkerUntouched DEF Untouched
      <3> QED
        BY <2>2, <3>2 DEF WorkerSafe
    <2>5. CASE v.pc # "idle" /\ v.order = o
      <3>1. v.pc \notin {"posting", "refused", "listed"}
        BY <1>1, <2>2, <2>5 DEF WorkerSafe, Clean
      <3>2. v.got \in Requests \cup {None}
        BY <2>2 DEF WorkerType
      <3> QED
        BY <1>6, <2>2, <2>5, <3>1, <3>2, NoneAssumption DEF WorkerSafe
    <2> QED
      BY <2>3, <2>4, <2>5
  <1>11. AdminSafe'
    BY <1>1 DEF Safe, AdminSafe
  <1> QED
    BY <1>9, <1>10, <1>11 DEF Safe

LEMMA OrderStepSafe ==
    ASSUME Base, Base', Safe, NEW o \in Orders, OrderStep(o)
    PROVE  Safe'
  <1>1. CASE Queue(o) \/ StaleReset(o) \/ TimePasses(o)
    <2>1. /\ UNCHANGED <<payload, link, created, flying, worker, admin>>
          /\ \A d \in Orders : status'[d] = "completed" => status[d] = "completed"
      BY <1>1 DEF Queue, StaleReset, TimePasses, Base, RowTyping, remoteVars
    <2> QED
      BY <2>1, QuietStep DEF Safe, AdminSafe
  <1>2. CASE AdminRead(o)
    <2>1. AdminSafe'
      BY <1>2 DEF AdminRead, AdminSafe
    <2> QED
      BY <1>2, <2>1, QuietStep DEF AdminRead, remoteVars
  <1> QED
    BY <1>1, <1>2, ClaimSafe, LandSafe DEF OrderStep

LEMMA SafeStep ==
    ASSUME ~AdminRace, BodiesDiffer, SoundDetails, Base, Base', Safe, [Next]_vars
    PROVE  Safe'
  <1>1. ASSUME NEW w \in Workers, Crash(w) PROVE Safe'
    <2>1. \A q \in Workers : worker'[q] = worker[q] \/ worker'[q] = IdleWorker
      BY <1>1 DEF Crash, Base, WorkerTyping
    <2>2. AdminSafe'
      BY <1>1 DEF Crash, Safe, AdminSafe
    <2> QED
      BY <1>1, <2>1, <2>2, QuietStep DEF Crash, remoteVars
  <1>2. CASE AdminWrite
    <2>1. admin.order \in Orders /\ admin.payload = payload[admin.order]
      BY <1>2 DEF AdminWrite, Safe, AdminSafe, IdleAdmin
    <2>2. UNCHANGED payload
      BY <1>2, <2>1 DEF AdminWrite, Base, RowTyping
    <2>3. AdminSafe'
      BY <1>2 DEF AdminWrite, AdminSafe
    <2> QED
      BY <1>2, <2>2, <2>3, QuietStep DEF AdminWrite, remoteVars
  <1>3. CASE UNCHANGED vars
    BY <1>3, QuietStep DEF vars, Safe, AdminSafe
  <1>4. ASSUME NEW w \in Workers, WorkerStep(w), Undisturbed PROVE Safe'
    BY <1>4, WorkerStepSafe DEF Undisturbed
  <1> QED
    BY <1>1, <1>2, <1>3, <1>4, OrderStepSafe DEF Next

LEMMA SafeInit == Init => Safe
  <1> SUFFICES ASSUME Init PROVE Safe
    OBVIOUS
  <1>1. \A o \in Orders : OrderSafe(o)
    BY NoneAssumption DEF Init, OrderSafe, Clean, RequestsOf, NewPayload
  <1>2. \A w \in Workers : WorkerSafe(worker[w])
    BY Values DEF Init, WorkerSafe
  <1> QED
    BY <1>1, <1>2 DEF Init, Safe, AdminSafe

LEMMA SafeHolds ==
    ASSUME ~AdminRace, BodiesDiffer, SoundDetails
    PROVE  Spec => []Safe
  <1>1. Init => Safe
    BY SafeInit
  <1>2. Base /\ Base' /\ Safe /\ [Next]_vars => Safe'
    BY SafeStep
  <1> QED
    BY <1>1, <1>2, BaseHolds, PTL DEF Spec

\* At most one request per order: where an administrator's retry is not raced and the
\* bodies of the orders differ, no crash, timeout or 429 makes a second one.
THEOREM OneRequest ==
    ASSUME ~AdminRace, BodiesDiffer, SoundDetails
    PROVE  Spec => []AtMostOneRequest
  <1>1. Safe => AtMostOneRequest
    BY DEF Safe, OrderSafe, AtMostOneRequest
  <1> QED
    BY <1>1, SafeHolds, PTL

\* A request the order does not know of has left a trace that forbids another POST.
THEOREM RequestIsTraced ==
    ASSUME ~AdminRace, BodiesDiffer, SoundDetails
    PROVE  Spec => []UnlinkedRequestIsTraced
  <1>1. Safe => UnlinkedRequestIsTraced
    BY DEF Safe, OrderSafe, Clean, UnlinkedRequestIsTraced, Untried
  <1> QED
    BY <1>1, SafeHolds, PTL

\* A completed row has a link, and the link is a request of this order.
THEOREM CompletedHasLink ==
    ASSUME ~AdminRace, BodiesDiffer, SoundDetails
    PROVE  Spec => []CompletedIsLinked
  <1>1. Safe => CompletedIsLinked
    BY DEF Safe, OrderSafe, CompletedIsLinked
  <1> QED
    BY <1>1, SafeHolds, PTL

-----------------------------------------------------------------------------
(* The POST for an order as one call.                                      *)

Noted == {o \in Orders : link[o] # None \/ payload[o].post \notin {"none", "retry_scheduled"}}
Held == [o \in Orders |-> RequestsOf(o)]
Known == {o \in Orders : link[o] # None}

LEMMA Notes ==
    ASSUME NEW o \in Orders
    PROVE  /\ o \in Noted <=> link[o] # None \/ payload[o].post \notin Untried
           /\ o \in Noted' <=> link'[o] # None \/ payload'[o].post \notin Untried
           /\ o \in Known <=> link[o] # None
           /\ o \in Known' <=> link'[o] # None
  BY DEF Noted, Known, Untried

\* How a step may change the row, the link and the requests of an order
SameCall(o) ==
    (o \in Noted' <=> o \in Noted) /\ (o \in Known' <=> o \in Known) /\ RequestsOf(o)' = RequestsOf(o)

SomeCall(o) ==
    \/ o \in Noted' /\ (o \in Known' <=> o \in Known) /\ RequestsOf(o)' = RequestsOf(o)
    \/ /\ o \in Noted /\ o \in Noted' /\ (o \in Known' <=> o \in Known)
       /\ RequestsOf(o) = {} /\ \E r \in Requests : RequestsOf(o)' = {r}
    \/ o \in Noted /\ o \in Noted' /\ o \in Known' /\ RequestsOf(o) # {} /\ RequestsOf(o)' = RequestsOf(o)
    \/ /\ o \in Noted /\ o \notin Noted' /\ (o \in Known' <=> o \in Known)
       /\ RequestsOf(o) = {} /\ RequestsOf(o)' = {}

LEMMA UntouchedCall ==
    ASSUME NEW d \in Orders, Untouched(d)
    PROVE  SameCall(d)
  BY Notes DEF Untouched, SameCall, RequestsOf

\* A step that changes these of one order alone is a step of that call.
LEMMA CallFrame ==
    ASSUME NEW o \in Orders, SameCall(o) \/ SomeCall(o), \A p \in Orders \ {o} : SameCall(p)
    PROVE  [Once!Next]_<<Noted, Held, Known>>
  <1>1. \A p \in Orders \ {o} : Held'[p] = Held[p]
    BY DEF Held, SameCall
  <1>2. Noted \subseteq Orders /\ Noted' \subseteq Orders /\ Known \subseteq Orders /\ Known' \subseteq Orders
    BY DEF Noted, Known
  <1>3. Noted' \in {Noted, Noted \cup {o}, Noted \ {o}} /\ Known' \in {Known, Known \cup {o}, Known \ {o}}
    BY <1>2 DEF SameCall
  <1>4. Held[o] = RequestsOf(o) /\ Held'[o] = RequestsOf(o)'
    BY DEF Held
  <1>5. ASSUME Held'[o] = Held[o] PROVE Held' = Held
    BY <1>1, <1>5 DEF Held
  <1>6. ASSUME o \in Known' <=> o \in Known PROVE Known' = Known
    BY <1>2, <1>6 DEF SameCall
  <1>7. ASSUME o \in Noted' <=> o \in Noted PROVE Noted' = Noted
    BY <1>2, <1>7 DEF SameCall
  <1>8. CASE SameCall(o)
    BY <1>4, <1>5, <1>6, <1>7, <1>8 DEF SameCall
  <1>9. CASE o \in Noted' /\ (o \in Known' <=> o \in Known) /\ RequestsOf(o)' = RequestsOf(o)
    <2>1. CASE o \in Noted
      BY <1>4, <1>5, <1>6, <1>7, <1>9, <2>1
    <2>2. CASE o \notin Noted
      <3>1. Noted' = Noted \cup {o} /\ Held' = Held /\ Known' = Known
        BY <1>3, <1>4, <1>5, <1>6, <1>9, <2>2
      <3>2. Once!Mark(o)
        BY <2>2, <3>1 DEF Once!Mark, Noted, Held, Known
      <3> QED
        BY <3>2 DEF Once!Next
    <2> QED
      BY <2>1, <2>2
  <1>10. CASE /\ o \in Noted /\ o \in Noted' /\ (o \in Known' <=> o \in Known)
              /\ RequestsOf(o) = {} /\ \E r \in Requests : RequestsOf(o)' = {r}
    <2>1. Noted' = Noted /\ Known' = Known /\ Held[o] = {}
      BY <1>4, <1>6, <1>7, <1>10
    <2>2. PICK r \in Requests : Held'[o] = {r}
      BY <1>4, <1>10
    <2>3. Held' = [Held EXCEPT ![o] = {r}]
      BY <1>1, <2>2 DEF Held
    <2>4. Once!TakeEffect(o)
      BY <1>10, <2>1, <2>3 DEF Once!TakeEffect, Noted, Held, Known
    <2> QED
      BY <2>4 DEF Once!Next
  <1>11. CASE /\ o \in Noted /\ o \in Noted' /\ o \in Known'
              /\ RequestsOf(o) # {} /\ RequestsOf(o)' = RequestsOf(o)
    <2>1. Noted' = Noted /\ Held' = Held /\ Held[o] # {} /\ Known' = Known \cup {o}
      BY <1>3, <1>4, <1>5, <1>7, <1>11
    <2>2. Once!Record(o)
      BY <2>1 DEF Once!Record, Noted, Held, Known
    <2> QED
      BY <2>2 DEF Once!Next
  <1>12. CASE /\ o \in Noted /\ o \notin Noted' /\ (o \in Known' <=> o \in Known)
              /\ RequestsOf(o) = {} /\ RequestsOf(o)' = {}
    <2>1. Held' = Held /\ Known' = Known /\ Held[o] = {} /\ Noted' = Noted \ {o}
      BY <1>3, <1>4, <1>5, <1>6, <1>12
    <2>2. Once!Withdraw(o)
      BY <1>12, <2>1 DEF Once!Withdraw, Noted, Held, Known
    <2> QED
      BY <2>2 DEF Once!Next
  <1> QED
    BY <1>8, <1>9, <1>10, <1>11, <1>12 DEF SomeCall

LEMMA CallOfOrder ==
    ASSUME NEW o \in Orders, SameCall(o) \/ SomeCall(o), \A d \in Orders : d # o => Untouched(d)
    PROVE  [Once!Next]_<<Noted, Held, Known>>
  BY UntouchedCall, CallFrame

LEMMA EndsRowCall ==
    ASSUME Base, Base', Safe, NEW w \in Workers, EndsRow(w)
    PROVE  [Once!Next]_<<Noted, Held, Known>>
  <1>1. PICK state, p : Leaves(w, state, p) /\ Finish(w, state, p) /\ Links(w, state)
    BY DEF EndsRow
  <1>2. PICK o \in Orders : o = worker[w].order
    BY WorkerReads DEF EndsRow
  <1>3. /\ worker[w].pc # "idle" /\ UNCHANGED <<created, flying>>
        /\ status' = [status EXCEPT ![o] = state] /\ payload' = [payload EXCEPT ![o] = p]
    BY <1>1, <1>2 DEF EndsRow, Finish, remoteVars
  <1>4. \A d \in Orders : d # o => link'[d] = link[d]
    BY <1>1, <1>2 DEF Links, Base, LinkTyping
  <1>5. \A d \in Orders : d # o => Untouched(d)
    BY <1>3, <1>4 DEF Untouched, Base, RowTyping
  <1>6. OrderSafe(o) /\ WorkerSafe(worker[w])
    BY <1>2, <1>3, WorkerKnows
  <1>7. RequestsOf(o)' = RequestsOf(o) /\ payload'[o] = p
    BY <1>3 DEF RequestsOf, Base, RowTyping
  <1>8. CASE UNCHANGED link
    <2>1. link[o] = None /\ p.post \in Untried => Clean(o)
      <3>1. CASE p.post = payload[o].post
        BY <3>1, <1>6 DEF OrderSafe
      <3>2. CASE At(w, "refused")
        BY <3>2, <1>2, <1>6 DEF WorkerSafe, At
      <3>3. CASE At(w, "listed") /\ ProvedAbsent(w)
        BY <3>3, <1>2, AbsenceIsProved
      <3> QED
        BY <1>1, <1>2, <3>1, <3>2, <3>3 DEF Leaves
    <2>2. SameCall(o) \/ SomeCall(o)
      BY <1>7, <1>8, <2>1, Notes DEF SameCall, SomeCall, Clean
    <2> QED
      BY <1>5, <2>2, CallOfOrder
  <1>9. CASE \E r \in Requests : /\ link' = [link EXCEPT ![o] = r]
                                 /\ \/ At(w, "detail") /\ r = worker[w].got
                                    \/ At(w, "listed") /\ r \in worker[w].seen
    <2>1. PICK r \in Requests : /\ link' = [link EXCEPT ![o] = r]
                                /\ \/ At(w, "detail") /\ r = worker[w].got
                                   \/ At(w, "listed") /\ r \in worker[w].seen
      BY <1>9
    <2>2. link'[o] # None
      BY <2>1, NoneAssumption DEF Base, LinkTyping
    <2>3. created[r] = o
      BY <1>2, <1>6, <2>1, NoneAssumption DEF WorkerSafe, At
    <2>4. RequestsOf(o) # {}
      BY <2>3 DEF RequestsOf
    <2>5. link[o] # None \/ payload[o].post \notin Untried
      BY <1>6, <2>4 DEF OrderSafe, Clean
    <2>6. SomeCall(o)
      BY <1>7, <2>2, <2>4, <2>5, Notes DEF SomeCall
    <2> QED
      BY <1>5, <2>6, CallOfOrder
  <1> QED
    BY <1>1, <1>2, <1>8, <1>9 DEF Links

\* The steps with which a worker goes on leave the link, and never take a POST back.
LEMMA GoesOnCall ==
    ASSUME Base, Safe, NEW w \in Workers,
           LookUp(w) \/ StartReadback(w) \/ StartPost(w) \/ Answered(w) \/ ListRequests(w)
    PROVE  [Once!Next]_<<Noted, Held, Known>>
  <1>1. worker[w].pc # "idle" /\ UNCHANGED <<link, created, flying, status>>
    BY DEF LookUp, StartReadback, StartPost, Answered, ListRequests, remoteVars, Fresh, At
  <1>2. PICK o \in Orders : o = worker[w].order
    BY <1>1, WorkerReads
  <1>3. \A d \in Orders : d # o => Untouched(d)
    BY <1>1, <1>2 DEF LookUp, StartReadback, StartPost, Answered, ListRequests, Untouched, Base, RowTyping
  <1>4. payload'[o].post = payload[o].post \/ payload'[o].post \notin Untried
    <2>1. payload[o] \in PayloadType
      BY DEF Base, RowTyping
    <2>2. CASE LookUp(w) \/ ListRequests(w)
      BY <2>2 DEF LookUp, ListRequests
    <2>3. CASE StartReadback(w)
      BY <1>2, <2>1, <2>3 DEF StartReadback, Base, RowTyping, PayloadType, Untried
    <2>4. CASE StartPost(w)
      BY <1>2, <2>1, <2>4 DEF StartPost, Base, RowTyping, PayloadType, Untried
    <2>5. CASE Answered(w)
      BY <1>2, <2>1, <2>5 DEF Answered, Base, RowTyping, PayloadType, Untried
    <2> QED
      BY <2>2, <2>3, <2>4, <2>5
  <1>5. RequestsOf(o)' = RequestsOf(o)
    BY <1>1 DEF RequestsOf
  <1>6. SameCall(o) \/ SomeCall(o)
    BY <1>1, <1>4, <1>5, Notes DEF SameCall, SomeCall
  <1> QED
    BY <1>3, <1>6, CallOfOrder

LEMMA SendCall ==
    ASSUME Base, Safe, NEW w \in Workers, Send(w)
    PROVE  [Once!Next]_<<Noted, Held, Known>>
  <1>1. PICK o \in Orders : o = worker[w].order
    BY WorkerReads DEF Send, At
  <1>2. worker[w].pc = "posting" /\ UNCHANGED <<status, payload, link>>
    BY DEF Send, At
  <1>3. Clean(o) /\ payload[o].post = "started"
    BY <1>1, <1>2, WorkerKnows DEF WorkerSafe
  <1>4. CASE UNCHANGED created
    <2>1. RequestsOf(o)' = RequestsOf(o) /\ \A d \in Orders : d # o => Untouched(d)
      BY <1>1, <1>2, <1>4 DEF Send, RequestsOf, Untouched, remoteVars
    <2>2. SameCall(o)
      BY <1>2, <2>1, Notes DEF SameCall
    <2> QED
      BY <2>1, <2>2, CallOfOrder
  <1>5. CASE UNCHANGED flying /\ \E r \in Unused : created' = [created EXCEPT ![r] = o]
    <2>1. PICK r \in Unused : created' = [created EXCEPT ![r] = o]
      BY <1>5
    <2>2. r \in Requests /\ created[r] = None /\ created'[r] = o
          /\ \A q \in Requests : q # r => created'[q] = created[q]
      BY <2>1 DEF Unused, Base, LinkTyping
    <2>3. \A d \in Orders : d # o => Untouched(d)
      BY <1>2, <1>5, <2>2, NoneAssumption DEF Untouched
    <2>4. RequestsOf(o) = {} /\ RequestsOf(o)' = {r}
      BY <1>3, <2>2 DEF Clean, RequestsOf
    <2>5. SomeCall(o)
      BY <1>2, <1>3, <2>2, <2>4, Notes DEF SomeCall, Untried
    <2> QED
      BY <2>3, <2>5, CallOfOrder
  <1> QED
    BY <1>1, <1>4, <1>5 DEF Send, remoteVars

LEMMA LandCall ==
    ASSUME Base, Safe, NEW o \in Orders, Land(o)
    PROVE  [Once!Next]_<<Noted, Held, Known>>
  <1>1. OrderSafe(o) /\ o \in flying /\ flying' = flying \ {o} /\ UNCHANGED <<status, payload, link>>
    BY DEF Safe, Land
  <1>2. RequestsOf(o) = {} /\ (link[o] = None => payload[o].post \notin Untried)
    BY <1>1 DEF OrderSafe, Clean
  <1>3. CASE UNCHANGED created
    <2>1. RequestsOf(o)' = RequestsOf(o) /\ \A d \in Orders : d # o => Untouched(d)
      BY <1>1, <1>3 DEF RequestsOf, Untouched
    <2>2. SameCall(o)
      BY <1>1, <2>1, Notes DEF SameCall
    <2> QED
      BY <2>1, <2>2, CallOfOrder
  <1>4. CASE \E r \in Unused : created' = [created EXCEPT ![r] = o]
    <2>1. PICK r \in Unused : created' = [created EXCEPT ![r] = o]
      BY <1>4
    <2>2. r \in Requests /\ created[r] = None /\ created'[r] = o
          /\ \A q \in Requests : q # r => created'[q] = created[q]
      BY <2>1 DEF Unused, Base, LinkTyping
    <2>3. \A d \in Orders : d # o => Untouched(d)
      BY <1>1, <2>2, NoneAssumption DEF Untouched
    <2>4. RequestsOf(o)' = {r}
      BY <1>2, <2>2 DEF RequestsOf
    <2>5. SomeCall(o)
      BY <1>1, <1>2, <2>2, <2>4, Notes DEF SomeCall
    <2> QED
      BY <2>3, <2>5, CallOfOrder
  <1> QED
    BY <1>3, <1>4 DEF Land

LEMMA CallStep ==
    ASSUME Base, Base', Safe, [Next]_vars
    PROVE  [Once!Next]_<<Noted, Held, Known>>
  <1> DEFINE Quiet == UNCHANGED <<payload, link, created>>
  <1>1. Quiet => UNCHANGED <<Noted, Held, Known>>
    BY DEF Noted, Held, Known, RequestsOf
  <1>2. ASSUME NEW w \in Workers, WorkerStep(w) PROVE [Once!Next]_<<Noted, Held, Known>>
    BY <1>2, EndsOrGoesOn, EndsRowCall, GoesOnCall, SendCall
  <1>3. ASSUME NEW w \in Workers, Crash(w) PROVE Quiet
    BY <1>3 DEF Crash, remoteVars
  <1>4. ASSUME NEW o \in Orders, OrderStep(o) PROVE Quiet \/ Land(o)
    BY <1>4 DEF OrderStep, Queue, StaleReset, TimePasses, AdminRead, Claim, remoteVars
  <1>5. ASSUME AdminWrite PROVE Quiet
    <2>1. admin.order \in Orders /\ admin.payload = payload[admin.order]
      BY <1>5 DEF AdminWrite, Safe, AdminSafe, IdleAdmin
    <2> QED
      BY <1>5, <2>1 DEF AdminWrite, Base, RowTyping, remoteVars
  <1>6. ASSUME UNCHANGED vars PROVE Quiet
    BY <1>6 DEF vars
  <1> HIDE DEF Quiet
  <1>7. ASSUME NEW o \in Orders, Land(o) PROVE [Once!Next]_<<Noted, Held, Known>>
    BY <1>7, LandCall
  <1>8. CASE Quiet
    BY <1>1, <1>8
  <1> QED
    BY <1>2, <1>3, <1>4, <1>5, <1>6, <1>7, <1>8 DEF Next

\* The POST for a returned order is one call: a request comes into being only while the
\* row says that a POST may have gone out; a 429, a refusal or a complete list takes
\* that back only where there is no request; and the order is linked only if there is.
THEOREM ReturnCallsOnce ==
    ASSUME ~AdminRace, BodiesDiffer, SoundDetails
    PROVE  Spec => ReturnIsOneCall
  <1>1. Init => Once!Init
    BY NoneAssumption DEF Init, Once!Init, NewPayload, RequestsOf
  <1>2. Base /\ Base' /\ Safe /\ [Next]_vars => [Once!Next]_<<Noted, Held, Known>>
    BY CallStep
  <1>3. Spec => Once!Init /\ [][Once!Next]_<<Noted, Held, Known>>
    BY <1>1, <1>2, BaseHolds, SafeHolds, PTL DEF Spec
  <1> QED
    BY <1>3, PTL DEF ReturnIsOneCall, Once!Spec, Noted, Held, Known
=============================================================================
