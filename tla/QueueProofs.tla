------------------------------ MODULE QueueProofs ------------------------------
(***************************************************************************)
(* Theorems about the queue of the desktop program (DesktopQueue) and, in  *)
(* the last part, about the queue of the browser (OfflineQueue), for every *)
(* value of their constants.                                               *)
(***************************************************************************)
EXTENDS DesktopQueue, OfflineQueue, FiniteSetTheorems, WellFoundedInduction, TLAPS

-----------------------------------------------------------------------------
(* Lists of events.                                                        *)

\* Induction over a list is done by its shortest prefix without a property.
LEMMA LeastOf ==
    ASSUME NEW T \in SUBSET Nat, T # {}
    PROVE  \E x \in T : \A y \in T : x <= y
  <1> DEFINE R == {p \in Nat \X Nat : p[1] < p[2]}
  <1>1. IsWellFoundedOn(R, Nat)
    BY NatLessThanWellFounded DEF OpToRel
  <1>2. PICK x \in T : \A y \in T : <<y, x>> \notin R
    <2> HIDE DEF R
    <2> QED BY <1>1, WFMin
  <1>3. \A y \in T : ~ (y < x)
    <2> SUFFICES ASSUME NEW y \in T, y < x PROVE <<y, x>> \in R
      BY <1>2
    <2>1. <<y, x>> \in Nat \X Nat
      OBVIOUS
    <2> QED BY <2>1
  <1> QED BY <1>3

\* The function "rest" of Without, on the first N events
IsRest(f, q, S, N) ==
    f = [n \in 0..N |->
            IF n = 0 THEN <<>>
            ELSE IF q[n] \in S THEN f[n - 1]
            ELSE Append(f[n - 1], q[n])]

LEMMA RestExists ==
    ASSUME NEW q, NEW S, NEW N \in Nat
    PROVE  \E f : IsRest(f, q, S, N)
  <1> DEFINE T == {n \in Nat : ~ \E f : IsRest(f, q, S, n)}
  <1> SUFFICES ASSUME T # {} PROVE FALSE
    OBVIOUS
  <1>1. PICK n \in T : \A m \in T : n <= m
    BY LeastOf
  <1>2. n \in Nat \ {0}
    <2>1. IsRest([k \in 0..0 |-> <<>>], q, S, 0)
      BY DEF IsRest
    <2> QED BY <2>1
  <1>3. n - 1 \in Nat /\ n - 1 \notin T
    BY <1>1, <1>2
  <1>4. PICK f : IsRest(f, q, S, n - 1)
    BY <1>3
  <1> DEFINE g == [k \in 0..n |-> IF k < n THEN f[k]
                                  ELSE IF q[n] \in S THEN f[n - 1]
                                  ELSE Append(f[n - 1], q[n])]
  <1>5. IsRest(g, q, S, n)
    <2>1. \A k \in 0..n : g[k] = IF k = 0 THEN <<>>
                                 ELSE IF q[k] \in S THEN g[k - 1]
                                 ELSE Append(g[k - 1], q[k])
      <3> SUFFICES ASSUME NEW k \in 0..n
                   PROVE  g[k] = IF k = 0 THEN <<>>
                                 ELSE IF q[k] \in S THEN g[k - 1]
                                 ELSE Append(g[k - 1], q[k])
        OBVIOUS
      <3>1. CASE k = n
        BY <1>2, <3>1
      <3>2. CASE k < n
        <4>1. k \in 0..(n - 1) /\ (k # 0 => k - 1 \in 0..n /\ k - 1 < n)
          BY <1>2, <3>2
        <4>2. f[k] = IF k = 0 THEN <<>>
                     ELSE IF q[k] \in S THEN f[k - 1]
                     ELSE Append(f[k - 1], q[k])
          BY <1>4, <4>1 DEF IsRest
        <4>3. g[k] = f[k] /\ (k # 0 => g[k - 1] = f[k - 1])
          BY <4>1, <3>2
        <4> QED BY <4>2, <4>3
      <3> QED BY <3>1, <3>2, <1>2
    <2>2. g = [k \in 0..n |-> g[k]]
      OBVIOUS
    <2> HIDE DEF g
    <2> QED BY <2>1, <2>2 DEF IsRest
  <1> QED BY <1>5

LEMMA AppendSet ==
    ASSUME NEW X, NEW s \in Seq(X), NEW x \in X
    PROVE  /\ Append(s, x) \in Seq(X)
           /\ ToSet(Append(s, x)) = ToSet(s) \cup {x}
           /\ x \notin ToSet(s) /\ IsInjective(s) => IsInjective(Append(s, x))
  <1>1. /\ DOMAIN s = 1..Len(s) /\ Len(s) \in Nat
        /\ DOMAIN Append(s, x) = 1..(Len(s) + 1)
    OBVIOUS
  <1>2. \A i \in DOMAIN s : Append(s, x)[i] = s[i]
    OBVIOUS
  <1>3. Append(s, x)[Len(s) + 1] = x
    OBVIOUS
  <1>4. \A i \in DOMAIN Append(s, x) : i \in DOMAIN s \/ i = Len(s) + 1
    BY <1>1
  <1>5. x \notin ToSet(s) /\ IsInjective(s) => IsInjective(Append(s, x))
    BY <1>1, <1>2, <1>3, <1>4 DEF ToSet, IsInjective
  <1> QED BY <1>1, <1>2, <1>3, <1>5 DEF ToSet

\* Filtering a list removes what is filtered out, and nothing else.
LEMMA WithoutSet ==
    ASSUME NEW X, NEW q \in Seq(X), NEW S
    PROVE  /\ Without(q, S) \in Seq(X)
           /\ ToSet(Without(q, S)) = ToSet(q) \ S
           /\ IsInjective(q) => IsInjective(Without(q, S))
           /\ Len(Without(q, S)) <= Len(q)
  <1> DEFINE f == CHOOSE f : IsRest(f, q, S, Len(q))
             Others(n) == {q[i] : i \in 1..n} \ S
             Good(n) == /\ f[n] \in Seq(X)
                        /\ ToSet(f[n]) = Others(n)
                        /\ IsInjective(q) => IsInjective(f[n])
                        /\ Len(f[n]) <= n
  <1>1. Len(q) \in Nat /\ DOMAIN q = 1..Len(q) /\ \A i \in 1..Len(q) : q[i] \in X
    OBVIOUS
  <1>2. IsRest(f, q, S, Len(q))
    <2>1. \E g : IsRest(g, q, S, Len(q))
      BY RestExists, <1>1
    <2> QED BY <2>1
  <1>3. Without(q, S) = f[Len(q)]
    BY DEF Without, IsRest
  <1> HIDE DEF f
  <1>4. f[0] = <<>>
    BY <1>1, <1>2 DEF IsRest
  <1>5. ASSUME NEW n \in 1..Len(q)
        PROVE  f[n] = IF q[n] \in S THEN f[n - 1] ELSE Append(f[n - 1], q[n])
    <2>1. n \in 0..Len(q) /\ n # 0
      BY <1>1
    <2> QED BY <1>2, <2>1 DEF IsRest
  <1>6. Good(0)
    BY <1>4 DEF ToSet, IsInjective
  <1>7. ASSUME NEW n \in 1..Len(q), Good(n - 1)
        PROVE  Good(n)
    <2>1. Others(n) = IF q[n] \in S THEN Others(n - 1) ELSE Others(n - 1) \cup {q[n]}
      <3>1. \A i \in 1..n : i \in 1..(n - 1) \/ i = n
        BY <1>1
      <3>2. 1..(n - 1) \subseteq 1..n /\ n \in 1..n
        BY <1>1
      <3> QED BY <3>1, <3>2
    <2>2. CASE q[n] \in S
      BY <1>5, <1>7, <2>1, <2>2
    <2>3. CASE q[n] \notin S
      <3>1. f[n] = Append(f[n - 1], q[n])
        BY <1>5, <2>3
      <3>2. IsInjective(q) => q[n] \notin Others(n - 1)
        BY <1>1 DEF IsInjective
      <3>3. /\ f[n - 1] \in Seq(X) /\ q[n] \in X
            /\ ToSet(f[n - 1]) = Others(n - 1)
            /\ IsInjective(q) => IsInjective(f[n - 1])
            /\ Len(f[n - 1]) <= n - 1
        BY <1>1, <1>7
      <3> HIDE DEF Others
      <3>4. /\ f[n] \in Seq(X) /\ ToSet(f[n]) = Others(n - 1) \cup {q[n]}
            /\ IsInjective(q) => IsInjective(f[n])
        BY <3>1, <3>2, <3>3, AppendSet
      <3>5. Len(f[n]) <= n
        BY <3>1, <3>3, <1>1
      <3> QED BY <2>1, <2>3, <3>4, <3>5
    <2> QED BY <2>2, <2>3
  <1> HIDE DEF Good
  <1>8. \A n \in 0..Len(q) : Good(n)
    <2> DEFINE T == {n \in 0..Len(q) : ~Good(n)}
    <2> SUFFICES ASSUME T # {} PROVE FALSE
      OBVIOUS
    <2>0. T \in SUBSET Nat
      BY <1>1
    <2>1. PICK n \in T : \A m \in T : n <= m
      <3> HIDE DEF T
      <3> QED BY <2>0, LeastOf
    <2>2. n \in 1..Len(q) /\ n - 1 \in 0..Len(q) /\ ~Good(n)
      BY <1>1, <1>6, <2>1
    <2>3. Good(n - 1)
      BY <2>1, <2>2
    <2> QED BY <1>7, <2>2, <2>3
  <1>9. Good(Len(q)) /\ Others(Len(q)) = ToSet(q) \ S
    BY <1>1, <1>8 DEF ToSet
  <1> QED BY <1>3, <1>9 DEF Good

LEMMA ConcatSet ==
    ASSUME NEW X, NEW s \in Seq(X), NEW t \in Seq(X)
    PROVE  /\ s \o t \in Seq(X)
           /\ ToSet(s \o t) = ToSet(s) \cup ToSet(t)
           /\ IsInjective(s) /\ IsInjective(t) /\ ToSet(s) \cap ToSet(t) = {}
                 => IsInjective(s \o t)
  <1>1. /\ DOMAIN s = 1..Len(s) /\ Len(s) \in Nat
        /\ DOMAIN t = 1..Len(t) /\ Len(t) \in Nat
        /\ DOMAIN (s \o t) = 1..(Len(s) + Len(t))
    OBVIOUS
  <1>2. \A i \in DOMAIN s : i \in DOMAIN (s \o t) /\ (s \o t)[i] = s[i]
    BY <1>1
  <1>3. \A i \in DOMAIN t : Len(s) + i \in DOMAIN (s \o t) /\ (s \o t)[Len(s) + i] = t[i]
    BY <1>1
  <1>4. \A i \in DOMAIN (s \o t) :
           i \in DOMAIN s \/ (i - Len(s) \in DOMAIN t /\ i = Len(s) + (i - Len(s)))
    BY <1>1
  <1>5. \A i \in DOMAIN (s \o t) :
           \/ i \in DOMAIN s /\ (s \o t)[i] = s[i]
           \/ i - Len(s) \in DOMAIN t /\ (s \o t)[i] = t[i - Len(s)]
    BY <1>2, <1>3, <1>4
  <1>6. ToSet(s \o t) \subseteq ToSet(s) \cup ToSet(t)
    BY <1>5 DEF ToSet
  <1>7. ToSet(s) \cup ToSet(t) \subseteq ToSet(s \o t)
    BY <1>2, <1>3 DEF ToSet
  <1>8. ASSUME IsInjective(s), IsInjective(t), ToSet(s) \cap ToSet(t) = {},
               NEW i \in DOMAIN (s \o t), NEW j \in DOMAIN (s \o t), (s \o t)[i] = (s \o t)[j]
        PROVE  i = j
    <2>1. CASE i \in DOMAIN s /\ j \in DOMAIN s
      BY <1>2, <1>8, <2>1 DEF IsInjective
    <2>2. CASE i \notin DOMAIN s /\ j \notin DOMAIN s
      <3>1. t[i - Len(s)] = t[j - Len(s)] /\ i - Len(s) \in DOMAIN t /\ j - Len(s) \in DOMAIN t
        BY <1>5, <1>8, <2>2
      <3>2. i - Len(s) = j - Len(s)
        BY <1>8, <3>1 DEF IsInjective
      <3> QED BY <1>1, <3>2
    <2>3. CASE i \in DOMAIN s <=> j \notin DOMAIN s
      <3>1. (s \o t)[i] \in ToSet(s) /\ (s \o t)[i] \in ToSet(t)
        BY <1>2, <1>5, <1>8, <2>3 DEF ToSet
      <3> QED BY <1>8, <3>1
    <2> QED BY <2>1, <2>2, <2>3
  <1>9. IsInjective(s) /\ IsInjective(t) /\ ToSet(s) \cap ToSet(t) = {} => IsInjective(s \o t)
    BY <1>8 DEF IsInjective
  <1> QED BY <1>6, <1>7, <1>9

LEMMA SetToSeqSet ==
    ASSUME NEW X, NEW S \in SUBSET X, IsFiniteSet(S)
    PROVE  /\ SetToSeq(S) \in Seq(X)
           /\ ToSet(SetToSeq(S)) = S
           /\ IsInjective(SetToSeq(S))
  <1> DEFINE D == 1..Cardinality(S)
             f == SetToSeq(S)
  <1>1. Cardinality(S) \in Nat /\ ExistsBijection(D, S)
    BY FS_CardinalityType
  <1>2. \E g \in [D -> S] : IsInjective(g)
    BY <1>1 DEF ExistsBijection, Bijection, Injection, IsInjective
  <1>3. f \in [D -> S] /\ IsInjective(f)
    BY <1>2 DEF SetToSeq
  <1> HIDE DEF f
  <1>4. f \in Injection(D, S)
    BY <1>3 DEF Injection, IsInjective
  <1>5. IsFiniteSet(D) /\ Cardinality(D) = Cardinality(S)
    BY <1>1, FS_Interval
  <1>6. f \in Surjection(D, S)
    BY <1>4, <1>5, FS_Injection
  <1>7. ToSet(f) = S
    BY <1>3, <1>6 DEF Surjection, ToSet
  <1>8. f \in Seq(X)
    BY <1>1, <1>3
  <1> QED BY <1>3, <1>7, <1>8 DEF f

LEMMA HeadTailSet ==
    ASSUME NEW X, NEW s \in Seq(X), s # <<>>
    PROVE  /\ Head(s) \in X /\ Tail(s) \in Seq(X)
           /\ ToSet(s) = {Head(s)} \cup ToSet(Tail(s))
  <1>1. /\ DOMAIN s = 1..Len(s) /\ Len(s) \in Nat \ {0}
        /\ DOMAIN Tail(s) = 1..(Len(s) - 1)
    OBVIOUS
  <1>2. \A i \in DOMAIN Tail(s) : Tail(s)[i] = s[i + 1]
    OBVIOUS
  <1>3. Head(s) = s[1]
    OBVIOUS
  <1>4. \A i \in DOMAIN s : i = 1 \/ (i - 1 \in DOMAIN Tail(s) /\ i = (i - 1) + 1)
    BY <1>1
  <1> QED BY <1>1, <1>2, <1>3, <1>4 DEF ToSet

-----------------------------------------------------------------------------
(* The desktop program.  Each invariant is its property, and what is known *)
(* of the codes that are on their way: in the pass, whose answers it has   *)
(* not acted on yet, and in the save of a position.                        *)

Wanted == accepted \ again

\* Until its last step a pass need not be relied on: the queue still has its events.
\* What it will drop from the queue the backend has, or it reports.
WantedIsKept ==
    /\ Wanted \subseteq server \cup Queued \cup refused
                           \cup (IF pass.pc = "recording" THEN pass.blocked ELSE {})
    /\ pass.pc \in {"next", "answered"} =>
           Wanted \cap (pass.processed \ pass.kept) \subseteq server \cup pass.blocked
    /\ pass.pc = "answered" /\ pass.answer = "ok" /\ Head(pass.todo) \in Wanted
           => Head(pass.todo) \in server

\* A code that was taken back is not on the screen, nor among those being saved.
TakenBackIsOff ==
    /\ takenBack \cap Queued = {}
    /\ takenBack \cap OnScreen = {}
    /\ takenBack \cap (save.codes \cup save.unsaved) = {}
    /\ save.pc = "idle" => save.codes \cup save.unsaved = {}

\* As long as no code was asked back, all that the program remembers to be on the
\* backend is there.
KnownIsOnServer ==
    ~undoTried =>
        /\ existing \cup delivered \cup remote.codes \subseteq server
        /\ pass.pc = "answered" /\ pass.answer = "ok" /\ Head(pass.todo) \in Codes
              => Head(pass.todo) \in server
        /\ save.codes \ save.unsaved \subseteq server
        /\ position = "saved" => saved \subseteq server

USE DEF backend, durable, screen, history, Turn

LEMMA AppendedSet ==
    ASSUME NEW q \in Seq(Events), IsInjective(q), NEW e \in Events
    PROVE  /\ Appended(q, e) \in Seq(Events) /\ IsInjective(Appended(q, e))
           /\ ToSet(Appended(q, e)) = ToSet(q) \cup {e}
  <1>1. CASE e \in ToSet(q)
    BY <1>1 DEF Appended
  <1>2. CASE e \notin ToSet(q)
    BY <1>2, AppendSet DEF Appended
  <1> QED BY <1>1, <1>2

LEMMA AppendAllSet ==
    ASSUME NEW q \in Seq(Events), IsInjective(q), NEW S \in SUBSET Codes
    PROVE  /\ AppendAll(q, S) \in Seq(Events) /\ IsInjective(AppendAll(q, S))
           /\ ToSet(AppendAll(q, S)) = ToSet(q) \cup S
  <1>1. IsFiniteSet(S \ ToSet(q))
    BY CodesAssumption, FS_Subset
  <1>2. S \ ToSet(q) \in SUBSET Events
    BY DEF Events
  <1> DEFINE t == SetToSeq(S \ ToSet(q))
  <1>3. t \in Seq(Events) /\ ToSet(t) = S \ ToSet(q) /\ IsInjective(t)
    BY <1>1, <1>2, SetToSeqSet
  <1> HIDE DEF t
  <1>4. /\ q \o t \in Seq(Events) /\ IsInjective(q \o t)
        /\ ToSet(q \o t) = ToSet(q) \cup ToSet(t)
    BY <1>3, ConcatSet
  <1> QED BY <1>3, <1>4 DEF AppendAll, t

LEMMA WithoutEvents ==
    ASSUME NEW q \in Seq(Events), IsInjective(q), NEW S
    PROVE  /\ Without(q, S) \in Seq(Events) /\ IsInjective(Without(q, S))
           /\ ToSet(Without(q, S)) = ToSet(q) \ S
  BY WithoutSet

\* What each step does to the queue
LEMMA QueueSteps ==
    ASSUME TypeOK
    PROVE  /\ \A c \in Codes : Scan(c) => Queued' = Queued \cup {c}
           /\ \A c \in Codes : TakeOff(c) => Queued' = Queued \ {c}
           /\ SaveQueue => Queued' = Queued \cup Undelivered(save)
           /\ Reconcile => Queued' = Queued \ (pass.processed \ pass.kept)
           /\ FinishBlocked \/ FinishQueue =>
                 Queued \subseteq Queued' /\ Queued' \subseteq Queued \cup {Done}
           /\ FinishCall => Queued \ {Done} \subseteq Queued' /\ Queued' \subseteq Queued
           /\ UNCHANGED queue => Queued' = Queued
           /\ \/ \E c \in Codes : Scan(c) \/ TakeOff(c)
              \/ SaveQueue \/ Reconcile \/ FinishBlocked \/ FinishQueue \/ FinishCall
              \/ UNCHANGED queue
              => queue' \in Seq(Events) /\ IsInjective(queue')
  <1>0. queue \in Seq(Events) /\ IsInjective(queue)
    BY DEF TypeOK
  <1>1. ASSUME NEW c \in Codes, Scan(c)
        PROVE  Queued' = Queued \cup {c} /\ queue' \in Seq(Events) /\ IsInjective(queue')
    BY <1>0, <1>1, AppendedSet DEF Scan, Queued, Events
  <1>2. ASSUME NEW c \in Codes, TakeOff(c)
        PROVE  Queued' = Queued \ {c} /\ queue' \in Seq(Events) /\ IsInjective(queue')
    BY <1>0, <1>2, WithoutEvents DEF TakeOff, Queued
  <1>3. ASSUME SaveQueue
        PROVE  /\ Queued' = Queued \cup Undelivered(save)
               /\ queue' \in Seq(Events) /\ IsInjective(queue')
    <2>1. Undelivered(save) \in SUBSET Codes
      BY DEF TypeOK, SaveType, Undelivered
    <2> QED BY <1>0, <1>3, <2>1, AppendAllSet DEF SaveQueue, Queued
  <1>4. ASSUME Reconcile
        PROVE  /\ Queued' = Queued \ (pass.processed \ pass.kept)
               /\ queue' \in Seq(Events) /\ IsInjective(queue')
    BY <1>0, <1>4, WithoutEvents DEF Reconcile, Reconciled, Queued
  <1>5. ASSUME FinishBlocked \/ FinishQueue
        PROVE  /\ Queued \subseteq Queued' /\ Queued' \subseteq Queued \cup {Done}
               /\ queue' \in Seq(Events) /\ IsInjective(queue')
    <2>1. queue' = queue \/ queue' = Appended(queue, Done)
      BY <1>5 DEF FinishBlocked, FinishQueue
    <2> QED BY <1>0, <2>1, AppendedSet DEF Queued, Events
  <1>6. ASSUME FinishCall
        PROVE  /\ Queued \ {Done} \subseteq Queued' /\ Queued' \subseteq Queued
               /\ queue' \in Seq(Events) /\ IsInjective(queue')
    <2>1. queue' = queue \/ queue' = Without(queue, {Done})
      BY <1>6 DEF FinishCall
    <2> QED BY <1>0, <2>1, WithoutEvents DEF Queued
  <1>7. ASSUME UNCHANGED queue
        PROVE  Queued' = Queued /\ queue' \in Seq(Events) /\ IsInjective(queue')
    BY <1>0, <1>7 DEF Queued
  <1> QED BY <1>1, <1>2, <1>3, <1>4, <1>5, <1>6, <1>7

LEMMA MoreTurns == ASSUME TypeOK, Turn PROVE turns' \in 0..MaxTurns
  BY TurnsAssumption DEF TypeOK

LEMMA StartedPass ==
    ASSUME NEW by \in {"timer", "refresh", "save", "finish"}, NEW todo \in Seq(Events),
           TypeOK, StartPass(by, todo)
    PROVE  /\ pass' \in PassType /\ pass'.pc = "next"
           /\ pass'.processed = {} /\ pass'.kept = {} /\ pass'.blocked = {}
           /\ pass'.todo = todo
  <1> DEFINE failed == serverError \cap ToSet(todo)
  <1>1. failed \subseteq Events
    BY DEF TypeOK, Queued, ToSet
  <1> HIDE DEF failed
  <1>2. pass' = [IdlePass EXCEPT !.pc = "next", !.by = by, !.todo = todo, !.failed = failed]
    BY DEF StartPass, failed
  <1> QED BY <1>1, <1>2 DEF PassType, IdlePass

\* The event at the head of a pass that got its answer
LEMMA Answered ==
    ASSUME TypeOK, Answer
    PROVE  LET e == Head(pass.todo)
               rest == ToSet(Tail(pass.todo))
           IN /\ pass.todo # <<>> /\ e \in Events /\ rest \subseteq Events
              /\ Tail(pass.todo) \in Seq(Events) /\ ToSet(pass.todo) = {e} \cup rest
              /\ pass' \in PassType /\ pass'.pc = "next"
              /\ delivered' \subseteq Codes
              /\ pass'.kept \cup pass'.blocked \subseteq pass'.processed
              /\ pass'.processed \ pass'.kept \subseteq
                    (pass.processed \ pass.kept)
                        \cup (IF pass.answer \in {"ok", "refused"} THEN {e} ELSE {})
              /\ pass.blocked \cup (IF pass.answer = "refused" THEN {e} ELSE {})
                    \subseteq pass'.blocked
              /\ delivered' \subseteq
                    delivered \cup (IF pass.answer = "ok" THEN {e} ELSE {})
  <1> DEFINE e == Head(pass.todo)
             rest == ToSet(Tail(pass.todo))
             p == Handled(e, pass)
  <1>0. pass.pc = "answered" /\ pass.todo \in Seq(Events) /\ pass.todo # <<>>
    BY DEF Answer, TypeOK, PassType
  <1>1. e \in Events /\ Tail(pass.todo) \in Seq(Events) /\ ToSet(pass.todo) = {e} \cup rest
    BY <1>0, HeadTailSet
  <1>2. rest \subseteq Events
    <2>1. ToSet(pass.todo) \subseteq Events
      BY <1>0 DEF ToSet
    <2> QED BY <1>1, <2>1
  <1>3. /\ pass \in PassType /\ pass.kept \cup pass.blocked \subseteq pass.processed
        /\ delivered \subseteq Codes
    BY DEF TypeOK
  <1>4. /\ p.todo = Tail(pass.todo)
        /\ p = [pass EXCEPT !.pc = "next", !.todo = Tail(pass.todo),
                            !.processed = pass.processed \cup {e}]
    BY <1>3 DEF Handled, PassType
  <1>5. Untried(pass) = rest /\ ToSet(p.todo) = rest
    BY <1>4 DEF Untried
  <1> HIDE DEF e, rest, p
  <1>6. p \in PassType /\ p.pc = "next" /\ p.kept = pass.kept /\ p.blocked = pass.blocked
        /\ p.processed = pass.processed \cup {e} /\ p.failed = pass.failed
        /\ p.processed \cup p.kept \cup p.failed \subseteq Events
    BY <1>1, <1>3, <1>4 DEF PassType
  <1> DEFINE Goal ==
               /\ pass' \in PassType /\ pass'.pc = "next" /\ delivered' \subseteq Codes
               /\ pass'.kept \cup pass'.blocked \subseteq pass'.processed
               /\ pass'.processed \ pass'.kept \subseteq
                     (pass.processed \ pass.kept)
                         \cup (IF pass.answer \in {"ok", "refused"} THEN {e} ELSE {})
               /\ pass.blocked \cup (IF pass.answer = "refused" THEN {e} ELSE {})
                     \subseteq pass'.blocked
               /\ delivered' \subseteq delivered \cup (IF pass.answer = "ok" THEN {e} ELSE {})
  <1>7. Goal
    <2>0. pass.answer \in {"ok", "refused", "server", "network"}
      BY <1>3 DEF PassType
    <2>1. CASE pass.answer = "ok"
      <3>1. pass' = p /\ delivered' = delivered \cup ({e} \cap Codes)
        BY <2>1 DEF Answer, e, p
      <3> QED BY <2>1, <1>3, <1>6, <3>1
    <2>2. CASE pass.answer = "refused"
      <3>1. pass' = [p EXCEPT !.blocked = p.blocked \cup {e}] /\ delivered' = delivered \ {e}
        BY <2>2, <1>6 DEF Answer, e, p, PassType
      <3> QED BY <2>2, <1>1, <1>3, <1>6, <3>1 DEF PassType
    <2>3. CASE pass.answer = "server"
      <3>1. /\ pass' = [p EXCEPT !.kept = p.kept \cup {e}, !.failed = p.failed \cup {e}]
            /\ delivered' = delivered \ {e}
        BY <2>3, <1>6 DEF Answer, e, p, PassType
      <3> QED BY <2>3, <1>1, <1>3, <1>6, <3>1 DEF PassType
    <2>4. CASE pass.answer = "network"
      <3> DEFINE done == p.processed \cup rest
                 stays == p.kept \cup {e} \cup rest
                 fails == p.failed \ {e}
      <3>1. /\ pass' = [p EXCEPT !.todo = <<>>, !.processed = done, !.kept = stays,
                                 !.failed = fails]
            /\ delivered' = delivered \ {e}
        BY <2>4, <1>5, <1>6 DEF Answer, e, p, PassType
      <3>2. done \in SUBSET Events /\ stays \in SUBSET Events /\ fails \in SUBSET Events
        BY <1>1, <1>2, <1>6
      <3>3. done \ stays \subseteq pass.processed \ pass.kept /\ p.blocked \cup stays \subseteq done
        BY <1>3, <1>6
      <3> HIDE DEF done, stays, fails
      <3>4. <<>> \in Seq(Events)
        OBVIOUS
      <3>5. /\ pass'.pc = "next" /\ pass'.kept = stays /\ pass'.processed = done
            /\ pass'.blocked = p.blocked
        BY <1>6, <3>1 DEF PassType
      <3>6. pass' \in PassType
        BY <1>6, <3>1, <3>2, <3>4 DEF PassType
      <3> QED BY <2>4, <1>3, <1>6, <3>1, <3>3, <3>5, <3>6
    <2> QED BY <2>0, <2>1, <2>2, <2>3, <2>4
  <1> QED BY <1>0, <1>1, <1>2, <1>7 DEF e, rest

\* Every step is one of the named ones, or changes nothing.
LEMMA TypeStep == TypeOK /\ [Next]_vars => TypeOK'
  <1> SUFFICES ASSUME TypeOK, [Next]_vars PROVE TypeOK'
    OBVIOUS
  <1>Q. /\ queue \in Seq(Events) /\ IsInjective(queue)
    BY DEF TypeOK
  <1>1. ASSUME NEW c \in Codes, Scan(c) PROVE TypeOK'
    <2>1. Queued' = Queued \cup {c} /\ queue' \in Seq(Events) /\ IsInjective(queue')
      BY <1>1, QueueSteps
    <2> QED BY <1>1, <2>1 DEF TypeOK, Scan, OnScreen
  <1>2. ASSUME NEW c \in Codes, UndoLocally(c) \/ UndoOnServer(c) PROVE TypeOK'
    <2>1. Queued' = Queued \ {c} /\ queue' \in Seq(Events) /\ IsInjective(queue')
      BY <1>2, QueueSteps DEF UndoLocally, UndoOnServer
    <2>2. turns' \in 0..MaxTurns
      BY <1>2, MoreTurns DEF UndoLocally, UndoOnServer, UndoTried
    <2>3. CASE UndoLocally(c)
      BY <2>1, <2>2, <2>3 DEF TypeOK, UndoLocally, UndoTried, TakeOff, OnScreen
    <2>4. CASE UndoOnServer(c)
      BY <2>1, <2>2, <2>4 DEF TypeOK, UndoOnServer, UndoTried, TakeOff, OnScreen
    <2> QED BY <1>2, <2>3, <2>4
  <1>3. ASSUME NEW c \in Codes, UndoFails(c) PROVE TypeOK'
    <2>1. Queued' = Queued
      BY <1>3, QueueSteps DEF UndoFails
    <2>2. turns' \in 0..MaxTurns
      BY <1>3, MoreTurns DEF UndoFails, UndoTried
    <2> QED BY <1>3, <2>1, <2>2 DEF TypeOK, UndoFails, UndoTried
  <1>4. ASSUME StartSave \/ StartFinish PROVE TypeOK'
    <2>1. Queued' = Queued
      BY <1>4, QueueSteps DEF StartSave, StartFinish
    <2>2. CASE StartSave
      <3>1. save' \in SaveType
        BY <2>2 DEF TypeOK, StartSave, SaveType, IdleSave, OnScreen
      <3> QED BY <2>1, <2>2, <3>1 DEF TypeOK, StartSave
    <2>3. CASE StartFinish
      <3>1. finish' \in FinishType
        BY <2>3 DEF TypeOK, StartFinish, FinishType, IdleFinish
      <3> QED BY <2>1, <2>3, <3>1 DEF TypeOK, StartFinish
    <2> QED BY <1>4, <2>2, <2>3
  <1>5. ASSUME TakeNotice \/ RefreshFetch \/ RefreshApply PROVE TypeOK'
    <2>1. Queued' = Queued
      BY <1>5, QueueSteps DEF TakeNotice, RefreshFetch, RefreshApply
    <2>2. CASE TakeNotice
      BY <2>1, <2>2 DEF TypeOK, TakeNotice
    <2>3. CASE RefreshFetch
      <3>1. turns' \in 0..MaxTurns
        BY <2>3, MoreTurns DEF RefreshFetch
      <3> QED BY <2>1, <2>3, <3>1 DEF TypeOK, RefreshFetch
    <2>4. CASE RefreshApply
      BY <2>1, <2>4 DEF TypeOK, RefreshApply, NoRemote
    <2> QED BY <1>5, <2>2, <2>3, <2>4
  <1>6. ASSUME Send PROVE TypeOK'
    <2>1. Queued' = Queued
      BY <1>6, QueueSteps DEF Send
    <2>2. /\ server' \subseteq Codes /\ elsewhere' = elsewhere /\ closed' \in BOOLEAN
          /\ pass' \in PassType /\ pass'.kept = pass.kept /\ pass'.blocked = pass.blocked
          /\ pass'.processed = pass.processed /\ pass'.todo # <<>>
      BY <1>6 DEF TypeOK, Send, Call, Execute, PassType
    <2> QED BY <1>6, <2>1, <2>2 DEF TypeOK, Send
  <1>7. ASSUME Answer PROVE TypeOK'
    <2>1. Queued' = Queued
      BY <1>7, QueueSteps DEF Answer
    <2>2. /\ pass' \in PassType /\ pass'.kept \cup pass'.blocked \subseteq pass'.processed
          /\ delivered' \subseteq Codes /\ pass'.pc = "next"
      BY <1>7, Answered
    <2> QED BY <1>7, <2>1, <2>2 DEF TypeOK, Answer
  <1>8. ASSUME Reconcile PROVE TypeOK'
    <2>1. /\ Queued' = Queued \ (pass.processed \ pass.kept)
          /\ queue' \in Seq(Events) /\ IsInjective(queue')
      BY <1>8, QueueSteps
    <2>2. serverError' \subseteq Queued'
      BY <1>8 DEF Reconcile, Queued
    <2> QED BY <1>8, <2>1, <2>2 DEF TypeOK, Reconcile, PassType
  <1>9. ASSUME Record PROVE TypeOK'
    <2>1. Queued' = Queued
      BY <1>9, QueueSteps DEF Record
    <2>2. /\ IdlePass \in PassType /\ IdlePass.pc = "idle"
          /\ IdlePass.kept \cup IdlePass.blocked \subseteq IdlePass.processed
      BY DEF IdlePass, PassType
    <2>3. /\ refused' \subseteq Events /\ notice' \subseteq Codes
          /\ save' \in SaveType /\ finish' \in FinishType
      BY <1>9 DEF TypeOK, Record, PassType, SaveType, FinishType
    <2> QED BY <1>9, <2>1, <2>2, <2>3 DEF TypeOK, Record
  <1>10. ASSUME SaveQueue PROVE TypeOK'
    <2>1. /\ Queued' = Queued \cup Undelivered(save)
          /\ queue' \in Seq(Events) /\ IsInjective(queue')
      BY <1>10, QueueSteps
    <2> QED BY <1>10, <2>1 DEF TypeOK, SaveQueue, SaveType
  <1>11. ASSUME StartSavePass PROVE TypeOK'
    <2>1. Queued' = Queued
      BY <1>11, QueueSteps DEF StartSavePass, StartPass
    <2>2. Without(queue, {Done}) \in Seq(Events)
      BY <1>Q, WithoutEvents
    <2>3. /\ pass' \in PassType /\ pass'.kept \cup pass'.blocked \subseteq pass'.processed
          /\ pass'.pc = "next"
      BY <1>11, <2>2, StartedPass DEF StartSavePass
    <2>4. save' \in SaveType
      BY <1>11 DEF TypeOK, StartSavePass, SaveType
    <2> QED BY <1>11, <2>1, <2>3, <2>4 DEF TypeOK, StartSavePass, StartPass
  <1>12. ASSUME StartFinishPass \/ \E by \in Background : StartBackground(by) PROVE TypeOK'
    <2>1. Queued' = Queued
      BY <1>12, QueueSteps DEF StartFinishPass, StartBackground, StartPass
    <2>2. /\ pass' \in PassType /\ pass'.kept \cup pass'.blocked \subseteq pass'.processed
          /\ pass'.pc = "next"
      BY <1>Q, <1>12, StartedPass DEF StartFinishPass, StartBackground, Background
    <2>3. save' = save /\ finish' \in FinishType
      BY <1>12 DEF TypeOK, StartFinishPass, StartBackground, FinishType
    <2> QED BY <1>12, <2>1, <2>2, <2>3 DEF TypeOK, StartFinishPass, StartBackground, StartPass
  <1>13. ASSUME SaveDone \/ SaveAgain \/ SaveFails PROVE TypeOK'
    <2>1. Queued' = Queued
      BY <1>13, QueueSteps DEF SaveDone, SaveAgain, SaveFails
    <2>2. save' \in SaveType /\ save.codes \subseteq Codes
      <3>1. save \in SaveType /\ IdleSave \in SaveType
        BY DEF TypeOK, SaveType, IdleSave
      <3>2. save' = IdleSave \/ save' = [save EXCEPT !.pc = "queueing", !.round = 2]
        BY <1>13 DEF SaveDone, SaveAgain, SaveFails
      <3> QED BY <3>1, <3>2 DEF SaveType
    <2>3. CASE SaveDone
      BY <2>1, <2>2, <2>3 DEF TypeOK, SaveDone
    <2>4. CASE SaveAgain
      BY <2>1, <2>2, <2>4 DEF TypeOK, SaveAgain
    <2>5. CASE SaveFails
      BY <2>1, <2>2, <2>5 DEF TypeOK, SaveFails
    <2> QED BY <1>13, <2>3, <2>4, <2>5
  <1>14. ASSUME FinishBlocked \/ FinishQueue PROVE TypeOK'
    <2>1. /\ Queued \subseteq Queued' /\ queue' \in Seq(Events) /\ IsInjective(queue')
      BY <1>14, QueueSteps
    <2> QED BY <1>14, <2>1
            DEF TypeOK, FinishBlocked, FinishQueue, FinishType, IdleFinish
  <1>15. ASSUME FinishCall PROVE TypeOK'
    <2>1. /\ Queued \ {Done} \subseteq Queued' /\ queue' \in Seq(Events) /\ IsInjective(queue')
      BY <1>15, QueueSteps
    <2>2. /\ server' \subseteq Codes /\ elsewhere' = elsewhere /\ closed' \in BOOLEAN
      BY <1>15 DEF TypeOK, FinishCall, Call, Execute
    <2>3. serverError' \subseteq Queued' /\ position' \in {"open", "saved", "off"}
      BY <1>15, <2>1, QueueSteps DEF TypeOK, FinishCall
    <2> QED BY <1>15, <2>1, <2>2, <2>3 DEF TypeOK, FinishCall, FinishType, IdleFinish
  <1>16. ASSUME NEW c \in Codes, Elsewhere(c) PROVE TypeOK'
    <2>1. Queued' = Queued
      BY <1>16, QueueSteps DEF Elsewhere
    <2>2. turns' \in 0..MaxTurns
      BY <1>16, MoreTurns DEF Elsewhere
    <2> QED BY <1>16, <2>1, <2>2 DEF TypeOK, Elsewhere
  <1>17. ASSUME Restart PROVE TypeOK'
    <2>1. Queued' = Queued
      BY <1>17, QueueSteps DEF Restart
    <2>2. /\ IdlePass \in PassType /\ IdlePass.pc = "idle"
          /\ IdlePass.kept \cup IdlePass.blocked \subseteq IdlePass.processed
      BY DEF IdlePass, PassType
    <2>3. turns' \in 0..MaxTurns
      BY <1>17, MoreTurns DEF Restart
    <2>4. IdleSave \in SaveType /\ IdleFinish \in FinishType
      BY DEF SaveType, FinishType, IdleSave, IdleFinish
    <2>5. NoRemote \in [fetched : BOOLEAN, codes : SUBSET Codes, closed : BOOLEAN]
      BY DEF NoRemote
    <2> QED BY <1>17, <2>1, <2>2, <2>3, <2>4, <2>5 DEF TypeOK, Restart
  <1>18. ASSUME UNCHANGED vars PROVE TypeOK'
    <2>1. Queued' = Queued
      BY <1>18, QueueSteps DEF vars
    <2> QED BY <1>18, <2>1 DEF TypeOK, vars
  <1> QED
    BY <1>1, <1>2, <1>3, <1>4, <1>5, <1>6, <1>7, <1>8, <1>9, <1>10, <1>11, <1>12, <1>13,
       <1>14, <1>15, <1>16, <1>17, <1>18
    DEF Next, ScreenStep, PassStep, SaveStep, FinishStep

LEMMA TypeInit == Init => TypeOK
  <1> SUFFICES ASSUME Init PROVE TypeOK
    OBVIOUS
  <1>1. queue \in Seq(Events) /\ IsInjective(queue) /\ Queued = {}
    BY DEF Init, IsInjective, Queued, ToSet
  <1>2. /\ IdlePass \in PassType /\ IdlePass.pc = "idle"
        /\ IdlePass.kept \cup IdlePass.blocked \subseteq IdlePass.processed
    BY DEF IdlePass, PassType
  <1>3. IdleSave \in SaveType /\ IdleFinish \in FinishType
    BY DEF SaveType, FinishType, IdleSave, IdleFinish
  <1>4. NoRemote \in [fetched : BOOLEAN, codes : SUBSET Codes, closed : BOOLEAN]
    BY DEF NoRemote
  <1>5. 0 \in 0..MaxTurns
    BY TurnsAssumption
  <1>6. serverError \subseteq Queued /\ saved \cap unsaved = {} /\ pass.pc # "answered"
    BY <1>1, <1>2 DEF Init
  <1> QED BY <1>1, <1>2, <1>3, <1>4, <1>5, <1>6 DEF Init, TypeOK

\* The desktop program's queue, screen and passes keep their types: the queue has no
\* event twice, whatever it is filtered, reconciled and appended to meanwhile
\* (append_queue_item, reconcile_queue_section), and a code is saved or unsaved.
THEOREM TypeCorrect == Spec => []TypeOK
  BY TypeInit, TypeStep, PTL DEF Spec

\* What a call to the backend does to the scans of the position
LEMMA Called ==
    ASSUME NEW e, NEW answer, Call(e, answer)
    PROVE  server \subseteq server' /\ (answer = "ok" /\ e \in Codes => e \in server')
  BY DEF Call, Execute

-----------------------------------------------------------------------------
(* No code that was scanned is lost.                                       *)

LEMMA WantedStep ==
    ASSUME ~CrashBeforeRecord, TypeOK, WantedIsKept, [Next]_vars
    PROVE  WantedIsKept'
  <1>W. Wanted \subseteq Codes /\ Done \notin Codes
    BY DoneAssumption DEF TypeOK, Wanted
  <1>1. ASSUME NEW c \in Codes, Scan(c) PROVE WantedIsKept'
    <2>1. Queued' = Queued \cup {c}
      BY <1>1, QueueSteps
    <2>2. /\ Wanted' \subseteq Wanted \cup {c} /\ (c \in InPass => c \notin Wanted')
          /\ UNCHANGED <<server, refused, pass>>
      BY <1>1 DEF Scan, Wanted
    <2>3. pass.pc = "answered" => Head(pass.todo) \in InPass
      <3>1. ASSUME pass.pc = "answered" PROVE Head(pass.todo) \in ToSet(pass.todo)
        BY <3>1, HeadTailSet DEF TypeOK, PassType
      <3> QED BY <3>1 DEF InPass
    <2>4. pass.pc \in {"next", "answered"} => pass.processed \subseteq InPass
      BY DEF InPass
    <2> QED BY <2>1, <2>2, <2>3, <2>4 DEF WantedIsKept
  <1>2. ASSUME NEW c \in Codes, UndoLocally(c) \/ UndoOnServer(c) PROVE WantedIsKept'
    <2>1. Queued' = Queued \ {c}
      BY <1>2, QueueSteps DEF UndoLocally, UndoOnServer
    <2>2. /\ Wanted' = Wanted \ {c} /\ server \ {c} \subseteq server'
          /\ UNCHANGED <<refused, pass>>
      BY <1>2 DEF UndoLocally, UndoOnServer, UndoTried, TakeOff, Wanted
    <2> QED BY <2>1, <2>2 DEF WantedIsKept
  <1>3. ASSUME NEW c \in Codes, UndoFails(c) PROVE WantedIsKept'
    <2>1. Queued' = Queued
      BY <1>3, QueueSteps DEF UndoFails
    <2>2. /\ Wanted' = Wanted \ {c} /\ server \ {c} \subseteq server'
          /\ UNCHANGED <<refused, pass>>
      BY <1>3 DEF UndoFails, UndoTried, Wanted
    <2> QED BY <2>1, <2>2 DEF WantedIsKept
  <1>4. ASSUME UNCHANGED <<server, queue, refused, pass, accepted, again>>
        PROVE  WantedIsKept'
    <2>1. Queued' = Queued
      BY <1>4, QueueSteps
    <2> QED BY <1>4, <2>1 DEF WantedIsKept, Wanted
  <1>5. ASSUME Send PROVE WantedIsKept'
    <2>1. Queued' = Queued /\ Wanted' = Wanted
      BY <1>5, QueueSteps DEF Send, Wanted
    <2>2. PICK answer \in {"ok", "refused", "network", "server"} :
             /\ Call(Head(pass.todo), answer)
             /\ pass' = [pass EXCEPT !.pc = "answered", !.answer = answer]
      BY <1>5 DEF Send
    <2>3. /\ pass'.pc = "answered" /\ pass'.answer = answer /\ pass'.todo = pass.todo
          /\ pass'.processed = pass.processed /\ pass'.kept = pass.kept
          /\ pass'.blocked = pass.blocked
      BY <2>2 DEF TypeOK, PassType
    <2>4. server \subseteq server' /\ (answer = "ok" /\ Head(pass.todo) \in Codes
                                          => Head(pass.todo) \in server')
      BY <2>2, Called
    <2>5. refused' = refused /\ pass.pc = "next"
      BY <1>5 DEF Send
    <2> QED BY <1>W, <2>1, <2>3, <2>4, <2>5 DEF WantedIsKept
  <1>6. ASSUME Answer PROVE WantedIsKept'
    <2>1. Queued' = Queued /\ Wanted' = Wanted
      BY <1>6, QueueSteps DEF Answer, Wanted
    <2>2. UNCHANGED <<server, refused>> /\ pass.pc = "answered"
      BY <1>6 DEF Answer
    <2> DEFINE e == Head(pass.todo)
    <2>3. /\ pass'.pc = "next"
          /\ pass'.processed \ pass'.kept \subseteq
                (pass.processed \ pass.kept)
                    \cup (IF pass.answer \in {"ok", "refused"} THEN {e} ELSE {})
          /\ pass.blocked \cup (IF pass.answer = "refused" THEN {e} ELSE {})
                \subseteq pass'.blocked
      BY <1>6, Answered
    <2> QED BY <2>1, <2>2, <2>3 DEF WantedIsKept
  <1>7. ASSUME Reconcile PROVE WantedIsKept'
    <2>1. Queued' = Queued \ (pass.processed \ pass.kept) /\ Wanted' = Wanted
      BY <1>7, QueueSteps DEF Reconcile, Wanted
    <2>2. /\ pass.pc = "next" /\ UNCHANGED <<server, refused>>
          /\ pass'.pc = "recording" /\ pass'.blocked = pass.blocked
      BY <1>7 DEF Reconcile, TypeOK, PassType
    <2> QED BY <2>1, <2>2 DEF WantedIsKept
  <1>8. ASSUME Record PROVE WantedIsKept'
    <2>1. Queued' = Queued /\ Wanted' = Wanted
      BY <1>8, QueueSteps DEF Record, Wanted
    <2>2. /\ pass'.pc = "idle" /\ refused' = refused \cup pass.blocked /\ server' = server
      BY <1>8 DEF Record, IdlePass
    <2> QED BY <2>1, <2>2 DEF WantedIsKept
  <1>9. ASSUME SaveQueue PROVE WantedIsKept'
    <2>1. Queued \subseteq Queued' /\ Wanted' = Wanted
      BY <1>9, QueueSteps DEF SaveQueue, Wanted
    <2>2. UNCHANGED <<server, refused, pass>>
      BY <1>9 DEF SaveQueue
    <2> QED BY <2>1, <2>2 DEF WantedIsKept
  <1>10. ASSUME NEW by \in {"timer", "refresh", "save", "finish"},
                NEW todo \in Seq(Events), StartPass(by, todo)
         PROVE  WantedIsKept'
    <2>1. Queued' = Queued /\ Wanted' = Wanted
      BY <1>10, QueueSteps DEF StartPass, Wanted
    <2>2. /\ pass'.pc = "next" /\ pass'.processed = {} /\ pass.pc = "idle"
      BY <1>10, StartedPass DEF StartPass
    <2>3. UNCHANGED <<server, refused>>
      BY <1>10 DEF StartPass
    <2> QED BY <2>1, <2>2, <2>3 DEF WantedIsKept
  <1>11. ASSUME FinishBlocked \/ FinishQueue \/ FinishCall PROVE WantedIsKept'
    <2>1. Queued \ {Done} \subseteq Queued' /\ Wanted' = Wanted
      BY <1>11, QueueSteps DEF FinishBlocked, FinishQueue, FinishCall, Wanted
    <2>2. UNCHANGED <<refused, pass>>
      BY <1>11 DEF FinishBlocked, FinishQueue, FinishCall
    <2>3. server \subseteq server'
      BY <1>11, Called DEF FinishBlocked, FinishQueue, FinishCall
    <2> QED BY <1>W, <2>1, <2>2, <2>3 DEF WantedIsKept
  <1>12. ASSUME Restart PROVE WantedIsKept'
    <2>1. Queued' = Queued /\ Wanted' = Wanted
      BY <1>12, QueueSteps DEF Restart, Wanted
    <2>2. /\ pass.pc # "recording" /\ pass'.pc = "idle" /\ UNCHANGED <<server, refused>>
      BY <1>12 DEF Restart, IdlePass
    <2> QED BY <2>1, <2>2 DEF WantedIsKept
  <1>13. ASSUME StartSavePass \/ StartFinishPass \/ \E by \in Background : StartBackground(by)
         PROVE  WantedIsKept'
    <2>1. queue \in Seq(Events) /\ Without(queue, {Done}) \in Seq(Events)
      BY WithoutEvents DEF TypeOK
    <2> QED BY <1>10, <1>13, <2>1
            DEF StartSavePass, StartFinishPass, StartBackground, Background
  <1>14. ASSUME \/ StartSave \/ StartFinish \/ TakeNotice \/ RefreshFetch \/ RefreshApply
                \/ SaveDone \/ SaveAgain \/ SaveFails
                \/ \E c \in Codes : Elsewhere(c)
                \/ UNCHANGED vars
         PROVE  WantedIsKept'
    <2>1. UNCHANGED <<server, queue, refused, pass, accepted, again>>
      BY <1>14 DEF StartSave, StartFinish, TakeNotice, RefreshFetch, RefreshApply, SaveDone,
                   SaveAgain, SaveFails, Elsewhere, vars
    <2> QED BY <1>4, <2>1
  <1> QED
    BY <1>1, <1>2, <1>3, <1>5, <1>6, <1>7, <1>8, <1>9, <1>11, <1>12, <1>13, <1>14
    DEF Next, ScreenStep, PassStep, SaveStep, FinishStep

\* A code that was scanned and not asked back is on the backend, in the queue, in the
\* record of refused events, or in a pass about to write that record: whatever the
\* backend, the connection, other orders, undos, refreshes and restarts do meanwhile
\* (sync_pending_backend_events, reconcile_queue_section, record_blocked_backend_events).
THEOREM ScansAreNotLost ==
    ASSUME ~CrashBeforeRecord
    PROVE  Spec => []NothingLost
  <1>1. Init => WantedIsKept
    BY DEF Init, WantedIsKept, Wanted, IdlePass
  <1>2. TypeOK /\ WantedIsKept /\ [Next]_vars => WantedIsKept'
    BY WantedStep
  <1>3. WantedIsKept => NothingLost
    BY DEF WantedIsKept, NothingLost, Kept, Wanted
  <1> QED BY <1>1, <1>2, <1>3, TypeCorrect, PTL DEF Spec

-----------------------------------------------------------------------------
(* A code taken back does not come back.                                   *)

LEMMA TakenBackStep == TypeOK /\ TakenBackIsOff /\ [Next]_vars => TakenBackIsOff'
  <1> SUFFICES ASSUME TypeOK, TakenBackIsOff, [Next]_vars PROVE TakenBackIsOff'
    OBVIOUS
  <1>T. takenBack \subseteq Codes /\ Done \notin Codes
    BY DoneAssumption DEF TypeOK
  <1>1. ASSUME NEW c \in Codes, Scan(c) PROVE TakenBackIsOff'
    <2>1. Queued' = Queued \cup {c}
      BY <1>1, QueueSteps
    <2> QED BY <1>1, <2>1 DEF TakenBackIsOff, Scan, OnScreen, Busy
  <1>2. ASSUME NEW c \in Codes, UndoLocally(c) \/ UndoOnServer(c) PROVE TakenBackIsOff'
    <2>1. Queued' = Queued \ {c}
      BY <1>2, QueueSteps DEF UndoLocally, UndoOnServer
    <2>2. /\ takenBack' = takenBack \cup {c} /\ OnScreen' = OnScreen \ {c}
          /\ save' = save /\ save.pc = "idle"
      BY <1>2 DEF UndoLocally, UndoOnServer, UndoTried, TakeOff, MayUndo, Busy, OnScreen
    <2> QED BY <2>1, <2>2 DEF TakenBackIsOff
  <1>3. ASSUME UNCHANGED <<queue, saved, unsaved, takenBack, save>> PROVE TakenBackIsOff'
    <2>1. Queued' = Queued
      BY <1>3, QueueSteps
    <2> QED BY <1>3, <2>1 DEF TakenBackIsOff, OnScreen
  <1>4. ASSUME StartSave PROVE TakenBackIsOff'
    <2>1. Queued' = Queued
      BY <1>4, QueueSteps DEF StartSave
    <2>2. save'.pc = "queueing" /\ save'.codes \cup save'.unsaved = OnScreen
      BY <1>4 DEF StartSave, IdleSave
    <2> QED BY <1>4, <2>1, <2>2 DEF TakenBackIsOff, StartSave, OnScreen
  <1>5. ASSUME TakeNotice \/ RefreshApply PROVE TakenBackIsOff'
    <2>1. Queued' = Queued
      BY <1>5, QueueSteps DEF TakeNotice, RefreshApply
    <2>2. takenBack' \subseteq takenBack /\ takenBack' \cap OnScreen' = {} /\ save' = save
      BY <1>5 DEF TakenBackIsOff, TakeNotice, RefreshApply, OnScreen
    <2> QED BY <2>1, <2>2 DEF TakenBackIsOff
  <1>6. ASSUME Reconcile \/ FinishBlocked \/ FinishQueue \/ FinishCall PROVE TakenBackIsOff'
    <2>1. Queued' \subseteq Queued \cup {Done}
      BY <1>6, QueueSteps
    <2>2. UNCHANGED <<saved, unsaved, takenBack, save>>
      BY <1>6 DEF Reconcile, FinishBlocked, FinishQueue, FinishCall
    <2> QED BY <1>T, <2>1, <2>2 DEF TakenBackIsOff, OnScreen
  <1>7. ASSUME Record \/ StartSavePass \/ SaveAgain PROVE TakenBackIsOff'
    <2>1. Queued' = Queued
      BY <1>7, QueueSteps DEF Record, StartSavePass, StartPass, SaveAgain
    <2>2. UNCHANGED <<saved, unsaved, takenBack>>
      BY <1>7 DEF Record, StartSavePass, StartPass, SaveAgain
    <2>3. /\ save'.codes = save.codes /\ save'.unsaved = save.unsaved
          /\ save' = save \/ save'.pc # "idle"
      BY <1>7 DEF TypeOK, SaveType, Record, StartSavePass, SaveAgain
    <2> QED BY <2>1, <2>2, <2>3 DEF TakenBackIsOff, OnScreen
  <1>8. ASSUME SaveQueue PROVE TakenBackIsOff'
    <2>1. Queued' \subseteq Queued \cup save.unsaved
      BY <1>8, QueueSteps DEF Undelivered
    <2>2. /\ save'.codes = save.codes /\ save'.unsaved = save.unsaved /\ save'.pc = "waiting"
      BY <1>8 DEF TypeOK, SaveType, SaveQueue
    <2>3. UNCHANGED <<saved, unsaved, takenBack>>
      BY <1>8 DEF SaveQueue
    <2> QED BY <2>1, <2>2, <2>3 DEF TakenBackIsOff, OnScreen
  <1>9. ASSUME SaveDone \/ SaveFails PROVE TakenBackIsOff'
    <2>1. Queued' = Queued
      BY <1>9, QueueSteps DEF SaveDone, SaveFails
    <2>2. /\ save'.codes \cup save'.unsaved = {} /\ takenBack' = takenBack
          /\ OnScreen' \subseteq OnScreen \cup save.codes
      BY <1>9 DEF SaveDone, SaveFails, IdleSave, OnScreen
    <2> QED BY <2>1, <2>2 DEF TakenBackIsOff
  <1>10. ASSUME Restart PROVE TakenBackIsOff'
    <2>1. Queued' = Queued
      BY <1>10, QueueSteps DEF Restart
    <2>2. /\ save'.codes \cup save'.unsaved = {} /\ takenBack' = takenBack \ server
          /\ OnScreen' = server
      BY <1>10 DEF Restart, IdleSave, OnScreen
    <2> QED BY <2>1, <2>2 DEF TakenBackIsOff
  <1>11. ASSUME NEW c \in Codes, UndoFails(c) PROVE TakenBackIsOff'
    <2>1. UNCHANGED <<queue, saved, unsaved, takenBack, save>>
      BY <1>11 DEF UndoFails, UndoTried
    <2> QED BY <1>3, <2>1
  <1>12. ASSUME \/ \E c \in Codes : Elsewhere(c)
                \/ StartFinish \/ RefreshFetch \/ Send \/ Answer \/ StartFinishPass
                \/ \E by \in Background : StartBackground(by)
                \/ UNCHANGED vars
         PROVE  TakenBackIsOff'
    <2>1. UNCHANGED <<queue, saved, unsaved, takenBack, save>>
      BY <1>12 DEF Elsewhere, StartFinish, RefreshFetch, Send, Answer,
                   StartFinishPass, StartBackground, StartPass, vars
    <2> QED BY <1>3, <2>1
  <1> QED
    BY <1>1, <1>2, <1>4, <1>5, <1>6, <1>7, <1>8, <1>9, <1>10, <1>11, <1>12
    DEF Next, ScreenStep, PassStep, SaveStep, FinishStep

\* A code the operator took back is not in the queue again unless it is scanned or shown
\* again: neither the pass that held its event (reconcile_queue_section), nor the save
\* of the position, nor a refresh writes it back.
THEOREM TakenBackStaysOut == Spec => []NotResurrected
  <1>1. Init => TakenBackIsOff
    BY DEF Init, TakenBackIsOff, IdleSave
  <1>2. TakenBackIsOff => NotResurrected
    BY DEF TakenBackIsOff, NotResurrected
  <1> QED BY <1>1, <1>2, TakenBackStep, TypeCorrect, PTL DEF Spec

-----------------------------------------------------------------------------
(* A position shown as saved is on the backend.                            *)

LEMMA KnownStep ==
    ASSUME TypeOK, KnownIsOnServer, [Next]_vars
    PROVE  KnownIsOnServer'
  <1> SUFFICES ASSUME ~undoTried' PROVE KnownIsOnServer'
    BY DEF KnownIsOnServer
  <1>1. ASSUME NEW c \in Codes, Scan(c) PROVE KnownIsOnServer'
    BY <1>1 DEF KnownIsOnServer, Scan
  <1>2. ASSUME NEW c \in Codes, UndoLocally(c) \/ UndoOnServer(c) \/ UndoFails(c)
        PROVE  KnownIsOnServer'
    BY <1>2 DEF UndoLocally, UndoOnServer, UndoFails, UndoTried
  <1>3. ASSUME StartSave PROVE KnownIsOnServer'
    <2>1. save'.codes = OnScreen /\ save'.unsaved = OnScreen \ existing
      BY <1>3 DEF StartSave, IdleSave
    <2> QED BY <1>3, <2>1 DEF KnownIsOnServer, StartSave
  <1>4. ASSUME RefreshFetch PROVE KnownIsOnServer'
    BY <1>4 DEF KnownIsOnServer, RefreshFetch
  <1>5. ASSUME RefreshApply PROVE KnownIsOnServer'
    BY <1>5 DEF KnownIsOnServer, RefreshApply, NoRemote
  <1>6. ASSUME Send PROVE KnownIsOnServer'
    <2>1. PICK answer \in {"ok", "refused", "network", "server"} :
             /\ Call(Head(pass.todo), answer)
             /\ pass' = [pass EXCEPT !.pc = "answered", !.answer = answer]
      BY <1>6 DEF Send
    <2>2. pass'.answer = answer /\ pass'.todo = pass.todo
      BY <2>1 DEF TypeOK, PassType
    <2>3. server \subseteq server' /\ (answer = "ok" /\ Head(pass.todo) \in Codes
                                          => Head(pass.todo) \in server')
      BY <2>1, Called
    <2>4. UNCHANGED <<position, saved, existing, delivered, save, remote, undoTried>>
      BY <1>6 DEF Send
    <2> QED BY <2>2, <2>3, <2>4 DEF KnownIsOnServer
  <1>7. ASSUME Answer PROVE KnownIsOnServer'
    <2> DEFINE e == Head(pass.todo)
    <2>1. /\ pass'.pc = "next" /\ delivered' \subseteq Codes
          /\ delivered' \subseteq delivered \cup (IF pass.answer = "ok" THEN {e} ELSE {})
      BY <1>7, Answered
    <2>2. /\ UNCHANGED <<server, position, saved, existing, save, remote, undoTried>>
          /\ pass.pc = "answered"
      BY <1>7 DEF Answer
    <2> QED BY <2>1, <2>2 DEF KnownIsOnServer
  <1>8. ASSUME Reconcile \/ Record PROVE KnownIsOnServer'
    <2>1. pass'.pc # "answered"
      BY <1>8 DEF Reconcile, Record, IdlePass, TypeOK, PassType
    <2>2. save'.codes = save.codes /\ save'.unsaved = save.unsaved
      BY <1>8 DEF Reconcile, Record, TypeOK, SaveType
    <2>3. UNCHANGED <<server, position, saved, existing, delivered, remote, undoTried>>
      BY <1>8 DEF Reconcile, Record
    <2> QED BY <2>1, <2>2, <2>3 DEF KnownIsOnServer
  <1>9. ASSUME NEW by \in {"timer", "refresh", "save", "finish"},
                NEW todo \in Seq(Events), StartPass(by, todo),
                save'.codes = save.codes, save'.unsaved = save.unsaved
         PROVE  KnownIsOnServer'
    <2>1. pass'.pc = "next"
      BY <1>9, StartedPass
    <2>2. UNCHANGED <<server, position, saved, existing, delivered, remote, undoTried>>
      BY <1>9 DEF StartPass
    <2> QED BY <1>9, <2>1, <2>2 DEF KnownIsOnServer
  <1>10. ASSUME StartSavePass \/ StartFinishPass \/ \E by \in Background : StartBackground(by)
         PROVE  KnownIsOnServer'
    <2>1. queue \in Seq(Events) /\ Without(queue, {Done}) \in Seq(Events)
      BY WithoutEvents DEF TypeOK
    <2>2. save'.codes = save.codes /\ save'.unsaved = save.unsaved
      BY <1>10 DEF StartSavePass, StartFinishPass, StartBackground, TypeOK, SaveType
    <2> QED BY <1>9, <1>10, <2>1, <2>2
            DEF StartSavePass, StartFinishPass, StartBackground, Background
  <1>11. ASSUME SaveDone PROVE KnownIsOnServer'
    <2>1. /\ save.unsaved \subseteq delivered /\ saved' = save.codes /\ existing' = save.codes
          /\ UNCHANGED <<server, delivered, pass, remote, undoTried>>
      BY <1>11 DEF SaveDone, Undelivered
    <2>2. save'.codes = {}
      BY <1>11 DEF SaveDone, IdleSave
    <2>3. save.codes \subseteq server
      BY <2>1 DEF KnownIsOnServer
    <2> QED BY <2>1, <2>2, <2>3 DEF KnownIsOnServer
  <1>12. ASSUME SaveQueue \/ SaveAgain \/ SaveFails PROVE KnownIsOnServer'
    <2>1. save'.codes \ save'.unsaved \subseteq save.codes \ save.unsaved
      <3>1. SaveQueue \/ SaveAgain => save'.codes = save.codes /\ save'.unsaved = save.unsaved
        BY DEF SaveQueue, SaveAgain, TypeOK, SaveType
      <3>2. SaveFails => save'.codes = {}
        BY DEF SaveFails, IdleSave
      <3> QED BY <1>12, <3>1, <3>2
    <2>2. /\ UNCHANGED <<server, position, existing, delivered, pass, remote, undoTried>>
          /\ saved' \subseteq saved
      BY <1>12 DEF SaveQueue, SaveAgain, SaveFails
    <2> QED BY <2>1, <2>2 DEF KnownIsOnServer
  <1>13. ASSUME FinishCall PROVE KnownIsOnServer'
    <2>1. server \subseteq server'
      BY <1>13, Called DEF FinishCall
    <2>2. /\ position' \in {position, "off"}
          /\ UNCHANGED <<saved, existing, delivered, pass, save, remote, undoTried>>
      BY <1>13 DEF FinishCall
    <2> QED BY <2>1, <2>2 DEF KnownIsOnServer
  <1>14. ASSUME Restart PROVE KnownIsOnServer'
    <2>1. /\ existing' = server /\ delivered' = {} /\ remote'.codes = {} /\ pass'.pc = "idle"
          /\ save'.codes = {} /\ position' # "saved" /\ server' = server
      BY <1>14 DEF Restart, NoRemote, IdlePass, IdleSave
    <2> QED BY <2>1 DEF KnownIsOnServer
  <1>15. ASSUME \/ \E c \in Codes : Elsewhere(c)
                \/ StartFinish \/ TakeNotice \/ FinishBlocked \/ FinishQueue \/ UNCHANGED vars
         PROVE  KnownIsOnServer'
    <2>1. /\ UNCHANGED <<server, position, existing, delivered, pass, save, remote, undoTried>>
          /\ saved' \subseteq saved
      BY <1>15 DEF Elsewhere, StartFinish, TakeNotice, FinishBlocked, FinishQueue, vars
    <2> QED BY <2>1 DEF KnownIsOnServer
  <1> QED
    BY <1>1, <1>2, <1>3, <1>4, <1>5, <1>6, <1>7, <1>8, <1>10, <1>11, <1>12, <1>13, <1>14, <1>15
    DEF Next, ScreenStep, PassStep, SaveStep, FinishStep

\* As long as no code of it was taken back, a position shown as saved is on the backend
\* with every code: next_product trusts what an earlier reading of the backend showed
\* and what a pass of any caller delivered, and both are on the backend.
THEOREM SavedPositionIsOnServer == Spec => []SavedIsOnServer
  <1>1. Init => KnownIsOnServer
    BY DEF Init, KnownIsOnServer, NoRemote, IdlePass, IdleSave
  <1>2. KnownIsOnServer => SavedIsOnServer
    BY DEF KnownIsOnServer, SavedIsOnServer
  <1>3. TypeOK /\ KnownIsOnServer /\ [Next]_vars => KnownIsOnServer'
    BY KnownStep
  <1> QED BY <1>1, <1>2, <1>3, TypeCorrect, PTL DEF Spec

-----------------------------------------------------------------------------
(* The browser: OfflineQueue.                                              *)

AtServer == ToSet(stored)
InQueue == ToSet(pending)
InRefused == ToSet(blocked)
Noted == InRefused \cup evicted
LeftOf(t) == ToSet(replay[t].todo)

ReplayType ==
    [pc : {"none", "waiting", "running"}, todo : Seq(Codes), result : Results,
     failures : Nat, synced : BOOLEAN]
LiveType ==
    [pc : {"none", "scan", "undo"}, code : Codes \cup {NoCode},
     result : Results \cup {"done"}]

\* The types that the argument needs: lists of codes, and steps with a code of their own
ListsTyped ==
    /\ stored \in Seq(Codes) /\ pending \in Seq(Codes) /\ blocked \in Seq(Codes)
    /\ view \in [Tabs -> Seq(Codes)] /\ shown \in [Tabs -> Seq(Codes)]
LiveTyped ==
    /\ live \in [Tabs -> LiveType]
    /\ \A t \in Tabs : live[t].pc # "none" => live[t].code \in Codes
ReplayTyped ==
    /\ replay \in [Tabs -> ReplayType]
    /\ \A t \in Tabs : replay[t].pc # "running" => replay[t].result = "none"
WebTypes == ListsTyped /\ LiveTyped /\ ReplayTyped

\* What a pass knows to be at the server is there until it is undone, and the undo is seen
SentIsSaved ==
    \A t \in Tabs :
        /\ replay[t].pc = "running" /\ replay[t].todo # <<>>
        /\ replay[t].result \in {"saved", "synced"}
        => Head(replay[t].todo) \in AtServer \cup crossed

WebInv == WebTypes /\ SentIsSaved /\ NoScanLost

USE DEF serverVars, storeVars, tabVars, Fault

\* Membership and the last element of a list of codes
LEMMA WebLists ==
    /\ \A c : \A s \in Seq(Codes) : Contains(s, c) <=> c \in ToSet(s)
    /\ \A s \in Seq(Codes) : s # <<>> => Last(s) \in ToSet(s) /\ Last(s) \in Codes
  <1>1. ASSUME NEW s \in Seq(Codes), NEW c PROVE Contains(s, c) <=> c \in ToSet(s)
    <2>1. DOMAIN s = 1..Len(s)
      OBVIOUS
    <2> QED BY <2>1 DEF Contains, ToSet
  <1>2. ASSUME NEW s \in Seq(Codes), s # <<>>
        PROVE  Last(s) \in ToSet(s) /\ Last(s) \in Codes
    <2>1. Len(s) \in DOMAIN s
      BY <1>2
    <2> QED BY <2>1, <1>2 DEF Last, ToSet
  <1> QED BY <1>1, <1>2

LEMMA WebKept ==
    NoScanLost <=>
        wanted \subseteq AtServer \cup InQueue \cup InRefused \cup evicted \cup crossed
  BY WebLists DEF NoScanLost, Accounted, AtServer, InQueue, InRefused

\* A request at the server adds its code, if at all
LEMMA Executed ==
    ASSUME WebTypes, NEW c \in Codes, NEW answer \in Answers(c), ExecuteScan(c, answer)
    PROVE  /\ stored' \in Seq(Codes) /\ AtServer \subseteq AtServer'
           /\ answer \in Results
           /\ answer \in {"saved", "synced"} => c \in AtServer'
  <1>1. stored \in Seq(Codes)
    BY DEF WebTypes, ListsTyped
  <1>2. CASE answer = "saved"
    BY <1>1, <1>2, AppendSet DEF ExecuteScan, AtServer, Results
  <1>3. CASE answer # "saved"
    <2>1. stored' = stored
      BY <1>3 DEF ExecuteScan
    <2>2. answer \in {"retry", "synced", "blocked"}
      BY <1>3 DEF Answers, ScanAnswer
    <2>3. answer = "synced" => c \in AtServer
      BY <1>1, WebLists DEF Answers, ScanAnswer, AtServer
    <2> QED BY <1>1, <2>1, <2>2, <2>3 DEF AtServer, Results
  <1> QED BY <1>2, <1>3

\* What is taken from the queue of the browser, and put in
LEMMA WebQueue ==
    ASSUME WebTypes, NEW c \in Codes
    PROVE  /\ pending' = Removed(c) =>
                 pending' \in Seq(Codes) /\ InQueue' = InQueue \ {c}
           /\ pending' = Enqueued(c) =>
                 pending' \in Seq(Codes) /\ InQueue' = InQueue \cup {c}
           /\ stored' = Without(stored, {c}) =>
                 stored' \in Seq(Codes) /\ AtServer' = AtServer \ {c}
           /\ blocked' = Without(blocked, {c}) =>
                 /\ blocked' \in Seq(Codes) /\ InRefused' = InRefused \ {c}
                 /\ Len(blocked') <= Len(blocked)
  <1>1. stored \in Seq(Codes) /\ pending \in Seq(Codes) /\ blocked \in Seq(Codes)
    BY DEF WebTypes, ListsTyped
  <1>2. \A q \in Seq(Codes) :
            /\ Without(q, {c}) \in Seq(Codes) /\ ToSet(Without(q, {c})) = ToSet(q) \ {c}
            /\ Len(Without(q, {c})) <= Len(q)
    BY WebLists, WithoutSet
  <1>3. ASSUME pending' = Enqueued(c)
        PROVE  pending' \in Seq(Codes) /\ InQueue' = InQueue \cup {c}
    <2>1. CASE Contains(pending, c)
      BY <1>1, <1>3, <2>1, WebLists DEF Enqueued, InQueue
    <2>2. CASE ~Contains(pending, c)
      BY <1>1, <1>3, <2>2, AppendSet DEF Enqueued, InQueue
    <2> QED BY <2>1, <2>2
  <1> QED BY <1>1, <1>2, <1>3 DEF Removed, InQueue, AtServer, InRefused

\* A refusal is recorded, and what its record pushes out is known as evicted
LEMMA Recorded ==
    ASSUME WebTypes, NEW c \in Codes, Refuse(c)
    PROVE  /\ blocked' \in Seq(Codes)
           /\ InRefused \cup evicted \cup {c} \subseteq InRefused' \cup evicted'
           /\ evicted' \subseteq evicted \cup Codes
           /\ Len(blocked) <= BlockedLimit => Len(blocked') <= BlockedLimit
  <1> DEFINE rest == Without(blocked, {c})
             list == Append(rest, c)
  <1>1. blocked \in Seq(Codes) /\ BlockedLimit \in Nat \ {0}
    BY NumberAssumption DEF WebTypes, ListsTyped
  <1>2. rest \in Seq(Codes) /\ ToSet(rest) = InRefused \ {c} /\ Len(rest) <= Len(blocked)
    BY <1>1, WithoutSet DEF InRefused
  <1>3. IF Len(list) > BlockedLimit
        THEN blocked' = Tail(list) /\ evicted' = evicted \cup {Head(list)}
        ELSE blocked' = list /\ evicted' = evicted
    BY DEF Refuse
  <1> HIDE DEF rest
  <1>4. /\ list \in Seq(Codes) /\ list # <<>> /\ Len(list) <= Len(blocked) + 1
        /\ ToSet(list) = InRefused \cup {c}
    <2>1. list \in Seq(Codes) /\ ToSet(list) = ToSet(rest) \cup {c}
      BY <1>2, AppendSet
    <2>2. list # <<>> /\ Len(list) = Len(rest) + 1 /\ Len(rest) \in Nat
      <3>1. rest \in Seq(Codes)
        BY <1>2
      <3> HIDE DEF rest
      <3> QED BY <3>1
    <2> QED BY <1>1, <1>2, <2>1, <2>2
  <1> HIDE DEF list
  <1>5. /\ Head(list) \in Codes /\ Tail(list) \in Seq(Codes)
        /\ ToSet(list) = {Head(list)} \cup ToSet(Tail(list))
        /\ Len(Tail(list)) = Len(list) - 1 /\ Len(list) \in Nat /\ Len(blocked) \in Nat
    BY <1>1, <1>4, HeadTailSet
  <1>6. CASE Len(list) > BlockedLimit
    <2>1. blocked' = Tail(list) /\ evicted' = evicted \cup {Head(list)}
      BY <1>3, <1>6
    <2>2. Len(blocked) <= BlockedLimit => Len(blocked') <= BlockedLimit
      BY <1>1, <1>4, <1>5, <2>1
    <2> QED BY <1>4, <1>5, <2>1, <2>2 DEF InRefused
  <1>7. CASE ~(Len(list) > BlockedLimit)
    <2>1. blocked' = list /\ evicted' = evicted
      BY <1>3, <1>7
    <2>2. Len(blocked') <= BlockedLimit
      BY <1>1, <1>5, <1>7, <2>1
    <2> QED BY <1>4, <2>1, <2>2 DEF InRefused
  <1> QED BY <1>6, <1>7

\* The first event of a running pass
LEMMA CurrentIsCode ==
    ASSUME WebTypes, NEW t \in Tabs, Sending(t)
    PROVE  /\ Current(t) \in Codes /\ Current(t) = Head(replay[t].todo)
           /\ Tail(replay[t].todo) \in Seq(Codes)
           /\ replay[t] \in ReplayType /\ replay[t].pc = "running" /\ replay[t].todo # <<>>
  <1>1. replay[t] \in ReplayType /\ replay[t].todo \in Seq(Codes) /\ replay[t].todo # <<>>
    BY DEF WebTypes, ReplayTyped, Sending, ReplayType
  <1> QED BY <1>1, HeadTailSet DEF Current, Sending

LEMMA StoredStep ==
    ASSUME WebTypes, PanelNext
    PROVE  /\ stored' \in Seq(Codes)
           /\ \/ AtServer \subseteq AtServer'
              \/ \E t \in Tabs : LiveUndo(t)
              \/ \E c \in Codes : ArriveUndo(c)
  <1>1. ASSUME NEW c \in Codes, NEW answer \in Answers(c), ExecuteScan(c, answer)
        PROVE  stored' \in Seq(Codes) /\ AtServer \subseteq AtServer'
    BY <1>1, Executed
  <1>2. ASSUME NEW c \in Codes, Arrive(c)
        PROVE  stored' \in Seq(Codes) /\ AtServer \subseteq AtServer'
    BY <1>1, <1>2 DEF Arrive, Answers
  <1>3. ASSUME NEW t \in Tabs, LiveScan(t)
        PROVE  stored' \in Seq(Codes) /\ AtServer \subseteq AtServer'
    BY <1>1, <1>3 DEF LiveScan, WebTypes, LiveTyped
  <1>4. ASSUME NEW t \in Tabs, SendScan(t)
        PROVE  stored' \in Seq(Codes) /\ AtServer \subseteq AtServer'
    BY <1>1, <1>4, CurrentIsCode DEF SendScan
  <1>5. ASSUME NEW t \in Tabs, LiveUndo(t)
        PROVE  stored' \in Seq(Codes)
    <2>1. live[t].code \in Codes /\ stored \in Seq(Codes)
      BY <1>5 DEF LiveUndo, WebTypes, LiveTyped, ListsTyped
    <2>2. stored' = stored \/ stored' = Without(stored, {live[t].code})
      BY <1>5 DEF LiveUndo
    <2> QED BY <2>1, <2>2, WebQueue
  <1>6. ASSUME UNCHANGED stored
        PROVE  stored' \in Seq(Codes) /\ AtServer \subseteq AtServer'
    BY <1>6 DEF WebTypes, ListsTyped, AtServer
  <1>10. ASSUME NEW c \in Codes, ArriveUndo(c)
         PROVE  stored' \in Seq(Codes)
    <2>1. stored' = stored \/ stored' = Without(stored, {c})
      BY <1>10 DEF ArriveUndo
    <2> QED BY <2>1, WebQueue DEF WebTypes, ListsTyped
  <1>7. ASSUME NEW t \in Tabs, Replay(t), ~SendScan(t) PROVE UNCHANGED stored
    BY <1>7 DEF Replay, StartReplay, ListPending, Synced, Blocked,
                Failed, EndPass
  <1>8. ASSUME NEW t \in Tabs, Operate(t), ~LiveScan(t), ~LiveUndo(t)
        PROVE  UNCHANGED stored
    BY <1>8 DEF Operate, Submit, DismissBlocked, LiveAnswered, LiveFailed,
                UndoQueued, UndoSaved, UndoAnswered, Complete, RefreshOrders
  <1>9. ASSUME NEW t \in Tabs, LiveLost(t) \/ UndoLost(t) \/ PassLost(t) \/ Reload(t)
        PROVE  UNCHANGED stored
    BY <1>9 DEF LiveLost, UndoLost, PassLost, Reload
  <1> QED BY <1>2, <1>3, <1>4, <1>5, <1>6, <1>7, <1>8, <1>9, <1>10 DEF PanelNext

\* What a step does to the queue, the refused scans and what was wanted
LEMMA PendingStep ==
    ASSUME WebTypes, PanelNext
    PROVE  /\ pending' \in Seq(Codes) /\ blocked' \in Seq(Codes)
           /\ \/ /\ InQueue' = InQueue /\ InRefused' = InRefused
                 /\ UNCHANGED evicted /\ wanted' \subseteq wanted
              \/ \E t \in Tabs : \/ LiveFailed(t) \/ LiveLost(t) \/ UndoQueued(t)
                                 \/ Synced(t) \/ Blocked(t)
                                 \/ LiveScan(t) \/ LiveUndo(t)
                                 \/ \E c \in Codes : DismissBlocked(t, c)
  <1> DEFINE Lists == pending' \in Seq(Codes) /\ blocked' \in Seq(Codes)
             Still == UNCHANGED storeVars /\ wanted' \subseteq wanted
  <1>0. pending \in Seq(Codes) /\ blocked \in Seq(Codes)
    BY DEF WebTypes, ListsTyped
  <1>1. ASSUME NEW t \in Tabs, LiveFailed(t) \/ LiveLost(t)
        PROVE  Lists
    <2>1. live[t].code \in Codes /\ pending' = Enqueued(live[t].code) /\ blocked' = blocked
      BY <1>1 DEF LiveFailed, LiveLost, Queue, WebTypes, LiveTyped
    <2> QED BY <1>0, <2>1, WebQueue
  <1>2. ASSUME NEW t \in Tabs, UndoQueued(t)
        PROVE  Lists
    <2>1. /\ Last(view[t]) \in Codes /\ pending' = Removed(Last(view[t]))
          /\ blocked' = blocked
      BY <1>2, WebLists DEF UndoQueued, WebTypes, ListsTyped
    <2> QED BY <1>0, <2>1, WebQueue
  <1>3. ASSUME NEW t \in Tabs, Synced(t) \/ Blocked(t)
        PROVE  Lists
    <2>1. Current(t) \in Codes /\ pending' = Removed(Current(t))
      BY <1>3, CurrentIsCode DEF Synced, Blocked
    <2>2. blocked' = blocked \/ Refuse(Current(t))
      BY <1>3 DEF Synced, Blocked
    <2> QED BY <1>0, <2>1, <2>2, WebQueue, Recorded
  <1>4. ASSUME NEW t \in Tabs, NEW c \in Codes, DismissBlocked(t, c)
        PROVE  Lists
    BY <1>0, <1>4, WebQueue DEF DismissBlocked
  <1>5. Still => /\ Lists /\ InQueue' = InQueue /\ InRefused' = InRefused
                 /\ UNCHANGED evicted /\ wanted' \subseteq wanted
    BY <1>0 DEF InQueue, InRefused
  <1>6. ASSUME NEW t \in Tabs, Replay(t)
        PROVE  Synced(t) \/ Blocked(t) \/ Still
    BY <1>6 DEF Replay, StartReplay, ListPending, SendScan, Failed, EndPass
  <1>7. ASSUME NEW t \in Tabs, Operate(t)
        PROVE  \/ LiveFailed(t) \/ UndoQueued(t)
               \/ LiveScan(t) \/ LiveUndo(t)
               \/ \E c \in Codes : DismissBlocked(t, c)
               \/ Still
    BY <1>7 DEF Operate, Submit, LiveAnswered, UndoSaved, UndoAnswered,
                Complete, RefreshOrders
  <1>8. ASSUME NEW t \in Tabs, UndoLost(t) \/ PassLost(t) \/ Reload(t)
        PROVE  Still
    BY <1>8 DEF UndoLost, PassLost, Reload
  <1>9. ASSUME NEW c \in Codes, Arrive(c) \/ ArriveUndo(c)
        PROVE  Still
    BY <1>9 DEF Arrive, ArriveUndo
  <1>10. \/ \E t \in Tabs : \/ LiveFailed(t) \/ LiveLost(t) \/ UndoQueued(t)
                            \/ Synced(t) \/ Blocked(t)
                            \/ LiveScan(t) \/ LiveUndo(t)
                            \/ \E c \in Codes : DismissBlocked(t, c)
         \/ Still
    BY <1>6, <1>7, <1>8, <1>9 DEF PanelNext
  <1>11. Lists
    <2>1. ASSUME NEW t \in Tabs, \E c \in Codes : DismissBlocked(t, c)
          PROVE  Lists
      BY <1>4, <2>1
    <2>2. ASSUME NEW t \in Tabs, LiveScan(t) \/ LiveUndo(t)
          PROVE  Lists
      BY <1>0, <2>2 DEF LiveScan, LiveUndo
    <2> QED BY <1>1, <1>2, <1>3, <1>5, <1>10, <2>1, <2>2
  <1> QED BY <1>5, <1>10, <1>11

LEMMA ListsStep ==
    ASSUME WebTypes, PanelNext
    PROVE  ListsTyped'
  <1>1. stored' \in Seq(Codes) /\ pending' \in Seq(Codes) /\ stored \in Seq(Codes)
        /\ pending \in Seq(Codes) /\ blocked' \in Seq(Codes)
    BY StoredStep, PendingStep DEF WebTypes, ListsTyped
  <1>2. view' \in [Tabs -> Seq(Codes)]
    <2>1. view' = view \/ \E t \in Tabs : view' = [view EXCEPT ![t] = pending']
      <3>1. ASSUME NEW t \in Tabs, Replay(t)
            PROVE  view' = view \/ view' = [view EXCEPT ![t] = pending']
        BY <3>1 DEF Replay, StartReplay, ListPending, SendScan, Synced,
                    Blocked, Failed, EndPass, Refreshed
      <3>2. ASSUME NEW t \in Tabs, Operate(t)
            PROVE  view' = view \/ view' = [view EXCEPT ![t] = pending']
        BY <3>2 DEF Operate, Submit, DismissBlocked, LiveScan,
                    LiveAnswered, LiveFailed, Queue, UndoQueued, UndoSaved,
                    LiveUndo, UndoAnswered, Complete, RefreshOrders, Refreshed
      <3>3. ASSUME NEW t \in Tabs, LiveLost(t) \/ UndoLost(t) \/ PassLost(t) \/ Reload(t)
            PROVE  view' = view \/ view' = [view EXCEPT ![t] = pending']
        BY <3>3 DEF LiveLost, UndoLost, PassLost, Reload, Queue, Refreshed
      <3>4. ASSUME NEW c \in Codes, Arrive(c) \/ ArriveUndo(c) PROVE view' = view
        BY <3>4 DEF Arrive, ArriveUndo
      <3> QED BY <3>1, <3>2, <3>3, <3>4 DEF PanelNext
    <2>2. view \in [Tabs -> Seq(Codes)]
      BY DEF WebTypes, ListsTyped
    <2> QED BY <1>1, <2>1, <2>2
  <1>3. shown' \in [Tabs -> Seq(Codes)]
    <2>1. shown' = shown \/ \E t \in Tabs : shown' = [shown EXCEPT ![t] = stored]
      <3>1. ASSUME NEW t \in Tabs, Replay(t)
            PROVE  shown' = shown \/ shown' = [shown EXCEPT ![t] = stored]
        BY <3>1 DEF Replay, StartReplay, ListPending, SendScan, Synced,
                    Blocked, Failed, EndPass, OrdersReloaded
      <3>2. ASSUME NEW t \in Tabs, Operate(t)
            PROVE  shown' = shown \/ shown' = [shown EXCEPT ![t] = stored]
        BY <3>2 DEF Operate, Submit, DismissBlocked, LiveScan,
                    LiveAnswered, LiveFailed, UndoQueued, UndoSaved,
                    LiveUndo, UndoAnswered, Complete, RefreshOrders,
                    OrdersReloaded
      <3>3. ASSUME NEW t \in Tabs, LiveLost(t) \/ UndoLost(t) \/ PassLost(t) \/ Reload(t)
            PROVE  shown' = shown \/ shown' = [shown EXCEPT ![t] = stored]
        BY <3>3 DEF LiveLost, UndoLost, PassLost, Reload
      <3>4. ASSUME NEW c \in Codes, Arrive(c) \/ ArriveUndo(c) PROVE shown' = shown
        BY <3>4 DEF Arrive, ArriveUndo
      <3> QED BY <3>1, <3>2, <3>3, <3>4 DEF PanelNext
    <2>2. shown \in [Tabs -> Seq(Codes)]
      BY DEF WebTypes, ListsTyped
    <2> QED BY <1>1, <2>1, <2>2
  <1> QED BY <1>1, <1>2, <1>3 DEF ListsTyped

LEMMA LiveStep ==
    ASSUME WebTypes, PanelNext
    PROVE  LiveTyped'
  <1>0. LiveTyped
    BY DEF WebTypes
  <1>1. ASSUME NEW t \in Tabs, NEW l \in LiveType, l.pc # "none" => l.code \in Codes,
               live' = [live EXCEPT ![t] = l]
        PROVE  LiveTyped'
    BY <1>0, <1>1 DEF LiveTyped
  <1>2. ASSUME NEW t \in Tabs, live' = [live EXCEPT ![t] = NoAction]
        PROVE  LiveTyped'
    <2>1. NoAction \in LiveType /\ NoAction.pc = "none"
      BY DEF LiveType, NoAction, Results
    <2> QED BY <1>1, <1>2, <2>1
  <1>3. ASSUME NEW t \in Tabs, NEW c \in Codes, Submit(t, c)
        PROVE  LiveTyped'
    <2> DEFINE l == [pc |-> "scan", code |-> c, result |-> "none"]
    <2>1. l \in LiveType /\ l.code \in Codes
      BY DEF LiveType, Results
    <2>2. live' = [live EXCEPT ![t] = l]
      BY <1>3 DEF Submit
    <2> HIDE DEF l
    <2> QED BY <1>1, <2>1, <2>2
  <1>4. ASSUME NEW t \in Tabs, UndoSaved(t)
        PROVE  LiveTyped'
    <2> DEFINE l == [pc |-> "undo", code |-> Last(shown[t]), result |-> "none"]
    <2>1. Last(shown[t]) \in Codes
      BY <1>4, WebLists DEF UndoSaved, WebTypes, ListsTyped
    <2>2. l \in LiveType /\ l.code \in Codes
      BY <2>1 DEF LiveType, Results
    <2>3. live' = [live EXCEPT ![t] = l]
      BY <1>4 DEF UndoSaved
    <2> HIDE DEF l
    <2> QED BY <1>1, <2>2, <2>3
  <1>5. ASSUME NEW t \in Tabs, LiveScan(t)
        PROVE  LiveTyped'
    <2>1. live[t] \in LiveType /\ live[t].code \in Codes /\ live[t].pc = "scan"
      BY <1>0, <1>5 DEF LiveTyped, LiveScan
    <2>2. PICK answer \in Answers(live[t].code) :
              /\ ExecuteScan(live[t].code, answer)
              /\ live' = [live EXCEPT ![t].result = answer]
      BY <1>5 DEF LiveScan
    <2>5. answer \in Results
      BY <2>1, <2>2, Executed
    <2> DEFINE l == [live[t] EXCEPT !.result = answer]
    <2>3. l \in LiveType /\ l.code \in Codes
      BY <2>1, <2>5 DEF LiveType
    <2>4. live' = [live EXCEPT ![t] = l]
      BY <1>0, <2>2 DEF LiveTyped
    <2> HIDE DEF l
    <2> QED BY <1>1, <2>3, <2>4
  <1>6. ASSUME NEW t \in Tabs, LiveUndo(t)
        PROVE  LiveTyped'
    <2>1. live[t] \in LiveType /\ live[t].code \in Codes
      BY <1>0, <1>6 DEF LiveTyped, LiveUndo
    <2> DEFINE l == [live[t] EXCEPT !.result = "done"]
    <2>2. l \in LiveType /\ l.code \in Codes
      BY <2>1 DEF LiveType
    <2>3. live' = [live EXCEPT ![t] = l]
      BY <1>0, <1>6 DEF LiveUndo, LiveTyped
    <2> HIDE DEF l
    <2> QED BY <1>1, <2>2, <2>3
  <1>7. UNCHANGED live => LiveTyped'
    BY <1>0 DEF LiveTyped
  <1>8. ASSUME NEW t \in Tabs, Replay(t) PROVE UNCHANGED live
    BY <1>8 DEF Replay, StartReplay, ListPending, SendScan, Synced,
                Blocked, Failed, EndPass
  <1>9. ASSUME NEW t \in Tabs, Operate(t)
        PROVE  \/ \E c \in Codes : Submit(t, c)
               \/ UndoSaved(t) \/ LiveScan(t) \/ LiveUndo(t)
               \/ UNCHANGED live \/ live' = [live EXCEPT ![t] = NoAction]
    BY <1>9 DEF Operate, DismissBlocked, LiveAnswered, LiveFailed,
                Queue, UndoQueued, UndoAnswered, Complete, RefreshOrders
  <1>10. ASSUME NEW t \in Tabs, LiveLost(t) \/ UndoLost(t) \/ PassLost(t) \/ Reload(t)
         PROVE  UNCHANGED live \/ live' = [live EXCEPT ![t] = NoAction]
    BY <1>10 DEF LiveLost, UndoLost, PassLost, Reload, Queue
  <1>11. ASSUME NEW c \in Codes, Arrive(c) \/ ArriveUndo(c) PROVE UNCHANGED live
    BY <1>11 DEF Arrive, ArriveUndo
  <1>12. ASSUME NEW t \in Tabs, Operate(t) PROVE LiveTyped'
    <2>1. (\E c \in Codes : Submit(t, c)) => LiveTyped'
      BY <1>3
    <2> QED BY <1>2, <1>4, <1>5, <1>6, <1>7, <1>9, <1>12, <2>1
  <1> QED BY <1>2, <1>7, <1>8, <1>10, <1>11, <1>12 DEF PanelNext

\* What a step does to the pass of a tab: it ends, begins, takes its list, sends, or goes
\* on to the next event without a result.
LEMMA ReplayStep ==
    ASSUME WebTypes, PanelNext
    PROVE  /\ ReplayTyped'
           /\ \A t \in Tabs :
                 \/ SendScan(t)
                 \/ replay'[t] = replay[t]
                 \/ replay'[t].result = "none"
  <1>0. ReplayTyped
    BY DEF WebTypes
  <1> DEFINE Good == /\ ReplayTyped'
                     /\ \A t \in Tabs : \/ SendScan(t)
                                        \/ replay'[t] = replay[t]
                                        \/ replay'[t].result = "none"
  <1>1. ASSUME NEW t \in Tabs, NEW r \in ReplayType, replay' = [replay EXCEPT ![t] = r],
               r.result = "none"
        PROVE  Good
    BY <1>0, <1>1 DEF ReplayTyped
  <1>2. UNCHANGED replay => Good
    BY <1>0 DEF ReplayTyped
  <1>3. ASSUME NEW t \in Tabs, replay' = [replay EXCEPT ![t] = NoPass]
        PROVE  Good
    <2>1. NoPass \in ReplayType /\ NoPass.result = "none"
      BY DEF ReplayType, NoPass, Results
    <2> QED BY <1>1, <1>3, <2>1
  <1>4. ASSUME NEW t \in Tabs, StartReplay(t)
        PROVE  Good
    <2> DEFINE r == [replay[t] EXCEPT !.pc = "waiting"]
    <2>0. replay[t] \in ReplayType
      BY <1>0 DEF ReplayTyped
    <2>1. replay[t] \in ReplayType /\ replay[t].result = "none"
      BY <1>4, <2>0 DEF StartReplay, NoPass
    <2>2. r \in ReplayType /\ r.result = "none"
      BY <2>1 DEF ReplayType
    <2>3. replay' = [replay EXCEPT ![t] = r]
      BY <1>0, <1>4 DEF StartReplay, ReplayTyped
    <2> HIDE DEF r
    <2> QED BY <1>1, <2>2, <2>3
  <1>5. ASSUME NEW t \in Tabs, ListPending(t)
        PROVE  Good
    <2> DEFINE r == [replay[t] EXCEPT !.pc = "running", !.todo = pending]
    <2>1. replay[t] \in ReplayType /\ replay[t].result = "none" /\ pending \in Seq(Codes)
      BY <1>0, <1>5 DEF ReplayTyped, ListPending, WebTypes, ListsTyped
    <2>2. r \in ReplayType /\ r.result = "none"
      BY <2>1 DEF ReplayType
    <2>3. replay' = [replay EXCEPT ![t] = r]
      BY <1>0, <1>5 DEF ListPending, ReplayTyped
    <2> HIDE DEF r
    <2> QED BY <1>1, <2>2, <2>3
  <1>6. ASSUME NEW t \in Tabs, SendScan(t)
        PROVE  Good
    <2>4. PICK answer \in Answers(Current(t)) :
              /\ ExecuteScan(Current(t), answer)
              /\ replay' = [replay EXCEPT ![t].result = answer]
      BY <1>6 DEF SendScan
    <2> DEFINE r == [replay[t] EXCEPT !.result = answer]
    <2>1. /\ replay[t] \in ReplayType /\ replay[t].pc = "running"
          /\ answer \in Results
      BY <1>6, <2>4, CurrentIsCode, Executed DEF SendScan
    <2>2. r \in ReplayType /\ r.pc = "running"
      BY <2>1 DEF ReplayType
    <2>3. replay' = [replay EXCEPT ![t] = r]
      BY <1>0, <2>4 DEF ReplayTyped
    <2> HIDE DEF r
    <2> QED BY <1>0, <1>6, <2>2, <2>3 DEF ReplayTyped
  <1>7. ASSUME NEW t \in Tabs, Sending(t), NEW b \in BOOLEAN, Advance(t, b)
        PROVE  Good
    <2> DEFINE p == replay[t]
               r == [p EXCEPT !.todo = Tail(p.todo), !.result = "none",
                              !.failures = 0, !.synced = p.synced \/ b]
    <2>1. replay[t] \in ReplayType /\ Tail(replay[t].todo) \in Seq(Codes)
      BY <1>7, CurrentIsCode
    <2>2. r \in ReplayType /\ r.result = "none"
      <3>1. (p.synced \/ b) \in BOOLEAN
        OBVIOUS
      <3>2. "none" \in Results
        BY DEF Results
      <3> QED BY <2>1, <3>1, <3>2 DEF ReplayType
    <2>3. replay' = [replay EXCEPT ![t] = r]
      BY <1>7 DEF Advance
    <2> HIDE DEF r
    <2> QED BY <1>1, <2>2, <2>3
  <1>8. ASSUME NEW t \in Tabs, Sending(t), Skipped(t)
        PROVE  Good
    <2> DEFINE p == replay[t]
               failures == p.failures + 1
               r == [p EXCEPT !.todo = IF failures >= MaxConsecutiveFailures THEN <<>>
                                       ELSE Tail(p.todo),
                              !.result = "none", !.failures = failures]
    <2>1. replay[t] \in ReplayType /\ Tail(replay[t].todo) \in Seq(Codes)
      BY <1>8, CurrentIsCode
    <2>2. r \in ReplayType /\ r.result = "none"
      <3>1. failures \in Nat
        BY <2>1 DEF ReplayType
      <3>2. "none" \in Results /\ <<>> \in Seq(Codes)
        BY DEF Results
      <3> HIDE DEF failures
      <3> QED BY <2>1, <3>1, <3>2 DEF ReplayType
    <2>3. replay' = [replay EXCEPT ![t] = r]
      BY <1>8 DEF Skipped
    <2> HIDE DEF r
    <2> QED BY <1>1, <2>2, <2>3
  <1> HIDE DEF Good
  <1>9. ASSUME NEW t \in Tabs, Replay(t) PROVE Good
    <2>1. Synced(t) \/ Blocked(t) => Good
      BY <1>7 DEF Synced, Blocked
    <2>2. Failed(t) => Good
      BY <1>8 DEF Failed
    <2>3. EndPass(t) => Good
      BY <1>3 DEF EndPass
    <2> QED BY <1>4, <1>5, <1>6, <1>9, <2>1, <2>2, <2>3 DEF Replay
  <1>10. ASSUME NEW t \in Tabs, Operate(t) PROVE UNCHANGED replay
    BY <1>10 DEF Operate, Submit, DismissBlocked, LiveScan, LiveAnswered,
                 LiveFailed, UndoQueued, UndoSaved, LiveUndo,
                 UndoAnswered, Complete, RefreshOrders
  <1>11. ASSUME NEW t \in Tabs, LiveLost(t) \/ UndoLost(t) \/ Reload(t)
         PROVE  UNCHANGED replay \/ replay' = [replay EXCEPT ![t] = NoPass]
    BY <1>11 DEF LiveLost, UndoLost, Reload
  <1>12. ASSUME NEW t \in Tabs, PassLost(t) PROVE Good
    BY <1>8, <1>12 DEF PassLost
  <1>13. ASSUME NEW c \in Codes, Arrive(c) \/ ArriveUndo(c) PROVE UNCHANGED replay
    BY <1>13 DEF Arrive, ArriveUndo
  <1>14. Good
    BY <1>2, <1>3, <1>9, <1>10, <1>11, <1>12, <1>13 DEF PanelNext
  <1> QED BY <1>14 DEF Good

\* An undo at the server is seen by every pass that has the code
LEMMA Undone ==
    ASSUME WebTypes, NEW t \in Tabs, LiveUndo(t)
    PROVE  /\ UNCHANGED <<storeVars, replay>>
           /\ \/ AtServer' = AtServer /\ UNCHANGED <<wanted, crossed>>
              \/ \E c \in Codes :
                    /\ AtServer' = AtServer \ {c} /\ wanted' = wanted \ {c}
                    /\ crossed \subseteq crossed'
                    /\ \A u \in Tabs :
                          replay[u].pc = "running" /\ c \in LeftOf(u) => c \in crossed'
  <1> DEFINE c == live[t].code
  <1>1. c \in Codes
    BY DEF LiveUndo, WebTypes, LiveTyped
  <1>2. CASE UNCHANGED <<stored, wanted, crossed>>
    BY <1>2 DEF LiveUndo, AtServer
  <1>3. CASE /\ stored' = Without(stored, {c}) /\ wanted' = wanted \ {c}
             /\ crossed' = IF InReplay(c) THEN crossed \cup {c} ELSE crossed
    <2>1. AtServer' = AtServer \ {c}
      BY <1>1, <1>3, WebQueue
    <2>2. ASSUME NEW u \in Tabs, replay[u].pc = "running", c \in LeftOf(u)
          PROVE  c \in crossed'
      <3>1. replay[u].todo \in Seq(Codes)
        BY DEF WebTypes, ReplayTyped, ReplayType
      <3>2. InReplay(c)
        BY <2>2, <3>1, WebLists DEF InReplay, LeftOf
      <3> QED BY <1>3, <3>2
    <2> HIDE DEF c
    <2> QED BY <1>1, <1>3, <2>1, <2>2 DEF LiveUndo
  <1> QED BY <1>2, <1>3 DEF LiveUndo

\* So is a late one, and it is remembered by the code it takes from an operator
LEMMA UndoneLate ==
    ASSUME WebTypes, NEW c \in Codes, ArriveUndo(c)
    PROVE  /\ UNCHANGED <<storeVars, replay, wanted>>
           /\ AtServer \ {c} \subseteq AtServer' /\ crossed \subseteq crossed'
           /\ \/ AtServer \subseteq AtServer' \/ c \in crossed'
              \/ (c \in wanted => c \in InQueue)
           /\ \/ AtServer \subseteq AtServer'
              \/ \A u \in Tabs :
                    replay[u].pc = "running" /\ c \in LeftOf(u) => c \in crossed'
  <1>0. /\ pending \in Seq(Codes)
        /\ \A u \in Tabs : replay[u].todo \in Seq(Codes)
    BY DEF WebTypes, ListsTyped, ReplayTyped, ReplayType
  <1>1. CASE UNCHANGED <<stored, crossed>>
    BY <1>1 DEF ArriveUndo, AtServer
  <1>2. CASE /\ stored' = Without(stored, {c})
             /\ crossed' = IF InReplay(c) \/ (c \in wanted /\ ~Contains(pending, c))
                           THEN crossed \cup {c} ELSE crossed
    <2>1. AtServer' = AtServer \ {c}
      BY <1>2, WebQueue
    <2>2. ASSUME NEW u \in Tabs, replay[u].pc = "running", c \in LeftOf(u)
          PROVE  c \in crossed'
      <3>1. InReplay(c)
        BY <1>0, <2>2, WebLists DEF InReplay, LeftOf
      <3> QED BY <1>2, <3>1
    <2>3. c \in crossed' \/ (c \in wanted => c \in InQueue)
      BY <1>0, <1>2, WebLists DEF InQueue
    <2> QED BY <1>2, <2>1, <2>2, <2>3 DEF ArriveUndo
  <1> QED BY <1>1, <1>2 DEF ArriveUndo

LEMMA CrossedGrows ==
    ASSUME WebTypes, PanelNext
    PROVE  crossed \subseteq crossed'
  <1>1. ASSUME NEW t \in Tabs, LiveUndo(t) PROVE crossed \subseteq crossed'
    BY <1>1, Undone
  <1>2. ASSUME NEW t \in Tabs, Replay(t) PROVE UNCHANGED crossed
    BY <1>2 DEF Replay, StartReplay, ListPending, SendScan, Synced,
                Blocked, Failed, EndPass
  <1>3. ASSUME NEW t \in Tabs, Operate(t), ~LiveUndo(t) PROVE UNCHANGED crossed
    BY <1>3 DEF Operate, Submit, DismissBlocked, LiveScan, LiveAnswered,
                LiveFailed, UndoQueued, UndoSaved, UndoAnswered,
                Complete, RefreshOrders
  <1>4. ASSUME NEW t \in Tabs, LiveLost(t) \/ UndoLost(t) \/ PassLost(t) \/ Reload(t)
        PROVE  UNCHANGED crossed
    BY <1>4 DEF LiveLost, UndoLost, PassLost, Reload
  <1>5. ASSUME NEW c \in Codes, Arrive(c) \/ ArriveUndo(c) PROVE crossed \subseteq crossed'
    BY <1>5, UndoneLate DEF Arrive
  <1> QED BY <1>1, <1>2, <1>3, <1>4, <1>5 DEF PanelNext

LEMMA SentStep ==
    ASSUME WebTypes, SentIsSaved, PanelNext
    PROVE  SentIsSaved'
  <1> SUFFICES ASSUME NEW t \in Tabs,
                      replay'[t].pc = "running", replay'[t].todo # <<>>,
                      replay'[t].result \in {"saved", "synced"}
               PROVE  Head(replay'[t].todo) \in AtServer' \cup crossed'
    BY DEF SentIsSaved
  <1>1. CASE SendScan(t)
    <2>1. replay \in [Tabs -> ReplayType]
      BY DEF WebTypes, ReplayTyped
    <2>5. PICK answer \in Answers(Current(t)) :
              /\ ExecuteScan(Current(t), answer)
              /\ replay' = [replay EXCEPT ![t].result = answer]
      BY <1>1 DEF SendScan
    <2>2. replay'[t].todo = replay[t].todo /\ replay'[t].result = answer
      BY <2>1, <2>5 DEF ReplayType
    <2>3. Current(t) \in Codes /\ Current(t) = Head(replay[t].todo)
      BY <1>1, CurrentIsCode DEF SendScan
    <2>4. Current(t) \in AtServer'
      BY <2>2, <2>3, <2>5, Executed
    <2> QED BY <2>2, <2>3, <2>4
  <1>2. CASE replay'[t] = replay[t]
    <2> DEFINE h == Head(replay[t].todo)
    <2>1. h \in AtServer \cup crossed /\ h \in LeftOf(t)
      <3>1. replay[t].todo \in Seq(Codes)
        BY DEF WebTypes, ReplayTyped, ReplayType
      <3>2. h \in LeftOf(t)
        BY <1>2, <3>1, HeadTailSet DEF LeftOf
      <3> QED BY <1>2, <3>2 DEF SentIsSaved
    <2> HIDE DEF h
    <2>2. CASE AtServer \subseteq AtServer'
      BY <1>2, <2>1, <2>2, CrossedGrows DEF h
    <2>3. ASSUME NEW u \in Tabs, LiveUndo(u) PROVE h \in AtServer' \cup crossed'
      BY <1>2, <2>1, <2>3, Undone
    <2>5. ASSUME NEW c \in Codes, ArriveUndo(c) PROVE h \in AtServer' \cup crossed'
      BY <1>2, <2>1, <2>5, UndoneLate
    <2>4. h \in AtServer' \cup crossed'
      BY <2>1, <2>2, <2>3, <2>5, StoredStep, CrossedGrows
    <2> QED BY <1>2, <2>4 DEF h
  <1>3. CASE replay'[t].result = "none"
    BY <1>3
  <1> QED BY <1>1, <1>2, <1>3, ReplayStep

LEMMA LostStep ==
    ASSUME WebTypes, SentIsSaved, NoScanLost, PanelNext
    PROVE  NoScanLost'
  <1> DEFINE Goal == wanted' \subseteq AtServer' \cup InQueue' \cup Noted' \cup crossed'
  <1>0. wanted \subseteq AtServer \cup InQueue \cup Noted \cup crossed /\ crossed \subseteq crossed'
    BY WebKept, CrossedGrows DEF Noted
  <1> SUFFICES Goal
    BY WebLists DEF NoScanLost, Accounted, AtServer, InQueue, InRefused, Noted
  <1>1. ASSUME NEW t \in Tabs, LiveUndo(t)
        PROVE  Goal
    <2>1. InQueue' = InQueue /\ Noted' = Noted
      BY <1>1, Undone DEF InQueue, Noted, InRefused
    <2> QED BY <1>0, <1>1, <2>1, Undone
  <1>2. CASE /\ AtServer \subseteq AtServer'
             /\ InQueue' = InQueue /\ InRefused' = InRefused /\ UNCHANGED evicted
             /\ wanted' \subseteq wanted
    BY <1>0, <1>2 DEF Noted
  <1>3. ASSUME NEW t \in Tabs, LiveScan(t)
        PROVE  Goal
    <2> DEFINE c == live[t].code
    <2>1. PICK answer \in Answers(c) :
              /\ ExecuteScan(c, answer)
              /\ wanted' = IF answer \in {"saved", "synced"} THEN wanted \cup {c} ELSE wanted
      BY <1>3 DEF LiveScan
    <2>2. c \in Codes
      BY <1>3 DEF LiveScan, WebTypes, LiveTyped
    <2>3. AtServer \subseteq AtServer' /\ (answer \in {"saved", "synced"} => c \in AtServer')
      BY <2>1, <2>2, Executed
    <2>4. InQueue' = InQueue /\ Noted' = Noted
      BY <1>3 DEF LiveScan, InQueue, Noted, InRefused
    <2> HIDE DEF c
    <2> QED BY <1>0, <2>1, <2>3, <2>4
  <1>4. ASSUME NEW t \in Tabs, LiveFailed(t) \/ LiveLost(t)
        PROVE  Goal
    <2> DEFINE c == live[t].code
    <2>1. c \in Codes /\ pending' = Enqueued(c) /\ wanted' = wanted \cup {c}
      BY <1>4 DEF LiveFailed, LiveLost, Queue, WebTypes, LiveTyped
    <2>2. InQueue' = InQueue \cup {c}
      BY <2>1, WebQueue
    <2>3. AtServer' = AtServer /\ Noted' = Noted
      BY <1>4 DEF LiveFailed, LiveLost, AtServer, Noted, InRefused
    <2> HIDE DEF c
    <2> QED BY <1>0, <2>1, <2>2, <2>3
  <1>5. ASSUME NEW t \in Tabs, UndoQueued(t)
        PROVE  Goal
    <2> DEFINE c == Last(view[t])
    <2>1. c \in Codes /\ pending' = Removed(c) /\ wanted' = wanted \ {c}
      BY <1>5, WebLists DEF UndoQueued, WebTypes, ListsTyped
    <2>2. InQueue' = InQueue \ {c}
      BY <2>1, WebQueue
    <2>3. AtServer' = AtServer /\ Noted' = Noted
      BY <1>5 DEF UndoQueued, AtServer, Noted, InRefused
    <2> HIDE DEF c
    <2> QED BY <1>0, <2>1, <2>2, <2>3
  <1>6. ASSUME NEW t \in Tabs, NEW c \in Codes, DismissBlocked(t, c)
        PROVE  Goal
    <2>1. /\ AtServer' = AtServer /\ InQueue' = InQueue
          /\ evicted' = evicted /\ wanted' = wanted \ {c}
      BY <1>6 DEF DismissBlocked, AtServer, InQueue
    <2>2. InRefused' = InRefused \ {c}
      BY <1>6, WebQueue DEF DismissBlocked
    <2> QED BY <1>0, <2>1, <2>2 DEF Noted
  <1>7. ASSUME NEW t \in Tabs, Synced(t)
        PROVE  Goal
    <2> DEFINE c == Current(t)
    <2>1. c \in Codes /\ c \in AtServer \cup crossed
      BY <1>7, CurrentIsCode DEF Synced, SentIsSaved
    <2>2. InQueue' = InQueue \ {c}
      BY <1>7, <2>1, WebQueue DEF Synced
    <2>3. AtServer' = AtServer /\ Noted' = Noted /\ wanted' = wanted
      BY <1>7 DEF Synced, AtServer, Noted, InRefused
    <2> HIDE DEF c
    <2> QED BY <1>0, <2>1, <2>2, <2>3
  <1>8. ASSUME NEW t \in Tabs, Blocked(t)
        PROVE  Goal
    <2> DEFINE c == Current(t)
    <2>1. c \in Codes
      BY <1>8, CurrentIsCode DEF Blocked
    <2>2. InQueue' = InQueue \ {c}
      BY <1>8, <2>1, WebQueue DEF Blocked
    <2>3. Noted \subseteq Noted' /\ (c \in InQueue => c \in Noted')
      <3>1. CASE Contains(pending, c)
        <4>1. Refuse(c)
          BY <1>8, <3>1 DEF Blocked
        <4> QED BY <2>1, <4>1, Recorded DEF Noted
      <3>2. CASE ~Contains(pending, c)
        <4>1. c \notin InQueue
          BY <3>2, WebLists DEF InQueue, WebTypes, ListsTyped
        <4> QED BY <1>8, <3>2, <4>1 DEF Blocked, Noted, InRefused
      <3> QED BY <3>1, <3>2
    <2>4. AtServer' = AtServer /\ wanted' = wanted
      BY <1>8 DEF Blocked, AtServer
    <2> HIDE DEF c
    <2> QED BY <1>0, <2>2, <2>3, <2>4
  <1>9. \A t \in Tabs : (\E c \in Codes : DismissBlocked(t, c)) => Goal
    BY <1>6
  <1>10. ASSUME NEW c \in Codes, ArriveUndo(c)
         PROVE  Goal
    <2>1. InQueue' = InQueue /\ Noted' = Noted
      BY <1>10, UndoneLate DEF InQueue, Noted, InRefused
    <2> QED BY <1>0, <1>10, <2>1, UndoneLate
  <1> HIDE DEF Goal
  <1> QED BY <1>1, <1>2, <1>3, <1>4, <1>5, <1>7, <1>8, <1>9, <1>10, StoredStep, PendingStep

LEMMA WebInvStep ==
    ASSUME WebInv, [PanelNext]_panelVars
    PROVE  WebInv'
  <1>1. CASE PanelNext
    BY <1>1, ListsStep, LiveStep, ReplayStep, SentStep, LostStep DEF WebInv, WebTypes
  <1>2. CASE UNCHANGED panelVars
    <2>1. WebTypes'
      BY <1>2 DEF WebInv, WebTypes, ListsTyped, LiveTyped, ReplayTyped, panelVars
    <2>2. SentIsSaved'
      BY <1>2 DEF WebInv, SentIsSaved, AtServer, panelVars
    <2>3. NoScanLost'
      BY <1>2 DEF WebInv, NoScanLost, Accounted, panelVars
    <2> QED BY <2>1, <2>2, <2>3 DEF WebInv
  <1> QED BY <1>1, <1>2

LEMMA WebInvInit == PanelInit => WebInv
  <1> SUFFICES ASSUME PanelInit PROVE WebInv
    OBVIOUS
  <1>1. NoAction \in LiveType /\ NoAction.pc = "none"
    BY DEF LiveType, NoAction, Results
  <1>2. NoPass \in ReplayType /\ NoPass.result = "none"
    BY DEF ReplayType, NoPass, Results
  <1>3. live = [t \in Tabs |-> NoAction] /\ replay = [t \in Tabs |-> NoPass]
    BY DEF PanelInit
  <1>4. LiveTyped /\ ReplayTyped
    BY <1>1, <1>2, <1>3 DEF LiveTyped, ReplayTyped
  <1>5. ListsTyped /\ NoScanLost
    BY DEF PanelInit, ListsTyped, NoScanLost
  <1>6. SentIsSaved
    BY <1>2, <1>3 DEF SentIsSaved
  <1> QED BY <1>4, <1>5, <1>6 DEF WebInv, WebTypes

\* A scan that the browser saved or queued for an operator, who did not take it back, is
\* at the server, in the queue or shown as refused, with any number of tabs and with or
\* without the Web Locks API: a pass drops from the queue only what the server has or
\* refuses, whatever the other tabs do to the queue meanwhile (replay.ts, queueStore.ts).
\* Excluded are the refused scans that newer ones pushed out (BLOCKED_LIMIT), an undo at
\* the server while a pass sends the code, and an undo that comes late, after the code
\* was acknowledged again.
THEOREM BrowserScansAreNotLost == PanelSpec => []NoScanLost
  <1>1. WebInv => NoScanLost
    BY DEF WebInv
  <1>2. WebInv /\ [PanelNext]_panelVars => WebInv'
    BY WebInvStep
  <1> QED BY WebInvInit, <1>1, <1>2, PTL DEF PanelSpec

-----------------------------------------------------------------------------
(* All of the types of OfflineQueue.                                       *)

\* The position and the queue hold a code once at most
Distinct == IsInjective(stored) /\ IsInjective(pending)

\* A pass goes on only below the limit of failures; one that has not begun has none
FailuresBounded ==
    \A t \in Tabs :
        /\ replay[t].failures <= MaxConsecutiveFailures
        /\ replay[t].todo # <<>> => replay[t].failures < MaxConsecutiveFailures
        /\ replay[t].pc # "running" => replay[t].failures = 0

\* The rest of the variables
SetsTyped ==
    /\ completed \in BOOLEAN
    /\ flying \subseteq Kinds \X Codes /\ Len(blocked) <= BlockedLimit
    /\ wanted \subseteq Codes /\ evicted \subseteq Codes /\ crossed \subseteq Codes
CountsTyped == scans \in 0..MaxScans /\ faults \in 0..MaxFaults

PanelInv == WebInv /\ Distinct /\ FailuresBounded /\ SetsTyped /\ CountsTyped

LEMMA DistinctStep ==
    ASSUME WebTypes, Distinct, PanelNext
    PROVE  Distinct'
  <1>0. stored \in Seq(Codes) /\ pending \in Seq(Codes)
    BY DEF WebTypes, ListsTyped
  <1>1. ASSUME NEW c \in Codes, pending' = Removed(c) \/ pending' = Enqueued(c)
        PROVE  IsInjective(pending')
    <2>1. CASE pending' = Removed(c)
      BY <1>0, <2>1, WithoutSet DEF Removed, Distinct
    <2>2. CASE pending' = Enqueued(c)
      <3>1. CASE Contains(pending, c)
        BY <2>2, <3>1 DEF Enqueued, Distinct
      <3>2. CASE ~Contains(pending, c)
        BY <1>0, <2>2, <3>2, WebLists, AppendSet DEF Enqueued, Distinct
      <3> QED BY <3>1, <3>2
    <2> QED BY <1>1, <2>1, <2>2
  <1> DEFINE Executes(c) == \E answer \in Answers(c) : ExecuteScan(c, answer)
  <1>2. ASSUME NEW c \in Codes, Executes(c) \/ stored' = Without(stored, {c})
        PROVE  IsInjective(stored')
    <2>1. CASE stored' = Without(stored, {c})
      BY <1>0, <2>1, WithoutSet DEF Distinct
    <2>2. ASSUME NEW answer \in Answers(c), ExecuteScan(c, answer)
          PROVE  IsInjective(stored')
      <3>1. CASE answer = "saved"
        <4>1. c \notin ToSet(stored)
          BY <1>0, <3>1, WebLists DEF Answers, ScanAnswer
        <4>2. stored' = Append(stored, c)
          BY <2>2, <3>1 DEF ExecuteScan
        <4> QED BY <1>0, <4>1, <4>2, AppendSet DEF Distinct
      <3>2. CASE answer # "saved"
        BY <2>2, <3>2 DEF ExecuteScan, Distinct
      <3> QED BY <3>1, <3>2
    <2> QED BY <1>2, <2>1, <2>2
  <1>3. UNCHANGED pending \/ \E c \in Codes : pending' = Removed(c) \/ pending' = Enqueued(c)
    <2>1. ASSUME NEW t \in Tabs, Replay(t)
          PROVE  UNCHANGED pending \/ \E c \in Codes : pending' = Removed(c)
      <3>1. Synced(t) \/ Blocked(t) \/ UNCHANGED pending
        BY <2>1 DEF Replay, StartReplay, ListPending, SendScan, Failed, EndPass
      <3>2. Synced(t) \/ Blocked(t) => Current(t) \in Codes /\ pending' = Removed(Current(t))
        BY CurrentIsCode DEF Synced, Blocked
      <3> QED BY <3>1, <3>2
    <2>2. ASSUME NEW t \in Tabs, LiveFailed(t) \/ LiveLost(t)
          PROVE  \E c \in Codes : pending' = Enqueued(c)
      BY <2>2 DEF LiveFailed, LiveLost, Queue, WebTypes, LiveTyped
    <2>3. ASSUME NEW t \in Tabs, UndoQueued(t)
          PROVE  \E c \in Codes : pending' = Removed(c)
      BY <2>3, WebLists DEF UndoQueued, WebTypes, ListsTyped
    <2>4. ASSUME NEW t \in Tabs, Operate(t)
          PROVE  LiveFailed(t) \/ UndoQueued(t) \/ UNCHANGED pending
      BY <2>4 DEF Operate, Submit, DismissBlocked, LiveScan, LiveAnswered, UndoSaved,
                  LiveUndo, UndoAnswered, Complete, RefreshOrders
    <2>5. ASSUME NEW t \in Tabs, UndoLost(t) \/ PassLost(t) \/ Reload(t)
          PROVE  UNCHANGED pending
      BY <2>5 DEF UndoLost, PassLost, Reload
    <2>6. ASSUME NEW c \in Codes, Arrive(c) \/ ArriveUndo(c) PROVE UNCHANGED pending
      BY <2>6 DEF Arrive, ArriveUndo
    <2> QED BY <2>1, <2>2, <2>3, <2>4, <2>5, <2>6 DEF PanelNext
  <1>4. \/ UNCHANGED stored
        \/ \E c \in Codes : Executes(c) \/ stored' = Without(stored, {c})
    <2>1. ASSUME NEW t \in Tabs, Replay(t)
          PROVE  UNCHANGED stored \/ \E c \in Codes : Executes(c)
      <3>1. SendScan(t) \/ UNCHANGED stored
        BY <2>1 DEF Replay, StartReplay, ListPending, Synced, Blocked, Failed, EndPass
      <3>2. SendScan(t) => Current(t) \in Codes /\ Executes(Current(t))
        BY CurrentIsCode DEF SendScan
      <3> QED BY <3>1, <3>2
    <2>2. ASSUME NEW t \in Tabs, LiveScan(t)
          PROVE  \E c \in Codes : Executes(c)
      BY <2>2 DEF LiveScan, WebTypes, LiveTyped
    <2>3. ASSUME NEW t \in Tabs, LiveUndo(t)
          PROVE  UNCHANGED stored \/ \E c \in Codes : stored' = Without(stored, {c})
      BY <2>3 DEF LiveUndo, WebTypes, LiveTyped
    <2>4. ASSUME NEW t \in Tabs, Operate(t)
          PROVE  LiveScan(t) \/ LiveUndo(t) \/ UNCHANGED stored
      BY <2>4 DEF Operate, Submit, DismissBlocked, LiveAnswered, LiveFailed, UndoQueued,
                  UndoSaved, UndoAnswered, Complete, RefreshOrders
    <2>5. ASSUME NEW t \in Tabs, LiveLost(t) \/ UndoLost(t) \/ PassLost(t) \/ Reload(t)
          PROVE  UNCHANGED stored
      BY <2>5 DEF LiveLost, UndoLost, PassLost, Reload
    <2>6. ASSUME NEW c \in Codes, Arrive(c) PROVE Executes(c)
      BY <2>6 DEF Arrive, Answers
    <2>7. ASSUME NEW c \in Codes, ArriveUndo(c)
          PROVE  UNCHANGED stored \/ stored' = Without(stored, {c})
      BY <2>7 DEF ArriveUndo
    <2> QED BY <2>1, <2>2, <2>3, <2>4, <2>5, <2>6, <2>7 DEF PanelNext
  <1>5. IsInjective(pending')
    <2>1. UNCHANGED pending => IsInjective(pending')
      BY DEF Distinct
    <2> QED BY <1>1, <1>3, <2>1
  <1>6. IsInjective(stored')
    <2>1. UNCHANGED stored => IsInjective(stored')
      BY DEF Distinct
    <2> QED BY <1>2, <1>4, <2>1
  <1> QED BY <1>5, <1>6 DEF Distinct

LEMMA FailuresStep ==
    ASSUME WebTypes, FailuresBounded, PanelNext
    PROVE  FailuresBounded'
  <1> DEFINE Fine(r) == /\ r.failures <= MaxConsecutiveFailures
                        /\ r.todo # <<>> => r.failures < MaxConsecutiveFailures
                        /\ r.pc # "running" => r.failures = 0
  <1>0. /\ replay \in [Tabs -> ReplayType] /\ MaxConsecutiveFailures \in Nat \ {0}
        /\ \A t \in Tabs : Fine(replay[t]) /\ replay[t].failures \in Nat
    BY NumberAssumption DEF WebTypes, ReplayTyped, FailuresBounded, ReplayType
  <1> SUFFICES ASSUME NEW t \in Tabs PROVE Fine(replay'[t])
    BY DEF FailuresBounded
  <1>1. CASE replay'[t] = replay[t]
    BY <1>0, <1>1
  <1>2. CASE replay'[t] = NoPass
    BY <1>0, <1>2 DEF NoPass
  <1>3. CASE StartReplay(t)
    <2>1. replay'[t] = [NoPass EXCEPT !.pc = "waiting"]
      BY <1>0, <1>3 DEF StartReplay
    <2> QED BY <1>0, <2>1 DEF NoPass
  <1>4. CASE ListPending(t)
    <2>1. /\ replay'[t].failures = replay[t].failures /\ replay'[t].pc = "running"
          /\ replay[t].pc # "running"
      BY <1>0, <1>4 DEF ListPending, ReplayType
    <2> QED BY <1>0, <2>1
  <1>5. CASE SendScan(t)
    <2>1. /\ replay'[t].failures = replay[t].failures /\ replay'[t].pc = replay[t].pc
          /\ replay'[t].todo = replay[t].todo
      BY <1>0, <1>5 DEF SendScan, ReplayType
    <2> QED BY <1>0, <2>1
  <1>6. CASE \E b \in BOOLEAN : Sending(t) /\ Advance(t, b)
    <2>1. replay'[t].failures = 0 /\ replay'[t].pc = "running"
      BY <1>0, <1>6, CurrentIsCode DEF Advance, ReplayType
    <2> QED BY <1>0, <2>1
  <1>7. CASE Sending(t) /\ Skipped(t)
    <2> DEFINE n == replay[t].failures + 1
    <2>1. /\ replay'[t].failures = n /\ replay'[t].pc = "running"
          /\ n >= MaxConsecutiveFailures => replay'[t].todo = <<>>
      BY <1>0, <1>7, CurrentIsCode DEF Skipped, ReplayType
    <2>2. n \in Nat /\ n <= MaxConsecutiveFailures
      BY <1>0, <1>7 DEF Sending
    <2> HIDE DEF n
    <2> QED BY <1>0, <2>1, <2>2
  <1>8. ASSUME NEW u \in Tabs, Replay(u)
        PROVE  \/ replay'[t] = replay[t] \/ replay'[t] = NoPass
               \/ StartReplay(t) \/ ListPending(t) \/ SendScan(t)
               \/ \E b \in BOOLEAN : Sending(t) /\ Advance(t, b)
               \/ Sending(t) /\ Skipped(t)
    <2>1. CASE u = t
      BY <1>0, <1>8, <2>1 DEF Replay, Synced, Blocked, Failed, EndPass
    <2>2. CASE u # t
      BY <1>0, <1>8, <2>2 DEF Replay, StartReplay, ListPending, SendScan, Synced, Blocked,
                              Failed, EndPass, Advance, Skipped
    <2> QED BY <2>1, <2>2
  <1>9. ASSUME NEW u \in Tabs, Operate(u) PROVE UNCHANGED replay
    BY <1>9 DEF Operate, Submit, DismissBlocked, LiveScan, LiveAnswered, LiveFailed,
                UndoQueued, UndoSaved, LiveUndo, UndoAnswered, Complete, RefreshOrders
  <1>10. ASSUME NEW u \in Tabs, LiveLost(u) \/ UndoLost(u) \/ Reload(u)
         PROVE  replay'[t] = replay[t] \/ replay'[t] = NoPass
    BY <1>0, <1>10 DEF LiveLost, UndoLost, Reload
  <1>11. ASSUME NEW u \in Tabs, PassLost(u)
         PROVE  replay'[t] = replay[t] \/ (Sending(t) /\ Skipped(t))
    BY <1>0, <1>11 DEF PassLost, Skipped
  <1>12. ASSUME NEW c \in Codes, Arrive(c) \/ ArriveUndo(c) PROVE UNCHANGED replay
    BY <1>12 DEF Arrive, ArriveUndo
  <1> HIDE DEF Fine
  <1> QED BY <1>1, <1>2, <1>3, <1>4, <1>5, <1>6, <1>7, <1>8, <1>9, <1>10, <1>11, <1>12
          DEF PanelNext

LEMMA SetsStep ==
    ASSUME WebTypes, SetsTyped, PanelNext
    PROVE  SetsTyped'
  <1> DEFINE Refused == Len(blocked') <= BlockedLimit /\ evicted' \subseteq Codes
             Still == UNCHANGED <<completed, flying, blocked, evicted, wanted, crossed>>
  <1>0. /\ \A t \in Tabs : live[t].pc # "none" => live[t].code \in Codes
        /\ \A t \in Tabs : view[t] \in Seq(Codes)
        /\ \A t \in Tabs : Sending(t) => Current(t) \in Codes
        /\ \A k \in Kinds : \A c \in Codes : Late(k, c) \subseteq Kinds \X Codes
    BY CurrentIsCode DEF WebTypes, LiveTyped, ListsTyped, Late
  <1>1. UNCHANGED <<blocked, evicted>> => Refused
    BY DEF SetsTyped
  <1>2. ASSUME NEW t \in Tabs, Replay(t) PROVE SetsTyped'
    <2>1. ASSUME Blocked(t) PROVE Refused /\ UNCHANGED <<completed, flying, wanted, crossed>>
      <3>1. Refuse(Current(t)) => Refused
        BY <1>0, <2>1, Recorded DEF Blocked, SetsTyped
      <3> QED BY <1>1, <2>1, <3>1 DEF Blocked
    <2>2. Blocked(t) \/ Still
      BY <1>2 DEF Replay, StartReplay, ListPending, SendScan, Synced, Failed, EndPass
    <2> QED BY <2>1, <2>2 DEF SetsTyped
  <1>3. ASSUME NEW t \in Tabs, Operate(t) PROVE SetsTyped'
    <2>1. ASSUME LiveScan(t) \/ LiveFailed(t) \/ UndoQueued(t)
          PROVE  /\ wanted' \subseteq Codes
                 /\ UNCHANGED <<completed, flying, blocked, evicted, crossed>>
      BY <1>0, <2>1 DEF LiveScan, LiveFailed, UndoQueued, Queue, SetsTyped
    <2>2. ASSUME LiveUndo(t)
          PROVE  /\ wanted' \subseteq Codes /\ crossed' \subseteq Codes
                 /\ UNCHANGED <<completed, flying, blocked, evicted>>
      BY <1>0, <2>2 DEF LiveUndo, SetsTyped
    <2>3. ASSUME Complete(t)
          PROVE  /\ completed' \in BOOLEAN
                 /\ UNCHANGED <<flying, blocked, evicted, wanted, crossed>>
      BY <2>3 DEF Complete
    <2>4. ASSUME NEW c \in Codes, DismissBlocked(t, c)
          PROVE  /\ wanted' \subseteq Codes /\ Refused
                 /\ UNCHANGED <<completed, flying, crossed>>
      <3>1. Len(blocked') <= Len(blocked) /\ blocked \in Seq(Codes) /\ blocked' \in Seq(Codes)
        BY <2>4, WebQueue DEF DismissBlocked, WebTypes, ListsTyped
      <3>2. Len(blocked') <= BlockedLimit
        BY <3>1, NumberAssumption DEF SetsTyped
      <3> QED BY <2>4, <3>2 DEF DismissBlocked, SetsTyped
    <2>5. \/ LiveScan(t) \/ LiveFailed(t) \/ UndoQueued(t) \/ LiveUndo(t) \/ Complete(t)
          \/ \E c \in Codes : DismissBlocked(t, c)
          \/ Still
      BY <1>3 DEF Operate, Submit, LiveAnswered, UndoSaved, UndoAnswered, RefreshOrders
    <2> HIDE DEF Refused
    <2>6. /\ LiveScan(t) \/ LiveFailed(t) \/ UndoQueued(t) => SetsTyped'
          /\ LiveUndo(t) => SetsTyped'
          /\ Complete(t) => SetsTyped'
      BY <2>1, <2>2, <2>3 DEF SetsTyped
    <2>7. ASSUME NEW c \in Codes, DismissBlocked(t, c) PROVE SetsTyped'
      BY <2>4, <2>7 DEF SetsTyped, Refused
    <2>8. Still => SetsTyped'
      BY DEF SetsTyped
    <2>9. (\E c \in Codes : DismissBlocked(t, c)) => SetsTyped'
      BY <2>7
    <2> HIDE DEF Still
    <2> QED BY <2>5, <2>6, <2>8, <2>9
  <1>4. ASSUME NEW t \in Tabs, LiveLost(t) PROVE SetsTyped'
    <2>1. /\ wanted' = wanted \cup {live[t].code} /\ live[t].code \in Codes
          /\ flying' = flying \/ flying' = flying \cup Late("scan", live[t].code)
          /\ UNCHANGED <<completed, blocked, evicted, crossed>>
      BY <1>0, <1>4 DEF LiveLost, Queue
    <2> QED BY <1>0, <2>1 DEF SetsTyped, Kinds
  <1>5. ASSUME NEW t \in Tabs, UndoLost(t) PROVE SetsTyped'
    <2>1. /\ wanted' \subseteq wanted /\ live[t].code \in Codes
          /\ flying' = flying \/ flying' = flying \cup Late("undo", live[t].code)
          /\ UNCHANGED <<completed, blocked, evicted, crossed>>
      BY <1>0, <1>5 DEF UndoLost
    <2> QED BY <1>0, <2>1 DEF SetsTyped, Kinds
  <1>6. ASSUME NEW t \in Tabs, PassLost(t) PROVE SetsTyped'
    <2>1. /\ Current(t) \in Codes
          /\ flying' = flying \/ flying' = flying \cup Late("scan", Current(t))
          /\ UNCHANGED <<completed, blocked, evicted, wanted, crossed>>
      BY <1>0, <1>6 DEF PassLost
    <2> QED BY <1>0, <2>1 DEF SetsTyped, Kinds
  <1>7. ASSUME NEW t \in Tabs, Reload(t) PROVE SetsTyped'
    <2>1. /\ wanted' \subseteq wanted
          /\ UNCHANGED <<completed, blocked, evicted, crossed>>
      BY <1>7 DEF Reload
    <2>2. flying' \subseteq Kinds \X Codes
      <3>1. live[t].pc \in Kinds => Late(live[t].pc, live[t].code) \subseteq Kinds \X Codes
        BY <1>0 DEF Kinds
      <3>2. Sending(t) => Late("scan", Current(t)) \subseteq Kinds \X Codes
        BY <1>0 DEF Kinds
      <3> QED BY <1>7, <3>1, <3>2 DEF Reload, SetsTyped
    <2> QED BY <2>1, <2>2 DEF SetsTyped
  <1>8. ASSUME NEW c \in Codes, Arrive(c) \/ ArriveUndo(c) PROVE SetsTyped'
    BY <1>8 DEF Arrive, ArriveUndo, SetsTyped
  <1> QED BY <1>2, <1>3, <1>4, <1>5, <1>6, <1>7, <1>8 DEF PanelNext

LEMMA CountsStep ==
    ASSUME CountsTyped, PanelNext
    PROVE  CountsTyped'
  <1>0. MaxScans \in Nat /\ MaxFaults \in Nat
    BY NumberAssumption
  <1>1. ASSUME NEW t \in Tabs, Replay(t) PROVE UNCHANGED <<scans, faults>>
    BY <1>1 DEF Replay, StartReplay, ListPending, SendScan, Synced, Blocked, Failed, EndPass
  <1>2. ASSUME NEW t \in Tabs, Operate(t)
        PROVE  /\ UNCHANGED faults
               /\ UNCHANGED scans \/ (scans < MaxScans /\ scans' = scans + 1)
    BY <1>2 DEF Operate, Submit, DismissBlocked, LiveScan, LiveAnswered, LiveFailed,
                UndoQueued, UndoSaved, LiveUndo, UndoAnswered, Complete, RefreshOrders
  <1>3. ASSUME NEW t \in Tabs, LiveLost(t) \/ UndoLost(t) \/ PassLost(t) \/ Reload(t)
        PROVE  UNCHANGED scans /\ faults < MaxFaults /\ faults' = faults + 1
    BY <1>3 DEF LiveLost, UndoLost, PassLost, Reload
  <1>4. ASSUME NEW c \in Codes, Arrive(c) \/ ArriveUndo(c) PROVE UNCHANGED <<scans, faults>>
    BY <1>4 DEF Arrive, ArriveUndo
  <1>5. /\ UNCHANGED scans \/ (scans < MaxScans /\ scans' = scans + 1)
        /\ UNCHANGED faults \/ (faults < MaxFaults /\ faults' = faults + 1)
    BY <1>1, <1>2, <1>3, <1>4 DEF PanelNext
  <1> QED BY <1>0, <1>5 DEF CountsTyped

LEMMA PanelInvInit == PanelInit => PanelInv
  <1> SUFFICES ASSUME PanelInit PROVE PanelInv
    OBVIOUS
  <1>1. Distinct /\ SetsTyped
    <2>1. IsInjective(<<>>) /\ Len(<<>>) <= BlockedLimit
      BY NumberAssumption DEF IsInjective
    <2> QED BY <2>1 DEF PanelInit, Distinct, SetsTyped
  <1>2. FailuresBounded /\ CountsTyped
    BY NumberAssumption DEF PanelInit, FailuresBounded, CountsTyped, NoPass
  <1> QED BY <1>1, <1>2, WebInvInit DEF PanelInv

LEMMA PanelInvStep == PanelInv /\ [PanelNext]_panelVars => PanelInv'
  <1> SUFFICES ASSUME PanelInv, [PanelNext]_panelVars PROVE PanelInv'
    OBVIOUS
  <1>0. WebInv /\ WebInv' /\ WebTypes
    BY WebInvStep DEF PanelInv, WebInv
  <1>1. CASE PanelNext
    BY <1>0, <1>1, DistinctStep, FailuresStep, SetsStep, CountsStep DEF PanelInv
  <1>2. CASE UNCHANGED panelVars
    <2>1. Distinct' /\ SetsTyped' /\ CountsTyped'
      BY <1>2 DEF PanelInv, Distinct, SetsTyped, CountsTyped, panelVars
    <2>2. FailuresBounded'
      BY <1>2 DEF PanelInv, FailuresBounded, panelVars
    <2> QED BY <1>0, <2>1, <2>2 DEF PanelInv
  <1> QED BY <1>1, <1>2

\* The queue of the browser and the position hold a code once at most, and a pass is
\* never past its limit of failures: it ends at MAX_CONSECUTIVE_RETRY_FAILURES in a row
\* (replay.ts) and begins with none.
THEOREM PanelTypeCorrect == PanelSpec => []PanelTypeOK
  <1>1. PanelInv => PanelTypeOK
    <2> SUFFICES ASSUME PanelInv PROVE PanelTypeOK
      OBVIOUS
    <2>1. ASSUME NEW t \in Tabs
          PROVE  /\ view[t] \in Seq(Codes) /\ shown[t] \in Seq(Codes)
                 /\ live[t] \in LiveType /\ replay[t] \in ReplayType
                 /\ replay[t].failures <= MaxConsecutiveFailures
      BY DEF PanelInv, WebInv, WebTypes, ListsTyped, LiveTyped, ReplayTyped, FailuresBounded
    <2>2. \A t \in Tabs : replay[t].failures \in 0..MaxConsecutiveFailures
      BY <2>1, NumberAssumption DEF ReplayType
    <2>3. /\ stored \in Seq(Codes) /\ IsInjective(stored) /\ pending \in Seq(Codes)
          /\ IsInjective(pending) /\ blocked \in Seq(Codes) /\ SetsTyped /\ CountsTyped
      BY DEF PanelInv, WebInv, WebTypes, ListsTyped, Distinct
    <2> QED BY <2>1, <2>2, <2>3 DEF PanelTypeOK, SetsTyped, CountsTyped, LiveType, ReplayType
  <1> QED BY <1>1, PanelInvInit, PanelInvStep, PTL DEF PanelSpec

=============================================================================
