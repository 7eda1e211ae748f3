------------------------------ MODULE ImportsProofs ------------------------------
(***************************************************************************)
(* Theorems about the imports (Imports), for every value of its constants: *)
(* any rows, files, uploads, addresses and number of API processes.        *)
(***************************************************************************)
EXTENDS Imports, FiniteSetTheorems, TLAPS

Deals == {Deal[r] : r \in Rows} \cup {NoDeal}
Keys == [address : Addresses, deal : Deals]
OrderIds == Events \X {Key(a, r) : a \in Addresses, r \in Rows}
ItemIds == Events \X Rows
OrderType == [key : Keys, deal : Deals, status : {Open, Closed, Returned}]
ItemType ==
    [order : OrderIds, plan : Nat, ids : SUBSET Rows, scanned : Nat, status : {Open, Closed}]

-----------------------------------------------------------------------------
(* The inductive invariant.                                                *)

\* Orders ord and positions itm that fit together
Fit(ord, itm) ==
    /\ DOMAIN ord \subseteq OrderIds /\ ord \in [DOMAIN ord -> OrderType]
    /\ DOMAIN itm \subseteq ItemIds /\ itm \in [DOMAIN itm -> ItemType]
    /\ \A o \in DOMAIN ord : ord[o].key = o[2] /\ o[2].deal \in {NoDeal, ord[o].deal}
    /\ \A i \in DOMAIN itm : itm[i].order \in DOMAIN ord

\* The rows a position was given came with the deal of its order, or with none.
Consistent(ord, itm, rows) ==
    \A i \in DOMAIN itm :
       /\ IsFiniteSet(rows[i])
       /\ \A q \in rows[i] : Deal[q[2]] \in {NoDeal, ord[itm[i].order].deal}

Database ==
    /\ Fit(order, item)
    /\ jobs \subseteq Events
    /\ \A o \in DOMAIN order : o[1] \in jobs
    /\ \A i \in DOMAIN item : i[1] \in jobs
    /\ counted \in [DOMAIN item -> SUBSET (jobs \X Rows)]
    /\ Consistent(order, item, counted)
    /\ \A i \in DOMAIN item :
          item[i].plan = Cardinality(counted[i]) /\ item[i].scanned <= item[i].plan
    /\ scans \in 0..MaxScans

\* The keys a session looks for
Candidates(s) == {Key(s.address, r) : r \in Rowset(s.event)} \cup {LegacyKey(s.address)}

\* A session has the fields that Begin gives it.
IsSession(s) ==
    s \in [pc : {"rows"}, event : {s.event}, address : {s.address}, locks : {s.locks},
           todo : {s.todo}, cache : {s.cache}, found : {s.found},
           readOrder : {s.readOrder}, readItem : {s.readItem},
           order : {s.order}, item : {s.item}, given : {s.given}]

SessionOK(s) ==
    /\ IsSession(s)
    /\ s.event \in Events /\ s.address \in Addresses
    /\ s.locks = Locks(s.event, s.address)
    /\ s.todo \in Seq(Rowset(s.event))
    /\ Fit(s.order, s.item)
    /\ s.cache \in [Candidates(s) -> DOMAIN s.order \cup {None}]
    /\ s.found \in [Rowset(s.event) -> DOMAIN s.item \cup {None}]
    /\ s.given \in [DOMAIN s.item -> SUBSET ({s.event} \X Rowset(s.event))]
    /\ s.readItem \in [DOMAIN s.readItem -> ItemType]

\* What the session has read still holds of the orders of its address, whoever writes
\* meanwhile; ord, itm and done are the orders, positions and jobs of the database.
ReadIsValid(s, ord, itm, done) ==
    /\ s.event \notin done
    /\ DOMAIN s.readOrder \subseteq DOMAIN ord /\ DOMAIN s.readItem \subseteq DOMAIN itm
    /\ \A i \in DOMAIN s.readItem : s.readItem[i].order = itm[i].order
    /\ \A o \in DOMAIN ord : o[2].address = s.address =>
          o \in DOMAIN s.readOrder /\ ord[o].deal = s.readOrder[o].deal
    /\ \A i \in DOMAIN itm : itm[i].order[2].address = s.address =>
          /\ i \in DOMAIN s.readItem
          /\ itm[i].plan = s.readItem[i].plan /\ itm[i].ids = s.readItem[i].ids
    /\ \A k \in Candidates(s) : s.cache[k] \notin DOMAIN s.readOrder =>
          \A o \in DOMAIN ord : o[2] = k => ord[o].status = Returned

\* The session works on the orders of its address, and on what it created.
OrdersWorked(s) ==
    /\ DOMAIN s.readOrder \subseteq DOMAIN s.order
    /\ \A o \in DOMAIN s.order \ DOMAIN s.readOrder :
          o[1] = s.event /\ o[2] \in Candidates(s) /\ s.cache[o[2]] = o
    /\ \A o \in DOMAIN s.readOrder : s.order[o].deal # s.readOrder[o].deal =>
          s.readOrder[o].deal = NoDeal /\ o[2].address = s.address
    /\ \A k \in Candidates(s) : s.cache[k] # None => s.cache[k][2] = k

ItemsWorked(s) ==
    /\ DOMAIN s.readItem \subseteq DOMAIN s.item
    /\ \A i \in DOMAIN s.readItem :
          /\ s.item[i].order = s.readItem[i].order
          /\ s.item[i].plan = s.readItem[i].plan + Cardinality(s.given[i])
          /\ s.given[i] = {} => s.item[i] = s.readItem[i]
    /\ \A i \in DOMAIN s.item \ DOMAIN s.readItem :
          /\ i[1] = s.event /\ i \in s.given[i]
          /\ s.item[i].plan = Cardinality(s.given[i]) /\ s.item[i].scanned = 0
    /\ \A i \in DOMAIN s.item : s.given[i] # {} => s.item[i].order[2].address = s.address
    /\ Consistent(s.order, s.item, s.given)

SessionInv(s, ord, itm, done) ==
    /\ SessionOK(s)
    /\ ReadIsValid(s, ord, itm, done)
    /\ OrdersWorked(s)
    /\ ItemsWorked(s)

\* Two sessions are about different uploads and different addresses.
Apart ==
    \A v, w \in Importers : v # w /\ session[v].pc = "rows" /\ session[w].pc = "rows" =>
        session[v].event # session[w].event /\ session[v].address # session[w].address

Sessions ==
    /\ session = [w \in Importers |-> session[w]]
    /\ \A w \in Importers :
          session[w] = Idle \/ SessionInv(session[w], order, item, jobs)

ImportsInv == Database /\ OneActiveOrderPerKey /\ Sessions /\ Apart

-----------------------------------------------------------------------------
(* With one address, what keeps a row from being counted twice.            *)

\* A position is in an order of one of its rows' keys.
InOwnOrder(itm) ==
    \A i \in DOMAIN itm : \A r \in itm[i].ids : itm[i].order[2].deal \in {Deal[r], NoDeal}

RowsInDatabase ==
    /\ InOwnOrder(item)
    /\ \A i \in DOMAIN item : \A q \in counted[i] : q[2] \in item[i].ids
    /\ \A i, j \in ActiveItems : \A p \in counted[i], q \in counted[j] :
          p[2] = q[2] => i = j /\ p = q

\* A row the session gives or may give is in no position of an active order.
RowsInSession(s, ord, itm) ==
    /\ InOwnOrder(s.item)
    /\ \A i \in DOMAIN s.item : \A q \in s.given[i] : q[2] \in s.item[i].ids
    /\ \A i \in DOMAIN s.readItem : s.readItem[i].ids \subseteq s.item[i].ids
    /\ \A i, j \in DOMAIN s.item : s.given[i] \cap s.given[j] # {} => i = j
    /\ \A r \in Rowset(s.event) :
          (s.found[r] = None \/ \E i \in DOMAIN s.item : <<s.event, r>> \in s.given[i])
          => \A j \in DOMAIN itm : ord[itm[j].order].status # Returned => r \notin itm[j].ids

RowsInv ==
    /\ RowsInDatabase
    /\ \A w \in Importers : session[w] # Idle => RowsInSession(session[w], order, item)

-----------------------------------------------------------------------------
(* The work on one row.                                                    *)

LEMMA RowTypes ==
    ASSUME NEW s, SessionOK(s), NEW r \in Rowset(s.event)
    PROVE  /\ r \in Rows /\ Deal[r] \in Deals /\ NoDeal \in Deals
           /\ Key(s.address, r) \in Keys \cap Candidates(s)
           /\ LegacyKey(s.address) \in Keys \cap Candidates(s)
           /\ Key(s.address, r).address = s.address /\ Key(s.address, r).deal = Deal[r]
           /\ LegacyKey(s.address).address = s.address /\ LegacyKey(s.address).deal = NoDeal
  <1>1. s.event \in Events /\ s.address \in Addresses
    BY DEF SessionOK, IsSession
  <1>2. r \in Rows
    BY <1>1, FileAssumption DEF Rowset, ToSet
  <1> QED BY <1>1, <1>2 DEF Deals, Keys, Key, LegacyKey, Candidates

\* The order a row goes to, if the session knows one
LEMMA Resolved ==
    ASSUME NEW s, SessionOK(s), OrdersWorked(s), NEW r \in Rowset(s.event),
           Resolve(s, r) # None
    PROVE  LET o == Resolve(s, r)
           IN /\ o \in DOMAIN s.order /\ o[2] \in Candidates(s) /\ o \in OrderIds
              /\ o[2].address = s.address /\ o[2].deal \in {Deal[r], NoDeal}
              /\ NoDeal \in {Deal[r], s.order[o].deal} \/ s.order[o].deal = Deal[r]
  <1> DEFINE own == s.cache[Key(s.address, r)]
             legacy == s.cache[LegacyKey(s.address)]
  <1>1. /\ Key(s.address, r) \in Candidates(s) /\ LegacyKey(s.address) \in Candidates(s)
        /\ Key(s.address, r).address = s.address /\ Key(s.address, r).deal = Deal[r]
        /\ LegacyKey(s.address).address = s.address /\ LegacyKey(s.address).deal = NoDeal
    BY RowTypes
  <1>2. own \in DOMAIN s.order \cup {None} /\ legacy \in DOMAIN s.order \cup {None}
    BY <1>1 DEF SessionOK, IsSession
  <1>3. /\ own # None => own[2] = Key(s.address, r)
        /\ legacy # None => legacy[2] = LegacyKey(s.address)
    BY <1>1 DEF OrdersWorked
  <1>4. \A o \in DOMAIN s.order : o[2].deal \in {NoDeal, s.order[o].deal} /\ o \in OrderIds
    BY DEF SessionOK, IsSession, Fit
  <1> HIDE DEF own, legacy
  <1>5. CASE own # None
    <2>1. Resolve(s, r) = own
      BY <1>5 DEF Resolve, own
    <2> QED BY <1>1, <1>2, <1>3, <1>4, <1>5, <2>1
  <1>6. CASE own = None
    <2>1. Resolve(s, r) = legacy /\ AcceptsDeal(s, legacy, r)
      BY <1>6 DEF Resolve, own, legacy
    <2> QED BY <1>1, <1>2, <1>3, <1>4, <2>1 DEF AcceptsDeal
  <1> QED BY <1>5, <1>6

LEMMA OrderFilled ==
    ASSUME NEW s, NEW ord, NEW itm, NEW done, SessionInv(s, ord, itm, done),
           NEW r \in Rowset(s.event), Resolve(s, r) # None
    PROVE  LET u == WithOrder(s, r)
               o == Resolve(s, r)
           IN /\ Resolve(u, r) = o
              /\ u = [s EXCEPT !.order = u.order]
              /\ DOMAIN u.order = DOMAIN s.order
              /\ u.order \in [DOMAIN s.order -> OrderType]
              /\ \A p \in DOMAIN s.order :
                    /\ u.order[p].key = s.order[p].key
                    /\ p # o => u.order[p] = s.order[p]
              /\ u.order[o].deal = IF s.order[o].deal = NoDeal THEN Deal[r] ELSE s.order[o].deal
  <1> DEFINE u == WithOrder(s, r)
             o == Resolve(s, r)
             deal == IF s.order[o].deal = NoDeal THEN Deal[r] ELSE s.order[o].deal
  <1>0. SessionOK(s) /\ OrdersWorked(s)
    BY DEF SessionInv
  <1>1. /\ o \in DOMAIN s.order
        /\ NoDeal \in {Deal[r], s.order[o].deal} \/ s.order[o].deal = Deal[r]
    BY <1>0, Resolved
  <1>2. u = [s EXCEPT !.order = [s.order EXCEPT ![o] = [s.order[o] EXCEPT !.deal = deal]]]
    BY <1>0 DEF WithOrder, SessionOK, IsSession
  <1>3. s.order \in [DOMAIN s.order -> OrderType] /\ deal \in Deals
    BY <1>0, <1>1, RowTypes DEF SessionOK, IsSession, Fit, OrderType
  <1> HIDE DEF o, u, deal
  <1>4. /\ u.order = [s.order EXCEPT ![o] = [s.order[o] EXCEPT !.deal = deal]]
        /\ u = [s EXCEPT !.order = u.order] /\ u.cache = s.cache /\ u.address = s.address
    BY <1>0, <1>2 DEF SessionOK, IsSession
  <1>5. u.order \in [DOMAIN s.order -> OrderType] /\ u.order[o].deal = deal
    BY <1>1, <1>3, <1>4 DEF OrderType
  <1>6. \A p \in DOMAIN s.order : u.order[p].key = s.order[p].key /\ (p # o => u.order[p] = s.order[p])
    BY <1>1, <1>3, <1>4 DEF OrderType
  <1>7. Resolve(u, r) = o
    BY <1>1, <1>4, <1>5 DEF Resolve, AcceptsDeal, o, deal
  <1> QED BY <1>4, <1>5, <1>6, <1>7 DEF o, u, deal

\* The columns of a session that the work on its orders leaves alone
SameItems(s, u) ==
    /\ u.event = s.event /\ u.address = s.address /\ u.todo = s.todo
    /\ u.readOrder = s.readOrder /\ u.readItem = s.readItem
    /\ u.found = s.found /\ u.item = s.item /\ u.given = s.given

LEMMA OrderMade ==
    ASSUME NEW s, NEW ord, NEW itm, NEW done, SessionInv(s, ord, itm, done),
           \A o \in DOMAIN ord : o[1] \in done,
           NEW r \in Rowset(s.event), Resolve(s, r) = None
    PROVE  LET u == WithOrder(s, r)
               k == Key(s.address, r)
               id == <<s.event, k>>
           IN /\ Resolve(u, r) = id
              /\ id \notin DOMAIN s.order /\ s.cache[k] = None
              /\ u = [s EXCEPT !.order = u.order, !.cache = u.cache]
              /\ u.cache = [s.cache EXCEPT ![k] = id]
              /\ DOMAIN u.order = DOMAIN s.order \cup {id}
              /\ \A p \in DOMAIN s.order : u.order[p] = s.order[p]
              /\ u.order[id] = [key |-> k, deal |-> Deal[r], status |-> Open]
  <1> DEFINE u == WithOrder(s, r)
             k == Key(s.address, r)
             id == <<s.event, k>>
             new == [key |-> k, deal |-> Deal[r], status |-> Open]
  <1>0. SessionOK(s) /\ OrdersWorked(s) /\ ReadIsValid(s, ord, itm, done)
    BY DEF SessionInv
  <1>1. k \in Candidates(s) /\ id # None
    BY <1>0, RowTypes DEF None
  <1>2. s.cache[k] = None
    BY DEF Resolve
  <1>3. id \notin DOMAIN s.order
    <2>1. id \notin DOMAIN s.readOrder
      BY <1>0 DEF ReadIsValid
    <2> QED BY <1>0, <1>1, <1>2, <2>1 DEF OrdersWorked
  <1>4. u = [s EXCEPT !.order = With(s.order, id, new), !.cache = [s.cache EXCEPT ![k] = id]]
    BY <1>0 DEF WithOrder, SessionOK, IsSession
  <1> HIDE DEF u, k, id, new
  <1>5. /\ u.order = With(s.order, id, new) /\ u.cache = [s.cache EXCEPT ![k] = id]
        /\ u.address = s.address /\ u = [s EXCEPT !.order = u.order, !.cache = u.cache]
    BY <1>0, <1>4 DEF SessionOK, IsSession
  <1>6. /\ DOMAIN u.order = DOMAIN s.order \cup {id} /\ u.order[id] = new
        /\ \A p \in DOMAIN s.order : u.order[p] = s.order[p]
    BY <1>3, <1>5 DEF With
  <1>7. Resolve(u, r) = id
    <2>1. u.cache[k] = id
      BY <1>0, <1>1, <1>5 DEF SessionOK, IsSession
    <2> QED BY <1>1, <1>5, <2>1 DEF Resolve, k
  <1> QED BY <1>2, <1>3, <1>5, <1>6, <1>7 DEF u, k, id, new

\* The order of a row is one of the session's address, and of the row's deal.
LEMMA OrderOfRow ==
    ASSUME NEW s, NEW ord, NEW itm, NEW done, SessionInv(s, ord, itm, done),
           \A o \in DOMAIN ord : o[1] \in done,
           NEW r \in Rowset(s.event)
    PROVE  LET u == WithOrder(s, r)
               o == Resolve(u, r)
           IN /\ SessionInv(u, ord, itm, done)
              /\ SameItems(s, u)
              /\ o \in DOMAIN u.order /\ o[2].address = s.address
              /\ o[2].deal \in {Deal[r], NoDeal}
              /\ Deal[r] \in {NoDeal, u.order[o].deal}
  <1> DEFINE u == WithOrder(s, r)
             o == Resolve(u, r)
  <1>0. /\ SessionOK(s) /\ OrdersWorked(s) /\ ItemsWorked(s) /\ ReadIsValid(s, ord, itm, done)
        /\ Fit(s.order, s.item)
    BY DEF SessionInv, SessionOK, IsSession
  <1>1. CASE Resolve(s, r) # None
    <2>1. /\ o = Resolve(s, r)
          /\ u = [s EXCEPT !.order = u.order]
          /\ DOMAIN u.order = DOMAIN s.order
          /\ u.order \in [DOMAIN s.order -> OrderType]
          /\ \A p \in DOMAIN s.order :
                u.order[p].key = s.order[p].key /\ (p # o => u.order[p] = s.order[p])
          /\ u.order[o].deal = IF s.order[o].deal = NoDeal THEN Deal[r] ELSE s.order[o].deal
      BY <1>1, OrderFilled
    <2>2. /\ o \in DOMAIN s.order /\ o[2] \in Candidates(s) /\ o \in OrderIds
          /\ o[2].address = s.address /\ o[2].deal \in {Deal[r], NoDeal}
          /\ NoDeal \in {Deal[r], s.order[o].deal} \/ s.order[o].deal = Deal[r]
      BY <1>0, <1>1, <2>1, Resolved
    <2> HIDE DEF u, o
    <2>3. SameItems(s, u) /\ u.cache = s.cache /\ Candidates(u) = Candidates(s)
          /\ u.pc = "rows" /\ u.locks = s.locks
      BY <1>0, <2>1 DEF SameItems, SessionOK, IsSession, Candidates
    <2>4. \A p \in DOMAIN s.order : s.order[p].deal # NoDeal => u.order[p].deal = s.order[p].deal
      BY <2>1
    <2>5. Fit(u.order, u.item)
      <3>1. \A p \in DOMAIN u.order : u.order[p].key = p[2] /\ p[2].deal \in {NoDeal, u.order[p].deal}
        BY <1>0, <2>1, <2>4 DEF Fit
      <3> QED BY <1>0, <2>1, <2>3, <3>1 DEF Fit, SameItems
    <2>6. SessionOK(u)
      BY <1>0, <2>1, <2>3, <2>5 DEF SessionOK, IsSession, SameItems
    <2>7. ReadIsValid(u, ord, itm, done)
      BY <1>0, <2>3 DEF ReadIsValid, SameItems
    <2>8. OrdersWorked(u)
      BY <1>0, <2>1, <2>2, <2>3, <2>4 DEF OrdersWorked, SameItems
    <2>9. ItemsWorked(u)
      <3>1. Consistent(u.order, u.item, u.given)
        BY <1>0, <2>3, <2>4 DEF ItemsWorked, Consistent, SameItems, Fit
      <3> QED BY <1>0, <2>3, <3>1 DEF ItemsWorked, SameItems
    <2>10. Deal[r] \in {NoDeal, u.order[o].deal}
      BY <2>1, <2>2
    <2> QED BY <2>1, <2>2, <2>3, <2>6, <2>7, <2>8, <2>9, <2>10 DEF SessionInv, u, o
  <1>2. CASE Resolve(s, r) = None
    <2> DEFINE k == Key(s.address, r)
    <2>0. /\ o = <<s.event, k>>
          /\ <<s.event, k>> \notin DOMAIN s.order /\ s.cache[k] = None
          /\ u = [s EXCEPT !.order = u.order, !.cache = u.cache]
          /\ u.cache = [s.cache EXCEPT ![k] = <<s.event, k>>]
          /\ DOMAIN u.order = DOMAIN s.order \cup {<<s.event, k>>}
          /\ \A p \in DOMAIN s.order : u.order[p] = s.order[p]
          /\ u.order[<<s.event, k>>] = [key |-> k, deal |-> Deal[r], status |-> Open]
      BY <1>2, OrderMade
    <2> HIDE DEF u, o
    <2>1. /\ o = <<s.event, k>>
          /\ o \notin DOMAIN s.order /\ s.cache[k] = None
          /\ u = [s EXCEPT !.order = u.order, !.cache = u.cache]
          /\ u.cache = [s.cache EXCEPT ![k] = o]
          /\ DOMAIN u.order = DOMAIN s.order \cup {o}
          /\ \A p \in DOMAIN s.order : u.order[p] = s.order[p]
          /\ u.order[o] = [key |-> k, deal |-> Deal[r], status |-> Open]
      BY <2>0
    <2>2. /\ k \in Candidates(s) \cap Keys /\ k.address = s.address /\ k.deal = Deal[r]
          /\ Deal[r] \in Deals
      BY <1>0, RowTypes
    <2>12. <<s.event, k>> \in OrderIds
      <3>1. s.event \in Events /\ s.address \in Addresses /\ r \in Rows
        BY <1>0, RowTypes DEF SessionOK
      <3> QED BY <3>1 DEF OrderIds
    <2>3. o \in OrderIds /\ o[2] = k /\ o[1] = s.event /\ o # None
      BY <1>0, <2>1, <2>2, <2>12 DEF OrderIds, None
    <2> HIDE DEF k
    <2>4. SameItems(s, u) /\ Candidates(u) = Candidates(s) /\ u.pc = "rows" /\ u.locks = s.locks
      <3>1. \E x, y : u = [s EXCEPT !.order = x, !.cache = y]
        BY <2>1
      <3> QED BY <1>0, <3>1 DEF SameItems, SessionOK, IsSession, Candidates
    <2>5. Fit(u.order, u.item)
      <3>1. u.order[o] \in OrderType
        BY <2>1, <2>2 DEF OrderType
      <3>2. \A p \in DOMAIN u.order :
               /\ u.order[p] \in OrderType /\ p \in OrderIds
               /\ u.order[p].key = p[2] /\ p[2].deal \in {NoDeal, u.order[p].deal}
        BY <1>0, <2>1, <2>2, <2>3, <3>1 DEF Fit
      <3>3. u.order = [p \in DOMAIN u.order |-> u.order[p]]
        <4>1. u.order = With(s.order, o, [key |-> k, deal |-> Deal[r], status |-> Open])
          BY <1>0, <1>2, <2>1 DEF WithOrder, SessionOK, IsSession, u, k
        <4> QED BY <4>1 DEF With
      <3> QED BY <1>0, <2>1, <2>4, <3>2, <3>3 DEF Fit, SameItems
    <2>6. u.cache \in [Candidates(u) -> DOMAIN u.order \cup {None}]
      BY <1>0, <2>1, <2>2, <2>4 DEF SessionOK, IsSession
    <2>7. SessionOK(u)
      BY <1>0, <2>1, <2>4, <2>5, <2>6 DEF SessionOK, IsSession, SameItems
    <2>8. /\ u.cache[k] = o /\ \A c \in Candidates(s) : c # k => u.cache[c] = s.cache[c]
      BY <1>0, <2>1, <2>2 DEF SessionOK
    <2>9. ReadIsValid(u, ord, itm, done)
      <3>1. None \notin DOMAIN s.readOrder
        BY <1>0 DEF OrdersWorked, Fit, OrderIds, None
      <3>2. \A p \in DOMAIN ord : p[2] = k => ord[p].status = Returned
        BY <1>0, <2>1, <2>2, <3>1 DEF ReadIsValid
      <3> QED BY <1>0, <2>4, <2>8, <3>2 DEF ReadIsValid, SameItems
    <2>10. OrdersWorked(u)
      <3>1. o \notin DOMAIN u.readOrder /\ DOMAIN u.readOrder = DOMAIN s.readOrder
        BY <1>0, <2>1, <2>4 DEF OrdersWorked, SameItems
      <3>2. \A p \in DOMAIN s.order \ DOMAIN s.readOrder : p[2] # k
        BY <1>0, <2>1, <2>2 DEF OrdersWorked, SessionOK, IsSession, Fit, OrderIds, None
      <3> QED BY <1>0, <2>1, <2>2, <2>3, <2>4, <2>8, <3>1, <3>2 DEF OrdersWorked, SameItems
    <2>11. ItemsWorked(u)
      <3>1. Consistent(u.order, u.item, u.given)
        BY <1>0, <2>1, <2>4 DEF ItemsWorked, Consistent, SameItems, Fit
      <3> QED BY <1>0, <2>4, <3>1 DEF ItemsWorked, SameItems
    <2> QED BY <2>1, <2>2, <2>3, <2>4, <2>7, <2>9, <2>10, <2>11 DEF SessionInv, u, o
  <1> QED BY <1>1, <1>2

\* The columns of a session that the work on its positions leaves alone
SameOrders(s, u) ==
    /\ u.event = s.event /\ u.address = s.address /\ u.todo = s.todo
    /\ u.readOrder = s.readOrder /\ u.readItem = s.readItem
    /\ u.cache = s.cache /\ u.order = s.order
    /\ u.pc = s.pc /\ u.locks = s.locks /\ Candidates(u) = Candidates(s)

\* A position with one row more
Grown(s, u, i, r) ==
    /\ DOMAIN u.item = DOMAIN s.item \cup {i}
    /\ u.item = [j \in DOMAIN u.item |-> u.item[j]]
    /\ u.item[i] \in ItemType
    /\ \A j \in DOMAIN s.item : j # i => u.item[j] = s.item[j]
    /\ u.given = [j \in DOMAIN u.item |-> u.given[j]]
    /\ u.given[i] = {<<s.event, r>>} \cup (IF i \in DOMAIN s.item THEN s.given[i] ELSE {})
    /\ \A j \in DOMAIN s.item : j # i => u.given[j] = s.given[j]
    /\ u.found \in {s.found, [s.found EXCEPT ![r] = i]}

LEMMA Merged ==
    ASSUME NEW s, SessionOK(s), NEW r \in Rowset(s.event), NEW i \in DOMAIN s.item
    PROVE  LET u == Merge(s, i, r)
           IN /\ SameOrders(s, u) /\ Grown(s, u, i, r)
              /\ IsSession(u)
              /\ u.item[i].order = s.item[i].order /\ u.item[i].plan = s.item[i].plan + 1
              /\ u.item[i].ids = s.item[i].ids \cup {r}
              /\ u.item[i].scanned = s.item[i].scanned
  <1> DEFINE u == Merge(s, i, r)
             plan == s.item[i].plan + 1
             status == IF s.item[i].status = Closed /\ s.item[i].scanned < plan
                       THEN Open ELSE s.item[i].status
             now == [s.item[i] EXCEPT !.plan = plan, !.ids = s.item[i].ids \cup {r},
                                      !.status = status]
             rows == s.given[i] \cup {<<s.event, r>>}
  <1>0. /\ s.item \in [DOMAIN s.item -> ItemType]
        /\ s.given \in [DOMAIN s.item -> SUBSET ({s.event} \X Rowset(s.event))]
    BY DEF SessionOK, IsSession, Fit
  <1>1. s.item[i] \in ItemType /\ r \in Rows
    BY <1>0, RowTypes
  <1>2. u = [s EXCEPT !.item = [s.item EXCEPT ![i] = now],
                      !.found = [s.found EXCEPT ![r] = i],
                      !.given = [s.given EXCEPT ![i] = rows]]
    <2>2. u = [s EXCEPT !.item[i] = now, !.found[r] = i, !.given[i] = @ \cup {<<s.event, r>>}]
      BY DEF Merge, now
    <2> HIDE DEF u
    <2> QED BY <2>2 DEF SessionOK, IsSession
  <1>3. now \in ItemType
    <2>1. /\ plan \in Nat /\ status \in {Open, Closed}
          /\ s.item[i].ids \cup {r} \in SUBSET Rows
      BY <1>1 DEF ItemType
    <2> HIDE DEF plan, status
    <2> QED BY <1>1, <2>1 DEF ItemType
  <1>4. /\ now.order = s.item[i].order /\ now.plan = s.item[i].plan + 1
        /\ now.ids = s.item[i].ids \cup {r} /\ now.scanned = s.item[i].scanned
    BY <1>1 DEF ItemType
  <1> HIDE DEF u, now, rows
  <1>5. /\ u.item = [s.item EXCEPT ![i] = now] /\ u.found = [s.found EXCEPT ![r] = i]
        /\ u.given = [s.given EXCEPT ![i] = rows]
        /\ IsSession(u) /\ SameOrders(s, u)
    BY <1>2 DEF SessionOK, IsSession, SameOrders, Candidates
  <1>6. Grown(s, u, i, r)
    BY <1>0, <1>3, <1>5 DEF Grown, rows
  <1>7. u.item[i] = now
    BY <1>0, <1>5
  <1> QED BY <1>4, <1>5, <1>6, <1>7 DEF u

LEMMA Made ==
    ASSUME NEW s, SessionOK(s), NEW r \in Rowset(s.event), NEW o \in DOMAIN s.order,
           <<s.event, r>> \notin DOMAIN s.item
    PROVE  LET u == NewItem(s, o, r)
               i == <<s.event, r>>
           IN /\ SameOrders(s, u) /\ Grown(s, u, i, r)
              /\ IsSession(u)
              /\ u.item[i].order = o /\ u.item[i].plan = 1 /\ u.item[i].ids = {r}
              /\ u.item[i].scanned = 0
  <1> DEFINE u == NewItem(s, o, r)
             i == <<s.event, r>>
             now == [order |-> o, plan |-> 1, ids |-> {r}, scanned |-> 0, status |-> Open]
  <1>0. /\ s.item \in [DOMAIN s.item -> ItemType]
        /\ s.given \in [DOMAIN s.item -> SUBSET ({s.event} \X Rowset(s.event))]
        /\ o \in OrderIds /\ r \in Rows
    BY RowTypes DEF SessionOK, IsSession, Fit
  <1>1. u = [s EXCEPT !.item = With(s.item, i, now), !.given = With(s.given, i, {i})]
    BY DEF NewItem, SessionOK, IsSession
  <1>2. now \in ItemType
    BY <1>0 DEF ItemType
  <1>3. now.order = o /\ now.plan = 1 /\ now.ids = {r} /\ now.scanned = 0
    OBVIOUS
  <1>4. i = <<s.event, r>> /\ i \notin DOMAIN s.item
    OBVIOUS
  <1> HIDE DEF u, now, i
  <1>5. /\ u.item = With(s.item, i, now) /\ u.given = With(s.given, i, {i})
        /\ u.found = s.found
        /\ IsSession(u) /\ SameOrders(s, u)
    <2> DEFINE x == With(s.item, i, now)
               y == With(s.given, i, {i})
    <2>1. u = [s EXCEPT !.item = x, !.given = y]
      BY <1>1
    <2> HIDE DEF x, y
    <2>2. IsSession(s)
      BY DEF SessionOK
    <2>3. u.item = x /\ u.given = y /\ u.found = s.found
      BY <2>1, <2>2 DEF IsSession
    <2>4. IsSession(u)
      BY <2>1, <2>2 DEF IsSession
    <2>5. SameOrders(s, u)
      BY <2>1, <2>2 DEF IsSession, SameOrders, Candidates
    <2> QED BY <2>3, <2>4, <2>5 DEF x, y
  <1>6. Grown(s, u, i, r)
    BY <1>0, <1>2, <1>4, <1>5 DEF Grown, With
  <1>7. u.item[i] = now
    BY <1>5 DEF With
  <1> QED BY <1>3, <1>4, <1>5, <1>6, <1>7 DEF u, i

\* A session that gives one of its rows to a position of an order of its address
\* stays what it was.
LEMMA RowGiven ==
    ASSUME NEW s, NEW u, NEW ord, NEW itm, NEW done, SessionInv(s, ord, itm, done),
           NEW r \in Rowset(s.event), NEW i \in ItemIds, NEW o \in DOMAIN s.order,
           o[2].address = s.address, Deal[r] \in {NoDeal, s.order[o].deal},
           \A j \in DOMAIN s.given : <<s.event, r>> \notin s.given[j],
           SameOrders(s, u), Grown(s, u, i, r), IsSession(u),
           u.item[i].order = o,
           IF i \in DOMAIN s.item
           THEN /\ s.item[i].order = o /\ u.item[i].plan = s.item[i].plan + 1
                /\ u.item[i].scanned = s.item[i].scanned
           ELSE i = <<s.event, r>> /\ u.item[i].plan = 1 /\ u.item[i].scanned = 0
    PROVE  SessionInv(u, ord, itm, done)
  <1>0. /\ SessionOK(s) /\ ReadIsValid(s, ord, itm, done) /\ OrdersWorked(s)
        /\ ItemsWorked(s) /\ Fit(s.order, s.item)
    BY DEF SessionInv, SessionOK, IsSession
  <1>1. /\ DOMAIN s.given = DOMAIN s.item
        /\ \A j \in DOMAIN s.item : s.given[j] \subseteq {s.event} \X Rowset(s.event)
        /\ DOMAIN u.item = DOMAIN s.item \cup {i} /\ i \in DOMAIN u.item
        /\ DOMAIN u.given = DOMAIN u.item
    BY <1>0 DEF SessionOK, IsSession, Grown
  <1>2. u.given \in [DOMAIN u.item -> SUBSET ({u.event} \X Rowset(u.event))]
    <2>1. \A j \in DOMAIN u.item : u.given[j] \subseteq {u.event} \X Rowset(u.event)
      <3>1. u.given[i] \subseteq {s.event} \X Rowset(s.event)
        BY <1>1 DEF Grown
      <3>2. \A j \in DOMAIN s.item : j # i => u.given[j] = s.given[j]
        BY DEF Grown
      <3> QED BY <1>1, <3>1, <3>2 DEF SameOrders
    <2>2. u.given = [j \in DOMAIN u.item |-> u.given[j]]
      BY DEF Grown
    <2> QED BY <2>1, <2>2
  <1>3. Fit(u.order, u.item)
    <2>1. \A j \in DOMAIN u.item :
             j \in ItemIds /\ u.item[j] \in ItemType /\ u.item[j].order \in DOMAIN s.order
      BY <1>0, <1>1 DEF Fit, Grown
    <2>2. u.item = [j \in DOMAIN u.item |-> u.item[j]] /\ u.order = s.order
      BY DEF Grown, SameOrders
    <2> QED BY <1>0, <2>1, <2>2 DEF Fit
  <1>4. u.found \in [Rowset(u.event) -> DOMAIN u.item \cup {None}]
    <2>1. s.found \in [Rowset(s.event) -> DOMAIN u.item \cup {None}]
      BY <1>0, <1>1 DEF SessionOK, IsSession
    <2>2. [s.found EXCEPT ![r] = i] \in [Rowset(s.event) -> DOMAIN u.item \cup {None}]
      BY <1>1, <2>1
    <2> QED BY <2>1, <2>2 DEF Grown, SameOrders
  <1>5. SessionOK(u)
    <2>1. /\ u.event \in Events /\ u.address \in Addresses
          /\ u.locks = Locks(u.event, u.address) /\ u.todo \in Seq(Rowset(u.event))
          /\ u.cache \in [Candidates(u) -> DOMAIN u.order \cup {None}]
          /\ u.readItem \in [DOMAIN u.readItem -> ItemType]
      BY <1>0 DEF SessionOK, IsSession, SameOrders
    <2> QED BY <1>2, <1>3, <1>4, <2>1 DEF SessionOK
  <1>6. ReadIsValid(u, ord, itm, done)
    BY <1>0 DEF ReadIsValid, SameOrders
  <1>7. OrdersWorked(u)
    BY <1>0 DEF OrdersWorked, SameOrders
  <1>8. ItemsWorked(u)
    <2> DEFINE before == IF i \in DOMAIN s.item THEN s.given[i] ELSE {}
    <2>1. IsFiniteSet(before) /\ <<s.event, r>> \notin before
      BY <1>0, <1>1, FS_EmptySet DEF ItemsWorked, Consistent
    <2>2. /\ IsFiniteSet(u.given[i]) /\ Cardinality(u.given[i]) = Cardinality(before) + 1
          /\ u.given[i] = before \cup {<<s.event, r>>}
      <3>1. u.given[i] = before \cup {<<s.event, r>>}
        BY DEF Grown
      <3> HIDE DEF before
      <3> QED BY <2>1, <3>1, FS_AddElement
    <2>3. Consistent(u.order, u.item, u.given)
      <3>1. \A q \in u.given[i] : Deal[q[2]] \in {NoDeal, u.order[o].deal}
        BY <1>0, <2>2 DEF Consistent, ItemsWorked, SameOrders
      <3> QED BY <1>0, <1>1, <2>2, <3>1 DEF Consistent, ItemsWorked, Grown, SameOrders
    <2>4. Cardinality(before) \in Nat /\ (i \notin DOMAIN s.item => Cardinality(before) = 0)
      BY <2>1, FS_CardinalityType, FS_EmptySet
    <2>5. u.item[i].plan = IF i \in DOMAIN s.readItem
                           THEN s.readItem[i].plan + Cardinality(u.given[i])
                           ELSE Cardinality(u.given[i])
      <3>1. CASE i \in DOMAIN s.readItem
        <4>1. /\ i \in DOMAIN s.item /\ before = s.given[i]
              /\ s.item[i].plan = s.readItem[i].plan + Cardinality(before)
          BY <1>0, <3>1 DEF ItemsWorked
        <4>2. s.item[i].plan \in Nat
          BY <1>0, <4>1 DEF Fit, ItemType
        <4>3. u.item[i].plan = s.item[i].plan + 1 /\ s.readItem[i].plan \in Nat
          BY <1>0, <3>1, <4>1 DEF SessionOK, IsSession, ItemType
        <4> HIDE DEF before
        <4> QED BY <2>2, <2>4, <3>1, <4>1, <4>2, <4>3
      <3>2. CASE i \in DOMAIN s.item \ DOMAIN s.readItem
        BY <1>0, <2>2, <3>2 DEF ItemsWorked
      <3>3. CASE i \notin DOMAIN s.item
        BY <1>0, <2>2, <2>4, <3>3 DEF ItemsWorked
      <3> QED BY <3>1, <3>2, <3>3
    <2>6. /\ u.readItem = s.readItem /\ u.event = s.event /\ u.address = s.address
          /\ i \in DOMAIN u.item
          /\ i \in DOMAIN s.readItem => i \in DOMAIN s.item
          /\ u.given[i] # {} /\ o[2].address = s.address
      BY <1>0, <1>1, <2>2 DEF ItemsWorked, SameOrders
    <2>7. /\ DOMAIN u.readItem \subseteq DOMAIN u.item
          /\ \A j \in DOMAIN u.readItem :
                /\ u.item[j].order = u.readItem[j].order
                /\ u.item[j].plan = u.readItem[j].plan + Cardinality(u.given[j])
                /\ u.given[j] = {} => u.item[j] = u.readItem[j]
      <3>1. \A j \in DOMAIN s.item : j # i => u.item[j] = s.item[j] /\ u.given[j] = s.given[j]
        BY DEF Grown
      <3> QED BY <1>0, <1>1, <2>5, <2>6, <3>1 DEF ItemsWorked
    <2>8. \A j \in DOMAIN u.item \ DOMAIN u.readItem :
             /\ j[1] = u.event /\ j \in u.given[j]
             /\ u.item[j].plan = Cardinality(u.given[j]) /\ u.item[j].scanned = 0
      <3>1. \A j \in DOMAIN s.item : j # i => u.item[j] = s.item[j] /\ u.given[j] = s.given[j]
        BY DEF Grown
      <3>2. i \notin DOMAIN s.readItem =>
               /\ i[1] = s.event /\ i \in u.given[i] /\ u.item[i].scanned = 0
        BY <1>0, <2>2 DEF ItemsWorked
      <3> QED BY <1>0, <1>1, <2>5, <2>6, <3>1, <3>2 DEF ItemsWorked
    <2>9. \A j \in DOMAIN u.item : u.given[j] # {} => u.item[j].order[2].address = u.address
      BY <1>0, <1>1, <2>6 DEF ItemsWorked, Grown
    <2> QED BY <2>3, <2>7, <2>8, <2>9 DEF ItemsWorked
  <1> QED BY <1>5, <1>6, <1>7, <1>8 DEF SessionInv

\* What the row r did to the session s: nothing, or it was given to one position.
RowDone(s, t, r) ==
    \/ t = s
    \/ /\ s.found[r] = None
       /\ \A j \in DOMAIN s.given : <<s.event, r>> \notin s.given[j]
       /\ \E i \in DOMAIN t.item :
             /\ Grown(s, t, i, r)
             /\ t.item[i].order[2].deal \in {Deal[r], NoDeal}
             /\ t.item[i].ids = {r} \cup (IF i \in DOMAIN s.item THEN s.item[i].ids ELSE {})
             /\ i \in DOMAIN s.item => t.item[i].order = s.item[i].order

LEMMA RowImported ==
    ASSUME NEW s, NEW ord, NEW itm, NEW done, SessionInv(s, ord, itm, done),
           \A o \in DOMAIN ord : o[1] \in done, \A i \in DOMAIN itm : i[1] \in done,
           NEW r \in Rowset(s.event)
    PROVE  LET t == ImportRow(s, r)
           IN /\ SessionInv(t, ord, itm, done)
              /\ t.event = s.event /\ t.address = s.address
              /\ t.todo = s.todo /\ t.readItem = s.readItem
              /\ RowDone(s, t, r)
  <1> DEFINE t == ImportRow(s, r)
             u == WithOrder(s, r)
             o == Resolve(u, r)
             S == SamePosition(u, o, r)
             known == \/ s.found[r] # None
                      \/ \E i \in DOMAIN s.given : <<s.event, r>> \in s.given[i]
  <1>1. CASE known
    <2>1. t = s
      BY <1>1 DEF ImportRow
    <2> QED BY <2>1 DEF RowDone
  <1>2. CASE ~known
    <2>1. t = IF S # {} THEN Merge(u, CHOOSE i \in S : TRUE, r) ELSE NewItem(u, o, r)
      BY <1>2 DEF ImportRow
    <2>2. /\ SessionInv(u, ord, itm, done)
          /\ SameItems(s, u)
          /\ o \in DOMAIN u.order /\ o[2].address = s.address
          /\ o[2].deal \in {Deal[r], NoDeal}
          /\ Deal[r] \in {NoDeal, u.order[o].deal}
      BY OrderOfRow
    <2>3. \A i \in S : i \in DOMAIN u.item /\ u.item[i].order = o
      BY DEF SamePosition
    <2> HIDE DEF u, o, S, t
    <2>4. /\ SessionOK(u) /\ ItemsWorked(u) /\ ReadIsValid(u, ord, itm, done)
          /\ Fit(u.order, u.item) /\ r \in Rowset(u.event) /\ u.event = s.event
          /\ DOMAIN u.given = DOMAIN u.item /\ u.event \in Events
          /\ \A j \in DOMAIN u.given : <<u.event, r>> \notin u.given[j]
      BY <1>2, <2>2 DEF SessionInv, SessionOK, SameItems
    <2>5. ASSUME NEW i \in ItemIds, Grown(u, t, i, r), SameOrders(u, t),
                 SessionInv(t, ord, itm, done), t.item[i].order = o,
                 t.item[i].ids = {r} \cup (IF i \in DOMAIN u.item THEN u.item[i].ids ELSE {}),
                 i \in DOMAIN u.item => u.item[i].order = o
          PROVE  /\ SessionInv(t, ord, itm, done)
                 /\ t.event = s.event /\ t.address = s.address
                 /\ t.todo = s.todo /\ t.readItem = s.readItem
                 /\ RowDone(s, t, r)
      <3>1. Grown(s, t, i, r) /\ i \in DOMAIN t.item
        BY <2>2, <2>5 DEF Grown, SameItems
      <3>2. t.event = s.event /\ t.address = s.address /\ t.todo = s.todo /\ t.readItem = s.readItem
        BY <2>2, <2>5 DEF SameItems, SameOrders
      <3>3. /\ t.item[i].order[2].deal \in {Deal[r], NoDeal}
            /\ t.item[i].ids = {r} \cup (IF i \in DOMAIN s.item THEN s.item[i].ids ELSE {})
            /\ i \in DOMAIN s.item => t.item[i].order = s.item[i].order
        BY <2>2, <2>5 DEF SameItems
      <3> QED BY <1>2, <2>5, <3>1, <3>2, <3>3 DEF RowDone
    <2>6. CASE S # {}
      <3> DEFINE i == CHOOSE i \in S : TRUE
      <3>1. i \in S /\ t = Merge(u, i, r)
        BY <2>1, <2>6
      <3>2. i \in DOMAIN u.item /\ u.item[i].order = o /\ i \in ItemIds
        BY <2>3, <2>4, <3>1 DEF Fit
      <3> HIDE DEF i
      <3>3. /\ SameOrders(u, t) /\ Grown(u, t, i, r) /\ IsSession(t)
            /\ t.item[i].order = u.item[i].order /\ t.item[i].plan = u.item[i].plan + 1
            /\ t.item[i].ids = u.item[i].ids \cup {r}
            /\ t.item[i].scanned = u.item[i].scanned
        BY <2>4, <3>1, <3>2, Merged
      <3>4. SessionInv(t, ord, itm, done)
        <4>1. o[2].address = u.address
          BY <2>2 DEF SameItems
        <4> QED BY <2>2, <2>4, <3>2, <3>3, <4>1, RowGiven
      <3>5. t.item[i].ids = {r} \cup (IF i \in DOMAIN u.item THEN u.item[i].ids ELSE {})
        BY <3>2, <3>3
      <3> QED BY <2>5, <3>2, <3>3, <3>4, <3>5 DEF t
    <2>7. CASE S = {}
      <3> DEFINE i == <<u.event, r>>
      <3>1. t = NewItem(u, o, r)
        BY <2>1, <2>7
      <3>2. i \notin DOMAIN u.item
        <4>1. i \notin DOMAIN u.readItem
          BY <2>4 DEF ReadIsValid
        <4> QED BY <2>4, <4>1 DEF ItemsWorked
      <3>3. i \in ItemIds
        BY <2>4, RowTypes DEF ItemIds
      <3>4. /\ SameOrders(u, t) /\ Grown(u, t, i, r) /\ IsSession(t)
            /\ t.item[i].order = o /\ t.item[i].plan = 1
            /\ t.item[i].ids = {r} /\ t.item[i].scanned = 0
        BY <2>2, <2>4, <3>1, <3>2, Made
      <3>5. i = <<u.event, r>>
        OBVIOUS
      <3> HIDE DEF i
      <3>6. SessionInv(t, ord, itm, done)
        <4>1. o[2].address = u.address
          BY <2>2 DEF SameItems
        <4> QED BY <2>2, <2>4, <3>2, <3>3, <3>4, <3>5, <4>1, RowGiven
      <3>7. t.item[i].ids = {r} \cup (IF i \in DOMAIN u.item THEN u.item[i].ids ELSE {})
        BY <3>2, <3>4
      <3> QED BY <2>5, <3>2, <3>3, <3>4, <3>6, <3>7 DEF t
    <2> QED BY <2>6, <2>7
  <1> QED BY <1>1, <1>2

\* The session after one row
LEMMA NextSession ==
    ASSUME NEW s, NEW ord, NEW itm, NEW done, SessionInv(s, ord, itm, done),
           \A o \in DOMAIN ord : o[1] \in done, \A i \in DOMAIN itm : i[1] \in done,
           s.todo # <<>>
    PROVE  LET t == ImportRow(s, Head(s.todo))
               u == [t EXCEPT !.todo = Tail(s.todo)]
           IN /\ Head(s.todo) \in Rowset(s.event)
              /\ SessionInv(u, ord, itm, done)
              /\ u.event = s.event /\ u.address = s.address /\ u.readItem = s.readItem
              /\ u.item = t.item /\ u.given = t.given /\ u.found = t.found
              /\ RowDone(s, t, Head(s.todo))
  <1> DEFINE t == ImportRow(s, Head(s.todo))
             rest == Tail(s.todo)
             u == [t EXCEPT !.todo = rest]
  <1>1. /\ s.todo \in Seq(Rowset(s.event))
        /\ Head(s.todo) \in Rowset(s.event) /\ rest \in Seq(Rowset(s.event))
    <2>1. s.todo \in Seq(Rowset(s.event))
      BY DEF SessionInv, SessionOK
    <2>2. \A S : \A q \in Seq(S) : q # <<>> => Head(q) \in S /\ Tail(q) \in Seq(S)
      OBVIOUS
    <2> HIDE DEF t
    <2> QED BY <2>1, <2>2
  <1>2. /\ SessionInv(t, ord, itm, done)
        /\ t.event = s.event /\ t.address = s.address
        /\ t.todo = s.todo /\ t.readItem = s.readItem
        /\ RowDone(s, t, Head(s.todo))
    BY <1>1, RowImported
  <1> HIDE DEF t, rest
  <1>3. IsSession(t)
    BY <1>2 DEF SessionInv, SessionOK
  <1>4. /\ IsSession(u) /\ u.todo = rest
        /\ u.event = t.event /\ u.address = t.address /\ u.locks = t.locks
        /\ u.cache = t.cache /\ u.found = t.found
        /\ u.readOrder = t.readOrder /\ u.readItem = t.readItem
        /\ u.order = t.order /\ u.item = t.item /\ u.given = t.given
    BY <1>3 DEF IsSession
  <1> HIDE DEF u
  <1>5. SessionOK(u)
    BY <1>1, <1>2, <1>4 DEF SessionInv, SessionOK, Candidates
  <1>6. /\ ReadIsValid(u, ord, itm, done) /\ OrdersWorked(u) /\ ItemsWorked(u)
    BY <1>2, <1>4 DEF SessionInv, ReadIsValid, OrdersWorked, ItemsWorked, Candidates
  <1> QED BY <1>1, <1>2, <1>4, <1>5, <1>6 DEF SessionInv, t, u, rest

-----------------------------------------------------------------------------
(* The steps keep the invariant.                                           *)

LEMMA CandidateAddress ==
    ASSUME NEW s, NEW k \in Candidates(s)
    PROVE  k.address = s.address
  BY DEF Candidates, Key, LegacyKey

\* Writes to orders and positions of other addresses, scans, completions and returns do
\* not disturb a session.
LEMMA Undisturbed ==
    ASSUME NEW s, NEW ord, NEW itm, NEW done, NEW ord2, NEW itm2, NEW done2,
           SessionInv(s, ord, itm, done), s.event \notin done2,
           DOMAIN ord \subseteq DOMAIN ord2, DOMAIN itm \subseteq DOMAIN itm2,
           \A i \in DOMAIN itm : itm2[i].order = itm[i].order,
           \A o \in DOMAIN ord2 : o[2].address = s.address =>
              /\ o \in DOMAIN ord /\ ord2[o].deal = ord[o].deal
              /\ ord[o].status = Returned => ord2[o].status = Returned,
           \A i \in DOMAIN itm2 : itm2[i].order[2].address = s.address =>
              i \in DOMAIN itm /\ itm2[i].plan = itm[i].plan /\ itm2[i].ids = itm[i].ids
    PROVE  SessionInv(s, ord2, itm2, done2)
  <1>1. ReadIsValid(s, ord, itm, done)
    BY DEF SessionInv
  <1>2. /\ DOMAIN s.readOrder \subseteq DOMAIN ord2 /\ DOMAIN s.readItem \subseteq DOMAIN itm2
        /\ \A i \in DOMAIN s.readItem : s.readItem[i].order = itm2[i].order
    BY <1>1 DEF ReadIsValid
  <1>3. \A o \in DOMAIN ord2 : o[2].address = s.address =>
           o \in DOMAIN s.readOrder /\ ord2[o].deal = s.readOrder[o].deal
    BY <1>1 DEF ReadIsValid
  <1>4. \A i \in DOMAIN itm2 : itm2[i].order[2].address = s.address =>
           /\ i \in DOMAIN s.readItem
           /\ itm2[i].plan = s.readItem[i].plan /\ itm2[i].ids = s.readItem[i].ids
    BY <1>1 DEF ReadIsValid
  <1>5. \A k \in Candidates(s) : s.cache[k] \notin DOMAIN s.readOrder =>
           \A o \in DOMAIN ord2 : o[2] = k => ord2[o].status = Returned
    BY <1>1, CandidateAddress DEF ReadIsValid
  <1>6. ReadIsValid(s, ord2, itm2, done2)
    BY <1>2, <1>3, <1>4, <1>5 DEF ReadIsValid
  <1> QED BY <1>6 DEF SessionInv

\* The session that Begin opens
Opened(e, a) ==
    LET cache == [k \in {Key(a, r) : r \in Rowset(e)} \cup {LegacyKey(a)} |-> ActiveOrder(k)]
        O == {cache[k] : k \in DOMAIN cache} \ {None}
    IN [pc |-> "rows", event |-> e, address |-> a, locks |-> Locks(e, a),
        todo |-> File[e],
        cache |-> cache, found |-> [r \in Rowset(e) |-> Found(r, O)],
        readOrder |-> order, readItem |-> item,
        order |-> order, item |-> item, given |-> [i \in DOMAIN item |-> {}]]

LEMMA ActiveOrderFound ==
    ASSUME Database, NEW k
    PROVE  /\ ActiveOrder(k) \in DOMAIN order \cup {None}
           /\ ActiveOrder(k) \in DOMAIN order =>
                 Active(ActiveOrder(k)) /\ ActiveOrder(k)[2] = k
           /\ ActiveOrder(k) \notin DOMAIN order =>
                 \A o \in DOMAIN order : o[2] = k => order[o].status = Returned
           /\ None \notin DOMAIN order
  <1> DEFINE S == {o \in DOMAIN order : Active(o) /\ order[o].key = k}
  <1>1. \A o \in DOMAIN order : order[o].key = o[2]
    BY DEF Database, Fit
  <1>2. None \notin DOMAIN order
    BY DEF Database, Fit, OrderIds, None
  <1>3. CASE S = {}
    <2>1. ActiveOrder(k) = None
      BY <1>3 DEF ActiveOrder
    <2> QED BY <1>1, <1>2, <1>3, <2>1 DEF Active
  <1>4. CASE S # {}
    <2>1. ActiveOrder(k) = CHOOSE o \in S : TRUE
      BY <1>4 DEF ActiveOrder
    <2>2. ActiveOrder(k) \in S
      BY <1>4, <2>1
    <2> QED BY <1>1, <1>2, <2>2
  <1> QED BY <1>3, <1>4

LEMMA FoundItem ==
    ASSUME NEW r, NEW O
    PROVE  /\ Found(r, O) \in DOMAIN item \cup {None}
           /\ None \notin DOMAIN item /\ Found(r, O) = None =>
                 FoundInOrders(r, O) \cup FoundByOwnRow(r) = {}
  <1> DEFINE own == FoundByOwnRow(r)
             S == IF own = {} THEN FoundInOrders(r, O) ELSE own
  <1>1. S \subseteq DOMAIN item
    BY DEF FoundByOwnRow, FoundInOrders
  <1>2. Found(r, O) = IF S = {} THEN None ELSE CHOOSE i \in S : TRUE
    BY DEF Found
  <1>3. S # {} => (CHOOSE i \in S : TRUE) \in S
    OBVIOUS
  <1>4. S = {} => FoundInOrders(r, O) \cup own = {}
    OBVIOUS
  <1> HIDE DEF S, own
  <1> QED BY <1>1, <1>2, <1>3, <1>4 DEF own

LEMMA OpenedIsSession ==
    ASSUME Database, NEW e \in Events, NEW a \in Addresses, e \notin jobs
    PROVE  SessionInv(Opened(e, a), order, item, jobs)
  <1> DEFINE s == Opened(e, a)
             O == {ActiveOrder(k) : k \in Candidates(s)} \ {None}
  <1>1. /\ IsSession(s)
        /\ s.event = e /\ s.address = a /\ s.locks = Locks(e, a) /\ s.todo = File[e]
        /\ s.readOrder = order /\ s.readItem = item /\ s.order = order /\ s.item = item
        /\ s.given = [i \in DOMAIN item |-> {}]
    BY DEF Opened, IsSession
  <1>2. /\ s.cache = [k \in Candidates(s) |-> ActiveOrder(k)]
        /\ s.found = [r \in Rowset(e) |-> Found(r, O)]
    <2> DEFINE cache == [k \in {Key(a, r) : r \in Rowset(e)} \cup {LegacyKey(a)} |->
                           ActiveOrder(k)]
               C == {cache[k] : k \in DOMAIN cache} \ {None}
    <2>1. s.cache = cache /\ s.found = [r \in Rowset(e) |-> Found(r, C)]
      BY DEF Opened
    <2>2. Candidates(s) = {Key(a, r) : r \in Rowset(e)} \cup {LegacyKey(a)}
      BY <1>1 DEF Candidates
    <2>3. C = O
      BY <2>2
    <2> HIDE DEF s, C, O
    <2> QED BY <2>1, <2>2, <2>3
  <1> HIDE DEF s, O
  <1>3. Fit(order, item) /\ \A i \in DOMAIN item : item[i] \in ItemType
    BY DEF Database, Fit
  <1>4. SessionOK(s)
    <2>1. s.todo \in Seq(Rowset(e))
      <3>1. File[e] \in Seq(Rows)
        BY FileAssumption
      <3>2. \A x \in 1..Len(File[e]) : File[e][x] \in Rowset(e)
        BY <3>1 DEF Rowset, ToSet
      <3>3. \A S : \A q \in Seq(Rows) : (\A x \in 1..Len(q) : q[x] \in S) => q \in Seq(S)
        OBVIOUS
      <3> QED BY <1>1, <3>1, <3>2, <3>3
    <2>2. s.cache \in [Candidates(s) -> DOMAIN order \cup {None}]
      BY <1>2, ActiveOrderFound
    <2>3. s.found \in [Rowset(e) -> DOMAIN item \cup {None}]
      BY <1>2, FoundItem
    <2>4. s.readItem \in [DOMAIN s.readItem -> ItemType]
      BY <1>1, <1>3 DEF Fit
    <2>5. s.given \in [DOMAIN s.item -> SUBSET ({e} \X Rowset(e))]
      BY <1>1
    <2> QED BY <1>1, <1>3, <2>1, <2>2, <2>3, <2>4, <2>5 DEF SessionOK
  <1>5. ReadIsValid(s, order, item, jobs)
    BY <1>1, <1>2, ActiveOrderFound DEF ReadIsValid
  <1>6. OrdersWorked(s)
    BY <1>1, <1>2, ActiveOrderFound DEF OrdersWorked
  <1>7. ItemsWorked(s)
    <2>1. \A i \in DOMAIN item : item[i].plan \in Nat /\ item[i].plan = item[i].plan + 0
      BY <1>3 DEF ItemType
    <2>2. IsFiniteSet({}) /\ Cardinality({}) = 0
      BY FS_EmptySet
    <2>3. Consistent(s.order, s.item, s.given)
      BY <1>1, <2>2 DEF Consistent
    <2> QED BY <1>1, <2>1, <2>2, <2>3 DEF ItemsWorked
  <1> QED BY <1>4, <1>5, <1>6, <1>7 DEF SessionInv, s

LEMMA DatabaseUnchanged ==
    ASSUME UNCHANGED <<order, item, counted, jobs, scans>>
    PROVE  /\ Database => Database'
           /\ OneActiveOrderPerKey => OneActiveOrderPerKey'
  <1>1. Database => Database'
    BY DEF Database, Fit, Consistent
  <1>2. OneActiveOrderPerKey => OneActiveOrderPerKey'
    BY DEF OneActiveOrderPerKey, Active
  <1> QED BY <1>1, <1>2

LEMMA SessionsTyped ==
    ASSUME Sessions, NEW w \in Importers
    PROVE  /\ session[w] = Idle \/ SessionInv(session[w], order, item, jobs)
           /\ session[w] = Idle => session[w].pc = "idle" /\ session[w].locks = {}
           /\ session[w] # Idle =>
                 /\ SessionInv(session[w], order, item, jobs) /\ session[w].pc = "rows"
                 /\ session[w].event \in Events /\ session[w].address \in Addresses
                 /\ session[w].event \notin jobs
                 /\ session[w].locks = Locks(session[w].event, session[w].address)
  <1>1. session[w] = Idle \/ SessionInv(session[w], order, item, jobs)
    BY DEF Sessions
  <1>2. session[w] = Idle => session[w].pc = "idle" /\ session[w].locks = {}
    BY DEF Idle
  <1>3. ASSUME session[w] # Idle
        PROVE  /\ SessionInv(session[w], order, item, jobs) /\ session[w].pc = "rows"
               /\ session[w].event \in Events /\ session[w].address \in Addresses
               /\ session[w].event \notin jobs
               /\ session[w].locks = Locks(session[w].event, session[w].address)
    BY <1>1, <1>3 DEF SessionInv, SessionOK, IsSession, ReadIsValid
  <1> QED BY <1>1, <1>2, <1>3

\* The sessions after one of them moves and the database stays
LEMMA OneSessionMoves ==
    ASSUME Sessions, NEW w \in Importers, NEW n,
           session' = [session EXCEPT ![w] = n],
           n = Idle \/ SessionInv(n, order, item, jobs),
           UNCHANGED <<order, item, counted, jobs, scans>>
    PROVE  Sessions'
  <1>1. session' = [v \in Importers |-> IF v = w THEN n ELSE session[v]]
    BY DEF Sessions
  <1>2. \A v \in Importers : session'[v] = Idle \/ SessionInv(session'[v], order', item', jobs')
    BY <1>1 DEF Sessions
  <1>3. session' = [v \in Importers |-> session'[v]]
    BY <1>1
  <1> QED BY <1>2, <1>3 DEF Sessions

LEMMA LocksKeepApart ==
    ASSUME NEW e, NEW f, NEW a, NEW b, Locks(e, a) \cap Locks(f, b) = {}
    PROVE  e # f /\ a # b
  <1>1. \A g, c : /\ <<"event", g>> \in Locks(g, c)
                  /\ <<"order", LegacyKey(c)>> \in Locks(g, c)
    BY DEF Locks, RowLocks
  <1> QED BY <1>1

LEMMA BeginStep ==
    ASSUME ImportsInv, NEW w \in Importers, NEW e \in Events, NEW a \in Addresses, Begin(w, e, a)
    PROVE  ImportsInv'
  <1>1. /\ session[w].pc = "idle" /\ e \notin jobs
        /\ \A v \in Importers : session[v].locks \cap Locks(e, a) = {}
        /\ session' = [session EXCEPT ![w] = Opened(e, a)]
        /\ UNCHANGED <<order, item, counted, jobs, scans>>
    BY DEF Begin, Opened
  <1>2. SessionInv(Opened(e, a), order, item, jobs)
    BY <1>1, OpenedIsSession DEF ImportsInv
  <1>3. Sessions'
    BY <1>1, <1>2, OneSessionMoves DEF ImportsInv
  <1>4. Apart'
    <2>1. session' = [v \in Importers |-> IF v = w THEN Opened(e, a) ELSE session[v]]
      BY <1>1 DEF ImportsInv, Sessions
    <2>2. Opened(e, a).event = e /\ Opened(e, a).address = a
      BY DEF Opened
    <2>3. ASSUME NEW v \in Importers, session[v].pc = "rows"
          PROVE  session[v].event # e /\ session[v].address # a
      <3>1. session[v].locks = Locks(session[v].event, session[v].address)
        BY <2>3, SessionsTyped DEF ImportsInv
      <3> QED BY <1>1, <3>1, LocksKeepApart
    <2>4. ASSUME NEW v \in Importers, NEW u \in Importers, v # u,
                 session'[v].pc = "rows", session'[u].pc = "rows"
          PROVE  session'[v].event # session'[u].event /\ session'[v].address # session'[u].address
      <3>1. CASE v = w
        BY <2>1, <2>2, <2>3, <2>4, <3>1
      <3>2. CASE u = w
        BY <2>1, <2>2, <2>3, <2>4, <3>2
      <3>3. CASE v # w /\ u # w
        BY <2>1, <2>4, <3>3 DEF ImportsInv, Apart
      <3> QED BY <3>1, <3>2, <3>3
    <2> QED BY <2>4 DEF Apart
  <1> QED BY <1>1, <1>3, <1>4, DatabaseUnchanged DEF ImportsInv

LEMMA NextRowStep ==
    ASSUME ImportsInv, NEW w \in Importers, NextRow(w)
    PROVE  ImportsInv'
  <1> DEFINE s == session[w]
             n == [ImportRow(s, Head(s.todo)) EXCEPT !.todo = Tail(s.todo)]
  <1>1. /\ s.pc = "rows" /\ s.todo # <<>>
        /\ session' = [session EXCEPT ![w] = n]
        /\ UNCHANGED <<order, item, counted, jobs, scans>>
    BY DEF NextRow
  <1>2. SessionInv(s, order, item, jobs)
    BY <1>1, SessionsTyped DEF ImportsInv
  <1>3. /\ SessionInv(n, order, item, jobs)
        /\ n.event = s.event /\ n.address = s.address
    <2>1. /\ \A o \in DOMAIN order : o[1] \in jobs
          /\ \A i \in DOMAIN item : i[1] \in jobs
      BY DEF ImportsInv, Database
    <2> QED BY <1>1, <1>2, <2>1, NextSession
  <1> HIDE DEF s, n
  <1>4. Sessions'
    BY <1>1, <1>3, OneSessionMoves DEF ImportsInv
  <1>5. Apart'
    <2>1. session' = [v \in Importers |-> IF v = w THEN n ELSE session[v]]
      BY <1>1 DEF ImportsInv, Sessions
    <2>2. \A v \in Importers : session'[v].pc = "rows" =>
             /\ session[v].pc = "rows"
             /\ session'[v].event = session[v].event /\ session'[v].address = session[v].address
      BY <1>1, <1>3, <2>1 DEF s
    <2> QED BY <2>2 DEF ImportsInv, Apart
  <1> QED BY <1>1, <1>4, <1>5, DatabaseUnchanged DEF ImportsInv

\* Closing a session keeps the others apart.
LEMMA ClosedStaysApart ==
    ASSUME Sessions, Apart, NEW w \in Importers, session' = [session EXCEPT ![w] = Idle]
    PROVE  /\ Apart'
           /\ session' = [v \in Importers |-> IF v = w THEN Idle ELSE session[v]]
  <1>1. session' = [v \in Importers |-> IF v = w THEN Idle ELSE session[v]]
    BY DEF Sessions
  <1>2. \A v \in Importers : session'[v].pc = "rows" => session'[v] = session[v]
    BY <1>1 DEF Idle
  <1>3. Apart'
    BY <1>2 DEF Apart
  <1> QED BY <1>1, <1>3

LEMMA RollbackStep ==
    ASSUME ImportsInv, NEW w \in Importers, Rollback(w)
    PROVE  ImportsInv'
  <1>1. /\ session' = [session EXCEPT ![w] = Idle]
        /\ UNCHANGED <<order, item, counted, jobs, scans>>
    BY DEF Rollback
  <1>2. Sessions'
    BY <1>1, OneSessionMoves DEF ImportsInv
  <1>3. Apart'
    BY <1>1, ClosedStaysApart DEF ImportsInv
  <1> QED BY <1>1, <1>2, <1>3, DatabaseUnchanged DEF ImportsInv

-----------------------------------------------------------------------------
(* The writes of an import.                                                *)

\* The orders after the commit of the session s
LEMMA OrdersCommitted ==
    ASSUME Database, NEW s, SessionInv(s, order, item, jobs),
           order' = [o \in DOMAIN order \cup DOMAIN s.order |-> OrderWritten(s, o)]
    PROVE  /\ DOMAIN order' = DOMAIN order \cup DOMAIN s.order
           /\ \A o \in DOMAIN order :
                 /\ order'[o] \in OrderType
                 /\ order'[o].key = order[o].key /\ order'[o].status = order[o].status
                 /\ order[o].deal \in {NoDeal, order'[o].deal}
                 /\ o[2].address # s.address => order'[o] = order[o]
           /\ \A o \in DOMAIN s.order \ DOMAIN order :
                 /\ order'[o] = s.order[o]
                 /\ o[1] = s.event /\ o[2].address = s.address
                 /\ o[2] \in Candidates(s) /\ s.cache[o[2]] = o
           /\ \A o \in DOMAIN s.order : o[2].address = s.address =>
                 order'[o].deal = s.order[o].deal
  <1>0. /\ SessionOK(s) /\ ReadIsValid(s, order, item, jobs) /\ OrdersWorked(s)
        /\ Fit(s.order, s.item) /\ Fit(order, item)
    BY DEF SessionInv, SessionOK, Database
  <1>1. /\ \A o \in DOMAIN order : order[o] \in OrderType /\ o[1] \in jobs
        /\ \A o \in DOMAIN s.order : s.order[o] \in OrderType
        /\ s.event \notin jobs
    BY <1>0 DEF Fit, Database, ReadIsValid
  <1>2. \A o \in DOMAIN s.order \ DOMAIN order :
           /\ order'[o] = s.order[o]
           /\ o[1] = s.event /\ o[2].address = s.address
           /\ o[2] \in Candidates(s) /\ s.cache[o[2]] = o
    <2>1. DOMAIN s.readOrder \subseteq DOMAIN order
      BY <1>0 DEF ReadIsValid
    <2> QED BY <1>0, <2>1, CandidateAddress DEF OrdersWorked, OrderWritten
  <1>3. ASSUME NEW o \in DOMAIN order
        PROVE  /\ order'[o] \in OrderType
               /\ order'[o].key = order[o].key /\ order'[o].status = order[o].status
               /\ order[o].deal \in {NoDeal, order'[o].deal}
               /\ o[2].address # s.address => order'[o] = order[o]
               /\ o \in DOMAIN s.order /\ o[2].address = s.address =>
                     order'[o].deal = s.order[o].deal
    <2>1. CASE o \in DOMAIN s.readOrder /\ s.order[o].deal # s.readOrder[o].deal
      <3>1. order'[o] = [order[o] EXCEPT !.deal = s.order[o].deal]
        BY <1>3, <2>1 DEF OrderWritten
      <3>2. o[2].address = s.address /\ order[o].deal = NoDeal /\ s.order[o] \in OrderType
        BY <1>0, <1>1, <2>1 DEF OrdersWorked, ReadIsValid
      <3> QED BY <1>1, <3>1, <3>2 DEF OrderType
    <2>2. CASE ~(o \in DOMAIN s.readOrder /\ s.order[o].deal # s.readOrder[o].deal)
      <3>1. order'[o] = order[o]
        BY <1>3, <2>2 DEF OrderWritten
      <3>2. o[2].address = s.address => order[o].deal = s.order[o].deal
        BY <1>0, <2>2 DEF ReadIsValid
      <3> QED BY <1>1, <3>1, <3>2
    <2> QED BY <2>1, <2>2
  <1> QED BY <1>2, <1>3

\* The rows that the session gives to a position
GivenTo(s, i) == IF i \in DOMAIN s.given THEN s.given[i] ELSE {}

LEMMA ItemsCommitted ==
    ASSUME Database, NEW s, SessionInv(s, order, item, jobs),
           item' = [i \in DOMAIN item \cup DOMAIN s.item |-> ItemWritten(s, i)]
    PROVE  /\ DOMAIN item' = DOMAIN item \cup DOMAIN s.item
           /\ \A i \in DOMAIN item :
                 /\ item'[i] \in ItemType
                 /\ item'[i].order = item[i].order /\ item'[i].scanned = item[i].scanned
                 /\ item'[i].plan = item[i].plan + Cardinality(GivenTo(s, i))
                 /\ item'[i].ids \in {item[i].ids, s.item[i].ids}
                 /\ GivenTo(s, i) # {} => item[i].order[2].address = s.address
                 /\ item[i].order[2].address # s.address =>
                       item'[i].plan = item[i].plan /\ item'[i].ids = item[i].ids
                 /\ item[i].order[2].address = s.address =>
                       i \in DOMAIN s.readItem /\ item'[i].ids = s.item[i].ids
           /\ \A i \in DOMAIN s.item \ DOMAIN item :
                 /\ item'[i] = s.item[i]
                 /\ i[1] = s.event /\ s.item[i].order[2].address = s.address
                 /\ s.item[i].plan = Cardinality(s.given[i]) /\ s.item[i].scanned = 0
           /\ \A i \in DOMAIN s.item : GivenTo(s, i) = s.given[i]
           /\ \A i \in DOMAIN item \cap DOMAIN s.item :
                 i \in DOMAIN s.readItem /\ s.item[i].order = item[i].order
  <1>0. /\ SessionOK(s) /\ ReadIsValid(s, order, item, jobs) /\ ItemsWorked(s)
        /\ Fit(s.order, s.item) /\ Fit(order, item) /\ DOMAIN s.given = DOMAIN s.item
    BY DEF SessionInv, SessionOK, Database
  <1>1. /\ \A i \in DOMAIN item : item[i] \in ItemType /\ i[1] \in jobs
        /\ \A i \in DOMAIN s.item : s.item[i] \in ItemType
        /\ \A i \in DOMAIN s.readItem : s.readItem[i] \in ItemType
        /\ s.event \notin jobs
        /\ DOMAIN s.readItem \subseteq DOMAIN item /\ DOMAIN s.readItem \subseteq DOMAIN s.item
    BY <1>0 DEF Fit, Database, ReadIsValid, SessionOK, ItemsWorked
  <1>2. \A i \in DOMAIN s.item : GivenTo(s, i) = s.given[i]
    BY <1>0 DEF GivenTo
  <1>3. \A i \in DOMAIN item \cap DOMAIN s.item :
           i \in DOMAIN s.readItem /\ s.item[i].order = item[i].order
    BY <1>0, <1>1 DEF ReadIsValid, ItemsWorked
  <1>4. \A i \in DOMAIN s.item \ DOMAIN item :
           /\ item'[i] = s.item[i]
           /\ i[1] = s.event /\ s.item[i].order[2].address = s.address
           /\ s.item[i].plan = Cardinality(s.given[i]) /\ s.item[i].scanned = 0
    BY <1>0, <1>1 DEF ItemsWorked, ItemWritten
  <1>5. ASSUME NEW i \in DOMAIN item, i \notin DOMAIN s.readItem
        PROVE  /\ item'[i] = item[i] /\ GivenTo(s, i) = {}
               /\ item[i].order[2].address # s.address
               /\ item[i].plan = item[i].plan + Cardinality({})
    <2>1. item'[i] = item[i] /\ GivenTo(s, i) = {}
      BY <1>0, <1>3, <1>5 DEF GivenTo, ItemWritten
    <2>2. item[i].order[2].address # s.address
      BY <1>0, <1>5 DEF ReadIsValid
    <2>3. item[i].plan \in Nat /\ Cardinality({}) = 0
      BY <1>1, FS_EmptySet DEF ItemType
    <2> QED BY <2>1, <2>2, <2>3
  <1>6. ASSUME NEW i \in DOMAIN s.readItem
        PROVE  /\ item'[i] \in ItemType
               /\ item'[i].order = item[i].order /\ item'[i].scanned = item[i].scanned
               /\ item'[i].plan = item[i].plan + Cardinality(GivenTo(s, i))
               /\ item'[i].ids \in {item[i].ids, s.item[i].ids}
               /\ GivenTo(s, i) # {} => item[i].order[2].address = s.address
               /\ item[i].order[2].address # s.address =>
                     item'[i].plan = item[i].plan /\ item'[i].ids = item[i].ids
               /\ item[i].order[2].address = s.address => item'[i].ids = s.item[i].ids
    <2> DEFINE was == s.readItem[i]
               now == s.item[i]
    <2>1. /\ was \in ItemType /\ now \in ItemType /\ item[i] \in ItemType
          /\ i \in DOMAIN item /\ i \in DOMAIN s.item /\ GivenTo(s, i) = s.given[i]
      BY <1>1, <1>2
    <2>2. item'[i] = Flushed(i, was, now)
      BY <2>1 DEF ItemWritten
    <2>3. /\ now.plan = was.plan + Cardinality(s.given[i])
          /\ s.given[i] = {} => now = was
          /\ s.given[i] # {} => now.order[2].address = s.address
          /\ now.order = item[i].order
      BY <1>0, <1>3, <2>1 DEF ItemsWorked
    <2>4. /\ item[i].order[2].address = s.address => item[i].plan = was.plan /\ item[i].ids = was.ids
      BY <1>0, <2>1 DEF ReadIsValid
    <2>5. s.given[i] = {} => Cardinality(s.given[i]) = 0
      BY FS_EmptySet
    <2> HIDE DEF was, now
    <2>6. item'[i] = [item[i] EXCEPT !.plan = IF now.plan # was.plan THEN now.plan ELSE item[i].plan,
                                     !.ids = IF now.ids # was.ids THEN now.ids ELSE item[i].ids,
                                     !.status = IF now.status # was.status THEN now.status
                                                ELSE item[i].status]
      BY <2>1, <2>2 DEF Flushed, ItemType
    <2>7. /\ item'[i] \in ItemType
          /\ item'[i].order = item[i].order /\ item'[i].scanned = item[i].scanned
          /\ item'[i].plan = IF now.plan # was.plan THEN now.plan ELSE item[i].plan
          /\ item'[i].ids = IF now.ids # was.ids THEN now.ids ELSE item[i].ids
      BY <2>1, <2>6 DEF ItemType
    <2>8. CASE s.given[i] = {}
      <3>1. item[i].plan \in Nat
        BY <2>1 DEF ItemType
      <3> QED BY <2>1, <2>3, <2>4, <2>5, <2>7, <2>8, <3>1 DEF now
    <2>9. CASE s.given[i] # {}
      <3>1. item[i].order[2].address = s.address
        BY <2>3, <2>9
      <3>2. item'[i].plan = now.plan
        BY <2>4, <2>7, <3>1
      <3> QED BY <2>1, <2>3, <2>4, <2>7, <3>1, <3>2 DEF now
    <2> QED BY <2>8, <2>9
  <1> QED BY <1>1, <1>2, <1>3, <1>4, <1>5, <1>6

LEMMA DatabaseCommitted ==
    ASSUME ImportsInv, NEW w \in Importers, Commit(w)
    PROVE  Database'
  <1> DEFINE s == session[w]
  <1>1. /\ s.pc = "rows"
        /\ order' = [o \in DOMAIN order \cup DOMAIN s.order |-> OrderWritten(s, o)]
        /\ item' = [i \in DOMAIN item \cup DOMAIN s.item |-> ItemWritten(s, i)]
        /\ counted' = [i \in DOMAIN item' |->
                          (IF i \in DOMAIN counted THEN counted[i] ELSE {}) \cup GivenTo(s, i)]
        /\ jobs' = jobs \cup {s.event} /\ scans' = scans
    BY DEF Commit, GivenTo
  <1>2. /\ SessionInv(s, order, item, jobs) /\ Database
        /\ s.event \in Events /\ s.event \notin jobs
    BY <1>1, SessionsTyped DEF ImportsInv
  <1> HIDE DEF s
  <1>3. /\ SessionOK(s) /\ ItemsWorked(s) /\ OrdersWorked(s) /\ Fit(s.order, s.item)
        /\ Fit(order, item) /\ DOMAIN s.given = DOMAIN s.item
    BY <1>2 DEF SessionInv, SessionOK, ImportsInv, Database
  <1>0. /\ order' = [o \in DOMAIN order \cup DOMAIN s.order |-> OrderWritten(s, o)]
        /\ item' = [i \in DOMAIN item \cup DOMAIN s.item |-> ItemWritten(s, i)]
    BY <1>1
  <1>4. /\ DOMAIN order' = DOMAIN order \cup DOMAIN s.order
        /\ \A o \in DOMAIN order :
              /\ order'[o] \in OrderType
              /\ order'[o].key = order[o].key /\ order'[o].status = order[o].status
              /\ order[o].deal \in {NoDeal, order'[o].deal}
              /\ o[2].address # s.address => order'[o] = order[o]
        /\ \A o \in DOMAIN s.order \ DOMAIN order :
              /\ order'[o] = s.order[o]
              /\ o[1] = s.event /\ o[2].address = s.address
              /\ o[2] \in Candidates(s) /\ s.cache[o[2]] = o
        /\ \A o \in DOMAIN s.order : o[2].address = s.address =>
              order'[o].deal = s.order[o].deal
    BY <1>2, <1>0, OrdersCommitted
  <1>5. /\ DOMAIN item' = DOMAIN item \cup DOMAIN s.item
        /\ \A i \in DOMAIN item :
              /\ item'[i] \in ItemType
              /\ item'[i].order = item[i].order /\ item'[i].scanned = item[i].scanned
              /\ item'[i].plan = item[i].plan + Cardinality(GivenTo(s, i))
        /\ \A i \in DOMAIN s.item \ DOMAIN item :
              /\ item'[i] = s.item[i]
              /\ i[1] = s.event /\ s.item[i].order[2].address = s.address
              /\ s.item[i].plan = Cardinality(s.given[i]) /\ s.item[i].scanned = 0
        /\ \A i \in DOMAIN s.item : GivenTo(s, i) = s.given[i]
        /\ \A i \in DOMAIN item \cap DOMAIN s.item : s.item[i].order = item[i].order
    BY <1>2, <1>0, ItemsCommitted
  <1>6. /\ order' = [o \in DOMAIN order' |-> order'[o]]
        /\ item' = [i \in DOMAIN item' |-> item'[i]]
    BY <1>1
  <1>7. Fit(order', item')
    <2>1. \A o \in DOMAIN order' :
             /\ o \in OrderIds /\ order'[o] \in OrderType
             /\ order'[o].key = o[2] /\ o[2].deal \in {NoDeal, order'[o].deal}
      BY <1>3, <1>4 DEF Fit
    <2>2. \A i \in DOMAIN item' :
             i \in ItemIds /\ item'[i] \in ItemType /\ item'[i].order \in DOMAIN order'
      BY <1>3, <1>4, <1>5 DEF Fit
    <2> QED BY <1>6, <2>1, <2>2 DEF Fit
  <1>8. /\ jobs' \subseteq Events
        /\ \A o \in DOMAIN order' : o[1] \in jobs'
        /\ \A i \in DOMAIN item' : i[1] \in jobs'
        /\ scans' \in 0..MaxScans
    BY <1>1, <1>2, <1>4, <1>5 DEF Database
  <1>9. ASSUME NEW i \in DOMAIN item'
        PROVE  /\ GivenTo(s, i) \subseteq {s.event} \X Rows
               /\ IsFiniteSet(GivenTo(s, i))
               /\ \A q \in GivenTo(s, i) : Deal[q[2]] \in {NoDeal, order'[item'[i].order].deal}
    <2>1. CASE i \in DOMAIN s.item
      <3>1. s.given[i] \in SUBSET ({s.event} \X Rowset(s.event)) /\ Rowset(s.event) \subseteq Rows
        BY <1>3, <2>1, RowTypes DEF SessionOK
      <3>2. item'[i].order = s.item[i].order /\ s.item[i].order \in DOMAIN s.order
        BY <1>3, <1>5, <2>1 DEF Fit
      <3>3. /\ IsFiniteSet(s.given[i])
            /\ \A q \in s.given[i] : Deal[q[2]] \in {NoDeal, s.order[s.item[i].order].deal}
            /\ s.given[i] # {} => s.item[i].order[2].address = s.address
        BY <1>3, <2>1 DEF ItemsWorked, Consistent
      <3> QED BY <1>4, <1>5, <2>1, <3>1, <3>2, <3>3
    <2>2. CASE i \notin DOMAIN s.item
      <3>1. GivenTo(s, i) = {}
        BY <1>3, <2>2 DEF GivenTo
      <3> QED BY <3>1, FS_EmptySet
    <2> QED BY <2>1, <2>2
  <1>10. ASSUME NEW i \in DOMAIN item'
         PROVE  /\ counted'[i] \subseteq jobs' \X Rows
                /\ IsFiniteSet(counted'[i])
                /\ \A q \in counted'[i] : Deal[q[2]] \in {NoDeal, order'[item'[i].order].deal}
                /\ item'[i].plan = Cardinality(counted'[i])
                /\ item'[i].scanned <= item'[i].plan
    <2>1. DOMAIN counted = DOMAIN item
      BY <1>2 DEF Database
    <2>2. CASE i \in DOMAIN item
      <3>1. counted'[i] = counted[i] \cup GivenTo(s, i)
        BY <1>1, <1>10, <2>1, <2>2
      <3>2. /\ counted[i] \subseteq jobs \X Rows /\ IsFiniteSet(counted[i])
            /\ \A q \in counted[i] : Deal[q[2]] \in {NoDeal, order[item[i].order].deal}
            /\ item[i].plan = Cardinality(counted[i]) /\ item[i].scanned <= item[i].plan
        BY <1>2, <2>2 DEF Database, Consistent
      <3>3. counted[i] \cap GivenTo(s, i) = {}
        BY <1>2, <1>9, <1>10, <3>2
      <3>4. /\ IsFiniteSet(counted'[i])
            /\ Cardinality(counted'[i]) =
                  Cardinality(counted[i]) + Cardinality(GivenTo(s, i))
                     - Cardinality(counted[i] \cap GivenTo(s, i))
        BY <1>9, <1>10, <3>1, <3>2, FS_Union
      <3>5. /\ Cardinality(counted[i] \cap GivenTo(s, i)) = 0
            /\ Cardinality(counted[i]) \in Nat /\ Cardinality(GivenTo(s, i)) \in Nat
        BY <1>9, <1>10, <3>2, <3>3, FS_EmptySet, FS_CardinalityType
      <3>6. item'[i].plan = Cardinality(counted'[i]) /\ item'[i].scanned <= item'[i].plan
        <4>1. /\ item'[i].plan = item[i].plan + Cardinality(GivenTo(s, i))
              /\ item'[i].scanned = item[i].scanned /\ item[i].scanned \in Nat
          BY <1>3, <1>5, <2>2 DEF Fit, ItemType
        <4> QED BY <3>2, <3>4, <3>5, <4>1
      <3>7. \A q \in counted[i] : Deal[q[2]] \in {NoDeal, order'[item'[i].order].deal}
        <4>1. item'[i].order = item[i].order /\ item[i].order \in DOMAIN order
          BY <1>3, <1>5, <2>2 DEF Fit
        <4>2. order[item[i].order].deal \in {NoDeal, order'[item[i].order].deal}
          BY <1>4, <4>1
        <4> QED BY <3>2, <4>1, <4>2
      <3>8. counted'[i] \subseteq jobs' \X Rows
        BY <1>1, <1>9, <1>10, <3>1, <3>2
      <3>9. \A q \in counted'[i] : Deal[q[2]] \in {NoDeal, order'[item'[i].order].deal}
        BY <1>9, <1>10, <3>1, <3>7
      <3> QED BY <3>4, <3>6, <3>8, <3>9
    <2>3. CASE i \notin DOMAIN item
      <3>1. counted'[i] = GivenTo(s, i)
        BY <1>1, <1>10, <2>1, <2>3
      <3>2. i \in DOMAIN s.item \ DOMAIN item /\ GivenTo(s, i) = s.given[i]
        BY <1>5, <1>10, <2>3
      <3>3. /\ item'[i] = s.item[i]
            /\ s.item[i].plan = Cardinality(s.given[i]) /\ s.item[i].scanned = 0
        BY <1>5, <3>2
      <3>4. Cardinality(s.given[i]) \in Nat
        BY <1>9, <1>10, <3>2, FS_CardinalityType
      <3>5. /\ GivenTo(s, i) \subseteq {s.event} \X Rows
            /\ IsFiniteSet(GivenTo(s, i))
            /\ \A q \in GivenTo(s, i) : Deal[q[2]] \in {NoDeal, order'[item'[i].order].deal}
        BY <1>9, <1>10
      <3>6. counted'[i] \subseteq jobs' \X Rows
        BY <1>1, <3>1, <3>5
      <3>7. item'[i].plan = Cardinality(counted'[i]) /\ item'[i].scanned <= item'[i].plan
        BY <3>1, <3>2, <3>3, <3>4
      <3> QED BY <3>1, <3>5, <3>6, <3>7
    <2> QED BY <2>2, <2>3
  <1>11. counted' \in [DOMAIN item' -> SUBSET (jobs' \X Rows)]
    BY <1>1, <1>10
  <1> QED BY <1>7, <1>8, <1>10, <1>11 DEF Database, Fit, Consistent

LEMMA CommitStep ==
    ASSUME ImportsInv, NEW w \in Importers, Commit(w)
    PROVE  ImportsInv'
  <1> DEFINE s == session[w]
  <1>1. /\ s.pc = "rows"
        /\ order' = [o \in DOMAIN order \cup DOMAIN s.order |-> OrderWritten(s, o)]
        /\ item' = [i \in DOMAIN item \cup DOMAIN s.item |-> ItemWritten(s, i)]
        /\ jobs' = jobs \cup {s.event}
        /\ session' = [session EXCEPT ![w] = Idle]
    BY DEF Commit
  <1>2. SessionInv(s, order, item, jobs) /\ Sessions /\ Apart /\ Database
    BY <1>1, SessionsTyped DEF ImportsInv
  <1>3. /\ Apart' /\ session' = [v \in Importers |-> IF v = w THEN Idle ELSE session[v]]
    BY <1>1, <1>2, ClosedStaysApart
  <1>4. ASSUME NEW v \in Importers, v # w, session[v] # Idle
        PROVE  SessionInv(session[v], order, item, jobs) /\ session[v].event \notin jobs
               /\ session[v].event # s.event /\ session[v].address # s.address
    BY <1>1, <1>2, <1>4, SessionsTyped DEF Apart
  <1> HIDE DEF s
  <1>5. /\ DOMAIN order' = DOMAIN order \cup DOMAIN s.order
        /\ \A o \in DOMAIN order :
              /\ order'[o].key = order[o].key /\ order'[o].status = order[o].status
              /\ o[2].address # s.address => order'[o] = order[o]
        /\ \A o \in DOMAIN s.order \ DOMAIN order :
              /\ order'[o] = s.order[o]
              /\ o[1] = s.event /\ o[2].address = s.address
              /\ o[2] \in Candidates(s) /\ s.cache[o[2]] = o
    BY <1>1, <1>2, OrdersCommitted
  <1>6. /\ DOMAIN item' = DOMAIN item \cup DOMAIN s.item
        /\ \A i \in DOMAIN item :
              /\ item'[i].order = item[i].order
              /\ item[i].order[2].address # s.address =>
                    item'[i].plan = item[i].plan /\ item'[i].ids = item[i].ids
        /\ \A i \in DOMAIN s.item \ DOMAIN item :
              item'[i] = s.item[i] /\ s.item[i].order[2].address = s.address
    BY <1>1, <1>2, ItemsCommitted
  <1>7. OneActiveOrderPerKey'
    <2>1. \A o \in DOMAIN order : order'[o].key = o[2] /\ order[o].key = o[2]
      BY <1>2, <1>5 DEF Database, Fit
    <2>2. \A o \in DOMAIN s.order \ DOMAIN order : order'[o].key = o[2]
      BY <1>2, <1>5 DEF SessionInv, SessionOK, Fit
    <2>3. \A p \in DOMAIN s.order \ DOMAIN order : \A o \in DOMAIN order :
             o[2] = p[2] => order[o].status = Returned
      <3>1. DOMAIN s.readOrder \subseteq DOMAIN order
        BY <1>2 DEF SessionInv, ReadIsValid
      <3> QED BY <1>2, <1>5, <3>1 DEF SessionInv, ReadIsValid
    <2>4. ASSUME NEW o \in DOMAIN order', NEW p \in DOMAIN order',
                 order'[o].status # Returned, order'[p].status # Returned,
                 order'[o].key = order'[p].key
          PROVE  o = p
      <3>1. CASE o \in DOMAIN order /\ p \in DOMAIN order
        BY <1>5, <2>4, <3>1 DEF ImportsInv, OneActiveOrderPerKey, Active
      <3>2. CASE o \notin DOMAIN order /\ p \notin DOMAIN order
        BY <1>5, <2>2, <2>4, <3>2
      <3>3. CASE o \in DOMAIN order /\ p \notin DOMAIN order
        BY <1>5, <2>1, <2>2, <2>3, <2>4, <3>3
      <3>4. CASE o \notin DOMAIN order /\ p \in DOMAIN order
        BY <1>5, <2>1, <2>2, <2>3, <2>4, <3>4
      <3> QED BY <3>1, <3>2, <3>3, <3>4
    <2> QED BY <2>4 DEF OneActiveOrderPerKey, Active
  <1>8. ASSUME NEW v \in Importers, v # w, session[v] # Idle
        PROVE  SessionInv(session[v], order', item', jobs')
    <2> DEFINE t == session[v]
    <2>1. /\ SessionInv(t, order, item, jobs) /\ t.event \notin jobs
          /\ t.event # s.event /\ t.address # s.address
      BY <1>4, <1>8
    <2> HIDE DEF t
    <2>2. \A o \in DOMAIN order' : o[2].address = t.address =>
             /\ o \in DOMAIN order /\ order'[o].deal = order[o].deal
             /\ order[o].status = Returned => order'[o].status = Returned
      BY <1>5, <2>1
    <2>3. \A i \in DOMAIN item' : item'[i].order[2].address = t.address =>
             i \in DOMAIN item /\ item'[i].plan = item[i].plan /\ item'[i].ids = item[i].ids
      BY <1>6, <2>1
    <2>4. /\ t.event \notin jobs'
          /\ DOMAIN order \subseteq DOMAIN order' /\ DOMAIN item \subseteq DOMAIN item'
          /\ \A i \in DOMAIN item : item'[i].order = item[i].order
      BY <1>1, <1>5, <1>6, <2>1
    <2>5. SessionInv(t, order', item', jobs')
      BY <2>1, <2>2, <2>3, <2>4, Undisturbed
    <2> QED BY <2>5 DEF t
  <1>9. Sessions'
    <2>1. \A v \in Importers : session'[v] = Idle \/ SessionInv(session'[v], order', item', jobs')
      BY <1>3, <1>8
    <2>2. session' = [v \in Importers |-> session'[v]]
      BY <1>3
    <2> QED BY <2>1, <2>2 DEF Sessions
  <1> QED BY <1>3, <1>7, <1>9, DatabaseCommitted DEF ImportsInv

-----------------------------------------------------------------------------
(* The warehouse.                                                          *)

\* What a step of the warehouse leaves alone
WarehouseKeeps ==
    /\ DOMAIN order' = DOMAIN order /\ DOMAIN item' = DOMAIN item
    /\ \A o \in DOMAIN order :
          /\ order'[o].key = order[o].key /\ order'[o].deal = order[o].deal
          /\ order[o].status = Returned => order'[o].status = Returned
    /\ \A i \in DOMAIN item :
          /\ item'[i].order = item[i].order /\ item'[i].plan = item[i].plan
          /\ item'[i].ids = item[i].ids
    /\ UNCHANGED <<counted, jobs, session>>

LEMMA WarehouseKept ==
    ASSUME ImportsInv, WarehouseKeeps, order' \in [DOMAIN order -> OrderType],
           item' \in [DOMAIN item -> ItemType],
           \A i \in DOMAIN item : item'[i].scanned <= item'[i].plan,
           scans' \in 0..MaxScans
    PROVE  ImportsInv'
  <1>1. Database'
    <2>1. Fit(order', item') /\ Consistent(order', item', counted')
      BY DEF ImportsInv, Database, Fit, Consistent, WarehouseKeeps
    <2> QED BY <2>1 DEF ImportsInv, Database, Fit, Consistent, WarehouseKeeps
  <1>2. OneActiveOrderPerKey'
    BY DEF ImportsInv, OneActiveOrderPerKey, Active, WarehouseKeeps
  <1>3. Apart'
    BY DEF ImportsInv, Apart, WarehouseKeeps
  <1>4. Sessions'
    <2>1. session' = session /\ jobs' = jobs
      BY DEF WarehouseKeeps
    <2>2. ASSUME NEW w \in Importers, session[w] # Idle
          PROVE  SessionInv(session[w], order', item', jobs')
      <3> DEFINE s == session[w]
      <3>1. SessionInv(s, order, item, jobs) /\ s.event \notin jobs'
        BY <2>1, <2>2, SessionsTyped DEF ImportsInv
      <3> HIDE DEF s
      <3>2. /\ DOMAIN order \subseteq DOMAIN order' /\ DOMAIN item \subseteq DOMAIN item'
            /\ \A i \in DOMAIN item : item'[i].order = item[i].order
            /\ \A o \in DOMAIN order' : o[2].address = s.address =>
                  /\ o \in DOMAIN order /\ order'[o].deal = order[o].deal
                  /\ order[o].status = Returned => order'[o].status = Returned
            /\ \A i \in DOMAIN item' : item'[i].order[2].address = s.address =>
                  i \in DOMAIN item /\ item'[i].plan = item[i].plan /\ item'[i].ids = item[i].ids
        BY DEF WarehouseKeeps
      <3>3. SessionInv(s, order', item', jobs')
        BY <3>1, <3>2, Undisturbed
      <3> QED BY <3>3 DEF s
    <2> QED BY <2>1, <2>2 DEF ImportsInv, Sessions
  <1> QED BY <1>1, <1>2, <1>3, <1>4 DEF ImportsInv

LEMMA DatabaseTyped ==
    ASSUME ImportsInv
    PROVE  /\ order \in [DOMAIN order -> OrderType] /\ item \in [DOMAIN item -> ItemType]
           /\ \A i \in DOMAIN item : item[i].scanned <= item[i].plan
           /\ \A i \in DOMAIN item : item[i].order \in DOMAIN order
           /\ scans \in 0..MaxScans /\ MaxScans \in Nat
  BY ScanAssumption DEF ImportsInv, Database, Fit

LEMMA ScanStep ==
    ASSUME ImportsInv, NEW i \in DOMAIN item, Scan(i)
    PROVE  ImportsInv' /\ WarehouseKeeps
  <1> DEFINE status == IF item[i].scanned + 1 >= item[i].plan THEN Closed ELSE Open
             now == [item[i] EXCEPT !.scanned = item[i].scanned + 1, !.status = status]
  <1>1. /\ scans < MaxScans /\ scans' = scans + 1
        /\ item[i].scanned < item[i].plan
        /\ UNCHANGED <<order, counted, jobs, session>>
    BY DEF Scan
  <1>2. item' = [item EXCEPT ![i] = now]
    <2>1. item' = [item EXCEPT ![i].scanned = @ + 1, ![i].status = status]
      BY DEF Scan
    <2> HIDE DEF status
    <2> QED BY <2>1, DatabaseTyped
  <1>3. /\ now \in ItemType /\ now.order = item[i].order /\ now.plan = item[i].plan
        /\ now.ids = item[i].ids /\ now.scanned = item[i].scanned + 1
    <2>1. item[i] \in ItemType /\ status \in {Open, Closed}
      BY DatabaseTyped
    <2>2. item[i].scanned + 1 \in Nat
      BY <2>1 DEF ItemType
    <2> DEFINE n == item[i].scanned + 1
    <2> HIDE DEF status, n
    <2>3. [item[i] EXCEPT !.scanned = n, !.status = status] \in ItemType
      BY <2>1, <2>2 DEF ItemType, n
    <2> QED BY <2>1, <2>3 DEF ItemType, n
  <1> HIDE DEF now
  <1>4. item' \in [DOMAIN item -> ItemType] /\ WarehouseKeeps
    BY <1>1, <1>2, <1>3, DatabaseTyped DEF WarehouseKeeps
  <1>5. \A j \in DOMAIN item : item'[j].scanned <= item'[j].plan
    <2>1. item[i].scanned \in Nat /\ item[i].plan \in Nat
      BY DatabaseTyped DEF ItemType
    <2> QED BY <1>1, <1>2, <1>3, <2>1, DatabaseTyped
  <1>6. scans' \in 0..MaxScans /\ order' \in [DOMAIN order -> OrderType]
    BY <1>1, DatabaseTyped
  <1> QED BY <1>4, <1>5, <1>6, WarehouseKept

\* A new status of an order, unless it has been returned
LEMMA StatusStep ==
    ASSUME ImportsInv, NEW o \in DOMAIN order, NEW status \in {Closed, Returned},
           order[o].status # Returned, order' = [order EXCEPT ![o].status = status],
           UNCHANGED <<item, counted, jobs, session, scans>>
    PROVE  ImportsInv' /\ WarehouseKeeps
  <1>1. order[o] \in OrderType
    BY DatabaseTyped
  <1>2. order' = [order EXCEPT ![o] = [order[o] EXCEPT !.status = status]]
    OBVIOUS
  <1>3. order' \in [DOMAIN order -> OrderType] /\ WarehouseKeeps
    BY <1>1, <1>2, DatabaseTyped DEF WarehouseKeeps, OrderType
  <1> QED BY <1>3, DatabaseTyped, WarehouseKept

LEMMA WarehouseSteps ==
    ASSUME ImportsInv, WarehouseStep
    PROVE  ImportsInv' /\ WarehouseKeeps
  <1>1. ASSUME NEW i \in DOMAIN item, Scan(i)
        PROVE  ImportsInv' /\ WarehouseKeeps
    BY <1>1, ScanStep
  <1>2. ASSUME NEW o \in DOMAIN order, CompleteOrder(o) \/ ReturnOrder(o)
        PROVE  ImportsInv' /\ WarehouseKeeps
    <2>1. CASE CompleteOrder(o)
      BY <2>1, StatusStep DEF CompleteOrder, Open, Returned, Closed
    <2>2. CASE ReturnOrder(o)
      BY <2>2, StatusStep DEF ReturnOrder, Returned, Closed
    <2> QED BY <1>2, <2>1, <2>2
  <1> QED BY <1>1, <1>2 DEF WarehouseStep

-----------------------------------------------------------------------------

LEMMA ImportsInvHolds == Spec => []ImportsInv
  <1>1. Init => ImportsInv
    <2> SUFFICES ASSUME Init PROVE ImportsInv
      OBVIOUS
    <2>1. /\ DOMAIN order = {} /\ DOMAIN item = {} /\ DOMAIN counted = {} /\ jobs = {}
          /\ order = [o \in {} |-> None] /\ item = [i \in {} |-> None]
          /\ counted = [i \in {} |-> {}]
          /\ scans \in 0..MaxScans
      BY ScanAssumption DEF Init
    <2>2. Fit(order, item)
      BY <2>1 DEF Fit
    <2>3. Database
      BY <2>1, <2>2 DEF Database, Consistent
    <2>4. session = [w \in Importers |-> Idle]
      BY DEF Init
    <2>5. Sessions /\ Apart
      BY <2>4 DEF Sessions, Apart, Idle
    <2> QED BY <2>1, <2>3, <2>5 DEF ImportsInv, OneActiveOrderPerKey
  <1>2. ImportsInv /\ [Next]_vars => ImportsInv'
    <2> SUFFICES ASSUME ImportsInv, [Next]_vars PROVE ImportsInv'
      OBVIOUS
    <2>1. ASSUME NEW w \in Importers, NEW e \in Events, NEW a \in Addresses, Begin(w, e, a)
          PROVE  ImportsInv'
      BY <2>1, BeginStep
    <2>2. ASSUME NEW w \in Importers, NextRow(w) PROVE ImportsInv'
      BY <2>2, NextRowStep
    <2>3. ASSUME NEW w \in Importers, Commit(w) PROVE ImportsInv'
      BY <2>3, CommitStep
    <2>4. ASSUME NEW w \in Importers, Rollback(w) PROVE ImportsInv'
      BY <2>4, RollbackStep
    <2>5. CASE WarehouseStep
      BY <2>5, WarehouseSteps
    <2>6. CASE UNCHANGED vars
      <3>1. UNCHANGED <<order, item, counted, jobs, session, scans>>
        BY <2>6 DEF vars
      <3>2. Sessions' /\ Apart'
        BY <3>1 DEF ImportsInv, Sessions, Apart
      <3> QED BY <3>1, <3>2, DatabaseUnchanged DEF ImportsInv
    <2> QED BY <2>1, <2>2, <2>3, <2>4, <2>5, <2>6 DEF Next, ImportStep
  <1> QED BY <1>1, <1>2, PTL DEF Spec

\* Orders and positions are named by the upload that made them, every position has an
\* order, and no scan goes beyond the plan of its position, whatever an import writes
\* over what the warehouse scans.
THEOREM TypeCorrect == Spec => []TypeOK
  <1>1. ImportsInv => TypeOK
    BY DEF ImportsInv, Database, Fit, OrderIds, ItemIds, OrderType, ItemType, TypeOK
  <1> QED BY <1>1, ImportsInvHolds, PTL

\* The plan of a position is the sum of the rows it was given: the locks of an import
\* keep every other import from the positions it reads, so the plan it writes adds to
\* the plan that is stored, although it locks no position.
THEOREM PlansAreSums == Spec => []PlanIsSumOfRows
  <1>1. ImportsInv => PlanIsSumOfRows
    BY DEF ImportsInv, Database, PlanIsSumOfRows
  <1> QED BY <1>1, ImportsInvHolds, PTL

\* A key leads to one active order at most: an import that finds none for a key of its
\* address holds the lock that every import creating one would need, and the warehouse
\* makes no order active again.
THEOREM OneOrderPerKey == Spec => []OneActiveOrderPerKey
  <1>1. ImportsInv => OneActiveOrderPerKey
    BY DEF ImportsInv
  <1> QED BY <1>1, ImportsInvHolds, PTL

\* Rows of two Smartup orders are never given to positions of one order: what an import
\* has read of the deal of an order still holds when it writes.
THEOREM DealsStayApart == Spec => []DealsKeptApart
  <1>1. ImportsInv => DealsKeptApart
    <2> SUFFICES ASSUME ImportsInv, NEW i \in DOMAIN item, NEW j \in DOMAIN item,
                        item[i].order = item[j].order,
                        NEW q \in counted[i], NEW r \in counted[j]
                 PROVE  NoDeal \in {Deal[q[2]], Deal[r[2]]} \/ Deal[q[2]] = Deal[r[2]]
      BY DEF DealsKeptApart
    <2>1. /\ Deal[q[2]] \in {NoDeal, order[item[i].order].deal}
          /\ Deal[r[2]] \in {NoDeal, order[item[j].order].deal}
      BY DEF ImportsInv, Database, Consistent
    <2> QED BY <2>1
  <1> QED BY <1>1, ImportsInvHolds, PTL

-----------------------------------------------------------------------------
(* With one address for the client, as when every file has it.             *)

OneAddress == \A a, b \in Addresses : a = b

\* A row that an import does not find is in no position of an active order.
LEMMA NotFound ==
    ASSUME ImportsInv, OneAddress, InOwnOrder(item), NEW e \in Events, NEW a \in Addresses,
           NEW r \in Rowset(e), Opened(e, a).found[r] = None,
           NEW i \in DOMAIN item, order[item[i].order].status # Returned
    PROVE  r \notin item[i].ids
  <1> DEFINE s == Opened(e, a)
             O == {ActiveOrder(k) : k \in Candidates(s)} \ {None}
             o == item[i].order
  <1>1. Found(r, O) = None
    <2> DEFINE cache == [k \in {Key(a, x) : x \in Rowset(e)} \cup {LegacyKey(a)} |->
                           ActiveOrder(k)]
               C == {cache[k] : k \in DOMAIN cache} \ {None}
    <2>1. s.found = [x \in Rowset(e) |-> Found(x, C)]
      BY DEF Opened
    <2>2. Candidates(s) = {Key(a, x) : x \in Rowset(e)} \cup {LegacyKey(a)}
      BY DEF Opened, Candidates
    <2>3. C = O
      BY <2>2
    <2>4. s.found[r] = None
      OBVIOUS
    <2> HIDE DEF s, C, O
    <2> QED BY <2>1, <2>3, <2>4
  <1>2. Database /\ OneActiveOrderPerKey
    BY DEF ImportsInv
  <1>3. /\ None \notin DOMAIN item
        /\ o \in DOMAIN order /\ order[o].key = o[2]
        /\ o[2] \in {Key(b, x) : b \in Addresses, x \in Rows}
    <2>1. None \notin DOMAIN item
      BY <1>2 DEF Database, Fit, ItemIds, None
    <2>2. o \in DOMAIN order
      BY <1>2 DEF Database, Fit
    <2>3. order[o].key = o[2] /\ o \in OrderIds
      BY <1>2, <2>2 DEF Database, Fit
    <2> QED BY <2>1, <2>2, <2>3 DEF OrderIds
  <1>4. FoundInOrders(r, O) = {}
    BY <1>1, <1>3, FoundItem
  <1>5. SUFFICES ASSUME r \in item[i].ids PROVE FALSE
    OBVIOUS
  <1>6. o[2] \in Candidates(s)
    <2>1. o[2].deal \in {Deal[r], NoDeal} /\ o[2].address = a
      BY <1>3, <1>5 DEF InOwnOrder, OneAddress, Key
    <2>2. o[2] = Key(a, r) \/ o[2] = LegacyKey(a)
      BY <1>3, <2>1 DEF Key, LegacyKey
    <2>3. Candidates(s) = {Key(a, x) : x \in Rowset(e)} \cup {LegacyKey(a)}
      BY DEF Opened, Candidates
    <2> QED BY <2>2, <2>3
  <1> HIDE DEF s
  <1>7. ActiveOrder(o[2]) = o
    <2> DEFINE p == ActiveOrder(o[2])
    <2>1. /\ p \in DOMAIN order \cup {None}
          /\ p \in DOMAIN order => Active(p) /\ p[2] = o[2]
          /\ p \notin DOMAIN order =>
                \A x \in DOMAIN order : x[2] = o[2] => order[x].status = Returned
      BY <1>2, ActiveOrderFound
    <2> HIDE DEF p
    <2>2. p \in DOMAIN order /\ Active(p) /\ p[2] = o[2]
      BY <1>3, <2>1
    <2>3. order[p].key = order[o].key /\ Active(o)
      BY <1>2, <1>3, <2>2 DEF Database, Fit, Active
    <2> QED BY <1>2, <1>3, <2>2, <2>3 DEF OneActiveOrderPerKey, p
  <1>8. o \in O
    <2>1. None \notin DOMAIN order
      BY <1>2, ActiveOrderFound
    <2> QED BY <1>3, <1>6, <1>7, <2>1
  <1> HIDE DEF O
  <1> QED BY <1>4, <1>5, <1>8 DEF FoundInOrders

LEMMA RowsOpened ==
    ASSUME ImportsInv, OneAddress, InOwnOrder(item), NEW e \in Events, NEW a \in Addresses
    PROVE  RowsInSession(Opened(e, a), order, item)
  <1> DEFINE s == Opened(e, a)
  <1>1. /\ s.event = e /\ s.item = item /\ s.readItem = item
        /\ s.given = [i \in DOMAIN item |-> {}]
    BY DEF Opened
  <1>2. \A r \in Rowset(e) : s.found[r] = None =>
           \A j \in DOMAIN item : order[item[j].order].status # Returned => r \notin item[j].ids
    BY NotFound
  <1> HIDE DEF s
  <1>3. \A i \in DOMAIN item : s.given[i] = {}
    BY <1>1
  <1>4. RowsInSession(s, order, item)
    BY <1>1, <1>2, <1>3 DEF RowsInSession
  <1> QED BY <1>4 DEF s

LEMMA RowsWorked ==
    ASSUME NEW s, NEW ord, NEW itm, NEW t, NEW n, NEW r \in Rowset(s.event),
           SessionOK(s), RowsInSession(s, ord, itm), RowDone(s, t, r),
           t.event = s.event, t.readItem = s.readItem, DOMAIN s.readItem \subseteq DOMAIN s.item,
           n.event = t.event, n.readItem = t.readItem, n.item = t.item,
           n.given = t.given, n.found = t.found
    PROVE  RowsInSession(n, ord, itm)
  <1>1. CASE t = s
    <2>1. /\ n.event = s.event /\ n.readItem = s.readItem /\ n.item = s.item
          /\ n.given = s.given /\ n.found = s.found
      BY <1>1
    <2> QED BY <2>1 DEF RowsInSession
  <1>2. CASE t # s
    <2>1. PICK i \in DOMAIN t.item :
             /\ Grown(s, t, i, r)
             /\ t.item[i].order[2].deal \in {Deal[r], NoDeal}
             /\ t.item[i].ids = {r} \cup (IF i \in DOMAIN s.item THEN s.item[i].ids ELSE {})
             /\ i \in DOMAIN s.item => t.item[i].order = s.item[i].order
      BY <1>2 DEF RowDone
    <2>2. /\ s.found[r] = None
          /\ \A j \in DOMAIN s.given : <<s.event, r>> \notin s.given[j]
      BY <1>2 DEF RowDone
    <2>3. /\ DOMAIN t.item = DOMAIN s.item \cup {i} /\ DOMAIN s.given = DOMAIN s.item
          /\ \A j \in DOMAIN s.item : j # i => t.item[j] = s.item[j] /\ t.given[j] = s.given[j]
          /\ t.given[i] = {<<s.event, r>>} \cup (IF i \in DOMAIN s.item THEN s.given[i] ELSE {})
          /\ \A x \in Rowset(s.event) : x # r => t.found[x] = s.found[x]
      BY <2>1 DEF Grown, SessionOK
    <2>4. InOwnOrder(t.item)
      BY <2>1, <2>3 DEF InOwnOrder, RowsInSession
    <2>5. \A j \in DOMAIN t.item : \A q \in t.given[j] : q[2] \in t.item[j].ids
      BY <2>1, <2>3 DEF RowsInSession
    <2>6. \A j \in DOMAIN s.readItem : s.readItem[j].ids \subseteq t.item[j].ids
      BY <2>1, <2>3 DEF RowsInSession
    <2>7. \A j, k \in DOMAIN t.item : t.given[j] \cap t.given[k] # {} => j = k
      <3>1. \A j, k \in DOMAIN s.item : s.given[j] \cap s.given[k] # {} => j = k
        BY DEF RowsInSession
      <3>2. \A j \in DOMAIN t.item : j # i => t.given[j] \cap t.given[i] = {}
        BY <2>2, <2>3, <3>1
      <3> QED BY <2>3, <3>1, <3>2
    <2>8. ASSUME NEW x \in Rowset(s.event),
                 t.found[x] = None \/ \E j \in DOMAIN t.item : <<s.event, x>> \in t.given[j]
          PROVE  s.found[x] = None \/ \E j \in DOMAIN s.item : <<s.event, x>> \in s.given[j]
      BY <2>2, <2>3, <2>8
    <2>9. \A x \in Rowset(s.event) :
             (t.found[x] = None \/ \E j \in DOMAIN t.item : <<s.event, x>> \in t.given[j])
             => \A j \in DOMAIN itm : ord[itm[j].order].status # Returned => x \notin itm[j].ids
      BY <2>8 DEF RowsInSession
    <2> QED BY <2>4, <2>5, <2>6, <2>7, <2>9 DEF RowsInSession
  <1> QED BY <1>1, <1>2

\* Only one import at a time has the locks of the address.
LEMMA OneImport ==
    ASSUME ImportsInv, OneAddress, NEW v \in Importers, NEW w \in Importers,
           session[v] # Idle, session[w] # Idle
    PROVE  v = w
  <1>1. /\ session[v].pc = "rows" /\ session[w].pc = "rows"
        /\ session[v].address = session[w].address
    BY SessionsTyped DEF ImportsInv, OneAddress
  <1> QED BY <1>1 DEF ImportsInv, Apart

LEMMA RowsBegin ==
    ASSUME ImportsInv, OneAddress, RowsInv, NEW w \in Importers,
           NEW e \in Events, NEW a \in Addresses, Begin(w, e, a)
    PROVE  RowsInv'
  <1>1. /\ session' = [session EXCEPT ![w] = Opened(e, a)]
        /\ UNCHANGED <<order, item, counted>>
    BY DEF Begin, Opened
  <1>2. RowsInSession(Opened(e, a), order, item)
    BY RowsOpened DEF RowsInv, RowsInDatabase
  <1>3. session' = [v \in Importers |-> IF v = w THEN Opened(e, a) ELSE session[v]]
    BY <1>1 DEF ImportsInv, Sessions
  <1>4. RowsInDatabase'
    BY <1>1 DEF RowsInv, RowsInDatabase, InOwnOrder, ActiveItems, Active
  <1>5. \A v \in Importers : session'[v] # Idle => RowsInSession(session'[v], order', item')
    BY <1>1, <1>2, <1>3 DEF RowsInv
  <1> QED BY <1>4, <1>5 DEF RowsInv

LEMMA RowsNext ==
    ASSUME ImportsInv, RowsInv, NEW w \in Importers, NextRow(w)
    PROVE  RowsInv'
  <1> DEFINE s == session[w]
             t == ImportRow(s, Head(s.todo))
             n == [t EXCEPT !.todo = Tail(s.todo)]
  <1>1. /\ s.pc = "rows" /\ s.todo # <<>>
        /\ session' = [session EXCEPT ![w] = n]
        /\ UNCHANGED <<order, item, counted>>
    BY DEF NextRow
  <1>2. /\ \A o \in DOMAIN order : o[1] \in jobs
        /\ \A i \in DOMAIN item : i[1] \in jobs
        /\ SessionInv(s, order, item, jobs)
        /\ s # Idle
    BY <1>1, SessionsTyped DEF ImportsInv, Database, Idle
  <1>3. /\ Head(s.todo) \in Rowset(s.event)
        /\ n.event = s.event /\ n.readItem = s.readItem
        /\ n.item = t.item /\ n.given = t.given /\ n.found = t.found
        /\ RowDone(s, t, Head(s.todo))
    BY <1>1, <1>2, NextSession
  <1>4. t.event = s.event /\ t.readItem = s.readItem
    BY <1>2, <1>3, RowImported
  <1>5. RowsInSession(s, order, item)
    BY <1>2 DEF RowsInv
  <1> HIDE DEF s, t, n
  <1>6. SessionOK(s) /\ DOMAIN s.readItem \subseteq DOMAIN s.item
    BY <1>2 DEF SessionInv, ItemsWorked
  <1>7. RowsInSession(n, order, item)
    BY <1>3, <1>4, <1>5, <1>6, RowsWorked
  <1>8. session' = [v \in Importers |-> IF v = w THEN n ELSE session[v]]
    BY <1>1 DEF ImportsInv, Sessions
  <1>9. RowsInDatabase'
    BY <1>1 DEF RowsInv, RowsInDatabase, InOwnOrder, ActiveItems, Active
  <1>10. \A v \in Importers : session'[v] # Idle => RowsInSession(session'[v], order', item')
    BY <1>1, <1>7, <1>8 DEF RowsInv
  <1> QED BY <1>9, <1>10 DEF RowsInv

LEMMA RowsRollback ==
    ASSUME ImportsInv, RowsInv, NEW w \in Importers, Rollback(w)
    PROVE  RowsInv'
  <1>1. session' = [session EXCEPT ![w] = Idle] /\ UNCHANGED <<order, item, counted>>
    BY DEF Rollback
  <1>2. session' = [v \in Importers |-> IF v = w THEN Idle ELSE session[v]]
    BY <1>1 DEF ImportsInv, Sessions
  <1>3. RowsInDatabase'
    BY <1>1 DEF RowsInv, RowsInDatabase, InOwnOrder, ActiveItems, Active
  <1>4. \A v \in Importers : session'[v] # Idle => RowsInSession(session'[v], order', item')
    BY <1>1, <1>2 DEF RowsInv
  <1> QED BY <1>3, <1>4 DEF RowsInv

LEMMA RowsWarehouse ==
    ASSUME ImportsInv, RowsInv, WarehouseKeeps
    PROVE  RowsInv'
  <1>1. \A i \in DOMAIN item : item[i].order \in DOMAIN order
    BY DatabaseTyped
  <1>2. \A j \in DOMAIN item' : order'[item'[j].order].status # Returned =>
           order[item[j].order].status # Returned
    BY <1>1 DEF WarehouseKeeps
  <1>3. /\ DOMAIN item' = DOMAIN item /\ counted' = counted /\ session' = session
        /\ \A j \in DOMAIN item : item'[j].ids = item[j].ids /\ item'[j].order = item[j].order
    BY DEF WarehouseKeeps
  <1>4. RowsInDatabase'
    <2>1. ActiveItems' \subseteq ActiveItems
      BY <1>2, <1>3 DEF ActiveItems, Active
    <2>2. InOwnOrder(item')
      BY <1>3 DEF RowsInv, RowsInDatabase, InOwnOrder
    <2> QED BY <1>3, <2>1, <2>2 DEF RowsInv, RowsInDatabase, InOwnOrder
  <1>5. ASSUME NEW w \in Importers, session[w] # Idle
        PROVE  RowsInSession(session[w], order', item')
    <2>1. RowsInSession(session[w], order, item)
      BY <1>5 DEF RowsInv
    <2> QED BY <1>2, <1>3, <2>1 DEF RowsInSession
  <1> QED BY <1>3, <1>4, <1>5 DEF RowsInv

LEMMA RowsCommit ==
    ASSUME ImportsInv, OneAddress, RowsInv, NEW w \in Importers, Commit(w)
    PROVE  RowsInv'
  <1> DEFINE s == session[w]
  <1>1. /\ s.pc = "rows"
        /\ counted' = [i \in DOMAIN item' |->
                          (IF i \in DOMAIN counted THEN counted[i] ELSE {}) \cup GivenTo(s, i)]
        /\ session' = [session EXCEPT ![w] = Idle]
    BY DEF Commit, GivenTo
  <1>2. /\ order' = [o \in DOMAIN order \cup DOMAIN s.order |-> OrderWritten(s, o)]
        /\ item' = [i \in DOMAIN item \cup DOMAIN s.item |-> ItemWritten(s, i)]
    BY DEF Commit
  <1>3. SessionInv(s, order, item, jobs) /\ Database /\ s # Idle
    BY <1>1, SessionsTyped DEF ImportsInv, Idle
  <1>4. \A v \in Importers : session'[v] = Idle
    <2>1. session' = [v \in Importers |-> IF v = w THEN Idle ELSE session[v]]
      BY <1>1 DEF ImportsInv, Sessions
    <2> QED BY <1>3, <2>1, OneImport
  <1>5. RowsInSession(s, order, item) /\ RowsInDatabase
    BY <1>3 DEF RowsInv
  <1> HIDE DEF s
  <1>6. /\ \A o \in DOMAIN order : order'[o].status = order[o].status
        /\ \A i \in DOMAIN item : item[i].order \in DOMAIN order
        /\ \A i \in DOMAIN s.item : s.given[i] \subseteq {s.event} \X Rowset(s.event)
        /\ DOMAIN counted = DOMAIN item /\ DOMAIN s.given = DOMAIN s.item
        /\ DOMAIN s.readItem \subseteq DOMAIN s.item
        /\ \A i \in DOMAIN item : counted[i] \subseteq jobs \X Rows
    <2>1. \A o \in DOMAIN order : order'[o].status = order[o].status
      BY <1>2, <1>3, OrdersCommitted
    <2>2. /\ \A i \in DOMAIN s.item : s.given[i] \subseteq {s.event} \X Rowset(s.event)
          /\ DOMAIN s.given = DOMAIN s.item /\ DOMAIN s.readItem \subseteq DOMAIN s.item
      BY <1>3 DEF SessionInv, SessionOK, ItemsWorked
    <2> QED BY <1>3, <2>1, <2>2 DEF Database, Fit
  <1>7. /\ DOMAIN item' = DOMAIN item \cup DOMAIN s.item
        /\ \A i \in DOMAIN item :
              /\ item'[i].order = item[i].order
              /\ item'[i].ids \in {item[i].ids, s.item[i].ids}
              /\ GivenTo(s, i) # {} => item[i].order[2].address = s.address
              /\ item[i].order[2].address # s.address => item'[i].ids = item[i].ids
              /\ item[i].order[2].address = s.address =>
                    i \in DOMAIN s.readItem /\ item'[i].ids = s.item[i].ids
        /\ \A i \in DOMAIN s.item \ DOMAIN item : item'[i] = s.item[i]
        /\ \A i \in DOMAIN s.item : GivenTo(s, i) = s.given[i]
        /\ \A i \in DOMAIN item \cap DOMAIN s.item :
              i \in DOMAIN s.readItem /\ s.item[i].order = item[i].order
    BY <1>2, <1>3, ItemsCommitted
  <1>8. InOwnOrder(item')
    <2>1. ASSUME NEW i \in DOMAIN item', NEW r \in item'[i].ids
          PROVE  item'[i].order[2].deal \in {Deal[r], NoDeal}
      <3>1. CASE i \in DOMAIN item /\ item[i].order[2].address # s.address
        BY <1>5, <1>7, <2>1, <3>1 DEF RowsInDatabase, InOwnOrder
      <3>2. CASE i \in DOMAIN item /\ item[i].order[2].address = s.address
        <4>1. i \in DOMAIN s.item /\ s.item[i].order = item'[i].order /\ r \in s.item[i].ids
          BY <1>6, <1>7, <2>1, <3>2
        <4> QED BY <1>5, <4>1 DEF RowsInSession, InOwnOrder
      <3>3. CASE i \notin DOMAIN item
        <4>1. i \in DOMAIN s.item /\ item'[i] = s.item[i]
          BY <1>7, <2>1, <3>3
        <4> QED BY <1>5, <2>1, <4>1 DEF RowsInSession, InOwnOrder
      <3> QED BY <3>1, <3>2, <3>3
    <2> QED BY <2>1 DEF InOwnOrder
  <1>9. ASSUME NEW i \in DOMAIN item', NEW q \in counted'[i]
        PROVE  /\ q[2] \in item'[i].ids
               /\ \/ i \in DOMAIN item /\ q \in counted[i]
                  \/ /\ i \in DOMAIN s.item /\ q \in s.given[i]
                     /\ q[1] = s.event /\ q[2] \in Rowset(s.event)
    <2>1. \/ i \in DOMAIN item /\ q \in counted[i]
          \/ i \in DOMAIN s.item /\ q \in s.given[i]
      BY <1>1, <1>6, <1>9 DEF GivenTo
    <2>2. CASE i \in DOMAIN item /\ q \in counted[i]
      <3>1. q[2] \in item[i].ids
        BY <1>5, <2>2 DEF RowsInDatabase
      <3>2. item[i].ids \subseteq item'[i].ids
        <4>1. CASE item[i].order[2].address # s.address
          BY <1>7, <2>2, <4>1
        <4>2. CASE item[i].order[2].address = s.address
          <5>1. i \in DOMAIN s.readItem /\ item'[i].ids = s.item[i].ids
            BY <1>7, <2>2, <4>2
          <5>2. item[i].ids = s.readItem[i].ids
            BY <1>3, <2>2, <4>2 DEF SessionInv, ReadIsValid
          <5> QED BY <1>5, <5>1, <5>2 DEF RowsInSession
        <4> QED BY <4>1, <4>2
      <3> QED BY <2>2, <3>1, <3>2
    <2>3. CASE i \in DOMAIN s.item /\ q \in s.given[i]
      <3>1. q[2] \in s.item[i].ids
        BY <1>5, <2>3 DEF RowsInSession
      <3>2. item'[i].ids = s.item[i].ids
        BY <1>7, <2>3
      <3> QED BY <1>6, <2>3, <3>1, <3>2
    <2> QED BY <2>1, <2>2, <2>3
  <1>10. \A i \in DOMAIN item : order'[item'[i].order].status = order[item[i].order].status
    BY <1>6, <1>7
  <1>11. ASSUME NEW i \in ActiveItems', NEW q \in counted'[i],
                NEW j \in ActiveItems', NEW p \in counted'[j],
                p[2] = q[2], i \in DOMAIN item, q \in counted[i],
                j \in DOMAIN s.item, p \in s.given[j], p[2] \in Rowset(s.event),
                p[1] = s.event
         PROVE  FALSE
    <2>1. q[2] \in item[i].ids /\ order[item[i].order].status # Returned
      BY <1>5, <1>10, <1>11 DEF RowsInDatabase, ActiveItems, Active
    <2>2. p = <<s.event, p[2]>>
      BY <1>6, <1>11
    <2> QED BY <1>5, <1>11, <2>1, <2>2 DEF RowsInSession
  <1>12. ASSUME NEW i \in ActiveItems', NEW j \in ActiveItems',
                NEW p \in counted'[i], NEW q \in counted'[j], p[2] = q[2]
         PROVE  i = j /\ p = q
    <2>1. i \in DOMAIN item' /\ j \in DOMAIN item'
      BY DEF ActiveItems
    <2>2. CASE (i \in DOMAIN item /\ p \in counted[i]) /\ (j \in DOMAIN item /\ q \in counted[j])
      <3>1. i \in ActiveItems /\ j \in ActiveItems
        BY <1>10, <2>2 DEF ActiveItems, Active
      <3> QED BY <1>5, <1>12, <2>2, <3>1 DEF RowsInDatabase
    <2>3. CASE /\ i \in DOMAIN s.item /\ p \in s.given[i]
               /\ p[1] = s.event /\ p[2] \in Rowset(s.event)
               /\ j \in DOMAIN s.item /\ q \in s.given[j]
               /\ q[1] = s.event /\ q[2] \in Rowset(s.event)
      <3>1. p = q
        BY <1>6, <1>12, <2>3
      <3> QED BY <1>5, <2>3, <3>1 DEF RowsInSession
    <2> QED BY <1>9, <1>11, <1>12, <2>1, <2>2, <2>3
  <1>13. RowsInDatabase'
    BY <1>8, <1>9, <1>12 DEF RowsInDatabase, InOwnOrder
  <1> QED BY <1>4, <1>13 DEF RowsInv

\* However often files with a row are imported, by whom and at the same time as what,
\* one active order at most has to deliver it, once, if the client has one address: an
\* import with all its rows excludes every other import of the address, finds each row
\* in the positions of the active orders its key and the old key lead to, or gives it
\* to one position.  With several addresses it does not hold, see README.
THEOREM RowIsCountedOnce ==
    ASSUME OneAddress
    PROVE  Spec => []RowCountedOnce
  <1>1. Init => RowsInv
    <2> SUFFICES ASSUME Init PROVE RowsInv
      OBVIOUS
    <2>1. DOMAIN item = {} /\ \A w \in Importers : session[w] = Idle
      BY DEF Init
    <2> QED BY <2>1 DEF RowsInv, RowsInDatabase, InOwnOrder, ActiveItems
  <1>2. ImportsInv /\ RowsInv /\ [Next]_vars => RowsInv'
    <2> SUFFICES ASSUME ImportsInv, RowsInv, [Next]_vars PROVE RowsInv'
      OBVIOUS
    <2>1. ASSUME NEW w \in Importers, NEW e \in Events, NEW a \in Addresses, Begin(w, e, a)
          PROVE  RowsInv'
      BY <2>1, RowsBegin
    <2>2. ASSUME NEW w \in Importers, NextRow(w) PROVE RowsInv'
      BY <2>2, RowsNext
    <2>3. ASSUME NEW w \in Importers, Commit(w) PROVE RowsInv'
      BY <2>3, RowsCommit
    <2>4. ASSUME NEW w \in Importers, Rollback(w) PROVE RowsInv'
      BY <2>4, RowsRollback
    <2>5. CASE WarehouseStep
      BY <2>5, WarehouseSteps, RowsWarehouse
    <2>6. CASE UNCHANGED vars
      BY <2>6 DEF vars, RowsInv, RowsInDatabase, InOwnOrder, ActiveItems, Active
    <2> QED BY <2>1, <2>2, <2>3, <2>4, <2>5, <2>6 DEF Next, ImportStep
  <1>3. RowsInv => RowCountedOnce
    <2> SUFFICES ASSUME RowsInv, NEW r \in Rows
                 PROVE  Cardinality({q \in ActiveItems \X Events : <<q[2], r>> \in counted[q[1]]}) <= 1
      BY DEF RowCountedOnce
    <2> DEFINE S == {q \in ActiveItems \X Events : <<q[2], r>> \in counted[q[1]]}
    <2>1. ASSUME NEW p \in S, NEW q \in S PROVE p = q
      <3>1. p[1] \in ActiveItems /\ q[1] \in ActiveItems /\ p = <<p[1], p[2]>> /\ q = <<q[1], q[2]>>
        OBVIOUS
      <3>2. p[1] = q[1] /\ <<p[2], r>> = <<q[2], r>>
        BY <3>1 DEF RowsInv, RowsInDatabase
      <3> QED BY <3>1, <3>2
    <2> HIDE DEF S
    <2>2. S = {} \/ \E q \in S : S = {q}
      BY <2>1
    <2>3. Cardinality(S) \in {0, 1}
      BY <2>2, FS_EmptySet, FS_Singleton
    <2> QED BY <2>3 DEF S
  <1> QED BY <1>1, <1>2, <1>3, ImportsInvHolds, PTL DEF Spec

=============================================================================
