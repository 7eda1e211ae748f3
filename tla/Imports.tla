-------------------------------- MODULE Imports --------------------------------
(***************************************************************************)
(* How rows of order files become orders and positions: create_import of   *)
(* backend/app/imports_service.py, run by several API processes at once    *)
(* while the warehouse scans, completes and returns the orders.            *)
(*                                                                         *)
(* An import is one transaction: it takes advisory locks for every         *)
(* identity its rows name, reads the active orders and positions, works    *)
(* on what it read, and writes what it changed.  It locks no order and no  *)
(* position, so the warehouse commits between the read, the work on each   *)
(* row, and the writes.                                                    *)
(*                                                                         *)
(* Rows of one client, date and payer are modelled.  The address of a row  *)
(* is part of the key of its order; it comes from the geocoder when the    *)
(* file has only coordinates, so one file may be parsed with several.      *)
(***************************************************************************)
EXTENDS FiniteSets, Integers, SequencesExt

CONSTANTS
    Rows,       \* source rows, by their source_import_id
    Deal,       \* Deal[r]: the Smartup order a row names, or NoDeal
    Product,    \* Product[r]: its product, within the source order the row names
    NoDeal,
    Events,     \* uploads, by their telegram_event_id
    File,       \* File[e]: the sequence of rows uploaded
    Addresses,  \* what the geocoder may answer for the client
    Importers,  \* API processes
    MaxScans    \* bound on scanned blocks

ASSUME DealAssumption == NoDeal \notin Rows /\ \A r \in Rows : Deal[r] \notin Rows
ASSUME FileAssumption == \A e \in Events : File[e] \in Seq(Rows) /\ Len(File[e]) > 0
ASSUME ScanAssumption == MaxScans \in Nat

VARIABLES
    order,    \* orders by id: the upload that created them and their key
    item,     \* positions by id: the upload and the row that created them
    counted,  \* which rows of which uploads each position was given
    jobs,     \* uploads with an import job
    session,  \* what each process has read, and works on
    scans     \* blocks scanned so far

vars == <<order, item, counted, jobs, session, scans>>

None == <<>>
Open == "not_completed"
Closed == "completed"
Returned == "returned"

Rowset(e) == ToSet(File[e])

\* The table f with the entry v at x
With(f, x, v) == [y \in DOMAIN f \cup {x} |-> IF y = x THEN v ELSE f[y]]

\* normalize_import_row, import_order_key_candidates: the key with the deal
\* creates orders, the one without it only finds orders made before.
Key(a, r) == [address |-> a, deal |-> Deal[r]]
LegacyKey(a) == [address |-> a, deal |-> NoDeal]

\* Mutant: only the rows of an import are locked, not the orders they go to.
RowLocks(e, a) == {<<"event", e>>} \cup ({"item"} \X Rowset(e))

Locks(e, a) ==
    RowLocks(e, a) \cup ({"order"} \X ({Key(a, r) : r \in Rowset(e)} \cup {LegacyKey(a)}))

Idle == [pc |-> "idle", locks |-> {}]

Init ==
    /\ order = [o \in {} |-> None]
    /\ item = [i \in {} |-> None]
    /\ counted = [i \in {} |-> {}]
    /\ jobs = {}
    /\ session = [w \in Importers |-> Idle]
    /\ scans = 0

ItemsOf(o) == {i \in DOMAIN item : item[i].order = o}
Active(o) == order[o].status # Returned

-----------------------------------------------------------------------------
(* The read: the orders of the candidate keys, and the positions the rows  *)
(* are already in.                                                         *)

\* prefetch_active_orders: at most one is expected, see OneActiveOrderPerKey.
ActiveOrder(k) ==
    LET S == {o \in DOMAIN order : Active(o) /\ order[o].key = k}
    IN IF S = {} THEN None ELSE CHOOSE o \in S : TRUE

\* prefetch_existing_items: by the row a position was created from.
FoundByOwnRow(r) == {i \in DOMAIN item : i[2] = r /\ Active(item[i].order)}

\* index_order_positions_for_merge: by every row merged into a position, of
\* the orders that the rows of the file lead to.
FoundInOrders(r, O) == {i \in DOMAIN item : item[i].order \in O /\ r \in item[i].ids}

\* Mutant: merged rows are not looked for.
OwnRowOnly(r, O) ==
    LET S == FoundByOwnRow(r) IN IF S = {} THEN None ELSE CHOOSE i \in S : TRUE

Found(r, O) ==
    LET own == FoundByOwnRow(r)
        S == IF own = {} THEN FoundInOrders(r, O) ELSE own
    IN IF S = {} THEN None ELSE CHOOSE i \in S : TRUE

\* create_import up to the loop over the rows, with the locks granted
Begin(w, e, a) ==
    /\ session[w].pc = "idle"
    /\ e \notin jobs
    /\ \A v \in Importers :
          session[v].locks \cap Locks(e, a) = {}
    /\ LET cache == [k \in {Key(a, r) : r \in Rowset(e)} \cup {LegacyKey(a)} |-> ActiveOrder(k)]
           O == {cache[k] : k \in DOMAIN cache} \ {None}
       IN session' = [session EXCEPT ![w] =
              [pc |-> "rows", event |-> e, address |-> a, locks |-> Locks(e, a),
               todo |-> File[e],
               cache |-> cache, found |-> [r \in Rowset(e) |-> Found(r, O)],
               readOrder |-> order, readItem |-> item,
               order |-> order, item |-> item, given |-> [i \in DOMAIN item |-> {}]]]
    /\ UNCHANGED <<order, item, counted, jobs, scans>>

-----------------------------------------------------------------------------
(* The loop over the rows, on the session s of the transaction: "order"    *)
(* and "item" are its objects, readOrder and readItem what it has read.    *)
(* "given" records the rows each position is given.                        *)

\* Mutant: an order of the old key takes the rows of any deal.
AcceptsAnyDeal(s, o, r) == o # None

\* order_accepts_import_row_identity
AcceptsDeal(s, o, r) ==
    /\ o # None
    /\ NoDeal \in {Deal[r], s.order[o].deal} \/ s.order[o].deal = Deal[r]

\* resolve_import_order_for_row
Resolve(s, r) ==
    LET own == s.cache[Key(s.address, r)]
        legacy == s.cache[LegacyKey(s.address)]
    IN CASE own # None -> own
         [] own = None /\ AcceptsDeal(s, legacy, r) -> legacy
         [] OTHER -> None

\* The order of a row: found, with its empty deal filled in
\* (preserve_order_smartup_identity), or new.
WithOrder(s, r) ==
    LET o == Resolve(s, r)
        k == Key(s.address, r)
        id == <<s.event, k>>
    IN IF o # None
       THEN [s EXCEPT !.order[o].deal = IF @ = NoDeal THEN Deal[r] ELSE @]
       ELSE [s EXCEPT !.order = With(@, id, [key |-> k, deal |-> Deal[r], status |-> Open]),
                      !.cache[k] = id]

\* merge_import_row_into_item
Merge(s, i, r) ==
    LET was == s.item[i]
        plan == was.plan + 1
    IN [s EXCEPT !.item[i] =
                     [was EXCEPT !.plan = plan,
                                 !.ids = was.ids \cup {r},
                                 !.status = IF was.status = Closed /\ was.scanned < plan
                                            THEN Open ELSE was.status],
                 !.found[r] = i,
                 !.given[i] = @ \cup {<<s.event, r>>}]

NewItem(s, o, r) ==
    LET i == <<s.event, r>>
    IN [s EXCEPT !.item = With(@, i, [order |-> o, plan |-> 1, ids |-> {r},
                                      scanned |-> 0, status |-> Open]),
                 !.given = With(@, i, {<<s.event, r>>})]

\* position_merge_key
SamePosition(s, o, r) ==
    {i \in DOMAIN s.item : s.item[i].order = o /\ Product[i[2]] = Product[r]}

\* One row: one that is known is a duplicate and changes nothing here.
\* row_is_duplicate_in_current_import is the case of a row met before in the
\* file, which has been given to a position by then.
ImportRow(s, r) ==
    IF s.found[r] # None \/ \E i \in DOMAIN s.given : <<s.event, r>> \in s.given[i]
    THEN s
    ELSE LET t == WithOrder(s, r)
             o == Resolve(t, r)
             S == SamePosition(t, o, r)
         IN IF S # {} THEN Merge(t, CHOOSE i \in S : TRUE, r) ELSE NewItem(t, o, r)

NextRow(w) ==
    LET s == session[w]
    IN /\ s.pc = "rows"
       /\ s.todo # <<>>
       /\ session' = [session EXCEPT ![w] =
                         [ImportRow(s, Head(s.todo)) EXCEPT !.todo = Tail(s.todo)]]
       /\ UNCHANGED <<order, item, counted, jobs, scans>>

\* The UPDATE of an order or of a position writes the columns that the session
\* changed, with the values it computed from what it had read.
OrderWritten(s, o) ==
    IF o \notin DOMAIN order THEN s.order[o]
    ELSE IF o \in DOMAIN s.readOrder /\ s.order[o].deal # s.readOrder[o].deal
    THEN [order[o] EXCEPT !.deal = s.order[o].deal]
    ELSE order[o]

Flushed(i, was, now) ==
    [item[i] EXCEPT !.plan = IF now.plan # was.plan THEN now.plan ELSE @,
                    !.ids = IF now.ids # was.ids THEN now.ids ELSE @,
                    !.status = IF now.status # was.status THEN now.status ELSE @]

ItemWritten(s, i) ==
    IF i \notin DOMAIN item THEN s.item[i]
    ELSE IF i \in DOMAIN s.readItem THEN Flushed(i, s.readItem[i], s.item[i])
    ELSE item[i]

\* The end of create_import
Commit(w) ==
    LET s == session[w]
    IN /\ s.pc = "rows"
       /\ s.todo = <<>>
       /\ order' = [o \in DOMAIN order \cup DOMAIN s.order |-> OrderWritten(s, o)]
       /\ item' = [i \in DOMAIN item \cup DOMAIN s.item |-> ItemWritten(s, i)]
       /\ counted' = [i \in DOMAIN item' |->
                         (IF i \in DOMAIN counted THEN counted[i] ELSE {})
                         \cup (IF i \in DOMAIN s.given THEN s.given[i] ELSE {})]
       /\ jobs' = jobs \cup {s.event}
       /\ session' = [session EXCEPT ![w] = Idle]
       /\ UNCHANGED scans

\* The transaction fails or its process dies: nothing is written, and the
\* bot sends the upload again.
Rollback(w) ==
    /\ session[w].pc = "rows"
    /\ session' = [session EXCEPT ![w] = Idle]
    /\ UNCHANGED <<order, item, counted, jobs, scans>>

-----------------------------------------------------------------------------
(* The warehouse (orders_service.py, KizLifecycle in detail).              *)

\* create_scan: the last block of the plan completes the position
Scan(i) ==
    /\ scans < MaxScans
    /\ scans' = scans + 1
    /\ order[item[i].order].status = Open
    /\ item[i].status = Open
    /\ item[i].scanned < item[i].plan
    /\ item' = [item EXCEPT ![i].scanned = @ + 1,
                            ![i].status = IF item[i].scanned + 1 >= item[i].plan
                                          THEN Closed ELSE Open]
    /\ UNCHANGED <<order, counted, jobs, session>>

\* complete_order
CompleteOrder(o) ==
    /\ order[o].status = Open
    /\ \A i \in ItemsOf(o) : item[i].status = Closed
    /\ order' = [order EXCEPT ![o].status = Closed]
    /\ UNCHANGED <<item, counted, jobs, session, scans>>

\* mark_order_returned
ReturnOrder(o) ==
    /\ order[o].status = Closed
    /\ order' = [order EXCEPT ![o].status = Returned]
    /\ UNCHANGED <<item, counted, jobs, session, scans>>

ImportStep ==
    \E w \in Importers :
       \/ \E e \in Events, a \in Addresses : Begin(w, e, a)
       \/ NextRow(w)
       \/ Commit(w)
       \/ Rollback(w)

WarehouseStep ==
    \/ \E i \in DOMAIN item : Scan(i)
    \/ \E o \in DOMAIN order : CompleteOrder(o) \/ ReturnOrder(o)

Next == ImportStep \/ WarehouseStep

Spec == Init /\ [][Next]_vars

-----------------------------------------------------------------------------
(* Properties.                                                             *)

\* Orders, positions and jobs are named by what made them, every position has an
\* order, and no position is scanned beyond its plan.
TypeOK ==
    /\ DOMAIN order \subseteq Events \X {Key(a, r) : a \in Addresses, r \in Rows}
    /\ DOMAIN item \subseteq Events \X Rows
    /\ \A o \in DOMAIN order :
          order[o].status \in {Open, Closed, Returned} /\ order[o].key = o[2]
    /\ \A i \in DOMAIN item :
          /\ item[i].order \in DOMAIN order
          /\ item[i].ids \subseteq Rows
          /\ item[i].status \in {Open, Closed}
          /\ 0 <= item[i].scanned /\ item[i].scanned <= item[i].plan
    /\ DOMAIN counted = DOMAIN item
    /\ jobs \subseteq Events
    /\ scans \in 0..MaxScans

ActiveItems == {i \in DOMAIN item : Active(item[i].order)}

\* However often files with a row are imported, by whom and at the same time
\* as what, one active order at most has to deliver it, once.
RowCountedOnce ==
    \A r \in Rows :
       Cardinality({q \in ActiveItems \X Events : <<q[2], r>> \in counted[q[1]]}) <= 1

\* The plan of a position is the sum of the rows given to it: no import
\* overwrites what another has added.
PlanIsSumOfRows == \A i \in DOMAIN item : item[i].plan = Cardinality(counted[i])

\* A key leads to one active order, so the order an import finds does not
\* depend on the order of rows in the database.
OneActiveOrderPerKey ==
    \A o, p \in DOMAIN order :
       Active(o) /\ Active(p) /\ order[o].key = order[p].key => o = p

\* Two Smartup orders never share an order of the warehouse, nor its SkladBot
\* request, although they may meet at an order of the old key.
DealsKeptApart ==
    \A i, j \in DOMAIN item :
       item[i].order = item[j].order =>
          \A q \in counted[i], r \in counted[j] :
             NoDeal \in {Deal[q[2]], Deal[r[2]]} \/ Deal[q[2]] = Deal[r[2]]

\* A position that counts as completed is scanned in full.  The status a
\* merge decides by was read before the locks of the scans.
CompletedIsScanned ==
    \A i \in DOMAIN item : item[i].status = Closed => item[i].scanned = item[i].plan

\* An order that came back gets no rows any more.
ReturnedGetsNoRows ==
    [][\A i \in DOMAIN item :
          order[item[i].order].status = Returned => counted'[i] = counted[i]]_vars
==============================================================================
