------------------------------ MODULE Fulfilment ------------------------------
(***************************************************************************)
(* One order from placed to delivered: core/src/write/shipments.ts and     *)
(* core/src/write/orders.ts, on the arithmetic of                          *)
(* shared/src/fulfillment.ts.                                              *)
(*                                                                         *)
(* Every write is one transaction holding the lock of the order's row, so  *)
(* from its lock to its commit it is one step.  What it read before the    *)
(* lock is another matter.  The database is MySQL at its default, where    *)
(* the first plain read of a transaction fixes the snapshot that all its   *)
(* later plain reads see: a delivery reads its load before it locks the    *)
(* order, and so works from the order as it was then (`view`).  A page a   *)
(* member of staff acts from is a view too, of the status it showed.       *)
(***************************************************************************)
EXTENDS Integers, FiniteSets, Functions

CONSTANTS
    Lines,       \* the order's lines
    Ordered,     \* how much of each was ordered
    UnitPayable, \* what one unit of a line charges, discount and GST included
    Charges,     \* the delivery and unloading charges
    Advance,     \* paid before anything was sent
    TypedCash,   \* may staff type the cash a load brought?
    Staff,       \* requests in flight
    Alone,       \* kinds of request during which no other request commits
    MaxLoads     \* bound: loads an order is sent in

Loads == 1 .. MaxLoads
Kinds == {"move", "send", "deliver", "recall", "cancel", "close"}
Statuses == {"PLACED", "CONFIRMED", "PACKED", "OUT_FOR_DELIVERY",
             "PARTIALLY_DELIVERED", "DELIVERED", "CANCELLED"}
Terminal == {"DELIVERED", "CANCELLED"}
ShipmentStatuses == {"none", "OUT_FOR_DELIVERY", "DELIVERED", "CANCELLED"}

OrderValue(units) ==
    Charges + SumFunctionOnSet([l \in Lines |-> UnitPayable[l] * units[l]], Lines)

ASSUME FulfilmentAssumption ==
    /\ IsFiniteSet(Lines) /\ Lines # {}
    /\ Ordered \in [Lines -> Nat \ {0}]
    /\ UnitPayable \in [Lines -> Nat]
    /\ Charges \in Nat
    /\ Advance \in 0 .. OrderValue(Ordered)
    /\ TypedCash \in BOOLEAN
    /\ Alone \subseteq Kinds
    /\ MaxLoads \in Nat \ {0}

VARIABLES
    order,   \* the order, its lines, its loads and its ledger
    shelf,   \* units of each line put back into stock
    req,     \* what each request is doing
    listed   \* is the order on the list of a sweep that confirms orders?

vars == <<order, shelf, req, listed>>

Quantities == [Lines -> Nat]
LoadRows == [st : ShipmentStatuses, sent : Quantities, got : Quantities,
             cash : Nat, takings : Nat]
OrderRows == [status : Statuses, auto : BOOLEAN, qty : Quantities,
              grand : Nat, paid : Nat, loads : [Loads -> LoadRows]]

NoUnits == [l \in Lines |-> 0]
NoLoad  == [st |-> "none", sent |-> NoUnits, got |-> NoUnits,
            cash |-> 0, takings |-> 0]
PlacedOrder(auto) ==
    [status |-> "PLACED", auto |-> auto, qty |-> Ordered,
     grand |-> OrderValue(Ordered), paid |-> Advance,
     loads |-> [n \in Loads |-> NoLoad]]
Unread == PlacedOrder(FALSE)
Idle   == [kind |-> "idle", load |-> 0, view |-> Unread]
Requests == [kind : Kinds \cup {"idle"}, load : 0 .. MaxLoads, view : OrderRows]

TypeOK ==
    /\ order \in OrderRows
    /\ shelf \in Quantities
    /\ req \in [Staff -> Requests]
    /\ \A w \in Staff : req[w].kind = "deliver" => req[w].load \in Loads
    /\ listed \in BOOLEAN

Init ==
    /\ \E auto \in BOOLEAN : order = PlacedOrder(auto)
    /\ shelf = NoUnits
    /\ req = [w \in Staff |-> Idle]
    /\ listed = FALSE

-----------------------------------------------------------------------------
(* The arithmetic of loads: shared/src/fulfillment.ts.                     *)

In(o, st) == {n \in Loads : o.loads[n].st = st}
LargestOf(a, b)  == IF a >= b THEN a ELSE b
SmallestOf(a, b) == IF a <= b THEN a ELSE b

OnRoad(o, l) ==
    SumFunctionOnSet([n \in Loads |-> o.loads[n].sent[l]], In(o, "OUT_FOR_DELIVERY"))

Arrived(o, l) ==
    SumFunctionOnSet([n \in Loads |-> o.loads[n].got[l]], In(o, "DELIVERED"))

Remaining(o, l) == LargestOf(0, o.qty[l] - OnRoad(o, l) - Arrived(o, l))

\* deriveOrderStatus: what an order's loads say its status is.
Derive(o) ==
    IF In(o, "OUT_FOR_DELIVERY") # {} THEN "OUT_FOR_DELIVERY"
    ELSE IF \A l \in Lines : Arrived(o, l) = 0 THEN "PACKED"
    ELSE IF \A l \in Lines : Arrived(o, l) >= o.qty[l] THEN "DELIVERED"
    ELSE "PARTIALLY_DELIVERED"

Collected(o) == SumFunctionOnSet([n \in Loads |-> o.loads[n].cash], Loads)
Ledger(o) == Advance + Collected(o)
Outstanding(o) == LargestOf(0, o.grand - Ledger(o))

\* What has arrived is worth, charges included.
Worth(o) == OrderValue([l \in Lines |-> SmallestOf(Arrived(o, l), o.qty[l])])

\* Mutant: what was paid before is asked for again.
MutantCashToCollect(before, after) ==
    IF Derive(after) = "DELIVERED" THEN Outstanding(before)
    ELSE SmallestOf(LargestOf(0, Worth(after)), Outstanding(before))

\* cashToCollect, for a load that takes the order from `before` to `after`.
CashToCollect(before, after) ==
    IF Derive(after) = "DELIVERED" THEN Outstanding(before)
    ELSE SmallestOf(LargestOf(0, Worth(after) - Ledger(before)), Outstanding(before))

\* canTransition: the moves a button may ask for.
RelabelTo(st) ==
    IF st = "PLACED" THEN {"CONFIRMED"}
    ELSE IF st = "CONFIRMED" THEN {"PLACED", "PACKED"}
    ELSE IF st = "PACKED" THEN {"CONFIRMED"} ELSE {}
Cancellable == {"PLACED", "CONFIRMED", "PACKED", "OUT_FOR_DELIVERY"}
Sendable    == {"PACKED", "OUT_FOR_DELIVERY", "PARTIALLY_DELIVERED"}

-----------------------------------------------------------------------------
(* Requests.                                                               *)

\* A delivery's first read is of its load, before the lock, and fixes all it
\* sees; the other transactions lock first, and see what they find.
MutantReadsBeforeLock == {"deliver", "send", "close"}
ReadsBeforeLock == {"deliver"}

\* What a page, or the lines read before the transaction, show of an order.
Page(o) == [Unread EXCEPT !.status = o.status, !.qty = o.qty]

Reading(k) ==
    IF k \in ReadsBeforeLock THEN order
    ELSE IF k \in {"move", "cancel"} THEN Page(order) ELSE Unread

\* What the transaction of request w takes the order to be.
View(w) == IF req[w].kind \in ReadsBeforeLock THEN req[w].view ELSE order

Begin(w, k, n) ==
    /\ req[w] = Idle
    /\ req' = [req EXCEPT ![w] = [kind |-> k, load |-> n, view |-> Reading(k)]]
    /\ UNCHANGED <<order, shelf, listed>>

BeginMove(w)    == RelabelTo(order.status) # {} /\ Begin(w, "move", 0)
BeginSend(w)    == Begin(w, "send", 0)
BeginDeliver(w) == \E n \in Loads \ In(order, "none") : Begin(w, "deliver", n)
BeginRecall(w)  == \E n \in {0} \cup (Loads \ In(order, "none")) : Begin(w, "recall", n)
BeginCancel(w)  == order.status \in Cancellable /\ Begin(w, "cancel", 0)
BeginClose(w)   == Begin(w, "close", 0)

\* Request w gets the order's lock, does its work and commits.
Commit(w, k) ==
    /\ req[w].kind = k
    /\ \A v \in Staff \ {w} : req[v].kind \notin Alone
    /\ req' = [req EXCEPT ![w] = Idle]
    /\ UNCHANGED listed

\* A refusal, or an error: the transaction rolls back.
Refuse(w) ==
    /\ req[w] # Idle
    /\ req' = [req EXCEPT ![w] = Idle]
    /\ UNCHANGED <<order, shelf, listed>>

\* moveOrderStatus: a relabelling, if the status is still what the page showed.
Relabel(w) ==
    /\ Commit(w, "move")
    /\ order.status = req[w].view.status
    /\ \E to \in RelabelTo(order.status) :
         order' = [order EXCEPT !.status = to, !.auto = FALSE]
    /\ UNCHANGED shelf

\* applyDerivedStatus, on the rows of the transaction's own reading.
Derived(o, reading) == [o EXCEPT !.status = Derive(reading), !.auto = FALSE]

\* Every way to take up to `most` of each line.
PartsOf(most) ==
    {q \in [Lines -> 0 .. SumFunctionOnSet(Ordered, Lines)] :
        \A l \in Lines : q[l] <= most[l]}

WithLoad(o, n, q) ==
    [o EXCEPT !.loads[n] = [NoLoad EXCEPT !.st = "OUT_FOR_DELIVERY", !.sent = q]]

\* sendLoad: some or all of what is left goes out, as the next load.
Send(w) ==
    /\ Commit(w, "send")
    /\ LET v == View(w)
           n == 1 + Cardinality(Loads \ In(v, "none"))
       IN  /\ v.status \in Sendable
           /\ n \in Loads
           /\ order.loads[n].st = "none"     \* unique (orderId, number)
           /\ \E q \in PartsOf([l \in Lines |-> Remaining(v, l)]) \ {NoUnits} :
                order' = Derived(WithLoad(order, n, q), WithLoad(v, n, q))
    /\ UNCHANGED shelf

Arrive(o, n, got, cash) ==
    [o EXCEPT !.loads[n].st = "DELIVERED", !.loads[n].got = got,
              !.loads[n].cash = @ + cash,
              !.loads[n].takings = @ + (IF cash > 0 THEN 1 ELSE 0)]

\* The cash a load may bring: what the slip asks for, or what staff type.
CashFor(before, after) ==
    {CashToCollect(before, after)}
        \cup (IF TypedCash THEN 0 .. Outstanding(before) ELSE {})

\* deliverLoad: what came of a load, and its cash.  The row keeps what others
\* committed; status, cash and `paid` follow from the transaction's snapshot.
Deliver(w) ==
    /\ Commit(w, "deliver")
    /\ LET v == View(w)
           n == req[w].load
       IN  /\ v.loads[n].st = "OUT_FOR_DELIVERY"
           /\ \E got \in PartsOf(v.loads[n].sent) :
                \E cash \in CashFor(v, Arrive(v, n, got, 0)) :
                    order' = [Derived(Arrive(order, n, got, cash), Arrive(v, n, got, cash))
                        EXCEPT !.paid = IF cash > 0 THEN Ledger(v) + cash ELSE @]
    /\ UNCHANGED shelf

CalledBack(o, targets) ==
    [o EXCEPT !.loads = [n \in Loads |->
        IF n \in targets THEN [o.loads[n] EXCEPT !.st = "CANCELLED"] ELSE o.loads[n]]]

\* recallLoads: one load, or (load 0) every one that is on the road.
Recall(w) ==
    /\ Commit(w, "recall")
    /\ LET targets == {n \in In(order, "OUT_FOR_DELIVERY") : req[w].load \in {0, n}}
           after == CalledBack(order, targets)
       IN  /\ targets # {}
           /\ order' = Derived(after, after)
    /\ UNCHANGED shelf

\* Mutant: the units are taken a second time.
MutantBackOnShelf(units) == shelf' = [l \in Lines |-> shelf[l] - units[l]]

BackOnShelf(units) == shelf' = [l \in Lines |-> shelf[l] + units[l]]

\* Mutant: what was delivered does not stand in the way.
MutantCancelDelivered(w) ==
    /\ Commit(w, "cancel")
    /\ LET after == CalledBack(order, In(order, "OUT_FOR_DELIVERY"))
       IN  \/ /\ order.status = req[w].view.status
              /\ order' = [after EXCEPT !.status = "CANCELLED"]
              /\ \E restock \in BOOLEAN :
                   IF restock THEN BackOnShelf(req[w].view.qty) ELSE UNCHANGED shelf
           \/ /\ order.status # req[w].view.status
              /\ order' = after
              /\ UNCHANGED shelf

\* cancelOrder: refused once anything was delivered.  The loads on the road are
\* called back first, and stay called back when the status has moved on.
CancelOrder(w) ==
    /\ Commit(w, "cancel")
    /\ In(order, "DELIVERED") = {}
    /\ LET after == CalledBack(order, In(order, "OUT_FOR_DELIVERY"))
       IN  \/ /\ order.status = req[w].view.status
              /\ order' = [after EXCEPT !.status = "CANCELLED"]
              /\ \E restock \in BOOLEAN :
                   IF restock THEN BackOnShelf(req[w].view.qty) ELSE UNCHANGED shelf
           \/ /\ order.status # req[w].view.status
              /\ order' = after
              /\ UNCHANGED shelf

\* closeOrderShort: the order ends with what arrived, and is billed for that.
CloseShort(w) ==
    /\ Commit(w, "close")
    /\ LET v == View(w)
           came == [l \in Lines |-> SmallestOf(Arrived(v, l), v.qty[l])]
       IN  /\ v.status = "PARTIALLY_DELIVERED"
           /\ order' = [order EXCEPT !.status = "DELIVERED", !.qty = came,
                                     !.grand = Worth(v), !.paid = Ledger(v)]
           /\ \E restock \in BOOLEAN :
                IF restock
                THEN BackOnShelf([l \in Lines |-> LargestOf(0, v.qty[l] - Arrived(v, l))])
                ELSE UNCHANGED shelf

\* autoConfirmOrders: a sweep lists the orders whose minute has run out, then
\* confirms them one by one, each by the same compare-and-swap as the button.
MutantSweepLists ==
    /\ ~listed
    /\ order.status = "PLACED" /\ ~order.auto
    /\ listed' = TRUE
    /\ UNCHANGED <<order, shelf, req>>
SweepLists ==
    /\ ~listed
    /\ order.status = "PLACED" /\ order.auto
    /\ listed' = TRUE
    /\ UNCHANGED <<order, shelf, req>>
SweepConfirms ==
    /\ listed
    /\ order.status = "PLACED"
    /\ order' = [order EXCEPT !.status = "CONFIRMED", !.auto = FALSE]
    /\ listed' = FALSE
    /\ UNCHANGED <<shelf, req>>
SweepPasses ==
    /\ listed
    /\ order.status # "PLACED"
    /\ listed' = FALSE
    /\ UNCHANGED <<order, shelf, req>>

Request(w) ==
    \/ BeginMove(w) \/ BeginSend(w) \/ BeginDeliver(w)
    \/ BeginRecall(w) \/ BeginCancel(w) \/ BeginClose(w)
    \/ Relabel(w) \/ Send(w) \/ Deliver(w)
    \/ Recall(w) \/ CancelOrder(w) \/ CloseShort(w)
    \/ Refuse(w)
Sweep == SweepLists \/ SweepConfirms \/ SweepPasses
Next == Sweep \/ \E w \in Staff : Request(w)

Spec == Init /\ [][Next]_vars

\* The cron keeps coming, and a sweep works through its list.
FairSpec == Spec /\ WF_vars(Sweep)

-----------------------------------------------------------------------------
(* Properties.                                                             *)

\* No unit is on two loads, or on the road and with the customer, at once: for
\* every line, what is out and what arrived never exceed what the line is for.
NothingSentTwice ==
    \A l \in Lines : OnRoad(order, l) + Arrived(order, l) <= order.qty[l]

\* Stock gets back exactly what the customer did not: units return to the shelf
\* only when the order ends, and then all that never arrived, once.
ShelfGetsWhatNeverCame ==
    \A l \in Lines :
        shelf[l] > 0 =>
            /\ order.status \in Terminal
            /\ OnRoad(order, l) = 0
            /\ shelf[l] + Arrived(order, l) = Ordered[l]

\* A load's cash is taken once, and only for a load that arrived.
CashTakenOnce ==
    \A n \in Loads :
        /\ order.loads[n].takings <= 1
        /\ order.loads[n].takings = 1 => order.loads[n].st = "DELIVERED"

\* However cash is typed in, the customer never pays above the order's price.
NeverOverCollected == Ledger(order) <= OrderValue(Ordered)

\* `amountPaid`, a cache, says what the ledger says.
PaidIsTheLedger == order.paid = Ledger(order)

\* The status is what the loads say (applyDerivedStatus "after every change"):
\* an order past packing has the derived status, one before it or cancelled
\* has nothing on the road.
StatusFollowsLoads ==
    IF order.status \in {"PLACED", "CONFIRMED", "CANCELLED"}
    THEN In(order, "OUT_FOR_DELIVERY") = {}
    ELSE order.status = Derive(order)

\* Pay as the goods arrive: with the slip's own figures, what has been paid is
\* what has arrived is worth, charges included, or the advance if it was more.
PayAsItArrives ==
    In(order, "DELIVERED") # {} => Ledger(order) = LargestOf(Advance, Worth(order))

\* Goods and cash are accounted for to the unit: nothing is sent twice, the shelf
\* gets back what never came, and the ledger has each load's cash once and no more
\* than is owed (shipments.ts, orders.ts).
GoodsAndCashAddUp ==
    /\ NothingSentTwice /\ ShelfGetsWhatNeverCame
    /\ CashTakenOnce /\ NeverOverCollected /\ PaidIsTheLedger

\* The status and what has been paid follow from what arrived, however requests
\* cross (applyDerivedStatus, cashToCollect).
OrderFollowsItsLoads == StatusFollowsLoads /\ PayAsItArrives

\* A delivered or a cancelled order stays what it is: its status, its lines,
\* its price and its loads.
TerminalIsFinal ==
    [][order.status \in Terminal => order' = order]_order

(* Why the goods and the cash add up: what else is true of every reachable  *)
(* state.                                                                  *)

\* Where no other request commits during a delivery, what a delivery saw of the
\* goods and the money is what it finds.
SnapshotsHold ==
    \A w \in Staff : req[w].kind = "deliver" =>
        /\ req[w].view.loads = order.loads
        /\ req[w].view.qty = order.qty /\ req[w].view.grand = order.grand

\* Until it ends, the order is for what was ordered, and stock has none of it back.
OpenAsPlaced ==
    order.status \notin Terminal =>
        order.qty = Ordered /\ order.grand = OrderValue(Ordered) /\ shelf = NoUnits

\* Who cancels saw an order that had not ended.
CancelsSawItOpen ==
    \A w \in Staff : req[w].kind = "cancel" =>
        req[w].view.status \in Cancellable /\ req[w].view.qty = Ordered

\* A load on the road carries something, and the status says that it is there.
RoadIsMarked ==
    \A n \in In(order, "OUT_FOR_DELIVERY") :
        /\ order.status = "OUT_FOR_DELIVERY"
        /\ \E l \in Lines : order.loads[n].sent[l] > 0

\* Only a load that has arrived has brought cash.
CashOnArrival ==
    \A n \in Loads : order.loads[n].st # "DELIVERED" =>
        order.loads[n].cash = 0 /\ order.loads[n].takings = 0

GoodsInv ==
    /\ TypeOK /\ SnapshotsHold /\ OpenAsPlaced /\ CancelsSawItOpen
    /\ RoadIsMarked /\ CashOnArrival /\ GoodsAndCashAddUp

\* Where no other request commits during a cancel either, the order has not moved
\* on since the page it is cancelled from, except that the sweep confirmed it.
CancelsSawItsStatus ==
    \A w \in Staff : req[w].kind = "cancel" =>
        req[w].view.status = order.status \/ order.status = "CONFIRMED"

\* Before packing nothing has arrived.
NothingArrivedYet ==
    order.status \in {"PLACED", "CONFIRMED"} => \A l \in Lines : Arrived(order, l) = 0

StatusInv == GoodsInv /\ CancelsSawItsStatus /\ NothingArrivedYet /\ StatusFollowsLoads

PayInv == StatusInv /\ PayAsItArrives

\* An order waiting to be confirmed by itself is confirmed, or somebody acts.
WaitingIsConfirmed ==
    order.auto /\ order.status = "PLACED" ~> ~(order.auto /\ order.status = "PLACED")

\* What a fulfilment promises of the goods.
Goods == INSTANCE GoodsFlow WITH
    ended   <- order.status \in Terminal,
    store   <- [l \in Lines |-> IF order.status \in Terminal THEN 0
                                ELSE Remaining(order, l)],
    road    <- [l \in Lines |-> OnRoad(order, l)],
    arrived <- [l \in Lines |-> Arrived(order, l)]
ImplementsGoods == Goods!Spec
=============================================================================
