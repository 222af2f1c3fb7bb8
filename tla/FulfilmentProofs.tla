--------------------------- MODULE FulfilmentProofs ---------------------------
(***************************************************************************)
(* Proofs about one order's fulfilment, for every order, every number of   *)
(* loads and every number of requests: what is sent, what arrives, what    *)
(* goes back on the shelf and what is paid for it.                         *)
(*                                                                         *)
(* Sums over loads and over lines are taken apart by the lemmas of         *)
(* SumTheorems; the invariants are those Fulfilment states and its runs    *)
(* check (GoodsInv, StatusInv, PayInv).                                    *)
(***************************************************************************)
EXTENDS Fulfilment, SumTheorems, TLAPS

-----------------------------------------------------------------------------
(* Rows.                                                                   *)

\* An order has finitely many loads, numbered from one.
LEMMA FewLoads == IsFiniteSet(Loads) /\ \A n \in Loads : n \in Nat /\ n <= MaxLoads
<1>1. \A n \in Nat : IsFiniteSet(1..n)
  BY FS_Interval
<1> QED
  BY <1>1, FulfilmentAssumption DEF Loads

\* What the fields of an order and of its loads are.
LEMMA OrderTyped ==
    ASSUME NEW o \in OrderRows
    PROVE  /\ o.status \in Statuses /\ o.auto \in BOOLEAN /\ o.qty \in Quantities
           /\ o.grand \in Nat /\ o.paid \in Nat /\ o.loads \in [Loads -> LoadRows]
  BY DEF OrderRows

\* What the fields of a load are.
LEMMA LoadTyped ==
    ASSUME NEW o \in OrderRows, NEW n \in Loads
    PROVE  /\ o.loads[n] \in LoadRows /\ o.loads[n].st \in ShipmentStatuses
           /\ o.loads[n].sent \in Quantities /\ o.loads[n].got \in Quantities
           /\ o.loads[n].cash \in Nat /\ o.loads[n].takings \in Nat
           /\ \A l \in Lines : o.loads[n].sent[l] \in Nat /\ o.loads[n].got[l] \in Nat
  BY OrderTyped DEF LoadRows, Quantities

\* A quantity says of each line how much.
LEMMA QuantityTyped ==
    ASSUME NEW q \in Quantities
    PROVE  \A l \in Lines : q[l] \in Nat
  BY DEF Quantities

\* Two records of an order are one when their fields are.
LEMMA SameOrder ==
    ASSUME NEW a \in OrderRows, NEW b \in OrderRows,
           a.status = b.status, a.auto = b.auto, a.qty = b.qty, a.grand = b.grand, a.paid = b.paid,
           a.loads = b.loads
    PROVE  a = b
  BY DEF OrderRows

-----------------------------------------------------------------------------
(* What is on the road, what has arrived and what has been collected, load *)
(* by load.                                                                *)

RoadOf(o, l) == [n \in Loads |-> IF o.loads[n].st = "OUT_FOR_DELIVERY" THEN o.loads[n].sent[l] ELSE 0]
CameOf(o, l) == [n \in Loads |-> IF o.loads[n].st = "DELIVERED" THEN o.loads[n].got[l] ELSE 0]
CashOf(o) == [n \in Loads |-> o.loads[n].cash]

\* What is out and what has arrived, as sums over all the loads.
LEMMA LoadByLoad ==
    ASSUME NEW o \in OrderRows, NEW l \in Lines
    PROVE  /\ OnRoad(o, l) = SumFunctionOnSet(RoadOf(o, l), Loads)
           /\ Arrived(o, l) = SumFunctionOnSet(CameOf(o, l), Loads)
           /\ OnRoad(o, l) \in Nat /\ Arrived(o, l) \in Nat
           /\ \A n \in Loads : RoadOf(o, l)[n] \in Nat /\ CameOf(o, l)[n] \in Nat
<1>1. \A n \in Loads : RoadOf(o, l)[n] \in Nat /\ CameOf(o, l)[n] \in Nat
  BY LoadTyped DEF RoadOf, CameOf
<1>2. OnRoad(o, l) = SumFunctionOnSet(RoadOf(o, l), Loads)
  <2> DEFINE sent == [n \in Loads |-> o.loads[n].sent[l]]
  <2>1. \A n \in Loads : sent[n] \in Int /\ RoadOf(o, l)[n] = IF n \in In(o, "OUT_FOR_DELIVERY") THEN sent[n] ELSE 0
    BY LoadTyped DEF RoadOf, In
  <2>2. In(o, "OUT_FOR_DELIVERY") \subseteq Loads
    BY DEF In
  <2>3. SumFunctionOnSet(sent, In(o, "OUT_FOR_DELIVERY")) = SumFunctionOnSet(RoadOf(o, l), Loads)
    <3> HIDE DEF sent
    <3> QED
      BY <2>1, <2>2, FewLoads, SumWhere
  <2> QED
    BY <2>3 DEF OnRoad
<1>3. Arrived(o, l) = SumFunctionOnSet(CameOf(o, l), Loads)
  <2> DEFINE got == [n \in Loads |-> o.loads[n].got[l]]
  <2>1. \A n \in Loads : got[n] \in Int /\ CameOf(o, l)[n] = IF n \in In(o, "DELIVERED") THEN got[n] ELSE 0
    BY LoadTyped DEF CameOf, In
  <2>2. In(o, "DELIVERED") \subseteq Loads
    BY DEF In
  <2>3. SumFunctionOnSet(got, In(o, "DELIVERED")) = SumFunctionOnSet(CameOf(o, l), Loads)
    <3> HIDE DEF got
    <3> QED
      BY <2>1, <2>2, FewLoads, SumWhere
  <2> QED
    BY <2>3 DEF Arrived
<1> QED
  BY <1>1, <1>2, <1>3, FewLoads, SumIsNat

\* What has been collected, as a sum over all the loads, and what is owed.
LEMMA CashByLoad ==
    ASSUME NEW o \in OrderRows
    PROVE  /\ Collected(o) = SumFunctionOnSet(CashOf(o), Loads) /\ Collected(o) \in Nat
           /\ \A n \in Loads : CashOf(o)[n] = o.loads[n].cash /\ CashOf(o)[n] \in Nat
           /\ Ledger(o) = Advance + Collected(o) /\ Ledger(o) \in Nat /\ Advance \in Nat
           /\ Outstanding(o) \in Nat /\ o.grand \in Nat
           /\ Outstanding(o) = LargestOf(0, o.grand - Ledger(o))
<1>1. \A n \in Loads : CashOf(o)[n] = o.loads[n].cash /\ CashOf(o)[n] \in Nat
  BY LoadTyped DEF CashOf
<1>2. Collected(o) = SumFunctionOnSet(CashOf(o), Loads)
  BY DEF Collected, CashOf
<1>3. Collected(o) \in Nat
  BY <1>1, <1>2, FewLoads, SumIsNat
<1>4. Advance \in Nat
  BY FulfilmentAssumption
<1>5. o.grand \in Nat
  BY OrderTyped
<1> QED
  BY <1>1, <1>2, <1>3, <1>4, <1>5 DEF Ledger, Outstanding, LargestOf

\* Orders with the same loads have sent, brought and collected the same.
LEMMA SameLoads ==
    ASSUME NEW a, NEW b, a.loads = b.loads
    PROVE  /\ \A st : In(a, st) = In(b, st)
           /\ \A l : OnRoad(a, l) = OnRoad(b, l) /\ Arrived(a, l) = Arrived(b, l)
           /\ Collected(a) = Collected(b) /\ Ledger(a) = Ledger(b)
  BY DEF In, OnRoad, Arrived, Collected, Ledger

\* One load changes.
LEMMA OneLoad ==
    ASSUME NEW a \in OrderRows, NEW b \in OrderRows, NEW n \in Loads,
           \A m \in Loads : m # n => b.loads[m] = a.loads[m]
    PROVE  /\ \A l \in Lines : /\ OnRoad(b, l) = OnRoad(a, l) + RoadOf(b, l)[n] - RoadOf(a, l)[n]
                               /\ Arrived(b, l) = Arrived(a, l) + CameOf(b, l)[n] - CameOf(a, l)[n]
           /\ Collected(b) = Collected(a) + b.loads[n].cash - a.loads[n].cash
<1>1. ASSUME NEW l \in Lines
      PROVE  /\ OnRoad(b, l) = OnRoad(a, l) + RoadOf(b, l)[n] - RoadOf(a, l)[n]
             /\ Arrived(b, l) = Arrived(a, l) + CameOf(b, l)[n] - CameOf(a, l)[n]
  <2>1. \A m \in Loads : m # n => RoadOf(b, l)[m] = RoadOf(a, l)[m] /\ CameOf(b, l)[m] = CameOf(a, l)[m]
    BY DEF RoadOf, CameOf
  <2>2. \A m \in Loads : /\ RoadOf(a, l)[m] \in Int /\ RoadOf(b, l)[m] \in Int
                         /\ CameOf(a, l)[m] \in Int /\ CameOf(b, l)[m] \in Int
    BY LoadByLoad
  <2>3. SumFunctionOnSet(RoadOf(b, l), Loads)
           = SumFunctionOnSet(RoadOf(a, l), Loads) + RoadOf(b, l)[n] - RoadOf(a, l)[n]
    BY <2>1, <2>2, FewLoads, SumMoves
  <2>4. SumFunctionOnSet(CameOf(b, l), Loads)
           = SumFunctionOnSet(CameOf(a, l), Loads) + CameOf(b, l)[n] - CameOf(a, l)[n]
    BY <2>1, <2>2, FewLoads, SumMoves
  <2> QED
    BY <2>3, <2>4, LoadByLoad
<1>2. Collected(b) = Collected(a) + b.loads[n].cash - a.loads[n].cash
  <2>1. \A m \in Loads : /\ m # n => CashOf(b)[m] = CashOf(a)[m]
                         /\ CashOf(b)[m] \in Int /\ CashOf(a)[m] \in Int
    BY CashByLoad
  <2>2. SumFunctionOnSet(CashOf(b), Loads) = SumFunctionOnSet(CashOf(a), Loads) + CashOf(b)[n] - CashOf(a)[n]
    BY <2>1, FewLoads, SumMoves
  <2> QED
    BY <2>2, CashByLoad
<1> QED
  BY <1>1, <1>2

\* Loads are called back.
LEMMA LoadsBack ==
    ASSUME NEW a \in OrderRows, NEW b \in OrderRows, NEW targets, targets \subseteq In(a, "OUT_FOR_DELIVERY"),
           \A n \in Loads \ targets : b.loads[n] = a.loads[n],
           \A n \in targets : /\ b.loads[n].st = "CANCELLED" /\ b.loads[n].cash = a.loads[n].cash
    PROVE  /\ In(b, "OUT_FOR_DELIVERY") = In(a, "OUT_FOR_DELIVERY") \ targets
           /\ In(b, "DELIVERED") = In(a, "DELIVERED")
           /\ \A l \in Lines : OnRoad(b, l) <= OnRoad(a, l) /\ Arrived(b, l) = Arrived(a, l)
           /\ Collected(b) = Collected(a)
<1>1. /\ In(b, "OUT_FOR_DELIVERY") = In(a, "OUT_FOR_DELIVERY") \ targets
      /\ In(b, "DELIVERED") = In(a, "DELIVERED")
  BY DEF In
<1>2. ASSUME NEW l \in Lines
      PROVE  OnRoad(b, l) <= OnRoad(a, l) /\ Arrived(b, l) = Arrived(a, l)
  <2>0. \A n \in targets : a.loads[n].st = "OUT_FOR_DELIVERY"
    BY DEF In
  <2>1. \A n \in Loads : RoadOf(b, l)[n] \in Nat /\ RoadOf(a, l)[n] \in Nat
    BY LoadByLoad
  <2>2. \A n \in Loads : RoadOf(b, l)[n] = RoadOf(a, l)[n] \/ RoadOf(b, l)[n] = 0
    BY DEF RoadOf
  <2>3. \A n \in Loads : CameOf(b, l)[n] = CameOf(a, l)[n]
    BY <2>0 DEF CameOf
  <2>4. \A n \in Loads : RoadOf(b, l)[n] \in Int /\ RoadOf(a, l)[n] \in Int /\ RoadOf(b, l)[n] <= RoadOf(a, l)[n]
    BY <2>1, <2>2
  <2>5. SumFunctionOnSet(RoadOf(b, l), Loads) <= SumFunctionOnSet(RoadOf(a, l), Loads)
    BY <2>4, FewLoads, SumBelow
  <2>6. SumFunctionOnSet(CameOf(b, l), Loads) = SumFunctionOnSet(CameOf(a, l), Loads)
    BY <2>3, FewLoads, SumSame
  <2> QED
    BY <2>5, <2>6, LoadByLoad
<1>3. Collected(b) = Collected(a)
  <2>1. \A n \in Loads : CashOf(b)[n] = CashOf(a)[n]
    BY DEF CashOf
  <2> QED
    BY <2>1, FewLoads, SumSame, CashByLoad
<1> QED
  BY <1>1, <1>2, <1>3

\* With nothing on the road nothing is; with nothing delivered nothing has come.
LEMMA NoneIn ==
    ASSUME NEW o \in OrderRows, NEW l \in Lines
    PROVE  /\ In(o, "OUT_FOR_DELIVERY") = {} => OnRoad(o, l) = 0
           /\ In(o, "DELIVERED") = {} => Arrived(o, l) = 0
  BY SumOfNone DEF OnRoad, Arrived

\* A load on the road is a part of what is.
LEMMA OneOnRoad ==
    ASSUME NEW o \in OrderRows, NEW l \in Lines, NEW n \in In(o, "OUT_FOR_DELIVERY")
    PROVE  o.loads[n].sent[l] <= OnRoad(o, l)
<1>1. n \in Loads /\ RoadOf(o, l)[n] = o.loads[n].sent[l]
  BY DEF In, RoadOf
<1>2. RoadOf(o, l)[n] <= SumFunctionOnSet(RoadOf(o, l), Loads)
  BY <1>1, LoadByLoad, FewLoads, SumCovers
<1> QED
  BY <1>1, <1>2, LoadByLoad

-----------------------------------------------------------------------------
(* What the operators make of an order.                                    *)

\* What units are worth is a whole amount.
LEMMA ValueTyped ==
    ASSUME NEW units \in Quantities
    PROVE  OrderValue(units) \in Nat
<1> PICK worth : worth = [l \in Lines |-> UnitPayable[l] * units[l]]
  OBVIOUS
<1>1. \A a, b \in Nat : a * b \in Nat
  OBVIOUS
<1>2. \A l \in Lines : UnitPayable[l] \in Nat /\ units[l] \in Nat
  BY FulfilmentAssumption DEF Quantities
<1>3. \A l \in Lines : worth[l] \in Nat
  BY <1>1, <1>2
<1>4. SumFunctionOnSet(worth, Lines) \in Nat
  BY <1>3, FulfilmentAssumption, SumIsNat
<1>5. OrderValue(units) = Charges + SumFunctionOnSet(worth, Lines) /\ Charges \in Nat
  BY FulfilmentAssumption DEF OrderValue
<1> QED
  BY <1>4, <1>5

\* The rows an order starts with are of their types.
LEMMA PlacedTyped ==
    /\ Ordered \in Quantities /\ NoUnits \in Quantities /\ NoLoad \in LoadRows
    /\ Unread \in OrderRows /\ \A auto \in BOOLEAN : PlacedOrder(auto) \in OrderRows
<1>1. Ordered \in Quantities
  BY FulfilmentAssumption DEF Quantities
<1>2. NoUnits \in Quantities
  BY DEF Quantities, NoUnits
<1>3. NoLoad \in LoadRows
  BY <1>2 DEF NoLoad, LoadRows, ShipmentStatuses
<1>4. OrderValue(Ordered) \in Nat /\ Advance \in Nat
  BY <1>1, ValueTyped, FulfilmentAssumption
<1>5. ASSUME NEW auto \in BOOLEAN PROVE PlacedOrder(auto) \in OrderRows
  BY <1>1, <1>3, <1>4 DEF PlacedOrder, OrderRows, Statuses
<1> QED
  BY <1>1, <1>2, <1>3, <1>5 DEF Unread

\* The statuses that loads can say.
LEMMA DeriveTyped ==
    ASSUME NEW o
    PROVE  Derive(o) \in {"OUT_FOR_DELIVERY", "PACKED", "DELIVERED", "PARTIALLY_DELIVERED"}
  BY DEF Derive

\* The derived status is written, and nothing else of the order.
LEMMA DerivedTyped ==
    ASSUME NEW o \in OrderRows, NEW r
    PROVE  /\ Derived(o, r) \in OrderRows /\ Derived(o, r).status = Derive(r)
           /\ Derived(o, r).auto = FALSE /\ Derived(o, r).qty = o.qty
           /\ Derived(o, r).grand = o.grand /\ Derived(o, r).paid = o.paid
           /\ Derived(o, r).loads = o.loads
<1> PICK st : st = Derive(r)
  OBVIOUS
<1>1. st \in Statuses
  BY DeriveTyped DEF Statuses
<1> QED
  BY <1>1 DEF Derived, OrderRows

\* A load is replaced.
LEMMA LoadSet ==
    ASSUME NEW o \in OrderRows, NEW n \in Loads, NEW row \in LoadRows
    PROVE  LET b == [o EXCEPT !.loads = [o.loads EXCEPT ![n] = row]]
           IN  /\ b \in OrderRows /\ b.loads[n] = row
               /\ \A m \in Loads : m # n => b.loads[m] = o.loads[m]
               /\ b.status = o.status /\ b.auto = o.auto /\ b.qty = o.qty
               /\ b.grand = o.grand /\ b.paid = o.paid
<1> PICK ls : ls = [o.loads EXCEPT ![n] = row]
  OBVIOUS
<1>1. ls \in [Loads -> LoadRows] /\ ls[n] = row /\ \A m \in Loads : m # n => ls[m] = o.loads[m]
  BY OrderTyped
<1> QED
  BY <1>1 DEF OrderRows

\* A load goes out: its row, and the other rows as they were.
LEMMA WithLoadTyped ==
    ASSUME NEW o \in OrderRows, NEW n \in Loads, NEW q \in Quantities
    PROVE  LET b == WithLoad(o, n, q)
           IN  /\ b \in OrderRows
               /\ b.loads[n].st = "OUT_FOR_DELIVERY" /\ b.loads[n].sent = q
               /\ b.loads[n].got = NoUnits /\ b.loads[n].cash = 0 /\ b.loads[n].takings = 0
               /\ \A m \in Loads : m # n => b.loads[m] = o.loads[m]
               /\ b.status = o.status /\ b.auto = o.auto /\ b.qty = o.qty
               /\ b.grand = o.grand /\ b.paid = o.paid
<1> PICK row : row = [NoLoad EXCEPT !.st = "OUT_FOR_DELIVERY", !.sent = q]
  OBVIOUS
<1>1. /\ row \in LoadRows /\ row.st = "OUT_FOR_DELIVERY" /\ row.sent = q
      /\ row.got = NoUnits /\ row.cash = 0 /\ row.takings = 0
  BY PlacedTyped DEF NoLoad, LoadRows, ShipmentStatuses
<1>2. WithLoad(o, n, q) = [o EXCEPT !.loads = [o.loads EXCEPT ![n] = row]]
  BY DEF WithLoad
<1> PICK b : b = [o EXCEPT !.loads = [o.loads EXCEPT ![n] = row]]
  OBVIOUS
<1>3. /\ b \in OrderRows /\ b.loads[n] = row /\ \A m \in Loads : m # n => b.loads[m] = o.loads[m]
      /\ b.status = o.status /\ b.auto = o.auto /\ b.qty = o.qty /\ b.grand = o.grand /\ b.paid = o.paid
  BY <1>1, LoadSet
<1> QED
  BY <1>1, <1>2, <1>3

\* A load comes in: its row, and the other rows as they were.
LEMMA ArriveTyped ==
    ASSUME NEW o \in OrderRows, NEW n \in Loads, NEW got \in Quantities, NEW cash \in Nat
    PROVE  LET b == Arrive(o, n, got, cash)
           IN  /\ b \in OrderRows
               /\ b.loads[n].st = "DELIVERED" /\ b.loads[n].sent = o.loads[n].sent
               /\ b.loads[n].got = got /\ b.loads[n].cash = o.loads[n].cash + cash
               /\ b.loads[n].takings = o.loads[n].takings + (IF cash > 0 THEN 1 ELSE 0)
               /\ \A m \in Loads : m # n => b.loads[m] = o.loads[m]
               /\ b.status = o.status /\ b.auto = o.auto /\ b.qty = o.qty
               /\ b.grand = o.grand /\ b.paid = o.paid
<1> PICK old : old = o.loads[n]
  OBVIOUS
<1> PICK more : more = old.cash + cash
  OBVIOUS
<1> PICK times : times = old.takings + (IF cash > 0 THEN 1 ELSE 0)
  OBVIOUS
<1>1. old \in LoadRows /\ more \in Nat /\ times \in Nat
  BY LoadTyped
<1> DEFINE r1 == [old EXCEPT !.st = "DELIVERED"]
           r2 == [r1 EXCEPT !.got = got]
           r3 == [r2 EXCEPT !.cash = more]
           r4 == [r3 EXCEPT !.takings = times]
<1>2. r1 \in LoadRows /\ r1.st = "DELIVERED" /\ r1.sent = old.sent /\ r1.cash = old.cash /\ r1.takings = old.takings
  BY <1>1 DEF LoadRows, ShipmentStatuses
<1>3. r2 \in LoadRows /\ r2.st = r1.st /\ r2.sent = r1.sent /\ r2.got = got /\ r2.cash = r1.cash /\ r2.takings = r1.takings
  <2> HIDE DEF r1
  <2> QED
    BY <1>2 DEF LoadRows
<1>4. r3 \in LoadRows /\ r3.st = r2.st /\ r3.sent = r2.sent /\ r3.got = r2.got /\ r3.cash = more /\ r3.takings = r2.takings
  <2> HIDE DEF r2
  <2> QED
    BY <1>3, <1>1 DEF LoadRows
<1>5. r4 \in LoadRows /\ r4.st = r3.st /\ r4.sent = r3.sent /\ r4.got = r3.got /\ r4.cash = r3.cash /\ r4.takings = times
  <2> HIDE DEF r3
  <2> QED
    BY <1>4, <1>1 DEF LoadRows
<1>6. Arrive(o, n, got, cash) = [o EXCEPT !.loads = [o.loads EXCEPT ![n] = r4]]
  BY ZenonT(60) DEF Arrive
<1> HIDE DEF r1, r2, r3, r4
<1> QED
  BY <1>2, <1>3, <1>4, <1>5, <1>6, LoadSet

\* Loads are called back: their rows, and the other rows as they were.
LEMMA CalledBackTyped ==
    ASSUME NEW o \in OrderRows, NEW targets
    PROVE  LET b == CalledBack(o, targets)
           IN  /\ b \in OrderRows
               /\ \A n \in Loads \ targets : b.loads[n] = o.loads[n]
               /\ \A n \in Loads \cap targets :
                    /\ b.loads[n].st = "CANCELLED" /\ b.loads[n].sent = o.loads[n].sent
                    /\ b.loads[n].got = o.loads[n].got /\ b.loads[n].cash = o.loads[n].cash
                    /\ b.loads[n].takings = o.loads[n].takings
               /\ b.status = o.status /\ b.auto = o.auto /\ b.qty = o.qty
               /\ b.grand = o.grand /\ b.paid = o.paid
<1> PICK ls : ls = [n \in Loads |->
        IF n \in targets THEN [o.loads[n] EXCEPT !.st = "CANCELLED"] ELSE o.loads[n]]
  OBVIOUS
<1>1. ASSUME NEW row \in LoadRows
      PROVE  LET r == [row EXCEPT !.st = "CANCELLED"]
             IN  /\ r \in LoadRows /\ r.st = "CANCELLED" /\ r.sent = row.sent /\ r.got = row.got
                 /\ r.cash = row.cash /\ r.takings = row.takings
  BY DEF LoadRows, ShipmentStatuses
<1>2. \A n \in Loads : ls[n] \in LoadRows
  BY <1>1, LoadTyped
<1>3. ls \in [Loads -> LoadRows]
  BY <1>2
<1>4. /\ \A n \in Loads \ targets : ls[n] = o.loads[n]
      /\ \A n \in Loads \cap targets :
                    /\ ls[n].st = "CANCELLED" /\ ls[n].sent = o.loads[n].sent
                    /\ ls[n].got = o.loads[n].got /\ ls[n].cash = o.loads[n].cash
                    /\ ls[n].takings = o.loads[n].takings
  BY <1>1, LoadTyped
<1>5. CalledBack(o, targets) = [o EXCEPT !.loads = ls]
  BY DEF CalledBack
<1>6. [o EXCEPT !.loads = ls].loads = ls
  BY DEF OrderRows
<1> QED
  BY <1>3, <1>4, <1>5, <1>6 DEF OrderRows

\* A new status, and the rest of the order as it was.
LEMMA RelabelledTyped ==
    ASSUME NEW o \in OrderRows, NEW st \in Statuses
    PROVE  /\ LET b == [o EXCEPT !.status = st, !.auto = FALSE]
              IN  /\ b \in OrderRows /\ b.status = st /\ b.auto = FALSE /\ b.qty = o.qty
                  /\ b.grand = o.grand /\ b.paid = o.paid /\ b.loads = o.loads
           /\ LET b == [o EXCEPT !.status = st]
              IN  /\ b \in OrderRows /\ b.status = st /\ b.auto = o.auto /\ b.qty = o.qty
                  /\ b.grand = o.grand /\ b.paid = o.paid /\ b.loads = o.loads
  BY DEF OrderRows

\* What was paid is written, and nothing else of the order.
LEMMA PaidTyped ==
    ASSUME NEW o \in OrderRows, NEW paid \in Nat
    PROVE  LET b == [o EXCEPT !.paid = paid]
           IN  /\ b \in OrderRows /\ b.status = o.status /\ b.auto = o.auto /\ b.qty = o.qty
               /\ b.grand = o.grand /\ b.paid = paid /\ b.loads = o.loads
  BY DEF OrderRows

\* A page shows the status and the lines.
LEMMA PageTyped ==
    ASSUME NEW o \in OrderRows
    PROVE  Page(o) \in OrderRows /\ Page(o).status = o.status /\ Page(o).qty = o.qty
<1>1. Unread \in OrderRows /\ o.status \in Statuses /\ o.qty \in Quantities
  BY PlacedTyped, OrderTyped
<1> HIDE DEF Unread
<1> QED
  BY <1>1 DEF Page, OrderRows

\* What arrived is worth a whole amount.
LEMMA WorthTyped ==
    ASSUME NEW o \in OrderRows
    PROVE  /\ [l \in Lines |-> SmallestOf(Arrived(o, l), o.qty[l])] \in Quantities
           /\ Worth(o) \in Nat
<1>1. \A l \in Lines : SmallestOf(Arrived(o, l), o.qty[l]) \in Nat
  <2>1. \A l \in Lines : Arrived(o, l) \in Nat /\ o.qty[l] \in Nat
    BY LoadByLoad, OrderTyped, QuantityTyped
  <2> QED
    BY <2>1 DEF SmallestOf
<1>2. [l \in Lines |-> SmallestOf(Arrived(o, l), o.qty[l])] \in Quantities
  BY <1>1 DEF Quantities
<1> QED
  BY <1>2, ValueTyped DEF Worth

\* A part of a quantity is a quantity, and no more than it.
LEMMA PartsTyped ==
    ASSUME NEW most, NEW q \in PartsOf(most)
    PROVE  /\ q \in Quantities /\ \A l \in Lines : q[l] \in Nat /\ q[l] <= most[l]
           /\ q # NoUnits => \E l \in Lines : q[l] > 0
<1> PICK all : all = SumFunctionOnSet(Ordered, Lines)
  OBVIOUS
<1>1. all \in Nat
  BY FulfilmentAssumption, SumIsNat
<1>2. q \in [Lines -> 0 .. all] /\ \A l \in Lines : q[l] <= most[l]
  BY DEF PartsOf
<1>3. q \in [Lines -> Nat] /\ \A l \in Lines : q[l] \in Nat
  BY <1>1, <1>2
<1>4. ASSUME \A l \in Lines : ~(q[l] > 0) PROVE q = NoUnits
  <2>1. \A l \in Lines : q[l] = 0
    BY <1>3, <1>4
  <2> QED
    BY <2>1, <1>3 DEF NoUnits
<1> QED
  BY <1>2, <1>3, <1>4 DEF Quantities

\* A load's cash is never more than what is owed.
LEMMA CashWithin ==
    ASSUME NEW before \in OrderRows, NEW after \in OrderRows, NEW cash \in CashFor(before, after)
    PROVE  cash \in Nat /\ cash <= Outstanding(before)
<1>1. Outstanding(before) \in Nat /\ Ledger(before) \in Nat /\ Worth(after) \in Nat
  BY CashByLoad, WorthTyped
<1>2. CashToCollect(before, after) \in Nat /\ CashToCollect(before, after) <= Outstanding(before)
  BY <1>1 DEF CashToCollect, SmallestOf, LargestOf
<1>3. cash = CashToCollect(before, after) \/ cash \in 0 .. Outstanding(before)
  BY DEF CashFor
<1> QED
  BY <1>1, <1>2, <1>3

-----------------------------------------------------------------------------
(* What each request does to the order.                                    *)

\* What a request in flight is, and what its transaction reads.
LEMMA RequestTyped ==
    ASSUME TypeOK, NEW w \in Staff
    PROVE  /\ req[w] \in Requests /\ req[w].view \in OrderRows /\ order \in OrderRows
           /\ View(w) \in OrderRows /\ (req[w].kind # "deliver" => View(w) = order)
           /\ (req[w].kind = "deliver" => View(w) = req[w].view)
           /\ (req[w].kind = "deliver" => req[w].load \in Loads)
           /\ req[w].load \in 0 .. MaxLoads
  BY FulfilmentAssumption DEF TypeOK, Requests, View, ReadsBeforeLock, Loads

\* Who asks for nothing.
LEMMA IdleTyped == Idle \in Requests /\ Idle.kind = "idle" /\ Idle.load = 0
<1>1. 0 \in 0 .. MaxLoads
  BY FulfilmentAssumption
<1>2. Unread \in OrderRows
  BY PlacedTyped
<1> HIDE DEF Unread
<1> QED
  BY <1>1, <1>2 DEF Idle, Requests

\* A load is sent: some of what is left, as a row that was free.
LEMMA Sent ==
    ASSUME TypeOK, NEW w \in Staff, Send(w)
    PROVE  \E n \in Loads, q \in Quantities :
             LET b == WithLoad(order, n, q)
             IN  /\ b \in OrderRows /\ order' = Derived(b, b) /\ order' \in OrderRows
                 /\ order'.status = Derive(b) /\ order'.loads = b.loads /\ order'.qty = order.qty
                 /\ order'.grand = order.grand /\ order'.paid = order.paid
                 /\ order.status \in Sendable /\ order.loads[n].st = "none"
                 /\ \A l \in Lines : q[l] \in Nat /\ q[l] <= Remaining(order, l)
                 /\ \E l \in Lines : q[l] > 0
<1>1. req[w].kind = "send" /\ View(w) = order /\ order \in OrderRows
  BY RequestTyped DEF Send, Commit
<1>2. PICK n \in Loads : /\ order.status \in Sendable /\ order.loads[n].st = "none"
                         /\ \E q \in PartsOf([l \in Lines |-> Remaining(order, l)]) \ {NoUnits} :
                              order' = Derived(WithLoad(order, n, q), WithLoad(order, n, q))
  BY <1>1 DEF Send
<1> PICK most : most = [l \in Lines |-> Remaining(order, l)]
  OBVIOUS
<1>3. PICK q \in PartsOf(most) \ {NoUnits} : order' = Derived(WithLoad(order, n, q), WithLoad(order, n, q))
  BY <1>2
<1>4. q \in Quantities /\ (\A l \in Lines : q[l] \in Nat /\ q[l] <= most[l]) /\ \E l \in Lines : q[l] > 0
  BY PartsTyped
<1>5. \A l \in Lines : q[l] <= Remaining(order, l)
  BY <1>4
<1> PICK b : b = WithLoad(order, n, q)
  OBVIOUS
<1>6. b \in OrderRows /\ b.qty = order.qty /\ b.grand = order.grand /\ b.paid = order.paid
  BY <1>1, <1>4, WithLoadTyped
<1>7. order' = Derived(b, b)
  BY <1>3
<1>8. /\ order' \in OrderRows /\ order'.status = Derive(b) /\ order'.loads = b.loads
      /\ order'.qty = b.qty /\ order'.grand = b.grand /\ order'.paid = b.paid
  BY <1>6, <1>7, DerivedTyped
<1> QED
  BY <1>2, <1>4, <1>5, <1>6, <1>7, <1>8

\* A load is recorded as delivered, from what the transaction saw.
LEMMA Delivered ==
    ASSUME TypeOK, NEW w \in Staff, Deliver(w)
    PROVE  \E n \in Loads, got \in Quantities, cash \in Nat :
             LET v == req[w].view
                 a == Arrive(v, n, got, cash)
                 b == Arrive(order, n, got, cash)
             IN  /\ v \in OrderRows /\ a \in OrderRows /\ b \in OrderRows
                 /\ order' \in OrderRows /\ order'.status = Derive(a)
                 /\ order'.loads = b.loads /\ order'.qty = order.qty /\ order'.grand = order.grand
                 /\ order'.paid = IF cash > 0 THEN Ledger(v) + cash ELSE order.paid
                 /\ order'.auto = FALSE
                 /\ v.loads[n].st = "OUT_FOR_DELIVERY"
                 /\ \A l \in Lines : got[l] \in Nat /\ got[l] <= v.loads[n].sent[l]
                 /\ cash <= Outstanding(v)
                 /\ cash \in CashFor(v, Arrive(v, n, got, 0))
<1> PICK v : v = req[w].view
  OBVIOUS
<1> PICK n : n = req[w].load
  OBVIOUS
<1>1. req[w].kind = "deliver" /\ View(w) = v /\ v \in OrderRows /\ order \in OrderRows
  BY RequestTyped DEF Deliver, Commit
<1>2. /\ v.loads[n].st = "OUT_FOR_DELIVERY"
      /\ \E got \in PartsOf(v.loads[n].sent) :
           \E cash \in CashFor(v, Arrive(v, n, got, 0)) :
             order' = [Derived(Arrive(order, n, got, cash), Arrive(v, n, got, cash))
                        EXCEPT !.paid = IF cash > 0 THEN Ledger(v) + cash ELSE @]
  BY <1>1 DEF Deliver
<1>3. n \in Loads
  BY <1>1, RequestTyped
<1>3a. PICK got \in PartsOf(v.loads[n].sent) : \E cash \in CashFor(v, Arrive(v, n, got, 0)) :
         order' = [Derived(Arrive(order, n, got, cash), Arrive(v, n, got, cash))
                        EXCEPT !.paid = IF cash > 0 THEN Ledger(v) + cash ELSE @]
  BY <1>2
<1>4. PICK cash \in CashFor(v, Arrive(v, n, got, 0)) :
         order' = [Derived(Arrive(order, n, got, cash), Arrive(v, n, got, cash))
                        EXCEPT !.paid = IF cash > 0 THEN Ledger(v) + cash ELSE @]
  BY <1>3a
<1>5. got \in Quantities /\ \A l \in Lines : got[l] \in Nat /\ got[l] <= v.loads[n].sent[l]
  BY PartsTyped
<1>6. Arrive(v, n, got, 0) \in OrderRows
  BY <1>1, <1>3, <1>5, ArriveTyped
<1>7. cash \in Nat /\ cash <= Outstanding(v)
  BY <1>1, <1>6, CashWithin
<1>a. PICK a : a = Arrive(v, n, got, cash)
  OBVIOUS
<1>b. PICK b : b = Arrive(order, n, got, cash)
  OBVIOUS
<1>8. a \in OrderRows /\ b \in OrderRows /\ b.qty = order.qty /\ b.grand = order.grand /\ b.paid = order.paid
  BY <1>1, <1>3, <1>5, <1>7, <1>a, <1>b, ArriveTyped
<1>c. PICK c : c = Derived(b, a)
  OBVIOUS
<1>9. c \in OrderRows /\ c.status = Derive(a) /\ c.auto = FALSE /\ c.qty = b.qty /\ c.grand = b.grand
        /\ c.paid = b.paid /\ c.loads = b.loads
  BY <1>8, <1>c, DerivedTyped
<1>d. PICK paid : paid = IF cash > 0 THEN Ledger(v) + cash ELSE c.paid
  OBVIOUS
<1>10. paid \in Nat
  BY <1>1, <1>7, <1>9, <1>d, CashByLoad, OrderTyped
<1>11. order' = [c EXCEPT !.paid = paid]
  BY <1>4, <1>a, <1>b, <1>c, <1>d
<1>12. order' \in OrderRows /\ order'.status = c.status /\ order'.auto = c.auto /\ order'.qty = c.qty
         /\ order'.grand = c.grand /\ order'.paid = paid /\ order'.loads = c.loads
  BY <1>9, <1>10, <1>11, PaidTyped
<1>13. order'.paid = IF cash > 0 THEN Ledger(v) + cash ELSE order.paid
  BY <1>12, <1>9, <1>8, <1>d
<1>14. order'.status = Derive(a) /\ order'.auto = FALSE /\ order'.loads = b.loads
         /\ order'.qty = order.qty /\ order'.grand = order.grand
  BY <1>12, <1>9, <1>8
<1>15. /\ v \in OrderRows /\ a \in OrderRows /\ b \in OrderRows
       /\ order' \in OrderRows /\ order'.status = Derive(a)
       /\ order'.loads = b.loads /\ order'.qty = order.qty /\ order'.grand = order.grand
       /\ order'.paid = IF cash > 0 THEN Ledger(v) + cash ELSE order.paid
       /\ order'.auto = FALSE
       /\ v.loads[n].st = "OUT_FOR_DELIVERY"
       /\ \A l \in Lines : got[l] \in Nat /\ got[l] <= v.loads[n].sent[l]
       /\ cash <= Outstanding(v)
       /\ cash \in CashFor(v, Arrive(v, n, got, 0))
  BY <1>1, <1>2, <1>5, <1>7, <1>8, <1>12, <1>13, <1>14
<1>16. n \in Loads /\ got \in Quantities /\ cash \in Nat
  BY <1>3, <1>5, <1>7
<1> QED
  BY <1>15, <1>16, <1>a, <1>b

\* Loads are called back from the road.
LEMMA Recalled ==
    ASSUME TypeOK, NEW w \in Staff, Recall(w)
    PROVE  \E targets : targets \subseteq In(order, "OUT_FOR_DELIVERY") /\ targets # {} /\
             LET b == CalledBack(order, targets)
             IN  /\ b \in OrderRows /\ order' \in OrderRows /\ order'.status = Derive(b)
                 /\ order'.loads = b.loads /\ order'.qty = order.qty
                 /\ order'.grand = order.grand /\ order'.paid = order.paid
                 /\ targets = {n \in In(order, "OUT_FOR_DELIVERY") : req[w].load \in {0, n}}
<1> PICK targets : targets = {n \in In(order, "OUT_FOR_DELIVERY") : req[w].load \in {0, n}}
  OBVIOUS
<1> PICK b : b = CalledBack(order, targets)
  OBVIOUS
<1>1. order \in OrderRows
  BY DEF TypeOK
<1>2. targets # {} /\ order' = Derived(b, b)
  BY DEF Recall
<1>3. b \in OrderRows /\ b.qty = order.qty /\ b.grand = order.grand /\ b.paid = order.paid
  BY <1>1, CalledBackTyped
<1>4. order' \in OrderRows /\ order'.status = Derive(b) /\ order'.loads = b.loads /\ order'.qty = b.qty
        /\ order'.grand = b.grand /\ order'.paid = b.paid
  BY <1>2, <1>3, DerivedTyped
<1>5. targets \subseteq In(order, "OUT_FOR_DELIVERY")
  OBVIOUS
<1> QED
  BY <1>2, <1>3, <1>4, <1>5

\* An order is cancelled, or its loads are called back and it is not.
LEMMA Cancelled ==
    ASSUME TypeOK, NEW w \in Staff, CancelOrder(w)
    PROVE  LET b == CalledBack(order, In(order, "OUT_FOR_DELIVERY"))
           IN  /\ b \in OrderRows /\ order' \in OrderRows /\ In(order, "DELIVERED") = {}
               /\ order'.status = IF order.status = req[w].view.status THEN "CANCELLED" ELSE order.status
               /\ order'.loads = b.loads /\ order'.qty = order.qty
               /\ order'.grand = order.grand /\ order'.paid = order.paid /\ order'.auto = order.auto
               /\ \/ shelf' = shelf
                  \/ order.status = req[w].view.status /\ BackOnShelf(req[w].view.qty)
<1> PICK b : b = CalledBack(order, In(order, "OUT_FOR_DELIVERY"))
  OBVIOUS
<1>1. order \in OrderRows
  BY DEF TypeOK
<1>2. b \in OrderRows /\ b.status = order.status /\ b.qty = order.qty /\ b.grand = order.grand /\ b.paid = order.paid
        /\ b.auto = order.auto
  BY <1>1, CalledBackTyped
<1>3. \/ /\ order.status = req[w].view.status /\ order' = [b EXCEPT !.status = "CANCELLED"]
         /\ (BackOnShelf(req[w].view.qty) \/ shelf' = shelf)
      \/ order.status # req[w].view.status /\ order' = b /\ shelf' = shelf
  BY DEF CancelOrder
<1>4. "CANCELLED" \in Statuses
  BY DEF Statuses
<1>5. CASE order.status = req[w].view.status /\ order' = [b EXCEPT !.status = "CANCELLED"]
  <2>1. order' \in OrderRows /\ order'.status = "CANCELLED" /\ order'.qty = b.qty /\ order'.grand = b.grand
          /\ order'.paid = b.paid /\ order'.loads = b.loads /\ order'.auto = b.auto
    BY <1>2, <1>4, <1>5, RelabelledTyped
  <2> QED
    BY <2>1, <1>2, <1>3, <1>5 DEF CancelOrder
<1>6. CASE order.status # req[w].view.status /\ order' = b /\ shelf' = shelf
  BY <1>2, <1>6 DEF CancelOrder
<1> QED
  BY <1>3, <1>5, <1>6

\* An order is closed with what arrived.
LEMMA ClosedShort ==
    ASSUME TypeOK, NEW w \in Staff, CloseShort(w)
    PROVE  LET came == [l \in Lines |-> SmallestOf(Arrived(order, l), order.qty[l])]
           IN  /\ order.status = "PARTIALLY_DELIVERED" /\ came \in Quantities
               /\ order' \in OrderRows /\ order'.status = "DELIVERED" /\ order'.qty = came
               /\ order'.grand = Worth(order) /\ order'.paid = Ledger(order)
               /\ order'.loads = order.loads
               /\ \/ shelf' = shelf
                  \/ BackOnShelf([l \in Lines |-> LargestOf(0, order.qty[l] - Arrived(order, l))])
<1>0. PICK came : came = [l \in Lines |-> SmallestOf(Arrived(order, l), order.qty[l])]
  OBVIOUS
<1>1. req[w].kind = "close" /\ View(w) = order /\ order \in OrderRows
  BY RequestTyped DEF CloseShort, Commit
<1>2. /\ order.status = "PARTIALLY_DELIVERED"
      /\ order' = [order EXCEPT !.status = "DELIVERED", !.qty = came,
                                !.grand = Worth(order), !.paid = Ledger(order)]
      /\ \/ shelf' = shelf
         \/ BackOnShelf([l \in Lines |-> LargestOf(0, order.qty[l] - Arrived(order, l))])
  BY <1>0, <1>1 DEF CloseShort
<1>3. came \in Quantities /\ Worth(order) \in Nat /\ Ledger(order) \in Nat
  BY <1>0, <1>1, WorthTyped, CashByLoad
<1>a. PICK worth \in Nat : worth = Worth(order)
  BY <1>3
<1>b. PICK ledger \in Nat : ledger = Ledger(order)
  BY <1>3
<1>c. PICK b : b = [order EXCEPT !.status = "DELIVERED", !.qty = came, !.grand = worth, !.paid = ledger]
  OBVIOUS
<1>d. b \in OrderRows /\ b.status = "DELIVERED" /\ b.qty = came /\ b.grand = worth
        /\ b.paid = ledger /\ b.loads = order.loads
  BY <1>1, <1>3, <1>c DEF OrderRows, Statuses
<1>e. order' = b
  BY <1>2, <1>a, <1>b, <1>c
<1>4. order' \in OrderRows /\ order'.status = "DELIVERED" /\ order'.qty = came /\ order'.grand = worth
        /\ order'.paid = ledger /\ order'.loads = order.loads
  BY <1>d, <1>e
<1> QED
  BY <1>0, <1>2, <1>3, <1>4, <1>a, <1>b

\* A button or the sweep gives the order another status before packing is over.
LEMMA Moved ==
    ASSUME TypeOK, (\E w \in Staff : Relabel(w)) \/ SweepConfirms
    PROVE  /\ order' \in OrderRows /\ order'.status \in {"PLACED", "CONFIRMED", "PACKED"} /\ order'.auto = FALSE
           /\ order.status \in {"PLACED", "CONFIRMED", "PACKED"}
           /\ order'.qty = order.qty /\ order'.grand = order.grand /\ order'.paid = order.paid
           /\ order'.loads = order.loads /\ shelf' = shelf
<1>1. order \in OrderRows
  BY DEF TypeOK
<1>2. PICK to \in {"PLACED", "CONFIRMED", "PACKED"} :
        /\ order' = [order EXCEPT !.status = to, !.auto = FALSE]
        /\ order.status \in {"PLACED", "CONFIRMED", "PACKED"} /\ shelf' = shelf
  BY DEF Relabel, RelabelTo, SweepConfirms
<1>3. to \in Statuses
  BY DEF Statuses
<1> QED
  BY <1>1, <1>2, <1>3, RelabelledTyped

-----------------------------------------------------------------------------
(* Requests come and go.                                                   *)

\* What a step does to a request.
Asked(u) ==
    /\ order' = order /\ shelf' = shelf
    /\ req'[u].kind \in Kinds /\ req'[u].view = Reading(req'[u].kind)
    /\ req'[u].kind = "deliver" => req'[u].load \in Loads
    /\ req'[u].kind = "cancel" => order.status \in Cancellable

\* A request starts, and changes nothing but itself.
LEMMA Beginning ==
    ASSUME TypeOK, NEW w \in Staff, NEW k \in Kinds, NEW n \in 0 .. MaxLoads, Begin(w, k, n),
           k = "deliver" => n \in Loads,
           k = "cancel" => order.status \in Cancellable
    PROVE  /\ req' \in [Staff -> Requests] /\ Asked(w) /\ order' = order /\ shelf' = shelf /\ listed' = listed
           /\ \A u \in Staff \ {w} : req'[u] = req[u]
<1>1. order \in OrderRows /\ Page(order) \in OrderRows /\ Unread \in OrderRows
  BY PageTyped, PlacedTyped DEF TypeOK
<1>2. Reading(k) \in OrderRows
  BY <1>1 DEF Reading
<1>3. PICK view \in OrderRows : view = Reading(k)
  BY <1>2
<1>4. [kind |-> k, load |-> n, view |-> view] \in Requests
  BY DEF Requests
<1>5. req' = [req EXCEPT ![w] = [kind |-> k, load |-> n, view |-> view]] /\ req \in [Staff -> Requests]
  BY <1>3 DEF Begin, TypeOK
<1>6. req'[w] = [kind |-> k, load |-> n, view |-> view]
  BY <1>5
<1>7. req'[w].kind = k /\ req'[w].load = n /\ req'[w].view = Reading(k)
  BY <1>6, <1>3
<1>8. req' \in [Staff -> Requests] /\ \A u \in Staff \ {w} : req'[u] = req[u]
  BY <1>4, <1>5
<1>9. order' = order /\ shelf' = shelf /\ listed' = listed
  BY DEF Begin
<1> QED
  BY <1>7, <1>8, <1>9 DEF Asked

\* The kinds of step.
LEMMA Steps ==
    ASSUME TypeOK, [Next]_vars
    PROVE  \/ /\ order' = order /\ shelf' = shelf /\ req' = req /\ listed' \in BOOLEAN
           \/ /\ SweepConfirms /\ req' = req /\ listed' \in BOOLEAN
           \/ \E w \in Staff : /\ req' \in [Staff -> Requests] /\ Asked(w)
                               /\ \A u \in Staff \ {w} : req'[u] = req[u]
                               /\ listed' = listed /\ order' = order /\ shelf' = shelf
           \/ \E w \in Staff : /\ req' = [req EXCEPT ![w] = Idle] /\ listed' = listed
                               /\ order' = order /\ shelf' = shelf
           \/ \E w \in Staff : /\ req' = [req EXCEPT ![w] = Idle] /\ listed' = listed
                               /\ \A v \in Staff \ {w} : req[v].kind \notin Alone
                               /\ \/ Relabel(w) \/ Send(w) \/ Deliver(w)
                                  \/ Recall(w) \/ CancelOrder(w) \/ CloseShort(w)
<1>0. 0 \in 0 .. MaxLoads /\ \A n \in Loads : n \in 0 .. MaxLoads
  BY FulfilmentAssumption DEF Loads
<1>1. CASE UNCHANGED vars
  BY <1>1 DEF vars, TypeOK
<1>2. CASE Sweep
  BY <1>2 DEF Sweep, SweepLists, SweepConfirms, SweepPasses
<1>3. ASSUME NEW w \in Staff, Request(w)
      PROVE  \/ /\ req' \in [Staff -> Requests] /\ Asked(w)
                /\ \A u \in Staff \ {w} : req'[u] = req[u]
                /\ listed' = listed /\ order' = order /\ shelf' = shelf
             \/ /\ req' = [req EXCEPT ![w] = Idle] /\ listed' = listed
                /\ order' = order /\ shelf' = shelf
             \/ /\ req' = [req EXCEPT ![w] = Idle] /\ listed' = listed
                /\ \A v \in Staff \ {w} : req[v].kind \notin Alone
                /\ \/ Relabel(w) \/ Send(w) \/ Deliver(w)
                   \/ Recall(w) \/ CancelOrder(w) \/ CloseShort(w)
  <2>1. CASE BeginMove(w) \/ BeginSend(w) \/ BeginClose(w)
    <3>1. PICK k \in {"move", "send", "close"} : Begin(w, k, 0)
      BY <2>1 DEF BeginMove, BeginSend, BeginClose
    <3>2. k \in Kinds
      BY DEF Kinds
    <3> QED
      BY <3>1, <3>2, <1>0, Beginning
  <2>2. CASE BeginDeliver(w)
    <3>1. PICK n \in Loads : Begin(w, "deliver", n)
      BY <2>2 DEF BeginDeliver
    <3>2. "deliver" \in Kinds
      BY DEF Kinds
    <3> QED
      BY <3>1, <3>2, <1>0, Beginning
  <2>3. CASE BeginRecall(w)
    <3>1. PICK n \in 0 .. MaxLoads : Begin(w, "recall", n)
      BY <2>3, <1>0 DEF BeginRecall
    <3>2. "recall" \in Kinds
      BY DEF Kinds
    <3> QED
      BY <3>1, <3>2, <1>0, Beginning
  <2>4. CASE BeginCancel(w)
    <3>1. Begin(w, "cancel", 0) /\ order.status \in Cancellable
      BY <2>4 DEF BeginCancel
    <3>2. "cancel" \in Kinds
      BY DEF Kinds
    <3> QED
      BY <3>1, <3>2, <1>0, Beginning
  <2>5. CASE Refuse(w)
    BY <2>5 DEF Refuse
  <2>6. CASE \/ Relabel(w) \/ Send(w) \/ Deliver(w)
             \/ Recall(w) \/ CancelOrder(w) \/ CloseShort(w)
    <3>1. \E k : Commit(w, k)
      BY <2>6 DEF Relabel, Send, Deliver, Recall, CancelOrder, CloseShort
    <3>2. /\ req' = [req EXCEPT ![w] = Idle] /\ listed' = listed
          /\ \A v \in Staff \ {w} : req[v].kind \notin Alone
      BY <3>1 DEF Commit
    <3> QED
      BY <2>6, <3>2
  <2> QED
    BY <1>3, <2>1, <2>2, <2>3, <2>4, <2>5, <2>6 DEF Request
<1> QED
  BY <1>1, <1>2, <1>3 DEF Next

-----------------------------------------------------------------------------
(* Types.                                                                  *)

\* What goes back on the shelf is a quantity.
LEMMA ShelfTyped ==
    ASSUME shelf \in Quantities, NEW units \in Quantities, BackOnShelf(units)
    PROVE  shelf' \in Quantities
<1>1. \A l \in Lines : shelf[l] \in Nat /\ units[l] \in Nat
  BY QuantityTyped
<1>2. \A l \in Lines : shelf[l] + units[l] \in Nat
  BY <1>1
<1> QED
  BY <1>2 DEF BackOnShelf, Quantities

\* What commits leaves an order and a shelf.
LEMMA Commits ==
    ASSUME TypeOK, NEW w \in Staff,
           \/ Relabel(w) \/ Send(w) \/ Deliver(w)
           \/ Recall(w) \/ CancelOrder(w) \/ CloseShort(w)
    PROVE  order' \in OrderRows /\ shelf' \in Quantities
<1>0. shelf \in Quantities /\ order \in OrderRows /\ req[w].view.qty \in Quantities
  BY RequestTyped, OrderTyped DEF TypeOK
<1>1. CASE Relabel(w)
  BY <1>0, <1>1, Moved
<1>2. CASE Send(w)
  BY <1>0, <1>2, Sent DEF Send
<1>3. CASE Deliver(w)
  BY <1>0, <1>3, Delivered DEF Deliver
<1>4. CASE Recall(w)
  BY <1>0, <1>4, Recalled DEF Recall
<1>5. CASE CancelOrder(w)
  <2>1. order' \in OrderRows /\ (shelf' = shelf \/ BackOnShelf(req[w].view.qty))
    BY <1>5, Cancelled
  <2> QED
    BY <2>1, <1>0, ShelfTyped
<1>6. CASE CloseShort(w)
  <2> PICK left : left = [l \in Lines |-> LargestOf(0, order.qty[l] - Arrived(order, l))]
    OBVIOUS
  <2>1. order' \in OrderRows /\ (shelf' = shelf \/ BackOnShelf(left))
    BY <1>6, ClosedShort
  <2>2. \A l \in Lines : order.qty[l] \in Nat /\ Arrived(order, l) \in Nat
    BY <1>0, LoadByLoad, OrderTyped, QuantityTyped
  <2>3. \A l \in Lines : LargestOf(0, order.qty[l] - Arrived(order, l)) \in Nat
    BY <2>2 DEF LargestOf
  <2>4. left \in Quantities
    BY <2>3 DEF Quantities
  <2> QED
    BY <2>1, <2>4, <1>0, ShelfTyped
<1> QED
  BY <1>1, <1>2, <1>3, <1>4, <1>5, <1>6

\* At first every value is of its type.
LEMMA TypedFirst == Init => TypeOK
<1> SUFFICES ASSUME Init PROVE TypeOK
  OBVIOUS
<1>1. order \in OrderRows /\ shelf \in Quantities
  BY PlacedTyped DEF Init
<1>2. req \in [Staff -> Requests] /\ \A w \in Staff : req[w].kind = "deliver" => req[w].load \in Loads
  BY IdleTyped DEF Init
<1> QED
  BY <1>1, <1>2 DEF Init, TypeOK

\* Every step leaves every value of its type.
LEMMA TypedNext ==
    ASSUME TypeOK, [Next]_vars
    PROVE  TypeOK'
<1>0. /\ order \in OrderRows /\ shelf \in Quantities /\ req \in [Staff -> Requests] /\ listed \in BOOLEAN
      /\ \A w \in Staff : req[w].kind = "deliver" => req[w].load \in Loads
  BY DEF TypeOK
<1>1. CASE order' = order /\ shelf' = shelf /\ req' = req /\ listed' \in BOOLEAN
  BY <1>0, <1>1 DEF TypeOK
<1>2. CASE SweepConfirms /\ req' = req /\ listed' \in BOOLEAN
  <2>1. order' \in OrderRows /\ shelf' = shelf
    BY <1>2, Moved
  <2> QED
    BY <2>1, <1>0, <1>2 DEF TypeOK
<1>3. ASSUME NEW w \in Staff, req' \in [Staff -> Requests], Asked(w), \A u \in Staff \ {w} : req'[u] = req[u],
             listed' = listed, order' = order, shelf' = shelf
      PROVE  TypeOK'
  BY <1>0, <1>3 DEF TypeOK, Asked
<1>4. ASSUME NEW w \in Staff, req' = [req EXCEPT ![w] = Idle], listed' = listed,
             order' \in OrderRows, shelf' \in Quantities
      PROVE  TypeOK'
  <2>1. req' \in [Staff -> Requests] /\ \A u \in Staff : req'[u] = req[u] \/ req'[u] = Idle
    BY <1>0, <1>4, IdleTyped
  <2>2. \A u \in Staff : req'[u].kind = "deliver" => req'[u].load \in Loads
    <3> HIDE DEF Idle
    <3> QED
      BY <2>1, <1>0, IdleTyped
  <2> QED
    BY <2>1, <2>2, <1>0, <1>4 DEF TypeOK
<1>5. ASSUME NEW w \in Staff, req' = [req EXCEPT ![w] = Idle], listed' = listed,
             \/ Relabel(w) \/ Send(w) \/ Deliver(w)
             \/ Recall(w) \/ CancelOrder(w) \/ CloseShort(w)
      PROVE  TypeOK'
  BY <1>4, <1>5, Commits
<1> QED
  BY <1>0, <1>1, <1>2, <1>3, <1>4, <1>5, Steps

\* Every value is of its type.
THEOREM FulfilmentTyped == Spec => []TypeOK
<1>1. Init => TypeOK
  BY TypedFirst
<1>2. TypeOK /\ [Next]_vars => TypeOK'
  BY TypedNext
<1> QED
  BY <1>1, <1>2, PTL DEF Spec

-----------------------------------------------------------------------------
(* The goods and the cash.                                                 *)

\* What must be kept of the order and of stock.
Kept == /\ OpenAsPlaced /\ RoadIsMarked /\ CashOnArrival /\ GoodsAndCashAddUp

\* An open order's shelf is empty.
LEMMA OpenShelf ==
    ASSUME OpenAsPlaced, order.status \notin Terminal
    PROVE  \A l \in Lines : shelf[l] = 0
  BY DEF OpenAsPlaced, NoUnits

\* What is left to send is what is neither out nor there.
LEMMA Left ==
    ASSUME TypeOK, NothingSentTwice
    PROVE  \A l \in Lines : /\ Remaining(order, l) = order.qty[l] - OnRoad(order, l) - Arrived(order, l)
                            /\ order.qty[l] \in Nat /\ OnRoad(order, l) \in Nat /\ Arrived(order, l) \in Nat
                            /\ OnRoad(order, l) + Arrived(order, l) <= order.qty[l]
<1>1. ASSUME NEW l \in Lines
      PROVE  /\ order.qty[l] \in Nat /\ OnRoad(order, l) \in Nat /\ Arrived(order, l) \in Nat
             /\ OnRoad(order, l) + Arrived(order, l) <= order.qty[l]
  BY LoadByLoad, OrderTyped, QuantityTyped DEF TypeOK, NothingSentTwice
<1> QED
  BY <1>1 DEF Remaining, LargestOf

\* The ledger, the price and `amountPaid` are whole amounts.
LEMMA MoneyTyped ==
    ASSUME TypeOK
    PROVE  Ledger(order) \in Nat /\ OrderValue(Ordered) \in Nat /\ order.paid \in Nat
  BY CashByLoad, ValueTyped, PlacedTyped, OrderTyped DEF TypeOK

\* A load that goes out: what was left is on the road.
LEMMA SendKeeps ==
    ASSUME TypeOK, TypeOK', Kept, NEW w \in Staff, Send(w)
    PROVE  /\ Kept'
           /\ \E n \in Loads, q \in Quantities :
                /\ order.loads[n].st = "none" /\ order'.loads[n].st = "OUT_FOR_DELIVERY"
                /\ \A m \in Loads : m # n => order'.loads[m] = order.loads[m]
                /\ \A l \in Lines : /\ OnRoad(order', l) = OnRoad(order, l) + q[l]
                                    /\ Arrived(order', l) = Arrived(order, l)
                                    /\ q[l] <= Remaining(order, l)
           /\ order'.status = "OUT_FOR_DELIVERY" /\ order.status \in Sendable
           /\ order'.qty = order.qty /\ order'.grand = order.grand
<1>0. order \in OrderRows /\ order' \in OrderRows /\ shelf' = shelf
  BY DEF TypeOK, Send
<1>1. PICK n \in Loads, q \in Quantities :
             LET b == WithLoad(order, n, q)
             IN  /\ b \in OrderRows /\ order' = Derived(b, b) /\ order' \in OrderRows
                 /\ order'.status = Derive(b) /\ order'.loads = b.loads /\ order'.qty = order.qty
                 /\ order'.grand = order.grand /\ order'.paid = order.paid
                 /\ order.status \in Sendable /\ order.loads[n].st = "none"
                 /\ \A l \in Lines : q[l] \in Nat /\ q[l] <= Remaining(order, l)
                 /\ \E l \in Lines : q[l] > 0
  BY Sent
<1>2. PICK b : b = WithLoad(order, n, q)
  OBVIOUS
<1>3. /\ b \in OrderRows /\ order'.status = Derive(b) /\ order'.loads = b.loads
      /\ order'.qty = order.qty /\ order'.grand = order.grand /\ order'.paid = order.paid
      /\ order.status \in Sendable /\ order.loads[n].st = "none"
      /\ \A l \in Lines : q[l] \in Nat /\ q[l] <= Remaining(order, l)
      /\ \E l \in Lines : q[l] > 0
  BY <1>1, <1>2
<1>4. /\ b.loads[n].st = "OUT_FOR_DELIVERY" /\ b.loads[n].sent = q
      /\ b.loads[n].cash = 0 /\ b.loads[n].takings = 0
      /\ \A m \in Loads : m # n => b.loads[m] = order.loads[m]
  BY <1>0, <1>2, WithLoadTyped
<1>5. order.loads[n].cash = 0
  BY <1>3 DEF Kept, CashOnArrival
<1>6. order'.status = "OUT_FOR_DELIVERY" /\ order.status \notin Terminal
  <2>1. n \in In(b, "OUT_FOR_DELIVERY")
    BY <1>4 DEF In
  <2> QED
    BY <2>1, <1>3 DEF Derive, Sendable, Terminal
<1>7. ASSUME NEW l \in Lines
      PROVE  OnRoad(order', l) = OnRoad(order, l) + q[l] /\ Arrived(order', l) = Arrived(order, l)
  <2>1. /\ RoadOf(b, l)[n] = q[l] /\ RoadOf(order, l)[n] = 0
        /\ CameOf(b, l)[n] = 0 /\ CameOf(order, l)[n] = 0
    BY <1>3, <1>4 DEF RoadOf, CameOf
  <2>2. /\ OnRoad(b, l) = OnRoad(order, l) + RoadOf(b, l)[n] - RoadOf(order, l)[n]
        /\ Arrived(b, l) = Arrived(order, l) + CameOf(b, l)[n] - CameOf(order, l)[n]
    BY <1>0, <1>3, <1>4, OneLoad
  <2>3. /\ OnRoad(order, l) \in Nat /\ Arrived(order, l) \in Nat /\ q[l] \in Nat
    BY <1>0, <1>3, LoadByLoad
  <2>4. OnRoad(b, l) = OnRoad(order, l) + q[l] /\ Arrived(b, l) = Arrived(order, l)
    BY <2>1, <2>2, <2>3
  <2> QED
    BY <2>4, <1>3, SameLoads
<1>8. Ledger(order') = Ledger(order)
  <2>1. Collected(b) = Collected(order) + b.loads[n].cash - order.loads[n].cash /\ Collected(order) \in Nat
    BY <1>0, <1>3, <1>4, OneLoad, CashByLoad
  <2>2. Collected(b) = Collected(order)
    BY <2>1, <1>4, <1>5
  <2> QED
    BY <2>2, <1>3, SameLoads DEF Ledger
<1>9. OpenAsPlaced'
  BY <1>0, <1>3, <1>6 DEF Kept, OpenAsPlaced
<1>10. RoadIsMarked'
  <2>1. ASSUME NEW m \in In(order', "OUT_FOR_DELIVERY") PROVE \E l \in Lines : order'.loads[m].sent[l] > 0
    <3>1. CASE m = n
      BY <3>1, <1>3, <1>4
    <3>2. CASE m # n
      <4>1. m \in In(order, "OUT_FOR_DELIVERY") /\ order'.loads[m] = order.loads[m]
        BY <3>2, <1>3, <1>4 DEF In
      <4> QED
        BY <4>1 DEF Kept, RoadIsMarked
    <3> QED
      BY <3>1, <3>2
  <2> QED
    BY <2>1, <1>6 DEF RoadIsMarked
<1>11. CashOnArrival'
  BY <1>3, <1>4 DEF Kept, CashOnArrival
<1>12. NothingSentTwice'
  <2>1. ASSUME NEW l \in Lines PROVE OnRoad(order', l) + Arrived(order', l) <= order'.qty[l]
    <3>1. /\ Remaining(order, l) = order.qty[l] - OnRoad(order, l) - Arrived(order, l)
          /\ order.qty[l] \in Nat /\ OnRoad(order, l) \in Nat /\ Arrived(order, l) \in Nat
      BY Left DEF Kept, GoodsAndCashAddUp
    <3>2. q[l] \in Nat /\ q[l] <= Remaining(order, l) /\ order'.qty[l] = order.qty[l]
      BY <1>3
    <3> QED
      BY <3>1, <3>2, <1>7
  <2> QED
    BY <2>1 DEF NothingSentTwice
<1>13. ShelfGetsWhatNeverCame'
  <2>1. \A l \in Lines : shelf'[l] = 0
    BY <1>0, <1>6, OpenShelf DEF Kept
  <2> QED
    BY <2>1 DEF ShelfGetsWhatNeverCame
<1>14. CashTakenOnce'
  <2>1. \A m \in Loads : /\ order'.loads[m].takings <= 1
                         /\ order'.loads[m].takings = 1 => order'.loads[m].st = "DELIVERED"
    BY <1>3, <1>4 DEF Kept, GoodsAndCashAddUp, CashTakenOnce
  <2> QED
    BY <2>1 DEF CashTakenOnce
<1>15. NeverOverCollected' /\ PaidIsTheLedger'
  BY <1>8, <1>3 DEF Kept, GoodsAndCashAddUp, NeverOverCollected, PaidIsTheLedger
<1>16. Kept'
  BY <1>9, <1>10, <1>11, <1>12, <1>13, <1>14, <1>15 DEF Kept, GoodsAndCashAddUp
<1>17. order'.loads[n].st = "OUT_FOR_DELIVERY" /\ \A m \in Loads : m # n => order'.loads[m] = order.loads[m]
  BY <1>3, <1>4
<1> QED
  BY <1>16, <1>3, <1>6, <1>7, <1>17

\* Orders with the same loads and lines have the same status to derive.
LEMMA SameDerive ==
    ASSUME NEW a, NEW b, a.loads = b.loads, a.qty = b.qty
    PROVE  Derive(a) = Derive(b)
<1>1. /\ In(a, "OUT_FOR_DELIVERY") = In(b, "OUT_FOR_DELIVERY")
      /\ \A l \in Lines : Arrived(a, l) = Arrived(b, l)
  BY SameLoads
<1> QED
  BY <1>1 DEF Derive

\* A load that comes in: what was on the road is there, or left to send again.
LEMMA DeliverKeeps ==
    ASSUME TypeOK, TypeOK', Kept, SnapshotsHold, NEW w \in Staff, Deliver(w)
    PROVE  /\ Kept'
           /\ \E n \in Loads, got \in Quantities, cash \in Nat :
                LET v == req[w].view IN
                /\ order.loads[n].st = "OUT_FOR_DELIVERY" /\ order'.loads[n].st = "DELIVERED"
                /\ \A m \in Loads : m # n => order'.loads[m] = order.loads[m]
                /\ \A l \in Lines : /\ OnRoad(order', l) = OnRoad(order, l) - order.loads[n].sent[l]
                                    /\ Arrived(order', l) = Arrived(order, l) + got[l]
                                    /\ got[l] \in Nat /\ got[l] <= order.loads[n].sent[l]
                /\ v \in OrderRows /\ v.loads = order.loads /\ v.qty = order.qty /\ v.grand = order.grand
                /\ cash <= Outstanding(v) /\ Ledger(order') = Ledger(order) + cash
                /\ cash \in CashFor(v, Arrive(v, n, got, 0))
                /\ Arrive(v, n, got, 0) \in OrderRows /\ Arrive(v, n, got, 0).qty = order.qty
                /\ \A l \in Lines : Arrived(Arrive(v, n, got, 0), l) = Arrived(order', l)
                /\ In(Arrive(v, n, got, 0), "OUT_FOR_DELIVERY") = In(order', "OUT_FOR_DELIVERY")
           /\ order'.status = Derive(order') /\ order.status = "OUT_FOR_DELIVERY"
           /\ order'.qty = order.qty /\ order'.grand = order.grand
<1>0. order \in OrderRows /\ order' \in OrderRows /\ shelf' = shelf
  BY DEF TypeOK, Deliver
<1>1. PICK n \in Loads, got \in Quantities, cash \in Nat :
             LET v == req[w].view
                 a == Arrive(v, n, got, cash)
                 b == Arrive(order, n, got, cash)
             IN  /\ v \in OrderRows /\ a \in OrderRows /\ b \in OrderRows
                 /\ order' \in OrderRows /\ order'.status = Derive(a)
                 /\ order'.loads = b.loads /\ order'.qty = order.qty /\ order'.grand = order.grand
                 /\ order'.paid = IF cash > 0 THEN Ledger(v) + cash ELSE order.paid
                 /\ order'.auto = FALSE
                 /\ v.loads[n].st = "OUT_FOR_DELIVERY"
                 /\ \A l \in Lines : got[l] \in Nat /\ got[l] <= v.loads[n].sent[l]
                 /\ cash <= Outstanding(v)
                 /\ cash \in CashFor(v, Arrive(v, n, got, 0))
  BY Delivered
<1>2. PICK v : v = req[w].view
  OBVIOUS
<1>3. PICK a : a = Arrive(v, n, got, cash)
  OBVIOUS
<1>4. PICK b : b = Arrive(order, n, got, cash)
  OBVIOUS
<1>5. /\ v \in OrderRows /\ a \in OrderRows /\ b \in OrderRows
      /\ order'.status = Derive(a)
      /\ order'.loads = b.loads /\ order'.qty = order.qty /\ order'.grand = order.grand
      /\ order'.paid = IF cash > 0 THEN Ledger(v) + cash ELSE order.paid
      /\ v.loads[n].st = "OUT_FOR_DELIVERY"
      /\ \A l \in Lines : got[l] \in Nat /\ got[l] <= v.loads[n].sent[l]
      /\ cash <= Outstanding(v)
      /\ cash \in CashFor(v, Arrive(v, n, got, 0))
  BY <1>1, <1>2, <1>3, <1>4
<1>6. v.loads = order.loads /\ v.qty = order.qty /\ v.grand = order.grand
  BY <1>2 DEF SnapshotsHold, Deliver, Commit
<1>7. order.loads[n].st = "OUT_FOR_DELIVERY" /\ order.status = "OUT_FOR_DELIVERY"
  <2>1. order.loads[n].st = "OUT_FOR_DELIVERY"
    BY <1>5, <1>6
  <2>2. n \in In(order, "OUT_FOR_DELIVERY")
    BY <2>1 DEF In
  <2> QED
    BY <2>1, <2>2 DEF Kept, RoadIsMarked
<1>8. order.loads[n].cash = 0 /\ order.loads[n].takings = 0
  BY <1>7 DEF Kept, CashOnArrival
<1>9. /\ b.loads[n].st = "DELIVERED" /\ b.loads[n].got = got /\ b.loads[n].cash = cash
      /\ b.loads[n].takings = IF cash > 0 THEN 1 ELSE 0
      /\ \A m \in Loads : m # n => b.loads[m] = order.loads[m]
  <2>1. /\ b.loads[n].st = "DELIVERED" /\ b.loads[n].got = got
        /\ b.loads[n].cash = order.loads[n].cash + cash
        /\ b.loads[n].takings = order.loads[n].takings + (IF cash > 0 THEN 1 ELSE 0)
        /\ \A m \in Loads : m # n => b.loads[m] = order.loads[m]
    BY <1>0, <1>4, ArriveTyped
  <2> QED
    BY <2>1, <1>8
<1>10. /\ a.loads[n].st = "DELIVERED" /\ a.loads[n].got = got
       /\ \A m \in Loads : m # n => a.loads[m] = v.loads[m]
       /\ a.qty = v.qty
  BY <1>3, <1>5, ArriveTyped
<1>11. ASSUME NEW l \in Lines
       PROVE  /\ OnRoad(order', l) = OnRoad(order, l) - order.loads[n].sent[l]
              /\ Arrived(order', l) = Arrived(order, l) + got[l]
  <2>1. /\ RoadOf(b, l)[n] = 0 /\ RoadOf(order, l)[n] = order.loads[n].sent[l]
        /\ CameOf(b, l)[n] = got[l] /\ CameOf(order, l)[n] = 0
    BY <1>7, <1>9 DEF RoadOf, CameOf
  <2>2. /\ OnRoad(b, l) = OnRoad(order, l) + RoadOf(b, l)[n] - RoadOf(order, l)[n]
        /\ Arrived(b, l) = Arrived(order, l) + CameOf(b, l)[n] - CameOf(order, l)[n]
    BY <1>0, <1>5, <1>9, OneLoad
  <2>3. /\ OnRoad(order, l) \in Nat /\ Arrived(order, l) \in Nat /\ got[l] \in Nat
        /\ order.loads[n].sent[l] \in Nat
    BY <1>0, <1>5, LoadByLoad, LoadTyped
  <2>4. OnRoad(b, l) = OnRoad(order, l) - order.loads[n].sent[l] /\ Arrived(b, l) = Arrived(order, l) + got[l]
    BY <2>1, <2>2, <2>3
  <2> QED
    BY <2>4, <1>5, SameLoads
<1>12. Ledger(order') = Ledger(order) + cash /\ Ledger(v) = Ledger(order)
  <2>1. Collected(b) = Collected(order) + b.loads[n].cash - order.loads[n].cash /\ Collected(order) \in Nat
    BY <1>0, <1>5, <1>9, OneLoad, CashByLoad
  <2>2. Collected(b) = Collected(order) + cash /\ Collected(order) \in Nat
    BY <2>1, <1>8, <1>9
  <2>3. Collected(order') = Collected(b) /\ Ledger(v) = Ledger(order)
    BY <1>5, <1>6, SameLoads
  <2>4. Advance \in Nat
    BY FulfilmentAssumption
  <2> QED
    BY <2>2, <2>3, <2>4 DEF Ledger
<1>13. ASSUME NEW c, NEW d, c = Arrive(v, n, got, d), d \in Nat
       PROVE  /\ c \in OrderRows /\ c.qty = order.qty
              /\ In(c, "OUT_FOR_DELIVERY") = In(order', "OUT_FOR_DELIVERY")
              /\ \A l \in Lines : Arrived(c, l) = Arrived(order', l)
  <2>1. /\ c \in OrderRows /\ c.loads[n].st = "DELIVERED" /\ c.loads[n].got = got /\ c.qty = v.qty
        /\ \A m \in Loads : m # n => c.loads[m] = v.loads[m]
    BY <1>13, <1>5, ArriveTyped
  <2>2. /\ \A m \in Loads : /\ c.loads[m].st = b.loads[m].st
                            /\ c.loads[m].got = b.loads[m].got
    BY <2>1, <1>9, <1>6
  <2>3. \A st : In(c, st) = In(order', st)
    BY <2>2, <1>5 DEF In
  <2>4. ASSUME NEW l \in Lines PROVE Arrived(c, l) = Arrived(order', l)
    <3>1. \A m \in Loads : CameOf(c, l)[m] = CameOf(b, l)[m]
      BY <2>2 DEF CameOf
    <3>2. SumFunctionOnSet(CameOf(c, l), Loads) = SumFunctionOnSet(CameOf(b, l), Loads)
      BY <3>1, FewLoads, SumSame
    <3>3. Arrived(c, l) = Arrived(b, l)
      BY <3>2, <2>1, <1>5, LoadByLoad
    <3> QED
      BY <3>3, <1>5, SameLoads
  <2> QED
    BY <2>1, <2>3, <2>4, <1>6
<1>14. order'.status = Derive(order')
  <2>1. Derive(a) = Derive(order')
    <3>1. /\ a.qty = order'.qty /\ In(a, "OUT_FOR_DELIVERY") = In(order', "OUT_FOR_DELIVERY")
          /\ \A l \in Lines : Arrived(a, l) = Arrived(order', l)
      BY <1>13, <1>3, <1>5
    <3> QED
      BY <3>1 DEF Derive
  <2> QED
    BY <2>1, <1>5
<1>15. OpenAsPlaced'
  BY <1>0, <1>5, <1>7 DEF Kept, OpenAsPlaced, Terminal
<1>16. RoadIsMarked'
  <2>1. ASSUME NEW m \in In(order', "OUT_FOR_DELIVERY")
        PROVE  order'.status = "OUT_FOR_DELIVERY" /\ \E l \in Lines : order'.loads[m].sent[l] > 0
    <3>1. m # n /\ m \in In(order, "OUT_FOR_DELIVERY") /\ order'.loads[m] = order.loads[m]
      BY <1>5, <1>9 DEF In
    <3>2. \E l \in Lines : order'.loads[m].sent[l] > 0
      BY <3>1 DEF Kept, RoadIsMarked
    <3>3. Derive(order') = "OUT_FOR_DELIVERY"
      BY <2>1 DEF Derive
    <3> QED
      BY <3>2, <3>3, <1>14
  <2> QED
    BY <2>1 DEF RoadIsMarked
<1>17. CashOnArrival'
  BY <1>5, <1>9 DEF Kept, CashOnArrival
<1>18. NothingSentTwice'
  <2>1. ASSUME NEW l \in Lines PROVE OnRoad(order', l) + Arrived(order', l) <= order'.qty[l]
    <3>1. /\ order.qty[l] \in Nat /\ OnRoad(order, l) \in Nat /\ Arrived(order, l) \in Nat
          /\ OnRoad(order, l) + Arrived(order, l) <= order.qty[l]
      BY Left DEF Kept, GoodsAndCashAddUp
    <3>2. got[l] \in Nat /\ got[l] <= order.loads[n].sent[l] /\ order'.qty[l] = order.qty[l]
            /\ order.loads[n].sent[l] \in Nat
      BY <1>0, <1>5, <1>6, LoadTyped
    <3> QED
      BY <3>1, <3>2, <1>11
  <2> QED
    BY <2>1 DEF NothingSentTwice
<1>19. ShelfGetsWhatNeverCame'
  <2>1. \A l \in Lines : shelf'[l] = 0
    BY <1>0, <1>7, OpenShelf DEF Kept, Terminal
  <2> QED
    BY <2>1 DEF ShelfGetsWhatNeverCame
<1>20. CashTakenOnce'
  <2>1. \A m \in Loads : /\ order'.loads[m].takings <= 1
                         /\ order'.loads[m].takings = 1 => order'.loads[m].st = "DELIVERED"
    BY <1>5, <1>9 DEF Kept, GoodsAndCashAddUp, CashTakenOnce
  <2> QED
    BY <2>1 DEF CashTakenOnce
<1>21. NeverOverCollected' /\ PaidIsTheLedger'
  <2>1. /\ Ledger(order) \in Nat /\ Ledger(order) <= OrderValue(Ordered) /\ OrderValue(Ordered) \in Nat
        /\ order.paid = Ledger(order)
    BY MoneyTyped DEF Kept, GoodsAndCashAddUp, NeverOverCollected, PaidIsTheLedger
  <2>2. order.grand = OrderValue(Ordered)
    BY <1>7 DEF Kept, OpenAsPlaced, Terminal
  <2>3. Outstanding(v) = LargestOf(0, order.grand - Ledger(order))
    BY <1>12, <1>6 DEF Outstanding
  <2>4. cash <= order.grand - Ledger(order)
    BY <2>1, <2>2, <2>3, <1>5 DEF LargestOf
  <2>5. Ledger(order') <= OrderValue(Ordered)
    BY <2>1, <2>2, <2>4, <1>12
  <2>6. order'.paid = Ledger(order')
    BY <1>5, <1>12, <2>1
  <2> QED
    BY <2>5, <2>6 DEF NeverOverCollected, PaidIsTheLedger
<1>22. Kept'
  BY <1>15, <1>16, <1>17, <1>18, <1>19, <1>20, <1>21 DEF Kept, GoodsAndCashAddUp
<1>23. order'.loads[n].st = "DELIVERED" /\ \A m \in Loads : m # n => order'.loads[m] = order.loads[m]
  BY <1>5, <1>9
<1>24. \A l \in Lines : got[l] \in Nat /\ got[l] <= order.loads[n].sent[l]
  BY <1>5, <1>6
<1>25. PICK c : c = Arrive(v, n, got, 0)
  OBVIOUS
<1>26. /\ c \in OrderRows /\ c.qty = order.qty
       /\ In(c, "OUT_FOR_DELIVERY") = In(order', "OUT_FOR_DELIVERY")
       /\ \A l \in Lines : Arrived(c, l) = Arrived(order', l)
  BY <1>13, <1>25
<1> QED
  BY <1>2, <1>22, <1>5, <1>6, <1>7, <1>11, <1>12, <1>14, <1>23, <1>24, <1>25, <1>26

\* Loads are called back: the goods are still accounted for.
LEMMA BackKeeps ==
    ASSUME TypeOK, TypeOK', Kept, NEW targets, targets \subseteq In(order, "OUT_FOR_DELIVERY"),
           order'.loads = CalledBack(order, targets).loads, order'.qty = order.qty
    PROVE  /\ In(order', "OUT_FOR_DELIVERY") = In(order, "OUT_FOR_DELIVERY") \ targets
           /\ In(order', "DELIVERED") = In(order, "DELIVERED")
           /\ \A l \in Lines : OnRoad(order', l) <= OnRoad(order, l) /\ Arrived(order', l) = Arrived(order, l)
           /\ Ledger(order') = Ledger(order)
           /\ NothingSentTwice' /\ CashTakenOnce' /\ NeverOverCollected' /\ CashOnArrival'
           /\ \A n \in In(order', "OUT_FOR_DELIVERY") : \E l \in Lines : order'.loads[n].sent[l] > 0
<1>0. order \in OrderRows /\ order' \in OrderRows
  BY DEF TypeOK
<1>1. PICK b : b = CalledBack(order, targets)
  OBVIOUS
<1>2. /\ b \in OrderRows /\ order'.loads = b.loads
      /\ \A n \in Loads \ targets : b.loads[n] = order.loads[n]
      /\ \A n \in Loads \cap targets :
                    /\ b.loads[n].st = "CANCELLED" /\ b.loads[n].sent = order.loads[n].sent
                    /\ b.loads[n].cash = order.loads[n].cash
                    /\ b.loads[n].takings = order.loads[n].takings
  BY <1>0, <1>1, CalledBackTyped
<1>3. targets \subseteq Loads /\ \A n \in targets : order.loads[n].st = "OUT_FOR_DELIVERY"
  BY DEF In
<1>4. /\ In(b, "OUT_FOR_DELIVERY") = In(order, "OUT_FOR_DELIVERY") \ targets
      /\ In(b, "DELIVERED") = In(order, "DELIVERED")
      /\ \A l \in Lines : OnRoad(b, l) <= OnRoad(order, l) /\ Arrived(b, l) = Arrived(order, l)
      /\ Collected(b) = Collected(order)
  <2>1. /\ \A n \in targets : b.loads[n].st = "CANCELLED" /\ b.loads[n].cash = order.loads[n].cash
        /\ \A n \in Loads \ targets : b.loads[n] = order.loads[n]
    BY <1>2, <1>3
  <2>2. b \in OrderRows
    BY <1>2
  <2> QED
    BY <1>0, <2>1, <2>2, LoadsBack
<1>5. /\ In(order', "OUT_FOR_DELIVERY") = In(order, "OUT_FOR_DELIVERY") \ targets
      /\ In(order', "DELIVERED") = In(order, "DELIVERED")
      /\ \A l \in Lines : OnRoad(order', l) <= OnRoad(order, l) /\ Arrived(order', l) = Arrived(order, l)
      /\ Ledger(order') = Ledger(order)
  BY <1>2, <1>4, SameLoads DEF Ledger
<1>6. NothingSentTwice'
  <2>1. ASSUME NEW l \in Lines PROVE OnRoad(order', l) + Arrived(order', l) <= order'.qty[l]
    <3>1. /\ order.qty[l] \in Nat /\ OnRoad(order, l) \in Nat /\ Arrived(order, l) \in Nat
          /\ OnRoad(order, l) + Arrived(order, l) <= order.qty[l] /\ OnRoad(order', l) \in Nat
      BY <1>0, Left, LoadByLoad DEF Kept, GoodsAndCashAddUp
    <3> QED
      BY <3>1, <1>5
  <2> QED
    BY <2>1 DEF NothingSentTwice
<1>7. CashTakenOnce' /\ CashOnArrival'
  <2>1. ASSUME NEW m \in Loads
        PROVE  /\ order'.loads[m].takings <= 1
               /\ order'.loads[m].takings = 1 => order'.loads[m].st = "DELIVERED"
               /\ order'.loads[m].st # "DELIVERED" =>
                    order'.loads[m].cash = 0 /\ order'.loads[m].takings = 0
    <3>1. CASE m \in targets
      <4>1. order.loads[m].cash = 0 /\ order.loads[m].takings = 0
        BY <3>1, <1>3 DEF Kept, CashOnArrival
      <4> QED
        BY <4>1, <3>1, <1>2
    <3>2. CASE m \notin targets
      BY <3>2, <1>2 DEF Kept, GoodsAndCashAddUp, CashTakenOnce, CashOnArrival
    <3> QED
      BY <3>1, <3>2
  <2> QED
    BY <2>1 DEF CashTakenOnce, CashOnArrival
<1>8. NeverOverCollected'
  BY <1>5 DEF Kept, GoodsAndCashAddUp, NeverOverCollected
<1>9. ASSUME NEW n \in In(order', "OUT_FOR_DELIVERY") PROVE \E l \in Lines : order'.loads[n].sent[l] > 0
  <2>1. n \in In(order, "OUT_FOR_DELIVERY") /\ n \notin targets /\ n \in Loads
    BY <1>5 DEF In
  <2>2. order'.loads[n] = order.loads[n]
    BY <2>1, <1>2
  <2> QED
    BY <2>1, <2>2 DEF Kept, RoadIsMarked
<1> QED
  BY <1>5, <1>6, <1>7, <1>8, <1>9

\* Loads called back: what was on the road is left to send again.
LEMMA RecallKeeps ==
    ASSUME TypeOK, TypeOK', Kept, NEW w \in Staff, Recall(w)
    PROVE  /\ Kept' /\ order'.status = Derive(order') /\ order.status = "OUT_FOR_DELIVERY"
           /\ In(order, "OUT_FOR_DELIVERY") # {}
           /\ order'.qty = order.qty /\ order'.grand = order.grand
           /\ In(order', "DELIVERED") = In(order, "DELIVERED")
           /\ \A l \in Lines : OnRoad(order', l) <= OnRoad(order, l) /\ Arrived(order', l) = Arrived(order, l)
           /\ Ledger(order') = Ledger(order)
<1>0. order \in OrderRows /\ order' \in OrderRows /\ shelf' = shelf
  BY DEF TypeOK, Recall
<1>1. PICK targets : targets \subseteq In(order, "OUT_FOR_DELIVERY") /\ targets # {} /\
             LET b == CalledBack(order, targets)
             IN  /\ b \in OrderRows /\ order' \in OrderRows /\ order'.status = Derive(b)
                 /\ order'.loads = b.loads /\ order'.qty = order.qty
                 /\ order'.grand = order.grand /\ order'.paid = order.paid
                 /\ targets = {n \in In(order, "OUT_FOR_DELIVERY") : req[w].load \in {0, n}}
  BY Recalled
<1>2. PICK b : b = CalledBack(order, targets)
  OBVIOUS
<1>3. /\ order'.status = Derive(b) /\ order'.loads = b.loads /\ order'.qty = order.qty
      /\ order'.grand = order.grand /\ order'.paid = order.paid /\ b.qty = order.qty
  BY <1>0, <1>1, <1>2, CalledBackTyped
<1>4. /\ In(order', "DELIVERED") = In(order, "DELIVERED")
      /\ \A l \in Lines : OnRoad(order', l) <= OnRoad(order, l) /\ Arrived(order', l) = Arrived(order, l)
      /\ Ledger(order') = Ledger(order)
      /\ NothingSentTwice' /\ CashTakenOnce' /\ NeverOverCollected' /\ CashOnArrival'
      /\ \A n \in In(order', "OUT_FOR_DELIVERY") : \E l \in Lines : order'.loads[n].sent[l] > 0
  BY <1>1, <1>2, <1>3, BackKeeps
<1>5. order.status = "OUT_FOR_DELIVERY" /\ In(order, "OUT_FOR_DELIVERY") # {}
  BY <1>1 DEF Kept, RoadIsMarked
<1>6. order'.status = Derive(order')
  BY <1>3, SameDerive
<1>7. OpenAsPlaced'
  BY <1>0, <1>3, <1>5 DEF Kept, OpenAsPlaced, Terminal
<1>8. RoadIsMarked'
  BY <1>4, <1>6 DEF RoadIsMarked, Derive
<1>9. ShelfGetsWhatNeverCame'
  <2>1. \A l \in Lines : shelf'[l] = 0
    BY <1>0, <1>5, OpenShelf DEF Kept, Terminal
  <2> QED
    BY <2>1 DEF ShelfGetsWhatNeverCame
<1>10. PaidIsTheLedger'
  BY <1>3, <1>4 DEF Kept, GoodsAndCashAddUp, PaidIsTheLedger
<1> QED
  BY <1>3, <1>4, <1>5, <1>6, <1>7, <1>8, <1>9, <1>10 DEF Kept, GoodsAndCashAddUp

\* An order cancelled: nothing came, nothing is on the road.
LEMMA CancelKeeps ==
    ASSUME TypeOK, TypeOK', Kept, CancelsSawItOpen, NEW w \in Staff, CancelOrder(w)
    PROVE  /\ Kept'
           /\ order'.status = IF order.status = req[w].view.status THEN "CANCELLED" ELSE order.status
           /\ order'.status = "CANCELLED" \/ order'.status = order.status
           /\ order.status = req[w].view.status => order.status \notin Terminal
           /\ In(order', "OUT_FOR_DELIVERY") = {} /\ In(order', "DELIVERED") = {}
           /\ In(order, "DELIVERED") = {}
           /\ order'.qty = order.qty /\ order'.grand = order.grand /\ Ledger(order') = Ledger(order)
           /\ In(order, "OUT_FOR_DELIVERY") = {} => \A n \in Loads : order'.loads[n] = order.loads[n]
<1>0. order \in OrderRows /\ order' \in OrderRows /\ shelf \in Quantities /\ req[w].kind = "cancel"
  BY DEF TypeOK, CancelOrder, Commit
<1>1. PICK b : b = CalledBack(order, In(order, "OUT_FOR_DELIVERY"))
  OBVIOUS
<1>2. /\ In(order, "DELIVERED") = {}
      /\ order'.status = IF order.status = req[w].view.status THEN "CANCELLED" ELSE order.status
      /\ order'.loads = b.loads /\ order'.qty = order.qty
      /\ order'.grand = order.grand /\ order'.paid = order.paid
      /\ \/ shelf' = shelf
         \/ order.status = req[w].view.status /\ BackOnShelf(req[w].view.qty)
  BY <1>1, Cancelled
<1>3. /\ In(order', "OUT_FOR_DELIVERY") = {} /\ In(order', "DELIVERED") = {}
      /\ Ledger(order') = Ledger(order)
      /\ NothingSentTwice' /\ CashTakenOnce' /\ NeverOverCollected' /\ CashOnArrival'
  BY <1>1, <1>2, BackKeeps
<1>4. \A l \in Lines : OnRoad(order', l) = 0 /\ Arrived(order', l) = 0
  BY <1>0, <1>3, NoneIn
<1>5. order.status = req[w].view.status => order.status \notin Terminal
  BY <1>0 DEF CancelsSawItOpen, Cancellable, Terminal
<1>6. OpenAsPlaced'
  <2>1. CASE order.status = req[w].view.status
    BY <2>1, <1>2 DEF OpenAsPlaced, Terminal
  <2>2. CASE order.status # req[w].view.status
    BY <2>2, <1>2 DEF Kept, OpenAsPlaced
  <2> QED
    BY <2>1, <2>2
<1>7. RoadIsMarked'
  BY <1>3 DEF RoadIsMarked
<1>8. ShelfGetsWhatNeverCame'
  <2>1. ASSUME NEW l \in Lines, shelf'[l] > 0
        PROVE  order'.status \in Terminal /\ OnRoad(order', l) = 0 /\ shelf'[l] + Arrived(order', l) = Ordered[l]
    <3>0. Ordered[l] \in Nat
      BY FulfilmentAssumption
    <3>1. CASE shelf' = shelf
      <4>1. order.status \in Terminal
        BY <2>1, <3>1, OpenShelf DEF Kept
      <4>2. order'.status \in Terminal
        BY <4>1, <1>2 DEF Terminal
      <4>3. shelf[l] + Arrived(order, l) = Ordered[l] /\ Arrived(order, l) = 0
        BY <2>1, <3>1, <1>0, <1>2, NoneIn DEF Kept, GoodsAndCashAddUp, ShelfGetsWhatNeverCame
      <4> QED
        BY <4>2, <4>3, <1>4, <3>1
    <3>2. CASE order.status = req[w].view.status /\ BackOnShelf(req[w].view.qty)
      <4>1. order.status \notin Terminal /\ order'.status = "CANCELLED"
        BY <3>2, <1>2, <1>5
      <4>2. shelf[l] = 0 /\ req[w].view.qty = Ordered
        BY <4>1, <1>0, OpenShelf DEF Kept, CancelsSawItOpen
      <4>3. shelf'[l] = Ordered[l]
        BY <4>2, <3>2, <3>0 DEF BackOnShelf
      <4> QED
        BY <4>1, <4>3, <1>4, <3>0 DEF Terminal
    <3> QED
      BY <1>2, <3>1, <3>2
  <2> QED
    BY <2>1 DEF ShelfGetsWhatNeverCame
<1>9. PaidIsTheLedger'
  BY <1>2, <1>3 DEF Kept, GoodsAndCashAddUp, PaidIsTheLedger
<1>10. Kept'
  BY <1>3, <1>6, <1>7, <1>8, <1>9 DEF Kept, GoodsAndCashAddUp
<1>11. In(order, "OUT_FOR_DELIVERY") = {} => \A n \in Loads : order'.loads[n] = order.loads[n]
  BY <1>0, <1>1, <1>2, CalledBackTyped
<1> QED
  BY <1>2, <1>3, <1>5, <1>10, <1>11

\* An order closed short: it is for what came, and the rest is back or is not.
LEMMA CloseKeeps ==
    ASSUME TypeOK, TypeOK', Kept, NEW w \in Staff, CloseShort(w)
    PROVE  /\ Kept' /\ order.status = "PARTIALLY_DELIVERED" /\ order'.status = "DELIVERED"
           /\ order'.loads = order.loads /\ order'.grand = Worth(order)
           /\ In(order, "OUT_FOR_DELIVERY") = {}
           /\ \A l \in Lines : order'.qty[l] = Arrived(order, l)
<1>0. order \in OrderRows /\ order' \in OrderRows
  BY DEF TypeOK
<1>1. PICK came : came = [l \in Lines |-> SmallestOf(Arrived(order, l), order.qty[l])]
  OBVIOUS
<1>2. PICK left : left = [l \in Lines |-> LargestOf(0, order.qty[l] - Arrived(order, l))]
  OBVIOUS
<1>3. /\ order.status = "PARTIALLY_DELIVERED" /\ order'.status = "DELIVERED" /\ order'.qty = came
      /\ order'.grand = Worth(order) /\ order'.paid = Ledger(order)
      /\ order'.loads = order.loads
      /\ (shelf' = shelf \/ BackOnShelf(left))
  BY <1>1, <1>2, ClosedShort
<1>4. In(order, "OUT_FOR_DELIVERY") = {}
  BY <1>3 DEF Kept, RoadIsMarked
<1>5. \A l \in Lines : /\ OnRoad(order, l) = 0 /\ order.qty[l] \in Nat /\ Arrived(order, l) \in Nat
                       /\ Arrived(order, l) <= order.qty[l] /\ order.qty[l] = Ordered[l] /\ shelf[l] = 0
  <2>1. order.qty = Ordered
    BY <1>3 DEF Kept, OpenAsPlaced, Terminal
  <2>2. \A l \in Lines : shelf[l] = 0
    BY <1>3, OpenShelf DEF Kept, Terminal
  <2>3. \A l \in Lines : /\ OnRoad(order, l) = 0 /\ order.qty[l] \in Nat /\ Arrived(order, l) \in Nat
                         /\ OnRoad(order, l) + Arrived(order, l) <= order.qty[l]
    BY <1>0, <1>4, NoneIn, Left DEF Kept, GoodsAndCashAddUp
  <2> QED
    BY <2>1, <2>2, <2>3
<1>6. \A l \in Lines : came[l] = Arrived(order, l) /\ left[l] = order.qty[l] - Arrived(order, l)
  BY <1>1, <1>2, <1>5 DEF SmallestOf, LargestOf
<1>7. /\ In(order', "OUT_FOR_DELIVERY") = {} /\ Ledger(order') = Ledger(order)
      /\ \A l \in Lines : OnRoad(order', l) = OnRoad(order, l) /\ Arrived(order', l) = Arrived(order, l)
  BY <1>3, <1>4, SameLoads
<1>8. OpenAsPlaced' /\ RoadIsMarked'
  BY <1>3, <1>7 DEF OpenAsPlaced, RoadIsMarked, Terminal
<1>9. CashOnArrival' /\ CashTakenOnce' /\ NeverOverCollected'
  BY <1>3, <1>7 DEF Kept, GoodsAndCashAddUp, CashOnArrival, CashTakenOnce, NeverOverCollected
<1>10. NothingSentTwice'
  <2>1. \A l \in Lines : OnRoad(order', l) + Arrived(order', l) <= order'.qty[l]
    BY <1>3, <1>5, <1>6, <1>7
  <2> QED
    BY <2>1 DEF NothingSentTwice
<1>11. ShelfGetsWhatNeverCame'
  <2>1. ASSUME NEW l \in Lines, shelf'[l] > 0
        PROVE  order'.status \in Terminal /\ OnRoad(order', l) = 0 /\ shelf'[l] + Arrived(order', l) = Ordered[l]
    <3>1. CASE shelf' = shelf
      BY <2>1, <3>1, <1>5
    <3>2. CASE BackOnShelf(left)
      <4>1. shelf'[l] = shelf[l] + left[l]
        BY <3>2 DEF BackOnShelf
      <4> QED
        BY <4>1, <1>3, <1>5, <1>6, <1>7 DEF Terminal
    <3> QED
      BY <1>3, <3>1, <3>2
  <2> QED
    BY <2>1 DEF ShelfGetsWhatNeverCame
<1>12. PaidIsTheLedger'
  BY <1>3, <1>7 DEF PaidIsTheLedger
<1> QED
  BY <1>3, <1>4, <1>6, <1>8, <1>9, <1>10, <1>11, <1>12 DEF Kept, GoodsAndCashAddUp

\* A new status, before any load goes out.
LEMMA MoveKeeps ==
    ASSUME TypeOK, TypeOK', Kept, (\E w \in Staff : Relabel(w)) \/ SweepConfirms
    PROVE  /\ Kept' /\ In(order', "OUT_FOR_DELIVERY") = {}
           /\ order'.loads = order.loads /\ order'.qty = order.qty /\ order'.grand = order.grand
<1>1. /\ order'.status \in {"PLACED", "CONFIRMED", "PACKED"}
      /\ order.status \in {"PLACED", "CONFIRMED", "PACKED"}
      /\ order'.qty = order.qty /\ order'.grand = order.grand /\ order'.paid = order.paid
      /\ order'.loads = order.loads /\ shelf' = shelf
  BY Moved
<1>2. In(order, "OUT_FOR_DELIVERY") = {}
  BY <1>1 DEF Kept, RoadIsMarked
<1>3. /\ In(order', "OUT_FOR_DELIVERY") = {} /\ Ledger(order') = Ledger(order)
      /\ \A l \in Lines : OnRoad(order', l) = OnRoad(order, l) /\ Arrived(order', l) = Arrived(order, l)
  BY <1>1, <1>2, SameLoads
<1>4. OpenAsPlaced' /\ RoadIsMarked' /\ CashOnArrival'
  BY <1>1, <1>3 DEF Kept, OpenAsPlaced, RoadIsMarked, CashOnArrival, Terminal
<1>5. \A l \in Lines : shelf'[l] = 0
  BY <1>1, OpenShelf DEF Kept, Terminal
<1>6. ShelfGetsWhatNeverCame'
  BY <1>5 DEF ShelfGetsWhatNeverCame
<1>7. NothingSentTwice' /\ CashTakenOnce' /\ NeverOverCollected' /\ PaidIsTheLedger'
  BY <1>1, <1>3 DEF Kept, GoodsAndCashAddUp, NothingSentTwice, CashTakenOnce, NeverOverCollected, PaidIsTheLedger
<1> QED
  BY <1>1, <1>3, <1>4, <1>6, <1>7 DEF Kept, GoodsAndCashAddUp

\* A step that touches neither the order nor the shelf.
LEMMA NothingKeeps ==
    ASSUME TypeOK, Kept, order' = order, shelf' = shelf
    PROVE  Kept'
  BY DEF Kept, OpenAsPlaced, RoadIsMarked, CashOnArrival, GoodsAndCashAddUp, NothingSentTwice,
         ShelfGetsWhatNeverCame, CashTakenOnce, NeverOverCollected, PaidIsTheLedger

\* At first the goods and the cash add up.
LEMMA KeptFirst == Init => Kept /\ SnapshotsHold /\ CancelsSawItOpen
<1> SUFFICES ASSUME Init PROVE Kept /\ SnapshotsHold /\ CancelsSawItOpen
  OBVIOUS
<1>1. PICK auto \in BOOLEAN : order = PlacedOrder(auto)
  BY DEF Init
<1>2. /\ order \in OrderRows /\ order.status = "PLACED" /\ order.qty = Ordered
      /\ order.grand = OrderValue(Ordered) /\ order.paid = Advance
      /\ \A n \in Loads : /\ order.loads[n].st = "none" /\ order.loads[n].cash = 0
                          /\ order.loads[n].takings = 0
  BY <1>1, PlacedTyped DEF PlacedOrder, NoLoad
<1>3. In(order, "OUT_FOR_DELIVERY") = {} /\ In(order, "DELIVERED") = {}
  BY <1>2 DEF In
<1>4. \A l \in Lines : OnRoad(order, l) = 0 /\ Arrived(order, l) = 0 /\ shelf[l] = 0 /\ Ordered[l] \in Nat
  BY <1>2, <1>3, NoneIn, FulfilmentAssumption DEF Init, NoUnits
<1>5. Ledger(order) = Advance
  <2>1. \A n \in Loads : CashOf(order)[n] = 0
    BY <1>2 DEF CashOf
  <2>2. Collected(order) = 0 /\ Advance \in Nat
    BY <2>1, <1>2, CashByLoad, FewLoads, SumOfZeros
  <2> QED
    BY <2>2 DEF Ledger
<1>6. Advance <= OrderValue(Ordered)
  <2>1. OrderValue(Ordered) \in Nat /\ Advance \in 0 .. OrderValue(Ordered)
    BY FulfilmentAssumption, PlacedTyped, ValueTyped
  <2> QED
    BY <2>1
<1>7. OpenAsPlaced
  BY <1>2 DEF OpenAsPlaced, Init
<1>8. RoadIsMarked /\ CashOnArrival
  BY <1>2, <1>3 DEF RoadIsMarked, CashOnArrival
<1>9. NothingSentTwice
  BY <1>2, <1>4 DEF NothingSentTwice
<1>10. ShelfGetsWhatNeverCame
  BY <1>4 DEF ShelfGetsWhatNeverCame
<1>11. CashTakenOnce /\ NeverOverCollected /\ PaidIsTheLedger
  BY <1>2, <1>5, <1>6 DEF CashTakenOnce, NeverOverCollected, PaidIsTheLedger
<1>12. \A w \in Staff : req[w].kind = "idle"
  BY DEF Init, Idle
<1> QED
  BY <1>7, <1>8, <1>9, <1>10, <1>11, <1>12 DEF Kept, GoodsAndCashAddUp, SnapshotsHold, CancelsSawItOpen

\* What the requests in flight saw stays what it was.
LEMMA ViewsKeep ==
    ASSUME TypeOK, Kept, SnapshotsHold, CancelsSawItOpen, "deliver" \in Alone, [Next]_vars, TypeOK'
    PROVE  /\ SnapshotsHold' /\ CancelsSawItOpen'
           /\ \A u \in Staff : \/ req'[u] = req[u] \/ req'[u] = Idle \/ Asked(u)
<1>0. req \in [Staff -> Requests] /\ order \in OrderRows
  BY DEF TypeOK
<1>1. ASSUME NEW u \in Staff, Asked(u)
      PROVE  /\ req'[u].kind = "deliver" => /\ req'[u].view.loads = order'.loads
                                            /\ req'[u].view.qty = order'.qty /\ req'[u].view.grand = order'.grand
             /\ req'[u].kind = "cancel" =>
                  req'[u].view.status \in Cancellable /\ req'[u].view.qty = Ordered
  <2>1. req'[u].kind = "deliver" => req'[u].view = order
    BY <1>1 DEF Asked, Reading, ReadsBeforeLock
  <2>2. ASSUME req'[u].kind = "cancel"
        PROVE  req'[u].view.status \in Cancellable /\ req'[u].view.qty = Ordered
    <3>1. req'[u].view = Page(order) /\ order.status \in Cancellable
      BY <2>2, <1>1 DEF Asked, Reading, ReadsBeforeLock
    <3>2. order.qty = Ordered
      BY <3>1 DEF Kept, OpenAsPlaced, Cancellable, Terminal
    <3> QED
      BY <3>1, <3>2, <1>0, PageTyped
  <2> QED
    BY <2>1, <2>2, <1>1 DEF Asked
<1>2. ASSUME NEW u \in Staff
      PROVE  /\ \/ req'[u] = req[u] \/ req'[u] = Idle \/ Asked(u)
             /\ req'[u] = req[u] /\ req'[u] # Idle =>
                  \/ order'.loads = order.loads /\ order'.qty = order.qty /\ order'.grand = order.grand
                  \/ req[u].kind # "deliver"
  <2>1. CASE order' = order /\ shelf' = shelf /\ req' = req
    BY <2>1
  <2>2. CASE SweepConfirms /\ req' = req
    BY <2>2, Moved
  <2>3. ASSUME NEW w \in Staff, Asked(w), \A v \in Staff \ {w} : req'[v] = req[v], order' = order
        PROVE  <1>2!2
    BY <2>3
  <2>4. ASSUME NEW w \in Staff, req' = [req EXCEPT ![w] = Idle], order' = order
        PROVE  <1>2!2
    BY <2>4, <1>0
  <2>5. ASSUME NEW w \in Staff, req' = [req EXCEPT ![w] = Idle],
               \A v \in Staff \ {w} : req[v].kind \notin Alone
        PROVE  <1>2!2
    BY <2>5, <1>0
  <2> QED
    BY <2>1, <2>2, <2>3, <2>4, <2>5, Steps
<1>3. ASSUME NEW u \in Staff
      PROVE  /\ req'[u].kind = "deliver" => /\ req'[u].view.loads = order'.loads
                                            /\ req'[u].view.qty = order'.qty /\ req'[u].view.grand = order'.grand
             /\ req'[u].kind = "cancel" =>
                  req'[u].view.status \in Cancellable /\ req'[u].view.qty = Ordered
  <2>1. CASE req'[u] = Idle
    <3>1. req'[u].kind = "idle"
      BY <2>1, IdleTyped
    <3> QED
      BY <3>1
  <2>2. CASE req'[u] = req[u] /\ req'[u] # Idle
    BY <2>2, <1>2 DEF SnapshotsHold, CancelsSawItOpen
  <2> QED
    BY <2>1, <2>2, <1>1, <1>2
<1> QED
  BY <1>2, <1>3 DEF SnapshotsHold, CancelsSawItOpen

\* The invariant of the goods holds at first.
LEMMA GoodsFirst == Init => GoodsInv
  BY TypedFirst, KeptFirst DEF GoodsInv, Kept

\* Every step keeps the invariant of the goods.
LEMMA GoodsNext ==
    ASSUME GoodsInv, "deliver" \in Alone, [Next]_vars
    PROVE  GoodsInv'
<1>0. TypeOK /\ Kept /\ SnapshotsHold /\ CancelsSawItOpen
  BY DEF GoodsInv, Kept
<1>1. TypeOK'
  BY <1>0, TypedNext
<1>2. SnapshotsHold' /\ CancelsSawItOpen'
  BY <1>0, <1>1, ViewsKeep
<1>3. Kept'
  <2>1. CASE order' = order /\ shelf' = shelf
    BY <2>1, <1>0, NothingKeeps
  <2>2. ASSUME NEW w \in Staff,
               \/ Relabel(w) \/ Send(w) \/ Deliver(w)
               \/ Recall(w) \/ CancelOrder(w) \/ CloseShort(w)
        PROVE  Kept'
    BY <2>2, <1>0, <1>1, MoveKeeps, SendKeeps, DeliverKeeps, RecallKeeps, CancelKeeps, CloseKeeps
  <2>3. CASE SweepConfirms
    BY <2>3, <1>0, <1>1, MoveKeeps
  <2> QED
    BY <2>1, <2>2, <2>3, <1>0, Steps
<1> QED
  BY <1>1, <1>2, <1>3 DEF GoodsInv, Kept

\* The goods and the cash are accounted for to the unit, where no other request
\* commits while a delivery is being recorded.
THEOREM GoodsAccountedFor ==
    ASSUME "deliver" \in Alone
    PROVE  Spec => []GoodsAndCashAddUp
<1>1. Init => GoodsInv
  BY GoodsFirst
<1>2. GoodsInv /\ [Next]_vars => GoodsInv'
  BY GoodsNext
<1>3. GoodsInv => GoodsAndCashAddUp
  BY DEF GoodsInv
<1> QED
  BY <1>1, <1>2, <1>3, PTL DEF Spec

-----------------------------------------------------------------------------
(* The status and what has been paid.                                      *)

\* What the derived status says of the loads.
LEMMA DeriveMeans ==
    ASSUME NEW o
    PROVE  /\ Derive(o) = "OUT_FOR_DELIVERY" <=> In(o, "OUT_FOR_DELIVERY") # {}
           /\ Derive(o) = "PACKED" => \A l \in Lines : Arrived(o, l) = 0
           /\ Derive(o) = "DELIVERED" => \A l \in Lines : Arrived(o, l) >= o.qty[l]
           /\ In(o, "OUT_FOR_DELIVERY") = {} /\ (\A l \in Lines : Arrived(o, l) = 0) => Derive(o) = "PACKED"
           /\ Derive(o) = "PARTIALLY_DELIVERED" => ~ \A l \in Lines : Arrived(o, l) = 0
           /\ In(o, "OUT_FOR_DELIVERY") = {} /\ ~(\A l \in Lines : Arrived(o, l) = 0)
                /\ (\A l \in Lines : Arrived(o, l) >= o.qty[l]) => Derive(o) = "DELIVERED"
  BY DEF Derive

\* The status a page showed, to who cancels.
LEMMA PagesKeep ==
    ASSUME GoodsInv, CancelsSawItsStatus, "deliver" \in Alone, "cancel" \in Alone, [Next]_vars
    PROVE  CancelsSawItsStatus'
<1>0. TypeOK /\ req \in [Staff -> Requests] /\ order \in OrderRows
  BY DEF GoodsInv, TypeOK
<1>1. ASSUME NEW u \in Staff, req'[u].kind = "cancel"
      PROVE  req'[u].view.status = order'.status \/ order'.status = "CONFIRMED"
  <2>1. CASE order' = order /\ shelf' = shelf /\ req' = req
    BY <2>1, <1>1 DEF CancelsSawItsStatus
  <2>2. CASE SweepConfirms /\ req' = req
    <3>1. order'.status = "CONFIRMED"
      <4>1. "CONFIRMED" \in Statuses
        BY DEF Statuses
      <4> QED
        BY <4>1, <2>2, <1>0, RelabelledTyped DEF SweepConfirms
    <3> QED
      BY <3>1
  <2>3. ASSUME NEW w \in Staff, Asked(w), \A v \in Staff \ {w} : req'[v] = req[v], order' = order
        PROVE  req'[u].view.status = order'.status \/ order'.status = "CONFIRMED"
    <3>1. CASE u = w
      <4>1. req'[u].view = Page(order)
        BY <3>1, <2>3, <1>1 DEF Asked, Reading, ReadsBeforeLock
      <4> QED
        BY <4>1, <2>3, <1>0, PageTyped
    <3>2. CASE u # w
      BY <3>2, <2>3, <1>1 DEF CancelsSawItsStatus
    <3> QED
      BY <3>1, <3>2
  <2>4. ASSUME NEW w \in Staff, req' = [req EXCEPT ![w] = Idle], order' = order
        PROVE  req'[u].view.status = order'.status \/ order'.status = "CONFIRMED"
    <3>1. u # w
      BY <2>4, <1>0, <1>1, IdleTyped
    <3> QED
      BY <3>1, <2>4, <1>0, <1>1 DEF CancelsSawItsStatus
  <2>5. ASSUME NEW w \in Staff, req' = [req EXCEPT ![w] = Idle],
               \A v \in Staff \ {w} : req[v].kind \notin Alone
        PROVE  req'[u].view.status = order'.status \/ order'.status = "CONFIRMED"
    <3>1. u # w
      BY <2>5, <1>0, <1>1, IdleTyped
    <3>2. req'[u] = req[u]
      BY <3>1, <2>5, <1>0
    <3> QED
      BY <3>1, <3>2, <2>5, <1>1
  <2> QED
    BY <1>0, <2>1, <2>2, <2>3, <2>4, <2>5, Steps
<1> QED
  BY <1>1 DEF CancelsSawItsStatus

\* Every step keeps the invariant of the status.
LEMMA StatusNext ==
    ASSUME StatusInv, "deliver" \in Alone, "cancel" \in Alone, [Next]_vars
    PROVE  StatusInv'
<1>0. /\ TypeOK /\ Kept /\ SnapshotsHold /\ CancelsSawItOpen /\ CancelsSawItsStatus
      /\ NothingArrivedYet /\ StatusFollowsLoads /\ GoodsInv
  BY DEF StatusInv, GoodsInv, Kept
<1>1. GoodsInv' /\ TypeOK' /\ CancelsSawItsStatus'
  <2>1. GoodsInv' /\ CancelsSawItsStatus'
    BY <1>0, GoodsNext, PagesKeep
  <2> QED
    BY <2>1 DEF GoodsInv
<1>2. NothingArrivedYet' /\ StatusFollowsLoads'
  <2>1. CASE order' = order
    BY <2>1, <1>0 DEF NothingArrivedYet, StatusFollowsLoads
  <2>2. CASE order'.status = Derive(order')
    <3>1. order'.status \notin {"PLACED", "CONFIRMED", "CANCELLED"}
      BY <2>2, DeriveTyped
    <3> QED
      BY <3>1, <2>2 DEF NothingArrivedYet, StatusFollowsLoads
  <2>3. CASE (\E w \in Staff : Relabel(w)) \/ SweepConfirms
    <3>1. /\ In(order', "OUT_FOR_DELIVERY") = {}
          /\ order'.loads = order.loads /\ order'.qty = order.qty
      BY <2>3, <1>0, <1>1, MoveKeeps
    <3>2. /\ order'.status \in {"PLACED", "CONFIRMED", "PACKED"}
          /\ order.status \in {"PLACED", "CONFIRMED", "PACKED"}
      BY <2>3, <1>0, Moved
    <3>3. \A l \in Lines : Arrived(order, l) = 0
      <4>1. CASE order.status = "PACKED"
        BY <4>1, <1>0, DeriveMeans DEF StatusFollowsLoads
      <4>2. CASE order.status \in {"PLACED", "CONFIRMED"}
        BY <4>2, <1>0 DEF NothingArrivedYet
      <4> QED
        BY <3>2, <4>1, <4>2
    <3>4. \A l \in Lines : Arrived(order', l) = 0
      BY <3>1, <3>3, SameLoads
    <3>5. Derive(order') = "PACKED"
      BY <3>1, <3>4, DeriveMeans
    <3> QED
      BY <3>1, <3>2, <3>4, <3>5 DEF NothingArrivedYet, StatusFollowsLoads
  <2>4. ASSUME NEW w \in Staff, Send(w)
        PROVE  order'.status = Derive(order')
    <3>1. /\ order'.status = "OUT_FOR_DELIVERY"
          /\ \E n \in Loads : order'.loads[n].st = "OUT_FOR_DELIVERY"
      BY <2>4, <1>0, <1>1, SendKeeps
    <3>2. In(order', "OUT_FOR_DELIVERY") # {}
      BY <3>1 DEF In
    <3> QED
      BY <3>1, <3>2, DeriveMeans
  <2>5. ASSUME NEW w \in Staff, Deliver(w) PROVE order'.status = Derive(order')
    BY <2>5, <1>0, <1>1, DeliverKeeps
  <2>6. ASSUME NEW w \in Staff, Recall(w) PROVE order'.status = Derive(order')
    BY <2>6, <1>0, <1>1, RecallKeeps
  <2>7. ASSUME NEW w \in Staff, CancelOrder(w) PROVE NothingArrivedYet' /\ StatusFollowsLoads'
    <3>1. /\ order'.status = IF order.status = req[w].view.status THEN "CANCELLED" ELSE order.status
          /\ In(order', "OUT_FOR_DELIVERY") = {} /\ In(order', "DELIVERED") = {}
      BY <2>7, <1>0, <1>1, CancelKeeps
    <3>2. req[w].kind = "cancel"
      BY <2>7 DEF CancelOrder, Commit
    <3>3. order'.status \in {"CANCELLED", "CONFIRMED"}
      BY <3>1, <3>2, <1>0 DEF CancelsSawItsStatus
    <3>4. \A l \in Lines : Arrived(order', l) = 0
      BY <3>1, <1>1, NoneIn DEF TypeOK
    <3> QED
      BY <3>1, <3>3, <3>4 DEF NothingArrivedYet, StatusFollowsLoads
  <2>8. ASSUME NEW w \in Staff, CloseShort(w) PROVE order'.status = Derive(order')
    <3>1. /\ order.status = "PARTIALLY_DELIVERED" /\ order'.status = "DELIVERED"
          /\ order'.loads = order.loads /\ In(order, "OUT_FOR_DELIVERY") = {}
          /\ \A l \in Lines : order'.qty[l] = Arrived(order, l)
      BY <2>8, <1>0, <1>1, CloseKeeps
    <3>2. Derive(order) = "PARTIALLY_DELIVERED"
      BY <3>1, <1>0 DEF StatusFollowsLoads
    <3>3. /\ In(order', "OUT_FOR_DELIVERY") = {}
          /\ \A l \in Lines : Arrived(order', l) = Arrived(order, l)
      BY <3>1, SameLoads
    <3>4. ~ \A l \in Lines : Arrived(order', l) = 0
      BY <3>2, <3>3, DeriveMeans
    <3>5. \A l \in Lines : Arrived(order, l) \in Nat
      BY <1>0, LoadByLoad DEF TypeOK
    <3>6. \A l \in Lines : Arrived(order', l) >= order'.qty[l]
      BY <3>1, <3>3, <3>5
    <3> QED
      BY <3>1, <3>3, <3>4, <3>6, DeriveMeans
  <2> QED
    BY <1>0, <2>1, <2>2, <2>3, <2>4, <2>5, <2>6, <2>7, <2>8, Steps
<1> QED
  BY <1>1, <1>2 DEF StatusInv

\* The invariant of the status holds at first.
LEMMA StatusFirst == Init => StatusInv
<1> SUFFICES ASSUME Init PROVE StatusInv
  OBVIOUS
<1>1. GoodsInv
  BY GoodsFirst
<1>2. PICK auto \in BOOLEAN : order = PlacedOrder(auto)
  BY DEF Init
<1>3. order \in OrderRows /\ order.status = "PLACED" /\ \A n \in Loads : order.loads[n].st = "none"
  BY <1>2, PlacedTyped DEF PlacedOrder, NoLoad
<1>4. In(order, "OUT_FOR_DELIVERY") = {} /\ In(order, "DELIVERED") = {}
  BY <1>3 DEF In
<1>5. \A l \in Lines : Arrived(order, l) = 0
  BY <1>3, <1>4, NoneIn
<1>6. \A w \in Staff : req[w].kind = "idle"
  BY DEF Init, Idle
<1> QED
  BY <1>1, <1>3, <1>4, <1>5, <1>6 DEF StatusInv, CancelsSawItsStatus, NothingArrivedYet, StatusFollowsLoads

-----------------------------------------------------------------------------
(* Pay as the goods arrive.                                                *)

\* More units are worth more.
LEMMA WorthMore ==
    ASSUME NEW a \in Quantities, NEW b \in Quantities, \A l \in Lines : a[l] <= b[l]
    PROVE  OrderValue(a) <= OrderValue(b)
<1>1. PICK wa : wa = [l \in Lines |-> UnitPayable[l] * a[l]]
  OBVIOUS
<1>2. PICK wb : wb = [l \in Lines |-> UnitPayable[l] * b[l]]
  OBVIOUS
<1>3. \A u, x, y \in Nat : x <= y => u * x \in Int /\ u * y \in Int /\ u * x <= u * y
  OBVIOUS
<1>4. \A l \in Lines : UnitPayable[l] \in Nat /\ a[l] \in Nat /\ b[l] \in Nat
  BY FulfilmentAssumption DEF Quantities
<1>5. \A l \in Lines : wa[l] \in Int /\ wb[l] \in Int /\ wa[l] <= wb[l]
  BY <1>1, <1>2, <1>3, <1>4
<1>6. SumFunctionOnSet(wa, Lines) <= SumFunctionOnSet(wb, Lines)
  BY <1>5, FulfilmentAssumption, SumBelow
<1>7. SumFunctionOnSet(wa, Lines) \in Int /\ SumFunctionOnSet(wb, Lines) \in Int
  BY <1>5, FulfilmentAssumption, SumIsInt
<1>8. Charges \in Nat /\ OrderValue(a) = Charges + SumFunctionOnSet(wa, Lines)
        /\ OrderValue(b) = Charges + SumFunctionOnSet(wb, Lines)
  BY <1>1, <1>2, FulfilmentAssumption DEF OrderValue
<1> QED
  BY <1>6, <1>7, <1>8

\* What has arrived, up to what the line is for.
Counted(o) == [l \in Lines |-> SmallestOf(Arrived(o, l), o.qty[l])]

\* What arrived is worth what its units are, when no more arrived than was ordered.
LEMMA WorthOf ==
    ASSUME NEW o \in OrderRows, \A l \in Lines : Arrived(o, l) <= o.qty[l]
    PROVE  /\ Counted(o) \in Quantities /\ Worth(o) = OrderValue(Counted(o))
           /\ \A l \in Lines : Counted(o)[l] = Arrived(o, l)
<1>1. Counted(o) \in Quantities /\ Worth(o) = OrderValue(Counted(o))
  BY WorthTyped DEF Counted, Worth
<1>2. \A l \in Lines : Arrived(o, l) \in Nat /\ o.qty[l] \in Nat
  BY LoadByLoad, OrderTyped, QuantityTyped
<1>3. \A l \in Lines : Counted(o)[l] = Arrived(o, l)
  BY <1>2 DEF Counted, SmallestOf
<1> QED
  BY <1>1, <1>3

\* With nothing delivered, nothing but the advance has been paid.
LEMMA OnlyAdvance ==
    ASSUME TypeOK, CashOnArrival, In(order, "DELIVERED") = {}
    PROVE  Ledger(order) = Advance
<1>1. \A n \in Loads : CashOf(order)[n] = 0
  BY DEF CashOf, CashOnArrival, In
<1>2. Collected(order) = 0 /\ Advance \in Nat
  BY <1>1, CashByLoad, FewLoads, SumOfZeros DEF TypeOK
<1> QED
  BY <1>2 DEF Ledger

\* What a load brings, when it brings what the slip asks for.
LEMMA DeliverPays ==
    ASSUME StatusInv, PayAsItArrives, TypeOK', "deliver" \in Alone, ~TypedCash, NEW w \in Staff, Deliver(w)
    PROVE  PayAsItArrives'
<1>0. /\ TypeOK /\ Kept /\ SnapshotsHold /\ order \in OrderRows /\ order' \in OrderRows
  BY DEF StatusInv, GoodsInv, Kept, TypeOK
<1>1. /\ Kept' /\ order'.status = Derive(order') /\ order.status = "OUT_FOR_DELIVERY"
      /\ order'.qty = order.qty /\ order'.grand = order.grand
  BY <1>0, DeliverKeeps
<1>2. PICK n \in Loads, got \in Quantities, cash \in Nat :
                LET v == req[w].view IN
                /\ order.loads[n].st = "OUT_FOR_DELIVERY" /\ order'.loads[n].st = "DELIVERED"
                /\ \A m \in Loads : m # n => order'.loads[m] = order.loads[m]
                /\ \A l \in Lines : /\ OnRoad(order', l) = OnRoad(order, l) - order.loads[n].sent[l]
                                    /\ Arrived(order', l) = Arrived(order, l) + got[l]
                                    /\ got[l] \in Nat /\ got[l] <= order.loads[n].sent[l]
                /\ v \in OrderRows /\ v.loads = order.loads /\ v.qty = order.qty /\ v.grand = order.grand
                /\ cash <= Outstanding(v) /\ Ledger(order') = Ledger(order) + cash
                /\ cash \in CashFor(v, Arrive(v, n, got, 0))
                /\ Arrive(v, n, got, 0) \in OrderRows /\ Arrive(v, n, got, 0).qty = order.qty
                /\ \A l \in Lines : Arrived(Arrive(v, n, got, 0), l) = Arrived(order', l)
                /\ In(Arrive(v, n, got, 0), "OUT_FOR_DELIVERY") = In(order', "OUT_FOR_DELIVERY")
  BY <1>0, DeliverKeeps
<1>3. PICK v : v = req[w].view
  OBVIOUS
<1>4. PICK c : c = Arrive(v, n, got, 0)
  OBVIOUS
<1>5. /\ v \in OrderRows /\ v.loads = order.loads /\ v.grand = order.grand
      /\ cash = CashToCollect(v, c) /\ Ledger(order') = Ledger(order) + cash
      /\ c.qty = order.qty /\ In(c, "OUT_FOR_DELIVERY") = In(order', "OUT_FOR_DELIVERY")
      /\ \A l \in Lines : Arrived(c, l) = Arrived(order', l)
      /\ \A l \in Lines : got[l] \in Nat /\ Arrived(order', l) = Arrived(order, l) + got[l]
  BY <1>2, <1>3, <1>4 DEF CashFor
<1>6. Derive(c) = Derive(order') /\ Worth(c) = Worth(order')
  <2>1. /\ c.qty = order'.qty /\ In(c, "OUT_FOR_DELIVERY") = In(order', "OUT_FOR_DELIVERY")
        /\ \A l \in Lines : Arrived(c, l) = Arrived(order', l)
    BY <1>1, <1>5
  <2>2. Derive(c) = Derive(order')
    BY <2>1 DEF Derive
  <2>3. Worth(c) = Worth(order')
    BY <2>1 DEF Worth
  <2> QED
    BY <2>2, <2>3
<1>7. /\ order.grand = OrderValue(Ordered) /\ order.qty = Ordered /\ OrderValue(Ordered) \in Nat
      /\ Ordered \in Quantities /\ Advance \in Nat /\ Advance <= OrderValue(Ordered)
  <2>1. order.grand = OrderValue(Ordered) /\ order.qty = Ordered
    BY <1>0, <1>1 DEF Kept, OpenAsPlaced, Terminal
  <2>2. OrderValue(Ordered) \in Nat /\ Ordered \in Quantities
    BY PlacedTyped, ValueTyped
  <2>3. Advance \in 0 .. OrderValue(Ordered)
    BY FulfilmentAssumption
  <2> QED
    BY <2>1, <2>2, <2>3
<1>8. \A l \in Lines : /\ Arrived(order, l) \in Nat /\ Arrived(order', l) \in Nat
                       /\ Arrived(order, l) <= Arrived(order', l) /\ Arrived(order', l) <= order'.qty[l]
                       /\ Arrived(order, l) <= order.qty[l] /\ order.qty[l] \in Nat
  <2>1. \A l \in Lines : Arrived(order, l) \in Nat /\ Arrived(order', l) \in Nat /\ OnRoad(order', l) \in Nat
                           /\ order.qty[l] \in Nat
    BY <1>0, LoadByLoad, OrderTyped, QuantityTyped
  <2>2. \A l \in Lines : OnRoad(order', l) + Arrived(order', l) <= order'.qty[l]
    BY <1>1 DEF Kept, GoodsAndCashAddUp, NothingSentTwice
  <2>3. \A l \in Lines : Arrived(order, l) <= Arrived(order', l)
    BY <2>1, <1>5
  <2>4. \A l \in Lines : Arrived(order', l) <= order'.qty[l]
    <3>1. order'.qty = order.qty
      BY <1>1
    <3> QED
      BY <2>1, <2>2, <3>1
  <2>5. \A l \in Lines : Arrived(order, l) <= order.qty[l]
    BY <2>1, <2>3, <2>4, <1>1
  <2> QED
    BY <2>1, <2>3, <2>4, <2>5
<1>9. /\ Counted(order) \in Quantities /\ Worth(order) = OrderValue(Counted(order))
      /\ \A l \in Lines : Counted(order)[l] = Arrived(order, l)
  BY <1>0, <1>8, WorthOf
<1>10. /\ Counted(order') \in Quantities /\ Worth(order') = OrderValue(Counted(order'))
       /\ \A l \in Lines : Counted(order')[l] = Arrived(order', l)
  BY <1>0, <1>8, WorthOf
<1>11. Worth(order) <= Worth(order')
  BY <1>8, <1>9, <1>10, WorthMore
<1>12. Worth(order') <= OrderValue(Ordered)
  <2>1. \A l \in Lines : Counted(order')[l] <= Ordered[l]
    BY <1>1, <1>7, <1>8, <1>10
  <2> QED
    BY <2>1, <1>7, <1>10, WorthMore
<1>13. Derive(order') = "DELIVERED" => Worth(order') = OrderValue(Ordered)
  <2>1. ASSUME Derive(order') = "DELIVERED" PROVE OrderValue(Ordered) <= Worth(order')
    <3>1. \A l \in Lines : Arrived(order', l) >= order'.qty[l]
      BY <2>1, DeriveMeans
    <3>2. \A l \in Lines : Ordered[l] <= Counted(order')[l]
      BY <3>1, <1>1, <1>7, <1>8, <1>10
    <3> QED
      BY <3>2, <1>7, <1>10, WorthMore
  <2>2. Worth(order') \in Nat
    BY <1>0, WorthTyped
  <2> QED
    BY <2>1, <2>2, <1>12, <1>7
<1>14. Ledger(v) = Ledger(order) /\ Outstanding(v) = LargestOf(0, OrderValue(Ordered) - Ledger(order))
  <2>1. Ledger(v) = Ledger(order)
    BY <1>5, SameLoads
  <2> QED
    BY <2>1, <1>5, <1>7 DEF Outstanding
<1>15. Ledger(order) = Advance \/ Ledger(order) = LargestOf(Advance, Worth(order))
  <2>1. CASE In(order, "DELIVERED") = {}
    BY <2>1, <1>0, OnlyAdvance DEF Kept
  <2>2. CASE In(order, "DELIVERED") # {}
    BY <2>2 DEF PayAsItArrives
  <2> QED
    BY <2>1, <2>2
<1>16. cash = IF Derive(order') = "DELIVERED" THEN LargestOf(0, OrderValue(Ordered) - Ledger(order))
              ELSE SmallestOf(LargestOf(0, Worth(order') - Ledger(order)),
                              LargestOf(0, OrderValue(Ordered) - Ledger(order)))
  BY <1>5, <1>6, <1>14 DEF CashToCollect
<1>17. Worth(order) \in Nat /\ Worth(order') \in Nat /\ Ledger(order) \in Nat
  BY <1>0, WorthTyped, CashByLoad
<1>18. Ledger(order') = LargestOf(Advance, Worth(order'))
  <2>1. PICK wa \in Nat : wa = Worth(order)
    BY <1>17
  <2>2. PICK wb \in Nat : wb = Worth(order')
    BY <1>17
  <2>3. PICK led \in Nat : led = Ledger(order)
    BY <1>17
  <2>4. PICK all \in Nat : all = OrderValue(Ordered)
    BY <1>7
  <2>5. PICK whole \in BOOLEAN : whole <=> Derive(order') = "DELIVERED"
    OBVIOUS
  <2>6. wa <= wb /\ wb <= all /\ (whole => wb = all) /\ Advance <= all /\ Advance \in Nat
    BY <2>1, <2>2, <2>4, <2>5, <1>7, <1>11, <1>12, <1>13
  <2>7. led = Advance \/ led = LargestOf(Advance, wa)
    BY <2>1, <2>3, <1>15
  <2>8. cash = IF whole THEN LargestOf(0, all - led)
               ELSE SmallestOf(LargestOf(0, wb - led), LargestOf(0, all - led))
    BY <2>2, <2>3, <2>4, <2>5, <1>16
  <2>9. led + cash = LargestOf(Advance, wb)
    BY <2>6, <2>7, <2>8 DEF LargestOf, SmallestOf
  <2> QED
    BY <2>2, <2>3, <2>9, <1>5
<1> QED
  BY <1>18 DEF PayAsItArrives

\* A step that leaves what arrived, the lines and the ledger alone.
LEMMA SamePays ==
    ASSUME PayAsItArrives, In(order', "DELIVERED") = In(order, "DELIVERED"),
           \A l \in Lines : Arrived(order', l) = Arrived(order, l),
           order'.qty = order.qty, Ledger(order') = Ledger(order)
    PROVE  PayAsItArrives'
<1>1. Worth(order') = Worth(order)
  BY DEF Worth
<1> QED
  BY <1>1 DEF PayAsItArrives

\* Every step keeps what was paid what has arrived is worth.
LEMMA PayNext ==
    ASSUME PayInv, "deliver" \in Alone, "cancel" \in Alone, ~TypedCash, [Next]_vars
    PROVE  PayInv'
<1>0. /\ TypeOK /\ Kept /\ SnapshotsHold /\ CancelsSawItOpen /\ StatusInv /\ PayAsItArrives
      /\ order \in OrderRows
  BY DEF PayInv, StatusInv, GoodsInv, Kept, TypeOK
<1>1. StatusInv'
  BY <1>0, StatusNext
<1>2. TypeOK' /\ Kept' /\ order' \in OrderRows
  BY <1>1 DEF StatusInv, GoodsInv, Kept, TypeOK
<1>3. PayAsItArrives'
  <2>1. CASE order' = order
    BY <2>1, <1>0 DEF PayAsItArrives
  <2>2. CASE (\E w \in Staff : Relabel(w)) \/ SweepConfirms
    <3>1. order'.loads = order.loads /\ order'.qty = order.qty
      BY <2>2, <1>0, <1>2, MoveKeeps
    <3>2. /\ In(order', "DELIVERED") = In(order, "DELIVERED") /\ Ledger(order') = Ledger(order)
          /\ \A l \in Lines : Arrived(order', l) = Arrived(order, l)
      BY <3>1, SameLoads
    <3> QED
      BY <3>1, <3>2, <1>0, SamePays
  <2>3. ASSUME NEW w \in Staff, Send(w) PROVE PayAsItArrives'
    <3>1. PICK n \in Loads :
            /\ order.loads[n].st = "none" /\ order'.loads[n].st = "OUT_FOR_DELIVERY"
            /\ \A m \in Loads : m # n => order'.loads[m] = order.loads[m]
            /\ \A l \in Lines : Arrived(order', l) = Arrived(order, l)
            /\ order'.qty = order.qty
      BY <2>3, <1>0, <1>2, SendKeeps
    <3>2. In(order', "DELIVERED") = In(order, "DELIVERED")
      BY <3>1 DEF In
    <3>3. Ledger(order') = Ledger(order)
      <4>1. order'.paid = Ledger(order') /\ order.paid = Ledger(order)
        BY <1>0, <1>2 DEF Kept, GoodsAndCashAddUp, PaidIsTheLedger
      <4>2. order'.paid = order.paid
        BY <2>3, <1>0, Sent
      <4> QED
        BY <4>1, <4>2
    <3> QED
      BY <3>1, <3>2, <3>3, <1>0, SamePays
  <2>4. ASSUME NEW w \in Staff, Deliver(w) PROVE PayAsItArrives'
    BY <2>4, <1>0, <1>2, DeliverPays
  <2>5. ASSUME NEW w \in Staff, Recall(w) PROVE PayAsItArrives'
    <3>1. /\ order'.qty = order.qty /\ In(order', "DELIVERED") = In(order, "DELIVERED")
          /\ \A l \in Lines : Arrived(order', l) = Arrived(order, l)
          /\ Ledger(order') = Ledger(order)
      BY <2>5, <1>0, <1>2, RecallKeeps
    <3> QED
      BY <3>1, <1>0, SamePays
  <2>6. ASSUME NEW w \in Staff, CancelOrder(w) PROVE PayAsItArrives'
    <3>1. In(order', "DELIVERED") = {}
      BY <2>6, <1>0, <1>2, CancelKeeps
    <3> QED
      BY <3>1 DEF PayAsItArrives
  <2>7. ASSUME NEW w \in Staff, CloseShort(w) PROVE PayAsItArrives'
    <3>1. /\ order'.loads = order.loads /\ \A l \in Lines : order'.qty[l] = Arrived(order, l)
      BY <2>7, <1>0, <1>2, CloseKeeps
    <3>2. /\ In(order', "DELIVERED") = In(order, "DELIVERED") /\ Ledger(order') = Ledger(order)
          /\ \A l \in Lines : Arrived(order', l) = Arrived(order, l)
      BY <3>1, SameLoads
    <3>3. \A l \in Lines : /\ Arrived(order, l) \in Nat /\ order.qty[l] \in Nat /\ OnRoad(order, l) \in Nat
                           /\ OnRoad(order, l) + Arrived(order, l) <= order.qty[l]
      BY <1>0, Left DEF Kept, GoodsAndCashAddUp
    <3>4. \A l \in Lines : Arrived(order, l) <= order.qty[l]
      BY <3>3
    <3>5. \A l \in Lines : Arrived(order', l) <= order'.qty[l]
      BY <3>1, <3>2, <3>3
    <3>6. /\ Counted(order) \in Quantities /\ Worth(order) = OrderValue(Counted(order))
          /\ \A l \in Lines : Counted(order)[l] = Arrived(order, l)
      BY <1>0, <3>4, WorthOf
    <3>7. /\ Counted(order') \in Quantities /\ Worth(order') = OrderValue(Counted(order'))
          /\ \A l \in Lines : Counted(order')[l] = Arrived(order', l)
      BY <1>2, <3>5, WorthOf
    <3>8. Counted(order') = Counted(order)
      BY <3>2, <3>6, <3>7 DEF Counted
    <3>9. Worth(order') = Worth(order)
      BY <3>6, <3>7, <3>8
    <3> QED
      BY <3>2, <3>9, <1>0 DEF PayAsItArrives
  <2> QED
    BY <1>0, <2>1, <2>2, <2>3, <2>4, <2>5, <2>6, <2>7, Steps
<1> QED
  BY <1>1, <1>3 DEF PayInv

\* The status and what has been paid follow from what arrived, where no other
\* request commits while a delivery or a cancellation is being recorded, and loads
\* bring what their slips ask for.
THEOREM StatusAndPayFollow ==
    ASSUME {"deliver", "cancel"} \subseteq Alone, ~TypedCash
    PROVE  Spec => []OrderFollowsItsLoads
<1>1. Init => PayInv
  <2>1. ASSUME Init PROVE StatusInv /\ PayAsItArrives
    <3>1. StatusInv
      BY <2>1, StatusFirst
    <3>2. \A n \in Loads : order.loads[n].st = "none"
      BY <2>1 DEF Init, PlacedOrder, NoLoad
    <3>3. In(order, "DELIVERED") = {}
      BY <3>2 DEF In
    <3> QED
      BY <3>1, <3>3 DEF PayAsItArrives
  <2> QED
    BY <2>1 DEF PayInv
<1>2. "deliver" \in Alone /\ "cancel" \in Alone
  OBVIOUS
<1>3. PayInv /\ [Next]_vars => PayInv'
  BY <1>2, PayNext
<1>4. PayInv => OrderFollowsItsLoads
  BY DEF PayInv, StatusInv, OrderFollowsItsLoads
<1> QED
  BY <1>1, <1>3, <1>4, PTL DEF Spec

-----------------------------------------------------------------------------
(* What a fulfilment promises of the goods.                                *)

\* What is left to send is what is neither out nor there.
LEMMA LeftOf ==
    ASSUME NEW o \in OrderRows, \A l \in Lines : OnRoad(o, l) + Arrived(o, l) <= o.qty[l]
    PROVE  \A l \in Lines : /\ Remaining(o, l) \in Nat
                            /\ Remaining(o, l) + OnRoad(o, l) + Arrived(o, l) = o.qty[l]
                            /\ o.qty[l] \in Nat /\ OnRoad(o, l) \in Nat /\ Arrived(o, l) \in Nat
<1>1. \A l \in Lines : /\ o.qty[l] \in Nat /\ OnRoad(o, l) \in Nat /\ Arrived(o, l) \in Nat
                       /\ OnRoad(o, l) + Arrived(o, l) <= o.qty[l]
  BY LoadByLoad, OrderTyped, QuantityTyped
<1> QED
  BY <1>1 DEF Remaining, LargestOf

\* The state of the goods, as a promise sees it.
StoreOf(o) == [l \in Lines |-> IF o.status \in Terminal THEN 0 ELSE Remaining(o, l)]
OutOf(o)   == [l \in Lines |-> OnRoad(o, l)]
ThereOf(o) == [l \in Lines |-> Arrived(o, l)]
Ended(o)   == o.status \in Terminal

\* Where a sum of two stays and one of them does, the other does.
LEMMA CarriesOrNot ==
    ASSUME NEW s, NEW s2, NEW r, NEW r2, NEW t,
           s \in [Lines -> Nat], s2 \in [Lines -> Nat], r \in [Lines -> Nat], r2 \in [Lines -> Nat],
           \A l \in Lines : s2[l] + r2[l] = s[l] + r[l]
    PROVE  s2 # s \/ (s2 = s /\ r2 = r)
<1>1. ASSUME s2 = s PROVE r2 = r
  <2>1. \A l \in Lines : r2[l] = r[l]
    BY <1>1
  <2> QED
    BY <2>1
<1> QED
  BY <1>1

\* Goods between the store and the road, or a step that moves none.
LEMMA Carries ==
    ASSUME order \in OrderRows, order' \in OrderRows, NothingSentTwice, NothingSentTwice',
           ~Ended(order), ~Ended(order'), shelf' = shelf, order'.qty = order.qty,
           \A l \in Lines : Arrived(order', l) = Arrived(order, l)
    PROVE  [Goods!Next]_(Goods!vars)
<1>1. PICK s : s = StoreOf(order)
  OBVIOUS
<1>2. PICK s2 : s2 = StoreOf(order')
  OBVIOUS
<1>3. PICK r : r = OutOf(order)
  OBVIOUS
<1>4. PICK r2 : r2 = OutOf(order')
  OBVIOUS
<1>5. ThereOf(order') = ThereOf(order) /\ Ended(order') = Ended(order)
  BY DEF ThereOf, Ended
<1>6. \A l \in Lines : /\ s[l] \in Nat /\ r[l] \in Nat /\ s[l] = Remaining(order, l) /\ r[l] = OnRoad(order, l)
                       /\ s2[l] \in Nat /\ r2[l] \in Nat /\ s2[l] = Remaining(order', l) /\ r2[l] = OnRoad(order', l)
                       /\ s2[l] + r2[l] = s[l] + r[l]
  <2>1. \A l \in Lines : /\ Remaining(order, l) \in Nat /\ order.qty[l] \in Nat
                         /\ OnRoad(order, l) \in Nat /\ Arrived(order, l) \in Nat
                         /\ Remaining(order, l) + OnRoad(order, l) + Arrived(order, l) = order.qty[l]
    BY LeftOf DEF NothingSentTwice
  <2>2. \A l \in Lines : /\ Remaining(order', l) \in Nat /\ OnRoad(order', l) \in Nat
                         /\ Remaining(order', l) + OnRoad(order', l) + Arrived(order', l) = order'.qty[l]
    BY LeftOf DEF NothingSentTwice
  <2>3. \A l \in Lines : /\ s[l] = Remaining(order, l) /\ r[l] = OnRoad(order, l)
                         /\ s2[l] = Remaining(order', l) /\ r2[l] = OnRoad(order', l)
    BY <1>1, <1>2, <1>3, <1>4 DEF StoreOf, OutOf, Ended
  <2>4. \A l \in Lines : Remaining(order', l) + OnRoad(order', l) = Remaining(order, l) + OnRoad(order, l)
    BY <2>1, <2>2
  <2> QED
    BY <2>1, <2>2, <2>3, <2>4
<1>7. s \in [Lines -> Nat] /\ s2 \in [Lines -> Nat] /\ r \in [Lines -> Nat] /\ r2 \in [Lines -> Nat]
  BY <1>1, <1>2, <1>3, <1>4, <1>6 DEF StoreOf, OutOf
<1>8. s2 # s \/ (s2 = s /\ r2 = r)
  <2>1. \A l \in Lines : s2[l] + r2[l] = s[l] + r[l]
    BY <1>6
  <2> QED
    BY <2>1, <1>7, CarriesOrNot
<1>9. CASE s2 # s
  <2>1. \A l \in Lines : s2[l] >= 0 /\ r2[l] >= 0 /\ s2[l] + r2[l] = s[l] + r[l]
    BY <1>6
  <2>2. /\ ~Ended(order) /\ StoreOf(order') # StoreOf(order)
        /\ \A l \in Lines : /\ StoreOf(order')[l] >= 0 /\ OutOf(order')[l] >= 0
                            /\ StoreOf(order')[l] + OutOf(order')[l] = StoreOf(order)[l] + OutOf(order)[l]
        /\ ThereOf(order') = ThereOf(order) /\ shelf' = shelf /\ Ended(order') = Ended(order)
    BY <2>1, <1>1, <1>2, <1>3, <1>4, <1>5, <1>9
  <2>3. Goods!Carry
    BY <2>2 DEF Goods!Carry, StoreOf, OutOf, ThereOf, Ended
  <2> QED
    BY <2>3 DEF Goods!Next
<1>10. CASE s2 = s /\ r2 = r
  <2>1. /\ StoreOf(order') = StoreOf(order) /\ OutOf(order') = OutOf(order)
        /\ ThereOf(order') = ThereOf(order) /\ shelf' = shelf /\ Ended(order') = Ended(order)
    BY <1>1, <1>2, <1>3, <1>4, <1>5, <1>10
  <2>2. UNCHANGED Goods!vars
    BY <2>1 DEF Goods!vars, StoreOf, OutOf, ThereOf, Ended
  <2> QED
    BY <2>2
<1> QED
  BY <1>8, <1>9, <1>10

\* The order ends, with what arrived.
LEMMA Ends ==
    ASSUME order \in OrderRows, order' \in OrderRows, ~Ended(order), Ended(order'),
           \A l \in Lines : OnRoad(order', l) = 0 /\ Arrived(order', l) = Arrived(order, l),
           \/ shelf' = shelf
           \/ shelf' = [l \in Lines |-> StoreOf(order)[l] + OutOf(order)[l]]
    PROVE  [Goods!Next]_(Goods!vars)
<1>1. StoreOf(order') = [l \in Lines |-> 0] /\ OutOf(order') = [l \in Lines |-> 0]
        /\ ThereOf(order') = ThereOf(order)
  BY DEF StoreOf, OutOf, ThereOf, Ended
<1>2. PICK back : back = [l \in Lines |-> StoreOf(order)[l] + OutOf(order)[l]]
  OBVIOUS
<1>3. back = [l \in Lines |-> (IF order.status \in Terminal THEN 0 ELSE Remaining(order, l)) + OnRoad(order, l)]
  BY <1>2 DEF StoreOf, OutOf
<1>4. Goods!End
  <2>1. ~Ended(order) /\ Ended(order') = TRUE
    OBVIOUS
  <2>2. shelf' = shelf \/ shelf' = back
    BY <1>2
  <2>3. Goods!Nothing = [l \in Lines |-> 0]
    BY DEF Goods!Nothing
  <2> QED
    BY <1>1, <1>2, <2>1, <2>2, <2>3 DEF Goods!End, StoreOf, OutOf, ThereOf, Ended
<1> QED
  BY <1>4 DEF Goods!Next

\* A load comes in.
LEMMA ComesIn ==
    ASSUME GoodsInv, GoodsInv', NEW w \in Staff, Deliver(w)
    PROVE  [Goods!Next]_(Goods!vars)
<1>0. /\ TypeOK /\ TypeOK' /\ Kept /\ Kept' /\ SnapshotsHold /\ order \in OrderRows /\ order' \in OrderRows
      /\ shelf' = shelf
  BY DEF GoodsInv, Kept, TypeOK, Deliver
<1>1. /\ order'.status = Derive(order') /\ order.status = "OUT_FOR_DELIVERY" /\ order'.qty = order.qty
  BY <1>0, DeliverKeeps
<1>2. PICK n \in Loads, got \in Quantities :
        /\ order.loads[n].st = "OUT_FOR_DELIVERY"
        /\ \A l \in Lines : /\ OnRoad(order', l) = OnRoad(order, l) - order.loads[n].sent[l]
                            /\ Arrived(order', l) = Arrived(order, l) + got[l]
                            /\ got[l] \in Nat /\ got[l] <= order.loads[n].sent[l]
  BY <1>0, DeliverKeeps
<1>3. order.qty = Ordered /\ ~Ended(order) /\ \A l \in Lines : Ordered[l] \in Nat /\ Ordered[l] > 0
  BY <1>0, <1>1, FulfilmentAssumption DEF Kept, OpenAsPlaced, Terminal, Ended
<1>4. \A l \in Lines : /\ Remaining(order, l) \in Nat /\ OnRoad(order, l) \in Nat /\ Arrived(order, l) \in Nat
                       /\ Remaining(order, l) + OnRoad(order, l) + Arrived(order, l) = Ordered[l]
  BY <1>0, <1>3, LeftOf DEF Kept, GoodsAndCashAddUp, NothingSentTwice
<1>5. \A l \in Lines : /\ Remaining(order', l) \in Nat /\ OnRoad(order', l) \in Nat /\ Arrived(order', l) \in Nat
                       /\ Remaining(order', l) + OnRoad(order', l) + Arrived(order', l) = Ordered[l]
  <2>1. order'.qty = Ordered
    BY <1>1, <1>3
  <2> QED
    BY <1>0, <2>1, LeftOf DEF Kept, GoodsAndCashAddUp, NothingSentTwice
<1>6. Ended(order') <=> \A l \in Lines : Arrived(order', l) = Ordered[l]
  <2>1. ASSUME Ended(order') PROVE \A l \in Lines : Arrived(order', l) = Ordered[l]
    <3>1. Derive(order') = "DELIVERED"
      BY <2>1, <1>1, DeriveTyped DEF Ended, Terminal
    <3>2. \A l \in Lines : Arrived(order', l) >= Ordered[l]
      BY <3>1, <1>1, <1>3, DeriveMeans
    <3> QED
      BY <3>2, <1>3, <1>5
  <2>2. ASSUME \A l \in Lines : Arrived(order', l) = Ordered[l] PROVE Ended(order')
    <3>1. \A l \in Lines : OnRoad(order', l) = 0
      BY <2>2, <1>3, <1>5
    <3>2. In(order', "OUT_FOR_DELIVERY") = {}
      <4>1. ASSUME NEW m \in In(order', "OUT_FOR_DELIVERY") PROVE FALSE
        <5>1. PICK l \in Lines : order'.loads[m].sent[l] > 0
          BY <1>0 DEF Kept, RoadIsMarked
        <5>2. order'.loads[m].sent[l] <= OnRoad(order', l) /\ order'.loads[m].sent[l] \in Nat
          BY <1>0, OneOnRoad, LoadTyped DEF In
        <5> QED
          BY <5>1, <5>2, <3>1
      <4> QED
        BY <4>1
    <3>3. ~(\A l \in Lines : Arrived(order', l) = 0)
      BY <2>2, <1>3, FulfilmentAssumption
    <3>4. \A l \in Lines : Arrived(order', l) >= order'.qty[l]
      BY <2>2, <1>1, <1>3
    <3>5. Derive(order') = "DELIVERED"
      BY <3>2, <3>3, <3>4, DeriveMeans
    <3> QED
      BY <3>5, <1>1 DEF Ended, Terminal
  <2> QED
    BY <2>1, <2>2
<1>7. ASSUME NEW l \in Lines
      PROVE  /\ OutOf(order')[l] \in 0 .. OutOf(order)[l]
             /\ ThereOf(order')[l] - ThereOf(order)[l] \in 0 .. (OutOf(order)[l] - OutOf(order')[l])
             /\ StoreOf(order')[l] + OutOf(order')[l] + ThereOf(order')[l]
                  = StoreOf(order)[l] + OutOf(order)[l] + ThereOf(order)[l]
  <2>1. order.loads[n].sent[l] \in Nat
    BY <1>0, LoadTyped
  <2>2. /\ OutOf(order')[l] = OnRoad(order', l) /\ OutOf(order)[l] = OnRoad(order, l)
        /\ ThereOf(order')[l] = Arrived(order', l) /\ ThereOf(order)[l] = Arrived(order, l)
        /\ StoreOf(order)[l] = Remaining(order, l)
    BY <1>3 DEF OutOf, ThereOf, StoreOf, Ended
  <2>3. StoreOf(order')[l] = Remaining(order', l)
    <3>1. CASE Ended(order')
      <4>1. Arrived(order', l) = Ordered[l]
        BY <3>1, <1>6
      <4>2. Remaining(order', l) = 0
        BY <4>1, <1>3, <1>5
      <4> QED
        BY <4>2, <3>1 DEF StoreOf, Ended
    <3>2. CASE ~Ended(order')
      BY <3>2 DEF StoreOf, Ended
    <3> QED
      BY <3>1, <3>2
  <2> QED
    BY <2>1, <2>2, <2>3, <1>2, <1>4, <1>5
<1>8. OutOf(order') # OutOf(order)
  <2>1. PICK l \in Lines : order.loads[n].sent[l] > 0
    BY <1>0, <1>2 DEF Kept, RoadIsMarked, In
  <2>2. order.loads[n].sent[l] \in Nat
    BY <1>0, LoadTyped
  <2>3. OnRoad(order', l) # OnRoad(order, l)
    BY <2>1, <2>2, <1>2, <1>4
  <2> QED
    BY <2>3 DEF OutOf
<1>9. Ended(order') = \A l \in Lines : ThereOf(order')[l] = Ordered[l]
  <2>1. (\A l \in Lines : Arrived(order', l) = Ordered[l]) <=> \A l \in Lines : ThereOf(order')[l] = Ordered[l]
    BY DEF ThereOf
  <2>2. Ended(order') \in BOOLEAN
    BY DEF Ended
  <2> QED
    BY <1>6, <2>1, <2>2
<1>10. Goods!HandOver
  BY <1>0, <1>3, <1>7, <1>8, <1>9 DEF Goods!HandOver, StoreOf, OutOf, ThereOf, Ended
<1> QED
  BY <1>10 DEF Goods!Next

\* Every step is one of the promise, or one that moves no goods.
LEMMA GoodsStep ==
    ASSUME GoodsInv, GoodsInv', [Next]_vars
    PROVE  [Goods!Next]_(Goods!vars)
<1>0. /\ TypeOK /\ TypeOK' /\ Kept /\ Kept' /\ SnapshotsHold /\ CancelsSawItOpen
      /\ order \in OrderRows /\ order' \in OrderRows /\ NothingSentTwice /\ NothingSentTwice'
  BY DEF GoodsInv, Kept, TypeOK, GoodsAndCashAddUp
<1>1. CASE order' = order /\ shelf' = shelf
  BY <1>1 DEF Goods!vars
<1>2. CASE (\E w \in Staff : Relabel(w)) \/ SweepConfirms
  <2>1. order'.loads = order.loads /\ order'.qty = order.qty
    BY <1>2, <1>0, MoveKeeps
  <2>2. ~Ended(order) /\ ~Ended(order') /\ shelf' = shelf
    BY <1>2, <1>0, Moved DEF Ended, Terminal
  <2>3. \A l \in Lines : Arrived(order', l) = Arrived(order, l)
    BY <2>1, SameLoads
  <2> QED
    BY <2>1, <2>2, <2>3, <1>0, Carries
<1>3. ASSUME NEW w \in Staff, Send(w) PROVE [Goods!Next]_(Goods!vars)
  <2>1. /\ \A l \in Lines : Arrived(order', l) = Arrived(order, l)
        /\ order'.status = "OUT_FOR_DELIVERY" /\ order.status \in Sendable
        /\ order'.qty = order.qty
    BY <1>3, <1>0, SendKeeps
  <2>2. ~Ended(order) /\ ~Ended(order') /\ shelf' = shelf
    BY <2>1, <1>3 DEF Ended, Terminal, Sendable, Send
  <2> QED
    BY <2>1, <2>2, <1>0, Carries
<1>4. ASSUME NEW w \in Staff, Deliver(w) PROVE [Goods!Next]_(Goods!vars)
  BY <1>4, ComesIn
<1>5. ASSUME NEW w \in Staff, Recall(w) PROVE [Goods!Next]_(Goods!vars)
  <2>1. /\ order'.status = Derive(order') /\ order.status = "OUT_FOR_DELIVERY"
        /\ In(order, "OUT_FOR_DELIVERY") # {}
        /\ order'.qty = order.qty
        /\ \A l \in Lines : Arrived(order', l) = Arrived(order, l)
    BY <1>5, <1>0, RecallKeeps
  <2>2. Derive(order') # "DELIVERED"
    <3>1. PICK n \in In(order, "OUT_FOR_DELIVERY") : TRUE
      BY <2>1
    <3>2. PICK l \in Lines : order.loads[n].sent[l] > 0
      BY <1>0, <3>1 DEF Kept, RoadIsMarked
    <3>3. order.loads[n].sent[l] <= OnRoad(order, l) /\ order.loads[n].sent[l] \in Nat
      BY <1>0, <3>1, OneOnRoad, LoadTyped DEF In
    <3>4. /\ OnRoad(order, l) \in Nat /\ Arrived(order, l) \in Nat /\ order.qty[l] \in Nat
          /\ OnRoad(order, l) + Arrived(order, l) <= order.qty[l]
      BY <1>0, Left
    <3>5. ~(Arrived(order', l) >= order'.qty[l])
      BY <3>2, <3>3, <3>4, <2>1
    <3> QED
      BY <3>5, DeriveMeans
  <2>3. ~Ended(order) /\ ~Ended(order') /\ shelf' = shelf
    BY <2>1, <2>2, <1>5, DeriveTyped DEF Ended, Terminal, Recall
  <2> QED
    BY <2>1, <2>3, <1>0, Carries
<1>6. ASSUME NEW w \in Staff, CancelOrder(w) PROVE [Goods!Next]_(Goods!vars)
  <2>1. /\ order'.status = IF order.status = req[w].view.status THEN "CANCELLED" ELSE order.status
        /\ order.status = req[w].view.status => order.status \notin Terminal
        /\ In(order', "OUT_FOR_DELIVERY") = {} /\ In(order', "DELIVERED") = {}
        /\ In(order, "DELIVERED") = {} /\ order'.qty = order.qty
        /\ In(order, "OUT_FOR_DELIVERY") = {} => \A n \in Loads : order'.loads[n] = order.loads[n]
    BY <1>6, <1>0, CancelKeeps
  <2>2. \A l \in Lines : OnRoad(order', l) = 0 /\ Arrived(order', l) = 0 /\ Arrived(order, l) = 0
    BY <2>1, <1>0, NoneIn
  <2>3. \/ shelf' = shelf
        \/ order.status = req[w].view.status /\ BackOnShelf(req[w].view.qty)
    BY <1>6, <1>0, Cancelled
  <2>4. CASE order.status = req[w].view.status
    <3>1. ~Ended(order) /\ Ended(order')
      BY <2>1, <2>4 DEF Ended, Terminal
    <3>2. ASSUME BackOnShelf(req[w].view.qty)
          PROVE  shelf' = [l \in Lines |-> StoreOf(order)[l] + OutOf(order)[l]]
      <4>1. req[w].view.qty = Ordered /\ order.qty = Ordered /\ \A l \in Lines : shelf[l] = 0 /\ Ordered[l] \in Nat
        <5>1. req[w].kind = "cancel"
          BY <1>6 DEF CancelOrder, Commit
        <5> QED
          BY <5>1, <1>0, <3>1, OpenShelf, FulfilmentAssumption DEF CancelsSawItOpen, Kept, OpenAsPlaced, Ended
      <4>2. \A l \in Lines : shelf[l] + req[w].view.qty[l] = Ordered[l]
        BY <4>1
      <4>3. \A l \in Lines : StoreOf(order)[l] + OutOf(order)[l] = Ordered[l]
        <5>1. \A l \in Lines : StoreOf(order)[l] = Remaining(order, l) /\ OutOf(order)[l] = OnRoad(order, l)
          BY <3>1 DEF StoreOf, OutOf, Ended
        <5>2. \A l \in Lines : /\ Remaining(order, l) = order.qty[l] - OnRoad(order, l) - Arrived(order, l)
                               /\ OnRoad(order, l) \in Nat
          BY <1>0, Left
        <5> QED
          BY <5>1, <5>2, <2>2, <4>1
      <4> QED
        BY <3>2, <4>2, <4>3 DEF BackOnShelf
    <3>3. \A l \in Lines : OnRoad(order', l) = 0 /\ Arrived(order', l) = Arrived(order, l)
      BY <2>2
    <3> QED
      BY <3>1, <3>2, <3>3, <2>3, <1>0, Ends
  <2>5. CASE order.status # req[w].view.status /\ ~Ended(order)
    <3>1. ~Ended(order') /\ shelf' = shelf
      BY <2>1, <2>3, <2>5 DEF Ended
    <3> QED
      BY <3>1, <2>1, <2>2, <2>5, <1>0, Carries
  <2>6. CASE order.status # req[w].view.status /\ Ended(order)
    <3>1. Ended(order') /\ shelf' = shelf
      BY <2>1, <2>3, <2>6 DEF Ended
    <3>2. In(order, "OUT_FOR_DELIVERY") = {}
      BY <2>6, <1>0 DEF Kept, RoadIsMarked, Ended, Terminal
    <3>3. \A l \in Lines : OnRoad(order, l) = 0
      BY <3>2, <1>0, NoneIn
    <3>4. /\ StoreOf(order') = StoreOf(order) /\ OutOf(order') = OutOf(order)
          /\ ThereOf(order') = ThereOf(order) /\ Ended(order') = Ended(order)
      BY <3>1, <3>3, <2>2, <2>6 DEF StoreOf, OutOf, ThereOf, Ended
    <3> QED
      BY <3>1, <3>4 DEF Goods!vars, StoreOf, OutOf, ThereOf, Ended
  <2> QED
    BY <2>4, <2>5, <2>6
<1>7. ASSUME NEW w \in Staff, CloseShort(w) PROVE [Goods!Next]_(Goods!vars)
  <2>1. /\ order.status = "PARTIALLY_DELIVERED" /\ order'.status = "DELIVERED"
        /\ order'.loads = order.loads /\ In(order, "OUT_FOR_DELIVERY") = {}
    BY <1>7, <1>0, CloseKeeps
  <2>2. \A l \in Lines : OnRoad(order, l) = 0 /\ OnRoad(order', l) = 0 /\ Arrived(order', l) = Arrived(order, l)
    BY <2>1, <1>0, NoneIn, SameLoads
  <2>3. ~Ended(order) /\ Ended(order')
    BY <2>1 DEF Ended, Terminal
  <2>4. PICK left : left = [l \in Lines |-> LargestOf(0, order.qty[l] - Arrived(order, l))]
    OBVIOUS
  <2>5. shelf' = shelf \/ BackOnShelf(left)
    BY <2>4, <1>7, <1>0, ClosedShort
  <2>6. ASSUME BackOnShelf(left) PROVE shelf' = [l \in Lines |-> StoreOf(order)[l] + OutOf(order)[l]]
    <3>1. \A l \in Lines : shelf[l] = 0
      BY <2>3, <1>0, OpenShelf DEF Kept, Ended
    <3>2. \A l \in Lines : /\ Remaining(order, l) = order.qty[l] - OnRoad(order, l) - Arrived(order, l)
                           /\ order.qty[l] \in Nat /\ OnRoad(order, l) \in Nat /\ Arrived(order, l) \in Nat
                           /\ OnRoad(order, l) + Arrived(order, l) <= order.qty[l]
      BY <1>0, Left
    <3>3. \A l \in Lines : StoreOf(order)[l] = Remaining(order, l) /\ OutOf(order)[l] = OnRoad(order, l)
      BY <2>3 DEF StoreOf, OutOf, Ended
    <3>4. \A l \in Lines : left[l] = order.qty[l] - Arrived(order, l)
      BY <3>2, <2>4 DEF LargestOf
    <3>5. \A l \in Lines : shelf[l] + left[l] = StoreOf(order)[l] + OutOf(order)[l]
      BY <3>1, <3>2, <3>3, <3>4, <2>2
    <3> QED
      BY <3>5, <2>6 DEF BackOnShelf
  <2>7. \A l \in Lines : OnRoad(order', l) = 0 /\ Arrived(order', l) = Arrived(order, l)
    BY <2>2
  <2> QED
    BY <2>3, <2>5, <2>6, <2>7, <1>0, Ends
<1> QED
  BY <1>0, <1>1, <1>2, <1>3, <1>4, <1>5, <1>6, <1>7, Steps

\* A promise starts where an order does.
LEMMA GoodsInit == Init => Goods!Init
<1> SUFFICES ASSUME Init PROVE Goods!Init
  OBVIOUS
<1>1. GoodsInv
  BY GoodsFirst
<1>2. PICK auto \in BOOLEAN : order = PlacedOrder(auto)
  BY DEF Init
<1>3. /\ order \in OrderRows /\ order.status = "PLACED" /\ order.qty = Ordered
      /\ \A n \in Loads : order.loads[n].st = "none"
  BY <1>2, PlacedTyped DEF PlacedOrder, NoLoad
<1>4. In(order, "OUT_FOR_DELIVERY") = {} /\ In(order, "DELIVERED") = {}
  BY <1>3 DEF In
<1>5. \A l \in Lines : OnRoad(order, l) = 0 /\ Arrived(order, l) = 0
  BY <1>3, <1>4, NoneIn
<1>6. \A l \in Lines : Remaining(order, l) = Ordered[l]
  <2>1. \A l \in Lines : Ordered[l] \in Nat
    BY FulfilmentAssumption
  <2> QED
    BY <2>1, <1>3, <1>5 DEF Remaining, LargestOf
<1>7. StoreOf(order) = Ordered
  <2>1. \A l \in Lines : StoreOf(order)[l] = Ordered[l]
    BY <1>3, <1>6 DEF StoreOf, Terminal
  <2>2. Ordered \in [Lines -> Nat \ {0}]
    BY FulfilmentAssumption
  <2> QED
    BY <2>1, <2>2 DEF StoreOf
<1>8. OutOf(order) = NoUnits /\ ThereOf(order) = NoUnits /\ shelf = NoUnits /\ Ended(order) = FALSE
  BY <1>3, <1>5 DEF OutOf, ThereOf, NoUnits, Ended, Terminal, Init
<1>9. Goods!Nothing = NoUnits
  BY DEF Goods!Nothing, NoUnits
<1> QED
  BY <1>7, <1>8, <1>9 DEF Goods!Init, StoreOf, OutOf, ThereOf, Ended

\* The program keeps what a fulfilment promises of the goods, where no other
\* request commits while a delivery is being recorded.
THEOREM GoodsRefinement ==
    ASSUME "deliver" \in Alone
    PROVE  Spec => ImplementsGoods
<1>1. Init => GoodsInv /\ Goods!Init
  BY GoodsFirst, GoodsInit
<1>2. GoodsInv /\ [Next]_vars => GoodsInv'
  BY GoodsNext
<1>3. GoodsInv /\ GoodsInv' /\ [Next]_vars => [Goods!Next]_(Goods!vars)
  BY GoodsStep
<1> QED
  BY <1>1, <1>2, <1>3, PTL DEF Spec, ImplementsGoods, Goods!Spec

\* A delivered or a cancelled order stays what it is, under the same assumption.
THEOREM EndedForGood ==
    ASSUME "deliver" \in Alone
    PROVE  Spec => TerminalIsFinal
<1>1. Init => GoodsInv
  BY GoodsFirst
<1>2. GoodsInv /\ [Next]_vars => GoodsInv'
  BY GoodsNext
<1>3. ASSUME GoodsInv, GoodsInv', [Next]_vars, order.status \in Terminal
      PROVE  order' = order
  <2>0. /\ TypeOK /\ TypeOK' /\ Kept /\ SnapshotsHold /\ CancelsSawItOpen
        /\ order \in OrderRows /\ order' \in OrderRows
    BY <1>3 DEF GoodsInv, Kept, TypeOK
  <2>1. ASSUME (\E w \in Staff : Relabel(w)) \/ SweepConfirms PROVE FALSE
    BY <2>1, <2>0, <1>3, Moved DEF Terminal
  <2>2. ASSUME NEW w \in Staff, Send(w) PROVE FALSE
    <3>1. order.status \in Sendable
      BY <2>2, <2>0, Sent
    <3> QED
      BY <3>1, <1>3 DEF Sendable, Terminal
  <2>3. ASSUME NEW w \in Staff, Deliver(w) PROVE FALSE
    <3>1. order.status = "OUT_FOR_DELIVERY"
      BY <2>3, <2>0, DeliverKeeps
    <3> QED
      BY <3>1, <1>3 DEF Terminal
  <2>4. ASSUME NEW w \in Staff, Recall(w) PROVE FALSE
    <3>1. order.status = "OUT_FOR_DELIVERY"
      BY <2>4, <2>0, RecallKeeps
    <3> QED
      BY <3>1, <1>3 DEF Terminal
  <2>5. ASSUME NEW w \in Staff, CloseShort(w) PROVE FALSE
    <3>1. order.status = "PARTIALLY_DELIVERED"
      BY <2>5, <2>0, CloseKeeps
    <3> QED
      BY <3>1, <1>3 DEF Terminal
  <2>6. ASSUME NEW w \in Staff, CancelOrder(w) PROVE order' = order
    <3>1. /\ order'.status = IF order.status = req[w].view.status THEN "CANCELLED" ELSE order.status
          /\ order'.qty = order.qty /\ order'.grand = order.grand
          /\ order'.paid = order.paid /\ order'.auto = order.auto
      BY <2>6, <2>0, Cancelled
    <3>2. /\ order.status # req[w].view.status
          /\ In(order, "OUT_FOR_DELIVERY") = {} => \A n \in Loads : order'.loads[n] = order.loads[n]
      BY <2>6, <2>0, <1>3, CancelKeeps
    <3>3. In(order, "OUT_FOR_DELIVERY") = {}
      BY <2>0, <1>3 DEF Kept, RoadIsMarked, Terminal
    <3>4. order'.loads \in [Loads -> LoadRows] /\ order.loads \in [Loads -> LoadRows]
      BY <2>0, OrderTyped
    <3>5. order'.loads = order.loads
      BY <3>2, <3>3, <3>4
    <3>6. order'.status = order.status
      BY <3>1, <3>2
    <3> QED
      BY <3>1, <3>5, <3>6, <2>0, SameOrder
  <2> QED
    BY <1>3, <2>0, <2>1, <2>2, <2>3, <2>4, <2>5, <2>6, Steps
<1>4. GoodsInv /\ GoodsInv' /\ [Next]_vars => [order.status \in Terminal => order' = order]_order
  BY <1>3
<1> QED
  BY <1>1, <1>2, <1>4, PTL DEF Spec, TerminalIsFinal
===============================================================================
