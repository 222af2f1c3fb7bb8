-------------------------------- MODULE Placing --------------------------------
(***************************************************************************)
(* What placing an order claims, and what contends for it: the shelf       *)
(* (createOrder, cancelOrder, adjustStock, and the save of a product), the *)
(* order number (allocateOrderNumber, updateOrderNumberFormat), and the    *)
(* customer's lifetime figures (refreshCustomerTotals).                    *)
(*                                                                         *)
(* A clerk is one call at work.  What it reads before its transaction is   *)
(* one step, the first read of the transaction another (from then on its   *)
(* plain reads see that snapshot: the isolation level is the database's    *)
(* default, REPEATABLE READ), the locked claim of the number a third, the  *)
(* commit a fourth.  Conditional updates see what is committed.            *)
(***************************************************************************)
EXTENDS Integers, FiniteSets, FiniteSetsExt

CONSTANTS
    Bookings,      \* orders that may be placed, each of one line
    Goods,         \* variants
    Untracked,     \* those whose stock is not counted (inventoryTracked)
    MadeToOrder,   \* those that may be sold beyond the shelf (CONTINUE)
    Clerks,        \* calls at work
    OpeningStock,  \* what the shelf held when its trail began
    MostUnits,     \* bound: units of one line, and of one hand adjustment
    Styles,        \* formats an order number may be given
    SaveOverlap,   \* may another call commit inside a product save's transaction?
    MaxByHand      \* bound: hand adjustments, saves and changes of format, in all

ASSUME PlacingAssumption ==
    /\ IsFiniteSet(Bookings)
    /\ IsFiniteSet(Clerks) /\ Clerks # {}
    /\ Untracked \subseteq Goods
    /\ MadeToOrder \subseteq Goods
    /\ OpeningStock \in Nat
    /\ MostUnits \in Nat \ {0}
    /\ SaveOverlap \in BOOLEAN
    /\ MaxByHand \in Nat

VARIABLES
    shelf,      \* stockQty of each variant
    byHand,     \* the sum of its MANUAL InventoryAdjustment rows
    booking,    \* each order: its status, number, line, and the sum of its adjustments
    numbering,  \* the order.numberSequence setting: format and next number
    lifetime,   \* the customer's totalOrders
    behind,     \* were those last counted on a snapshot older than the orders?
    clerk,      \* what each call is doing
    handWork    \* calls made by hand so far

placingVars == <<shelf, byHand, booking, numbering, lifetime, behind, clerk, handWork>>

BookingStatuses == {"none", "live", "cancelled"}

ClerkSteps == {"idle", "checked", "open", "claimed", "cancelling", "adjusting", "saving", "formatting"}

LiveBookings == {o \in Bookings : booking[o].status = "live"}

\* What a clerk holds: the order or variant it is about, the units, and what
\* it read (the number setting, the live orders, the count).
IdleClerk == [at |-> "idle", order |-> "none", good |-> "none", units |-> 0,
              numbered |-> <<"none", 0>>, live |-> {}, count |-> 0]

PlacingInit ==
    /\ shelf = [g \in Goods |-> OpeningStock]
    /\ byHand = [g \in Goods |-> 0]
    /\ booking = [o \in Bookings |->
          [status |-> "none", number |-> <<"none", 0>>, good |-> "none", units |-> 0, moved |-> 0]]
    /\ numbering \in Styles \X {1}
    /\ lifetime = 0
    /\ behind = FALSE
    /\ clerk = [c \in Clerks |-> IdleClerk]
    /\ handWork = 0

ByHand == handWork < MaxByHand /\ handWork' = handWork + 1

\* The row lock of the number setting, from the claim to the commit.
NumberLocked == \E c \in Clerks : clerk[c].at = "claimed"

\* A product save under way, where nothing else may commit beside it.
SaveUndisturbed == SaveOverlap \/ \A c \in Clerks : clerk[c].at # "saving"

-----------------------------------------------------------------------------
(* createOrder.                                                            *)

CanFulfil(g, units) == g \in Untracked \/ g \in MadeToOrder \/ shelf[g] >= units

\* Read, and found to be on the shelf, before the transaction.
CheckStock(c, o, g, units) ==
    /\ clerk[c] = IdleClerk
    /\ booking[o].status = "none"
    /\ \A other \in Clerks : clerk[other].order # o
    /\ CanFulfil(g, units)
    /\ clerk' = [clerk EXCEPT ![c] = [IdleClerk EXCEPT !.at = "checked", !.order = o,
                                                       !.good = g, !.units = units]]
    /\ UNCHANGED <<shelf, byHand, booking, numbering, lifetime, behind, handWork>>

\* The first read of the transaction fixes what all its later ones see.
OpenOrder(c) ==
    /\ clerk[c].at = "checked"
    /\ clerk' = [clerk EXCEPT ![c].at = "open", ![c].numbered = numbering, ![c].live = LiveBookings]
    /\ UNCHANGED <<shelf, byHand, booking, numbering, lifetime, behind, handWork>>

\* The compare-and-swap fails, and every further attempt re-reads the snapshot.
NumberMoved(c) == clerk[c].numbered # numbering

ClaimNumber(c) ==
    /\ clerk[c].at = "open"
    /\ ~ NumberLocked
    /\ clerk' = [clerk EXCEPT ![c] = IF NumberMoved(c) THEN IdleClerk ELSE [@ EXCEPT !.at = "claimed"]]
    /\ UNCHANGED <<shelf, byHand, booking, numbering, lifetime, behind, handWork>>

\* refreshCustomerTotals: the orders are counted again, in the snapshot the
\* transaction reads plus what it wrote itself.
RefreshTotals(c, live) ==
    /\ lifetime' = Cardinality(live)
    /\ behind' = (clerk[c].live # LiveBookings)

CommitOrder(c) ==
    /\ clerk[c].at = "claimed"
    /\ SaveUndisturbed
    /\ LET o == clerk[c].order
           g == clerk[c].good
           taken == IF g \in Untracked THEN 0 ELSE clerk[c].units
       IN  /\ numbering' = <<clerk[c].numbered[1], clerk[c].numbered[2] + 1>>
           /\ booking' = [booking EXCEPT ![o] = [status |-> "live", number |-> clerk[c].numbered, good |-> g,
                                                 units |-> clerk[c].units, moved |-> -taken]]
           /\ shelf' = [shelf EXCEPT ![g] = @ - taken]
           /\ RefreshTotals(c, clerk[c].live \cup {o})
    /\ clerk' = [clerk EXCEPT ![c] = IdleClerk]
    /\ UNCHANGED <<byHand, handWork>>

\* A blocked customer, a total or a balance that changed, a process that dies:
\* the transaction leaves nothing behind.
AbandonOrder(c) ==
    /\ clerk[c].at \in {"checked", "open", "claimed"}
    /\ clerk' = [clerk EXCEPT ![c] = IdleClerk]
    /\ UNCHANGED <<shelf, byHand, booking, numbering, lifetime, behind, handWork>>

-----------------------------------------------------------------------------
(* cancelOrder.                                                            *)

\* A cancelled order may be on somebody's screen as live still.
OpenCancel(c, o) ==
    /\ clerk[c] = IdleClerk
    /\ booking[o].status # "none"
    /\ clerk' = [clerk EXCEPT ![c] = [IdleClerk EXCEPT !.at = "cancelling", !.live = LiveBookings,
                                      !.good = booking[o].good, !.order = o, !.units = booking[o].units]]
    /\ UNCHANGED <<shelf, byHand, booking, numbering, lifetime, behind, handWork>>

StillLive(o) == booking[o].status = "live"

\* The goods go back if the clerk ticked the box, and go back for every line.
CommitCancel(c) ==
    /\ clerk[c].at = "cancelling"
    /\ SaveUndisturbed
    /\ LET o == clerk[c].order
       IN  IF ~ StillLive(o) THEN UNCHANGED <<shelf, booking, lifetime, behind>>
           ELSE \E back \in {0, clerk[c].units} :
                  /\ booking' = [booking EXCEPT ![o].status = "cancelled", ![o].moved = @ + back]
                  /\ shelf' = [shelf EXCEPT ![clerk[c].good] = @ + back]
                  /\ RefreshTotals(c, clerk[c].live \ {o})
    /\ clerk' = [clerk EXCEPT ![c] = IdleClerk]
    /\ UNCHANGED <<byHand, numbering, handWork>>

-----------------------------------------------------------------------------
(* The shelf by hand: adjustStock, and persistVariants of a product save.  *)

OpenAdjustment(c, g, delta) ==
    /\ clerk[c] = IdleClerk
    /\ ByHand
    /\ shelf[g] + delta >= 0
    /\ clerk' = [clerk EXCEPT ![c] = [IdleClerk EXCEPT !.at = "adjusting", !.good = g,
                                                       !.units = delta, !.count = shelf[g]]]
    /\ UNCHANGED <<shelf, byHand, booking, numbering, lifetime, behind>>

\* Mutant: the figure read is written back with the change applied.
MutantMoveShelf(c) ==
    LET g == clerk[c].good
    IN  /\ shelf' = [shelf EXCEPT ![g] = clerk[c].count + clerk[c].units]
        /\ byHand' = [byHand EXCEPT ![g] = @ + clerk[c].units]

\* An atomic increment, and its row.
MoveShelf(c) ==
    LET g == clerk[c].good
    IN  /\ shelf' = [shelf EXCEPT ![g] = @ + clerk[c].units]
        /\ byHand' = [byHand EXCEPT ![g] = @ + clerk[c].units]

CommitAdjustment(c) ==
    /\ clerk[c].at = "adjusting"
    /\ SaveUndisturbed
    /\ MoveShelf(c)
    /\ clerk' = [clerk EXCEPT ![c] = IdleClerk]
    /\ UNCHANGED <<booking, numbering, lifetime, behind, handWork>>

\* The form's change is applied to the count the transaction reads.
OpenSave(c, g, change) ==
    /\ clerk[c] = IdleClerk
    /\ SaveUndisturbed
    /\ ByHand
    /\ clerk' = [clerk EXCEPT ![c] = [IdleClerk EXCEPT !.at = "saving", !.good = g,
                                                       !.units = change, !.count = shelf[g]]]
    /\ UNCHANGED <<shelf, byHand, booking, numbering, lifetime, behind>>

CommitSave(c) ==
    /\ clerk[c].at = "saving"
    /\ LET next == Max({0, clerk[c].count + clerk[c].units})
           g == clerk[c].good
       IN  /\ shelf' = [shelf EXCEPT ![g] = next]
           /\ byHand' = [byHand EXCEPT ![g] = @ + next - clerk[c].count]
    /\ clerk' = [clerk EXCEPT ![c] = IdleClerk]
    /\ UNCHANGED <<booking, numbering, lifetime, behind, handWork>>

-----------------------------------------------------------------------------
(* updateOrderNumberFormat, outside any transaction: each read is fresh.   *)

ReadFormat(c) ==
    /\ clerk[c] = IdleClerk
    /\ ByHand
    /\ clerk' = [clerk EXCEPT ![c] = [IdleClerk EXCEPT !.at = "formatting", !.numbered = numbering]]
    /\ UNCHANGED <<shelf, byHand, booking, numbering, lifetime, behind>>

\* The compare-and-swap; when the counter moved it is read again, and after
\* five attempts the save is given up.
WriteFormat(c, style) ==
    /\ clerk[c].at = "formatting" /\ ~ NumberLocked
    /\ IF clerk[c].numbered = numbering
       THEN /\ numbering' = <<style, numbering[2]>>
            /\ clerk' = [clerk EXCEPT ![c] = IdleClerk]
       ELSE /\ \/ clerk' = [clerk EXCEPT ![c].numbered = numbering]
               \/ clerk' = [clerk EXCEPT ![c] = IdleClerk]
            /\ UNCHANGED numbering
    /\ UNCHANGED <<shelf, byHand, booking, lifetime, behind, handWork>>

-----------------------------------------------------------------------------

PlacingNext ==
    \/ \E c \in Clerks, o \in Bookings, g \in Goods, units \in 1..MostUnits : CheckStock(c, o, g, units)
    \/ \E c \in Clerks : OpenOrder(c) \/ ClaimNumber(c) \/ CommitOrder(c) \/ AbandonOrder(c)
    \/ \E c \in Clerks, o \in Bookings : OpenCancel(c, o)
    \/ \E c \in Clerks, g \in Goods, delta \in (-MostUnits..MostUnits) \ {0} :
          OpenAdjustment(c, g, delta) \/ OpenSave(c, g, delta)
    \/ \E c \in Clerks : CommitCancel(c) \/ CommitAdjustment(c) \/ CommitSave(c) \/ ReadFormat(c)
    \/ \E c \in Clerks, style \in Styles : WriteFormat(c, style)

PlacingSpec == PlacingInit /\ [][PlacingNext]_placingVars

-----------------------------------------------------------------------------
(* What placing an order promises.                                         *)

PlacingTypeOK ==
    /\ shelf \in [Goods -> Int]
    /\ byHand \in [Goods -> Int]
    /\ booking \in [Bookings -> [status : BookingStatuses, number : (Styles \cup {"none"}) \X Nat,
                                 good : Goods \cup {"none"}, units : Nat, moved : Int]]
    /\ numbering \in Styles \X (Nat \ {0})
    /\ lifetime \in Nat
    /\ behind \in BOOLEAN
    /\ clerk \in [Clerks -> [at : ClerkSteps, order : Bookings \cup {"none"}, good : Goods \cup {"none"},
                             units : Int, numbered : (Styles \cup {"none"}) \X Nat,
                             live : SUBSET Bookings, count : Int]]
    /\ handWork \in Nat

\* No two orders share a number, whatever races for it and whatever becomes of
\* the format meanwhile (allocateOrderNumber, updateOrderNumberFormat).
NumbersUnique ==
    \A o, p \in Bookings :
        o # p /\ booking[o].status # "none" /\ booking[p].status # "none" =>
            booking[o].number[2] # booking[p].number[2]

\* Nor is a number lost: those given out are exactly the ones before the next
\* ("inside the transaction that creates the order").
NumbersConsecutive ==
    {booking[o].number[2] : o \in {p \in Bookings : booking[p].status # "none"}} = 1..(numbering[2] - 1)

\* The adjustments explain every count ("so Inventory's history explains every
\* count", products.ts), orders, cancellations and hand work together.
ShelfIsItsTrail ==
    \A g \in Goods :
        shelf[g] = OpeningStock + byHand[g]
                     + SumFunctionOnSet([o \in Bookings |-> booking[o].moved],
                                        {o \in Bookings : booking[o].good = g})

\* What an order puts back is no more than it took, however often it is
\* cancelled ("a double click cannot inflate the shelf", orders.ts).
PutBackWasTaken == \A o \in Bookings : booking[o].moved <= 0

\* A variant that may not be sold beyond the shelf is, but only by what the
\* other calls at work had already counted on (canFulfil, outside the
\* transaction).
OversoldByOverlapOnly ==
    \A g \in Goods \ (Untracked \cup MadeToOrder) :
        shelf[g] >= - MostUnits * (Cardinality(Clerks) - 1)

\* A figure counted on an old snapshot is put right by the next change, and
\* one counted on a current snapshot is right ("Recomputed from the orders
\* themselves rather than incremented").
LifetimeHeals == behind \/ lifetime = Cardinality(LiveBookings)
-----------------------------------------------------------------------------
(* Why it holds: the row lock makes the number a claim reads the number its *)
(* commit writes.                                                          *)

Placed(o) == booking[o].status # "none"

IsPlacing(hand) == hand.at \in {"checked", "open", "claimed"}

\* A call that places an order has one nobody placed, and one that has claimed
\* its number holds the next one; a call that cancels has the order as it was
\* placed.
HandHolds(hand) ==
    /\ IsPlacing(hand) => hand.order \in Bookings /\ ~ Placed(hand.order) /\ hand.units \in Nat
    /\ hand.at = "claimed" => hand.numbered = numbering
    /\ hand.at = "cancelling" =>
          /\ hand.order \in Bookings /\ Placed(hand.order)
          /\ hand.good = booking[hand.order].good /\ hand.units = booking[hand.order].units
    /\ IsPlacing(hand) \/ hand.at \in {"cancelling", "adjusting", "saving"} => hand.good \in Goods

HandsApart ==
    \A c, d \in Clerks : c # d =>
        /\ clerk[c].at # "claimed" \/ clerk[d].at # "claimed"
        /\ IsPlacing(clerk[c]) /\ IsPlacing(clerk[d]) => clerk[c].order # clerk[d].order

\* An order's number is one of those given out, and what it moved is its line's.
OrdersAccount ==
    \A o \in Bookings :
        /\ Placed(o) => booking[o].number[2] \in 1..(numbering[2] - 1) /\ booking[o].good \in Goods
        /\ booking[o].status = "none" => booking[o].moved = 0
        /\ booking[o].status = "live" =>
              booking[o].moved = IF booking[o].good \in Untracked THEN 0 ELSE -booking[o].units

\* What a call's commit will take off the shelf.
CountedOn(hand, g) ==
    IF hand.good # g THEN 0
    ELSE IF IsPlacing(hand) THEN hand.units
    ELSE IF hand.at = "adjusting" /\ hand.units < 0 THEN -hand.units
    ELSE 0

\* A call found on the shelf what it counts on; what the others count on comes off
\* beside it, and each of them counts on one line at most.
PromisedAtMost ==
    /\ \A c \in Clerks, g \in Goods : CountedOn(clerk[c], g) \in 0..MostUnits
    /\ \A g \in Goods \ (Untracked \cup MadeToOrder) :
          shelf[g] - SumFunctionOnSet([c \in Clerks |-> CountedOn(clerk[c], g)], Clerks)
              >= - MostUnits * (Cardinality(Clerks) - 1)

\* A save that nothing commits beside writes over the count it read.
SavesSawIt ==
    /\ \A c \in Clerks : clerk[c].at = "saving" => clerk[c].count = shelf[clerk[c].good]
    /\ \A c, d \in Clerks : clerk[c].at = "saving" /\ clerk[d].at = "saving" => c = d

\* What the shelf keeps to.
StockInv == PromisedAtMost /\ SavesSawIt /\ ShelfIsItsTrail

PlacingInv ==
    /\ PlacingTypeOK /\ \A c \in Clerks : HandHolds(clerk[c])
    /\ HandsApart /\ OrdersAccount
    /\ NumbersUnique /\ NumbersConsecutive /\ LifetimeHeals
=============================================================================
