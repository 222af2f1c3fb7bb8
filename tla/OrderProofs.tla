---------------------------- MODULE OrderProofs -----------------------------
(***************************************************************************)
(* What MCBackOffice promises of orders, rates, payment methods and prices, *)
(* proved for every value of their constants.                               *)
(***************************************************************************)
EXTENDS BackOfficeProofs, SumTheorems

-----------------------------------------------------------------------------
(* Placing: the lock on the number makes a claim and its commit agree.     *)

NumberType == (Styles \cup {"none"}) \X Nat

BookingType ==
    [status : BookingStatuses, number : NumberType, good : Goods \cup {"none"}, units : Nat, moved : Int]

ClerkType ==
    [at : ClerkSteps, order : Bookings \cup {"none"}, good : Goods \cup {"none"}, units : Int,
     numbered : NumberType, live : SUBSET Bookings, count : Int]

LEMMA IdleHand == IdleClerk \in ClerkType /\ IdleClerk.at = "idle"
BY DEF IdleClerk, ClerkType, ClerkSteps, NumberType

LEMMA PlacingTypes ==
    ASSUME PlacingInv
    PROVE  /\ shelf \in [Goods -> Int] /\ byHand \in [Goods -> Int]
           /\ booking \in [Bookings -> BookingType] /\ clerk \in [Clerks -> ClerkType]
           /\ numbering \in Styles \X (Nat \ {0}) /\ lifetime \in Nat /\ behind \in BOOLEAN /\ handWork \in Nat
BY DEF PlacingInv, PlacingTypeOK, BookingType, ClerkType, NumberType

LEMMA PlacingTyped ==
    ASSUME shelf' \in [Goods -> Int], byHand' \in [Goods -> Int],
           booking' \in [Bookings -> BookingType], clerk' \in [Clerks -> ClerkType],
           numbering' \in Styles \X (Nat \ {0}), lifetime' \in Nat, behind' \in BOOLEAN, handWork' \in Nat
    PROVE  PlacingTypeOK'
BY DEF PlacingTypeOK, BookingType, ClerkType, NumberType

\* A call moves on, at most with the shelf, and the orders are left alone.
LEMMA HandMoved ==
    ASSUME PlacingInv, NEW c \in Clerks, NEW hand \in ClerkType, clerk' = [clerk EXCEPT ![c] = hand], HandHolds(hand),
           hand.at = "claimed" => \A d \in Clerks : d # c => clerk[d].at # "claimed",
           IsPlacing(hand) => \A d \in Clerks : d # c => clerk[d].order # hand.order \/ ~ IsPlacing(clerk[d]),
           shelf' \in [Goods -> Int], byHand' \in [Goods -> Int], handWork' \in Nat,
           UNCHANGED <<booking, numbering, lifetime, behind>>
    PROVE  PlacingInv'
<1>1. /\ clerk' \in [Clerks -> ClerkType]
      /\ \A d \in Clerks : clerk'[d] = IF d = c THEN hand ELSE clerk[d]
  BY PlacingTypes
<1>2. PlacingTypeOK'
  BY <1>1, PlacingTypes, PlacingTyped
<1>3. ASSUME NEW d \in Clerks
      PROVE  HandHolds(clerk[d])'
  <2>1. HandHolds(clerk[d]) /\ clerk'[d] \in {hand, clerk[d]}
    BY <1>1 DEF PlacingInv
  <2> QED
    BY <2>1 DEF HandHolds, Placed, IsPlacing
<1>4. HandsApart'
  BY <1>1 DEF PlacingInv, HandsApart, IsPlacing
<1>5. OrdersAccount' /\ NumbersUnique' /\ NumbersConsecutive' /\ LifetimeHeals'
  BY DEF PlacingInv, OrdersAccount, Placed, NumbersUnique, NumbersConsecutive, LifetimeHeals, LiveBookings
<1> QED
  BY <1>2, <1>3, <1>4, <1>5 DEF PlacingInv

LEMMA StockChecked ==
    ASSUME PlacingInv, NEW c \in Clerks, NEW o \in Bookings, NEW g \in Goods, NEW units \in 1..MostUnits,
           CheckStock(c, o, g, units)
    PROVE  PlacingInv'
<1> DEFINE hand == [IdleClerk EXCEPT !.at = "checked", !.order = o, !.good = g, !.units = units]
<1>2. units \in Nat
  BY PlacingAssumption
<1>3. clerk' = [clerk EXCEPT ![c] = hand] /\ UNCHANGED <<shelf, byHand, booking, numbering, lifetime, behind, handWork>>
  BY DEF CheckStock
<1>4. booking[o].status = "none" /\ \A d \in Clerks : clerk[d].order # o
  BY DEF CheckStock
<1> DEFINE going == [IdleClerk EXCEPT !.at = "checked"]
           asked == [going EXCEPT !.order = o]
           found == [asked EXCEPT !.good = g]
<1>a. going \in ClerkType /\ going.at = "checked"
  BY IdleHand DEF ClerkType, ClerkSteps
<1>b. asked \in ClerkType /\ asked.at = "checked" /\ asked.order = o
  BY <1>a DEF ClerkType
<1>d. found \in ClerkType /\ found.at = "checked" /\ found.order = o /\ found.good = g
  BY <1>b DEF ClerkType
<1>e. hand = [found EXCEPT !.units = units]
  BY IdleHand DEF ClerkType
<1> HIDE DEF found, hand
<1>5. /\ hand \in ClerkType /\ hand.at = "checked" /\ hand.order = o /\ hand.good = g /\ hand.units = units
  BY <1>2, <1>d, <1>e DEF ClerkType
<1>6. HandHolds(hand)
  BY <1>2, <1>4, <1>5 DEF HandHolds, Placed, IsPlacing
<1> QED
  BY <1>3, <1>4, <1>5, <1>6, PlacingTypes, HandMoved

LEMMA OrderOpened ==
    ASSUME PlacingInv, NEW c \in Clerks, OpenOrder(c)
    PROVE  PlacingInv'
<1> DEFINE going == [clerk[c] EXCEPT !.at = "open"]
           read == [going EXCEPT !.numbered = numbering]
           hand == [read EXCEPT !.live = LiveBookings]
<1>1. clerk[c] \in ClerkType /\ clerk[c].at = "checked" /\ HandHolds(clerk[c])
  BY PlacingTypes DEF OpenOrder, PlacingInv
<1>2. clerk' = [clerk EXCEPT ![c] = hand] /\ UNCHANGED <<shelf, byHand, booking, numbering, lifetime, behind, handWork>>
  BY PlacingTypes DEF OpenOrder, ClerkType
<1>3. /\ going \in ClerkType /\ going.at = "open" /\ going.order = clerk[c].order /\ going.good = clerk[c].good
      /\ going.units = clerk[c].units
  BY <1>1 DEF ClerkType, ClerkSteps
<1> HIDE DEF going
<1>4. numbering \in NumberType /\ LiveBookings \in SUBSET Bookings
  BY PlacingTypes DEF NumberType, LiveBookings
<1>5. /\ read \in ClerkType /\ read.at = "open" /\ read.order = clerk[c].order /\ read.good = clerk[c].good
      /\ read.units = clerk[c].units
  BY <1>3, <1>4 DEF ClerkType
<1> HIDE DEF read
<1>6. /\ hand \in ClerkType /\ hand.at = "open" /\ hand.order = clerk[c].order /\ hand.good = clerk[c].good
      /\ hand.units = clerk[c].units
  BY <1>4, <1>5 DEF ClerkType
<1> HIDE DEF hand
<1>7. HandHolds(hand) /\ IsPlacing(clerk[c])
  BY <1>1, <1>6 DEF HandHolds, Placed, IsPlacing
<1>8. \A d \in Clerks : d # c => clerk[d].order # hand.order \/ ~ IsPlacing(clerk[d])
  BY <1>6, <1>7 DEF PlacingInv, HandsApart
<1> QED
  BY <1>2, <1>6, <1>7, <1>8, PlacingTypes, HandMoved

\* A call that is over, or gives up, holds nothing.
LEMMA HandRests ==
    ASSUME PlacingInv, NEW c \in Clerks, clerk' = [clerk EXCEPT ![c] = IdleClerk],
           shelf' \in [Goods -> Int], byHand' \in [Goods -> Int], handWork' \in Nat,
           UNCHANGED <<booking, numbering, lifetime, behind>>
    PROVE  PlacingInv'
<1>1. HandHolds(IdleClerk) /\ ~ IsPlacing(IdleClerk) /\ IdleClerk.at # "claimed"
  BY IdleHand DEF HandHolds, IsPlacing
<1> QED
  BY <1>1, IdleHand, HandMoved

LEMMA NumberClaimed ==
    ASSUME PlacingInv, NEW c \in Clerks, ClaimNumber(c)
    PROVE  PlacingInv'
<1> DEFINE hand == [clerk[c] EXCEPT !.at = "claimed"]
<1>1. clerk[c] \in ClerkType /\ clerk[c].at = "open" /\ HandHolds(clerk[c])
  BY PlacingTypes DEF ClaimNumber, PlacingInv
<1>2. /\ hand \in ClerkType /\ hand.at = "claimed" /\ hand.order = clerk[c].order /\ hand.good = clerk[c].good
      /\ hand.units = clerk[c].units /\ hand.numbered = clerk[c].numbered
  BY <1>1 DEF ClerkType, ClerkSteps
<1>3. /\ clerk' = [clerk EXCEPT ![c] = IF NumberMoved(c) THEN IdleClerk ELSE hand]
      /\ UNCHANGED <<shelf, byHand, booking, numbering, lifetime, behind, handWork>>
      /\ \A d \in Clerks : clerk[d].at # "claimed"
  BY DEF ClaimNumber, NumberLocked
<1>4. CASE NumberMoved(c)
  BY <1>3, <1>4, PlacingTypes, HandRests
<1>5. CASE ~ NumberMoved(c)
  <2> HIDE DEF hand
  <2>1. HandHolds(hand) /\ IsPlacing(clerk[c])
    BY <1>1, <1>2, <1>5 DEF HandHolds, Placed, IsPlacing, NumberMoved
  <2>2. \A d \in Clerks : d # c => clerk[d].order # hand.order \/ ~ IsPlacing(clerk[d])
    BY <1>2, <2>1 DEF PlacingInv, HandsApart
  <2>3. clerk' = [clerk EXCEPT ![c] = hand]
    BY <1>3, <1>5
  <2>4. UNCHANGED <<booking, numbering, lifetime, behind>> /\ \A d \in Clerks : d # c => clerk[d].at # "claimed"
    BY <1>3
  <2>5. shelf' \in [Goods -> Int] /\ byHand' \in [Goods -> Int] /\ handWork' \in Nat
    BY <1>3, PlacingTypes
  <2> QED
    BY <1>2, <2>1, <2>2, <2>3, <2>4, <2>5, HandMoved
<1> QED
  BY <1>4, <1>5

LEMMA CancelOpened ==
    ASSUME PlacingInv, NEW c \in Clerks, NEW o \in Bookings, OpenCancel(c, o)
    PROVE  PlacingInv'
<1> DEFINE hand == [IdleClerk EXCEPT !.at = "cancelling", !.live = LiveBookings,
                                     !.good = booking[o].good, !.order = o, !.units = booking[o].units]
<1>2. clerk' = [clerk EXCEPT ![c] = hand] /\ UNCHANGED <<shelf, byHand, booking, numbering, lifetime, behind, handWork>>
  BY DEF OpenCancel
<1>3. Placed(o) /\ booking[o] \in BookingType /\ LiveBookings \in SUBSET Bookings
  BY PlacingTypes DEF OpenCancel, Placed, LiveBookings
<1>4. booking[o].good \in Goods /\ booking[o].units \in Nat
  BY <1>3 DEF PlacingInv, OrdersAccount, BookingType
<1> DEFINE going == [IdleClerk EXCEPT !.at = "cancelling"]
           read == [going EXCEPT !.live = LiveBookings]
           found == [read EXCEPT !.good = booking[o].good]
           asked == [found EXCEPT !.order = o]
<1>a. going \in ClerkType /\ going.at = "cancelling"
  BY IdleHand DEF ClerkType, ClerkSteps
<1>b. read \in ClerkType /\ read.at = "cancelling"
  BY <1>3, <1>a DEF ClerkType
<1>d. found \in ClerkType /\ found.at = "cancelling" /\ found.good = booking[o].good
  BY <1>4, <1>b DEF ClerkType
<1>e. asked \in ClerkType /\ asked.at = "cancelling" /\ asked.good = booking[o].good /\ asked.order = o
  BY <1>d DEF ClerkType
<1>f. hand = [asked EXCEPT !.units = booking[o].units]
  BY IdleHand DEF ClerkType
<1> HIDE DEF asked, hand
<1>5. /\ hand \in ClerkType /\ hand.at = "cancelling" /\ hand.order = o /\ hand.good = booking[o].good
      /\ hand.units = booking[o].units
  BY <1>4, <1>e, <1>f DEF ClerkType
<1>6. HandHolds(hand) /\ ~ IsPlacing(hand)
  BY <1>3, <1>4, <1>5 DEF HandHolds, IsPlacing
<1> QED
  BY <1>2, <1>5, <1>6, PlacingTypes, HandMoved

LEMMA HandWorkOpened ==
    ASSUME PlacingInv, NEW c \in Clerks, NEW g \in Goods, NEW delta \in Int,
           OpenAdjustment(c, g, delta) \/ OpenSave(c, g, delta)
    PROVE  PlacingInv'
<1>1. PICK step \in {"adjusting", "saving"} :
          clerk' = [clerk EXCEPT ![c] = [IdleClerk EXCEPT !.at = step, !.good = g, !.units = delta, !.count = shelf[g]]]
  BY DEF OpenAdjustment, OpenSave
<1> DEFINE hand == [IdleClerk EXCEPT !.at = step, !.good = g, !.units = delta, !.count = shelf[g]]
<1>3. UNCHANGED <<shelf, byHand, booking, numbering, lifetime, behind>> /\ handWork' = handWork + 1
  BY DEF OpenAdjustment, OpenSave, ByHand
<1>4. shelf[g] \in Int
  BY PlacingTypes
<1>5. hand \in ClerkType /\ hand.at = step /\ hand.good = g
  BY <1>4 DEF IdleClerk, ClerkType, ClerkSteps, NumberType
<1> HIDE DEF hand
<1>6. HandHolds(hand) /\ ~ IsPlacing(hand) /\ hand.at # "claimed"
  BY <1>5 DEF HandHolds, IsPlacing
<1>7. clerk' = [clerk EXCEPT ![c] = hand]
  BY <1>1 DEF hand
<1>8. shelf' \in [Goods -> Int] /\ byHand' \in [Goods -> Int] /\ handWork' \in Nat
  BY <1>3, PlacingTypes
<1> QED
  BY <1>3, <1>5, <1>6, <1>7, <1>8, HandMoved

LEMMA FormatRead ==
    ASSUME PlacingInv, NEW c \in Clerks, ReadFormat(c)
    PROVE  PlacingInv'
<1> DEFINE hand == [IdleClerk EXCEPT !.at = "formatting", !.numbered = numbering]
<1>2. /\ clerk' = [clerk EXCEPT ![c] = hand] /\ handWork' = handWork + 1
      /\ UNCHANGED <<shelf, byHand, booking, numbering, lifetime, behind>>
  BY DEF ReadFormat, ByHand
<1>3. numbering \in NumberType
  BY PlacingTypes DEF NumberType
<1>4. hand \in ClerkType /\ hand.at = "formatting"
  BY <1>3, IdleHand DEF ClerkType, ClerkSteps
<1> HIDE DEF hand
<1>5. HandHolds(hand) /\ ~ IsPlacing(hand)
  BY <1>4 DEF HandHolds, IsPlacing
<1>6. shelf' \in [Goods -> Int] /\ byHand' \in [Goods -> Int] /\ handWork' \in Nat
  BY <1>2, PlacingTypes
<1> QED
  BY <1>2, <1>4, <1>5, <1>6, HandMoved

LEMMA ShelfMoved ==
    ASSUME PlacingInv, NEW c \in Clerks, CommitAdjustment(c) \/ CommitSave(c)
    PROVE  PlacingInv'
<1>1. clerk[c] \in ClerkType /\ clerk[c].good \in Goods
  BY PlacingTypes DEF CommitAdjustment, CommitSave, PlacingInv, HandHolds
<1> DEFINE g == clerk[c].good
           next == Max({0, clerk[c].count + clerk[c].units})
<1>2. shelf[g] \in Int /\ byHand[g] \in Int /\ clerk[c].units \in Int /\ clerk[c].count \in Int
  BY <1>1, PlacingTypes DEF ClerkType
<1>3. next \in Int
  <2>1. \E x \in {0, clerk[c].count + clerk[c].units} : \A y \in {0, clerk[c].count + clerk[c].units} : x >= y
    BY <1>2
  <2>2. next \in {0, clerk[c].count + clerk[c].units}
    BY <2>1 DEF Max
  <2> QED
    BY <1>2, <2>2
<1>4. PICK counted \in Int, told \in Int :
          /\ shelf' = [shelf EXCEPT ![g] = counted] /\ byHand' = [byHand EXCEPT ![g] = told]
          /\ clerk' = [clerk EXCEPT ![c] = IdleClerk] /\ UNCHANGED <<booking, numbering, lifetime, behind, handWork>>
  <2> HIDE DEF next
  <2>1. CASE CommitAdjustment(c)
    <3>1. shelf[g] + clerk[c].units \in Int /\ byHand[g] + clerk[c].units \in Int
      BY <1>2
    <3> QED
      BY <2>1, <3>1 DEF CommitAdjustment, MoveShelf
  <2>2. CASE CommitSave(c)
    <3>1. byHand[g] + next - clerk[c].count \in Int
      BY <1>2, <1>3
    <3> QED
      BY <1>3, <2>2, <3>1 DEF CommitSave, next
  <2> QED
    BY <2>1, <2>2
<1>5. shelf' \in [Goods -> Int] /\ byHand' \in [Goods -> Int]
  BY <1>4, PlacingTypes
<1> QED
  BY <1>4, <1>5, PlacingTypes, HandRests

-----------------------------------------------------------------------------

LEMMA SomeBookings == \A live \in SUBSET Bookings : IsFiniteSet(live) /\ Cardinality(live) \in Nat
BY PlacingAssumption, FS_Subset, FS_CardinalityType

LEMMA BookingMoved ==
    ASSUME PlacingInv, NEW o \in Bookings, NEW row \in BookingType, booking' = [booking EXCEPT ![o] = row]
    PROVE  /\ booking' \in [Bookings -> BookingType] /\ booking'[o] = row
           /\ \A p \in Bookings : p # o => booking'[p] = booking[p]
BY PlacingTypes

\* The order is written under the number that was claimed, and the next is one more.
LEMMA OrderCommitted ==
    ASSUME PlacingInv, NEW c \in Clerks, CommitOrder(c)
    PROVE  PlacingInv'
<1> DEFINE o == clerk[c].order
           g == clerk[c].good
           taken == IF g \in Untracked THEN 0 ELSE clerk[c].units
           row == [status |-> "live", number |-> clerk[c].numbered, good |-> g, units |-> clerk[c].units,
                   moved |-> -taken]
           live == clerk[c].live \cup {o}
<1>1. /\ clerk[c] \in ClerkType /\ clerk[c].at = "claimed" /\ HandHolds(clerk[c])
      /\ IsPlacing(clerk[c])
  BY PlacingTypes DEF CommitOrder, PlacingInv, IsPlacing
<1>2. /\ o \in Bookings /\ ~ Placed(o) /\ g \in Goods /\ clerk[c].units \in Nat
      /\ clerk[c].numbered = numbering
  BY <1>1 DEF HandHolds
<1>3. PICK style \in Styles, n \in Nat \ {0} : numbering = <<style, n>>
  BY PlacingTypes
<1>4. taken \in Int /\ -taken \in Int
  BY <1>2
<1>5. /\ numbering' = <<style, n + 1>> /\ booking' = [booking EXCEPT ![o] = row]
      /\ shelf' = [shelf EXCEPT ![g] = shelf[g] - taken]
      /\ lifetime' = Cardinality(live) /\ behind' = (clerk[c].live # LiveBookings)
      /\ clerk' = [clerk EXCEPT ![c] = IdleClerk] /\ UNCHANGED <<byHand, handWork>>
  BY <1>2, <1>3 DEF CommitOrder, RefreshTotals
<1> HIDE DEF taken
<1>6. /\ row \in BookingType /\ row.status = "live" /\ row.number = <<style, n>> /\ row.good = g
      /\ row.units = clerk[c].units /\ row.moved = -taken
  BY <1>2, <1>3, <1>4 DEF BookingType, BookingStatuses, NumberType
<1> HIDE DEF row
<1>7. /\ booking' \in [Bookings -> BookingType] /\ booking'[o] = row
      /\ \A p \in Bookings : p # o => booking'[p] = booking[p]
  BY <1>2, <1>5, <1>6, BookingMoved
<1>8. PlacingTypeOK'
  <2>1. shelf' \in [Goods -> Int]
    BY <1>2, <1>4, <1>5, PlacingTypes
  <2>2. live \in SUBSET Bookings
    BY <1>1, <1>2 DEF ClerkType
  <2>3. lifetime' \in Nat /\ behind' \in BOOLEAN
    BY <1>5, <2>2, SomeBookings
  <2>4. clerk' \in [Clerks -> ClerkType]
    BY <1>5, IdleHand, PlacingTypes
  <2>5. numbering' \in Styles \X (Nat \ {0})
    BY <1>5
  <2> QED
    BY <1>5, <1>7, <2>1, <2>3, <2>4, <2>5, PlacingTypes, PlacingTyped
<1>9. ASSUME NEW d \in Clerks
      PROVE  HandHolds(clerk[d])'
  <2>1. CASE d = c
    BY <1>5, <2>1, IdleHand, PlacingTypes DEF HandHolds, IsPlacing
  <2>2. CASE d # c
    <3>1. clerk'[d] = clerk[d] /\ HandHolds(clerk[d]) /\ clerk[d].at # "claimed"
      BY <1>1, <1>5, <2>2, PlacingTypes DEF PlacingInv, HandsApart
    <3>2. IsPlacing(clerk[d]) => clerk[d].order # o
      BY <1>1, <2>2 DEF PlacingInv, HandsApart
    <3>3. clerk[d].at = "cancelling" => clerk[d].order # o
      BY <1>2, <3>1 DEF HandHolds
    <3> QED
      BY <1>7, <3>1, <3>2, <3>3 DEF HandHolds, Placed, IsPlacing
  <2> QED
    BY <2>1, <2>2
<1>10. HandsApart'
  BY <1>5, IdleHand, PlacingTypes DEF PlacingInv, HandsApart, IsPlacing
<1>11. \A p \in Bookings : Placed(p) => booking[p].number[2] \in 1..(n - 1) /\ p # o
  BY <1>2, <1>3 DEF PlacingInv, OrdersAccount
<1>12. \A p \in Bookings : Placed(p)' <=> Placed(p) \/ p = o
  BY <1>6, <1>7 DEF Placed
<1>13. booking'[o].number[2] = n
  BY <1>6, <1>7
<1>14. OrdersAccount'
  <2>1. ASSUME NEW p \in Bookings, Placed(p)'
        PROVE  booking'[p].number[2] \in 1..n /\ booking'[p].good \in Goods
    BY <1>2, <1>6, <1>7, <1>11, <1>12, <1>13, <2>1 DEF PlacingInv, OrdersAccount
  <2>2. ASSUME NEW p \in Bookings
        PROVE  /\ booking'[p].status = "none" => booking'[p].moved = 0
               /\ booking'[p].status = "live" =>
                     booking'[p].moved = IF booking'[p].good \in Untracked THEN 0 ELSE -booking'[p].units
    BY <1>6, <1>7 DEF PlacingInv, OrdersAccount, taken
  <2>3. numbering'[2] - 1 = n
    BY <1>5
  <2> QED
    BY <2>1, <2>2, <2>3 DEF OrdersAccount
<1>15. NumbersUnique'
  <2> SUFFICES ASSUME NEW p \in Bookings, NEW q \in Bookings, p # q, Placed(p)', Placed(q)'
               PROVE  booking'[p].number[2] # booking'[q].number[2]
    BY DEF NumbersUnique, Placed
  <2>1. CASE p # o /\ q # o
    BY <1>7, <1>12, <2>1 DEF PlacingInv, NumbersUnique, Placed
  <2>2. CASE p = o \/ q = o
    BY <1>7, <1>11, <1>12, <1>13, <2>2
  <2> QED
    BY <2>1, <2>2
<1>16. NumbersConsecutive'
  <2>1. \A k \in 1..(n - 1) : \E p \in Bookings : Placed(p) /\ booking[p].number[2] = k
    BY <1>3 DEF PlacingInv, NumbersConsecutive, Placed
  <2>2. ASSUME NEW k \in 1..n
        PROVE  \E p \in Bookings : Placed(p)' /\ booking'[p].number[2] = k
    <3>1. CASE k = n
      BY <1>2, <1>12, <1>13, <3>1
    <3>2. CASE k # n
      <4>1. PICK p \in Bookings : Placed(p) /\ booking[p].number[2] = k
        BY <2>1, <3>2
      <4> QED
        BY <1>7, <1>11, <1>12, <4>1
    <3> QED
      BY <3>1, <3>2
  <2>3. \A p \in Bookings : Placed(p)' => booking'[p].number[2] \in 1..n
    BY <1>7, <1>11, <1>12, <1>13
  <2>4. numbering'[2] - 1 = n
    BY <1>5
  <2> QED
    BY <2>2, <2>3, <2>4 DEF NumbersConsecutive, Placed
<1>17. LifetimeHeals'
  <2>1. LiveBookings' = LiveBookings \cup {o}
    BY <1>2, <1>6, <1>7 DEF LiveBookings
  <2> QED
    BY <1>5, <2>1 DEF LifetimeHeals
<1> QED
  BY <1>8, <1>9, <1>10, <1>14, <1>15, <1>16, <1>17 DEF PlacingInv

LEMMA OrderCancelled ==
    ASSUME PlacingInv, NEW c \in Clerks, CommitCancel(c)
    PROVE  PlacingInv'
<1> DEFINE o == clerk[c].order
<1>1. /\ clerk[c] \in ClerkType /\ clerk[c].at = "cancelling" /\ HandHolds(clerk[c])
      /\ o \in Bookings /\ Placed(o) /\ clerk[c].good \in Goods /\ booking[o] \in BookingType
  BY PlacingTypes DEF CommitCancel, PlacingInv, HandHolds
<1>2. CASE ~ StillLive(o)
  BY <1>2, PlacingTypes, HandRests DEF CommitCancel
<1>3. CASE StillLive(o)
  <2>1. PICK back \in {0, clerk[c].units} :
            /\ booking' = [booking EXCEPT ![o].status = "cancelled", ![o].moved = @ + back]
            /\ shelf' = [shelf EXCEPT ![clerk[c].good] = @ + back]
            /\ RefreshTotals(c, clerk[c].live \ {o})
    BY <1>3 DEF CommitCancel
  <2> DEFINE moved == booking[o].moved + back
             going == [booking[o] EXCEPT !.status = "cancelled"]
             row == [going EXCEPT !.moved = moved]
             live == clerk[c].live \ {o}
  <2>2. /\ clerk' = [clerk EXCEPT ![c] = IdleClerk] /\ UNCHANGED <<byHand, numbering, handWork>>
        /\ lifetime' = Cardinality(live) /\ behind' = (clerk[c].live # LiveBookings)
    BY <2>1 DEF CommitCancel, RefreshTotals
  <2>3. back \in Int /\ moved \in Int
    BY <1>1 DEF ClerkType, BookingType
  <2>4. booking' = [booking EXCEPT ![o] = row]
    BY <2>1, PlacingTypes DEF BookingType
  <2>5. /\ going \in BookingType /\ going.status = "cancelled" /\ going.number = booking[o].number
        /\ going.good = booking[o].good /\ going.units = booking[o].units
    BY <1>1 DEF BookingType, BookingStatuses
  <2> HIDE DEF going, moved
  <2>6. /\ row \in BookingType /\ row.status = "cancelled" /\ row.number = booking[o].number
        /\ row.good = booking[o].good /\ row.units = booking[o].units
    BY <2>3, <2>5 DEF BookingType
  <2> HIDE DEF row
  <2>7. /\ booking' \in [Bookings -> BookingType] /\ booking'[o] = row
        /\ \A p \in Bookings : p # o => booking'[p] = booking[p]
    BY <1>1, <2>4, <2>6, BookingMoved
  <2>8. PlacingTypeOK'
    <3>1. shelf' \in [Goods -> Int]
      BY <1>1, <2>1, <2>3, PlacingTypes
    <3>2. live \in SUBSET Bookings
      BY <1>1 DEF ClerkType
    <3>3. lifetime' \in Nat /\ behind' \in BOOLEAN
      BY <2>2, <3>2, SomeBookings
    <3>4. clerk' \in [Clerks -> ClerkType]
      BY <2>2, IdleHand, PlacingTypes
    <3> QED
      BY <2>2, <2>7, <3>1, <3>3, <3>4, PlacingTypes, PlacingTyped
  <2>9. \A p \in Bookings : /\ Placed(p)' <=> Placed(p)
                            /\ booking'[p].number = booking[p].number /\ booking'[p].good = booking[p].good
                            /\ booking'[p].units = booking[p].units
    BY <1>1, <2>6, <2>7 DEF Placed
  <2>10. ASSUME NEW d \in Clerks
         PROVE  HandHolds(clerk[d])'
    <3>1. CASE d = c
      BY <2>2, <3>1, IdleHand, PlacingTypes DEF HandHolds, IsPlacing
    <3>2. CASE d # c
      <4>1. clerk'[d] = clerk[d] /\ HandHolds(clerk[d])
        BY <2>2, <3>2, PlacingTypes DEF PlacingInv
      <4> QED
        BY <2>2, <2>9, <4>1 DEF HandHolds
    <3> QED
      BY <3>1, <3>2
  <2>11. HandsApart'
    BY <2>2, IdleHand, PlacingTypes DEF PlacingInv, HandsApart, IsPlacing
  <2>12. OrdersAccount'
    BY <2>2, <2>6, <2>7, <2>9 DEF PlacingInv, OrdersAccount
  <2>13. NumbersUnique' /\ NumbersConsecutive'
    BY <2>2, <2>9 DEF PlacingInv, NumbersUnique, NumbersConsecutive, Placed
  <2>14. LifetimeHeals'
    <3>1. LiveBookings' = LiveBookings \ {o}
      BY <1>1, <2>6, <2>7 DEF LiveBookings
    <3> QED
      BY <2>2, <3>1 DEF LifetimeHeals
  <2> QED
    BY <2>8, <2>10, <2>11, <2>12, <2>13, <2>14 DEF PlacingInv
<1> QED
  BY <1>2, <1>3

LEMMA FormatWritten ==
    ASSUME PlacingInv, NEW c \in Clerks, NEW style \in Styles, WriteFormat(c, style)
    PROVE  PlacingInv'
<1>1. clerk[c] \in ClerkType /\ clerk[c].at = "formatting"
  BY PlacingTypes DEF WriteFormat
<1>2. UNCHANGED <<shelf, byHand, booking, lifetime, behind, handWork>> /\ \A d \in Clerks : clerk[d].at # "claimed"
  BY DEF WriteFormat, NumberLocked
<1>3. CASE numbering' = <<style, numbering[2]>> /\ clerk' = [clerk EXCEPT ![c] = IdleClerk]
  <2>1. numbering'[2] = numbering[2] /\ numbering' \in Styles \X (Nat \ {0})
    BY <1>3, PlacingTypes
  <2>2. /\ clerk' \in [Clerks -> ClerkType]
        /\ \A d \in Clerks : clerk'[d] = IF d = c THEN IdleClerk ELSE clerk[d]
    BY <1>3, IdleHand, PlacingTypes
  <2>3. PlacingTypeOK'
    BY <1>2, <2>1, <2>2, PlacingTypes, PlacingTyped
  <2>4. ASSUME NEW d \in Clerks
        PROVE  HandHolds(clerk[d])'
    <3>1. HandHolds(clerk[d]) /\ clerk[d].at # "claimed"
      BY <1>2 DEF PlacingInv
    <3> QED
      BY <1>2, <2>2, <3>1, IdleHand DEF HandHolds, Placed, IsPlacing
  <2>5. HandsApart'
    BY <2>2, IdleHand DEF PlacingInv, HandsApart, IsPlacing
  <2>6. OrdersAccount' /\ NumbersUnique' /\ NumbersConsecutive' /\ LifetimeHeals'
    BY <1>2, <2>1 DEF PlacingInv, OrdersAccount, Placed, NumbersUnique, NumbersConsecutive, LifetimeHeals, LiveBookings
  <2> QED
    BY <2>3, <2>4, <2>5, <2>6 DEF PlacingInv
<1>4. CASE clerk' = [clerk EXCEPT ![c] = IdleClerk] /\ UNCHANGED numbering
  BY <1>2, <1>4, PlacingTypes, HandRests
<1>5. CASE clerk' = [clerk EXCEPT ![c].numbered = numbering] /\ UNCHANGED numbering
  <2> DEFINE hand == [clerk[c] EXCEPT !.numbered = numbering]
  <2>1. hand \in ClerkType /\ hand.at = "formatting"
    BY <1>1, PlacingTypes DEF ClerkType, NumberType
  <2>2. clerk' = [clerk EXCEPT ![c] = hand]
    BY <1>5
  <2> HIDE DEF hand
  <2>3. HandHolds(hand) /\ ~ IsPlacing(hand)
    BY <2>1 DEF HandHolds, IsPlacing
  <2> QED
    BY <1>2, <1>5, <2>1, <2>2, <2>3, PlacingTypes, HandMoved
<1> QED
  BY <1>3, <1>4, <1>5 DEF WriteFormat

LEMMA PlacingStep ==
    ASSUME PlacingInv, PlacingNext \/ UNCHANGED placingVars
    PROVE  PlacingInv'
<1>1. ASSUME NEW c \in Clerks, AbandonOrder(c)
      PROVE  PlacingInv'
  BY <1>1, PlacingTypes, HandRests DEF AbandonOrder
<1>2. ASSUME NEW c \in Clerks, NEW g \in Goods, NEW delta \in (-MostUnits..MostUnits) \ {0},
             OpenAdjustment(c, g, delta) \/ OpenSave(c, g, delta)
      PROVE  PlacingInv'
  <2>1. delta \in Int
    BY PlacingAssumption
  <2> QED
    BY <1>2, <2>1, HandWorkOpened
<1>3. CASE UNCHANGED placingVars
  BY <1>3 DEF placingVars, PlacingInv, PlacingTypeOK, HandHolds, HandsApart, OrdersAccount, Placed, IsPlacing,
     NumbersUnique, NumbersConsecutive, LifetimeHeals, LiveBookings
<1>4. CASE PlacingNext
  BY <1>1, <1>2, <1>4, StockChecked, OrderOpened, NumberClaimed, OrderCommitted, CancelOpened, OrderCancelled,
     ShelfMoved, FormatRead, FormatWritten DEF PlacingNext
<1> QED
  BY <1>3, <1>4

LEMMA PlacingBegins == PlacingInit => PlacingInv
<1> SUFFICES ASSUME PlacingInit PROVE PlacingInv
  OBVIOUS
<1>1. \A o \in Bookings : booking[o].status = "none" /\ booking[o].moved = 0
  BY DEF PlacingInit
<1>2. booking \in [Bookings -> BookingType]
  BY DEF PlacingInit, BookingType, BookingStatuses, NumberType
<1>3. clerk \in [Clerks -> ClerkType] /\ \A c \in Clerks : clerk[c] = IdleClerk
  BY IdleHand DEF PlacingInit
<1>4. shelf \in [Goods -> Int] /\ byHand \in [Goods -> Int]
  BY PlacingAssumption DEF PlacingInit
<1>5. numbering \in Styles \X (Nat \ {0}) /\ numbering[2] = 1
  BY DEF PlacingInit
<1>6. PlacingTypeOK
  BY <1>2, <1>3, <1>4, <1>5 DEF PlacingInit, PlacingTypeOK, BookingType, ClerkType, NumberType
<1>7. \A c \in Clerks : HandHolds(clerk[c])
  BY <1>3, IdleHand DEF HandHolds, IsPlacing
<1>8. HandsApart
  BY <1>3, IdleHand DEF HandsApart, IsPlacing
<1>9. OrdersAccount /\ NumbersUnique
  BY <1>1 DEF OrdersAccount, NumbersUnique, Placed
<1>10. NumbersConsecutive
  <2>1. {p \in Bookings : booking[p].status # "none"} = {}
    BY <1>1
  <2>2. 1..(numbering[2] - 1) = {}
    BY <1>5
  <2> QED
    BY <2>1, <2>2 DEF NumbersConsecutive
<1>11. LifetimeHeals
  <2>1. LiveBookings = {} /\ lifetime = 0
    BY <1>1 DEF LiveBookings, PlacingInit
  <2> QED
    BY <2>1, FS_EmptySet DEF LifetimeHeals
<1> QED
  BY <1>6, <1>7, <1>8, <1>9, <1>10, <1>11 DEF PlacingInv

\* A cancelled order gave back no more than it took, where every variant is counted.
LEMMA BackIsTaken ==
    ASSUME PlacingInv, Untracked = {}, PutBackWasTaken, PlacingNext \/ UNCHANGED placingVars
    PROVE  PutBackWasTaken'
<1>1. ASSUME NEW c \in Clerks, CommitOrder(c)
      PROVE  PutBackWasTaken'
  <2> DEFINE o == clerk[c].order
             row == [status |-> "live", number |-> clerk[c].numbered, good |-> clerk[c].good,
                     units |-> clerk[c].units, moved |-> -clerk[c].units]
  <2>1. o \in Bookings /\ clerk[c].units \in Nat
    BY <1>1 DEF PlacingInv, HandHolds, IsPlacing, CommitOrder
  <2>2. booking' = [booking EXCEPT ![o] = row]
    BY <1>1 DEF CommitOrder
  <2>3. row.moved <= 0
    BY <2>1
  <2> HIDE DEF row
  <2> QED
    BY <2>1, <2>2, <2>3, PlacingTypes DEF PutBackWasTaken
<1>2. ASSUME NEW c \in Clerks, CommitCancel(c)
      PROVE  PutBackWasTaken'
  <2> DEFINE o == clerk[c].order
  <2>1. o \in Bookings /\ clerk[c].units = booking[o].units /\ booking[o] \in BookingType
    BY <1>2, PlacingTypes DEF PlacingInv, HandHolds, CommitCancel
  <2>2. CASE ~ StillLive(o)
    BY <1>2, <2>2 DEF CommitCancel, PutBackWasTaken
  <2>3. CASE StillLive(o)
    <3>1. PICK back \in {0, clerk[c].units} :
              booking' = [booking EXCEPT ![o].status = "cancelled", ![o].moved = @ + back]
      BY <1>2, <2>3 DEF CommitCancel
    <3>2. booking'[o].moved = booking[o].moved + back /\ \A p \in Bookings : p # o => booking'[p] = booking[p]
      BY <2>1, <3>1, PlacingTypes DEF BookingType
    <3>3. booking[o].moved = -booking[o].units /\ booking[o].units \in Nat
      BY <2>1, <2>3 DEF PlacingInv, OrdersAccount, StillLive, BookingType
    <3> QED
      BY <2>1, <3>2, <3>3 DEF PutBackWasTaken
  <2> QED
    BY <2>2, <2>3
<1>3. CASE UNCHANGED booking
  BY <1>3 DEF PutBackWasTaken
<1> QED
  BY <1>1, <1>2, <1>3 DEF PlacingNext, placingVars, CheckStock, OpenOrder, ClaimNumber, AbandonOrder, OpenCancel,
     OpenAdjustment, OpenSave, CommitAdjustment, CommitSave, ReadFormat, WriteFormat

-----------------------------------------------------------------------------
(* The shelf: what calls count on, and what explains its count.            *)

\* A call turns to something else: it counts on no more than it did, or on no
\* more than the shelf has.
LEMMA PromiseKept ==
    ASSUME PlacingInv, PromisedAtMost, NEW c \in Clerks, NEW hand, clerk' = [clerk EXCEPT ![c] = hand],
           \A g \in Goods : CountedOn(hand, g) \in 0..MostUnits,
           shelf' \in [Goods -> Int],
           \A g \in Goods \ (Untracked \cup MadeToOrder) :
              \/ shelf'[g] - CountedOn(hand, g) >= shelf[g] - CountedOn(clerk[c], g)
              \/ CountedOn(hand, g) <= shelf'[g]
    PROVE  PromisedAtMost'
<1>1. \A d \in Clerks : clerk'[d] = IF d = c THEN hand ELSE clerk[d]
  BY PlacingTypes
<1>2. \A d \in Clerks, g \in Goods : CountedOn(clerk[d], g)' = CountedOn(clerk'[d], g)
  BY DEF CountedOn, IsPlacing
<1>3. \A d \in Clerks, g \in Goods : CountedOn(clerk'[d], g) \in 0..MostUnits
  BY <1>1 DEF PromisedAtMost
<1>4. /\ IsFiniteSet(Clerks) /\ IsFiniteSet(Clerks \ {c}) /\ MostUnits \in Nat
      /\ Cardinality(Clerks) \in Nat /\ Cardinality(Clerks \ {c}) = Cardinality(Clerks) - 1
  BY PlacingAssumption, FS_RemoveElement, FS_CardinalityType
<1>5. ASSUME NEW g \in Goods \ (Untracked \cup MadeToOrder)
      PROVE  shelf'[g] - SumFunctionOnSet([d \in Clerks |-> CountedOn(clerk'[d], g)], Clerks)
                >= - MostUnits * (Cardinality(Clerks) - 1)
  <2> DEFINE before == [d \in Clerks |-> CountedOn(clerk[d], g)]
             after == [d \in Clerks |-> CountedOn(clerk'[d], g)]
  <2>1. \A d \in Clerks : before[d] \in 0..MostUnits /\ after[d] \in 0..MostUnits
    BY <1>3 DEF PromisedAtMost
  <2>2. \A d \in Clerks : d # c => after[d] = before[d]
    BY <1>1
  <2>3. after[c] = CountedOn(hand, g) /\ before[c] = CountedOn(clerk[c], g)
    BY <1>1
  <2>4. shelf[g] - SumFunctionOnSet(before, Clerks) >= - MostUnits * (Cardinality(Clerks) - 1)
    BY <1>5 DEF PromisedAtMost
  <2> HIDE DEF before, after
  <2>5. shelf[g] \in Int /\ shelf'[g] \in Int
    BY <1>5, PlacingTypes
  <2>6. \A d \in Clerks : before[d] \in Int /\ after[d] \in Int /\ before[d] <= MostUnits /\ after[d] <= MostUnits
    BY <1>4, <2>1
  <2>7. SumFunctionOnSet(before, Clerks) \in Int /\ SumFunctionOnSet(after, Clerks \ {c}) \in Int
    BY <1>4, <2>6, SumIsInt
  <2>8. SumFunctionOnSet(after, Clerks) = SumFunctionOnSet(before, Clerks) + after[c] - before[c]
    BY <1>4, <2>2, <2>6, SumMoves
  <2>9. CASE shelf'[g] - CountedOn(hand, g) >= shelf[g] - CountedOn(clerk[c], g)
    <3>1. shelf'[g] - SumFunctionOnSet(after, Clerks) >= shelf[g] - SumFunctionOnSet(before, Clerks)
      BY <2>3, <2>5, <2>6, <2>7, <2>8, <2>9
    <3>2. PICK least \in Int : least = - MostUnits * (Cardinality(Clerks) - 1)
      BY <1>4
    <3>3. SumFunctionOnSet(after, Clerks) \in Int
      BY <2>6, <2>7, <2>8
    <3>4. shelf'[g] - SumFunctionOnSet(after, Clerks) >= least
      BY <2>4, <2>5, <2>7, <3>1, <3>2, <3>3
    <3> QED
      BY <3>2, <3>4 DEF after
  <2>10. CASE CountedOn(hand, g) <= shelf'[g]
    <3>1. SumFunctionOnSet(after, Clerks) = after[c] + SumFunctionOnSet(after, Clerks \ {c})
      BY <1>4, <2>6, SumWithout
    <3>2. SumFunctionOnSet(after, Clerks \ {c}) <= MostUnits * Cardinality(Clerks \ {c})
      BY <1>4, <2>6, SumIsBounded
    <3>3. PICK most \in Int : most = MostUnits * (Cardinality(Clerks) - 1) /\ -most = - MostUnits * (Cardinality(Clerks) - 1)
      <4>1. \A m, n \in Int : m * n \in Int /\ -(m * n) = (-m) * n
        OBVIOUS
      <4> QED
        BY <1>4, <4>1
    <3>4. SumFunctionOnSet(after, Clerks \ {c}) <= most
      BY <1>4, <3>2, <3>3
    <3>5. shelf'[g] - SumFunctionOnSet(after, Clerks) >= -most
      BY <2>3, <2>5, <2>6, <2>7, <2>10, <3>1, <3>3, <3>4
    <3> QED
      BY <3>3, <3>5 DEF after
  <2> QED
    BY <1>5, <2>9, <2>10
<1>6. \A g \in Goods : [d \in Clerks |-> CountedOn(clerk[d], g)]' = [d \in Clerks |-> CountedOn(clerk'[d], g)]
  BY <1>2
<1> QED
  BY <1>2, <1>3, <1>5, <1>6 DEF PromisedAtMost

\* What a save read is on the shelf still.
LEMMA SaveSees ==
    ASSUME PlacingInv, SavesSawIt, NEW c \in Clerks, NEW hand, clerk' = [clerk EXCEPT ![c] = hand],
           \/ hand.at # "saving" /\ shelf' = shelf
           \/ hand.at # "saving" /\ \A d \in Clerks : d # c => clerk[d].at # "saving"
           \/ /\ hand.count = shelf[hand.good] /\ shelf' = shelf
              /\ \A d \in Clerks : clerk[d].at # "saving"
    PROVE  SavesSawIt'
<1>1. \A d \in Clerks : clerk'[d] = IF d = c THEN hand ELSE clerk[d]
  BY PlacingTypes
<1> QED
  BY <1>1 DEF SavesSawIt

\* The trail of a good, as a sum over all orders.
LEMMA TrailAs ==
    ASSUME NEW rows \in [Bookings -> BookingType], NEW g
    PROVE  SumFunctionOnSet([o \in Bookings |-> rows[o].moved], {o \in Bookings : rows[o].good = g})
             = SumFunctionOnSet([o \in Bookings |-> IF rows[o].good = g THEN rows[o].moved ELSE 0], Bookings)
<1> DEFINE all == [o \in Bookings |-> rows[o].moved]
           its == [o \in Bookings |-> IF rows[o].good = g THEN rows[o].moved ELSE 0]
           T == {o \in Bookings : rows[o].good = g}
<1>1. \A o \in Bookings : all[o] \in Int
  BY DEF BookingType
<1>2. \A o \in Bookings : its[o] = IF o \in T THEN all[o] ELSE 0
  OBVIOUS
<1>3. T \subseteq Bookings /\ IsFiniteSet(Bookings)
  BY PlacingAssumption
<1> HIDE DEF all, its, T
<1>4. SumFunctionOnSet(all, T) = SumFunctionOnSet(its, Bookings)
  BY <1>1, <1>2, <1>3, SumWhere
<1> QED
  BY <1>4 DEF all, its, T

\* An order moves stock of its good, and the shelf by as much.
LEMMA OrderOnTrail ==
    ASSUME PlacingInv, ShelfIsItsTrail, NEW o \in Bookings, NEW row \in BookingType, NEW n \in Int, row.good \in Goods,
           booking' = [booking EXCEPT ![o] = row], byHand' = byHand,
           shelf' = [shelf EXCEPT ![row.good] = shelf[row.good] + n],
           \/ booking[o].good = row.good /\ row.moved = booking[o].moved + n
           \/ booking[o].moved = 0 /\ row.moved = n
    PROVE  ShelfIsItsTrail'
<1>b. booking \in [Bookings -> BookingType]
  BY PlacingTypes
<1>a. booking' \in [Bookings -> BookingType]
  BY BookingMoved
<1>1. /\ booking \in [Bookings -> BookingType] /\ booking' \in [Bookings -> BookingType] /\ booking'[o] = row
      /\ \A p \in Bookings : p # o => booking'[p] = booking[p]
  BY <1>a, <1>b, BookingMoved
<1>2. shelf \in [Goods -> Int] /\ byHand \in [Goods -> Int] /\ OpeningStock \in Int /\ IsFiniteSet(Bookings)
  BY PlacingTypes, PlacingAssumption
<1> SUFFICES ASSUME NEW g \in Goods
             PROVE  shelf'[g] = OpeningStock + byHand'[g]
                      + SumFunctionOnSet([p \in Bookings |-> booking'[p].moved], {p \in Bookings : booking'[p].good = g})
  BY DEF ShelfIsItsTrail
<1> DEFINE before == [p \in Bookings |-> IF booking[p].good = g THEN booking[p].moved ELSE 0]
           after == [p \in Bookings |-> IF booking'[p].good = g THEN booking'[p].moved ELSE 0]
<1>3. \A p \in Bookings : before[p] \in Int /\ after[p] \in Int
  BY <1>1 DEF BookingType
<1>4. \A p \in Bookings : p # o => after[p] = before[p]
  BY <1>1
<1>5. after[o] - before[o] = IF g = row.good THEN n ELSE 0
  BY <1>1 DEF BookingType
<1>6. SumFunctionOnSet([p \in Bookings |-> booking[p].moved], {p \in Bookings : booking[p].good = g})
        = SumFunctionOnSet(before, Bookings)
  BY <1>b, TrailAs
<1>7. SumFunctionOnSet([p \in Bookings |-> booking'[p].moved], {p \in Bookings : booking'[p].good = g})
        = SumFunctionOnSet(after, Bookings)
  BY <1>a, TrailAs
<1>8. shelf[g] = OpeningStock + byHand[g] + SumFunctionOnSet(before, Bookings)
  BY <1>6 DEF ShelfIsItsTrail
<1> HIDE DEF before, after
<1>9. SumFunctionOnSet(before, Bookings) \in Int
  BY <1>2, <1>3, SumIsInt
<1>10. SumFunctionOnSet(after, Bookings) = SumFunctionOnSet(before, Bookings) + after[o] - before[o]
  BY <1>2, <1>3, <1>4, SumMoves
<1>11. shelf'[g] = shelf[g] + (IF g = row.good THEN n ELSE 0) /\ byHand[g] \in Int
  BY <1>2
<1>12. after[o] \in Int /\ before[o] \in Int
  BY <1>3
<1> QED
  BY <1>2, <1>5, <1>7, <1>8, <1>9, <1>10, <1>11, <1>12

\* Hand work moves the shelf and its rows alike.
LEMMA HandOnTrail ==
    ASSUME PlacingInv, ShelfIsItsTrail, NEW g \in Goods, NEW n \in Int, booking' = booking,
           shelf' = [shelf EXCEPT ![g] = shelf[g] + n], byHand' = [byHand EXCEPT ![g] = byHand[g] + n]
    PROVE  ShelfIsItsTrail'
<1>1. /\ shelf \in [Goods -> Int] /\ byHand \in [Goods -> Int] /\ OpeningStock \in Int /\ IsFiniteSet(Bookings)
      /\ booking \in [Bookings -> BookingType]
  BY PlacingTypes, PlacingAssumption
<1>2. ASSUME NEW h \in Goods
      PROVE  shelf'[h] = OpeningStock + byHand'[h]
               + SumFunctionOnSet([o \in Bookings |-> booking[o].moved], {o \in Bookings : booking[o].good = h})
  <2> DEFINE trail == SumFunctionOnSet([o \in Bookings |-> booking[o].moved], {o \in Bookings : booking[o].good = h})
             its == [o \in Bookings |-> IF booking[o].good = h THEN booking[o].moved ELSE 0]
  <2>1. \A o \in Bookings : its[o] \in Int
    BY <1>1 DEF BookingType
  <2>2. trail = SumFunctionOnSet(its, Bookings)
    BY <1>1, TrailAs
  <2>3. shelf[h] = OpeningStock + byHand[h] + trail
    BY DEF ShelfIsItsTrail
  <2> HIDE DEF its, trail
  <2>4. trail \in Int
    BY <1>1, <2>1, <2>2, SumIsInt
  <2>5. shelf'[h] = OpeningStock + byHand'[h] + trail
    BY <1>1, <2>3, <2>4
  <2> QED
    BY <2>5 DEF trail
<1> QED
  BY <1>2 DEF ShelfIsItsTrail

LEMMA IdleCountsOnNothing == \A g \in Goods : CountedOn(IdleClerk, g) = 0 /\ IdleClerk.at # "saving"
BY IdleHand DEF CountedOn, IsPlacing

\* What a call counts on is some units.
LEMMA CountedUnits ==
    ASSUME StockInv
    PROVE  /\ MostUnits \in Nat
           /\ \A c \in Clerks, g \in Goods : CountedOn(clerk[c], g) \in Nat /\ CountedOn(clerk[c], g) <= MostUnits
BY PlacingAssumption DEF StockInv, PromisedAtMost

\* A call moves on, and the shelf is left alone.
LEMMA HandTurns ==
    ASSUME PlacingInv, StockInv, NEW c \in Clerks, NEW hand, clerk' = [clerk EXCEPT ![c] = hand],
           UNCHANGED <<shelf, byHand, booking>>,
           \A g \in Goods : CountedOn(hand, g) \in 0..MostUnits,
           \A g \in Goods \ (Untracked \cup MadeToOrder) :
              CountedOn(hand, g) <= CountedOn(clerk[c], g) \/ CountedOn(hand, g) <= shelf[g],
           \/ hand.at # "saving"
           \/ hand.count = shelf[hand.good] /\ \A d \in Clerks : clerk[d].at # "saving"
    PROVE  StockInv'
<1>1. ASSUME NEW g \in Goods \ (Untracked \cup MadeToOrder)
      PROVE  \/ shelf'[g] - CountedOn(hand, g) >= shelf[g] - CountedOn(clerk[c], g)
             \/ CountedOn(hand, g) <= shelf'[g]
  <2>1. shelf[g] \in Int /\ CountedOn(hand, g) \in Int /\ CountedOn(clerk[c], g) \in Int
    BY <1>1, PlacingTypes, CountedUnits
  <2> QED
    BY <1>1, <2>1
<1>2. shelf' \in [Goods -> Int]
  BY PlacingTypes
<1>3. PromisedAtMost'
  BY <1>1, <1>2, PromiseKept DEF StockInv
<1>4. SavesSawIt'
  BY SaveSees DEF StockInv
<1>5. ShelfIsItsTrail'
  BY DEF StockInv, ShelfIsItsTrail
<1> QED
  BY <1>3, <1>4, <1>5 DEF StockInv

LEMMA TurnsIdle ==
    ASSUME PlacingInv, StockInv, NEW c \in Clerks, clerk' = [clerk EXCEPT ![c] = IdleClerk],
           UNCHANGED <<shelf, byHand, booking>>
    PROVE  StockInv'
<1>1. \A g \in Goods : CountedOn(IdleClerk, g) \in 0..MostUnits /\ CountedOn(IdleClerk, g) <= CountedOn(clerk[c], g)
  BY IdleCountsOnNothing, CountedUnits
<1>2. IdleClerk.at # "saving"
  BY IdleHand
<1> QED
  BY <1>1, <1>2, HandTurns

\* The stock is checked: what is counted on is there.
LEMMA CheckedIsThere ==
    ASSUME PlacingInv, StockInv, NEW c \in Clerks, NEW o \in Bookings, NEW g \in Goods, NEW units \in 1..MostUnits,
           CheckStock(c, o, g, units)
    PROVE  StockInv'
<1> DEFINE hand == [IdleClerk EXCEPT !.at = "checked", !.order = o, !.good = g, !.units = units]
<1>1. clerk' = [clerk EXCEPT ![c] = hand] /\ UNCHANGED <<shelf, byHand, booking>> /\ clerk[c] = IdleClerk
  BY DEF CheckStock
<1>2. hand.at = "checked" /\ hand.good = g /\ hand.units = units
  BY DEF IdleClerk
<1> HIDE DEF hand
<1>3. \A h \in Goods : CountedOn(hand, h) = IF h = g THEN units ELSE 0
  BY <1>2 DEF CountedOn, IsPlacing
<1>4. units \in 0..MostUnits
  BY CountedUnits
<1>5. \A h \in Goods : CountedOn(hand, h) \in 0..MostUnits
  BY <1>3, <1>4, CountedUnits
<1>6. ASSUME NEW h \in Goods \ (Untracked \cup MadeToOrder)
      PROVE  CountedOn(hand, h) <= CountedOn(clerk[c], h) \/ CountedOn(hand, h) <= shelf[h]
  <2>1. CASE h = g
    BY <1>3, <1>6, <2>1, PlacingTypes DEF CheckStock, CanFulfil
  <2>2. CASE h # g
    BY <1>1, <1>3, <1>6, <2>2, IdleCountsOnNothing
  <2> QED
    BY <2>1, <2>2
<1> QED
  BY <1>1, <1>2, <1>5, <1>6, HandTurns

\* The transaction goes on with what was counted on.
LEMMA OpenedOrClaimed ==
    ASSUME PlacingInv, StockInv, NEW c \in Clerks, OpenOrder(c) \/ ClaimNumber(c)
    PROVE  StockInv'
<1>0. clerk[c] \in ClerkType
  BY PlacingTypes
<1>1. CASE clerk' = [clerk EXCEPT ![c] = IdleClerk]
  BY <1>1, TurnsIdle DEF OpenOrder, ClaimNumber
<1>2. CASE clerk' # [clerk EXCEPT ![c] = IdleClerk]
  <2>1. PICK hand : /\ clerk' = [clerk EXCEPT ![c] = hand] /\ hand.at \in {"open", "claimed"}
                    /\ hand.good = clerk[c].good /\ hand.units = clerk[c].units
    <3>1. CASE OpenOrder(c)
      <4> DEFINE hand == [clerk[c] EXCEPT !.at = "open", !.numbered = numbering, !.live = LiveBookings]
      <4>1. clerk' = [clerk EXCEPT ![c] = hand]
        BY <1>0, <3>1, PlacingTypes DEF OpenOrder, ClerkType
      <4>2. hand.at = "open" /\ hand.good = clerk[c].good /\ hand.units = clerk[c].units
        BY <1>0 DEF ClerkType
      <4> HIDE DEF hand
      <4> QED
        BY <4>1, <4>2
    <3>2. CASE ClaimNumber(c)
      <4> DEFINE hand == [clerk[c] EXCEPT !.at = "claimed"]
      <4>1. clerk' = [clerk EXCEPT ![c] = hand]
        BY <1>2, <3>2 DEF ClaimNumber
      <4>2. hand.at = "claimed" /\ hand.good = clerk[c].good /\ hand.units = clerk[c].units
        BY <1>0 DEF ClerkType
      <4> HIDE DEF hand
      <4> QED
        BY <4>1, <4>2
    <3> QED
      BY <3>1, <3>2
  <2>2. clerk[c].at \in {"checked", "open"} /\ UNCHANGED <<shelf, byHand, booking>>
    BY DEF OpenOrder, ClaimNumber
  <2>3. \A g \in Goods : CountedOn(hand, g) = CountedOn(clerk[c], g)
    BY <2>1, <2>2 DEF CountedOn, IsPlacing
  <2>4. \A g \in Goods : CountedOn(hand, g) \in 0..MostUnits /\ CountedOn(hand, g) <= CountedOn(clerk[c], g)
    BY <2>3, CountedUnits
  <2>5. hand.at # "saving"
    BY <2>1
  <2> QED
    BY <2>1, <2>2, <2>4, <2>5, HandTurns
<1> QED
  BY <1>1, <1>2

\* A call that counts on nothing begins.
LEMMA TurnsTo ==
    ASSUME PlacingInv, StockInv, NEW c \in Clerks, NEW hand, clerk' = [clerk EXCEPT ![c] = hand],
           UNCHANGED <<shelf, byHand, booking>>, hand.at \in {"cancelling", "formatting"}
    PROVE  StockInv'
<1>1. \A g \in Goods : CountedOn(hand, g) = 0
  BY DEF CountedOn, IsPlacing
<1>2. \A g \in Goods : CountedOn(hand, g) \in 0..MostUnits /\ CountedOn(hand, g) <= CountedOn(clerk[c], g)
  BY <1>1, CountedUnits
<1>3. hand.at # "saving"
  OBVIOUS
<1> QED
  BY <1>2, <1>3, HandTurns

LEMMA CancelBegins ==
    ASSUME PlacingInv, StockInv, NEW c \in Clerks, NEW o \in Bookings, OpenCancel(c, o)
    PROVE  StockInv'
<1> DEFINE hand == [IdleClerk EXCEPT !.at = "cancelling", !.live = LiveBookings,
                                     !.good = booking[o].good, !.order = o, !.units = booking[o].units]
<1>1. clerk' = [clerk EXCEPT ![c] = hand] /\ UNCHANGED <<shelf, byHand, booking>>
  BY DEF OpenCancel
<1>2. hand.at = "cancelling"
  BY DEF IdleClerk
<1> HIDE DEF hand
<1> QED
  BY <1>1, <1>2, TurnsTo

LEMMA FormatTurns ==
    ASSUME PlacingInv, StockInv, NEW c \in Clerks, ReadFormat(c) \/ \E style \in Styles : WriteFormat(c, style)
    PROVE  StockInv'
<1>0. clerk[c] \in ClerkType /\ UNCHANGED <<shelf, byHand, booking>>
  BY PlacingTypes DEF ReadFormat, WriteFormat
<1>1. CASE ReadFormat(c)
  <2> DEFINE hand == [IdleClerk EXCEPT !.at = "formatting", !.numbered = numbering]
  <2>1. clerk' = [clerk EXCEPT ![c] = hand] /\ hand.at = "formatting"
    BY <1>1 DEF ReadFormat, IdleClerk
  <2> HIDE DEF hand
  <2> QED
    BY <1>0, <2>1, TurnsTo
<1>2. CASE clerk' = [clerk EXCEPT ![c] = IdleClerk]
  BY <1>0, <1>2, TurnsIdle
<1>3. CASE clerk' = [clerk EXCEPT ![c].numbered = numbering] /\ clerk[c].at = "formatting"
  <2> DEFINE hand == [clerk[c] EXCEPT !.numbered = numbering]
  <2>1. clerk' = [clerk EXCEPT ![c] = hand] /\ hand.at = "formatting"
    BY <1>0, <1>3 DEF ClerkType
  <2> HIDE DEF hand
  <2> QED
    BY <1>0, <2>1, TurnsTo
<1> QED
  BY <1>1, <1>2, <1>3 DEF WriteFormat

\* Hand work begins: an adjustment takes what is there, and a save has read the
\* count nobody is about to change.
LEMMA HandWorkTurns ==
    ASSUME PlacingInv, StockInv, ~SaveOverlap, NEW c \in Clerks, NEW g \in Goods,
           NEW delta \in (-MostUnits..MostUnits) \ {0}, OpenAdjustment(c, g, delta) \/ OpenSave(c, g, delta)
    PROVE  StockInv'
<1>0. delta \in Int /\ -delta <= MostUnits /\ clerk[c] = IdleClerk /\ UNCHANGED <<shelf, byHand, booking>>
      /\ shelf[g] \in Int
  BY CountedUnits, PlacingTypes DEF OpenAdjustment, OpenSave
<1>1. PICK step \in {"adjusting", "saving"} :
         /\ clerk' = [clerk EXCEPT ![c] = [IdleClerk EXCEPT !.at = step, !.good = g, !.units = delta, !.count = shelf[g]]]
         /\ step = "adjusting" => shelf[g] + delta >= 0
         /\ step = "saving" => \A d \in Clerks : clerk[d].at # "saving"
  BY DEF OpenAdjustment, OpenSave, SaveUndisturbed
<1> DEFINE hand == [IdleClerk EXCEPT !.at = step, !.good = g, !.units = delta, !.count = shelf[g]]
<1>2. hand.at = step /\ hand.good = g /\ hand.units = delta /\ hand.count = shelf[g] /\ clerk' = [clerk EXCEPT ![c] = hand]
  BY <1>1 DEF IdleClerk
<1> HIDE DEF hand
<1>3. \A h \in Goods : CountedOn(hand, h) = IF h = g /\ step = "adjusting" /\ delta < 0 THEN -delta ELSE 0
  BY <1>2 DEF CountedOn, IsPlacing
<1>4. \A h \in Goods : CountedOn(hand, h) \in 0..MostUnits
  BY <1>0, <1>3, CountedUnits
<1>5. ASSUME NEW h \in Goods
      PROVE  CountedOn(hand, h) <= CountedOn(clerk[c], h) \/ CountedOn(hand, h) <= shelf[h]
  BY <1>0, <1>1, <1>3, <1>5, IdleCountsOnNothing
<1>6. \/ hand.at # "saving"
      \/ hand.count = shelf[hand.good] /\ \A d \in Clerks : clerk[d].at # "saving"
  BY <1>1, <1>2
<1> QED
  BY <1>0, <1>2, <1>4, <1>5, <1>6, HandTurns

\* A call that ends with the shelf moved by no less than it had counted on.
LEMMA ShelfTurns ==
    ASSUME PlacingInv, StockInv, NEW c \in Clerks, clerk' = [clerk EXCEPT ![c] = IdleClerk],
           NEW g \in Goods, NEW n \in Int, shelf' = [shelf EXCEPT ![g] = shelf[g] + n],
           g \notin Untracked \cup MadeToOrder => n >= -CountedOn(clerk[c], g) \/ shelf[g] + n >= 0,
           \A d \in Clerks : d # c => clerk[d].at # "saving"
    PROVE  PromisedAtMost' /\ SavesSawIt'
<1>1. shelf' \in [Goods -> Int] /\ shelf \in [Goods -> Int]
  BY PlacingTypes
<1>2. \A h \in Goods : CountedOn(IdleClerk, h) \in 0..MostUnits
  BY IdleCountsOnNothing, CountedUnits
<1>3. ASSUME NEW h \in Goods \ (Untracked \cup MadeToOrder)
      PROVE  \/ shelf'[h] - CountedOn(IdleClerk, h) >= shelf[h] - CountedOn(clerk[c], h)
             \/ CountedOn(IdleClerk, h) <= shelf'[h]
  <2>1. CountedOn(IdleClerk, h) = 0 /\ CountedOn(clerk[c], h) \in Nat /\ shelf[h] \in Int
    BY <1>1, <1>3, IdleCountsOnNothing, CountedUnits
  <2>2. CASE h = g
    BY <1>1, <1>3, <2>1, <2>2
  <2>3. CASE h # g
    BY <1>1, <2>1, <2>3
  <2> QED
    BY <2>2, <2>3
<1>4. PromisedAtMost'
  BY <1>1, <1>2, <1>3, PromiseKept DEF StockInv
<1>5. SavesSawIt'
  BY IdleHand, SaveSees DEF StockInv
<1> QED
  BY <1>4, <1>5

LEMMA CommitTurns ==
    ASSUME PlacingInv, StockInv, ~SaveOverlap, NEW c \in Clerks, CommitOrder(c)
    PROVE  StockInv'
<1> DEFINE o == clerk[c].order
           g == clerk[c].good
           taken == IF g \in Untracked THEN 0 ELSE clerk[c].units
           row == [status |-> "live", number |-> clerk[c].numbered, good |-> g, units |-> clerk[c].units,
                   moved |-> -taken]
<1>1. /\ clerk[c] \in ClerkType /\ IsPlacing(clerk[c]) /\ o \in Bookings /\ ~ Placed(o) /\ g \in Goods
      /\ clerk[c].units \in Nat /\ clerk[c].numbered = numbering
  BY PlacingTypes DEF CommitOrder, PlacingInv, IsPlacing, HandHolds
<1>2. /\ booking' = [booking EXCEPT ![o] = row] /\ shelf' = [shelf EXCEPT ![g] = shelf[g] - taken]
      /\ clerk' = [clerk EXCEPT ![c] = IdleClerk] /\ byHand' = byHand
      /\ \A d \in Clerks : clerk[d].at # "saving"
  BY <1>1, PlacingTypes DEF CommitOrder, SaveUndisturbed
<1>3. taken \in Nat /\ (g \notin Untracked => taken = CountedOn(clerk[c], g))
  BY <1>1 DEF CountedOn
<1>4. numbering \in NumberType
  BY PlacingTypes DEF NumberType
<1> HIDE DEF taken
<1>5. row \in BookingType /\ row.good = g /\ row.moved = -taken
  BY <1>1, <1>3, <1>4 DEF BookingType, BookingStatuses
<1>6. booking[o].moved = 0
  BY <1>1 DEF PlacingInv, OrdersAccount, Placed
<1> HIDE DEF row
<1>7. PICK n \in Int : n = -taken
  BY <1>3
<1>8. shelf' = [shelf EXCEPT ![g] = shelf[g] + n]
  BY <1>1, <1>2, <1>3, <1>7, PlacingTypes
<1>9. g \notin Untracked \cup MadeToOrder => n >= -CountedOn(clerk[c], g)
  BY <1>3, <1>7
<1>10. PromisedAtMost' /\ SavesSawIt'
  BY <1>1, <1>2, <1>8, <1>9, ShelfTurns
<1>11. ShelfIsItsTrail'
  BY <1>1, <1>2, <1>5, <1>6, <1>7, <1>8, OrderOnTrail DEF StockInv
<1> QED
  BY <1>10, <1>11 DEF StockInv

LEMMA CancelTurns ==
    ASSUME PlacingInv, StockInv, ~SaveOverlap, NEW c \in Clerks, CommitCancel(c)
    PROVE  StockInv'
<1> DEFINE o == clerk[c].order
           g == clerk[c].good
<1>1. /\ o \in Bookings /\ g = booking[o].good /\ g \in Goods /\ clerk[c].units = booking[o].units
      /\ booking[o] \in BookingType /\ clerk[c].at = "cancelling" /\ clerk[c].units \in Nat
  BY PlacingTypes DEF CommitCancel, PlacingInv, HandHolds, BookingType
<1>2. CASE ~ StillLive(o)
  BY <1>2, TurnsIdle DEF CommitCancel
<1>3. CASE StillLive(o)
  <2>1. PICK back \in {0, clerk[c].units} :
            /\ booking' = [booking EXCEPT ![o].status = "cancelled", ![o].moved = @ + back]
            /\ shelf' = [shelf EXCEPT ![g] = @ + back]
    BY <1>3 DEF CommitCancel
  <2>2. clerk' = [clerk EXCEPT ![c] = IdleClerk] /\ byHand' = byHand /\ \A d \in Clerks : clerk[d].at # "saving"
    BY DEF CommitCancel, SaveUndisturbed
  <2> DEFINE moved == booking[o].moved + back
             going == [booking[o] EXCEPT !.status = "cancelled"]
             row == [going EXCEPT !.moved = moved]
  <2>3. back \in Nat /\ moved \in Int
    BY <1>1 DEF BookingType
  <2>4. booking' = [booking EXCEPT ![o] = row]
    BY <2>1, PlacingTypes DEF BookingType
  <2>5. going \in BookingType /\ going.good = g
    BY <1>1 DEF BookingType, BookingStatuses
  <2> HIDE DEF going, moved
  <2>6. row \in BookingType /\ row.good = g /\ row.moved = moved
    BY <2>3, <2>5 DEF BookingType
  <2> HIDE DEF row
  <2>7. shelf' = [shelf EXCEPT ![g] = shelf[g] + back]
    BY <2>1
  <2>8. PromisedAtMost' /\ SavesSawIt'
    <3>1. CountedOn(clerk[c], g) \in Nat /\ back >= -CountedOn(clerk[c], g)
      BY <1>1, <2>3, CountedUnits
    <3>2. back \in Int
      BY <2>3
    <3> QED
      BY <1>1, <2>2, <2>7, <3>1, <3>2, ShelfTurns
  <2>9. ShelfIsItsTrail'
    <3>1. back \in Int /\ row.moved = booking[o].moved + back
      BY <2>3, <2>6 DEF moved
    <3> QED
      BY <1>1, <2>2, <2>4, <2>6, <2>7, <3>1, OrderOnTrail DEF StockInv
  <2> QED
    BY <2>8, <2>9 DEF StockInv
<1> QED
  BY <1>2, <1>3

LEMMA AdjustmentTurns ==
    ASSUME PlacingInv, StockInv, ~SaveOverlap, NEW c \in Clerks, CommitAdjustment(c)
    PROVE  StockInv'
<1> DEFINE g == clerk[c].good
           n == clerk[c].units
<1>1. clerk[c].at = "adjusting" /\ g \in Goods /\ n \in Int
  BY PlacingTypes DEF CommitAdjustment, PlacingInv, HandHolds, ClerkType
<1>2. /\ clerk' = [clerk EXCEPT ![c] = IdleClerk] /\ booking' = booking
      /\ shelf' = [shelf EXCEPT ![g] = shelf[g] + n] /\ byHand' = [byHand EXCEPT ![g] = byHand[g] + n]
      /\ \A d \in Clerks : clerk[d].at # "saving"
  BY DEF CommitAdjustment, MoveShelf, SaveUndisturbed
<1>3. n >= -CountedOn(clerk[c], g)
  BY <1>1 DEF CountedOn, IsPlacing
<1> QED
  BY <1>1, <1>2, <1>3, ShelfTurns, HandOnTrail DEF StockInv

LEMMA SaveTurns ==
    ASSUME PlacingInv, StockInv, NEW c \in Clerks, CommitSave(c)
    PROVE  StockInv'
<1> DEFINE g == clerk[c].good
           next == Max({0, clerk[c].count + clerk[c].units})
<1>1. /\ clerk[c].at = "saving" /\ g \in Goods /\ clerk[c].units \in Int /\ clerk[c].count = shelf[g]
      /\ shelf[g] \in Int /\ byHand[g] \in Int /\ \A d \in Clerks : d # c => clerk[d].at # "saving"
  BY PlacingTypes DEF CommitSave, PlacingInv, HandHolds, ClerkType, StockInv, SavesSawIt
<1>2. next \in Nat
  <2>1. \E x \in {0, clerk[c].count + clerk[c].units} : \A y \in {0, clerk[c].count + clerk[c].units} : x >= y
    BY <1>1
  <2>2. next \in {0, clerk[c].count + clerk[c].units} /\ next >= 0
    BY <2>1 DEF Max
  <2> QED
    BY <1>1, <2>2
<1>3. /\ shelf' = [shelf EXCEPT ![g] = next] /\ byHand' = [byHand EXCEPT ![g] = byHand[g] + next - shelf[g]]
      /\ clerk' = [clerk EXCEPT ![c] = IdleClerk] /\ booking' = booking
  BY <1>1 DEF CommitSave
<1> HIDE DEF next
<1>4. PICK n \in Int : n = next - shelf[g] /\ shelf[g] + n = next /\ byHand[g] + n = byHand[g] + next - shelf[g]
  BY <1>1, <1>2
<1>5. shelf' = [shelf EXCEPT ![g] = shelf[g] + n] /\ byHand' = [byHand EXCEPT ![g] = byHand[g] + n]
  BY <1>3, <1>4
<1>6. shelf[g] + n >= 0
  BY <1>2, <1>4
<1>7. PromisedAtMost' /\ SavesSawIt'
  <2> HIDE DEF g
  <2>1. g \in Goods /\ clerk' = [clerk EXCEPT ![c] = IdleClerk] /\ shelf' = [shelf EXCEPT ![g] = shelf[g] + n]
    BY <1>1, <1>3, <1>5
  <2>2. \A d \in Clerks : d # c => clerk[d].at # "saving"
    BY <1>1
  <2> QED
    BY <1>6, <2>1, <2>2, ShelfTurns
<1>8. ShelfIsItsTrail'
  BY <1>1, <1>3, <1>5, HandOnTrail DEF StockInv
<1> QED
  BY <1>7, <1>8 DEF StockInv

LEMMA StockStep ==
    ASSUME PlacingInv, StockInv, ~SaveOverlap, PlacingNext \/ UNCHANGED placingVars
    PROVE  StockInv'
<1>1. ASSUME NEW c \in Clerks, AbandonOrder(c)
      PROVE  StockInv'
  BY <1>1, TurnsIdle DEF AbandonOrder
<1>2. CASE UNCHANGED placingVars
  BY <1>2 DEF placingVars, StockInv, PromisedAtMost, CountedOn, IsPlacing, SavesSawIt, ShelfIsItsTrail
<1>3. CASE PlacingNext
  BY <1>1, <1>3, CheckedIsThere, OpenedOrClaimed, CancelBegins, FormatTurns, HandWorkTurns, CommitTurns,
     CancelTurns, AdjustmentTurns, SaveTurns DEF PlacingNext
<1> QED
  BY <1>2, <1>3

LEMMA StockBegins == PlacingInit => StockInv
<1> SUFFICES ASSUME PlacingInit PROVE StockInv
  OBVIOUS
<1>1. /\ \A c \in Clerks : clerk[c] = IdleClerk
      /\ \A o \in Bookings : booking[o].moved = 0
      /\ \A g \in Goods : shelf[g] = OpeningStock /\ byHand[g] = 0
  BY DEF PlacingInit
<1>2. IsFiniteSet(Clerks) /\ Cardinality(Clerks) \in Nat \ {0} /\ MostUnits \in Nat /\ OpeningStock \in Nat
  BY PlacingAssumption, FS_CardinalityType, FS_EmptySet
<1>3. \A c \in Clerks, g \in Goods : CountedOn(clerk[c], g) = 0
  BY <1>1, IdleCountsOnNothing
<1>4. PromisedAtMost
  <2>1. ASSUME NEW g \in Goods
        PROVE  SumFunctionOnSet([c \in Clerks |-> CountedOn(clerk[c], g)], Clerks) = 0
    BY <1>2, <1>3, SumOfZeros
  <2>2. \A m \in Nat, n \in Nat \ {0} : - m * (n - 1) <= 0 /\ - m * (n - 1) \in Int
    <3>1. \A m, k \in Nat : m * k \in Nat /\ (-m) * k = -(m * k)
      OBVIOUS
    <3> QED
      BY <3>1
  <2> QED
    BY <1>1, <1>2, <1>3, <2>1, <2>2 DEF PromisedAtMost
<1>5. SavesSawIt
  BY <1>1, IdleHand DEF SavesSawIt
<1>6. ShelfIsItsTrail
  <2>1. ASSUME NEW g \in Goods
        PROVE  SumFunctionOnSet([o \in Bookings |-> booking[o].moved], {o \in Bookings : booking[o].good = g}) = 0
    <3>1. IsFiniteSet({o \in Bookings : booking[o].good = g})
      BY PlacingAssumption, FS_Subset
    <3> QED
      BY <1>1, <3>1, SumOfZeros
  <2> QED
    BY <1>1, <1>2, <2>1 DEF ShelfIsItsTrail
<1> QED
  BY <1>4, <1>5, <1>6 DEF StockInv

\* No more is oversold than the other calls can have counted on.
LEMMA OversoldAtMost == PlacingInv /\ StockInv => OversoldByOverlapOnly
<1> SUFFICES ASSUME PlacingInv, StockInv, NEW g \in Goods \ (Untracked \cup MadeToOrder)
             PROVE  shelf[g] >= - MostUnits * (Cardinality(Clerks) - 1)
  BY DEF OversoldByOverlapOnly
<1> DEFINE promised == [c \in Clerks |-> CountedOn(clerk[c], g)]
<1>1. \A c \in Clerks : promised[c] \in Nat
  BY CountedUnits
<1>2. shelf[g] - SumFunctionOnSet(promised, Clerks) >= - MostUnits * (Cardinality(Clerks) - 1)
  BY DEF StockInv, PromisedAtMost
<1> HIDE DEF promised
<1>3. SumFunctionOnSet(promised, Clerks) \in Nat /\ shelf[g] \in Int
  BY <1>1, PlacingTypes, PlacingAssumption, SumIsNat
<1>4. PICK least \in Int : least = - MostUnits * (Cardinality(Clerks) - 1)
  BY PlacingAssumption, FS_CardinalityType
<1>5. shelf[g] >= least
  BY <1>2, <1>3, <1>4
<1> QED
  BY <1>4, <1>5

-----------------------------------------------------------------------------
(* The ledger: the figures kept are those counted from its entries.        *)

EntryRow ==
    [id : 0..MaxEntries, gateway : {"STORE_CREDIT", "CASH"}, kind : EntryKinds, status : EntryStatuses, amount : Nat]

LEMMA EntryMade ==
    ASSUME NEW id \in 0..MaxEntries, NEW gateway \in {"STORE_CREDIT", "CASH"}, NEW form,
           form.kind \in EntryKinds, form.status \in EntryStatuses, form.amount \in Nat
    PROVE  Entry(id, gateway, form) \in EntryRow
BY DEF Entry, EntryRow

\* A row put in, or taken out, leaves rows.
LEMMA RowPutIn ==
    ASSUME NEW S, NEW rows \in Seq(S), NEW i \in 1..(Len(rows) + 1), NEW e \in S
    PROVE  InsertAt(rows, i, e) \in Seq(S)
<1>1. SubSeq(rows, 1, i - 1) \in Seq(S) /\ SubSeq(rows, i, Len(rows)) \in Seq(S)
  BY SubSeqProperties
<1> QED
  BY <1>1 DEF InsertAt

LEMMA RowTakenOut ==
    ASSUME NEW S, NEW rows \in Seq(S), NEW i \in 1..Len(rows)
    PROVE  RemoveAt(rows, i) \in Seq(S)
<1>1. SubSeq(rows, 1, i - 1) \in Seq(S) /\ SubSeq(rows, i + 1, Len(rows)) \in Seq(S)
  BY SubSeqProperties
<1> QED
  BY <1>1 DEF RemoveAt

LEMMA RowsWithout ==
    ASSUME NEW S, NEW rows \in Seq(S), NEW id
    PROVE  Without(rows, id) \in Seq(S)
<1> DEFINE places == {i \in DOMAIN rows : rows[i].id = id}
<1>1. CASE places = {}
  BY <1>1 DEF Without
<1>2. CASE places # {}
  <2>1. (CHOOSE i \in places : TRUE) \in 1..Len(rows)
    BY <1>2
  <2> QED
    BY <1>2, <2>1, RowTakenOut DEF Without
<1> QED
  BY <1>1, <1>2

\* What came in and stayed in is what was paid less what was refunded.
LEMMA NetIsPaidLessRefunded ==
    ASSUME NEW rows \in Seq(EntryRow)
    PROVE  /\ TotalOf(rows, "PAYMENT") \in Nat /\ TotalOf(rows, "REFUND") \in Nat
           /\ SumFunctionOnSet([i \in DOMAIN rows |-> IF rows[i].status # "SUCCESS" THEN 0
                                                     ELSE IF rows[i].kind = "PAYMENT" THEN rows[i].amount
                                                     ELSE -rows[i].amount], DOMAIN rows)
                = TotalOf(rows, "PAYMENT") - TotalOf(rows, "REFUND")
<1> DEFINE net == [i \in DOMAIN rows |-> IF rows[i].status # "SUCCESS" THEN 0
                                        ELSE IF rows[i].kind = "PAYMENT" THEN rows[i].amount
                                        ELSE -rows[i].amount]
           paid == [i \in DOMAIN rows |-> Counts(rows[i], "PAYMENT")]
           refunded == [i \in DOMAIN rows |-> Counts(rows[i], "REFUND")]
<1>1. IsFiniteSet(DOMAIN rows)
  BY FS_Interval
<1>2. \A i \in DOMAIN rows : rows[i] \in EntryRow
  OBVIOUS
<1>3. \A i \in DOMAIN rows : /\ paid[i] \in Nat /\ refunded[i] \in Nat /\ net[i] \in Int
                             /\ paid[i] = refunded[i] + net[i]
  BY <1>2 DEF Counts, IsSettled, EntryRow, EntryKinds
<1>4. TotalOf(rows, "PAYMENT") = SumFunctionOnSet(paid, DOMAIN rows) /\ TotalOf(rows, "REFUND") = SumFunctionOnSet(refunded, DOMAIN rows)
  BY DEF TotalOf
<1> HIDE DEF net, paid, refunded
<1>5. SumFunctionOnSet(paid, DOMAIN rows) \in Nat /\ SumFunctionOnSet(refunded, DOMAIN rows) \in Nat
  BY <1>1, <1>3, SumIsNat
<1>6. SumFunctionOnSet(net, DOMAIN rows) \in Int
  BY <1>1, <1>3, SumIsInt
<1>7. SumFunctionOnSet(paid, DOMAIN rows) = SumFunctionOnSet(refunded, DOMAIN rows) + SumFunctionOnSet(net, DOMAIN rows)
  BY <1>1, <1>3, SumOfSums
<1>8. SumFunctionOnSet(net, DOMAIN rows) = TotalOf(rows, "PAYMENT") - TotalOf(rows, "REFUND")
  BY <1>4, <1>5, <1>6, <1>7
<1> QED
  BY <1>4, <1>5, <1>8 DEF net

\* An order that reads PAID has what it costs, less nothing.
LEMMA PaidIsReceived == LedgerInv => PaidMeansReceived
<1> SUFFICES ASSUME LedgerInv, figures.status = "PAID" PROVE PaidMeansReceived
  BY DEF PaidMeansReceived
<1>1. ledger \in Seq(EntryRow)
  BY DEF LedgerInv, EntriesTyped, EntryRow
<1>2. DerivePaymentStatus(ledger) = "PAID"
  BY DEF LedgerInv, FiguresAreTheLedger, FiguresOf
<1>3. TotalOf(ledger, "PAYMENT") \in Nat /\ TotalOf(ledger, "REFUND") \in Nat
  BY <1>1, NetIsPaidLessRefunded
<1>4. TotalOf(ledger, "REFUND") = 0 /\ TotalOf(ledger, "PAYMENT") >= OrderTotal
  <2>1. PICK paid \in Nat, refunded \in Nat : paid = TotalOf(ledger, "PAYMENT") /\ refunded = TotalOf(ledger, "REFUND")
    BY <1>3
  <2>2. refunded > 0 => refunded >= paid \/ refunded < paid
    OBVIOUS
  <2>3. ~ (refunded > 0 /\ refunded >= paid)
    BY <1>2, <2>1 DEF DerivePaymentStatus
  <2>4. ~ (refunded > 0 /\ refunded < paid)
    BY <1>2, <2>1 DEF DerivePaymentStatus
  <2>5. ~ (refunded = 0 /\ paid < OrderTotal)
    BY <1>2, <2>1 DEF DerivePaymentStatus
  <2> QED
    BY <2>1, <2>2, <2>3, <2>4, <2>5, OrderLedgerAssumption
<1> QED
  BY <1>1, <1>3, <1>4, NetIsPaidLessRefunded DEF PaidMeansReceived

LEMMA LedgerStep ==
    ASSUME LedgerInv, ~LedgerOverlap, LedgerNext \/ UNCHANGED ledgerVars
    PROVE  LedgerInv'
<1> USE DEF LedgerInv, FiguresAreTheLedger, DeletionsSawIt
<1>i. IdleCashier.at = "idle"
  BY DEF IdleCashier
<1>t. ledger \in Seq(EntryRow) /\ recorded \in 0..MaxEntries /\ DOMAIN cashier = Cashiers
      /\ \A c \in Cashiers : /\ cashier[c].at \in {"idle", "recording", "deleting"}
                             /\ cashier[c].at = "recording" => cashier[c].form \in EntryForms
  BY DEF EntriesTyped, EntryRow
<1>u. ASSUME ledger' \in Seq(EntryRow), recorded' \in 0..MaxEntries,
             \A c \in Cashiers : /\ cashier'[c].at \in {"idle", "recording", "deleting"}
                                 /\ cashier'[c].at = "recording" => cashier'[c].form \in EntryForms
      PROVE  EntriesTyped'
  BY <1>u DEF EntriesTyped, EntryRow
<1>1. ASSUME NEW c \in Cashiers, NEW form \in EntryForms, OpenEntry(c, form)
      PROVE  LedgerInv'
  <2> DEFINE call == [IdleCashier EXCEPT !.at = "recording", !.form = form]
  <2>1. call.at = "recording" /\ call.form = form
    BY DEF IdleCashier
  <2>2. cashier' = [cashier EXCEPT ![c] = call] /\ UNCHANGED <<ledger, figures, recorded>>
    BY <1>1 DEF OpenEntry
  <2> HIDE DEF call
  <2>3. ASSUME NEW d \in Cashiers
        PROVE  /\ cashier'[d].at \in {"idle", "recording", "deleting"}
               /\ cashier'[d].at = "recording" => cashier'[d].form \in EntryForms
    <3>1. cashier'[d] = IF d = c THEN call ELSE cashier[d]
      BY <1>t, <2>2
    <3>2. CASE d = c
      BY <2>1, <3>1, <3>2
    <3>3. CASE d # c
      BY <1>t, <3>1, <3>3
    <3> QED
      BY <3>2, <3>3
  <2>4. EntriesTyped'
    BY <1>t, <1>u, <2>2, <2>3
  <2> QED
    BY <2>1, <2>2, <2>4
<1>2. ASSUME NEW c \in Cashiers, NEW e, OpenEntryDeletion(c, e)
      PROVE  LedgerInv'
  <2> DEFINE seen == Without(ledger, e.id)
             call == [IdleCashier EXCEPT !.at = "deleting", !.id = e.id, !.seen = seen]
  <2>1. call.id = e.id /\ call.seen = seen /\ call.at = "deleting"
    BY DEF IdleCashier
  <2>2. /\ cashier' = [cashier EXCEPT ![c] = call] /\ UNCHANGED <<ledger, figures, recorded>>
        /\ \A d \in Cashiers : cashier[d].at # "deleting"
    BY <1>2 DEF OpenEntryDeletion, Deleting
  <2>3. call.seen = Without(ledger', call.id)
    BY <2>1, <2>2
  <2> HIDE DEF call, seen
  <2>4. ASSUME NEW d \in Cashiers, cashier'[d].at = "deleting"
        PROVE  d = c /\ cashier'[d] = call
    BY <2>2, <2>4
  <2>5. DOMAIN cashier' = Cashiers /\ figures' = FiguresOf(ledger')
    BY <2>2
  <2>6. \A d \in Cashiers : cashier'[d].at = "deleting" => cashier'[d].seen = Without(ledger', cashier'[d].id)
    BY <2>3, <2>4
  <2>7. EntriesTyped'
    BY <1>t, <1>u, <2>1, <2>2
  <2> QED
    BY <2>4, <2>5, <2>6, <2>7
<1>3. ASSUME NEW c \in Cashiers, RecordEntry(c)
      PROVE  LedgerInv'
  <2>1. figures' = FiguresOf(ledger)' /\ cashier' = [cashier EXCEPT ![c] = IdleCashier]
    BY <1>3 DEF RecordEntry
  <2>2. \A d \in Cashiers : cashier[d].at # "deleting"
    BY <1>3 DEF RecordEntry, Deleting
  <2>3. EntriesTyped'
    <3>1. cashier[c].form \in EntryForms /\ recorded + 1 \in 0..MaxEntries /\ recorded' = recorded + 1
      BY <1>t, <1>3, OrderLedgerAssumption DEF RecordEntry
    <3>2. PICK i \in 1..(Len(ledger) + 1) : ledger' = InsertAt(ledger, i, Entry(recorded + 1, "CASH", cashier[c].form))
      BY <1>3 DEF RecordEntry
    <3>3. Entry(recorded + 1, "CASH", cashier[c].form) \in EntryRow
      BY <3>1, EntryMade, OrderLedgerAssumption DEF EntryForms, EntryKinds, EntryStatuses
    <3>4. ledger' \in Seq(EntryRow)
      BY <1>t, <3>2, <3>3, RowPutIn
    <3> QED
      BY <1>i, <1>t, <1>u, <2>1, <3>1, <3>4
  <2> QED
    BY <1>i, <2>1, <2>2, <2>3
<1>4. ASSUME NEW c \in Cashiers, DeleteEntry(c)
      PROVE  LedgerInv'
  <2>1. cashier[c].seen = Without(ledger, cashier[c].id) /\ \A d \in Cashiers : d # c => cashier[d].at # "deleting"
    BY <1>4 DEF DeleteEntry
  <2>2. figures' = FiguresOf(ledger)' /\ cashier' = [cashier EXCEPT ![c] = IdleCashier]
    BY <1>4, <2>1 DEF DeleteEntry, FiguresAfterDeletion
  <2>3. ledger' \in {ledger, Without(ledger, cashier[c].id)} /\ recorded' = recorded
    BY <1>4 DEF DeleteEntry
  <2>4. EntriesTyped'
    BY <1>i, <1>t, <1>u, <2>2, <2>3, RowsWithout
  <2> QED
    BY <1>i, <2>1, <2>2, <2>4
<1>5. ASSUME NEW c \in Cashiers, CashierDies(c)
      PROVE  LedgerInv'
  <2>1. cashier' = [cashier EXCEPT ![c] = IdleCashier] /\ UNCHANGED <<ledger, figures, recorded>>
    BY <1>5 DEF CashierDies
  <2>2. EntriesTyped'
    BY <1>i, <1>t, <1>u, <2>1
  <2> QED
    BY <1>i, <2>1, <2>2
<1>6. CASE UNCHANGED ledgerVars
  BY <1>6 DEF ledgerVars, EntriesTyped
<1> QED
  BY <1>1, <1>2, <1>3, <1>4, <1>5, <1>6 DEF LedgerNext

LEMMA LedgerBegins == LedgerInit => LedgerInv
<1> SUFFICES ASSUME LedgerInit PROVE LedgerInv
  OBVIOUS
<1>0. 0 \in 0..MaxEntries
  BY OrderLedgerAssumption
<1>1. \A c \in Cashiers : cashier[c].at = "idle"
  BY DEF LedgerInit, IdleCashier
<1>2. OpeningLedger \in Seq(EntryRow)
  <2>1. CASE WalletPaid = 0
    BY <2>1 DEF OpeningLedger
  <2>2. CASE WalletPaid # 0
    <3>1. WalletPaid \in Nat
      BY OrderLedgerAssumption
    <3>2. Entry(0, "STORE_CREDIT", [kind |-> "PAYMENT", status |-> "SUCCESS", amount |-> WalletPaid]) \in EntryRow
      BY <1>0, <3>1, EntryMade DEF EntryKinds, EntryStatuses
    <3> QED
      BY <2>2, <3>2 DEF OpeningLedger
  <2> QED
    BY <2>1, <2>2
<1>3. EntriesTyped
  BY <1>0, <1>1, <1>2 DEF LedgerInit, EntriesTyped, EntryRow
<1> QED
  BY <1>1, <1>3 DEF LedgerInit, LedgerInv, FiguresAreTheLedger, DeletionsSawIt

LEMMA LedgerTyped == LedgerInv => LedgerTypeOK
<1> SUFFICES ASSUME LedgerInv PROVE LedgerTypeOK
  OBVIOUS
<1>0. EntriesTyped /\ figures = FiguresOf(ledger)
  BY DEF LedgerInv, FiguresAreTheLedger
<1>1. /\ ledger \in Seq(EntryRow) /\ recorded \in 0..MaxEntries /\ figures = FiguresOf(ledger)
      /\ \A c \in Cashiers : cashier[c].at \in {"idle", "recording", "deleting"}
  <2>1. ledger \in Seq(EntryRow)
    BY <1>0 DEF EntriesTyped, EntryRow
  <2>2. recorded \in 0..MaxEntries
    BY <1>0 DEF EntriesTyped
  <2>3. \A c \in Cashiers : cashier[c].at \in {"idle", "recording", "deleting"}
    BY <1>0 DEF EntriesTyped
  <2> QED
    BY <1>0, <2>1, <2>2, <2>3
<1>2. \A i \in DOMAIN ledger : ledger[i] \in EntryRow
  BY <1>1
<1>3. TotalOf(ledger, "PAYMENT") \in Nat /\ TotalOf(ledger, "REFUND") \in Nat
  BY <1>1, NetIsPaidLessRefunded
<1>4. DerivePaymentStatus(ledger) \in PayStatuses
  <2>1. PICK paid \in Nat, refunded \in Nat : paid = TotalOf(ledger, "PAYMENT") /\ refunded = TotalOf(ledger, "REFUND")
    BY <1>3
  <2>2. \/ refunded > 0 /\ refunded >= paid
        \/ refunded > 0 /\ refunded < paid
        \/ refunded = 0 /\ paid >= OrderTotal
        \/ refunded = 0 /\ paid < OrderTotal
    BY OrderLedgerAssumption
  <2> QED
    BY <2>1, <2>2 DEF DerivePaymentStatus, PayStatuses
<1>5. figures \in [status : PayStatuses, paid : Nat, refunded : Nat]
  BY <1>1, <1>3, <1>4 DEF FiguresOf
<1> QED
  BY <1>1, <1>2, <1>5 DEF LedgerTypeOK, EntryRow

-----------------------------------------------------------------------------
(* Rates: what a save checked is what is still stored.                     *)

ScreenType ==
    [at : {"idle", "rates", "bulk", "form"}, variant : Variants \cup {"none"},
     price : 0..MaxRate, ladder : -1..MaxRate, stored : [price : 0..MaxRate, ladder : 0..MaxRate]]

RateRow == [source : HistorySources, price : 1..MaxRate, rows : Nat]

\* A save is opened only when no other is, and holds what it read and checked.
LEMMA SaveOpened ==
    ASSUME RatesInv, ~RatesOverlap, NEW s \in Screens, NEW v \in Variants,
           NEW kind \in {"rates", "bulk", "form"}, NEW price \in 1..MaxRate, NEW ladder \in -1..MaxRate,
           Submit(s, kind, v, price, ladder),
           ladder = AsBefore => kind = "rates" /\ LadderFits(price, tariff[v].ladder),
           ladder # AsBefore => LadderFits(price, ladder),
           kind = "bulk" => price = tariff[v].price
    PROVE  RatesInv'
<1>c. MaxRate \in Nat \ {0} /\ MaxSaves \in Nat
  BY RatesAssumption
<1>y. /\ tariff \in [Variants -> Tariffs] /\ tariff[v] \in Tariffs
      /\ screen \in [Screens -> ScreenType] /\ saves \in 0..MaxSaves
  BY DEF RatesInv, RatesTypeOK, ScreenType
<1>e1. tariff' = tariff /\ history' = history /\ saves' \in 0..MaxSaves
  BY <1>c, <1>y DEF Submit
<1>e2. /\ screen' \in [Screens -> ScreenType]
       /\ screen'[s].variant = v /\ screen'[s].price = price /\ screen'[s].ladder = ladder
       /\ screen'[s].stored = tariff[v] /\ screen'[s].at = kind
       /\ \A w \in Screens : w # s => screen'[w] = screen[w]
  <2> DEFINE opened == [at |-> kind, variant |-> v, price |-> price, ladder |-> ladder, stored |-> tariff[v]]
  <2>1. tariff[v] \in [price : 0..MaxRate, ladder : 0..MaxRate]
    BY <1>c, <1>y DEF Tariffs
  <2>2. /\ opened \in ScreenType /\ opened.variant = v /\ opened.price = price /\ opened.ladder = ladder
        /\ opened.stored = tariff[v] /\ opened.at = kind
    BY <1>c, <2>1 DEF ScreenType
  <2>3. screen' = [screen EXCEPT ![s] = opened]
    BY DEF Submit
  <2> HIDE DEF opened
  <2> QED
    BY <1>y, <2>2, <2>3
<1>e3. \A w \in Screens : screen[w].at = "idle"
  BY DEF Submit, IdleScreen
<1>1. RatesTypeOK'
  BY <1>e1, <1>e2 DEF RatesInv, RatesTypeOK, ScreenType
<1>2. OneScreen'
  BY <1>e2, <1>e3 DEF OneScreen
<1>3. WasChecked'
  BY <1>e1, <1>e2, <1>e3 DEF WasChecked, Checked, LadderFits
<1> QED
  BY <1>1, <1>2, <1>3, <1>e1 DEF RatesInv, LadderBelowPrice, LadderFits, HistoryTellsThePrice

\* A save ends: what it wrote fits, and the history tells it.
LEMMA SaveClosed ==
    ASSUME RatesInv, ~RatesOverlap, NEW s \in Screens, screen[s].at # "idle",
           NEW v \in Variants, v = screen[s].variant, CloseScreen(s),
           tariff' \in [Variants -> Tariffs], history' \in [Variants -> RateRow],
           \A w \in Variants : w # v => tariff'[w] = tariff[w] /\ history'[w] = history[w],
           LadderFits(tariff'[v].price, tariff'[v].ladder), history'[v].price = tariff'[v].price
    PROVE  RatesInv'
<1>y. screen \in [Screens -> ScreenType]
  BY DEF RatesInv, RatesTypeOK, ScreenType
<1>i. OneScreen /\ WasChecked /\ LadderBelowPrice /\ HistoryTellsThePrice
  BY DEF RatesInv
<1>e1. /\ screen' \in [Screens -> ScreenType] /\ screen'[s].at = "idle" /\ saves' = saves
       /\ \A w \in Screens : w # s => screen'[w] = screen[w]
  <2>1. IdleScreen \in ScreenType /\ IdleScreen.at = "idle"
    BY RatesAssumption DEF IdleScreen, ScreenType
  <2> HIDE DEF IdleScreen
  <2> QED
    BY <1>y, <2>1 DEF CloseScreen
<1>e2. \A w \in Screens : screen'[w].at = "idle"
  BY <1>i, <1>e1 DEF OneScreen
<1>1. RatesTypeOK'
  BY <1>e1 DEF RatesInv, RatesTypeOK, ScreenType, RateRow
<1>2. OneScreen' /\ WasChecked'
  BY <1>e2 DEF OneScreen, WasChecked
<1>3. LadderBelowPrice'
  BY <1>i DEF LadderBelowPrice, LadderFits
<1>4. HistoryTellsThePrice'
  BY <1>i DEF HistoryTellsThePrice
<1> QED
  BY <1>1, <1>2, <1>3, <1>4 DEF RatesInv

\* What a save holds, one that is open.
LEMMA SaveHolds ==
    ASSUME RatesInv, NEW s \in Screens, screen[s].at # "idle", NEW v, v = screen[s].variant
    PROVE  /\ v \in Variants /\ tariff[v] \in Tariffs /\ screen[s] \in ScreenType
           /\ tariff \in [Variants -> Tariffs] /\ history \in [Variants -> RateRow]
           /\ tariff[v].price \in 1..MaxRate /\ tariff[v].ladder \in 0..MaxRate
           /\ screen[s].price \in 1..MaxRate /\ screen[s].ladder \in -1..MaxRate
           /\ screen[s].stored = tariff[v] /\ history[v].price = tariff[v].price
           /\ LadderFits(tariff[v].price, tariff[v].ladder)
           /\ screen[s].at # "rates" => screen[s].ladder # AsBefore
           /\ screen[s].at = "bulk" => screen[s].price = tariff[v].price
           /\ screen[s].ladder # AsBefore => LadderFits(screen[s].price, screen[s].ladder)
           /\ screen[s].ladder = AsBefore => LadderFits(screen[s].price, tariff[v].ladder)
<1>1. /\ tariff \in [Variants -> Tariffs] /\ history \in [Variants -> RateRow]
      /\ screen \in [Screens -> ScreenType]
  BY DEF RatesInv, RatesTypeOK, ScreenType, RateRow
<1>2. Checked(s)
  BY DEF RatesInv, WasChecked
<1>3. v \in Variants /\ tariff[v] \in Tariffs /\ screen[s] \in ScreenType
  BY <1>1, <1>2 DEF Checked
<1>4. LadderFits(tariff[v].price, tariff[v].ladder) /\ history[v].price = tariff[v].price
  BY <1>3 DEF RatesInv, LadderBelowPrice, HistoryTellsThePrice
<1>5. tariff[v].price \in 1..MaxRate /\ tariff[v].ladder \in 0..MaxRate /\ screen[s].ladder \in -1..MaxRate
  BY <1>3 DEF Tariffs, ScreenType
<1> QED
  BY <1>1, <1>2, <1>3, <1>4, <1>5 DEF Checked, LadderFits

\* The rates screens write what differs from what they read.
LEMMA RatesCommitted ==
    ASSUME RatesInv, ~RatesOverlap, NEW s \in Screens, CommitRates(s)
    PROVE  /\ RatesInv'
           /\ \A w \in Variants : history'[w] # history[w] => tariff'[w] # tariff[w]
<1> DEFINE v == screen[s].variant
<1>1. screen[s].at # "idle" /\ CloseScreen(s)
  BY DEF CommitRates
<1>2. /\ v \in Variants /\ tariff[v] \in Tariffs
      /\ tariff \in [Variants -> Tariffs] /\ history \in [Variants -> RateRow]
      /\ tariff[v].price \in 1..MaxRate /\ tariff[v].ladder \in 0..MaxRate
      /\ screen[s].price \in 1..MaxRate /\ screen[s].ladder \in -1..MaxRate
      /\ screen[s].stored = tariff[v] /\ history[v].price = tariff[v].price
      /\ LadderFits(tariff[v].price, tariff[v].ladder)
      /\ screen[s].ladder # AsBefore => LadderFits(screen[s].price, screen[s].ladder)
      /\ screen[s].ladder = AsBefore => LadderFits(screen[s].price, tariff[v].ladder)
  BY <1>1, SaveHolds
<1>3. MaxRate \in Nat \ {0}
  BY RatesAssumption
<1>4. CASE ~ PriceMoved(s) /\ ~ LadderMoved(s)
  <2>1. tariff' = tariff /\ history' = history
    BY <1>4 DEF CommitRates
  <2> QED
    BY <1>1, <1>2, <2>1, SaveClosed
<1>5. CASE PriceMoved(s) \/ LadderMoved(s)
  <2> DEFINE row == [price |-> IF PriceMoved(s) THEN screen[s].price ELSE tariff[v].price,
                     ladder |-> IF LadderMoved(s) THEN screen[s].ladder ELSE tariff[v].ladder]
             entry == HistoryRow(v, "RATES_SCREEN", RowPrice(s))
  <2>1. tariff' = [tariff EXCEPT ![v] = row] /\ history' = [history EXCEPT ![v] = entry]
    BY <1>5 DEF CommitRates
  <2>2. /\ row \in Tariffs
        /\ row.price = IF PriceMoved(s) THEN screen[s].price ELSE tariff[v].price
        /\ row.ladder = IF LadderMoved(s) THEN screen[s].ladder ELSE tariff[v].ladder
    BY <1>2, <1>3 DEF Tariffs, LadderMoved, AsBefore
  <2>3. entry \in RateRow /\ entry.price = row.price
    <3>1. history[v].rows \in Nat
      BY <1>2 DEF RateRow
    <3> QED
      BY <1>2, <2>2, <3>1 DEF HistoryRow, RowPrice, RateRow, HistorySources
  <2>4. LadderFits(row.price, row.ladder)
    BY <1>2, <1>3, <2>2 DEF LadderFits, PriceMoved, LadderMoved, AsBefore, NoLadder
  <2>5. row # tariff[v]
    BY <1>2, <1>5, <2>2 DEF PriceMoved, LadderMoved
  <2> HIDE DEF row, entry
  <2>6. /\ tariff' \in [Variants -> Tariffs] /\ history' \in [Variants -> RateRow]
        /\ tariff'[v] = row /\ history'[v] = entry
        /\ \A w \in Variants : w # v => tariff'[w] = tariff[w] /\ history'[w] = history[w]
    BY <1>2, <2>1, <2>2, <2>3
  <2>7. LadderFits(tariff'[v].price, tariff'[v].ladder) /\ history'[v].price = tariff'[v].price
    BY <2>3, <2>4, <2>6
  <2> QED
    BY <1>1, <1>2, <2>5, <2>6, <2>7, SaveClosed
<1> QED
  BY <1>4, <1>5

\* The form writes both, checked against one another.
LEMMA FormCommitted ==
    ASSUME RatesInv, ~RatesOverlap, NEW s \in Screens, CommitForm(s)
    PROVE  /\ RatesInv'
           /\ \A w \in Variants : history'[w] # history[w] => history'[w].source = "PRODUCT_FORM"
<1> DEFINE v == screen[s].variant
           row == [price |-> screen[s].price, ladder |-> screen[s].ladder]
           entry == HistoryRow(v, "PRODUCT_FORM", screen[s].price)
<1>1. screen[s].at = "form" /\ CloseScreen(s)
  BY DEF CommitForm
<1>2. /\ v \in Variants /\ tariff[v] \in Tariffs
      /\ tariff \in [Variants -> Tariffs] /\ history \in [Variants -> RateRow]
      /\ screen[s].price \in 1..MaxRate /\ screen[s].ladder \in -1..MaxRate
      /\ screen[s].stored = tariff[v] /\ history[v].price = tariff[v].price
      /\ screen[s].ladder # AsBefore /\ LadderFits(screen[s].price, screen[s].ladder)
  BY <1>1, SaveHolds
<1>3. MaxRate \in Nat \ {0}
  BY RatesAssumption
<1>4. row \in Tariffs /\ row.price = screen[s].price /\ row.ladder = screen[s].ladder
  BY <1>2, <1>3 DEF Tariffs, AsBefore
<1>5. entry \in RateRow /\ entry.price = screen[s].price /\ entry.source = "PRODUCT_FORM"
  <2>1. history[v].rows \in Nat
    BY <1>2 DEF RateRow
  <2> QED
    BY <1>2, <2>1 DEF HistoryRow, RateRow, HistorySources
<1>6. /\ tariff' = [tariff EXCEPT ![v] = row]
      /\ history' = IF FormSeesChange(s) THEN [history EXCEPT ![v] = entry] ELSE history
  BY DEF CommitForm
<1>7. ~ FormSeesChange(s) => screen[s].price = tariff[v].price
  BY <1>2 DEF FormSeesChange, PriceMoved
<1> HIDE DEF row, entry
<1>8. /\ tariff' \in [Variants -> Tariffs] /\ history' \in [Variants -> RateRow] /\ tariff'[v] = row
      /\ history'[v].price = row.price
      /\ \A w \in Variants : w # v => tariff'[w] = tariff[w] /\ history'[w] = history[w]
      /\ history'[v] # history[v] => history'[v].source = "PRODUCT_FORM"
  BY <1>2, <1>4, <1>5, <1>6, <1>7
<1>9. LadderFits(tariff'[v].price, tariff'[v].ladder) /\ history'[v].price = tariff'[v].price
  BY <1>2, <1>4, <1>8
<1> QED
  BY <1>1, <1>2, <1>8, <1>9, SaveClosed

LEMMA RatesStep ==
    ASSUME RatesInv, ~RatesOverlap, RatesNext \/ UNCHANGED ratesVars
    PROVE  RatesInv'
<1>c. MaxRate \in Nat \ {0}
  BY RatesAssumption
<1>y. /\ \A v \in Variants : tariff[v].price \in 1..MaxRate /\ tariff[v].ladder \in 0..MaxRate
      /\ \A v \in Variants : LadderFits(tariff[v].price, tariff[v].ladder)
  BY DEF RatesInv, RatesTypeOK, Tariffs, LadderBelowPrice
<1>1. ASSUME NEW s \in Screens, NEW v \in Variants, NEW price \in 1..MaxRate, NEW ladder \in -1..MaxRate,
             OpenRates(s, v, price, ladder)
      PROVE  RatesInv'
  <2>1. Submit(s, "rates", v, price, ladder)
    BY <1>1 DEF OpenRates
  <2>2. ladder # AsBefore => LadderFits(price, ladder)
    BY <1>1 DEF OpenRates
  <2>3. ladder = AsBefore => LadderFits(price, tariff[v].ladder)
    BY <1>y, <1>1 DEF OpenRates
  <2> QED
    BY <2>1, <2>2, <2>3, SaveOpened
<1>2. ASSUME NEW s \in Screens, NEW v \in Variants, NEW price \in 1..MaxRate, NEW ladder \in 0..MaxRate,
             OpenForm(s, v, price, ladder)
      PROVE  RatesInv'
  <2>1. Submit(s, "form", v, price, ladder) /\ LadderFits(price, ladder)
    BY <1>2 DEF OpenForm
  <2>2. ladder \in -1..MaxRate /\ ladder # AsBefore
    BY <1>c DEF AsBefore
  <2> QED
    BY <2>1, <2>2, SaveOpened
<1>3. ASSUME NEW s \in Screens, NEW v \in Variants, NEW ladder \in 0..MaxRate, OpenBulk(s, v, ladder)
      PROVE  RatesInv'
  <2>1. Submit(s, "bulk", v, tariff[v].price, ladder) /\ LadderFits(tariff[v].price, ladder)
    BY <1>3 DEF OpenBulk
  <2>2. ladder \in -1..MaxRate /\ ladder # AsBefore /\ tariff[v].price \in 1..MaxRate
    BY <1>c, <1>y DEF AsBefore
  <2> QED
    BY <2>1, <2>2, SaveOpened
<1>4. CASE RatesNext
  <2>1. AsBefore \in -1..MaxRate /\ \A ladder \in 0..MaxRate : ladder \in -1..MaxRate
    BY <1>c DEF AsBefore
  <2> QED
    BY <1>4, <1>1, <1>2, <1>3, <2>1, RatesCommitted, FormCommitted DEF RatesNext
<1>5. CASE UNCHANGED ratesVars
  BY <1>5 DEF ratesVars, RatesInv, RatesTypeOK, OneScreen, WasChecked, Checked, LadderBelowPrice,
     LadderFits, HistoryTellsThePrice
<1> QED
  BY <1>4, <1>5

LEMMA RatesBegin == RatesInit => RatesInv
<1> SUFFICES ASSUME RatesInit PROVE RatesInv
  OBVIOUS
<1>1. PICK price \in 2..MaxRate : tariff = [v \in Variants |-> [price |-> price, ladder |-> NoLadder]]
  BY DEF RatesInit
<1>2. MaxRate \in Nat \ {0} /\ price \in 1..MaxRate /\ NoLadder \in 0..MaxRate
  BY RatesAssumption DEF NoLadder
<1>3. \A v \in Variants : /\ tariff[v] \in Tariffs /\ tariff[v].price = price /\ tariff[v].ladder = NoLadder
                          /\ history[v] = [source |-> "PRODUCT_FORM", price |-> tariff[v].price, rows |-> 0]
                          /\ history[v].price = tariff[v].price
  BY <1>1, <1>2 DEF RatesInit, Tariffs
<1>4. IdleScreen \in ScreenType /\ IdleScreen.at = "idle"
  BY RatesAssumption DEF IdleScreen, ScreenType
<1>5. /\ tariff \in [Variants -> Tariffs] /\ saves \in 0..MaxSaves
      /\ \A s \in Screens : screen[s].at = "idle"
      /\ screen \in [Screens -> ScreenType]
  BY <1>1, <1>3, <1>4, RatesAssumption DEF RatesInit
<1>6. history \in [Variants -> RateRow]
  BY <1>2, <1>3 DEF RatesInit, RateRow, HistorySources
<1>7. RatesTypeOK
  BY <1>5, <1>6 DEF RatesTypeOK, ScreenType, RateRow
<1>8. OneScreen /\ WasChecked
  BY <1>5 DEF OneScreen, WasChecked
<1>9. LadderBelowPrice /\ HistoryTellsThePrice
  BY <1>3 DEF LadderBelowPrice, LadderFits, HistoryTellsThePrice
<1> QED
  BY <1>7, <1>8, <1>9 DEF RatesInv

\* The rates screens write a row of a change only.
LEMMA RatesRecordChanges ==
    ASSUME RatesInv, ~RatesOverlap, RatesNext, NEW v \in Variants,
           history'[v] # history[v], history'[v].source = "RATES_SCREEN"
    PROVE  tariff'[v] # tariff[v]
<1>1. ASSUME NEW s \in Screens, NEW kind, NEW w, NEW price, NEW ladder, Submit(s, kind, w, price, ladder)
      PROVE  FALSE
  BY <1>1 DEF Submit
<1>2. PICK s \in Screens : CommitRates(s) \/ CommitForm(s)
  BY <1>1 DEF RatesNext, OpenRates, OpenForm, OpenBulk
<1> QED
  BY <1>2, RatesCommitted, FormCommitted

-----------------------------------------------------------------------------
(* Payment methods: what is on has its keys, and pays where it was opened. *)

PaymentStages == {"shopping", "preparing", "choosing", "opening", "CREATED", "ORDER_CREATED", "EXPIRED"}

PaymentType == [at : PaymentStages, ways : Seq(OnlineGateways), gateway : Providers,
                account : Merchants \cup {""}, closed : BOOLEAN]

TillType == {"none", "open", "paid"}

\* What the admin's screen holds of a save is whole rows, each with what its switch needs.
SaveIsWhole(save) ==
    /\ save.at \in {"idle", "saving", "ordering"}
    /\ \A p \in DOMAIN save.rows : save.rows[p] \in RowValues /\ RowHasCredentials(p, save.rows[p])

\* What a payment in the customer's hands agrees with: the account saved, the
\* window it was opened in, and the gateway's till.
PaymentAgrees(pay, money) ==
    /\ pay.at \in {"opening", "CREATED"} =>
          /\ pay.gateway \in OnlineGateways
          /\ pay.account # "" => /\ methods[pay.gateway].account = pay.account
                                 /\ methods[pay.gateway].secret = pay.account
    /\ pay.at = "CREATED" => pay.account # ""
    /\ pay.at = "EXPIRED" => pay.closed /\ money # "paid"

LEMMA MethodBounds == MaxMethodSaves \in Nat /\ MaxRefusals \in Nat
BY PaymentMethodsAssumption

LEMMA MethodsHold ==
    ASSUME MethodsInv
    PROVE  /\ methods \in [SettingRows -> RowValues] /\ paying \in [Shoppers -> PaymentType]
           /\ till \in [Shoppers -> TillType] /\ DOMAIN methodEditor = SettingEditors
           /\ methodSaves \in 0..MaxMethodSaves /\ refusals \in 0..MaxRefusals
           /\ \A e \in SettingEditors : SaveIsWhole(methodEditor[e])
           /\ \A s \in Shoppers : PaymentAgrees(paying[s], till[s])
           /\ OnHasCredentials
BY DEF MethodsInv, MethodsTypeOK, MethodsShape, PaidWhereOpened, ExpiredWasNotPaid, SavesHaveCredentials,
       SaveIsWhole, PaymentAgrees, PaymentType, PaymentStages, TillType

LEMMA MethodsHoldNext ==
    ASSUME methods' \in [SettingRows -> RowValues], paying' \in [Shoppers -> PaymentType],
           till' \in [Shoppers -> TillType], DOMAIN methodEditor' = SettingEditors,
           methodSaves' \in 0..MaxMethodSaves, refusals' \in 0..MaxRefusals,
           \A e \in SettingEditors : SaveIsWhole(methodEditor'[e]),
           \A s \in Shoppers : PaymentAgrees(paying[s], till[s])',
           OnHasCredentials'
    PROVE  MethodsInv'
<1>1. \A s \in Shoppers : paying'[s] \in PaymentType
  OBVIOUS
<1>2. MethodsTypeOK'
  BY <1>1 DEF MethodsTypeOK, SaveIsWhole, PaymentType, PaymentStages, TillType
<1>3. MethodsShape'
  BY DEF MethodsShape, PaymentType, PaymentStages
<1>4. SavesHaveCredentials'
  BY DEF SavesHaveCredentials, SaveIsWhole
<1>5. PaidWhereOpened' /\ ExpiredWasNotPaid'
  BY DEF PaidWhereOpened, ExpiredWasNotPaid, PaymentAgrees
<1> QED
  BY <1>2, <1>3, <1>4, <1>5 DEF MethodsInv

\* An admin's save is read or dropped, and the customers see nothing of it.
LEMMA SaveMoved ==
    ASSUME MethodsInv, NEW e \in SettingEditors, NEW save, SaveIsWhole(save),
           methodEditor' = [methodEditor EXCEPT ![e] = save], methodSaves' \in 0..MaxMethodSaves,
           UNCHANGED <<methods, paying, till, refusals>>
    PROVE  MethodsInv'
<1>1. DOMAIN methodEditor' = SettingEditors /\ \A f \in SettingEditors : SaveIsWhole(methodEditor'[f])
  BY MethodsHold
<1>2. \A s \in Shoppers : PaymentAgrees(paying[s], till[s])'
  BY MethodsHold DEF PaymentAgrees
<1>3. OnHasCredentials'
  BY MethodsHold DEF OnHasCredentials
<1> QED
  BY <1>1, <1>2, <1>3, MethodsHold, MethodsHoldNext

\* A customer's payment moves on.
LEMMA ShopperMoved ==
    ASSUME MethodsInv, NEW s \in Shoppers, NEW pay \in PaymentType, NEW money \in TillType,
           paying' = [paying EXCEPT ![s] = pay], till' = [till EXCEPT ![s] = money],
           PaymentAgrees(pay, money), refusals' \in 0..MaxRefusals,
           UNCHANGED <<methods, methodEditor, methodSaves>>
    PROVE  MethodsInv'
<1>1. /\ paying' \in [Shoppers -> PaymentType] /\ till' \in [Shoppers -> TillType]
      /\ \A t \in Shoppers : IF t = s THEN paying'[t] = pay /\ till'[t] = money
                             ELSE paying'[t] = paying[t] /\ till'[t] = till[t]
  BY MethodsHold
<1>2. \A t \in Shoppers : PaymentAgrees(paying[t], till[t])'
  BY <1>1, MethodsHold DEF PaymentAgrees
<1>3. OnHasCredentials'
  BY MethodsHold DEF OnHasCredentials
<1> QED
  BY <1>1, <1>2, <1>3, MethodsHold, MethodsHoldNext

-----------------------------------------------------------------------------

\* The row a form makes of the old one is a row, and one that is switched on
\* only with what it needs.
LEMMA NextRowHolds ==
    ASSUME NEW p \in SettingRows, NEW form, NEW before \in RowValues,
           form.on \in BOOLEAN, form.place \in Nat, form.account \in Merchants \cup {""},
           form.typed \in Merchants \cup {""}, form.takes \in {{}, {{}}},
           form.on /\ p # "COD" => NextSecret(form, before) # "",
           form.on /\ p \in OnlineGateways => form.account # ""
    PROVE  NextRow(form, before) \in RowValues /\ RowHasCredentials(p, NextRow(form, before))
<1>1. NextSecret(form, before) \in Merchants \cup {""}
  BY DEF NextSecret, RowValues
<1>2. before.takes \in SUBSET PayOptions
  BY DEF RowValues
<1>3. (IF form.takes = {} THEN before.takes ELSE CHOOSE t \in form.takes : TRUE) \in SUBSET PayOptions
  <2>1. CASE form.takes = {}
    BY <1>2, <2>1
  <2>2. CASE form.takes = {{}}
    <3>1. (CHOOSE t \in {{}} : TRUE) = {}
      OBVIOUS
    <3> QED
      BY <2>2, <3>1
  <2> QED
    BY <2>1, <2>2
<1> HIDE DEF NextSecret
<1> QED
  BY <1>1, <1>3 DEF NextRow, RowValues, RowHasCredentials

LEMMA SaveIsHeld ==
    ASSUME NEW p \in SettingRows, NEW form, NEW row \in RowValues, RowHasCredentials(p, row),
           row = NextRow(form, methods[p])
    PROVE  SaveIsWhole(Saving(p, form))
BY DEF SaveIsWhole, Saving

LEMMA MethodPosted ==
    ASSUME MethodsInv, NEW e \in SettingEditors, NEW p \in Providers, NEW form \in SettingForms(p), PostMethod(e, p, form)
    PROVE  MethodsInv'
<1>1. /\ form.on \in BOOLEAN /\ form.place \in Nat /\ form.account \in Merchants \cup {""}
      /\ form.typed \in Merchants \cup {""} /\ form.takes \in {{}, {{}}}
  BY PaymentMethodsAssumption DEF SettingForms
<1>2. /\ form.on /\ p # "COD" => NextSecret(form, methods[p]) # ""
      /\ form.on /\ p \in OnlineGateways => form.account # ""
  BY DEF PostMethod, MayBeOn
<1>3. p \in SettingRows /\ methods[p] \in RowValues
  BY MethodsHold DEF SettingRows
<1>4. NextRow(form, methods[p]) \in RowValues /\ RowHasCredentials(p, NextRow(form, methods[p]))
  BY <1>1, <1>2, <1>3, NextRowHolds
<1>5. SaveIsWhole(Saving(p, form))
  BY <1>3, <1>4, SaveIsHeld
<1>6. methodSaves' \in 0..MaxMethodSaves
  BY MethodsHold, MethodBounds DEF PostMethod
<1> QED
  BY <1>5, <1>6, SaveMoved DEF PostMethod

LEMMA ChannelPosted ==
    ASSUME MethodsInv, NEW e \in SettingEditors, NEW c \in ChannelKeys, NEW form \in ChannelForms, PostChannel(e, c, form)
    PROVE  MethodsInv'
<1>1. /\ form.on \in BOOLEAN /\ form.place \in Nat /\ form.account \in Merchants \cup {""}
      /\ form.typed \in Merchants \cup {""} /\ form.takes \in {{}, {{}}}
  <2>1. form \in [on : BOOLEAN, place : {0}, account : {""}, typed : Merchants \cup {""}, clear : BOOLEAN,
                  takes : {{}}]
    BY DEF ChannelForms
  <2>2. form.takes = {} /\ form.place = 0 /\ form.account = ""
    BY <2>1
  <2>3. form.on \in BOOLEAN /\ form.typed \in Merchants \cup {""}
    BY <2>1
  <2>4. form.place \in Nat
    <3>1. 0 \in Nat
      OBVIOUS
    <3> QED
      BY <2>2, <3>1, Zenon
  <2>5. form.account \in Merchants \cup {""} /\ form.takes \in {{}, {{}}}
    BY <2>2, Zenon
  <2> QED
    BY <2>3, <2>4, <2>5
<1>2. /\ form.on /\ c # "COD" => NextSecret(form, methods[c]) # ""
      /\ form.on /\ c \in OnlineGateways => form.account # ""
  BY PaymentMethodsAssumption DEF PostChannel, Providers
<1>3. c \in SettingRows /\ methods[c] \in RowValues
  BY MethodsHold DEF SettingRows
<1>4. NextRow(form, methods[c]) \in RowValues /\ RowHasCredentials(c, NextRow(form, methods[c]))
  BY <1>1, <1>2, <1>3, NextRowHolds
<1>5. SaveIsWhole(Saving(c, form))
  BY <1>3, <1>4, SaveIsHeld
<1>6. methodSaves' \in 0..MaxMethodSaves
  <2>1. methodSaves \in 0..MaxMethodSaves /\ methodSaves < MaxMethodSaves /\ methodSaves' = methodSaves + 1
    BY MethodsHold DEF PostChannel
  <2> QED
    BY <2>1, MethodBounds
<1> QED
  BY <1>5, <1>6, SaveMoved DEF PostChannel

\* The rows of a reorder are the rows there are, in other places.
LEMMA RowsMoved ==
    ASSUME MethodsInv, NEW ranking, DOMAIN ranking \subseteq Nat \ {0},
           \A i \in DOMAIN ranking : ranking[i] \in Providers
    PROVE  \A p \in DOMAIN Moved(ranking) :
               Moved(ranking)[p] \in RowValues /\ RowHasCredentials(p, Moved(ranking)[p])
<1> SUFFICES ASSUME NEW p \in {ranking[i] : i \in DOMAIN ranking}
             PROVE  Moved(ranking)[p] \in RowValues /\ RowHasCredentials(p, Moved(ranking)[p])
  BY DEF Moved
<1>1. p \in SettingRows /\ methods[p] \in RowValues
  BY MethodsHold DEF SettingRows
<1>2. RowHasCredentials(p, methods[p])
  BY <1>1, MethodsHold DEF OnHasCredentials, RowHasCredentials
<1> DEFINE place == (CHOOSE i \in DOMAIN ranking : ranking[i] = p) - 1
<1>3. place \in Nat
  OBVIOUS
<1>4. Moved(ranking)[p] = [methods[p] EXCEPT !.place = place]
  BY DEF Moved
<1> HIDE DEF place
<1> QED
  BY <1>1, <1>2, <1>3, <1>4 DEF RowValues, RowHasCredentials

LEMMA OrderPosted ==
    ASSUME MethodsInv, NEW e \in SettingEditors, NEW ranking \in {<<"PAYU", "RAZORPAY", "COD">>, <<"RAZORPAY", "COD", "PAYU">>},
           PostOrder(e, ranking)
    PROVE  MethodsInv'
<1>1. DOMAIN ranking \subseteq Nat \ {0} /\ \A i \in DOMAIN ranking : ranking[i] \in Providers
  BY DEF Providers, OnlineGateways
<1> DEFINE save == [at |-> "ordering", rows |-> Moved(ranking)]
<1>2. SaveIsWhole(save)
  BY <1>1, RowsMoved DEF SaveIsWhole
<1>3. methodSaves' \in 0..MaxMethodSaves
  BY MethodsHold, MethodBounds DEF PostOrder
<1>4. methodEditor' = [methodEditor EXCEPT ![e] = save]
  BY DEF PostOrder
<1> HIDE DEF save
<1> QED
  BY <1>2, <1>3, <1>4, SaveMoved DEF PostOrder

LEMMA MethodsWritten ==
    ASSUME MethodsInv, ~RotateInFlight, NEW e \in SettingEditors, WriteMethods(e)
    PROVE  MethodsInv'
<1> DEFINE rows == methodEditor[e].rows
<1>1. \A p \in DOMAIN rows : rows[p] \in RowValues /\ RowHasCredentials(p, rows[p])
  BY MethodsHold DEF SaveIsWhole
<1>2. /\ methods' = [p \in SettingRows |-> IF p \in DOMAIN rows THEN rows[p] ELSE methods[p]]
      /\ methodEditor' = [methodEditor EXCEPT ![e] = NoSave]
      /\ UNCHANGED <<paying, till, methodSaves, refusals>>
      /\ \A p \in DOMAIN rows : InFlight(p) # {} => /\ rows[p].account = methods[p].account
                                                    /\ rows[p].secret = methods[p].secret
  BY DEF WriteMethods
<1> HIDE DEF rows
<1>3. methods' \in [SettingRows -> RowValues]
  BY <1>1, <1>2, MethodsHold
<1>4. SaveIsWhole(NoSave)
  BY DEF SaveIsWhole, NoSave
<1>5. DOMAIN methodEditor' = SettingEditors /\ \A f \in SettingEditors : SaveIsWhole(methodEditor'[f])
  BY <1>2, <1>4, MethodsHold
<1>6. ASSUME NEW s \in Shoppers
      PROVE  PaymentAgrees(paying[s], till[s])'
  <2>1. PaymentAgrees(paying[s], till[s]) /\ paying'[s] = paying[s] /\ till'[s] = till[s]
    BY <1>2, MethodsHold
  <2>2. CASE paying[s].at \in {"opening", "CREATED"}
    <3>1. paying[s].gateway \in OnlineGateways /\ paying[s].gateway \in SettingRows
      BY <2>1, <2>2 DEF PaymentAgrees, SettingRows, Providers
    <3>2. InFlight(paying[s].gateway) # {}
      BY <2>2 DEF InFlight
    <3>3. /\ methods'[paying[s].gateway].account = methods[paying[s].gateway].account
          /\ methods'[paying[s].gateway].secret = methods[paying[s].gateway].secret
      BY <1>2, <3>1, <3>2
    <3> QED
      BY <2>1, <3>3 DEF PaymentAgrees
  <2>3. CASE paying[s].at \notin {"opening", "CREATED"}
    BY <2>1, <2>3 DEF PaymentAgrees
  <2> QED
    BY <2>2, <2>3
<1>7. OnHasCredentials'
  BY <1>1, <1>2, MethodsHold DEF OnHasCredentials, RowHasCredentials
<1> QED
  BY <1>2, <1>3, <1>5, <1>6, <1>7, MethodsHold, MethodsHoldNext

-----------------------------------------------------------------------------

\* Who is tried for a payment: gateways, and somebody when one can take it.
LEMMA RouteFinds ==
    ASSUME MethodsInv, NEW option
    PROVE  /\ RouteOption(option) \in Seq(OnlineGateways)
           /\ RouteOption(option) = <<>> => MayTake(option) = {}
<1> DEFINE able == MayTake(option)
           first == CHOOSE g \in able : \A h \in able \ {g} : IsBefore(g, h)
           second == CHOOSE h \in able : h # first
<1>1. able \subseteq OnlineGateways
  BY DEF MayTake
<1>2. RouteOption(option) = IF able = {} THEN <<>> ELSE IF able = {first} THEN <<first>> ELSE <<first, second>>
  BY DEF RouteOption
<1>3. ASSUME able # {}
      PROVE  first \in able
  <2>1. methods["PAYU"].place \in Nat /\ methods["RAZORPAY"].place \in Nat
    BY MethodsHold DEF SettingRows, Providers, OnlineGateways, RowValues
  <2>2. IsBefore("PAYU", "RAZORPAY") \/ IsBefore("RAZORPAY", "PAYU")
    BY <2>1 DEF IsBefore
  <2>3. \E g \in able : \A h \in able \ {g} : IsBefore(g, h)
    BY <1>1, <1>3, <2>2 DEF OnlineGateways
  <2> QED
    BY <2>3
<1>4. ASSUME able # {}, able # {first}
      PROVE  second \in able
  BY <1>3, <1>4
<1> HIDE DEF able, first, second
<1>5. CASE able = {}
  BY <1>2, <1>5 DEF able
<1>6. CASE able # {}
  <2>1. first \in OnlineGateways /\ (able # {first} => second \in OnlineGateways)
    BY <1>1, <1>3, <1>4, <1>6
  <2>2. RouteOption(option) \in Seq(OnlineGateways) /\ RouteOption(option) # <<>>
    BY <1>2, <1>6, <2>1
  <2> QED
    BY <2>2
<1> QED
  BY <1>5, <1>6

LEMMA NobodyPays == NotPaying \in PaymentType /\ NotPaying.at = "shopping"
BY EmptySeq DEF NotPaying, PaymentType, PaymentStages, Providers

LEMMA PaymentStarted ==
    ASSUME MethodsInv, NEW s \in Shoppers, NEW option, StartPayment(s, option)
    PROVE  MethodsInv'
<1> DEFINE going == [paying[s] EXCEPT !.at = "preparing"]
           pay == [going EXCEPT !.ways = RouteOption(option)]
<1>1. going \in PaymentType /\ going.at = "preparing"
  BY MethodsHold DEF PaymentType, PaymentStages
<1>2. pay \in PaymentType /\ pay.at = "preparing"
  <2> HIDE DEF going
  <2> QED
    BY <1>1, RouteFinds DEF PaymentType
<1>3. paying' = [paying EXCEPT ![s] = pay]
  BY MethodsHold DEF StartPayment
<1>4. till' = [till EXCEPT ![s] = till[s]] /\ till[s] \in TillType /\ refusals' \in 0..MaxRefusals
  BY MethodsHold DEF StartPayment
<1> HIDE DEF pay
<1>5. PaymentAgrees(pay, till[s])
  BY <1>2 DEF PaymentAgrees
<1> QED
  BY <1>2, <1>3, <1>4, <1>5, ShopperMoved DEF StartPayment

LEMMA PaymentPrepared ==
    ASSUME MethodsInv, NEW s \in Shoppers, Prepare(s)
    PROVE  MethodsInv'
<1> DEFINE going == [paying[s] EXCEPT !.at = "choosing"]
           pay == IF methods[Head(paying[s].ways)].on THEN going ELSE NotPaying
<1>1. going \in PaymentType /\ going.at = "choosing"
  BY MethodsHold DEF PaymentType, PaymentStages
<1>2. paying' = [paying EXCEPT ![s] = pay]
  BY DEF Prepare
<1>3. till' = [till EXCEPT ![s] = till[s]] /\ till[s] \in TillType /\ refusals' \in 0..MaxRefusals
  BY MethodsHold DEF Prepare
<1> HIDE DEF going
<1>4. pay \in PaymentType /\ pay.at \in {"choosing", "shopping"}
  BY <1>1, NobodyPays
<1> HIDE DEF pay
<1>5. PaymentAgrees(pay, till[s])
  BY <1>4 DEF PaymentAgrees
<1> QED
  BY <1>2, <1>3, <1>4, <1>5, ShopperMoved DEF Prepare

LEMMA CredentialsRead ==
    ASSUME MethodsInv, NEW s \in Shoppers, ReadCredentials(s)
    PROVE  MethodsInv'
<1> DEFINE g == Head(paying[s].ways)
           less == [paying[s] EXCEPT !.ways = Tail(paying[s].ways)]
           going == [less EXCEPT !.at = "opening"]
           account == IF methods[g].secret = methods[g].account THEN methods[g].account ELSE ""
           with == [going EXCEPT !.gateway = g]
           pay == [with EXCEPT !.account = account]
<1>1. /\ paying[s] \in PaymentType /\ paying[s].ways \in Seq(OnlineGateways) /\ paying[s].ways # <<>>
      /\ paying[s].at = "choosing"
  BY MethodsHold DEF ReadCredentials, PaymentType
<1>2. g \in OnlineGateways /\ Tail(paying[s].ways) \in Seq(OnlineGateways)
  BY <1>1, HeadTailProperties
<1>3. methods[g] \in RowValues /\ g \in Providers
  BY <1>2, MethodsHold DEF SettingRows, Providers
<1>4. account \in Merchants \cup {""}
  BY <1>3 DEF RowValues
<1>5. less \in PaymentType /\ less.at = "choosing"
  BY <1>1, <1>2 DEF PaymentType
<1>6. paying' = [paying EXCEPT ![s] = less] \/ paying' = [paying EXCEPT ![s] = pay]
  <2> DEFINE ready == methods[g].on /\ Usable(g)
             opened == [paying[s] EXCEPT !.at = "opening", !.gateway = g, !.ways = Tail(paying[s].ways),
                                        !.account = account]
  <2>1. paying' = [paying EXCEPT ![s] = IF ready THEN opened ELSE less]
    BY DEF ReadCredentials
  <2>2. opened = pay
    <3> HIDE DEF g, account
    <3> QED
      BY <1>1 DEF PaymentType
  <2> HIDE DEF ready, opened, less, pay
  <2> QED
    BY <2>1, <2>2
<1>7. till' = [till EXCEPT ![s] = till[s]] /\ till[s] \in TillType /\ refusals' \in 0..MaxRefusals
  BY MethodsHold DEF ReadCredentials
<1> HIDE DEF less
<1>8. going \in PaymentType /\ going.at = "opening"
  BY <1>5 DEF PaymentType, PaymentStages
<1> HIDE DEF going
<1>9. with \in PaymentType /\ with.at = "opening" /\ with.gateway = g
  BY <1>3, <1>8 DEF PaymentType
<1> HIDE DEF with
<1>10. pay \in PaymentType /\ pay.at = "opening" /\ pay.gateway = g /\ pay.account = account
  <2> HIDE DEF g, account
  <2> QED
    BY <1>4, <1>9 DEF PaymentType
<1> HIDE DEF pay
<1>11. PaymentAgrees(less, till[s])
  BY <1>5 DEF PaymentAgrees
<1>12. PaymentAgrees(pay, till[s])
  BY <1>2, <1>10 DEF PaymentAgrees
<1> QED
  BY <1>5, <1>6, <1>7, <1>10, <1>11, <1>12, ShopperMoved DEF ReadCredentials

LEMMA GatewayOpened ==
    ASSUME MethodsInv, NEW s \in Shoppers, OpenAtGateway(s)
    PROVE  MethodsInv'
<1> DEFINE going == [paying[s] EXCEPT !.at = "CREATED"]
           pay == [going EXCEPT !.ways = <<>>]
<1>1. paying[s] \in PaymentType /\ paying[s].at = "opening" /\ paying[s].account # "" /\ <<>> \in Seq(OnlineGateways)
  BY MethodsHold, EmptySeq DEF OpenAtGateway
<1>2. /\ going \in PaymentType /\ going.at = "CREATED" /\ going.gateway = paying[s].gateway
      /\ going.account = paying[s].account
  BY <1>1 DEF PaymentType, PaymentStages
<1>3. paying' = [paying EXCEPT ![s] = pay]
  BY <1>1 DEF OpenAtGateway, PaymentType
<1>4. till' = [till EXCEPT ![s] = "open"] /\ "open" \in TillType /\ refusals' \in 0..MaxRefusals
  BY MethodsHold DEF OpenAtGateway, TillType
<1> HIDE DEF going
<1>5. /\ pay \in PaymentType /\ pay.at = "CREATED" /\ pay.gateway = paying[s].gateway
      /\ pay.account = paying[s].account
  BY <1>1, <1>2 DEF PaymentType
<1> HIDE DEF pay
<1>6. PaymentAgrees(pay, "open")
  BY <1>1, <1>5, MethodsHold DEF PaymentAgrees
<1> QED
  BY <1>3, <1>4, <1>5, <1>6, ShopperMoved DEF OpenAtGateway

LEMMA GatewayRefused ==
    ASSUME MethodsInv, NEW s \in Shoppers, GatewayRefuses(s)
    PROVE  MethodsInv'
<1> DEFINE going == [paying[s] EXCEPT !.at = "choosing"]
           left == [going EXCEPT !.gateway = "COD"]
           pay == [left EXCEPT !.account = ""]
<1>1. going \in PaymentType /\ going.at = "choosing"
  BY MethodsHold DEF PaymentType, PaymentStages
<1>2. paying' = [paying EXCEPT ![s] = pay]
  BY MethodsHold DEF GatewayRefuses, PaymentType
<1>3. till' = [till EXCEPT ![s] = till[s]] /\ till[s] \in TillType /\ refusals' \in 0..MaxRefusals
  <2>1. till' = till /\ refusals' \in {refusals, refusals + 1} /\ refusals' <= MaxRefusals
    BY DEF GatewayRefuses
  <2>2. till' = [till EXCEPT ![s] = till[s]] /\ till[s] \in TillType
    BY <2>1, MethodsHold
  <2>3. refusals \in 0..MaxRefusals
    BY MethodsHold
  <2>4. refusals' \in Nat
    BY <2>1, <2>3, MethodBounds
  <2>5. refusals' \in 0..MaxRefusals
    BY <2>1, <2>4, MethodBounds
  <2> QED
    BY <2>2, <2>5
<1> HIDE DEF going
<1>4. left \in PaymentType /\ left.at = "choosing"
  BY <1>1 DEF PaymentType, Providers
<1> HIDE DEF left
<1>5. pay \in PaymentType /\ pay.at = "choosing"
  BY <1>4 DEF PaymentType
<1> HIDE DEF pay
<1>6. PaymentAgrees(pay, till[s])
  BY <1>5 DEF PaymentAgrees
<1> QED
  BY <1>2, <1>3, <1>5, <1>6, ShopperMoved DEF GatewayRefuses

LEMMA AnswerMissed ==
    ASSUME MethodsInv, NEW s \in Shoppers, NobodyAnswers(s)
    PROVE  MethodsInv'
<1>1. till' = [till EXCEPT ![s] = till[s]] /\ till[s] \in TillType /\ refusals' \in 0..MaxRefusals
  BY MethodsHold DEF NobodyAnswers
<1>2. PaymentAgrees(NotPaying, till[s])
  BY NobodyPays DEF PaymentAgrees
<1> QED
  BY <1>1, <1>2, NobodyPays, ShopperMoved DEF NobodyAnswers

LEMMA MoneyTaken ==
    ASSUME MethodsInv, NEW s \in Shoppers, CustomerPays(s)
    PROVE  MethodsInv'
<1>1. paying' = [paying EXCEPT ![s] = paying[s]] /\ paying[s] \in PaymentType /\ refusals' \in 0..MaxRefusals
  BY MethodsHold DEF CustomerPays
<1>2. PaymentAgrees(paying[s], "paid")
  BY MethodsHold DEF PaymentAgrees, CustomerPays
<1> QED
  BY <1>1, <1>2, ShopperMoved DEF CustomerPays, TillType

LEMMA WindowClosed ==
    ASSUME MethodsInv, NEW s \in Shoppers, WindowCloses(s)
    PROVE  MethodsInv'
<1> DEFINE pay == [paying[s] EXCEPT !.closed = TRUE]
<1>1. /\ pay \in PaymentType /\ pay.at = paying[s].at /\ pay.gateway = paying[s].gateway
      /\ pay.account = paying[s].account /\ pay.closed
  BY MethodsHold DEF PaymentType
<1>2. paying' = [paying EXCEPT ![s] = pay]
  BY MethodsHold DEF WindowCloses
<1>3. till' = [till EXCEPT ![s] = till[s]] /\ till[s] \in TillType /\ refusals' \in 0..MaxRefusals
  BY MethodsHold DEF WindowCloses
<1> HIDE DEF pay
<1>4. PaymentAgrees(pay, till[s])
  BY <1>1, MethodsHold DEF PaymentAgrees
<1> QED
  BY <1>1, <1>2, <1>3, <1>4, ShopperMoved DEF WindowCloses

\* Asked under the account it was opened under, the gateway tells what it took.
LEMMA AnswerIsTrue ==
    ASSUME MethodsInv, NEW s \in Shoppers, paying[s].at = "CREATED", LookUp(s) = "null"
    PROVE  till[s] # "paid"
<1>1. PaymentAgrees(paying[s], till[s])
  BY MethodsHold
<1> QED
  BY <1>1 DEF PaymentAgrees, LookUp

LEMMA SessionReconciled ==
    ASSUME MethodsInv, NEW s \in Shoppers, Reconcile(s)
    PROVE  MethodsInv'
<1>1. till' = [till EXCEPT ![s] = till[s]] /\ till[s] \in TillType /\ refusals' \in 0..MaxRefusals
  BY MethodsHold DEF Reconcile, FindsPaid, ExpireSession
<1>2. CASE FindsPaid(s)
  <2> DEFINE pay == [paying[s] EXCEPT !.at = "ORDER_CREATED"]
  <2>1. pay \in PaymentType /\ pay.at = "ORDER_CREATED"
    BY MethodsHold DEF PaymentType, PaymentStages
  <2>2. paying' = [paying EXCEPT ![s] = pay]
    BY <1>2, MethodsHold DEF FindsPaid
  <2> HIDE DEF pay
  <2>3. PaymentAgrees(pay, till[s])
    BY <2>1 DEF PaymentAgrees
  <2> QED
    BY <1>1, <1>2, <2>1, <2>2, <2>3, ShopperMoved DEF FindsPaid
<1>3. CASE ExpireSession(s)
  <2> DEFINE pay == [paying[s] EXCEPT !.at = "EXPIRED"]
  <2>1. pay \in PaymentType /\ pay.at = "EXPIRED" /\ pay.closed = paying[s].closed
    BY MethodsHold DEF PaymentType, PaymentStages
  <2>2. paying' = [paying EXCEPT ![s] = pay]
    BY <1>3, MethodsHold DEF ExpireSession
  <2>3. paying[s].closed /\ till[s] # "paid"
    BY <1>3, AnswerIsTrue DEF ExpireSession
  <2> HIDE DEF pay
  <2>4. PaymentAgrees(pay, till[s])
    BY <2>1, <2>3 DEF PaymentAgrees
  <2> QED
    BY <1>1, <1>3, <2>1, <2>2, <2>4, ShopperMoved DEF ExpireSession
<1> QED
  BY <1>2, <1>3 DEF Reconcile

-----------------------------------------------------------------------------

LEMMA MethodsStep ==
    ASSUME MethodsInv, ~RotateInFlight, MethodsNext \/ UNCHANGED methodVars
    PROVE  MethodsInv'
<1>1. ASSUME NEW e \in SettingEditors, NEW c \in ChannelKeys, NEW form \in ChannelForms, PostChannel(e, c, form)
      PROVE  MethodsInv'
  BY <1>1, ChannelPosted
<1>2. CASE MethodsNext
  BY <1>1, <1>2, MethodPosted, OrderPosted, MethodsWritten, PaymentStarted, PaymentPrepared, CredentialsRead,
     GatewayOpened, GatewayRefused, AnswerMissed, MoneyTaken, WindowClosed, SessionReconciled DEF MethodsNext
<1>3. CASE UNCHANGED methodVars
  <2>1. OnHasCredentials' /\ \A s \in Shoppers : PaymentAgrees(paying[s], till[s])'
    BY <1>3, MethodsHold DEF methodVars, OnHasCredentials, PaymentAgrees
  <2> QED
    BY <1>3, <2>1, MethodsHold, MethodsHoldNext DEF methodVars
<1> QED
  BY <1>2, <1>3

LEMMA MethodsBegin == MethodsInit => MethodsInv
<1> SUFFICES ASSUME MethodsInit PROVE MethodsInv
  OBVIOUS
<1> DEFINE one == CHOOSE m \in Merchants : TRUE
<1>1. one \in Merchants /\ one # ""
  BY PaymentMethodsAssumption
<1>2. PICK first \in OnlineGateways, saved \in (SUBSET OnlineGateways) \ {{}} :
          methods = [p \in SettingRows |->
             IF p \in saved
             THEN [DefaultRow(p) EXCEPT !.on = TRUE, !.place = IF p = first THEN 0 ELSE 1,
                                        !.account = one, !.secret = one]
             ELSE DefaultRow(p)]
  BY DEF MethodsInit
<1> HIDE DEF one
<1>3. \A p \in SettingRows : methods[p] \in RowValues /\ (methods[p].on /\ p # "COD" => methods[p].secret # ""
                                                            /\ methods[p].account # "")
  BY <1>1, <1>2 DEF DefaultRow, RowValues, OnlineGateways
<1>4. methods \in [SettingRows -> RowValues]
  BY <1>2, <1>3
<1>5. OnHasCredentials
  BY <1>3 DEF OnHasCredentials
<1>6. /\ paying \in [Shoppers -> PaymentType] /\ till \in [Shoppers -> TillType]
      /\ \A s \in Shoppers : PaymentAgrees(paying[s], till[s])
  BY NobodyPays DEF MethodsInit, TillType, PaymentAgrees
<1>7. methodEditor = [e \in SettingEditors |-> NoSave] /\ SaveIsWhole(NoSave)
  BY DEF MethodsInit, SaveIsWhole, NoSave
<1>8. methodSaves \in 0..MaxMethodSaves /\ refusals \in 0..MaxRefusals
  <2>1. methodSaves = 0 /\ refusals = 0
    BY DEF MethodsInit
  <2> QED
    BY <2>1, MethodBounds
<1>9. \A s \in Shoppers : paying[s] \in PaymentType
  BY <1>6
<1>10. MethodsTypeOK /\ SavesHaveCredentials
  BY <1>4, <1>6, <1>7, <1>8, <1>9
     DEF MethodsTypeOK, SavesHaveCredentials, SaveIsWhole, PaymentType, PaymentStages, TillType
<1>11. MethodsShape
  BY <1>6, <1>7 DEF MethodsShape, PaymentType, PaymentStages
<1>12. PaidWhereOpened /\ ExpiredWasNotPaid
  BY <1>6 DEF PaidWhereOpened, ExpiredWasNotPaid, PaymentAgrees
<1> QED
  BY <1>5, <1>10, <1>11, <1>12 DEF MethodsInv

LEMMA MoneyIsTaken == MethodsInv => OnHasCredentials /\ ExpiredWasNotPaid
BY DEF MethodsInv

-----------------------------------------------------------------------------
(* Pricing: to the last paisa, for any catalogue, coupon, rules and road.  *)

LEMMA SumOfIs == ASSUME NEW f PROVE SumOf(f) = SumFunctionOnSet(f, DOMAIN f)
BY DEF SumOf, MapThenSumSet, SumFunctionOnSet, FoldFunctionOnSet

LEMMA LeastIs ==
    ASSUME NEW T, T \subseteq Nat, T # {}
    PROVE  Min(T) \in T /\ \A x \in T : Min(T) <= x
<1>1. PICK n \in T : \A m \in T : n <= m
  BY LeastOf
<1> QED
  BY <1>1 DEF Min

\* The greatest of a finite set of numbers is its last in their order.
LEMMA GreatestIs ==
    ASSUME NEW T, T \subseteq Int, T # {}, IsFiniteSet(T)
    PROVE  Max(T) \in T /\ \A x \in T : x <= Max(T)
<1> DEFINE R == {p \in T \X T : p[1] < p[2]}
<1>1. \A x, y \in T : <<x, y>> \in R <=> x < y
  OBVIOUS
<1> HIDE DEF R
<1>2. InOrder(R, T)
  BY <1>1 DEF InOrder
<1>3. PICK n \in T : \A m \in T : m # n => <<m, n>> \in R
  BY <1>2, LastOf
<1>4. ASSUME NEW m \in T PROVE n >= m
  <2>1. m # n => <<m, n>> \in R
    BY <1>3
  <2>2. <<m, n>> \in R => m < n
    BY <1>1
  <2>3. m \in Int /\ n \in Int
    OBVIOUS
  <2> QED
    BY <2>1, <2>2, <2>3
<1>5. \E x \in T : \A y \in T : x >= y
  BY <1>4
<1> QED
  BY <1>5 DEF Max

\* The next whole number of parts.
LEMMA CeilIs ==
    ASSUME NEW a \in Nat, NEW b \in Nat \ {0}
    PROVE  /\ CeilDiv(a, b) \in Nat /\ b * CeilDiv(a, b) >= a
           /\ a > 0 => b * (CeilDiv(a, b) - 1) < a
           /\ \A n \in Nat : b * n >= a => n >= CeilDiv(a, b)
<1>1. PICK q \in Nat, r \in 0..(b - 1) : q = CeilDiv(a, b) /\ a + b - 1 = b * q + r
  BY DEF CeilDiv
<1>2. b * (q - 1) = b * q - b /\ b * q \in Nat
  OBVIOUS
<1>3. ASSUME NEW n \in Nat, b * n >= a PROVE n >= q
  <2>1. SUFFICES ASSUME n <= q - 1 PROVE FALSE
    OBVIOUS
  <2>2. b * n <= b * (q - 1)
    BY <2>1
  <2> QED
    BY <1>1, <1>2, <1>3, <2>2
<1> QED
  BY <1>1, <1>2, <1>3

LEMMA RoundIs == ASSUME NEW a \in Nat, NEW b \in Nat \ {0} PROVE RoundDiv(a, b) \in Nat
<1>1. 2 * a + b \in Nat /\ 2 * b \in Nat \ {0}
  OBVIOUS
<1> QED
  BY <1>1 DEF RoundDiv

\* allocateDiscount: what is shared out is shared out whole, and no line gives
\* away more than it is worth.
LEMMA SharesAre ==
    ASSUME NEW S, IsFiniteSet(S), S \subseteq Nat, NEW worth \in [S -> Nat],
           NEW amount \in Nat, amount <= SumOf(worth)
    PROVE  /\ Shares(worth, amount) \in [S -> Nat]
           /\ SumOf(Shares(worth, amount)) = amount
           /\ \A l \in S : Shares(worth, amount)[l] <= worth[l]
<1> DEFINE all == SumOf(worth)
           whole == [l \in S |-> (worth[l] * amount) \div all]
           rest == [l \in S |-> (worth[l] * amount) % all]
           ahead(l) == {k \in S : rest[k] > rest[l] \/ (rest[k] = rest[l] /\ k < l)}
           left == amount - SumOf(whole)
           more == [l \in S |-> IF Cardinality(ahead(l)) < left THEN 1 ELSE 0]
           parts == [l \in S |-> IF all = 0 THEN 0 ELSE whole[l] + more[l]]
<1>1. Shares(worth, amount) = parts
  BY DEF Shares
<1>2. all = SumFunctionOnSet(worth, S) /\ all \in Nat
  BY SumOfIs, SumIsNat
<1>3. CASE all = 0
  <2>1. parts = [l \in S |-> 0] /\ amount = 0
    BY <1>2, <1>3
  <2>2. SumFunctionOnSet([l \in S |-> 0], S) = 0
    BY SumOfZeros
  <2>3. SumOf(parts) = 0
    BY <2>1, <2>2, SumOfIs
  <2>4. Shares(worth, amount) = [l \in S |-> 0]
    BY <1>1, <2>1
  <2> HIDE DEF parts
  <2> QED
    BY <1>1, <2>1, <2>3, <2>4
<1>4. CASE all # 0
  <2>1. \A l \in S : /\ whole[l] \in Nat /\ rest[l] \in 0..(all - 1)
                     /\ worth[l] * amount = all * whole[l] + rest[l]
    <3>1. SUFFICES ASSUME NEW l \in S
                   PROVE  /\ whole[l] \in Nat /\ rest[l] \in 0..(all - 1)
                          /\ worth[l] * amount = all * whole[l] + rest[l]
      OBVIOUS
    <3>2. PICK n \in Nat : n = worth[l] * amount
      OBVIOUS
    <3>3. PICK d \in Nat \ {0} : d = all
      BY <1>2, <1>4
    <3>4. n \div d \in Nat /\ n % d \in 0..(d - 1) /\ n = d * (n \div d) + (n % d)
      OBVIOUS
    <3>5. whole[l] = n \div d /\ rest[l] = n % d
      BY <3>2, <3>3
    <3> QED
      BY <3>2, <3>3, <3>4, <3>5
  <2>2. \A l \in S : worth[l] \in Int /\ whole[l] \in Int /\ rest[l] \in Int /\ rest[l] \in Nat
    BY <2>1
  <2>3. PICK d \in Nat \ {0} : d = all
    BY <1>2, <1>4
  <2>4. PICK w \in Nat : w = SumFunctionOnSet(whole, S) /\ SumOf(whole) = w
    BY <2>1, SumOfIs, SumIsNat
  <2>5. PICK r \in Nat : r = SumFunctionOnSet(rest, S)
    <3> HIDE DEF rest
    <3> QED
      BY <2>2, SumIsNat
  <2>6. d * amount = d * w + r
    <3>1. \A l \in S : worth[l] * amount = d * whole[l] + rest[l]
      BY <2>1, <2>3
    <3>2. worth \in [S -> Int] /\ whole \in [S -> Int] /\ rest \in [S -> Int]
      BY <2>2
    <3>3. InQuotients(S, worth, amount, d, whole, rest)
      <4> HIDE DEF whole, rest, all
      <4> QED
        BY <3>1, <3>2 DEF InQuotients
    <3>4. SumFunctionOnSet(worth, S) * amount = d * SumFunctionOnSet(whole, S) + SumFunctionOnSet(rest, S)
      <4> HIDE DEF whole, rest, all
      <4> QED
        BY <3>3, SumOfQuotients
    <3> QED
      BY <1>2, <2>3, <2>4, <2>5, <3>4
  <2>7. left \in Int /\ left = amount - w /\ d * left = r
    <3>1. d * (amount - w) = d * amount - d * w
      OBVIOUS
    <3> QED
      BY <2>4, <2>6, <3>1
  <2>8. PICK n \in Nat : n = Cardinality(S)
    BY FS_CardinalityType
  <2>9. left \in 0..n
    <3>1. r <= (d - 1) * n
      <4>1. \A l \in S : rest[l] \in Int /\ rest[l] <= d - 1
        BY <2>1, <2>3
      <4>2. d - 1 \in Nat
        OBVIOUS
      <4> HIDE DEF rest
      <4> QED
        BY <2>5, <2>8, <4>1, <4>2, SumIsBounded
    <3>2. PICK k \in Int : k = left
      BY <2>7
    <3>3. (d - 1) * n = d * n - n /\ d * n \in Nat
      OBVIOUS
    <3>4. d * k <= d * n /\ d * k >= 0
      BY <2>5, <2>7, <3>1, <3>2, <3>3
    <3>5. k <= n /\ k >= 0
      BY <3>4
    <3> QED
      BY <3>2, <3>5
  <2> DEFINE R == {p \in S \X S : rest[p[1]] > rest[p[2]] \/ (rest[p[1]] = rest[p[2]] /\ p[1] < p[2])}
             top == {l \in S : Cardinality(ahead(l)) < left}
  <2>10. Cardinality(top) = left
    <3>1. \A x, y \in S : <<x, y>> \in R <=> rest[x] > rest[y] \/ (rest[x] = rest[y] /\ x < y)
      OBVIOUS
    <3>2. \A x \in S : Preceding(R, S, x) = ahead(x)
      BY <3>1 DEF Preceding
    <3>3. InOrder(R, S)
      <4>1. \A x \in S : x \in Nat /\ rest[x] \in Int
        BY <2>2
      <4> HIDE DEF R, rest
      <4> QED
        BY <3>1, <4>1 DEF InOrder
    <3>4. Cardinality({x \in S : Cardinality(Preceding(R, S, x)) < left}) = left
      <4> HIDE DEF R, left
      <4> QED
        BY <2>8, <2>9, <3>3, Ranks
    <3>5. {x \in S : Cardinality(Preceding(R, S, x)) < left} = top
      BY <3>2
    <3> QED
      BY <3>4, <3>5
  <2>11. SumFunctionOnSet(more, S) = left
    <3>1. \A l \in S : more[l] = IF l \in top THEN 1 ELSE 0
      OBVIOUS
    <3>2. top \subseteq S
      OBVIOUS
    <3> HIDE DEF more, top
    <3> QED
      BY <2>10, <3>1, <3>2, SumCounts
  <2>12. \A l \in S : more[l] \in 0..1 /\ parts[l] = whole[l] + more[l]
    BY <1>4
  <2>13. SumOf(parts) = amount
    <3>1. DOMAIN parts = S
      OBVIOUS
    <3> HIDE DEF whole, more, parts
    <3>2. \A l \in S : whole[l] \in Int /\ more[l] \in Int /\ parts[l] = whole[l] + more[l]
      BY <2>2, <2>12
    <3>3. SumFunctionOnSet(parts, S) = SumFunctionOnSet(whole, S) + SumFunctionOnSet(more, S)
      BY <3>2, SumOfSums
    <3>4. SumFunctionOnSet(parts, S) = w + left
      BY <2>4, <2>11, <3>3
    <3> HIDE DEF left
    <3> QED
      BY <2>4, <2>7, <3>1, <3>4, SumOfIs
  <2>14. ASSUME NEW l \in S PROVE parts[l] \in Nat /\ parts[l] <= worth[l]
    <3>1. PICK v \in Nat, q \in Nat, e \in 0..(d - 1) :
              v = worth[l] /\ q = whole[l] /\ e = rest[l] /\ v * amount = d * q + e
      BY <2>1, <2>3
    <3>2. v * amount <= v * d
      BY <2>3
    <3>3. v * d = d * v
      OBVIOUS
    <3>4. d * q <= d * v /\ (e > 0 => d * q < d * v)
      BY <3>1, <3>2, <3>3
    <3>5. q <= v /\ (e > 0 => q < v)
      BY <3>4
    <3>6. more[l] = 1 => e > 0
      <4>1. SUFFICES ASSUME e = 0, Cardinality(ahead(l)) < left PROVE FALSE
        BY <2>12
      <4> DEFINE some == {k \in S : rest[k] > 0}
      <4>2. some \subseteq ahead(l) /\ ahead(l) \subseteq S
        BY <2>2, <3>1, <4>1
      <4>3. PICK c \in Nat : c = Cardinality(some) /\ c < left
        <5>1. IsFiniteSet(ahead(l)) /\ IsFiniteSet(some)
          BY <4>2, FS_Subset
        <5>2. Cardinality(some) <= Cardinality(ahead(l))
          BY <4>2, <5>1, FS_Subset
        <5>3. Cardinality(ahead(l)) \in Int /\ Cardinality(some) \in Nat
          BY <5>1, FS_CardinalityType
        <5> HIDE DEF left, some, ahead
        <5> QED
          BY <2>7, <4>1, <5>2, <5>3
      <4>4. r = SumFunctionOnSet(rest, some)
        <5>1. \A y \in S : rest[y] \in Int
          BY <2>2
        <5>2. \A y \in S \ some : rest[y] = 0
          BY <2>2
        <5>3. some \subseteq S /\ IsFiniteSet(some) /\ IsFiniteSet(S \ some)
          BY FS_Subset
        <5> HIDE DEF rest, some
        <5>4. SumFunctionOnSet(rest, S) = SumFunctionOnSet(rest, some) + SumFunctionOnSet(rest, S \ some)
          BY <5>1, <5>3, SumOfParts
        <5>5. SumFunctionOnSet(rest, S \ some) = 0
          BY <5>2, <5>3, SumOfZeros
        <5>6. SumFunctionOnSet(rest, some) \in Int
          BY <5>1, <5>3, SumIsInt
        <5> QED
          BY <2>5, <5>4, <5>5, <5>6
      <4>5. r <= (d - 1) * c
        <5>1. \A y \in some : rest[y] \in Int /\ rest[y] <= d - 1
          BY <2>1, <2>3
        <5>2. IsFiniteSet(some)
          BY <4>2, FS_Subset
        <5>3. d - 1 \in Nat
          OBVIOUS
        <5> HIDE DEF rest, some
        <5> QED
          BY <4>3, <4>4, <5>1, <5>2, <5>3, SumIsBounded
      <4>6. (d - 1) * c = d * c - c /\ d * c \in Nat
        OBVIOUS
      <4>7. PICK k \in Int : k = left /\ d * k = r /\ k >= c + 1
        <5> HIDE DEF left
        <5>1. left \in Int /\ left >= c + 1
          BY <2>7, <4>3
        <5> QED
          BY <2>7, <5>1
      <4>8. d * k >= d * (c + 1) /\ d * (c + 1) = d * c + d
        BY <4>7
      <4> QED
        BY <4>5, <4>6, <4>7, <4>8
    <3>7. parts[l] = q + more[l] /\ more[l] \in 0..1
      BY <2>12, <3>1
    <3> HIDE DEF parts, more, whole, rest
    <3> QED
      BY <3>1, <3>5, <3>6, <3>7
  <2>15. parts \in [S -> Nat]
    <3>1. DOMAIN parts = S /\ parts = [l \in S |-> parts[l]]
      OBVIOUS
    <3> HIDE DEF parts
    <3> QED
      BY <2>14, <3>1
  <2> HIDE DEF parts
  <2> QED
    BY <1>1, <2>13, <2>14, <2>15
<1> QED
  BY <1>3, <1>4

LEMMA CatalogueIs ==
    ASSUME NEW c \in Catalogues, NEW l \in CartLines
    PROVE  IsEntry(c[l])
BY PricingAssumption

LEMMA PositiveIs ==
    ASSUME NEW n \in Int
    PROVE  Max({0, n}) \in Nat /\ Max({0, n}) = IF n > 0 THEN n ELSE 0
<1>1. IsFiniteSet({0, n})
  <2>1. IsFiniteSet({0}) /\ {0, n} = {0} \cup {n}
    BY FS_Singleton
  <2>2. IsFiniteSet({0} \cup {n})
    BY <2>1, FS_AddElement
  <2> QED
    BY <2>1, <2>2, Zenon
<1>2. {0, n} \subseteq Int /\ {0, n} # {}
  OBVIOUS
<1>3. Max({0, n}) \in {0, n} /\ \A x \in {0, n} : x <= Max({0, n})
  BY <1>1, <1>2, GreatestIs
<1> QED
  BY <1>3

\* nearestWarehouse answers, and with no less when every way is longer.
LEMMA NearestIs ==
    ASSUME NEW where \in DOMAIN Road, NEW by \in SUBSET Ways
    PROVE  /\ MetresTo(where, by) \in Nat
           /\ \A other \in DOMAIN Road : NoNearer(where, other) => MetresTo(where, by) <= MetresTo(other, by)
<1> DEFINE among == IF by = {} THEN Ways ELSE by
           ways(place) == {Road[place][w] : w \in among}
<1>1. among \subseteq Ways /\ among # {}
  BY PricingAssumption
<1>2. ASSUME NEW place \in DOMAIN Road
      PROVE  MetresTo(place, by) = Min(ways(place)) /\ ways(place) \subseteq Nat /\ ways(place) # {}
  <2>1. DOMAIN Road[place] = Ways /\ \A w \in Ways : Road[place][w] \in Nat
    BY PricingAssumption
  <2>2. MetresTo(place, by) = Min(ways(place))
    BY <2>1 DEF MetresTo
  <2>3. ways(place) \subseteq Nat /\ ways(place) # {}
    BY <1>1, <2>1
  <2> QED
    BY <2>2, <2>3
<1>3. ASSUME NEW place \in DOMAIN Road
      PROVE  /\ MetresTo(place, by) \in Nat
             /\ \E w \in among : MetresTo(place, by) = Road[place][w]
             /\ \A w \in among : MetresTo(place, by) <= Road[place][w]
  <2> HIDE DEF ways
  <2>1. Min(ways(place)) \in ways(place) /\ \A x \in ways(place) : Min(ways(place)) <= x
    BY <1>2, LeastIs
  <2> USE DEF ways
  <2> HIDE DEF among
  <2> QED
    BY <1>2, <2>1
<1>4. ASSUME NEW other \in DOMAIN Road, NoNearer(where, other)
      PROVE  MetresTo(where, by) <= MetresTo(other, by)
  <2>1. PICK w \in among : MetresTo(other, by) = Road[other][w]
    BY <1>3
  <2>2. w \in Ways /\ DOMAIN Road[where] = Ways /\ Road[where][w] \in Nat /\ Road[other][w] \in Nat
    BY <1>1, PricingAssumption
  <2>3. Road[other][w] >= Road[where][w]
    BY <1>4, <2>2 DEF NoNearer
  <2> QED
    BY <1>3, <2>1, <2>2, <2>3
<1> QED
  BY <1>3, <1>4

LEMMA AdditionIs ==
    ASSUME NEW metres \in Nat, NEW added, added.base \in Nat, added.perBlock \in Nat
    PROVE  AdditionAt(metres, added) \in Nat
<1>1. PICK n \in Nat : n = CeilDiv(metres, Blocks)
  BY CeilIs, PricingAssumption
<1>2. PICK m \in Nat : m = Max({0, n - 1})
  BY PositiveIs
<1>3. PICK b \in Nat, k \in Nat : b = added.base /\ k = added.perBlock
  OBVIOUS
<1>4. k * m \in Nat
  OBVIOUS
<1> QED
  BY <1>1, <1>2, <1>3, <1>4 DEF AdditionAt

\* What withDistanceAddition makes of an entry: a price and rungs to match with.
IsPriced(p) == p.price \in Nat /\ p.ladder \subseteq Rungs

LEMMA PricedIs ==
    ASSUME NEW e, IsEntry(e), NEW where \in DOMAIN Road
    PROVE  IsPriced(Priced(e, where))
<1> DEFINE add == IF e.added.base + e.added.perBlock = 0 THEN 0
                  ELSE AdditionAt(MetresTo(where, e.warehouses), e.added)
<1>1. add \in Nat
  <2>1. MetresTo(where, e.warehouses) \in Nat
    BY NearestIs DEF IsEntry
  <2>2. AdditionAt(MetresTo(where, e.warehouses), e.added) \in Nat
    BY <2>1, AdditionIs DEF IsEntry
  <2> QED
    BY <2>2
<1>2. Priced(e, where) = [price |-> e.price + add, ladder |-> {[t EXCEPT !.rate = @ + add] : t \in e.ladder}]
  BY DEF Priced
<1> HIDE DEF add
<1>3. \A t \in e.ladder : [t EXCEPT !.rate = @ + add] \in Rungs
  BY <1>1 DEF IsEntry, Rungs
<1>4. e.price + add \in Nat
  BY <1>1 DEF IsEntry
<1> QED
  BY <1>2, <1>3, <1>4 DEF IsPriced

\* matchTier: no rung that is reached is cheaper, and more units are no dearer.
LEMMA MatchedIs ==
    ASSUME NEW p, IsPriced(p), NEW units \in Nat
    PROVE  /\ Matched(p, units) \in Nat /\ Matched(p, units) <= p.price
           /\ \A t \in p.ladder : Reaches(t, units, p.price) => Matched(p, units) <= t.rate
           /\ \A more \in Nat : more >= units => Matched(p, more) <= Matched(p, units)
<1> DEFINE rates(n) == {p.price} \cup {t.rate : t \in {x \in p.ladder : Reaches(x, n, p.price)}}
<1>1. ASSUME NEW n \in Nat
      PROVE  /\ Matched(p, n) \in rates(n) /\ Matched(p, n) \in Nat
             /\ \A r \in rates(n) : Matched(p, n) <= r
  <2>1. rates(n) \subseteq Nat /\ rates(n) # {}
    BY DEF IsPriced, Rungs
  <2>2. Matched(p, n) = Min(rates(n))
    BY DEF Matched
  <2> HIDE DEF rates
  <2> QED
    BY <2>1, <2>2, LeastIs
<1>2. ASSUME NEW more \in Nat, more >= units
      PROVE  Matched(p, more) <= Matched(p, units)
  <2>1. more * p.price >= units * p.price
    BY <1>2 DEF IsPriced
  <2>2. \A t \in p.ladder : Reaches(t, units, p.price) => Reaches(t, more, p.price)
    <3>1. \A t \in p.ladder : t.from \in Nat
      BY DEF IsPriced, Rungs
    <3>2. more * p.price \in Nat /\ units * p.price \in Nat
      BY DEF IsPriced
    <3> QED
      BY <1>2, <2>1, <3>1, <3>2 DEF Reaches
  <2>3. rates(units) \subseteq rates(more)
    BY <2>2
  <2> HIDE DEF rates
  <2> QED
    BY <1>1, <2>3
<1>3. \A t \in p.ladder : Reaches(t, units, p.price) => t.rate \in rates(units)
  OBVIOUS
<1>4. p.price \in rates(units)
  OBVIOUS
<1> HIDE DEF rates
<1> QED
  BY <1>1, <1>2, <1>3, <1>4

\* findNextTier: the rung a row points at is reached with the units it names.
LEMMA NextRungIs ==
    ASSUME NEW p, IsPriced(p), NEW units \in Nat, NEW next, next = NextRung(p, units), next.units > 0
    PROVE  /\ next.units \in Nat /\ next.units > units
           /\ Matched(p, next.units) <= next.rate /\ next.rate < Matched(p, units)
<1> DEFINE rate == Matched(p, units)
           above == {t \in p.ladder : t.rate < rate /\ Gap(t, units, p.price) > 0}
           nearest == {t \in above : \A x \in above : Gap(t, units, p.price) <= Gap(x, units, p.price)}
           best == CHOOSE t \in nearest : TRUE
<1>1. next = IF above = {} THEN [units |-> 0, rate |-> rate] ELSE [units |-> UnitsFor(best, p.price), rate |-> best.rate]
  BY DEF NextRung
<1>2. above # {}
  <2> HIDE DEF above, best
  <2> QED
    BY <1>1
<1>3. next.units = UnitsFor(best, p.price) /\ next.rate = best.rate
  <2> HIDE DEF above, best
  <2> QED
    BY <1>1, <1>2
<1>4. rate \in Nat /\ rate <= p.price
  BY MatchedIs
<1>5. \A t \in above : t \in Rungs /\ t.rate < p.price /\ Gap(t, units, p.price) \in Nat
  <2>1. SUFFICES ASSUME NEW t \in above
                 PROVE  t \in Rungs /\ t.rate < p.price /\ Gap(t, units, p.price) \in Nat
    OBVIOUS
  <2>2. t \in Rungs /\ t.rate < rate /\ Gap(t, units, p.price) > 0
    BY DEF IsPriced
  <2>3. t.rate < p.price
    BY <1>4, <2>2 DEF IsPriced, Rungs
  <2>4. units * p.price \in Nat
    BY DEF IsPriced
  <2>5. Gap(t, units, p.price) \in Int
    BY <2>2, <2>4 DEF Gap, Rungs
  <2> QED
    BY <2>2, <2>3, <2>5
<1>6. best \in nearest
  <2> DEFINE gaps == {Gap(t, units, p.price) : t \in above}
  <2>1. gaps \subseteq Nat /\ gaps # {}
    BY <1>2, <1>5
  <2>2. PICK g \in gaps : \A h \in gaps : g <= h
    <3> HIDE DEF gaps
    <3> QED
      BY <2>1, LeastOf
  <2>3. nearest # {}
    BY <2>2
  <2> QED
    BY <2>3
<1>7. PICK t : t = best /\ t \in p.ladder /\ t \in Rungs /\ t.rate < rate /\ t.rate < p.price /\ Gap(t, units, p.price) > 0
  BY <1>5, <1>6
<1>8. t.rate \in Nat /\ t.from \in Nat /\ p.price \in Nat \ {0}
  BY <1>7 DEF IsPriced, Rungs
<1> HIDE DEF rate, above, nearest, best
<1>9. UnitsFor(t, p.price) \in Nat /\ UnitsFor(t, p.price) > units /\ Reaches(t, UnitsFor(t, p.price), p.price)
  <2>1. CASE t.basis = "QUANTITY"
    BY <1>7, <1>8, <2>1 DEF UnitsFor, Gap, Reaches
  <2>2. CASE t.basis # "QUANTITY"
    <3>1. PICK a \in Nat, b \in Nat \ {0}, n \in Nat : a = t.from /\ b = p.price /\ n = CeilDiv(a, b) /\ b * n >= a
      BY <1>8, CeilIs
    <3>2. a > units * b
      <4>1. Gap(t, units, p.price) = a - units * b
        BY <2>2, <3>1 DEF Gap
      <4>2. units * b \in Nat
        OBVIOUS
      <4> QED
        BY <1>7, <4>1, <4>2
    <3>3. b * n > b * units
      BY <3>1, <3>2
    <3>4. n > units /\ n * b >= a
      BY <3>1, <3>3
    <3> QED
      BY <2>2, <3>1, <3>4 DEF UnitsFor, Reaches
  <2> QED
    BY <2>1, <2>2
<1>10. Matched(p, UnitsFor(t, p.price)) <= t.rate
  BY <1>7, <1>9, MatchedIs
<1> QED
  BY <1>3, <1>7, <1>9, <1>10 DEF rate

\* What a bill promises: its shares add up to its discount, its figures to its total.
\* priceOrder, whatever discount and delivery it is given.
LEMMA BillIs ==
    ASSUME NEW S, IsFiniteSet(S), S \subseteq CartLines, NEW shop \in Catalogues,
           NEW units \in [S -> Nat], NEW where \in DOMAIN Road, NEW asked \in Nat, NEW delivery \in Nat,
           NEW b, b = PriceOrder(shop, units, where, asked, delivery)
    PROVE  /\ Reconciles(b) /\ DOMAIN b.lines = S
           /\ b.subtotal \in Nat /\ b.delivery = delivery
           /\ b.discount \in Nat /\ b.discount <= b.subtotal
           /\ b.discount = Clamped(asked, b.subtotal)
           /\ \A l \in S : /\ b.lines[l].rate = Matched(Priced(shop[l], where), units[l])
                           /\ b.lines[l].total = b.lines[l].rate * units[l]
                           /\ b.lines[l].next = NextRung(Priced(shop[l], where), units[l])
           /\ b.subtotal = SumOf([l \in S |-> Matched(Priced(shop[l], where), units[l]) * units[l]])
<1> DEFINE p == [l \in S |-> Priced(shop[l], where)]
           rate == [l \in S |-> Matched(p[l], units[l])]
           total == [l \in S |-> rate[l] * units[l]]
           subtotal == SumOf(total)
           discount == Clamped(asked, subtotal)
           share == Shares(total, discount)
           lines == [l \in S |-> LineOf(shop[l], p[l], units[l], rate[l], share[l])]
<1>1. b = BillOf(lines, subtotal, discount, delivery)
  BY DEF PriceOrder, BillAt
<1>2. \A l \in S : rate[l] \in Nat /\ total[l] \in Nat
  <2>1. SUFFICES ASSUME NEW l \in S PROVE rate[l] \in Nat /\ total[l] \in Nat
    OBVIOUS
  <2>2. IsPriced(Priced(shop[l], where))
    BY CatalogueIs, PricedIs
  <2>3. rate[l] \in Nat
    BY <2>2, MatchedIs
  <2> QED
    BY <2>3
<1>3. total \in [S -> Nat]
  BY <1>2
<1>4. subtotal \in Nat /\ subtotal = SumFunctionOnSet(total, S)
  <2>1. DOMAIN total = S /\ \A l \in S : total[l] \in Nat
    BY <1>3
  <2> HIDE DEF total
  <2> QED
    BY <2>1, SumOfIs, SumIsNat
<1>5. discount \in Nat /\ discount <= subtotal
  <2>1. discount = Min({asked, subtotal}) /\ {asked, subtotal} \subseteq Nat
    BY <1>4 DEF Clamped
  <2>2. discount \in {asked, subtotal} /\ \A x \in {asked, subtotal} : discount <= x
    <3> HIDE DEF subtotal
    <3>1. {asked, subtotal} # {}
      OBVIOUS
    <3>2. Min({asked, subtotal}) \in {asked, subtotal} /\ \A x \in {asked, subtotal} : Min({asked, subtotal}) <= x
      BY <2>1, <3>1, LeastIs
    <3> QED
      BY <3>2 DEF Clamped
  <2> HIDE DEF discount, subtotal
  <2> QED
    BY <1>4, <2>1, <2>2
<1>6. /\ share \in [S -> Nat] /\ SumOf(share) = discount
      /\ \A l \in S : share[l] <= total[l]
  <2>1. S \subseteq Nat
    BY PricingAssumption
  <2> HIDE DEF total, discount
  <2> QED
    BY <1>3, <1>5, <2>1, SharesAre
<1> HIDE DEF share, discount
<1>7. /\ b.lines = lines /\ DOMAIN b.lines = S /\ b.subtotal = subtotal /\ b.discount = discount
      /\ b.delivery = delivery /\ b.grand = Grand(lines, subtotal, discount, delivery)
  BY <1>1 DEF BillOf
<1>8. \A l \in S : /\ lines[l].rate = rate[l] /\ lines[l].total = total[l] /\ lines[l].share = share[l]
                   /\ lines[l].inclusive \in BOOLEAN /\ lines[l].tax \in Nat
                   /\ lines[l].next = NextRung(p[l], units[l])
                   /\ lines[l].taxable = IF lines[l].inclusive THEN total[l] - share[l] - lines[l].tax
                                         ELSE total[l] - share[l]
  <2>1. SUFFICES ASSUME NEW l \in S
                 PROVE  /\ lines[l].rate = rate[l] /\ lines[l].total = total[l] /\ lines[l].share = share[l]
                        /\ lines[l].inclusive \in BOOLEAN /\ lines[l].tax \in Nat
                        /\ lines[l].next = NextRung(p[l], units[l])
                        /\ lines[l].taxable = IF lines[l].inclusive THEN total[l] - share[l] - lines[l].tax
                                              ELSE total[l] - share[l]
    OBVIOUS
  <2>2. PICK e : e = shop[l] /\ IsEntry(e)
    BY CatalogueIs
  <2> DEFINE net == rate[l] * units[l] - share[l]
  <2>3. lines[l] = LineOf(e, p[l], units[l], rate[l], share[l])
    BY <2>2
  <2>4. net \in Nat /\ net = total[l] - share[l]
    BY <1>2, <1>6
  <2>5. Tax(net, e.bp, e.inclusive) \in Nat
    <3>1. net * e.bp \in Nat /\ (IF e.inclusive THEN 10000 + e.bp ELSE 10000) \in Nat \ {0}
      BY <2>2, <2>4 DEF IsEntry
    <3> HIDE DEF net
    <3> QED
      BY <3>1, RoundIs DEF Tax
  <2> HIDE DEF lines
  <2>6. /\ lines[l].rate = rate[l] /\ lines[l].total = rate[l] * units[l] /\ lines[l].share = share[l]
        /\ lines[l].inclusive = e.inclusive /\ lines[l].tax = Tax(net, e.bp, e.inclusive)
        /\ lines[l].next = NextRung(p[l], units[l])
        /\ lines[l].taxable = IF e.inclusive THEN net - Tax(net, e.bp, e.inclusive) ELSE net
    BY <2>3 DEF LineOf
  <2>7. e.inclusive \in BOOLEAN
    BY <2>2 DEF IsEntry
  <2> HIDE DEF net
  <2> QED
    BY <2>4, <2>5, <2>6, <2>7
<1>9. SumOf([l \in S |-> lines[l].taxable + lines[l].tax]) + delivery = Grand(lines, subtotal, discount, delivery)
  <2> DEFINE whole == [l \in S |-> lines[l].taxable + lines[l].tax]
             over == [l \in S |-> IF lines[l].inclusive THEN 0 ELSE lines[l].tax]
             net == [l \in S |-> total[l] - share[l]]
  <2>1. \A l \in S : /\ share[l] \in Int /\ total[l] \in Int /\ net[l] \in Int /\ over[l] \in Int
                     /\ whole[l] = net[l] + over[l] /\ total[l] = net[l] + share[l]
    <3>1. SUFFICES ASSUME NEW l \in S
                   PROVE  /\ share[l] \in Int /\ total[l] \in Int /\ net[l] \in Int /\ over[l] \in Int
                          /\ whole[l] = net[l] + over[l] /\ total[l] = net[l] + share[l]
      OBVIOUS
    <3>2. share[l] \in Nat /\ total[l] \in Nat
      BY <1>2, <1>6
    <3>3. net[l] = total[l] - share[l] /\ over[l] = (IF lines[l].inclusive THEN 0 ELSE lines[l].tax)
          /\ whole[l] = lines[l].taxable + lines[l].tax
      OBVIOUS
    <3> HIDE DEF net, over, whole, lines, total
    <3> QED
      BY <1>8, <3>2, <3>3
  <2>2. Grand(lines, subtotal, discount, delivery) = subtotal - discount + SumFunctionOnSet(over, S) + delivery
    <3>1. DOMAIN lines = S /\ DOMAIN over = S
      OBVIOUS
    <3>2. SumOf(over) = SumFunctionOnSet(over, S)
      BY <3>1, SumOfIs
    <3>3. Grand(lines, subtotal, discount, delivery) = subtotal - discount + SumOf(over) + delivery
      BY <3>1 DEF Grand
    <3> QED
      BY <3>2, <3>3
  <2>3. DOMAIN whole = S
    OBVIOUS
  <2> HIDE DEF whole, over, net, lines, total
  <2>4. SumOf(whole) = SumFunctionOnSet(whole, S) /\ SumFunctionOnSet(share, S) = discount
    BY <1>6, <2>3, SumOfIs
  <2>5. SumFunctionOnSet(whole, S) = SumFunctionOnSet(net, S) + SumFunctionOnSet(over, S)
    BY <2>1, SumOfSums
  <2>6. SumFunctionOnSet(total, S) = SumFunctionOnSet(net, S) + SumFunctionOnSet(share, S)
    BY <2>1, SumOfSums
  <2>7. SumFunctionOnSet(net, S) \in Int /\ SumFunctionOnSet(over, S) \in Int
    BY <2>1, SumIsInt
  <2> HIDE DEF subtotal
  <2>8. SumOf(whole) + delivery = Grand(lines, subtotal, discount, delivery)
    BY <1>4, <1>5, <2>2, <2>4, <2>5, <2>6, <2>7
  <2> QED
    BY <2>8 DEF whole
<1>10. Reconciles(b)
  <2>1. SumOf([l \in S |-> lines[l].share]) = discount
    <3>1. DOMAIN share = S /\ [l \in S |-> lines[l].share] = share
      <4> HIDE DEF lines
      <4> QED
        BY <1>6, <1>8
    <3> QED
      BY <1>6, <3>1
  <2>2. \A l \in S : lines[l].share \in 0..lines[l].total
    <3> HIDE DEF lines, total
    <3> QED
      BY <1>6, <1>8, <1>3
  <2> HIDE DEF lines, subtotal
  <2> QED
    BY <1>7, <1>9, <2>1, <2>2 DEF Reconciles
<1>11. discount = Clamped(asked, subtotal)
  BY DEF discount
<1>12. subtotal = SumOf([l \in S |-> Matched(Priced(shop[l], where), units[l]) * units[l]])
  <2>1. total = [l \in S |-> Matched(Priced(shop[l], where), units[l]) * units[l]]
    OBVIOUS
  <2> HIDE DEF total
  <2> QED
    BY <2>1
<1>13. \A l \in S : /\ lines[l].rate = Matched(Priced(shop[l], where), units[l])
                    /\ lines[l].total = lines[l].rate * units[l]
                    /\ lines[l].next = NextRung(Priced(shop[l], where), units[l])
  <2> HIDE DEF lines
  <2> QED
    BY <1>8
<1> HIDE DEF lines, subtotal
<1> QED
  BY <1>4, <1>5, <1>7, <1>10, <1>11, <1>12, <1>13

\* slabFor: the slab a total falls in, and more never falls in a dearer one.
LEMMA SlabIs ==
    ASSUME NEW total \in Nat
    PROVE  /\ SlabBase(total) \in Nat
           /\ \A more \in Nat : more >= total => SlabBase(more) <= SlabBase(total)
<1> DEFINE reached(n) == {s \in Rules.slabs : s.from <= n}
           Highest(n, s) == s \in reached(n) /\ \A t \in reached(n) : t.from <= s.from
<1>1. ASSUME NEW n \in Nat
      PROVE  \E s : Highest(n, s) /\ s.base = SlabBase(n)
  <2> DEFINE R == {q \in reached(n) \X reached(n) : q[1].from < q[2].from}
  <2>1. IsFiniteSet(reached(n)) /\ reached(n) # {}
    BY FS_Subset, PricingAssumption DEF RulesPass
  <2>2. \A s, t \in reached(n) : <<s, t>> \in R <=> s.from < t.from
    OBVIOUS
  <2>0. \A s \in reached(n) : s.from \in Nat /\ \A t \in reached(n) : s.from = t.from => s = t
    BY PricingAssumption DEF RulesPass
  <2> HIDE DEF R, reached
  <2>3. InOrder(R, reached(n))
    <3>1. \A s \in reached(n) : <<s, s>> \notin R
      BY <2>0, <2>2
    <3>2. ASSUME NEW s \in reached(n), NEW t \in reached(n), NEW u \in reached(n),
                 <<s, t>> \in R, <<t, u>> \in R
          PROVE  <<s, u>> \in R
      <4>1. s.from \in Nat /\ t.from \in Nat /\ u.from \in Nat /\ s.from < t.from /\ t.from < u.from
        BY <2>0, <2>2, <3>2
      <4> QED
        BY <2>2, <4>1
    <3>3. ASSUME NEW s \in reached(n), NEW t \in reached(n), s # t
          PROVE  <<s, t>> \in R \/ <<t, s>> \in R
      <4>1. s.from \in Nat /\ t.from \in Nat /\ s.from # t.from
        BY <2>0, <3>3
      <4> QED
        BY <2>2, <4>1
    <3> QED
      BY <3>1, <3>2, <3>3 DEF InOrder
  <2>4. PICK s \in reached(n) : \A t \in reached(n) : t # s => <<t, s>> \in R
    BY <2>1, <2>3, LastOf
  <2>5. \E u \in reached(n) : \A t \in reached(n) : t.from <= u.from
    <3>1. ASSUME NEW t \in reached(n) PROVE t.from <= s.from
      <4>1. t # s => t.from < s.from
        BY <2>2, <2>4
      <4> QED
        BY <2>0, <4>1
    <3> QED
      BY <3>1
  <2>6. PICK u : u = (CHOOSE v \in reached(n) : \A t \in reached(n) : t.from <= v.from) /\ Highest(n, u)
    BY <2>5
  <2> USE DEF reached
  <2> QED
    BY <2>6 DEF SlabBase
<1>2. PICK s : Highest(total, s) /\ s.base = SlabBase(total)
  BY <1>1
<1>3. s.base \in Nat /\ s.from \in Nat
  BY <1>2, PricingAssumption DEF RulesPass
<1>4. ASSUME NEW more \in Nat, more >= total
      PROVE  SlabBase(more) <= SlabBase(total)
  <2>1. PICK t : Highest(more, t) /\ t.base = SlabBase(more)
    BY <1>1
  <2>2. t.base \in Nat /\ t.from \in Nat /\ s.from <= t.from /\ s \in Rules.slabs /\ t \in Rules.slabs
    BY <1>2, <1>3, <1>4, <2>1, PricingAssumption DEF RulesPass
  <2>3. t.base <= s.base
    BY <1>3, <2>2, PricingAssumption DEF RulesPass
  <2> QED
    BY <1>2, <2>1, <2>3
<1> QED
  BY <1>2, <1>3, <1>4

LEMMA SumOfSome ==
    ASSUME NEW S, IsFiniteSet(S), NEW T, T \subseteq S, NEW f, \A y \in S : f[y] \in Nat
    PROVE  SumFunctionOnSet(f, T) \in Nat /\ SumFunctionOnSet(f, T) <= SumFunctionOnSet(f, S)
<1>1. IsFiniteSet(T) /\ IsFiniteSet(S \ T)
  BY FS_Subset
<1>2. SumFunctionOnSet(f, T) \in Nat /\ SumFunctionOnSet(f, S \ T) \in Nat
  BY <1>1, SumIsNat
<1>3. SumFunctionOnSet(f, S) = SumFunctionOnSet(f, T) + SumFunctionOnSet(f, S \ T)
  BY SumOfParts
<1> QED
  BY <1>2, <1>3

LEMMA SmallerIs ==
    ASSUME NEW a \in Nat, NEW b \in Nat
    PROVE  Min({a, b}) \in Nat /\ Min({a, b}) = IF a <= b THEN a ELSE b
<1>1. {a, b} \subseteq Nat /\ {a, b} # {}
  OBVIOUS
<1>2. Min({a, b}) \in {a, b} /\ \A x \in {a, b} : Min({a, b}) <= x
  BY <1>1, LeastIs
<1> QED
  BY <1>2

\* evaluateDiscount: never more than the goods it applies to.
LEMMA DiscountIs ==
    ASSUME NEW c \in Coupons \cup {NoCoupon}, NEW b, NEW S, IsFiniteSet(S), NEW delivery \in Nat,
           DOMAIN b.lines = S, b.subtotal \in Nat, \A l \in S : b.lines[l].total \in Nat,
           b.subtotal = SumOf([l \in S |-> b.lines[l].total])
    PROVE  /\ Discount(c, b, delivery).amount \in Nat /\ Discount(c, b, delivery).amount <= b.subtotal
           /\ Discount(c, b, delivery).waives \in BOOLEAN
<1> DEFINE some == S \cap c.only
           worths == [l \in S |-> b.lines[l].total]
           part == [l \in some |-> b.lines[l].total]
           eligible == SumOf([l \in DOMAIN b.lines \cap c.only |-> b.lines[l].total])
           percent == RoundDiv(eligible * c.value, 100)
           worth == CASE c.type = "PERCENT" -> Min({percent, c.cap, eligible})
                      [] c.type = "FIXED" -> Min({c.value, eligible})
                      [] OTHER -> 0
<1>1. eligible \in Nat /\ eligible <= b.subtotal
  <2>1. eligible = SumFunctionOnSet(part, some)
    <3>1. DOMAIN part = some
      OBVIOUS
    <3>2. eligible = SumOf(part)
      OBVIOUS
    <3> HIDE DEF part
    <3> QED
      BY <3>1, <3>2, SumOfIs
  <2>2. b.subtotal = SumFunctionOnSet(worths, S)
    <3>1. DOMAIN worths = S
      OBVIOUS
    <3>2. b.subtotal = SumOf(worths)
      OBVIOUS
    <3> HIDE DEF worths
    <3> QED
      BY <3>1, <3>2, SumOfIs
  <2>3. \A l \in S : worths[l] \in Nat
    OBVIOUS
  <2>4. IsFiniteSet(some) /\ some \subseteq S
    BY FS_Subset
  <2>5. \A l \in some : part[l] = worths[l]
    OBVIOUS
  <2> HIDE DEF part, worths, some
  <2>6. SumFunctionOnSet(part, some) = SumFunctionOnSet(worths, some)
    BY <2>4, <2>5, SumSame
  <2>7. SumFunctionOnSet(worths, some) \in Nat /\ SumFunctionOnSet(worths, some) <= SumFunctionOnSet(worths, S)
    BY <2>3, <2>4, SumOfSome
  <2> HIDE DEF eligible
  <2> QED
    BY <2>1, <2>2, <2>6, <2>7
<1> HIDE DEF eligible
<1>2. c.value \in Nat /\ c.cap \in Nat
  BY PricingAssumption DEF NoCoupon
<1>3. percent \in Nat
  <2>1. eligible * c.value \in Nat
    BY <1>1, <1>2
  <2> QED
    BY <2>1, RoundIs
<1> HIDE DEF percent
<1>4. worth \in Nat /\ worth <= eligible
  <2>1. CASE c.type = "PERCENT"
    <3>1. {percent, c.cap, eligible} \subseteq Nat /\ {percent, c.cap, eligible} # {}
      BY <1>1, <1>2, <1>3
    <3>2. Min({percent, c.cap, eligible}) \in Nat /\ Min({percent, c.cap, eligible}) <= eligible
      BY <3>1, LeastIs
    <3> QED
      BY <2>1, <3>2
  <2>2. CASE c.type = "FIXED"
    <3>1. Min({c.value, eligible}) \in Nat /\ Min({c.value, eligible}) <= eligible
      BY <1>1, <1>2, SmallerIs
    <3> QED
      BY <2>2, <3>1
  <2>3. CASE c.type # "PERCENT" /\ c.type # "FIXED"
    <3>1. worth = 0
      BY <2>3
    <3> QED
      BY <1>1, <3>1
  <2> QED
    BY <2>1, <2>2, <2>3
<1>5. Discount(c, b, delivery) =
        [amount |-> IF b.subtotal >= c.least THEN worth ELSE 0,
         waives |-> c.type = "FREE_DELIVERY" /\ b.subtotal >= c.least /\ delivery > 0]
  BY DEF Discount, eligible, percent
<1> HIDE DEF worth
<1> QED
  BY <1>1, <1>4, <1>5

Charges == [r \in Rules.ranges |-> r.charge]

\* A sum of charges is one of the sums known of.
LEMMA ChargesAre ==
    ASSUME NEW T, T \subseteq Rules.ranges
    PROVE  MapThenSumSet(LAMBDA r : r.charge, T) = SumFunctionOnSet(Charges, T)
<1> DEFINE Iter(g) == g = [s \in SUBSET T |-> IF s = {} THEN 0
                                              ELSE (CHOOSE x \in s : TRUE).charge + g[s \ {CHOOSE x \in s : TRUE}]]
           g == CHOOSE g : Iter(g)
<1>1. MapThenSumSet(LAMBDA r : r.charge, T) = g[T]
  BY DEF MapThenSumSet, MapThenFoldSet
<1>2. IsFiniteSet(T)
  BY FS_Subset, PricingAssumption DEF RulesPass
<1>3. ASSUME NEW h PROVE Iter(h) <=> Sums(Charges, T, h)
  <2>1. \A s \in SUBSET T : s # {} => (CHOOSE x \in s : TRUE).charge = Charges[CHOOSE x \in s : TRUE]
    BY DEF Charges
  <2> QED
    BY <2>1 DEF Sums
<1>4. PICK k : Sums(Charges, T, k) /\ SumFunctionOnSet(Charges, T) = k[T]
  BY <1>2, Unfold
<1>5. Iter(g)
  <2>1. Iter(k)
    BY <1>3, <1>4
  <2> HIDE DEF Iter
  <2> QED
    BY <2>1
<1>6. Sums(Charges, T, g)
  <2> HIDE DEF Iter, g
  <2> QED
    BY <1>3, <1>5
<1> HIDE DEF g
<1> QED
  BY <1>1, <1>2, <1>4, <1>6, SumsAgree

LEMMA ImageIsFinite ==
    ASSUME NEW S, IsFiniteSet(S), NEW T, NEW f \in [S -> T]
    PROVE  IsFiniteSet({f[x] : x \in S})
<1> DEFINE image == {f[x] : x \in S}
<1>1. f \in Surjection(S, image)
  BY DEF Surjection
<1> HIDE DEF image
<1>2. IsFiniteSet(image)
  BY <1>1, FS_Surjection
<1> QED
  BY <1>2 DEF image

LEMMA Bounded ==
    ASSUME NEW n \in Nat, NEW T, T \subseteq 0..n, T # {}
    PROVE  Max(T) \in T /\ \A x \in T : x <= Max(T)
<1>1. IsFiniteSet(0..n)
  BY FS_Interval
<1>2. IsFiniteSet(T)
  BY <1>1, FS_Subset
<1>3. T \subseteq Int
  OBVIOUS
<1> QED
  BY <1>2, <1>3, GreatestIs

\* A range begins where the one before it ends.
LEMMA RangeBegins ==
    ASSUME NEW r \in Rules.ranges
    PROVE  /\ EndBefore(r) \in Nat /\ EndBefore(r) < r.upTo
           /\ EndBefore(r) = 0 \/ \E q \in Rules.ranges : EndBefore(r) = q.upTo
           /\ \A q \in Rules.ranges : q.upTo < r.upTo => q.upTo <= EndBefore(r)
<1> DEFINE T == {0} \cup {q.upTo : q \in {x \in Rules.ranges : x.upTo < r.upTo}}
<1>1. r.upTo \in Nat /\ \A q \in Rules.ranges : q.upTo \in Nat \ {0}
  BY PricingAssumption DEF RulesPass
<1>2. T \subseteq 0..r.upTo /\ T # {}
  BY <1>1
<1>3. EndBefore(r) = Max(T)
  BY DEF EndBefore
<1>4. Max(T) \in T /\ \A x \in T : x <= Max(T)
  <2> HIDE DEF T
  <2> QED
    BY <1>1, <1>2, Bounded
<1>5. PICK m : m = Max(T) /\ m \in T /\ \A x \in T : x <= m
  BY <1>4
<1>6. \A q \in Rules.ranges : q.upTo < r.upTo => q.upTo <= m
  BY <1>5
<1>7. m = 0 \/ \E q \in Rules.ranges : q.upTo < r.upTo /\ m = q.upTo
  BY <1>5
<1> HIDE DEF T
<1>8. m \in Nat /\ m < r.upTo
  <2>1. r.upTo \in Nat \ {0}
    BY PricingAssumption DEF RulesPass
  <2> QED
    BY <1>1, <1>7, <2>1
<1> QED
  BY <1>3, <1>5, <1>6, <1>7, <1>8

IsLast(r) == r \in Rules.ranges /\ \A q \in Rules.ranges : q.upTo <= r.upTo

LEMMA LastRange == \E r : IsLast(r) /\ r = CHOOSE x \in Rules.ranges : \A q \in Rules.ranges : q.upTo <= x.upTo
<1> DEFINE R == {p \in Rules.ranges \X Rules.ranges : p[1].upTo < p[2].upTo}
<1>1. \A s, t \in Rules.ranges : <<s, t>> \in R <=> s.upTo < t.upTo
  OBVIOUS
<1>2. \A s \in Rules.ranges : s.upTo \in Nat /\ \A t \in Rules.ranges : s.upTo = t.upTo => s = t
  BY PricingAssumption DEF RulesPass
<1>3. IsFiniteSet(Rules.ranges) /\ Rules.ranges # {}
  BY PricingAssumption DEF RulesPass
<1> HIDE DEF R
<1>4. InOrder(R, Rules.ranges)
  <2>1. \A s \in Rules.ranges : <<s, s>> \notin R
    BY <1>1, <1>2
  <2>2. ASSUME NEW s \in Rules.ranges, NEW t \in Rules.ranges, NEW u \in Rules.ranges,
               <<s, t>> \in R, <<t, u>> \in R
        PROVE  <<s, u>> \in R
    <3>1. s.upTo \in Nat /\ t.upTo \in Nat /\ u.upTo \in Nat /\ s.upTo < t.upTo /\ t.upTo < u.upTo
      BY <1>1, <1>2, <2>2
    <3> QED
      BY <1>1, <3>1
  <2>3. ASSUME NEW s \in Rules.ranges, NEW t \in Rules.ranges, s # t
        PROVE  <<s, t>> \in R \/ <<t, s>> \in R
    <3>1. s.upTo \in Nat /\ t.upTo \in Nat /\ s.upTo # t.upTo
      BY <1>2, <2>3
    <3> QED
      BY <1>1, <3>1
  <2> QED
    BY <2>1, <2>2, <2>3 DEF InOrder
<1>5. PICK s \in Rules.ranges : \A t \in Rules.ranges : t # s => <<t, s>> \in R
  BY <1>3, <1>4, LastOf
<1>6. ASSUME NEW t \in Rules.ranges PROVE t.upTo <= s.upTo
  <2>1. t # s => t.upTo < s.upTo
    BY <1>1, <1>5
  <2> QED
    BY <1>2, <2>1
<1>7. \E x \in Rules.ranges : \A q \in Rules.ranges : q.upTo <= x.upTo
  BY <1>6
<1> QED
  BY <1>7 DEF IsLast

LEMMA OneLast == ASSUME NEW q, IsLast(q), NEW r, IsLast(r) PROVE q = r
<1>1. q.upTo \in Nat /\ r.upTo \in Nat /\ q.upTo = r.upTo
  BY PricingAssumption DEF IsLast, RulesPass
<1> QED
  BY <1>1, PricingAssumption DEF IsLast, RulesPass

\* What a way costs beyond its slab, in figures.
Passed(metres) == {r \in Rules.ranges : EndBefore(r) = 0 \/ metres > EndBefore(r)}

Further(metres, last) ==
    IF metres > last.upTo THEN CeilDiv(metres - last.upTo, last.upTo - EndBefore(last)) ELSE 0

LEMMA ChargeIs ==
    ASSUME NEW metres \in Nat, NEW last, IsLast(last)
    PROVE  /\ DistanceCharge(metres) = SumFunctionOnSet(Charges, Passed(metres)) + last.charge * Further(metres, last)
           /\ SumFunctionOnSet(Charges, Passed(metres)) \in Nat /\ Further(metres, last) \in Nat /\ last.charge \in Nat
           /\ DistanceCharge(metres) \in Nat
<1>1. last = CHOOSE x \in Rules.ranges : \A q \in Rules.ranges : q.upTo <= x.upTo
  BY LastRange, OneLast
<1>2. MapThenSumSet(LAMBDA r : r.charge, Passed(metres)) = SumFunctionOnSet(Charges, Passed(metres))
  BY ChargesAre DEF Passed
<1>3. DistanceCharge(metres) = MapThenSumSet(LAMBDA r : r.charge, Passed(metres)) + last.charge * Further(metres, last)
  BY <1>1 DEF DistanceCharge, Passed, Further
<1>4. SumFunctionOnSet(Charges, Passed(metres)) \in Nat
  <2>1. IsFiniteSet(Passed(metres)) /\ \A r \in Passed(metres) : Charges[r] \in Nat
    BY FS_Subset, PricingAssumption DEF Passed, Charges, RulesPass
  <2> QED
    BY <2>1, SumIsNat
<1>5. last.charge \in Nat /\ Further(metres, last) \in Nat
  <2>1. last \in Rules.ranges /\ last.upTo \in Nat /\ last.charge \in Nat
    BY PricingAssumption DEF IsLast, RulesPass
  <2>2. EndBefore(last) \in Nat /\ EndBefore(last) < last.upTo
    BY <2>1, RangeBegins
  <2>3. PICK w \in Nat \ {0} : w = last.upTo - EndBefore(last)
    BY <2>1, <2>2
  <2>4. ASSUME metres > last.upTo PROVE CeilDiv(metres - last.upTo, w) \in Nat
    <3>1. metres - last.upTo \in Nat
      BY <2>1, <2>4
    <3> QED
      BY <3>1, CeilIs
  <2> QED
    BY <2>1, <2>3, <2>4 DEF Further
<1>6. last.charge * Further(metres, last) \in Nat
  BY <1>5
<1> QED
  BY <1>2, <1>3, <1>4, <1>5, <1>6

\* A longer way is charged no less.
LEMMA LongerIsNoCheaper ==
    ASSUME NEW near \in Nat, NEW far \in Nat, near <= far
    PROVE  DistanceCharge(near) <= DistanceCharge(far)
<1>1. PICK last : IsLast(last)
  BY LastRange
<1>2. last \in Rules.ranges /\ last.upTo \in Nat
  BY <1>1, PricingAssumption DEF IsLast, RulesPass
<1>3. SumFunctionOnSet(Charges, Passed(near)) <= SumFunctionOnSet(Charges, Passed(far))
  <2>1. \A r \in Rules.ranges : EndBefore(r) \in Nat
    BY RangeBegins
  <2>2. Passed(near) \subseteq Passed(far)
    BY <2>1 DEF Passed
  <2>3. IsFiniteSet(Passed(far)) /\ \A r \in Passed(far) : Charges[r] \in Nat
    BY FS_Subset, PricingAssumption DEF Passed, Charges, RulesPass
  <2> QED
    BY <2>2, <2>3, SumOfSome
<1>4. Further(near, last) <= Further(far, last)
  <2>1. PICK w \in Nat \ {0} : w = last.upTo - EndBefore(last)
    BY <1>2, RangeBegins
  <2>2. CASE near <= last.upTo
    BY <1>1, <1>2, <2>2, ChargeIs DEF Further
  <2>3. CASE near > last.upTo
    <3>0. /\ near - last.upTo \in Nat /\ far - last.upTo \in Nat
          /\ near - last.upTo <= far - last.upTo /\ far > last.upTo
      BY <1>2, <2>3
    <3>1. PICK n \in Nat, f \in Nat : n = near - last.upTo /\ f = far - last.upTo /\ n <= f /\ far > last.upTo
      BY <3>0
    <3>2. w * CeilDiv(f, w) >= f /\ CeilDiv(f, w) \in Nat
      BY CeilIs
    <3>3. w * CeilDiv(f, w) >= n
      <4>1. PICK c \in Nat : c = CeilDiv(f, w)
        BY <3>2
      <4>2. w * c \in Nat
        OBVIOUS
      <4> QED
        BY <3>1, <3>2, <4>1, <4>2
    <3>4. CeilDiv(f, w) >= CeilDiv(n, w)
      BY <3>2, <3>3, CeilIs
    <3>5. CeilDiv(n, w) \in Nat
      BY CeilIs
    <3> QED
      BY <2>1, <2>3, <3>1, <3>2, <3>4, <3>5 DEF Further
  <2> QED
    BY <1>2, <2>2, <2>3
<1>5. PICK c \in Nat, a \in Nat, b \in Nat :
          c = last.charge /\ a = Further(near, last) /\ b = Further(far, last)
  BY <1>1, ChargeIs
<1>6. c * a <= c * b /\ c * a \in Nat /\ c * b \in Nat
  BY <1>4, <1>5
<1>7. PICK p \in Nat, q \in Nat :
          p = SumFunctionOnSet(Charges, Passed(near)) /\ q = SumFunctionOnSet(Charges, Passed(far))
  BY <1>1, ChargeIs
<1>8. DistanceCharge(near) = p + c * a /\ DistanceCharge(far) = q + c * b
  BY <1>1, <1>5, <1>7, ChargeIs
<1> QED
  BY <1>3, <1>6, <1>7, <1>8

\* The parts of a way that are as wide as w: those begun before its end are as many as
\* the next whole number says.
LEMMA PartsBegun ==
    ASSUME NEW d \in Nat \ {0}, NEW w \in Nat \ {0}, NEW n \in Nat, n >= d
    PROVE  Cardinality({k \in 0..n : k * w < d}) = CeilDiv(d, w)
<1>1. PICK q \in Nat : /\ q = CeilDiv(d, w) /\ w * q >= d /\ w * (q - 1) < d
                       /\ \A m \in Nat : w * m >= d => m >= q
  <2>1. d \in Nat /\ d > 0
    OBVIOUS
  <2>2. /\ CeilDiv(d, w) \in Nat /\ w * CeilDiv(d, w) >= d
        /\ w * (CeilDiv(d, w) - 1) < d
        /\ \A m \in Nat : w * m >= d => m >= CeilDiv(d, w)
    BY <2>1, CeilIs
  <2> QED
    BY <2>2
<1>2. q >= 1
  <2>1. q = 0 => w * q = 0
    OBVIOUS
  <2> QED
    BY <1>1, <2>1
<1>3. q <= n
  <2>1. w * n >= n
    <3>1. (w - 1) * n \in Nat /\ w * n = (w - 1) * n + n
      OBVIOUS
    <3> QED
      BY <3>1
  <2>2. w * n >= d
    <3>1. w * n \in Nat
      OBVIOUS
    <3> QED
      BY <2>1, <3>1
  <2> QED
    BY <1>1, <2>2
<1>4. ASSUME NEW k \in 0..n PROVE k * w < d <=> k <= q - 1
  <2>1. k * w = w * k /\ k \in Nat
    OBVIOUS
  <2>2. ~ (k * w < d) => k >= q
    BY <1>1, <2>1
  <2>3. k <= q - 1 => w * k <= w * (q - 1)
    BY <2>1
  <2>4. w * k \in Nat /\ w * (q - 1) \in Int
    BY <2>1
  <2>5. k >= q => w * k >= w * q
    BY <2>1
  <2>6. w * q \in Nat
    OBVIOUS
  <2> QED
    BY <1>1, <2>1, <2>2, <2>3, <2>4, <2>5, <2>6
<1>5. {k \in 0..n : k * w < d} = 0..(q - 1)
  <2>1. {k \in 0..n : k * w < d} = {k \in 0..n : k <= q - 1}
    BY <1>4
  <2>2. {k \in 0..n : k <= q - 1} = 0..(q - 1)
    BY <1>3
  <2> QED
    BY <2>1, <2>2
<1>6. Cardinality(0..(q - 1)) = q
  BY <1>2, FS_Interval
<1> QED
  BY <1>1, <1>5, <1>6

\* distanceChargeFor charges every block begun.
LEMMA BlocksAreCharged == ASSUME NEW metres \in Nat PROVE DistanceCharge(metres) = BlocksStarted(metres)
<1> DEFINE ends == {r.upTo : r \in Rules.ranges}
           started == {r \in Rules.ranges : \A e \in {0} \cup ends : e < r.upTo => e = 0 \/ e < metres}
<1>1. PICK last : IsLast(last)
  BY LastRange
<1>2. last \in Rules.ranges /\ last.upTo \in Nat \ {0} /\ \A r \in Rules.ranges : r.upTo \in Nat \ {0} /\ r.upTo <= last.upTo
  BY <1>1, PricingAssumption DEF IsLast, RulesPass
<1>3. Max(ends) = last.upTo
  <2>1. ends \subseteq 0..last.upTo /\ ends # {} /\ last.upTo \in ends
    BY <1>2
  <2>2. Max(ends) \in ends /\ \A x \in ends : x <= Max(ends)
    <3> HIDE DEF ends
    <3> QED
      BY <1>2, <2>1, Bounded
  <2> QED
    BY <1>2, <2>1, <2>2
<1>4. last = CHOOSE r \in Rules.ranges : r.upTo = Max(ends)
  <2>1. \A r \in Rules.ranges : r.upTo = last.upTo => r = last
    BY <1>2, PricingAssumption DEF RulesPass
  <2> HIDE DEF ends
  <2> QED
    BY <1>2, <1>3, <2>1
<1>5. EndBefore(last) = Max({0} \cup (ends \ {last.upTo}))
  <2>1. {q.upTo : q \in {x \in Rules.ranges : x.upTo < last.upTo}} = ends \ {last.upTo}
    BY <1>2
  <2> HIDE DEF ends
  <2> QED
    BY <2>1 DEF EndBefore
<1>6. started = Passed(metres)
  <2>1. ASSUME NEW r \in Rules.ranges
        PROVE  (\A e \in {0} \cup ends : e < r.upTo => e = 0 \/ e < metres) <=> EndBefore(r) = 0 \/ metres > EndBefore(r)
    <3>1. /\ EndBefore(r) \in Nat /\ EndBefore(r) < r.upTo /\ EndBefore(r) \in {0} \cup ends
          /\ \A e \in ends : e < r.upTo => e <= EndBefore(r)
      BY RangeBegins
    <3>2. r.upTo \in Nat /\ \A e \in ends : e \in Nat \ {0}
      BY <1>2
    <3> HIDE DEF ends
    <3> QED
      BY <3>1, <3>2
  <2> HIDE DEF ends
  <2> QED
    BY <2>1 DEF Passed
<1> DEFINE w == last.upTo - EndBefore(last)
           more == {k \in 0..metres : last.upTo + k * w < metres}
<1>7. w \in Nat \ {0}
  BY <1>2, RangeBegins
<1>8. Cardinality(more) = Further(metres, last)
  <2> HIDE DEF w
  <2>1. \A k \in 0..metres : k * w \in Nat
    BY <1>7
  <2>2. CASE metres > last.upTo
    <3>1. PICK d \in Nat \ {0} : d = metres - last.upTo /\ metres >= d
      BY <1>2, <2>2
    <3>2. more = {k \in 0..metres : k * w < d}
      BY <1>2, <2>1, <3>1
    <3>3. Cardinality({k \in 0..metres : k * w < d}) = CeilDiv(d, w)
      BY <1>7, <3>1, PartsBegun
    <3> QED
      BY <2>2, <3>1, <3>2, <3>3 DEF Further, w
  <2>3. CASE ~ (metres > last.upTo)
    <3>1. more = {}
      BY <1>2, <2>1, <2>3
    <3>2. Further(metres, last) = 0
      BY <2>3 DEF Further
    <3> HIDE DEF more
    <3> QED
      BY <3>1, <3>2, FS_EmptySet
  <2> QED
    BY <2>2, <2>3
<1>9. BlocksStarted(metres) = MapThenSumSet(LAMBDA r : r.charge, started) + last.charge * Cardinality(more)
  <2> HIDE DEF ends
  <2> QED
    BY <1>4, <1>5 DEF BlocksStarted, ends
<1>10. MapThenSumSet(LAMBDA r : r.charge, Passed(metres)) = SumFunctionOnSet(Charges, Passed(metres))
  BY ChargesAre DEF Passed
<1> HIDE DEF started, more
<1> QED
  BY <1>1, <1>6, <1>8, <1>9, <1>10, ChargeIs

\* deliveryFeeFor: a fuller cart is never dearer to deliver, nor a longer way cheaper.
LEMMA DeliveryFeeIs ==
    ASSUME NEW total \in Nat, NEW metres \in Nat
    PROVE  /\ DeliveryFee(total, metres) \in Nat
           /\ DeliveryFee(total, metres) > 0 => DeliveryFee(total, metres) = SlabBase(total) + BlocksStarted(metres)
           /\ \A more \in Nat : more >= total => DeliveryFee(more, metres) <= DeliveryFee(total, metres)
           /\ \A far \in Nat : far >= metres => DeliveryFee(total, metres) <= DeliveryFee(total, far)
<1>1. SlabBase(total) \in Nat /\ \A more \in Nat : SlabBase(more) \in Nat /\ (more >= total => SlabBase(more) <= SlabBase(total))
  BY SlabIs
<1>2. \A far \in Nat : DistanceCharge(far) \in Nat /\ DistanceCharge(far) = BlocksStarted(far)
  BY LastRange, ChargeIs, BlocksAreCharged
<1>3. \A far \in Nat : far >= metres => DistanceCharge(metres) <= DistanceCharge(far)
  BY LongerIsNoCheaper
<1>4. \A least \in Rules.freeAbove : least \in Nat
  BY PricingAssumption DEF RulesPass
<1>5. ASSUME NEW more \in Nat, more >= total PROVE DeliveryFee(more, metres) <= DeliveryFee(total, metres)
  BY <1>1, <1>2, <1>4, <1>5 DEF DeliveryFee
<1>6. ASSUME NEW far \in Nat, far >= metres PROVE DeliveryFee(total, metres) <= DeliveryFee(total, far)
  BY <1>1, <1>2, <1>3, <1>6 DEF DeliveryFee
<1>7. DeliveryFee(total, metres) \in Nat
  BY <1>1, <1>2 DEF DeliveryFee
<1>8. DeliveryFee(total, metres) > 0 => DeliveryFee(total, metres) = SlabBase(total) + BlocksStarted(metres)
  BY <1>2 DEF DeliveryFee
<1> QED
  BY <1>5, <1>6, <1>7, <1>8

\* planDistance: how far the FLAT lines go.
LEMMA FlatIs ==
    ASSUME NEW shop \in Catalogues, NEW units, DOMAIN units \subseteq CartLines, FlatLines(shop, units) # {},
           NEW where \in DOMAIN Road
    PROVE  /\ FlatMetres(shop, units, where) \in Nat
           /\ \A other \in DOMAIN Road :
                 NoNearer(where, other) => FlatMetres(shop, units, where) <= FlatMetres(shop, units, other)
<1> DEFINE flat == FlatLines(shop, units)
           f(place) == [l \in flat |-> MetresTo(place, shop[l].warehouses)]
           ways(place) == {f(place)[l] : l \in flat}
<1>1. flat \subseteq CartLines /\ IsFiniteSet(flat)
  BY FS_Subset, PricingAssumption DEF FlatLines
<1>2. \A l \in flat : shop[l].warehouses \in SUBSET Ways
  BY <1>1, CatalogueIs DEF IsEntry
<1> HIDE DEF flat
<1>3. ASSUME NEW place \in DOMAIN Road
      PROVE  /\ \E l \in flat : FlatMetres(shop, units, place) = MetresTo(place, shop[l].warehouses)
             /\ \A l \in flat : MetresTo(place, shop[l].warehouses) <= FlatMetres(shop, units, place)
             /\ FlatMetres(shop, units, place) \in Nat
  <2>1. f(place) \in [flat -> Nat]
    BY <1>2, NearestIs
  <2>2. ways(place) \subseteq Int /\ ways(place) # {}
    BY <2>1 DEF flat
  <2>3. IsFiniteSet(ways(place))
    <3> HIDE DEF f
    <3> QED
      BY <1>1, <2>1, ImageIsFinite
  <2>4. FlatMetres(shop, units, place) = Max(ways(place))
    BY DEF FlatMetres, flat
  <2>5. Max(ways(place)) \in ways(place) /\ \A x \in ways(place) : x <= Max(ways(place))
    <3> HIDE DEF ways
    <3> QED
      BY <2>2, <2>3, GreatestIs
  <2> QED
    BY <2>1, <2>4, <2>5
<1>4. ASSUME NEW other \in DOMAIN Road, NoNearer(where, other)
      PROVE  FlatMetres(shop, units, where) <= FlatMetres(shop, units, other)
  <2>1. PICK l \in flat : FlatMetres(shop, units, where) = MetresTo(where, shop[l].warehouses)
    BY <1>3
  <2>2. /\ MetresTo(where, shop[l].warehouses) \in Nat /\ MetresTo(other, shop[l].warehouses) \in Nat
        /\ MetresTo(where, shop[l].warehouses) <= MetresTo(other, shop[l].warehouses)
    BY <1>2, <1>4, NearestIs
  <2>3. MetresTo(other, shop[l].warehouses) <= FlatMetres(shop, units, other) /\ FlatMetres(shop, units, other) \in Nat
    BY <1>3
  <2> QED
    BY <2>1, <2>2, <2>3
<1> QED
  BY <1>3, <1>4

LEMMA FeeIs ==
    ASSUME NEW shop \in Catalogues, NEW units, DOMAIN units \subseteq CartLines, NEW where \in DOMAIN Road, NEW total \in Nat
    PROVE  /\ FeeAt(shop, units, where, total) \in Nat
           /\ FeeAt(shop, units, where, total) > 0 =>
                 FeeAt(shop, units, where, total) = SlabBase(total) + BlocksStarted(FlatMetres(shop, units, where))
           /\ \A more \in Nat : more >= total => FeeAt(shop, units, where, more) <= FeeAt(shop, units, where, total)
           /\ \A other \in DOMAIN Road :
                 NoNearer(where, other) => FeeAt(shop, units, where, total) <= FeeAt(shop, units, other, total)
<1>1. CASE FlatLines(shop, units) = {}
  BY <1>1 DEF FeeAt
<1>2. CASE FlatLines(shop, units) # {}
  <2>1. \A place \in DOMAIN Road, n \in Nat :
           FeeAt(shop, units, place, n) = DeliveryFee(n, FlatMetres(shop, units, place))
    BY <1>2 DEF FeeAt
  <2>2. \A place \in DOMAIN Road : FlatMetres(shop, units, place) \in Nat
    BY <1>2, FlatIs
  <2>3. ASSUME NEW other \in DOMAIN Road, NoNearer(where, other)
        PROVE  FeeAt(shop, units, where, total) <= FeeAt(shop, units, other, total)
    <3>1. FlatMetres(shop, units, where) <= FlatMetres(shop, units, other)
      BY <1>2, <2>3, FlatIs
    <3> QED
      BY <2>1, <2>2, <3>1, DeliveryFeeIs
  <2> QED
    BY <2>1, <2>2, <2>3, DeliveryFeeIs
<1> QED
  BY <1>1, <1>2

\* priceCart: what it promises of a cart's bill.
CartHolds(shop, units, where, c, b) ==
    /\ Reconciles(b) /\ DOMAIN b.lines = DOMAIN units
    /\ b.subtotal \in Nat /\ b.discount \in Nat /\ b.delivery \in Nat /\ b.discount <= b.subtotal
    /\ b.delivery = IF c.type = "FREE_DELIVERY" /\ b.subtotal >= c.least /\ FeeAt(shop, units, where, b.subtotal) > 0
                    THEN 0 ELSE FeeAt(shop, units, where, b.subtotal - b.discount)
    /\ c.type = "FREE_DELIVERY" => b.discount = 0
    /\ \A l \in DOMAIN units :
          /\ b.lines[l].rate = Matched(Priced(shop[l], where), units[l])
          /\ b.lines[l].next = NextRung(Priced(shop[l], where), units[l])

LEMMA CartIs ==
    ASSUME NEW shop \in Catalogues, NEW S, S \subseteq CartLines, NEW units \in [S -> Nat],
           NEW where \in DOMAIN Road, NEW c \in Coupons \cup {NoCoupon}
    PROVE  /\ CartHolds(shop, units, where, c, PriceCart(shop, units, where, c))
           /\ LET b == PriceCart(shop, units, where, c) IN b = PriceOrder(shop, units, where, b.discount, b.delivery)
<1>1. IsFiniteSet(S) /\ DOMAIN units \subseteq CartLines
  BY FS_Subset, PricingAssumption
<1> DEFINE Subtotal == SumOf([l \in S |-> Matched(Priced(shop[l], where), units[l]) * units[l]])
<1>2. PICK probe : probe = PriceOrder(shop, units, where, 0, 0)
  OBVIOUS
<1>3. /\ DOMAIN probe.lines = S /\ probe.subtotal \in Nat /\ probe.subtotal = Subtotal
      /\ \A l \in S : probe.lines[l].rate = Matched(Priced(shop[l], where), units[l])
      /\ \A l \in S : probe.lines[l].total = probe.lines[l].rate * units[l]
  <2>1. 0 \in Nat
    OBVIOUS
  <2> QED
    BY <1>1, <1>2, <2>1, BillIs
<1>4. \A l \in S : probe.lines[l].total \in Nat
  <2>1. SUFFICES ASSUME NEW l \in S PROVE probe.lines[l].total \in Nat
    OBVIOUS
  <2>2. Matched(Priced(shop[l], where), units[l]) \in Nat
    BY CatalogueIs, PricedIs, MatchedIs
  <2>3. Matched(Priced(shop[l], where), units[l]) * units[l] \in Nat
    BY <2>2
  <2> QED
    BY <1>3, <2>3
<1>5. probe.subtotal = SumOf([l \in S |-> probe.lines[l].total])
  <2>1. [l \in S |-> probe.lines[l].total] = [l \in S |-> Matched(Priced(shop[l], where), units[l]) * units[l]]
    BY <1>3
  <2> QED
    BY <1>3, <2>1
<1> HIDE DEF Subtotal
<1>6. PICK fee \in Nat : fee = FeeAt(shop, units, where, probe.subtotal)
  BY <1>1, <1>3, FeeIs
<1>7. PICK resolved : resolved = Discount(c, probe, fee)
  OBVIOUS
<1>8. resolved.amount \in Nat /\ resolved.amount <= probe.subtotal /\ resolved.waives \in BOOLEAN
  BY <1>1, <1>3, <1>4, <1>5, <1>7, DiscountIs
<1>9. /\ resolved.waives <=> c.type = "FREE_DELIVERY" /\ probe.subtotal >= c.least /\ fee > 0
      /\ c.type = "FREE_DELIVERY" => resolved.amount = 0
  BY <1>7 DEF Discount
<1>10. PICK delivery \in Nat :
          delivery = IF resolved.waives THEN 0 ELSE FeeAt(shop, units, where, probe.subtotal - resolved.amount)
  <2>1. probe.subtotal - resolved.amount \in Nat
    BY <1>3, <1>8
  <2> QED
    BY <1>1, <2>1, FeeIs
<1>11. PICK b : b = PriceCart(shop, units, where, c) /\ b = PriceOrder(shop, units, where, resolved.amount, delivery)
  BY <1>2, <1>6, <1>7, <1>10 DEF PriceCart, CouponOn, WithCoupon
<1>12. /\ Reconciles(b) /\ DOMAIN b.lines = S
       /\ b.subtotal \in Nat /\ b.delivery = delivery
       /\ b.discount \in Nat /\ b.discount <= b.subtotal
       /\ b.discount = Clamped(resolved.amount, b.subtotal) /\ b.subtotal = Subtotal
       /\ \A l \in S : /\ b.lines[l].rate = Matched(Priced(shop[l], where), units[l])
                       /\ b.lines[l].next = NextRung(Priced(shop[l], where), units[l])
  <2>1. PICK asked \in Nat : asked = resolved.amount
    BY <1>8
  <2>2. b = PriceOrder(shop, units, where, asked, delivery)
    BY <1>11, <2>1
  <2>3. /\ Reconciles(b) /\ DOMAIN b.lines = S
        /\ b.subtotal \in Nat /\ b.delivery = delivery
        /\ b.discount \in Nat /\ b.discount <= b.subtotal
        /\ b.discount = Clamped(asked, b.subtotal)
        /\ \A l \in S : /\ b.lines[l].rate = Matched(Priced(shop[l], where), units[l])
                        /\ b.lines[l].next = NextRung(Priced(shop[l], where), units[l])
        /\ b.subtotal = SumOf([l \in S |-> Matched(Priced(shop[l], where), units[l]) * units[l]])
    BY <1>1, <2>2, BillIs
  <2> QED
    BY <2>1, <2>3 DEF Subtotal
<1>13. b.subtotal = probe.subtotal /\ b.discount = resolved.amount
  <2>1. Min({resolved.amount, b.subtotal}) = resolved.amount
    BY <1>3, <1>8, <1>12, SmallerIs
  <2> QED
    BY <1>3, <1>12, <2>1 DEF Clamped
<1>14. b = PriceOrder(shop, units, where, b.discount, b.delivery)
  BY <1>11, <1>12, <1>13
<1>15. b.delivery = IF c.type = "FREE_DELIVERY" /\ b.subtotal >= c.least /\ FeeAt(shop, units, where, b.subtotal) > 0
                    THEN 0 ELSE FeeAt(shop, units, where, b.subtotal - b.discount)
  BY <1>6, <1>9, <1>10, <1>12, <1>13
<1>16. CartHolds(shop, units, where, c, b)
  BY <1>9, <1>10, <1>12, <1>13, <1>15 DEF CartHolds
<1> QED
  BY <1>11, <1>14, <1>16

\* A cart with no line has nothing on its bill, and nothing to deliver.
LEMMA EmptyIs ==
    ASSUME NEW shop, NEW where, NEW c
    PROVE  CartHolds(shop, <<>>, where, c, EmptyBill)
<1> DEFINE none == [l \in {} |-> EmptyBill.lines[l]]
<1>1. /\ DOMAIN EmptyBill.lines = {} /\ EmptyBill.subtotal = 0 /\ EmptyBill.discount = 0
      /\ EmptyBill.delivery = 0 /\ EmptyBill.grand = 0
  BY DEF EmptyBill
<1>2. \A f : DOMAIN f = {} => SumOf(f) = 0
  <2>1. SUFFICES ASSUME NEW f, DOMAIN f = {} PROVE SumOf(f) = 0
    OBVIOUS
  <2> QED
    BY <2>1, SumOfIs, SumOfNone
<1>3. /\ SumOf([l \in DOMAIN EmptyBill.lines |-> EmptyBill.lines[l].share]) = 0
      /\ SumOf([l \in DOMAIN EmptyBill.lines |-> EmptyBill.lines[l].taxable + EmptyBill.lines[l].tax]) = 0
  BY <1>1, <1>2
<1>4. Reconciles(EmptyBill)
  BY <1>1, <1>3 DEF Reconciles
<1>5. \A total : FeeAt(shop, <<>>, where, total) = 0
  BY DEF FeeAt, FlatLines
<1> QED
  BY <1>1, <1>4, <1>5 DEF CartHolds

\* The units a shopper chose are a cart.
LEMMA ChosenIs ==
    ASSUME NEW b \in [CartLines -> 0..MostOfEach]
    PROVE  /\ Chosen(b) \in [DOMAIN Chosen(b) -> Nat] /\ DOMAIN Chosen(b) \subseteq CartLines
           /\ \A l \in DOMAIN Chosen(b) : Chosen(b)[l] = b[l]
<1>1. PICK S : S = {k \in CartLines : b[k] > 0} /\ S \subseteq CartLines
  OBVIOUS
<1>2. Chosen(b) = [l \in S |-> b[l]]
  BY <1>1 DEF Chosen
<1>3. \A l \in S : b[l] \in Nat
  <2>1. SUFFICES ASSUME NEW l \in S PROVE b[l] \in Nat
    OBVIOUS
  <2>2. b[l] \in 0..MostOfEach
    BY <1>1
  <2> QED
    BY <2>2
<1> QED
  BY <1>1, <1>2, <1>3

\* What the page shows is what priceCart promises, of an empty cart too.
LEMMA QuotedIs ==
    ASSUME NEW shop \in Catalogues, NEW b \in [CartLines -> 0..MostOfEach],
           NEW where \in DOMAIN Road, NEW c \in Coupons \cup {NoCoupon}
    PROVE  CartHolds(shop, Chosen(b), where, c, Quoted(shop, Chosen(b), where, c))
<1>1. CASE Chosen(b) = <<>>
  BY <1>1, EmptyIs DEF Quoted
<1>2. CASE Chosen(b) # <<>>
  <2>1. CartHolds(shop, Chosen(b), where, c, PriceCart(shop, Chosen(b), where, c))
    BY ChosenIs, CartIs
  <2> QED
    BY <1>2, <2>1 DEF Quoted
<1> QED
  BY <1>1, <1>2

\* The delivery asks only which lines are in the cart.
LEMMA SameLinesSameFee ==
    ASSUME NEW shop, NEW units, NEW others, DOMAIN units = DOMAIN others, NEW where, NEW total
    PROVE  /\ FeeAt(shop, units, where, total) = FeeAt(shop, others, where, total)
           /\ FlatMetres(shop, units, where) = FlatMetres(shop, others, where)
BY DEF FeeAt, FlatLines, FlatMetres

LEMMA PricingBegins == PricingInit => PricingInv
<1> SUFFICES ASSUME PricingInit PROVE PricingInv
  OBVIOUS
<1> USE DEF PricingInit
<1>1. PricingTypeOK
  BY PricingAssumption DEF PricingTypeOK, EmptyBill, Chosen
<1>2. Chosen(basket) = <<>>
  BY DEF Chosen
<1>3. quote = Quoted(catalogue, Chosen(basket), pin, coupon)
  BY <1>2 DEF Quoted
<1>4. Reconciles(EmptyBill) /\ EmptyBill.discount \in Nat /\ EmptyBill.delivery \in Nat
  BY EmptyIs DEF CartHolds
<1> QED
  BY <1>1, <1>3, <1>4 DEF PricingInv, Bills

\* The cart before and after a step that prices it again.
LEMMA RepriceIs ==
    ASSUME PricingInv, Reprice, basket' \in [CartLines -> 0..MostOfEach],
           pin' \in DOMAIN Road, coupon' \in Coupons \cup {NoCoupon}
    PROVE  /\ CartHolds(catalogue, Chosen(basket), pin, coupon, quote)
           /\ CartHolds(catalogue, Chosen(basket'), pin', coupon', quote')
           /\ PricingInv'
<1>1. /\ catalogue \in Catalogues /\ basket \in [CartLines -> 0..MostOfEach]
      /\ pin \in DOMAIN Road /\ coupon \in Coupons \cup {NoCoupon}
  BY DEF PricingInv, PricingTypeOK
<1>2. /\ order.at = "none" /\ order' = order /\ catalogue' = catalogue
      /\ quote = Quoted(catalogue, Chosen(basket), pin, coupon)
      /\ quote' = Quoted(catalogue, Chosen(basket'), pin', coupon')
  BY DEF PricingInv, Reprice
<1>3. CartHolds(catalogue, Chosen(basket), pin, coupon, quote)
  BY <1>1, <1>2, QuotedIs
<1>4. CartHolds(catalogue, Chosen(basket'), pin', coupon', quote')
  BY <1>1, <1>2, QuotedIs
<1>5. PricingTypeOK'
  BY <1>1, <1>2, <1>4 DEF CartHolds, PricingInv, PricingTypeOK
<1>6. Reconciles(quote') /\ quote'.discount \in Nat /\ quote'.delivery \in Nat
  BY <1>4 DEF CartHolds
<1>7. Reconciles(order'.bill) /\ order'.bill.discount \in Nat /\ order'.bill.delivery \in Nat
  BY <1>2 DEF PricingInv, Bills
<1>8. order' = [at |-> order'.at, online |-> order'.online, bill |-> order'.bill]
  BY <1>2 DEF PricingInv
<1> QED
  BY <1>2, <1>3, <1>4, <1>5, <1>6, <1>7, <1>8 DEF PricingInv, Bills

\* A step prices the cart again, or leaves what the page shows.
LEMMA PriceStepIs ==
    ASSUME PricingInv, PricingNext \/ UNCHANGED pricingVars
    PROVE  \/ /\ Reprice /\ basket' \in [CartLines -> 0..MostOfEach]
              /\ pin' \in DOMAIN Road /\ coupon' \in Coupons \cup {NoCoupon}
              /\ pin' = pin \/ basket' = basket
           \/ UNCHANGED <<quote, basket>>
<1>1. basket \in [CartLines -> 0..MostOfEach] /\ pin \in DOMAIN Road /\ coupon \in Coupons \cup {NoCoupon}
  BY DEF PricingInv, PricingTypeOK
<1>2. CASE UNCHANGED pricingVars
  BY <1>2 DEF pricingVars
<1>3. ASSUME NEW l \in CartLines, NEW n \in 0..MostOfEach, ChangeUnits(l, n)
      PROVE  Reprice /\ basket' \in [CartLines -> 0..MostOfEach] /\ pin' = pin /\ coupon' = coupon
  BY <1>1, <1>3 DEF ChangeUnits
<1>4. ASSUME NEW c \in Coupons \cup {NoCoupon}, TypeCoupon(c)
      PROVE  Reprice /\ basket' = basket /\ pin' = pin /\ coupon' = c
  BY <1>4 DEF TypeCoupon
<1>5. ASSUME NEW where \in DOMAIN Road, MovePin(where)
      PROVE  Reprice /\ basket' = basket /\ pin' = where /\ coupon' = coupon
  BY <1>5 DEF MovePin
<1>6. ASSUME NEW online \in BOOLEAN, PrepareOrder(online) PROVE UNCHANGED <<quote, basket>>
  BY <1>6 DEF PrepareOrder
<1>7. ASSUME NEW c \in Catalogues, CatalogueChanges(c) PROVE UNCHANGED <<quote, basket>>
  BY <1>7 DEF CatalogueChanges
<1>8. ASSUME WriteOrder PROVE UNCHANGED <<quote, basket>>
  BY <1>8 DEF WriteOrder
<1> QED
  BY <1>1, <1>2, <1>3, <1>4, <1>5, <1>6, <1>7, <1>8 DEF PricingNext

\* What the writer is answered for a shopper's cart.
LEMMA WriterIs ==
    ASSUME NEW shop \in Catalogues, NEW b \in [CartLines -> 0..MostOfEach], NEW where \in DOMAIN Road,
           NEW asked \in Nat, NEW delivery \in Nat,
           NEW bill, bill = PriceOrder(shop, Chosen(b), where, asked, delivery)
    PROVE  /\ Reconciles(bill) /\ DOMAIN bill.lines = DOMAIN Chosen(b)
           /\ bill.discount \in Nat /\ bill.delivery \in Nat
<1>1. PICK S : S = DOMAIN Chosen(b)
  OBVIOUS
<1>2. PICK units \in [S -> Nat] : units = Chosen(b)
  BY <1>1, ChosenIs
<1>3. S \subseteq CartLines /\ IsFiniteSet(S) /\ bill = PriceOrder(shop, units, where, asked, delivery)
  BY <1>1, <1>2, ChosenIs, FS_Subset, PricingAssumption
<1>4. /\ Reconciles(bill) /\ DOMAIN bill.lines = S
      /\ bill.subtotal \in Nat /\ bill.delivery = delivery
      /\ bill.discount \in Nat /\ bill.discount <= bill.subtotal
      /\ bill.discount = Clamped(asked, bill.subtotal)
      /\ bill.subtotal = SumOf([l \in S |-> Matched(Priced(shop[l], where), units[l]) * units[l]])
  BY <1>3, BillIs
<1> QED
  BY <1>1, <1>4

\* The order's figures, given to the writer, come to a bill that reconciles.
LEMMA WritingIs ==
    ASSUME PricingInv, WriteOrder
    PROVE  PricingInv'
<1>1. /\ catalogue \in Catalogues /\ basket \in [CartLines -> 0..MostOfEach]
      /\ pin \in DOMAIN Road /\ coupon \in Coupons \cup {NoCoupon} /\ order.online \in BOOLEAN
      /\ DOMAIN quote.lines = DOMAIN Chosen(basket) /\ DOMAIN order.bill.lines = DOMAIN Chosen(basket)
  BY DEF PricingInv, PricingTypeOK, WriteOrder
<1>2. /\ Reconciles(quote) /\ quote.discount \in Nat /\ quote.delivery \in Nat
      /\ Reconciles(order.bill) /\ order.bill.discount \in Nat /\ order.bill.delivery \in Nat
  BY DEF PricingInv, Bills
<1>3. UNCHANGED <<catalogue, basket, coupon, pin, quote>>
  BY DEF WriteOrder
<1>4. PICK bill : bill = PriceOrder(catalogue, Chosen(basket), pin, order.bill.discount, order.bill.delivery)
  OBVIOUS
<1>5. order' = IF RefusedAt(bill) THEN [order EXCEPT !.at = "refused"]
               ELSE [at |-> "placed", online |-> order.online, bill |-> bill]
  BY <1>4 DEF WriteOrder
<1>6. DOMAIN Chosen(basket) \subseteq CartLines /\ IsFiniteSet(DOMAIN Chosen(basket))
  BY <1>1, ChosenIs, FS_Subset, PricingAssumption
<1>7. /\ Reconciles(bill) /\ DOMAIN bill.lines = DOMAIN Chosen(basket)
      /\ bill.discount \in Nat /\ bill.delivery \in Nat
  BY <1>1, <1>2, <1>4, WriterIs
<1>8. /\ order' = [at |-> order'.at, online |-> order.online, bill |-> order'.bill]
      /\ order'.at \in {"refused", "placed"} /\ order'.online = order.online
      /\ order'.bill = bill \/ order'.bill = order.bill
  BY <1>5 DEF PricingInv
<1>9. PricingTypeOK'
  BY <1>1, <1>3, <1>7, <1>8 DEF PricingTypeOK
<1>10. Reconciles(order'.bill) /\ order'.bill.discount \in Nat /\ order'.bill.delivery \in Nat
  BY <1>2, <1>7, <1>8
<1> QED
  BY <1>2, <1>3, <1>8, <1>9, <1>10 DEF PricingInv, Bills

LEMMA PricingStep ==
    ASSUME PricingInv, PricingNext \/ UNCHANGED pricingVars
    PROVE  PricingInv'
<1>1. /\ catalogue \in Catalogues /\ basket \in [CartLines -> 0..MostOfEach]
      /\ pin \in DOMAIN Road /\ coupon \in Coupons \cup {NoCoupon}
      /\ DOMAIN quote.lines = DOMAIN Chosen(basket)
  BY DEF PricingInv, PricingTypeOK
<1>2. Reconciles(quote) /\ quote.discount \in Nat /\ quote.delivery \in Nat
  BY DEF PricingInv, Bills
<1>3. CASE UNCHANGED pricingVars
  BY <1>3 DEF PricingInv, PricingTypeOK, Bills, pricingVars
<1>4. ASSUME NEW l \in CartLines, NEW n \in 0..MostOfEach, ChangeUnits(l, n) PROVE PricingInv'
  <2>1. Reprice /\ basket' \in [CartLines -> 0..MostOfEach] /\ pin' \in DOMAIN Road /\ coupon' \in Coupons \cup {NoCoupon}
    BY <1>1, <1>4 DEF ChangeUnits
  <2> QED
    BY <2>1, RepriceIs
<1>5. ASSUME NEW c \in Coupons \cup {NoCoupon}, TypeCoupon(c) PROVE PricingInv'
  <2>1. Reprice /\ basket' \in [CartLines -> 0..MostOfEach] /\ pin' \in DOMAIN Road /\ coupon' \in Coupons \cup {NoCoupon}
    BY <1>1, <1>5 DEF TypeCoupon
  <2> QED
    BY <2>1, RepriceIs
<1>6. ASSUME NEW where \in DOMAIN Road, MovePin(where) PROVE PricingInv'
  <2>1. Reprice /\ basket' \in [CartLines -> 0..MostOfEach] /\ pin' \in DOMAIN Road /\ coupon' \in Coupons \cup {NoCoupon}
    BY <1>1, <1>6 DEF MovePin
  <2> QED
    BY <2>1, RepriceIs
<1>7. ASSUME NEW online \in BOOLEAN, PrepareOrder(online) PROVE PricingInv'
  <2>1. UNCHANGED <<catalogue, basket, coupon, pin, quote>>
    BY <1>7 DEF PrepareOrder
  <2>2. PICK bill : /\ bill = PriceCart(catalogue, Chosen(basket), pin, coupon)
                    /\ order' = [at |-> "prepared", online |-> online, bill |-> bill]
    BY <1>7 DEF PrepareOrder
  <2>3. CartHolds(catalogue, Chosen(basket), pin, coupon, bill)
    BY <1>1, <2>2, ChosenIs, CartIs
  <2>4. /\ Reconciles(bill) /\ DOMAIN bill.lines = DOMAIN Chosen(basket)
        /\ bill.discount \in Nat /\ bill.delivery \in Nat
    BY <2>3 DEF CartHolds
  <2>5. PricingTypeOK'
    BY <1>1, <1>7, <2>1, <2>2, <2>4 DEF PricingTypeOK
  <2> QED
    BY <1>2, <2>1, <2>2, <2>4, <2>5 DEF PricingInv, Bills
<1>8. ASSUME NEW c \in Catalogues, CatalogueChanges(c) PROVE PricingInv'
  <2>1. catalogue' = c /\ order.at = "prepared" /\ UNCHANGED <<basket, coupon, pin, quote, order>>
    BY <1>8 DEF CatalogueChanges
  <2>2. PricingTypeOK'
    BY <1>8, <2>1 DEF PricingInv, PricingTypeOK
  <2> QED
    BY <2>1, <2>2 DEF PricingInv, Bills
<1>9. ASSUME WriteOrder PROVE PricingInv'
  BY <1>9, WritingIs
<1> QED
  BY <1>3, <1>4, <1>5, <1>6, <1>7, <1>8, <1>9 DEF PricingNext

LEMMA PricesAre == PricingInv => SharesAddUp /\ TotalReconciles /\ NextRungIsKept /\ DeliveryIsBlocksStarted
<1> SUFFICES ASSUME PricingInv PROVE SharesAddUp /\ TotalReconciles /\ NextRungIsKept /\ DeliveryIsBlocksStarted
  OBVIOUS
<1>1. SharesAddUp /\ TotalReconciles
  BY DEF PricingInv, Reconciles, SharesAddUp, TotalReconciles
<1>2. /\ catalogue \in Catalogues /\ basket \in [CartLines -> 0..MostOfEach]
      /\ pin \in DOMAIN Road /\ coupon \in Coupons \cup {NoCoupon}
  BY DEF PricingInv, PricingTypeOK
<1>3. order.at = "none" => CartHolds(catalogue, Chosen(basket), pin, coupon, quote)
  BY <1>2, QuotedIs DEF PricingInv
<1>4. NextRungIsKept
  <2>1. SUFFICES ASSUME NEW l \in DOMAIN quote.lines, order.at = "none",
                        NEW next, next = quote.lines[l].next, next.units > 0
                 PROVE  /\ next.units > basket[l]
                        /\ Matched(Priced(catalogue[l], pin), next.units) <= next.rate
                        /\ next.rate < quote.lines[l].rate
    BY DEF NextRungIsKept
  <2>2. l \in DOMAIN Chosen(basket) /\ l \in CartLines /\ basket[l] \in Nat /\ Chosen(basket)[l] = basket[l]
    BY <1>2, <1>3, <2>1, ChosenIs DEF CartHolds
  <2>3. PICK p : p = Priced(catalogue[l], pin)
    OBVIOUS
  <2>4. quote.lines[l].rate = Matched(p, basket[l]) /\ next = NextRung(p, basket[l])
    BY <1>3, <2>1, <2>2, <2>3 DEF CartHolds
  <2>5. IsPriced(p)
    BY <1>2, <2>2, <2>3, CatalogueIs, PricedIs
  <2> QED
    BY <2>1, <2>2, <2>3, <2>4, <2>5, NextRungIs
<1>5. DeliveryIsBlocksStarted
  <2>1. SUFFICES ASSUME order.at = "none", quote.delivery > 0
                 PROVE  quote.delivery = SlabBase(quote.subtotal - quote.discount)
                                           + BlocksStarted(FlatMetres(catalogue, quote.lines, pin))
    BY DEF DeliveryIsBlocksStarted
  <2>2. /\ quote.delivery = FeeAt(catalogue, Chosen(basket), pin, quote.subtotal - quote.discount)
        /\ DOMAIN quote.lines = DOMAIN Chosen(basket)
        /\ quote.subtotal - quote.discount \in Nat
    BY <1>3, <2>1 DEF CartHolds
  <2>3. FlatMetres(catalogue, quote.lines, pin) = FlatMetres(catalogue, Chosen(basket), pin)
    BY <2>2, SameLinesSameFee
  <2> QED
    BY <1>2, <2>1, <2>2, <2>3, ChosenIs, FeeIs
<1> QED
  BY <1>1, <1>4, <1>5

LEMMA MoreUnitsAre ==
    ASSUME PricingInv, PricingNext \/ UNCHANGED pricingVars
    PROVE  \A l \in DOMAIN quote.lines \cap DOMAIN quote'.lines :
              basket'[l] > basket[l] => quote'.lines[l].rate <= quote.lines[l].rate
<1>1. SUFFICES ASSUME NEW l \in DOMAIN quote.lines \cap DOMAIN quote'.lines, basket'[l] > basket[l]
               PROVE  quote'.lines[l].rate <= quote.lines[l].rate
  OBVIOUS
<1>2. /\ catalogue \in Catalogues /\ basket \in [CartLines -> 0..MostOfEach]
      /\ pin \in DOMAIN Road /\ coupon \in Coupons \cup {NoCoupon}
      /\ DOMAIN quote.lines = DOMAIN Chosen(basket)
  BY DEF PricingInv, PricingTypeOK
<1>3. l \in CartLines /\ basket[l] \in Nat /\ ~(basket[l] > basket[l])
  BY <1>1, <1>2, ChosenIs
<1>4. /\ Reprice /\ basket' \in [CartLines -> 0..MostOfEach]
      /\ pin' = pin /\ coupon' \in Coupons \cup {NoCoupon}
  BY <1>1, <1>3, PriceStepIs
<1>5. /\ CartHolds(catalogue, Chosen(basket), pin, coupon, quote)
      /\ CartHolds(catalogue, Chosen(basket'), pin, coupon', quote')
  BY <1>2, <1>4, RepriceIs
<1>6. basket'[l] \in Nat /\ Chosen(basket)[l] = basket[l] /\ Chosen(basket')[l] = basket'[l]
  BY <1>1, <1>2, <1>3, <1>4, <1>5, ChosenIs DEF CartHolds
<1>7. PICK p : p = Priced(catalogue[l], pin)
  OBVIOUS
<1>8. quote.lines[l].rate = Matched(p, basket[l])
  BY <1>1, <1>5, <1>6, <1>7 DEF CartHolds
<1>9. quote'.lines[l].rate = Matched(p, basket'[l])
  BY <1>1, <1>5, <1>6, <1>7 DEF CartHolds
<1>10. IsPriced(p)
  BY <1>2, <1>3, <1>7, CatalogueIs, PricedIs
<1> QED
  BY <1>1, <1>3, <1>6, <1>8, <1>9, <1>10, MatchedIs

\* Two answers for the same lines under the same coupon: what delivery costs in one
\* and in the other.
LEMMA DeliveriesAre ==
    ASSUME NEW shop \in Catalogues, NEW units, NEW more, DOMAIN units = DOMAIN more, DOMAIN units \subseteq CartLines,
           NEW where \in DOMAIN Road, NEW far \in DOMAIN Road, NEW c \in Coupons \cup {NoCoupon},
           NEW b, CartHolds(shop, units, where, c, b), NEW d, CartHolds(shop, more, far, c, d)
    PROVE  /\ far = where /\ d.subtotal - d.discount >= b.subtotal - b.discount => d.delivery <= b.delivery
           /\ NoNearer(where, far) /\ d.subtotal - d.discount = b.subtotal - b.discount => d.delivery >= b.delivery
<1> DEFINE Near(total) == FeeAt(shop, units, where, total)
           Far(total) == FeeAt(shop, units, far, total)
<1>1. \A total \in Nat : /\ Near(total) \in Nat /\ Far(total) \in Nat
                         /\ \A other \in Nat : other >= total => Near(other) <= Near(total)
                         /\ NoNearer(where, far) => Near(total) <= Far(total)
  BY FeeIs
<1>2. /\ b.subtotal \in Nat /\ b.discount \in Nat /\ b.delivery \in Nat
      /\ b.subtotal - b.discount \in Nat
      /\ b.delivery = IF c.type = "FREE_DELIVERY" /\ b.subtotal >= c.least /\ Near(b.subtotal) > 0
                      THEN 0 ELSE Near(b.subtotal - b.discount)
      /\ c.type = "FREE_DELIVERY" => b.discount = 0
  BY DEF CartHolds
<1>3. /\ d.subtotal \in Nat /\ d.discount \in Nat /\ d.delivery \in Nat
      /\ d.subtotal - d.discount \in Nat
      /\ d.delivery = IF c.type = "FREE_DELIVERY" /\ d.subtotal >= c.least /\ Far(d.subtotal) > 0
                      THEN 0 ELSE Far(d.subtotal - d.discount)
      /\ c.type = "FREE_DELIVERY" => d.discount = 0
  BY SameLinesSameFee DEF CartHolds
<1>4. c.least \in Nat
  BY PricingAssumption DEF NoCoupon
<1>5. far = where => \A total : Far(total) = Near(total)
  OBVIOUS
<1> HIDE DEF Near, Far
<1>6. ASSUME far = where, d.subtotal - d.discount >= b.subtotal - b.discount PROVE d.delivery <= b.delivery
  BY <1>1, <1>2, <1>3, <1>4, <1>5, <1>6
<1>7. ASSUME NoNearer(where, far), d.subtotal - d.discount = b.subtotal - b.discount PROVE d.delivery >= b.delivery
  BY <1>1, <1>2, <1>3, <1>4, <1>7
<1> QED
  BY <1>6, <1>7

LEMMA FullerOrFartherIs ==
    ASSUME PricingInv, PricingNext \/ UNCHANGED pricingVars,
           UNCHANGED <<catalogue, coupon>>, DOMAIN quote'.lines = DOMAIN quote.lines
    PROVE  /\ pin' = pin /\ quote'.subtotal - quote'.discount >= quote.subtotal - quote.discount
                => quote'.delivery <= quote.delivery
           /\ basket' = basket /\ NoNearer(pin, pin')
              /\ quote'.subtotal - quote'.discount = quote.subtotal - quote.discount
                => quote'.delivery >= quote.delivery
<1>1. /\ catalogue \in Catalogues /\ basket \in [CartLines -> 0..MostOfEach]
      /\ pin \in DOMAIN Road /\ coupon \in Coupons \cup {NoCoupon} /\ quote.delivery \in Nat
      /\ DOMAIN Chosen(basket) \subseteq CartLines
  BY ChosenIs DEF PricingInv, PricingTypeOK, Bills
<1>2. CASE quote' = quote
  BY <1>1, <1>2
<1>3. CASE /\ Reprice /\ basket' \in [CartLines -> 0..MostOfEach]
           /\ pin' \in DOMAIN Road /\ coupon' \in Coupons \cup {NoCoupon}
  <2>1. /\ CartHolds(catalogue, Chosen(basket), pin, coupon, quote)
        /\ CartHolds(catalogue, Chosen(basket'), pin', coupon, quote')
    BY <1>3, RepriceIs
  <2>2. DOMAIN Chosen(basket) = DOMAIN Chosen(basket')
    BY <2>1 DEF CartHolds
  <2> QED
    BY <1>1, <1>3, <2>1, <2>2, DeliveriesAre
<1> QED
  BY <1>2, <1>3, PriceStepIs

LEMMA OrderIsItsQuote ==
    ASSUME PricingInv, PricingNext \/ UNCHANGED pricingVars, order.at = "prepared", order'.at = "placed"
    PROVE  /\ order.online => order'.bill.grand = order.bill.grand
           /\ PriceCart(catalogue, Chosen(basket), pin, coupon) = order.bill => order'.bill = order.bill
<1>1. /\ catalogue \in Catalogues /\ basket \in [CartLines -> 0..MostOfEach]
      /\ pin \in DOMAIN Road /\ coupon \in Coupons \cup {NoCoupon}
  BY DEF PricingInv, PricingTypeOK
<1>2. WriteOrder
  BY DEF PricingNext, ChangeUnits, TypeCoupon, MovePin, Reprice, PrepareOrder, CatalogueChanges, pricingVars
<1>3. PICK bill : bill = PriceOrder(catalogue, Chosen(basket), pin, order.bill.discount, order.bill.delivery)
  OBVIOUS
<1>4. /\ order' = IF RefusedAt(bill) THEN [order EXCEPT !.at = "refused"]
                  ELSE [at |-> "placed", online |-> order.online, bill |-> bill]
      /\ order = [at |-> order.at, online |-> order.online, bill |-> order.bill]
  BY <1>2, <1>3 DEF WriteOrder, PricingInv
<1>5. ~RefusedAt(bill) /\ order'.bill = bill
  BY <1>4
<1>6. ASSUME PriceCart(catalogue, Chosen(basket), pin, coupon) = order.bill PROVE bill = order.bill
  BY <1>1, <1>3, <1>6, ChosenIs, CartIs
<1> QED
  BY <1>5, <1>6 DEF RefusedAt

-----------------------------------------------------------------------------
(* The components side by side.                                            *)

\* A step is of one component, and leaves what the others keep alone.
LEMMA OneComponentMoves ==
    ASSUME [Next]_vars
    PROVE  /\ PlacingNext \/ UNCHANGED placingVars
           /\ LedgerNext \/ UNCHANGED ledgerVars
           /\ RatesNext \/ UNCHANGED ratesVars
           /\ MethodsNext \/ UNCHANGED methodVars
           /\ PricingNext \/ UNCHANGED pricingVars
BY DEF Next, Elsewhere, vars

\* What is written of orders adds up: their numbers are consecutive and never given
\* twice, the shelf is what its trail explains and oversold by overlap only, what an
\* order put back it had taken, the customer's count heals, and an order's figures are
\* its ledger's.  So it is whatever calls overlap, but for a product's save or a
\* deletion beside another call, and where every good's stock is counted.
THEOREM BooksKept ==
    ASSUME ~LedgerOverlap, ~SaveOverlap, Untracked = {}
    PROVE  Spec => []OrderBooksAddUp
<1> DEFINE Books == PlacingInv /\ StockInv /\ PutBackWasTaken /\ LedgerInv
<1>1. Init => Books
  <2>1. PlacingInit => PutBackWasTaken
    BY DEF PlacingInit, PutBackWasTaken
  <2> QED
    BY <2>1, PlacingBegins, StockBegins, LedgerBegins DEF Init
<1>2. Books /\ [Next]_vars => Books'
  BY OneComponentMoves, PlacingStep, StockStep, BackIsTaken, LedgerStep
<1>3. Books => OrderBooksAddUp
  BY OversoldAtMost, PaidIsReceived DEF OrderBooksAddUp, PlacingInv, StockInv, LedgerInv
<1> QED
  BY <1>1, <1>2, <1>3, PTL DEF Spec

\* Whatever screen saves it, a ladder stays below its price and the last row of
\* its history is the price in force, as long as saves follow one another.
THEOREM RatesTold ==
    ASSUME ~RatesOverlap
    PROVE  Spec => []RatesAreTold
<1>1. Init => RatesInv
  BY RatesBegin DEF Init
<1>2. RatesInv /\ [Next]_vars => RatesInv'
  BY OneComponentMoves, RatesStep
<1>3. RatesInv => RatesAreTold
  BY DEF RatesInv, RatesAreTold
<1> QED
  BY <1>1, <1>2, <1>3, PTL DEF Spec

\* A row the rates screen writes tells of a change it made.
THEOREM RowsRecordChanges ==
    ASSUME ~RatesOverlap
    PROVE  Spec => RateRowsRecordChanges
<1>1. Init => RatesInv
  BY RatesBegin DEF Init
<1>2. RatesInv /\ [Next]_vars => RatesInv'
  BY OneComponentMoves, RatesStep
<1>3. RatesInv /\ [Next]_vars =>
        [\A v \in Variants :
            history'[v] # history[v] /\ history'[v].source = "RATES_SCREEN" => tariff'[v] # tariff[v]]_ratesVars
  BY OneComponentMoves, RatesRecordChanges
<1> QED
  BY <1>1, <1>2, <1>3, PTL DEF Spec, RateRowsRecordChanges

\* A method that is on can take money, and a payment that is given up on never came,
\* as long as the account a payment was opened at is not changed under it.
THEOREM MoneyCanBeTaken ==
    ASSUME ~RotateInFlight
    PROVE  Spec => []MethodsTakeMoney
<1>1. Init => MethodsInv
  BY MethodsBegin DEF Init
<1>2. MethodsInv /\ [Next]_vars => MethodsInv'
  BY OneComponentMoves, MethodsStep
<1>3. MethodsInv => MethodsTakeMoney
  BY MoneyIsTaken DEF MethodsTakeMoney
<1> QED
  BY <1>1, <1>2, <1>3, PTL DEF Spec

\* To the last paisa, for every catalogue, coupon, road and rules the delivery form
\* lets through: a discount's shares add up to it and a line gives away no more than it
\* is worth, the total is the lines, their tax and the delivery, a rung shown is a rung
\* reached, and delivery is its slab and a charge for every block the way starts.
THEOREM PricesReconcile == Spec => []PricesAddUp
<1>1. Init => PricingInv
  BY PricingBegins DEF Init
<1>2. PricingInv /\ [Next]_vars => PricingInv'
  BY OneComponentMoves, PricingStep
<1>3. PricingInv => PricesAddUp
  BY PricesAre DEF PricesAddUp
<1> QED
  BY <1>1, <1>2, <1>3, PTL DEF Spec

\* No step prices against the customer: more units never cost more each, a fuller
\* cart of the same lines is never dearer to deliver nor a longer way cheaper, and an
\* order costs what its cart said.
THEOREM PricesOnlyFall == Spec => MoreIsNoDearer /\ DeliveryIsMonotone /\ OrderCostsItsQuote
<1>1. Init => PricingInv
  BY PricingBegins DEF Init
<1>2. PricingInv /\ [Next]_vars => PricingInv'
  BY OneComponentMoves, PricingStep
<1>3. PricingInv /\ [Next]_vars =>
        [\A l \in DOMAIN quote.lines \cap DOMAIN quote'.lines :
            basket'[l] > basket[l] => quote'.lines[l].rate <= quote.lines[l].rate]_pricingVars
  BY OneComponentMoves, MoreUnitsAre
<1>4. PricingInv /\ [Next]_vars =>
        [UNCHANGED <<catalogue, coupon>> /\ DOMAIN quote'.lines = DOMAIN quote.lines =>
            /\ pin' = pin /\ quote'.subtotal - quote'.discount >= quote.subtotal - quote.discount
                  => quote'.delivery <= quote.delivery
            /\ basket' = basket /\ NoNearer(pin, pin')
               /\ quote'.subtotal - quote'.discount = quote.subtotal - quote.discount
                  => quote'.delivery >= quote.delivery]_pricingVars
  BY OneComponentMoves, FullerOrFartherIs
<1>5. PricingInv /\ [Next]_vars =>
        [order.at = "prepared" /\ order'.at = "placed" =>
            /\ order.online => order'.bill.grand = order.bill.grand
            /\ PriceCart(catalogue, Chosen(basket), pin, coupon) = order.bill => order'.bill = order.bill]_pricingVars
  BY OneComponentMoves, OrderIsItsQuote
<1> QED
  BY <1>1, <1>2, <1>3, <1>4, <1>5, PTL DEF Spec, MoreIsNoDearer, DeliveryIsMonotone, OrderCostsItsQuote

\* No step of any component undoes what another did, where no two calls of a component
\* overlap on the rows they write and an import fetches a picture for a product once.
THEOREM NothingUndone ==
    ASSUME ~NotifyOverlap, ~ReportOverlap, ~ErasureOverlap, ~RatesOverlap,
           ~ImportOverlap, ~Recommits, OneImageEach, ~MediaOverlap, UseKinds \subseteq CountedUses
    PROVE  Spec => NoStepUndoes
BY SentForGood, PicturesStay, ReportedForGood, ErasedWhenAsked, RowsRecordChanges, PricesOnlyFall
   DEF NoStepUndoes

\* Every component keeps to its types, under the hypotheses its own promises are
\* proved under.
THEOREM BackOfficeTyped ==
    ASSUME ~NotifyOverlap, ~ReportOverlap, ~ErasureOverlap, ~RatesOverlap, ~EnrolOverlap, ~LedgerOverlap,
           ~ImportOverlap, ~Recommits, OneImageEach, ~MediaOverlap, UseKinds \subseteq CountedUses, ~RotateInFlight
    PROVE  Spec => []TypeOK
<1> DEFINE IInv == /\ running \in Components
                   /\ NotifyInv /\ MediaInv /\ PlacingInv /\ LedgerInv /\ RatesInv
                   /\ ImportInv /\ ReportInv /\ ErasureInv /\ CodesInv /\ AdminInv
                   /\ PricingInv /\ MethodsInv
<1>1. Init => IInv
  BY NotifyBegins, MediaBegins, PlacingBegins, LedgerBegins, RatesBegin, ImportBegins, ReportInit, ErasureBegins,
     CodesBegin, AdminBegins, PricingBegins, MethodsBegin DEF Init
<1>2. IInv /\ [Next]_vars => IInv'
  <2> SUFFICES ASSUME IInv, [Next]_vars PROVE IInv'
    OBVIOUS
  <2>1. running' \in Components
    BY DEF Next, Elsewhere, vars
  <2>2. NotifyInv' /\ MediaInv' /\ ImportInv' /\ ReportInv'
    BY OneJobMoves, NotifyStep, MediaStep, ImportStep, ReportStep
  <2>3. ErasureInv' /\ CodesInv' /\ AdminInv'
    BY OneAccountMoves, ErasureStep, CodesStep, AdminStep
  <2>4. PlacingInv' /\ LedgerInv' /\ RatesInv' /\ PricingInv' /\ MethodsInv'
    BY OneComponentMoves, PlacingStep, LedgerStep, RatesStep, PricingStep, MethodsStep
  <2> QED
    BY <2>1, <2>2, <2>3, <2>4
<1>3. IInv => TypeOK
  BY LedgerTyped DEF TypeOK, NotifyInv, MediaInv, PlacingInv, RatesInv, ImportInv, ReportInv, ErasureInv, CodesInv,
     AdminInv, PricingInv, MethodsInv
<1> QED
  BY <1>1, <1>2, <1>3, PTL DEF Spec
=============================================================================
