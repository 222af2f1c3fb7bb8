------------------------------ MODULE Pricing -------------------------------
(***************************************************************************)
(* What a cart costs and what its order costs.  Both are worked out by one *)
(* engine (order-pricing.ts, delivery-pricing.ts, discounts.ts), but on    *)
(* two paths: priceCart goes over the lines twice, resolves the coupon and *)
(* the delivery, and hands the order writer figures; writeOrder prices     *)
(* once more from the catalogue, as it is by then, with those figures      *)
(* given.  Amounts are paise, rates basis points, distances metres; a      *)
(* cart's lines are numbered, each of a different variant.                 *)
(***************************************************************************)
EXTENDS Integers, FiniteSets, FiniteSetsExt

CONSTANTS
    Catalogues,    \* each [lines of a cart -> [price, ladder, bp, inclusive, added, warehouses]]
    Coupons,       \* each [type, value, least, cap, only]
    Rules,         \* the shop's delivery rules: [slabs, ranges, freeAbove]
    Road,          \* [pins -> [warehouses -> metres]]
    Blocks,        \* the block a distance-priced line counts in, in metres
    MostOfEach     \* bound: units of one line

CartLines == UNION {DOMAIN c : c \in Catalogues}

\* What the delivery form lets through (deliveryChargeRuleIssues): slabs from
\* nothing up, none dearer than the one before it, and ranges each beyond the last.
RulesPass ==
    /\ IsFiniteSet(Rules.slabs) /\ IsFiniteSet(Rules.ranges) /\ Rules.ranges # {} /\ Rules.freeAbove \subseteq Nat
    /\ \A s \in Rules.slabs : s.from \in Nat /\ s.base \in Nat
    /\ \A r \in Rules.ranges : r.upTo \in Nat \ {0} /\ r.charge \in Nat
    /\ \E s \in Rules.slabs : s.from = 0
    /\ \A s, t \in Rules.slabs : (s.from < t.from => t.base <= s.base) /\ (s.from = t.from => s = t)
    /\ \A q, r \in Rules.ranges : q.upTo = r.upTo => q = r

Ways == UNION {DOMAIN Road[where] : where \in DOMAIN Road}

\* A rung gives a rate from so many units, or from so much at list price.
Rungs == [basis : {"QUANTITY", "AMOUNT"}, from : Nat, rate : Nat]

\* An article as the catalogue prices it.
IsEntry(e) ==
    /\ e.price \in Nat /\ e.bp \in Nat /\ e.inclusive \in BOOLEAN
    /\ e.added.base \in Nat /\ e.added.perBlock \in Nat
    /\ e.warehouses \subseteq Ways
    /\ e.ladder \subseteq Rungs

ASSUME PricingAssumption ==
    /\ IsFiniteSet(CartLines) /\ CartLines \subseteq Nat
    /\ \A c \in Catalogues : DOMAIN c = CartLines /\ \A l \in CartLines : IsEntry(c[l])
    /\ \A c \in Coupons : c.value \in Nat /\ c.least \in Nat /\ c.cap \in Nat
    /\ \A where \in DOMAIN Road : Road[where] \in [Ways -> Nat]
    /\ Ways # {} /\ MostOfEach \in Nat \ {0} /\ Blocks \in Nat \ {0}
    /\ RulesPass

NoCoupon == [type |-> "NONE", value |-> 0, least |-> 0, cap |-> 0, only |-> CartLines]

VARIABLES
    catalogue,   \* what the shop sells at what rates
    basket,      \* units of each line, 0 when it is not in the cart
    coupon,      \* the code typed
    pin,         \* where the goods go
    quote,       \* what priceCart last answered
    order        \* the order placed from it: how far it is, whether it is paid online, and its bill

pricingVars == <<catalogue, basket, coupon, pin, quote, order>>

SumOf(f) == MapThenSumSet(LAMBDA l : f[l], DOMAIN f)

\* Math.round and Math.ceil of a fraction, of numbers not below zero.
RoundDiv(a, b) == (2 * a + b) \div (2 * b)
CeilDiv(a, b) == (a + b - 1) \div b

-----------------------------------------------------------------------------
(* Distance: delivery-pricing.ts.                                          *)

\* nearestWarehouse, of those that stock the line; of all when none does.
MetresTo(where, stockedBy) ==
    Min({Road[where][w] : w \in IF stockedBy = {} THEN DOMAIN Road[where] ELSE stockedBy})

\* distanceAdditionFor: the base covers the first block, every further block
\* started adds its amount.
AdditionAt(metres, added) ==
    added.base + added.perBlock * Max({0, CeilDiv(metres, Blocks) - 1})

\* slabFor: the slab with the greatest lower bound at or below the total.
SlabBase(total) ==
    LET reached == {s \in Rules.slabs : s.from <= total}
    IN (CHOOSE s \in reached : \A t \in reached : t.from <= s.from).base

\* distanceChargeFor: every range the trip passes through, and past the last
\* one its charge again for every further block as wide.
EndBefore(r) == Max({0} \cup {q.upTo : q \in {x \in Rules.ranges : x.upTo < r.upTo}})

DistanceCharge(metres) ==
    LET last == CHOOSE r \in Rules.ranges : \A q \in Rules.ranges : q.upTo <= r.upTo
        passed == {r \in Rules.ranges : EndBefore(r) = 0 \/ metres > EndBefore(r)}
        further == IF metres > last.upTo
                   THEN CeilDiv(metres - last.upTo, last.upTo - EndBefore(last))
                   ELSE 0
    IN MapThenSumSet(LAMBDA r : r.charge, passed) + last.charge * further

\* deliveryFeeFor: nothing at all once the total clears the free threshold, where
\* the shop has one.
DeliveryFee(total, metres) ==
    IF \E least \in Rules.freeAbove : total >= least THEN 0 ELSE SlabBase(total) + DistanceCharge(metres)

-----------------------------------------------------------------------------
(* One line: order-pricing.ts.                                             *)

\* withDistanceAddition: the addition is in the price and in every rung, and
\* the thresholds in rupees stay where they are.
Priced(entry, where) ==
    LET add == IF entry.added.base + entry.added.perBlock = 0 THEN 0
               ELSE AdditionAt(MetresTo(where, entry.warehouses), entry.added)
    IN [price |-> entry.price + add,
        ladder |-> {[t EXCEPT !.rate = @ + add] : t \in entry.ladder}]

Reaches(t, units, list) == IF t.basis = "QUANTITY" THEN units >= t.from ELSE units * list >= t.from

\* matchTier: the lowest rate among the rungs reached, judged on list figures.
Matched(p, units) ==
    Min({p.price} \cup {t.rate : t \in {x \in p.ladder : Reaches(x, units, p.price)}})

\* findNextTier: the nearest rung not yet reached that is cheaper, and how many
\* units it takes.
Gap(t, units, list) == IF t.basis = "QUANTITY" THEN t.from - units ELSE t.from - units * list

UnitsFor(t, list) == IF t.basis = "QUANTITY" THEN t.from ELSE CeilDiv(t.from, list)

NextRung(p, units) ==
    LET rate == Matched(p, units)
        above == {t \in p.ladder : t.rate < rate /\ Gap(t, units, p.price) > 0}
        nearest == {t \in above : \A x \in above : Gap(t, units, p.price) <= Gap(x, units, p.price)}
        best == CHOOSE t \in nearest : TRUE
    IN IF above = {} THEN [units |-> 0, rate |-> rate]
       ELSE [units |-> UnitsFor(best, p.price), rate |-> best.rate]

\* lineTax: inside the price, or on top of it.
Tax(net, bp, inclusive) == RoundDiv(net * bp, IF inclusive THEN 10000 + bp ELSE 10000)

\* allocateDiscount, allocateCashback: in proportion, what is left over going
\* to the largest remainders, ties to the earlier line.
MutantShares(worth, amount) ==
    LET all == SumOf(worth)
    IN [l \in DOMAIN worth |-> IF all = 0 THEN 0 ELSE RoundDiv(worth[l] * amount, all)]

Shares(worth, amount) ==
    LET all == SumOf(worth)
        whole == [l \in DOMAIN worth |-> (worth[l] * amount) \div all]
        rest == [l \in DOMAIN worth |-> (worth[l] * amount) % all]
        ahead(l) == {k \in DOMAIN worth : rest[k] > rest[l] \/ (rest[k] = rest[l] /\ k < l)}
        left == amount - SumOf(whole)
    IN [l \in DOMAIN worth |-> IF all = 0 THEN 0
                               ELSE whole[l] + (IF Cardinality(ahead(l)) < left THEN 1 ELSE 0)]

-----------------------------------------------------------------------------
(* The whole: priceOrder, evaluateDiscount, priceCart, writeOrder.         *)

\* A discount larger than the goods is worth no more than they are.
Clamped(asked, subtotal) == Min({asked, subtotal})

\* Only tax that was added on top moves the total.
Grand(lines, subtotal, discount, delivery) ==
    subtotal - discount
      + SumOf([l \in DOMAIN lines |-> IF lines[l].inclusive THEN 0 ELSE lines[l].tax]) + delivery

\* One line, given its prices, its rate and its share of the discount.
LineOf(entry, p, units, rate, share) ==
    LET net == rate * units - share
        tax == Tax(net, entry.bp, entry.inclusive)
    IN [rate |-> rate, total |-> rate * units, share |-> share, inclusive |-> entry.inclusive, tax |-> tax,
        taxable |-> IF entry.inclusive THEN net - tax ELSE net, next |-> NextRung(p, units)]

\* The total of lines that are priced.
BillOf(lines, subtotal, discount, delivery) ==
    [lines |-> lines, subtotal |-> subtotal, discount |-> discount, delivery |-> delivery,
     grand |-> Grand(lines, subtotal, discount, delivery)]

\* The bill at the rates the units reached: the discount, clamped, is shared out
\* and the lines are taxed on what it leaves.
BillAt(shop, units, p, rate, asked, delivery) ==
    LET total == [l \in DOMAIN units |-> rate[l] * units[l]]
        discount == Clamped(asked, SumOf(total))
        share == Shares(total, discount)
    IN BillOf([l \in DOMAIN units |-> LineOf(shop[l], p[l], units[l], rate[l], share[l])],
              SumOf(total), discount, delivery)

PriceOrder(shop, units, where, asked, delivery) ==
    LET p == [l \in DOMAIN units |-> Priced(shop[l], where)]
    IN BillAt(shop, units, p, [l \in DOMAIN units |-> Matched(p[l], units[l])], asked, delivery)

\* evaluateDiscount of a code that is on: big enough an order, something
\* eligible, and never more than what it applies to.
Discount(c, priced, delivery) ==
    LET eligible == SumOf([l \in DOMAIN priced.lines \cap c.only |-> priced.lines[l].total])
        percent == RoundDiv(eligible * c.value, 100)
        worth == CASE c.type = "PERCENT" -> Min({percent, c.cap, eligible})
                   [] c.type = "FIXED" -> Min({c.value, eligible})
                   [] OTHER -> 0
    IN [amount |-> IF priced.subtotal >= c.least THEN worth ELSE 0,
        waives |-> c.type = "FREE_DELIVERY" /\ priced.subtotal >= c.least /\ delivery > 0]

\* The lines of the FLAT products share one delivery, to the farthest of their
\* warehouses (planDistance).
FlatLines(shop, units) == {l \in DOMAIN units : shop[l].added.base + shop[l].added.perBlock = 0}

FlatMetres(shop, units, where) == Max({MetresTo(where, shop[l].warehouses) : l \in FlatLines(shop, units)})

FeeAt(shop, units, where, total) ==
    IF FlatLines(shop, units) = {} THEN 0 ELSE DeliveryFee(total, FlatMetres(shop, units, where))

\* The second pass: the delivery is judged on what is left after the coupon, and
\* a waived delivery is a threshold of nothing.
WithCoupon(shop, units, where, probe, resolved) ==
    PriceOrder(shop, units, where, resolved.amount,
               IF resolved.waives THEN 0 ELSE FeeAt(shop, units, where, probe.subtotal - resolved.amount))

\* The coupon is judged on the first pass and what its delivery would cost.
CouponOn(shop, units, where, c, probe) ==
    WithCoupon(shop, units, where, probe, Discount(c, probe, FeeAt(shop, units, where, probe.subtotal)))

\* The first pass learns the subtotal.
PriceCart(shop, units, where, c) == CouponOn(shop, units, where, c, PriceOrder(shop, units, where, 0, 0))

-----------------------------------------------------------------------------
(* What a shopper does, and the shop meanwhile.                            *)

Chosen(b) == [l \in {k \in CartLines : b[k] > 0} |-> b[l]]

EmptyBill == [lines |-> <<>>, subtotal |-> 0, discount |-> 0, delivery |-> 0, grand |-> 0]

\* What the page shows of a cart: nothing of an empty one.
Quoted(shop, units, where, c) == IF units = <<>> THEN EmptyBill ELSE PriceCart(shop, units, where, c)

PricingInit ==
    /\ catalogue \in Catalogues
    /\ basket = [l \in CartLines |-> 0]
    /\ coupon = NoCoupon
    /\ pin \in DOMAIN Road
    /\ quote = EmptyBill
    /\ order = [at |-> "none", online |-> FALSE, bill |-> EmptyBill]

\* The page prices the cart again after every change.
Reprice ==
    /\ order.at = "none"
    /\ quote' = Quoted(catalogue, Chosen(basket'), pin', coupon')
    /\ UNCHANGED <<catalogue, order>>

ChangeUnits(l, n) ==
    /\ basket[l] # n
    /\ basket' = [basket EXCEPT ![l] = n]
    /\ UNCHANGED <<coupon, pin>>
    /\ Reprice

TypeCoupon(c) ==
    /\ coupon # c
    /\ coupon' = c
    /\ UNCHANGED <<basket, pin>>
    /\ Reprice

MovePin(where) ==
    /\ pin # where
    /\ pin' = where
    /\ UNCHANGED <<basket, coupon>>
    /\ Reprice

\* placeCustomerOrder prices the cart as the page does, and hands the figures
\* on; a payment session keeps them while the customer pays.
PrepareOrder(online) ==
    /\ order.at = "none"
    /\ Chosen(basket) # <<>>
    /\ order' = [at |-> "prepared", online |-> online, bill |-> PriceCart(catalogue, Chosen(basket), pin, coupon)]
    /\ UNCHANGED <<catalogue, basket, coupon, pin, quote>>

\* The shop saves other prices meanwhile.
CatalogueChanges(c) ==
    /\ order.at = "prepared"
    /\ catalogue # c
    /\ catalogue' = c
    /\ UNCHANGED <<basket, coupon, pin, quote, order>>

\* writeOrder: priced from the catalogue, with the coupon's amount and the
\* delivery charge as given; an order that was paid for must cost what was paid.
RefusedAt(bill) == order.online /\ bill.grand # order.bill.grand

WriteOrder ==
    /\ order.at = "prepared"
    /\ LET bill == PriceOrder(catalogue, Chosen(basket), pin, order.bill.discount, order.bill.delivery)
       IN order' = IF RefusedAt(bill) THEN [order EXCEPT !.at = "refused"]
                   ELSE [at |-> "placed", online |-> order.online, bill |-> bill]
    /\ UNCHANGED <<catalogue, basket, coupon, pin, quote>>

PricingNext ==
    \/ \E l \in CartLines, n \in 0..MostOfEach : ChangeUnits(l, n)
    \/ \E c \in Coupons \cup {NoCoupon} : TypeCoupon(c)
    \/ \E where \in DOMAIN Road : MovePin(where)
    \/ \E online \in BOOLEAN : PrepareOrder(online)
    \/ \E c \in Catalogues : CatalogueChanges(c)
    \/ WriteOrder

PricingSpec == PricingInit /\ [][PricingNext]_pricingVars

-----------------------------------------------------------------------------
(* What the figures promise.                                               *)

PricingTypeOK ==
    /\ catalogue \in Catalogues
    /\ basket \in [CartLines -> 0..MostOfEach]
    /\ coupon \in Coupons \cup {NoCoupon}
    /\ pin \in DOMAIN Road
    /\ DOMAIN quote.lines = DOMAIN Chosen(basket)
    /\ order.at \in {"none", "prepared", "placed", "refused"} /\ order.online \in BOOLEAN
    /\ order.at # "none" => DOMAIN order.bill.lines = DOMAIN Chosen(basket)

Bills == {quote, order.bill}

\* The discount's shares add up to the discount, and no line gives away more
\* than it is worth, whatever became of the prices since the coupon was judged
\* ("so the shares sum to the discount exactly").
SharesAddUp ==
    \A b \in Bills :
        /\ SumOf([l \in DOMAIN b.lines |-> b.lines[l].share]) = b.discount
        /\ \A l \in DOMAIN b.lines : b.lines[l].share \in 0..b.lines[l].total

\* The total is what the lines are taxed on and their tax, and the delivery,
\* to the paisa, whether tax is inside the prices or on top (priceOrder).
TotalReconciles ==
    \A b \in Bills :
        b.grand = SumOf([l \in DOMAIN b.lines |-> b.lines[l].taxable + b.lines[l].tax]) + b.delivery

\* The rung a cart row points at keeps its word: at the units it names, the
\* line is charged that rate or less, which is less than now ("3 more bags and
\* you save").
NextRungIsKept ==
    \A l \in DOMAIN quote.lines :
        LET next == quote.lines[l].next
        IN next.units > 0 /\ order.at = "none" =>
              /\ next.units > basket[l]
              /\ Matched(Priced(catalogue[l], pin), next.units) <= next.rate
              /\ next.rate < quote.lines[l].rate

\* More units never cost more each ("it must never charge more because a row
\* was stored out of order", matchTier).
MoreIsNoDearer ==
    [][\A l \in DOMAIN quote.lines \cap DOMAIN quote'.lines :
          basket'[l] > basket[l] => quote'.lines[l].rate <= quote.lines[l].rate]_pricingVars

\* The reference: one block after another, those started before the way ends.
BlocksStarted(metres) ==
    LET ends == {r.upTo : r \in Rules.ranges}
        last == CHOOSE r \in Rules.ranges : r.upTo = Max(ends)
        width == last.upTo - Max({0} \cup (ends \ {last.upTo}))
        started == {r \in Rules.ranges : \A e \in {0} \cup ends : e < r.upTo => e = 0 \/ e < metres}
        more == {k \in 0..metres : last.upTo + k * width < metres}
    IN MapThenSumSet(LAMBDA r : r.charge, started) + last.charge * Cardinality(more)

\* What a delivery costs beyond its slab is a charge for every block the way
\* starts: the ranges, then blocks as wide as the last ("every block started",
\* distanceChargeFor).
DeliveryIsBlocksStarted ==
    order.at = "none" /\ quote.delivery > 0 =>
        quote.delivery = SlabBase(quote.subtotal - quote.discount)
                           + BlocksStarted(FlatMetres(catalogue, quote.lines, pin))

NoNearer(where, other) == \A w \in DOMAIN Road[where] : Road[other][w] >= Road[where][w]

\* A fuller cart of the same lines is never dearer to deliver, nor a longer way
\* cheaper ("Spending more must never cost more to deliver", delivery rules).
DeliveryIsMonotone ==
    [][UNCHANGED <<catalogue, coupon>> /\ DOMAIN quote'.lines = DOMAIN quote.lines =>
          /\ pin' = pin /\ quote'.subtotal - quote'.discount >= quote.subtotal - quote.discount
                => quote'.delivery <= quote.delivery
          /\ basket' = basket /\ NoNearer(pin, pin')
             /\ quote'.subtotal - quote'.discount = quote.subtotal - quote.discount
                => quote'.delivery >= quote.delivery]_pricingVars

\* An order costs what its cart said, though another path prices it: always
\* when it was paid for, and to the line unless the shop saved other prices
\* meanwhile ("produced by one call path, so they cannot drift").
OrderCostsItsQuote ==
    [][order.at = "prepared" /\ order'.at = "placed" =>
          /\ order.online => order'.bill.grand = order.bill.grand
          /\ PriceCart(catalogue, Chosen(basket), pin, coupon) = order.bill => order'.bill = order.bill]_pricingVars
-----------------------------------------------------------------------------
(* Why the figures do: what the page shows is what priceCart answers.       *)

\* What a bill keeps, whatever discount and delivery it was given.
Reconciles(b) ==
    /\ SumOf([l \in DOMAIN b.lines |-> b.lines[l].share]) = b.discount
    /\ \A l \in DOMAIN b.lines : b.lines[l].share \in 0..b.lines[l].total
    /\ b.grand = SumOf([l \in DOMAIN b.lines |-> b.lines[l].taxable + b.lines[l].tax]) + b.delivery

\* The page shows what priceCart answers for the cart as it is, and both bills
\* reconcile.
PricingInv ==
    /\ PricingTypeOK
    /\ order = [at |-> order.at, online |-> order.online, bill |-> order.bill]
    /\ order.at = "none" => quote = Quoted(catalogue, Chosen(basket), pin, coupon)
    /\ \A b \in Bills : Reconciles(b) /\ b.discount \in Nat /\ b.delivery \in Nat
=============================================================================
