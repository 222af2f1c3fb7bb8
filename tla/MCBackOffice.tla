---------------------------- MODULE MCBackOffice ----------------------------
(***************************************************************************)
(* The components of the shop that share no row with one another, checked  *)
(* side by side.  A behaviour runs one of them, which its initial state    *)
(* picks, and the others stay as they began: what one of these modules     *)
(* does never changes what another reads, so letting them take turns would *)
(* only multiply their states.  Every property is stated of every          *)
(* behaviour.                                                              *)
(***************************************************************************)
EXTENDS Notifications, MediaLibrary, Placing, OrderLedger, Rates,
        CatalogueImport, Conversions, Erasure, OneTimeCodes, AdminSignIn,
        Pricing, PaymentMethods

CONSTANT Components   \* those the instance runs

ImageOfEach == [p \in Products |-> p]   \* every product shows an image of its own

\* Two shops' worth of rates: ladders by units and by value, one of them out of
\* order; tax inside and on top; a line whose price grows with the way.
Flat(price, ladder, bp, inclusive, warehouses) ==
    [price |-> price, ladder |-> ladder, bp |-> bp, inclusive |-> inclusive,
     added |-> [base |-> 0, perBlock |-> 0], warehouses |-> warehouses]

Rung(basis, from, rate) == [basis |-> basis, from |-> from, rate |-> rate]

TwoCatalogues ==
    {<<Flat(100, {Rung("QUANTITY", 2, 90), Rung("QUANTITY", 3, 95)}, 1800, TRUE, {}),
       [Flat(35, {Rung("AMOUNT", 100, 33)}, 500, FALSE, {"w2"}) EXCEPT !.added = [base |-> 3, perBlock |-> 2]],
       Flat(67, {}, 0, TRUE, {})>>,
     <<Flat(61, {Rung("AMOUNT", 120, 55), Rung("AMOUNT", 183, 50)}, 500, FALSE, {}),
       Flat(50, {}, 1800, TRUE, {"w1"}),
       Flat(10, {}, 2800, FALSE, {})>>}

ThreeCoupons ==
    {[type |-> "PERCENT", value |-> 33, least |-> 100, cap |-> 50, only |-> {1, 2}],
     [type |-> "FIXED", value |-> 50, least |-> 0, cap |-> 0, only |-> 1..3],
     [type |-> "FREE_DELIVERY", value |-> 0, least |-> 150, cap |-> 0, only |-> 1..3]}

ShopRules ==
    [slabs |-> {[from |-> 0, base |-> 40], [from |-> 100, base |-> 20]},
     ranges |-> {[upTo |-> 5, charge |-> 30], [upTo |-> 10, charge |-> 15], [upTo |-> 20, charge |-> 10]},
     freeAbove |-> {400}]

\* A pin inside the first range, one at the very end of ranges, one past them all.
ThreePins == [near |-> [w1 |-> 3, w2 |-> 8], edge |-> [w1 |-> 5, w2 |-> 10], far |-> [w1 |-> 31, w2 |-> 26]]

VARIABLE running   \* the component the behaviour is of

Elsewhere(c) ==
    /\ UNCHANGED running
    /\ c # "notify"   => UNCHANGED notifyVars
    /\ c # "media"    => UNCHANGED mediaVars
    /\ c # "placing"  => UNCHANGED placingVars
    /\ c # "ledger"   => UNCHANGED ledgerVars
    /\ c # "rates"    => UNCHANGED ratesVars
    /\ c # "import"   => UNCHANGED importVars
    /\ c # "convert"  => UNCHANGED conversionVars
    /\ c # "erasure"  => UNCHANGED erasureVars
    /\ c # "codes"    => UNCHANGED codeVars
    /\ c # "admin"    => UNCHANGED adminVars
    /\ c # "pricing"  => UNCHANGED pricingVars
    /\ c # "methods"  => UNCHANGED methodVars

vars == <<running, notifyVars, mediaVars, placingVars, ledgerVars, ratesVars,
          importVars, conversionVars, erasureVars, codeVars, adminVars,
          pricingVars, methodVars>>

\* Where a component may begin in several states, only its own behaviours do.  A
\* shop at one gateway begins at PayU, which answers more vaguely; a save leaves
\* one with Razorpay alone.
Init ==
    /\ running \in Components
    /\ NotifyInit /\ MediaInit /\ PlacingInit /\ LedgerInit /\ RatesInit
    /\ ImportInit /\ ConversionInit /\ ErasureInit /\ CodesInit /\ AdminInit
    /\ PricingInit /\ MethodsInit
    /\ running = "placing" \/ numbering[1] = CHOOSE style \in Styles : TRUE
    /\ running = "rates"   \/ \A v \in Variants : tariff[v].price = MaxRate
    /\ running = "admin"   \/ admin.role = CHOOSE role \in Roles : TRUE
    /\ running = "pricing" \/ <<catalogue, pin>> = CHOOSE start \in Catalogues \X DOMAIN Road : TRUE
    /\ methods["PAYU"].on
    /\ methods["RAZORPAY"].on \/ running = "methods"
    /\ methods["PAYU"].place = 0 \/ (running = "methods" /\ methods["RAZORPAY"].on)

Next ==
    \/ running = "notify"  /\ NotifyNext     /\ Elsewhere("notify")
    \/ running = "media"   /\ MediaNext      /\ Elsewhere("media")
    \/ running = "placing" /\ PlacingNext    /\ Elsewhere("placing")
    \/ running = "ledger"  /\ LedgerNext     /\ Elsewhere("ledger")
    \/ running = "rates"   /\ RatesNext      /\ Elsewhere("rates")
    \/ running = "import"  /\ ImportNext     /\ Elsewhere("import")
    \/ running = "convert" /\ ConversionNext /\ Elsewhere("convert")
    \/ running = "erasure" /\ ErasureNext    /\ Elsewhere("erasure")
    \/ running = "codes"   /\ CodesNext      /\ Elsewhere("codes")
    \/ running = "admin"   /\ AdminNext      /\ Elsewhere("admin")
    \/ running = "pricing" /\ PricingNext    /\ Elsewhere("pricing")
    \/ running = "methods" /\ MethodsNext    /\ Elsewhere("methods")

Spec == Init /\ [][Next]_vars

\* Each component's variables keep their types while it runs; the others stay as
\* they began.
TypeOK ==
    /\ running \in Components
    /\ running = "notify"  => NotifyTypeOK
    /\ running = "media"   => MediaTypeOK
    /\ running = "placing" => PlacingTypeOK
    /\ running = "ledger"  => LedgerTypeOK
    /\ running = "rates"   => RatesTypeOK
    /\ running = "import"  => ImportTypeOK
    /\ running = "convert" => ConversionTypeOK
    /\ running = "erasure" => ErasureTypeOK
    /\ running = "codes"   => CodesTypeOK
    /\ running = "admin"   => AdminTypeOK
    /\ running = "pricing" => PricingTypeOK
    /\ running = "methods" => MethodsTypeOK

-----------------------------------------------------------------------------
(* What each component promises, its own module stating each part.         *)

\* One moment sends one message: it is marked sent only when it was accepted,
\* a code is never sent after its time, and no message is tried for ever
\* (dispatch.ts: notify, retryQueuedNotifications).
EachMomentTellsOnce ==
    SentWasAccepted /\ OneMessagePerMoment /\ NeverSentLater /\ TriesBounded

\* What is written of orders adds up, whatever overlaps: their numbers, the shelf
\* and its trail, the customer's totals, and an order's figures and its ledger
\* (create-order.ts, order-number.ts, stock.ts, orders.ts).
OrderBooksAddUp ==
    /\ NumbersUnique /\ NumbersConsecutive
    /\ ShelfIsItsTrail /\ PutBackWasTaken /\ OversoldByOverlapOnly
    /\ LifetimeHeals
    /\ FiguresAreTheLedger /\ PaidMeansReceived

\* Whichever screen saved it, a ladder discounts its price, and the last row of
\* the history is the rate in force (rates.ts, stock.ts, products.ts).
RatesAreTold == LadderBelowPrice /\ HistoryTellsThePrice

\* A finished import has all its pictures, and nothing shows a file whose bytes
\* are gone (image-fetcher.ts, imports.ts, jobs.ts).
PicturesArrive == CompletedMeansLinked /\ NoBrokenImage

\* A sale is reported with consent only, once, in a bounded number of tries
\* (meta-capi.ts: recordPurchaseConversion, runMarketingJobs).
SalesReportedOnce == NothingWithoutConsent /\ ReportedOnce /\ SendsBounded

\* An erased account owes and is owed nothing, and the photos it left go too
\* (privacy-erasure.ts: erasureBlock, eraseCustomer).
ErasureIsClean == ErasedOwesNothing /\ LoosePhotosGo

\* A code opens one thing, for one purpose, within its guesses, and an admin's
\* session passed both its steps, however callers overlap (customer-auth.ts,
\* auth.ts, two-factor.ts).
SignInIsEarned ==
    /\ ConfirmsOnce /\ SignsInTogetherAtMost /\ PurposesKeptApart
    /\ GuessesBounded /\ NewestOnly /\ CodesSentBounded
    /\ SessionsPassedTwoSteps /\ CodePassesOnce

\* To the last paisa: shares add up to their discount, lines and charges to the
\* total, a rung shown is a rung reached, and delivery is charged per block begun
\* (order-pricing.ts, delivery-pricing.ts).
PricesAddUp ==
    SharesAddUp /\ TotalReconciles /\ NextRungIsKept /\ DeliveryIsBlocksStarted

\* A gateway that is on can take a payment, and one that was changed under an open
\* payment loses none of its money (payment-settings.ts, payment-session.ts).
MethodsTakeMoney == OnHasCredentials /\ ExpiredWasNotPaid

\* What no step may do: undo what was sent, fetched, reported or erased, delete
\* what is shown, or change a price untold or against the customer (every module above
\* states its own part).
NoStepUndoes ==
    /\ SentIsFinal /\ DoneIsFinal /\ ReportIsFinal
    /\ ErasedOnRequest /\ DoneByErasing
    /\ ReferencedIsKept
    /\ RateRowsRecordChanges /\ OrderCostsItsQuote
    /\ MoreIsNoDearer /\ DeliveryIsMonotone

=============================================================================
