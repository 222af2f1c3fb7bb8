------------------------------- MODULE MCShop -------------------------------
(***************************************************************************)
(* What owners write and shoppers read and are told, and what is counted   *)
(* of it.  As in MCBackOffice, these components share no row with one      *)
(* another: a behaviour runs one of them, and every property is stated of  *)
(* every behaviour.                                                        *)
(***************************************************************************)
EXTENDS Support, ProductRows, Aisles, Shopfront, Website, TaxPresets,
        Consent, Analytics, Messages, CreditRules, AddressBook, Growth,
        Catalogue, HomeFeed, Incidents

CONSTANT Components   \* those the instance runs

LowerCase == [a |-> "a", A |-> "a", b |-> "b"]

SomeRules ==
    {{}, {<<"l1", "INCLUDES">>, <<"l2", "EXCLUDES">>}, {<<"l1", "INCLUDES">>, <<"l2", "INCLUDES">>}}

\* A size on the shelf, a cheaper one sold out, a cheaper one made to order, and
\* one switched off.
FourSizes ==
    {[active |-> TRUE, price |-> 2, stock |-> 1, tracked |-> TRUE, more |-> FALSE],
     [active |-> TRUE, price |-> 1, stock |-> 0, tracked |-> TRUE, more |-> FALSE],
     [active |-> TRUE, price |-> 1, stock |-> 0, tracked |-> TRUE, more |-> TRUE],
     [active |-> FALSE, price |-> 1, stock |-> 5, tracked |-> TRUE, more |-> FALSE]}

ThreeForms ==
    {[values |-> <<>>, price |-> 1, addition |-> 1, ladder |-> 0, nameHi |-> "hi", faqs |-> "q",
      kind |-> "DISTANCE", basis |-> "QUANTITY", pictures |-> <<"p1">>],
     [values |-> <<"8mm", "10mm">>, price |-> 2, addition |-> 0, ladder |-> 1, nameHi |-> "", faqs |-> "",
      kind |-> "FLAT", basis |-> "AMOUNT", pictures |-> <<>>],
     [values |-> <<"10mm">>, price |-> 2, addition |-> 1, ladder |-> 1, nameHi |-> "", faqs |-> "q",
      kind |-> "DISTANCE", basis |-> "AMOUNT", pictures |-> <<"p1", "p2", "p3">>]}

\* Two visitors who happen on one session id, and a second session.
FourBeacons ==
    {[session |-> "s1", visitor |-> "v1", event |-> "page_view", known |-> FALSE],
     [session |-> "s1", visitor |-> "v1", event |-> "product_view", known |-> TRUE],
     [session |-> "s1", visitor |-> "v2", event |-> "page_view", known |-> FALSE],
     [session |-> "s2", visitor |-> "v1", event |-> "add_to_cart", known |-> FALSE]}

AdOne == [NoTouch EXCEPT !.source = "fb", !.medium = "paid", !.campaign = "c1", !.adset = "a1", !.ad = "x1"]

\* The same ad first and another last; an ad, then a click without its name; an
\* order typed in by staff's failed link; a channel known by name only.
FourSources ==
    {[kind |-> "web", first |-> AdOne, last |-> [AdOne EXCEPT !.adset = "a2"]],
     [kind |-> "web", first |-> AdOne, last |-> [NoTouch EXCEPT !.click = "meta"]],
     [kind |-> "failed", first |-> NoTouch, last |-> NoTouch],
     [kind |-> "web", first |-> NoTouch, last |-> [NoTouch EXCEPT !.source = "fb", !.medium = "paid"]]}

ThreeDaysOfSpend ==
    {[day |-> 0, campaign |-> "c1", adset |-> "a1", ad |-> "x1", spend |-> 3],
     [day |-> 1, campaign |-> "c1", adset |-> "a2", ad |-> "x2", spend |-> 5],
     [day |-> 2, campaign |-> "c2", adset |-> "a3", ad |-> "x3", spend |-> 7]}

TwoDaysOfSessions ==
    {[day |-> 0, channel |-> "DIRECT", town |-> "", sessions |-> 2],
     [day |-> 1, channel |-> "PAID_SOCIAL", town |-> "t1", sessions |-> 3]}

TwoPages == <<{"a1"}, {"a2"}>>

TwoBodies == {<<"storeName">>, <<"amountPaid", "orderNumber">>}

\* One that reaches the last slab and of which credit may leave less than a rupee,
\* one that credit may pay in full.
TwoBaskets == {[base |-> 60099, total |-> 65050], [base |-> 250, total |-> 300]}

\* Slabs of which one pays less than the one below it and the last is capped;
\* all of an order payable by credit; switched off.
SomeCredit == [on |-> TRUE, earn |-> TRUE,
               slabs |-> {[from |-> 100, bp |-> 110, cap |-> NoCap], [from |-> 50000, bp |-> 100, cap |-> NoCap],
                          [from |-> 60000, bp |-> 250, cap |-> 1000]},
               spend |-> TRUE, least |-> 200, share |-> 1000, most |-> 5000,
               part |-> TRUE, partLeast |-> 30000, partShare |-> 2000, partMin |-> 10000]

ThreeCredits ==
    {SomeCredit, [SomeCredit EXCEPT !.on = FALSE],
     [SomeCredit EXCEPT !.share = 10000, !.most = NoCap, !.slabs = {[from |-> 0, bp |-> 1000, cap |-> NoCap]}]}

TwoWalls == {[cement |-> 400, brick |-> 0], [cement |-> 1400, brick |-> 700]}

TwoDepots == [d1 |-> 2, d2 |-> 5]

\* Two bands of products, one of which repeats the other's, and two that need
\* what is read once for the page.
FourBands ==
    <<[kind |-> "CAROUSEL", wanted |-> <<"i1", "i2">>, limit |-> 2],
      [kind |-> "TRENDING", wanted |-> <<"i2", "i1">>, limit |-> 1],
      [kind |-> "LATEST", wanted |-> <<"i1">>, limit |-> 1],
      [kind |-> "TRUST_STRIP", wanted |-> <<>>, limit |-> 1]>>

FourPicks ==
    {[variant |-> "none", typed |-> -1], [variant |-> "none", typed |-> 0], [variant |-> "v1", typed |-> 2],
     [variant |-> "v2", typed |-> 4]}

VARIABLE running   \* the component the behaviour is of

Elsewhere(c) ==
    /\ UNCHANGED running
    /\ c # "support"  => UNCHANGED supportVars
    /\ c # "matrix"   => UNCHANGED matrixVars
    /\ c # "aisles"   => UNCHANGED aisleVars
    /\ c # "front"    => UNCHANGED shopfrontVars
    /\ c # "website"  => UNCHANGED websiteVars
    /\ c # "tax"      => UNCHANGED taxVars
    /\ c # "consent"  => UNCHANGED consentVars
    /\ c # "file"     => UNCHANGED fileVars
    /\ c # "visits"   => UNCHANGED visitVars
    /\ c # "reports"  => UNCHANGED reportVars
    /\ c # "ads"      => UNCHANGED insightVars
    /\ c # "messages" => UNCHANGED messageVars
    /\ c # "credit"   => UNCHANGED creditVars
    /\ c # "book"     => UNCHANGED bookVars
    /\ c # "quote"    => UNCHANGED quoteVars
    /\ c # "areas"    => UNCHANGED areaVars
    /\ c # "catalogue" => UNCHANGED catalogueVars
    /\ c # "feed"     => UNCHANGED feedVars
    /\ c # "incidents" => UNCHANGED incidentVars

vars == <<running, supportVars, matrixVars, aisleVars, shopfrontVars, websiteVars, taxVars,
          consentVars, fileVars, visitVars, reportVars, insightVars, messageVars,
          creditVars, bookVars, quoteVars, areaVars, catalogueVars, feedVars, incidentVars>>

\* Where a component may begin in several states, only its own behaviours do.
Init ==
    /\ running \in Components
    /\ SupportInit /\ MatrixInit /\ AislesInit /\ ShopfrontInit /\ WebsiteInit /\ TaxInit
    /\ ConsentInit /\ FileInit /\ VisitsInit /\ ReportsInit /\ InsightsInit /\ MessagesInit
    /\ CreditInit /\ BookInit /\ QuoteInit /\ AreaInit
    /\ CatalogueInit /\ HomeFeedInit /\ IncidentsInit
    /\ running = "aisles" \/
          /\ \A a \in Aisles : aisle[a].rules = {}
          /\ \A i \in Stocked : carries[i] = {}
    /\ running = "feed" \/ \A i \in Tiles : stocking[i] = {}
    /\ running = "credit" \/ (credit = SomeCreditRules /\ purse = 0)

Next ==
    \/ running = "support"  /\ SupportNext   /\ Elsewhere("support")
    \/ running = "matrix"   /\ MatrixNext    /\ Elsewhere("matrix")
    \/ running = "aisles"   /\ AislesNext    /\ Elsewhere("aisles")
    \/ running = "front"    /\ ShopfrontNext /\ Elsewhere("front")
    \/ running = "website"  /\ WebsiteNext   /\ Elsewhere("website")
    \/ running = "tax"      /\ TaxNext       /\ Elsewhere("tax")
    \/ running = "consent"  /\ ConsentNext   /\ Elsewhere("consent")
    \/ running = "file"     /\ FileNext      /\ Elsewhere("file")
    \/ running = "visits"   /\ VisitsNext    /\ Elsewhere("visits")
    \/ running = "reports"  /\ ReportsNext   /\ Elsewhere("reports")
    \/ running = "ads"      /\ InsightsNext  /\ Elsewhere("ads")
    \/ running = "messages" /\ MessagesNext  /\ Elsewhere("messages")
    \/ running = "credit"   /\ CreditNext    /\ Elsewhere("credit")
    \/ running = "book"     /\ BookNext      /\ Elsewhere("book")
    \/ running = "quote"    /\ QuoteNext     /\ Elsewhere("quote")
    \/ running = "areas"    /\ AreaNext      /\ Elsewhere("areas")
    \/ running = "catalogue" /\ CatalogueNext /\ Elsewhere("catalogue")
    \/ running = "feed"     /\ HomeFeedNext  /\ Elsewhere("feed")
    \/ running = "incidents" /\ IncidentsNext /\ Elsewhere("incidents")

Spec == Init /\ [][Next]_vars

\* Each component's variables keep their types while it runs; the others stay as
\* they began.
TypeOK ==
    /\ running \in Components
    /\ running = "support"  => SupportTypeOK
    /\ running = "matrix"   => MatrixTypeOK
    /\ running = "aisles"   => AislesTypeOK
    /\ running = "front"    => ShopfrontTypeOK
    /\ running = "website"  => WebsiteTypeOK
    /\ running = "tax"      => TaxTypeOK
    /\ running = "consent"  => ConsentTypeOK
    /\ running = "file"     => FileTypeOK
    /\ running = "visits"   => VisitsTypeOK
    /\ running = "reports"  => ReportsTypeOK
    /\ running = "ads"      => InsightsTypeOK
    /\ running = "messages" => MessagesTypeOK
    /\ running = "credit"   => CreditTypeOK
    /\ running = "book"     => BookTypeOK
    /\ running = "quote"    => QuoteTypeOK
    /\ running = "areas"    => AreaTypeOK
    /\ running = "catalogue" => CatalogueTypeOK
    /\ running = "feed"     => HomeFeedTypeOK
    /\ running = "incidents" => IncidentsTypeOK

-----------------------------------------------------------------------------
(* What each component promises, its own module stating each part.         *)

\* A thread, its preview, its status and the queue tell one story, whoever writes
\* at once (write/support.ts, read/support.ts).
ThreadsAreTold ==
    MissedWereInFlight /\ PreviewIsTheLast /\ CapHeldButForOverlap /\ UnansweredIsAwaited

\* A product keeps one row per combination, its stock where it was typed, on the
\* form and in a file, in its order (variants.ts, csv/export.ts, csv/parse.ts).
ProductsKeepTheirRows ==
    /\ running = "matrix" => AcceptedByBoth /\ OneRowPerCombination /\ StockIsTypedOnce
    /\ running = "file" => RowsRegroup /\ OrderIsKept

\* Categories, menus, tax presets and address books stay whole, however their
\* owners' calls cross: what others lean on stays, and both ends of a relation say
\* the same (categories.ts, tags.ts, pages.ts, menus.ts, tax-rates.ts,
\* customer-account.ts).
LeanedOnStays ==
    /\ OneLevelDeep /\ DirectionsAgree
    /\ LinksLeadHome
    /\ PresetIsThePercent /\ OneDefault /\ OnlyUnusedPresetsGo
    /\ OneDefaultAddress /\ TwoTakeACrossing /\ BookHasRoom

\* Every list of products agrees with what the cart would sell: the card, the
\* stock filter, the facets, the suggestions and a quote.  In this and those that
\* say it with `running`, a part is asked for where its component runs; elsewhere it
\* stays what it was at first (read/storefront.ts, read/quote.ts).
ListingsAgree ==
    /\ running = "front" => /\ CardIsWhatTheCartSells /\ StockFilterIsTheCard
                            /\ FacetsCountTheirResults /\ SuggestionsAreYoung
    /\ running = "quote" => /\ EnoughAndNoSpare /\ TogetherIsNoMore
                            /\ OneLineEach /\ LeftOutOnPurpose

\* The stored answer about consent is proved by its history, and one taken back
\* does not return, however devices cross (write/privacy.ts).
ConsentIsProved == HistoryProvesTheAnswer /\ TakenBackStays

\* What was counted once is counted the same on every screen and for good, and so
\* are the credit an order earns and the credit that pays for it
\* (write/sessions.ts, read/analytics-reports.ts, read/marketing-analytics.ts,
\* shared wallet.ts, create-order.ts).
CountsAgree ==
    /\ running = "visits" => FunnelNarrows /\ EveryViewCounted /\ KeptForGood
    /\ running = "reports" => /\ PagesAgree /\ DaysAddUp
                              /\ CohortsMatchMonths /\ ChannelsKeepTheirCustomers
    /\ running = "ads" => TreeAddsUp
    /\ running = "credit" => /\ PaidToThePaisa /\ NoPettyPayments /\ CreditStaysInBounds
                             /\ EarnsNoMoreThanShown /\ CreditEarnsNothing /\ BannerKeepsItsWord

\* A message fits the campaign it names, a customer's choice stops offers and
\* nothing owed, and who asked for an area is told of it once (notify/dispatch.ts,
\* templates.ts, growth.ts).
MessagesFit ==
    /\ running = "messages" => /\ ParamsFitTheCampaign /\ BlanksAreKnown /\ ReadyReachesEveryone
                               /\ OffersNeedAYes /\ OwedIsNotHeldBack
    /\ running = "areas" => WishesToldOnce /\ MarkedAreTold /\ ToldHadAsked

\* What a job or a page left half done is still right: nothing live waits to be
\* published, a page shows one price of a thing, its own warehouse's, from one read,
\* and a notice reaches everyone, and nobody twice but for a new key or a lost answer
\* (products.ts, storefront.ts, privacy-incidents.ts).
HalfDoneIsRight ==
    /\ LiveIsNotScheduled
    /\ OnePriceAPage /\ PricedFromItsOwn /\ StockingReadOnce
    /\ NobodyToldTwice /\ EveryoneHasANotice

\* Jobs and screens that cross take nothing back: rows that orders name stay, the
\* first day of publishing stands, the job publishes drafts only, and the count of
\* the told never falls (products.ts, jobs.ts, privacy-incidents.ts).
CrossingsTakeNothingBack ==
    OrderedRowsAreKept /\ FirstPublishedStands /\ JobTouchesDrafts /\ CountOnlyRises

\* What no step may do: clear an open ticket's words, lose a variant, a filing or
\* a rule's label, rewrite a first day or a newer answer, change a product by its
\* own file, move a session back, take figures but those replaced, touch another's
\* address or push a new offer to the front (every module above states its own
\* part).
NoStepLoses ==
    /\ OpenWordsAreKept /\ NothingVanishes
    /\ FiledStaysFiled /\ LoadBearingStays /\ MergeKeepsAisles
    /\ FirstDayStands /\ NewerAnswerWins
    /\ OwnFileChangesNothing /\ AbsentIsNotBlank /\ CopyCharges
    /\ SessionsMoveForward
    /\ OnlyDeletedAdsGo /\ DeletedAdsDoGo /\ LastOkStands
    /\ OthersAreUntouched /\ NewOffersGoLast

=============================================================================
