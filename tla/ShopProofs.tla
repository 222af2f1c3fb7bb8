----------------------------- MODULE ShopProofs -----------------------------
(***************************************************************************)
(* What MCShop promises, component by component, proved for every value of *)
(* their constants.                                                        *)
(***************************************************************************)
EXTENDS MCShop, ShopPartProofs

-----------------------------------------------------------------------------
(* The components side by side.                                            *)

\* A step is of one component, and leaves what the others keep alone.
LEMMA OnePartMoves ==
    ASSUME [Next]_vars
    PROVE  /\ ConsentNext \/ UNCHANGED consentVars
           /\ SupportNext \/ UNCHANGED supportVars
           /\ CatalogueNext \/ UNCHANGED catalogueVars
           /\ IncidentsNext \/ UNCHANGED incidentVars
           /\ HomeFeedNext \/ UNCHANGED feedVars
           /\ AislesNext \/ UNCHANGED aisleVars
           /\ WebsiteNext \/ UNCHANGED websiteVars
           /\ TaxNext \/ UNCHANGED taxVars
           /\ BookNext \/ UNCHANGED bookVars
BY DEF Next, Elsewhere, vars

\* The stored answer about consent is the last its history records, and where no
\* clock runs ahead and no answer arrives inside a sign-in, it is the latest one
\* given: a "yes" taken back does not return (write/privacy.ts).
THEOREM ConsentProved ==
    ASSUME ~SignInOverlap, Skewed = {}
    PROVE  Spec => []ConsentIsProved
<1>1. Init => ConsentInv
  BY ConsentBegins DEF Init
<1>2. ConsentInv /\ [Next]_vars => ConsentInv'
  BY OnePartMoves, ConsentStep
<1>3. ConsentInv => ConsentIsProved
  BY DEF ConsentInv, ConsentIsProved
<1> QED
  BY <1>1, <1>2, <1>3, PTL DEF Spec

\* The newer answer wins a sign-in, whatever the devices' clocks say.
THEOREM NewerWins ==
    ASSUME ~SignInOverlap
    PROVE  Spec => NewerAnswerWins
<1>1. Init => ConsentInv
  BY ConsentBegins DEF Init
<1>2. ConsentInv /\ [Next]_vars => ConsentInv'
  BY OnePartMoves, ConsentStep
<1>3. ConsentInv /\ [Next]_vars =>
        [\A d \in Devices : settling[d].on /\ ~settling'[d].on =>
            /\ cookie'[d].choice = account'.choice \/ account'.at = 0
            /\ account'.at >= account.at /\ account'.at >= cookie[d].at]_consentVars
  BY OnePartMoves, SignInEnds
<1> QED
  BY <1>1, <1>2, <1>3, PTL DEF Spec, NewerAnswerWins

\* A thread, its preview, its status and the queue tell one story, and the cap on
\* open conversations is passed only by requests side by side, whoever writes at
\* once (write/support.ts, read/support.ts).
THEOREM ThreadsTold == Spec => []ThreadsAreTold
<1>1. Init => SupportInv
  BY SupportBegins DEF Init
<1>2. SupportInv /\ [Next]_vars => SupportInv'
  BY OnePartMoves, SupportStep
<1>3. SupportInv => ThreadsAreTold
  <2> SUFFICES ASSUME SupportInv PROVE CapHeldButForOverlap
    BY DEF SupportInv, ThreadsAreTold
  <2>1. NeverResolved \subseteq Tickets /\ Opening \subseteq Talkers
    BY DEF NeverResolved, OpenTickets, Started, Opening
  <2>2. Cardinality(NeverResolved) \in Nat /\ Cardinality(Opening) \in Nat /\ Cardinality(Talkers) \in Nat
    BY <2>1, RoomIsFinite
  <2>3. Cardinality(NeverResolved) <= OpenCap + Cardinality(Talkers) - 1
    BY <2>2, SupportAssumption DEF SupportInv, RoomIsLeft
  <2> QED
    BY <2>3 DEF CapHeldButForOverlap, NeverResolved
<1> QED
  BY <1>1, <1>2, <1>3, PTL DEF Spec

\* Where nobody writes to a conversation between retention's list and its update,
\* the words retention takes are of closed and old conversations alone
\* (write/support.ts, clearClosedSupport).
THEOREM WordsKept ==
    ASSUME ~ClearOverlap
    PROVE  Spec => OpenWordsAreKept
<1>1. Init => SupportInv
  BY SupportBegins DEF Init
<1>2. SupportInv /\ [Next]_vars => SupportInv'
  BY OnePartMoves, SupportStep
<1>3. SupportInv /\ [Next]_vars =>
        [\A i \in Ids : message[i].text /\ ~message'[i].text
              => ticket[message[i].ticket].status = "RESOLVED" /\ ticket[message[i].ticket].old]_supportVars
  BY OnePartMoves, WordsTaken
<1> QED
  BY <1>1, <1>2, <1>3, PTL DEF Spec, OpenWordsAreKept

\* However owners' calls, orders, the publishing job and runs of Send cross: a row
\* orders name stays, the first day of publishing stands and the job publishes
\* drafts only, but for what a call could not have read, and the count of the told
\* never falls (products.ts, jobs.ts, privacy-incidents.ts).
THEOREM CrossingsKept == Spec => CrossingsTakeNothingBack
<1>1. Init => CatalogueInv /\ IncidentsInv
  BY CatalogueBegins, IncidentsBegin DEF Init
<1>2. CatalogueInv /\ IncidentsInv /\ [Next]_vars => CatalogueInv' /\ IncidentsInv'
  BY OnePartMoves, CatalogueStep, IncidentsStep
<1>3. CatalogueInv /\ [Next]_vars =>
        [\A p \in Wares, k \in RowKeys :
            row[p][k].there /\ row[p][k].ordered /\ ~row'[p][k].there
            => \E e \in Editors : EditorEnds(e) /\ <<p, "ordered">> \in editor[e].missed]_catalogueVars
  BY OnePartMoves, CatalogueStep DEF DecisionsOutlast, OrdersOutlast
<1>4. CatalogueInv /\ [Next]_vars =>
        [\A p \in Wares :
            ware[p].published # 0 /\ ware'[p].status # "deleted" /\ ware'[p].published # ware[p].published
            => \E e \in Editors : EditorEnds(e) /\ <<p, "published">> \in editor[e].missed]_catalogueVars
  BY OnePartMoves, CatalogueStep DEF DecisionsOutlast, FirstDaysOutlast
<1>5. CatalogueInv /\ [Next]_vars =>
        [\A p \in Wares, e \in Editors :
            editor[e].at = "publish" /\ EditorEnds(e) /\ ware'[p] # ware[p] /\ ware[p].status # "DRAFT"
            => <<p, "moved">> \in editor[e].missed]_catalogueVars
  BY OnePartMoves, CatalogueStep DEF DecisionsOutlast, DraftsAlone
<1>6. IncidentsInv /\ [Next]_vars => [notified' >= notified]_incidentVars
  BY OnePartMoves, IncidentsStep
<1> QED
  BY <1>1, <1>2, <1>3, <1>4, <1>5, <1>6, PTL
     DEF Spec, CrossingsTakeNothingBack, OrderedRowsAreKept, FirstPublishedStands, JobTouchesDrafts, CountOnlyRises

\* Nothing live waits to be published, whoever saves, publishes and deletes at
\* once; a page shows one price of a thing, its own warehouses', from one read,
\* however its sections' reads cross; and a run of a breach notice has written a row
\* for everyone when it ends, wherever Send is pressed, but for those erased since and
\* those passed over because of one erased, while nobody is told twice but one who
\* signed up or was erased since, and one whose first answer was lost (products.ts,
\* storefront.ts, privacy-incidents.ts, dispatch.ts).
THEOREM HalfDoneProved == Spec => []HalfDoneIsRight
<1>1. Init => CatalogueInv /\ FeedInv /\ IncidentsInv
  BY CatalogueBegins, FeedBegins, IncidentsBegin DEF Init
<1>2. CatalogueInv /\ FeedInv /\ IncidentsInv /\ [Next]_vars => CatalogueInv' /\ FeedInv' /\ IncidentsInv'
  BY OnePartMoves, CatalogueStep, FeedStep, IncidentsStep
<1>3. CatalogueInv /\ FeedInv /\ IncidentsInv => HalfDoneIsRight
  BY CatalogueStands, PageIsRight, NoticesRight DEF HalfDoneIsRight
<1> QED
  BY <1>1, <1>2, <1>3, PTL DEF Spec

\* Categories, menus, tax presets and address books stay whole, however their
\* owners' calls cross: the tree is one level deep and a category gathers what
\* matches it, a menu's link leads to its page, a product charges what its preset
\* says, and a book has one default and room, but for what a call could not have
\* read (categories.ts, menus.ts, tax-rates.ts, customer-account.ts).
THEOREM LeanedKept == Spec => []LeanedOnStays
<1>1. Init => AislesInv /\ WebsiteInv /\ TaxInv /\ BookInv
  BY AislesBegin, WebsiteBegins, TaxBegins, BookBegins DEF Init
<1>2. AislesInv /\ WebsiteInv /\ TaxInv /\ BookInv /\ [Next]_vars => AislesInv' /\ WebsiteInv' /\ TaxInv' /\ BookInv'
  BY OnePartMoves, AislesStep, WebsiteStep, TaxStep, BookStep
<1>3. AislesInv /\ WebsiteInv /\ TaxInv /\ BookInv => LeanedOnStays
  <2>1. AislesInv => OneLevelDeep
    BY DEF AislesInv
  <2>2. WebsiteInv => LinksLeadHome
    BY DEF WebsiteInv
  <2> QED
    BY <2>1, <2>2, DirectionsRight, PresetsRight, BookRight DEF LeanedOnStays
<1> QED
  BY <1>1, <1>2, <1>3, PTL DEF Spec

=============================================================================
