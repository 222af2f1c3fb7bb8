-------------------------------- MODULE Analytics --------------------------------
(***************************************************************************)
(* The figures the shop looks at: who visited, what its ads cost, pulled   *)
(* from Meta, and the Analytics pages over its orders.  They share no row: *)
(* the pages are given the sessions that were summarised and the spend     *)
(* that a pull has stored.                                                 *)
(***************************************************************************)
EXTENDS Integers, Sequences, FiniteSets, FiniteSetsExt

-----------------------------------------------------------------------------
(* Storefront sessions (core/src/write/sessions.ts): the beacons of a       *)
(* shopper's browser, the order a session ends in                           *)
(* (marketing/meta-capi.ts), the hourly summary per day and the purge of    *)
(* what it was made from, and the erasure of a customer's visits.  A        *)
(* session's channel, device and city only choose the row of the summary    *)
(* it is counted in: here a day has one.                                    *)

CONSTANTS
    Sessions,        \* session ids, minted by the storefront
    Visitors,        \* browsers
    Tabs,            \* beacons that may be under way at once
    Beacons,         \* what a browser may send
    Summarisers,     \* runs of the hourly job at once
    RollupDays,      \* days rebuilt by each summary
    RetentionDays,   \* days a session is kept
    SilentDays,      \* days that may pass without a summary
    MaxBeacons,      \* bound: beacons sent
    MaxVisitOrders,  \* bound: orders placed in a session
    MaxDay           \* bound: days

Events == {"page_view", "product_view", "add_to_cart", "checkout_start"}

ASSUME VisitsAssumption ==
    /\ Beacons \subseteq [session : Sessions, visitor : Visitors, event : Events, known : BOOLEAN]
    /\ {RollupDays, RetentionDays} \subseteq Nat \ {0}
    /\ {SilentDays, MaxBeacons, MaxVisitOrders, MaxDay} \subseteq Nat
    /\ SilentDays < RollupDays /\ RollupDays <= RetentionDays

VARIABLES
    visits,       \* StorefrontSession, by id
    tabs,         \* the beacons under way
    summary,      \* AnalyticsDaily
    runs,         \* the runs of the job
    today,
    silent,       \* days since what the last summary read
    heard,        \* page views sent for a session by a browser, since the session was last deleted
    forgotten,    \* sessions purged, by day
    beaconsSent, visitOrders

visitVars == <<visits, tabs, summary, runs, today, silent, heard, forgotten, beaconsSent, visitOrders>>

Days == 0..MaxDay
NoOrder == 0
NoFigures == [sessions |-> 0, product |-> 0, cart |-> 0, checkout |-> 0, converted |-> 0]
NoVisit == [there |-> FALSE, visitor |-> CHOOSE v \in Visitors : TRUE, day |-> 0, known |-> FALSE, returning |-> FALSE,
            views |-> 0, product |-> FALSE, cart |-> FALSE, checkout |-> FALSE, order |-> NoOrder]
NoTab == [stage |-> "idle", beacon |-> CHOOSE b \in Beacons : TRUE, returning |-> FALSE]
NoRun == [stage |-> "idle", from |-> 0, read |-> 0, rows |-> [d \in Days |-> NoFigures]]

VisitsInit ==
    /\ visits = [s \in Sessions |-> NoVisit]
    /\ tabs = [t \in Tabs |-> NoTab]
    /\ summary = [d \in Days |-> NoFigures]
    /\ runs = [r \in Summarisers |-> NoRun]
    /\ today = 0 /\ silent = 0
    /\ heard = [s \in Sessions |-> [v \in Visitors |-> 0]]
    /\ forgotten = [d \in Days |-> 0]
    /\ beaconsSent = 0 /\ visitOrders = 0

-----------------------------------------------------------------------------
(* Beacons *)

\* A session only moves forward: a flag set is never unset.
Advanced(row, beacon) ==
    [row EXCEPT !.views = IF beacon.event = "page_view" THEN @ + 1 ELSE @,
                !.product = @ \/ beacon.event = "product_view",
                !.cart = @ \/ beacon.event = "add_to_cart",
                !.checkout = @ \/ beacon.event = "checkout_start",
                !.known = @ \/ beacon.known]

\* A session id lifted from one browser cannot be advanced from another.
Matches(beacon) == visits[beacon.session].there /\ visits[beacon.session].visitor = beacon.visitor

\* The common case: the session exists.
SendBeacon(t, beacon) ==
    /\ tabs[t].stage = "idle" /\ beaconsSent < MaxBeacons
    /\ beaconsSent' = beaconsSent + 1
    /\ heard' = IF beacon.event = "page_view" THEN [heard EXCEPT ![beacon.session][beacon.visitor] = @ + 1] ELSE heard
    /\ IF Matches(beacon)
       THEN /\ visits' = [visits EXCEPT ![beacon.session] = Advanced(@, beacon)]
            /\ UNCHANGED tabs
       ELSE /\ tabs' = [tabs EXCEPT ![t] = [NoTab EXCEPT !.stage = "seen", !.beacon = beacon]]
            /\ UNCHANGED visits
    /\ UNCHANGED <<summary, runs, today, silent, forgotten, visitOrders>>

\* Has this browser been here before?
LookBack(t) ==
    /\ tabs[t].stage = "seen"
    /\ tabs' = [tabs EXCEPT ![t].stage = "create",
                            ![t].returning = \E s \in Sessions : visits[s].there /\ visits[s].visitor = tabs[t].beacon.visitor]
    /\ UNCHANGED <<visits, summary, runs, today, silent, heard, forgotten, beaconsSent, visitOrders>>

\* Mutant: a beacon that raced is applied as a creation and again as an update.
MutantRaced(row, beacon) == IF row.visitor = beacon.visitor THEN Advanced(Advanced(row, beacon), beacon) ELSE row

\* Two beacons of one page raced to create it: this one is applied to the other's row.
Raced(row, beacon) == IF row.visitor = beacon.visitor THEN Advanced(row, beacon) ELSE row

BeginVisit(t) ==
    LET beacon == tabs[t].beacon IN
    /\ tabs[t].stage = "create"
    /\ visits' = [visits EXCEPT ![beacon.session] =
          IF @.there THEN Raced(@, beacon)
          ELSE Advanced([NoVisit EXCEPT !.there = TRUE, !.visitor = beacon.visitor, !.day = today,
                                        !.returning = tabs[t].returning], beacon)]
    /\ tabs' = [tabs EXCEPT ![t] = NoTab]
    /\ UNCHANGED <<summary, runs, today, silent, heard, forgotten, beaconsSent, visitOrders>>

\* A second order in the same visit does not overwrite the first.
Converted(row, order) == IF row.order = NoOrder THEN [row EXCEPT !.order = order, !.checkout = TRUE] ELSE row

\* An order was placed in the session, which is proof that it reached checkout.
LinkOrder(s) ==
    /\ visitOrders < MaxVisitOrders /\ visits[s].there
    /\ visitOrders' = visitOrders + 1
    /\ visits' = [visits EXCEPT ![s] = Converted(@, visitOrders + 1)]
    /\ UNCHANGED <<tabs, summary, runs, today, silent, heard, forgotten, beaconsSent>>

-----------------------------------------------------------------------------
(* The hourly job *)

\* Which steps of the funnel a session got to: at least this far.
Reached(row) ==
    LET converted == row.order # NoOrder
        checkout == row.checkout \/ converted
        cart == row.cart \/ checkout
    IN  [sessions |-> TRUE, product |-> row.product \/ cart, cart |-> cart, checkout |-> checkout, converted |-> converted]

VisitsOf(d) == {s \in Sessions : visits[s].there /\ visits[s].day = d}

FiguresOf(d) == [step \in DOMAIN NoFigures |-> Cardinality({s \in VisitsOf(d) : Reached(visits[s])[step]})]

RollupFrom(day) == IF day < RollupDays THEN 0 ELSE day - (RollupDays - 1)

ReadSessions(r) ==
    /\ runs[r].stage = "idle"
    /\ runs' = [runs EXCEPT ![r] = [stage |-> "replace", from |-> RollupFrom(today), read |-> today,
                                    rows |-> [d \in Days |-> FiguresOf(d)]]]
    /\ UNCHANGED <<visits, tabs, summary, today, silent, heard, forgotten, beaconsSent, visitOrders>>

\* What was there for those days is deleted and the new rows are created, in one transaction.
ReplaceSummary(r) ==
    /\ runs[r].stage = "replace"
    /\ summary' = [d \in Days |-> IF d >= runs[r].from THEN runs[r].rows[d] ELSE summary[d]]
    /\ silent' = today - runs[r].read
    /\ runs' = [runs EXCEPT ![r].stage = "purge"]
    /\ UNCHANGED <<visits, tabs, today, heard, forgotten, beaconsSent, visitOrders>>

\* Page views sent and not yet counted.
Underway(s, v) ==
    Cardinality({t \in Tabs : /\ tabs[t].stage # "idle" /\ tabs[t].beacon.session = s
                              /\ tabs[t].beacon.visitor = v /\ tabs[t].beacon.event = "page_view"})

Deleted(gone) ==
    /\ visits' = [s \in Sessions |-> IF s \in gone THEN NoVisit ELSE visits[s]]
    /\ heard' = [s \in Sessions |-> IF s \in gone THEN [v \in Visitors |-> Underway(s, v)] ELSE heard[s]]

\* Sessions of more than RETENTION days ago are forgotten.
PurgeSessions(r) ==
    LET old == {s \in Sessions : visits[s].there /\ visits[s].day < today - RetentionDays} IN
    /\ runs[r].stage = "purge"
    /\ Deleted(old)
    /\ forgotten' = [d \in Days |-> forgotten[d] + Cardinality({s \in old : visits[s].day = d})]
    /\ runs' = [runs EXCEPT ![r] = NoRun]
    /\ UNCHANGED <<tabs, summary, today, silent, beaconsSent, visitOrders>>

-----------------------------------------------------------------------------

\* A customer erased: the visits made signed in.
EraseVisits(v) ==
    /\ \E s \in Sessions : visits[s].there /\ visits[s].visitor = v /\ visits[s].known
    /\ Deleted({s \in Sessions : visits[s].there /\ visits[s].visitor = v /\ visits[s].known})
    /\ UNCHANGED <<tabs, summary, runs, today, silent, forgotten, beaconsSent, visitOrders>>

\* The job runs every hour: some run of it reads before this many days have passed.
DayPasses ==
    /\ today < MaxDay /\ silent < SilentDays
    /\ today' = today + 1 /\ silent' = silent + 1
    /\ UNCHANGED <<visits, tabs, summary, runs, heard, forgotten, beaconsSent, visitOrders>>

VisitsNext ==
    \/ \E t \in Tabs : (\E beacon \in Beacons : SendBeacon(t, beacon)) \/ LookBack(t) \/ BeginVisit(t)
    \/ \E s \in Sessions : LinkOrder(s)
    \/ \E r \in Summarisers : ReadSessions(r) \/ ReplaceSummary(r) \/ PurgeSessions(r)
    \/ \E v \in Visitors : EraseVisits(v)
    \/ DayPasses

-----------------------------------------------------------------------------

VisitsTypeOK ==
    /\ \A s \in Sessions :
          /\ DOMAIN visits[s] = DOMAIN NoVisit /\ visits[s].visitor \in Visitors
          /\ visits[s].day \in 0..today /\ visits[s].views \in 0..MaxBeacons /\ visits[s].order \in 0..MaxVisitOrders
    /\ \A t \in Tabs : tabs[t].stage \in {"idle", "seen", "create"} /\ tabs[t].beacon \in Beacons
    /\ \A r \in Summarisers : runs[r].stage \in {"idle", "replace", "purge"}
    /\ today \in Days /\ silent \in 0..MaxDay

\* The daily summary is a funnel: no step has more sessions than the one before
\* it, whatever beacons were lost or came late (sessions.ts:152-159).
FunnelNarrows ==
    \A d \in Days :
        /\ summary[d].converted <= summary[d].checkout
        /\ summary[d].checkout <= summary[d].cart
        /\ summary[d].cart <= summary[d].product
        /\ summary[d].product <= summary[d].sessions

\* Every page view its own browser sent for a session is in its count exactly
\* once, though two beacons race to create it, and none that another browser sent.
EveryViewCounted ==
    \A s \in Sessions :
        visits[s].there =>
            visits[s].views = heard[s][visits[s].visitor] - Underway(s, visits[s].visitor)

\* A session purged is one that the summary of its day still counts: "the daily
\* summary is kept for good" (sessions.ts:30).
KeptForGood == \A d \in Days : forgotten[d] <= summary[d].sessions

\* A session "only ever moves forward": no replayed or late beacon takes back a
\* step, a view or the order it ended in (sessions.ts:6-9).
SessionsMoveForward ==
    [][\A s \in Sessions : visits[s].there /\ visits'[s].there =>
          /\ visits'[s].day = visits[s].day /\ visits'[s].visitor = visits[s].visitor
          /\ visits'[s].views >= visits[s].views
          /\ \A step \in {"product", "cart", "checkout", "known"} : visits[s][step] => visits'[s][step]
          /\ visits[s].order # NoOrder => visits'[s].order = visits[s].order
      ]_visitVars

-----------------------------------------------------------------------------
(* The pull of Meta's ad figures (core/src/marketing/meta-insights.ts): the *)
(* last days fetched page by page, put in the place of what was stored for *)
(* them, and the outcome kept in a setting.                                *)

CONSTANTS
    Pages,           \* the ads of each page of Meta's answer
    Pullers,         \* pulls at once: the scheduled one, and the admin's "Sync now"
    PullDays,        \* days fetched and replaced by each pull
    MaxRestated,     \* bound: times Meta changes a figure
    MaxPulls,        \* bound: pulls
    MaxSpendDay      \* bound: days

Ads == UNION {Pages[p] : p \in DOMAIN Pages}

ASSUME InsightsAssumption ==
    /\ \A p, q \in DOMAIN Pages : p # q => Pages[p] \cap Pages[q] = {}
    /\ PullDays \in Nat \ {0} /\ {MaxRestated, MaxPulls, MaxSpendDay} \subseteq Nat

VARIABLES
    meta,        \* what Meta says of each ad on each day; 0 when it says nothing
    stored,      \* AdSpendDaily
    pulls,       \* the pulls under way
    sync,        \* the setting marketing.metaInsightsSync
    spendDay,    \* today
    restated, pullsMade

insightVars == <<meta, stored, pulls, sync, spendDay, restated, pullsMade>>

SpendDays == 0..MaxSpendDay
NoRows == [d \in SpendDays |-> [a \in Ads |-> 0]]
NoPull == [stage |-> "idle", since |-> 0, until |-> 0, page |-> 1, rows |-> NoRows, ok |-> FALSE, previous |-> 0]

InsightsInit ==
    /\ meta = NoRows /\ stored = NoRows
    /\ pulls = [p \in Pullers |-> NoPull]
    /\ sync = [lastRun |-> 0, lastOk |-> 0]
    /\ spendDay = 0 /\ restated = 0 /\ pullsMade = 0

-----------------------------------------------------------------------------
(* Meta *)

\* Late conversions are added to recent days.
Restate(d, a) ==
    /\ restated < MaxRestated /\ d <= spendDay
    /\ restated' = restated + 1
    /\ meta' = [meta EXCEPT ![d][a] = restated + 1]
    /\ UNCHANGED <<stored, pulls, sync, spendDay, pullsMade>>

\* An ad that was deleted is in no answer.
DeleteAd(a) ==
    /\ \E d \in SpendDays : meta[d][a] # 0
    /\ meta' = [d \in SpendDays |-> [meta[d] EXCEPT ![a] = 0]]
    /\ UNCHANGED <<stored, pulls, sync, spendDay, restated, pullsMade>>

SpendDayPasses ==
    /\ spendDay < MaxSpendDay
    /\ spendDay' = spendDay + 1
    /\ UNCHANGED <<meta, stored, pulls, sync, restated, pullsMade>>

-----------------------------------------------------------------------------
(* A pull *)

Since(day) == IF day < PullDays THEN 0 ELSE day - (PullDays - 1)

StartPull(p) ==
    /\ pulls[p].stage = "idle" /\ pullsMade < MaxPulls
    /\ pullsMade' = pullsMade + 1
    /\ pulls' = [pulls EXCEPT ![p] = [NoPull EXCEPT !.stage = "fetch", !.since = Since(spendDay), !.until = spendDay]]
    /\ UNCHANGED <<meta, stored, sync, spendDay, restated>>

PulledDays(pull) == {d \in SpendDays : d >= pull.since /\ d <= pull.until}

\* The next page, as Meta has it now.
FetchPage(p) ==
    LET pull == pulls[p] IN
    /\ pull.stage = "fetch" /\ pull.page <= Len(Pages)
    /\ pulls' = [pulls EXCEPT
          ![p].page = @ + 1,
          ![p].rows = [d \in SpendDays |-> [a \in Ads |->
             IF d \in PulledDays(pull) /\ a \in Pages[pull.page] THEN meta[d][a] ELSE @[d][a]]]]
    /\ UNCHANGED <<meta, stored, sync, spendDay, restated, pullsMade>>

\* The days fetched are replaced as a whole, so that an ad deleted does not linger at its last figure.
Replaced(pull) == [d \in SpendDays |-> IF d \in PulledDays(pull) THEN pull.rows[d] ELSE stored[d]]

\* One transaction deletes the days and writes them again.
StorePull(p) ==
    /\ pulls[p].stage = "fetch" /\ pulls[p].page > Len(Pages)
    /\ stored' = Replaced(pulls[p])
    /\ pulls' = [pulls EXCEPT ![p].stage = "record", ![p].ok = TRUE]
    /\ UNCHANGED <<meta, sync, spendDay, restated, pullsMade>>

Failed(p) == UNCHANGED stored

\* Meta does not answer in time, or with an error.
FailPull(p) ==
    /\ pulls[p].stage = "fetch" /\ pulls[p].page <= Len(Pages)
    /\ Failed(p)
    /\ pulls' = [pulls EXCEPT ![p].stage = "record"]
    /\ UNCHANGED <<meta, sync, spendDay, restated, pullsMade>>

\* recordSync reads the setting, for when the last good pull was ...
ReadSync(p) ==
    /\ pulls[p].stage = "record"
    /\ pulls' = [pulls EXCEPT ![p].stage = "write", ![p].previous = sync.lastOk]
    /\ UNCHANGED <<meta, stored, sync, spendDay, restated, pullsMade>>

LastOk(pull) == IF pull.ok THEN pullsMade ELSE pull.previous

\* ... and writes it.
WriteSync(p) ==
    /\ pulls[p].stage = "write"
    /\ sync' = [lastRun |-> pullsMade, lastOk |-> LastOk(pulls[p])]
    /\ pulls' = [pulls EXCEPT ![p] = NoPull]
    /\ UNCHANGED <<meta, stored, spendDay, restated, pullsMade>>

InsightsNext ==
    \/ \E d \in SpendDays, a \in Ads : Restate(d, a)
    \/ \E a \in Ads : DeleteAd(a)
    \/ SpendDayPasses
    \/ \E p \in Pullers : StartPull(p) \/ FetchPage(p) \/ StorePull(p) \/ FailPull(p) \/ ReadSync(p) \/ WriteSync(p)

-----------------------------------------------------------------------------

InsightsTypeOK ==
    /\ \A d \in SpendDays, a \in Ads : meta[d][a] \in 0..MaxRestated /\ stored[d][a] \in 0..MaxRestated
    /\ \A p \in Pullers : pulls[p].stage \in {"idle", "fetch", "record", "write"}
    /\ sync.lastRun \in 0..MaxPulls /\ sync.lastOk \in 0..MaxPulls /\ spendDay \in SpendDays

\* What a pull stores is all of a day or nothing of it: a figure disappears only when
\* some pull was told so, never because the pull stopped half way.
OnlyDeletedAdsGo ==
    [][\A d \in SpendDays, a \in Ads :
          stored[d][a] # 0 /\ stored'[d][a] = 0 => \E p \in Pullers : pulls[p].page > Len(Pages) /\ pulls[p].rows[d][a] = 0]_insightVars

\* An ad Meta no longer reports stops contributing once a pull that began after it
\* was deleted has stored its days (meta-insights.ts:12-14).
DeletedAdsDoGo ==
    [][\A p \in Pullers, d \in SpendDays :
          pulls[p].ok /\ ~(pulls'[p].ok) => \A a \in Ads : d \in PulledDays(pulls[p]) /\ stored[d][a] # 0 => pulls[p].rows[d][a] # 0]_insightVars

\* The time of the last good pull never goes back: a later one that fails keeps it.
LastOkStands == [][sync'.lastOk >= sync.lastOk]_insightVars

-----------------------------------------------------------------------------
(* The Analytics pages (core/src/read/analytics.ts, marketing-analytics.ts *)
(* and analytics-reports.ts): what each of them makes of the same orders,  *)
(* and of where they came from (shared/src/attribution.ts).                *)
(*                                                                         *)
(* Days are store days and months a number of them.  Amounts are paise.    *)
(* A referring site is a source like a tag, and channels told apart by the *)
(* name of the source alone (WhatsApp, email, unpaid search) are left out. *)

CONSTANTS
    Buyers,          \* customers
    Sources,         \* what an order may be placed with: where its buyer came from
    Towns,           \* delivery cities; "" is one not known
    Sellables,       \* products
    AdSpend,         \* AdSpendDaily: what was spent on each ad, by day
    DailySessions,        \* AnalyticsDaily: sessions of a channel and a city, by day
    MonthDays,       \* days of a month
    CohortMonths,    \* months of the cohort grid
    MaxReportDay,    \* bound: days
    MaxSales         \* bound: orders

None == ""
NoTouch == [source |-> None, medium |-> None, click |-> None, campaign |-> None, adset |-> None, ad |-> None]
Touches == [source : STRING, medium : STRING, click : {None, "meta", "google"}, campaign : STRING, adset : STRING, ad : STRING]
Channels == {"PAID_SOCIAL", "ORGANIC_SOCIAL", "PAID_SEARCH", "REFERRAL", "DIRECT", "ADMIN", "UNTRACKED"}

ASSUME ReportsAssumption ==
    /\ \A s \in Sources : s.kind \in {"web", "admin", "failed"} /\ s.first \in Touches /\ s.last \in Touches
    /\ \A r \in AdSpend : r.day \in Nat /\ r.spend \in Nat
    /\ \A r \in DailySessions : r.day \in Nat /\ r.sessions \in Nat /\ r.channel \in Channels
    /\ {MonthDays, CohortMonths} \subseteq Nat \ {0} /\ {MaxReportDay, MaxSales} \subseteq Nat

VARIABLES
    sales,       \* orders, in the order they were placed
    removed,     \* products deleted since
    reportDay    \* today

reportVars == <<sales, removed, reportDay>>

ReportsInit == sales = <<>> /\ removed = {} /\ reportDay = 0

-----------------------------------------------------------------------------
(* Where an order came from *)

Social == {"fb", "instagram"}
Paid == {"cpc", "paid"}

\* Click ids win over the owner's tags, and a click of Meta's is an ad's unless it is tagged otherwise.
DeriveChannel(touch) ==
    CASE touch = NoTouch -> "DIRECT"
      [] touch.click = "google" -> "PAID_SEARCH"
      [] touch.click = "meta" ->
            IF touch.medium # None /\ touch.medium \notin Paid /\ touch.source \in Social
            THEN "ORGANIC_SOCIAL" ELSE "PAID_SOCIAL"
      [] touch.source \in Social -> IF touch.medium \in Paid THEN "PAID_SOCIAL" ELSE "ORGANIC_SOCIAL"
      [] touch.medium \in Paid -> "PAID_SEARCH"
      [] touch.source # None \/ touch.medium # None -> "REFERRAL"
      [] OTHER -> "DIRECT"

TouchHasSource(touch) == touch.source # None \/ touch.medium # None \/ touch.click = "meta"

\* The touch an order is credited to: the last one with a source.
CreditedTouch(first, last) ==
    IF TouchHasSource(last) THEN last
    ELSE IF TouchHasSource(first) THEN first
    ELSE IF last # NoTouch THEN last ELSE first

\* What is filed with the order: the touches, without their click ids, and the channel.
AttributionOf(source) ==
    [tracked |-> source.kind # "failed",
     channel |-> CASE source.kind = "failed" -> "UNTRACKED"
                   [] source.kind = "admin" -> "ADMIN"
                   [] OTHER -> DeriveChannel(CreditedTouch(source.first, source.last)),
     first |-> [source.first EXCEPT !.click = None],
     last |-> [source.last EXCEPT !.click = None]]

\* The credited touch, as the reports read it from what was filed.
Credited(row) ==
    IF row.last.source # None \/ row.last.medium # None \/ row.last.campaign # None THEN row.last ELSE row.first

-----------------------------------------------------------------------------
(* Orders *)

\* Each has an amount of its own, so that a sum tells which orders are in it.
PlaceSale(buyer, source, town, ware) ==
    /\ Len(sales) < MaxSales
    /\ sales' = Append(sales, [buyer |-> buyer, day |-> reportDay, paise |-> 2 ^ Len(sales), town |-> town, ware |-> ware,
                               attribution |-> AttributionOf(source), cancelled |-> FALSE])
    /\ UNCHANGED <<removed, reportDay>>

CancelSale(n) ==
    /\ ~sales[n].cancelled
    /\ sales' = [sales EXCEPT ![n].cancelled = TRUE]
    /\ UNCHANGED <<removed, reportDay>>

RemoveWare(ware) ==
    /\ ware \notin removed
    /\ removed' = removed \cup {ware}
    /\ UNCHANGED <<sales, reportDay>>

NextDay ==
    /\ reportDay < MaxReportDay
    /\ reportDay' = reportDay + 1
    /\ UNCHANGED <<sales, removed>>

ReportsNext ==
    \/ \E buyer \in Buyers, source \in Sources, town \in Towns, ware \in Sellables : PlaceSale(buyer, source, town, ware)
    \/ \E n \in DOMAIN sales : CancelSale(n)
    \/ \E ware \in Sellables : RemoveWare(ware)
    \/ NextDay

-----------------------------------------------------------------------------
(* What the pages have in common *)

Windows == {w \in [from : 0..MaxReportDay, to : 1..MaxReportDay + 1] : w.from < w.to}
DayOf(d) == [from |-> d, to |-> d + 1]
Within(day, w) == day >= w.from /\ day < w.to

Sold == {n \in DOMAIN sales : ~sales[n].cancelled}
SoldIn(w) == {n \in Sold : Within(sales[n].day, w)}
Revenue(orders) == MapThenSumSet(LAMBDA n : sales[n].paise, orders)

\* Mutant: a customer is new with the first order of the period.
MutantFirstOf(orders) ==
    {n \in orders : \A m \in orders : sales[m].buyer = sales[n].buyer => n <= m}

\* Orders that are their customer's first ever, not merely the first in the window.
FirstOf(orders) ==
    {n \in orders : \A m \in Sold : sales[m].buyer = sales[n].buyer => n <= m}

DayKeysIn(w) == w.from..w.to - 1

\* One point for each store day, a quiet one too.
BucketDaily(w) ==
    [d \in DayKeysIn(w) |-> [orders |-> Cardinality(SoldIn(DayOf(d))), revenue |-> Revenue(SoldIn(DayOf(d)))]]

Figures(orders) ==
    [orders |-> Cardinality(orders), revenue |-> Revenue(orders), newCustomers |-> Cardinality(FirstOf(orders))]

SessionsIn(rows, w) == MapThenSumSet(LAMBDA r : r.sessions, {r \in rows : Within(r.day, w)})
SpendIn(rows, w) == MapThenSumSet(LAMBDA r : r.spend, {r \in rows : Within(r.day, w)})

-----------------------------------------------------------------------------
(* Home, Overview and Acquisition *)

\* What sold: a product deleted since is still there, by the name it was sold as.
TopProducts(w) ==
    [ware \in {sales[n].ware : n \in SoldIn(w)} |-> Revenue({n \in SoldIn(w) : sales[n].ware = ware})]

Dashboard(w) ==
    [orders |-> Cardinality(SoldIn(w)), revenue |-> Revenue(SoldIn(w)), daily |-> BucketDaily(w), products |-> TopProducts(w)]

ChannelRows(w) ==
    [c \in {r.channel : r \in {q \in DailySessions : Within(q.day, w)}} \cup {sales[n].attribution.channel : n \in SoldIn(w)} |->
        [figures |-> Figures({n \in SoldIn(w) : sales[n].attribution.channel = c}),
         sessions |-> SessionsIn({r \in DailySessions : r.channel = c}, w)]]

PaidIn(w) == {n \in SoldIn(w) : sales[n].attribution.channel = "PAID_SOCIAL"}

\* The campaign of the last touch, or the first's when the last has none.
OverviewTag(n) ==
    LET row == sales[n].attribution IN IF row.last.campaign # None THEN row.last.campaign ELSE row.first.campaign

\* Campaigns with spend, and every tag that names none.
OverviewCampaigns(w) ==
    [c \in {r.campaign : r \in {q \in AdSpend : Within(q.day, w)}} \cup {OverviewTag(n) : n \in {m \in PaidIn(w) : OverviewTag(m) # None}} |->
        [spend |-> SpendIn({r \in AdSpend : r.campaign = c}, w),
         orders |-> {n \in PaidIn(w) : OverviewTag(n) = c}]]

Overview(w) ==
    [orders |-> Cardinality(SoldIn(w)), revenue |-> Revenue(SoldIn(w)),
     sessions |-> SessionsIn(DailySessions, w), channels |-> ChannelRows(w),
     spend |-> SpendIn(AdSpend, w), campaigns |-> OverviewCampaigns(w),
     untagged |-> {n \in PaidIn(w) : OverviewTag(n) = None}]

RowKey(n) ==
    LET row == sales[n].attribution
        touch == Credited(row)
    IN  <<row.channel, touch.source, touch.medium>>

AcquisitionRows(w) == [key \in {RowKey(n) : n \in SoldIn(w)} |-> Figures({n \in SoldIn(w) : RowKey(n) = key})]

\* Sessions by the city chosen and orders by the city delivered to; "" is the row of those not known.
CityRows(orders, rows, w) ==
    [t \in {r.town : r \in {q \in rows : Within(q.day, w)}} \cup {sales[n].town : n \in orders} |->
        [figures |-> Figures({n \in orders : sales[n].town = t}),
         sessions |-> SessionsIn({r \in rows : r.town = t}, w)]]

-----------------------------------------------------------------------------
(* Marketing: campaign, ad set, ad *)

\* How far down the tree the tags of an order match: a tag missing or unknown stops it there.
MatchedTo(touch, rows) ==
    LET campaign == {r \in rows : r.campaign = touch.campaign}
        adset == {r \in campaign : r.adset = touch.adset}
    IN  [adset |-> IF adset # {} THEN touch.adset ELSE None,
         ad |-> IF \E r \in adset : r.ad = touch.ad THEN touch.ad ELSE None]

\* The paid orders of a node, and what was spent on it.
NodeOf(rows, orders) == [spend |-> MapThenSumSet(LAMBDA r : r.spend, rows), orders |-> orders]

Marketing(w) ==
    LET rows == {r \in AdSpend : Within(r.day, w)}
        touchOf(n) == Credited(sales[n].attribution)
        tagged == {n \in PaidIn(w) : touchOf(n).campaign # None}
        matched(n) == MatchedTo(touchOf(n), rows)
    IN  [total |-> NodeOf(rows, PaidIn(w)),
         untagged |-> PaidIn(w) \ tagged,
         campaigns |-> [c \in {r.campaign : r \in rows} \cup {touchOf(n).campaign : n \in tagged} |->
            NodeOf({r \in rows : r.campaign = c}, {n \in tagged : touchOf(n).campaign = c})],
         adsets |-> [a \in {<<r.campaign, r.adset>> : r \in rows} |->
            NodeOf({r \in rows : <<r.campaign, r.adset>> = a},
                   {n \in tagged : touchOf(n).campaign = a[1] /\ matched(n).adset = a[2]})],
         ads |-> [a \in {<<r.campaign, r.adset, r.ad>> : r \in rows} |->
            NodeOf({r \in rows : <<r.campaign, r.adset, r.ad>> = a},
                   {n \in tagged : touchOf(n).campaign = a[1] /\ matched(n).ad = a[3]})]]

\* Only products there still are: a line keeps no product once that is deleted.
ProductRows(w) ==
    [ware \in {sales[n].ware : n \in SoldIn(w)} \ removed |-> Revenue({n \in SoldIn(w) : sales[n].ware = ware})]

-----------------------------------------------------------------------------
(* Customers *)

Month(day) == day \div MonthDays
CohortStart == Month(reportDay) - (CohortMonths - 1)

\* One month earlier: the first month's retention needs the month before it.
RetentionStart == CohortStart - 1

MonthsOf(buyer, start) ==
    {Month(sales[n].day) : n \in {m \in Sold : sales[m].buyer = buyer /\ Month(sales[m].day) >= start}}

FirstMonth(buyer) == Month(sales[Min({n \in Sold : sales[n].buyer = buyer})].day)

Ordering == {sales[n].buyer : n \in Sold}

\* Who is active in each month after: a month that has not happened yet has no share.
Cohort(members, month) ==
    [offset \in 0..Month(reportDay) - month |-> Cardinality({b \in members : month + offset \in MonthsOf(b, CohortStart)})]

\* The cohort grid: one row for each month, of the customers whose first order fell in it.
Cohorts ==
    [month \in CohortStart..Month(reportDay) |->
        LET members == {b \in Ordering : FirstMonth(b) = month}
        IN  [size |-> Cardinality(members), retention |-> Cohort(members, month)]]

\* Of the customers who ordered in the month before, those who ordered again in this one.
MonthlyRetention ==
    [month \in CohortStart..Month(reportDay) |->
        LET active(m) == {b \in Ordering : m \in MonthsOf(b, RetentionStart)}
        IN  [customers |-> Cardinality(active(month)), previous |-> Cardinality(active(month - 1)),
             retained |-> Cardinality(active(month) \cap active(month - 1))]]

CustomerReport(w) ==
    [newRevenue |-> Revenue(FirstOf(SoldIn(w))), returningRevenue |-> Revenue(SoldIn(w) \ FirstOf(SoldIn(w))),
     newCustomers |-> Cardinality(FirstOf(SoldIn(w)))]

\* Customers by the channel of their first order, and all they ever bought.
LtvByChannel ==
    LET firsts(c) == {n \in FirstOf(Sold) : sales[n].attribution.tracked /\ sales[n].attribution.channel = c}
    IN  [c \in Channels |-> Revenue({n \in Sold : \E m \in firsts(c) : sales[m].buyer = sales[n].buyer})]

-----------------------------------------------------------------------------

ReportsTypeOK ==
    /\ \A n \in DOMAIN sales :
          /\ sales[n].buyer \in Buyers /\ sales[n].ware \in Sellables /\ sales[n].town \in Towns
          /\ sales[n].day \in 0..reportDay /\ sales[n].attribution.channel \in Channels
    /\ removed \subseteq Sellables /\ reportDay \in 0..MaxReportDay

Total(rows, figure(_)) == MapThenSumSet(LAMBDA key : figure(rows[key]), DOMAIN rows)

\* Once the shop has sold anything, the pages agree over every period: Home, the
\* days of its chart, the channels of Overview, the rows and the cities of
\* Acquisition and the two halves of Customers add up to the same orders, revenue,
\* sessions and new customers (analytics-reports.ts:8-10, analytics.ts:19-24).
PagesAgree ==
    sales # <<>> => \A w \in Windows :
        LET home == Dashboard(w)
            overview == Overview(w)
            people == CustomerReport(w)
            cities == CityRows(SoldIn(w), DailySessions, w)
        IN  /\ Total(home.daily, LAMBDA p : p.revenue) = home.revenue
            /\ Total(home.daily, LAMBDA p : p.orders) = home.orders
            /\ Total(home.products, LAMBDA p : p) = home.revenue
            /\ Total(overview.channels, LAMBDA c : c.figures.revenue) = home.revenue
            /\ Total(overview.channels, LAMBDA c : c.sessions) = overview.sessions
            /\ Total(overview.channels, LAMBDA c : c.figures.newCustomers) = people.newCustomers
            /\ Total(AcquisitionRows(w), LAMBDA r : r.revenue) = home.revenue
            /\ Total(cities, LAMBDA c : c.figures.revenue) = home.revenue
            /\ Total(cities, LAMBDA c : c.sessions) = overview.sessions
            /\ people.newRevenue + people.returningRevenue = home.revenue
            /\ \A ware \in DOMAIN ProductRows(w) : ProductRows(w)[ware] = home.products[ware]

\* A period's figures are the sum of its days': a customer is new on one day only,
\* whatever the period shown, also when the first order is cancelled later.
DaysAddUp ==
    sales # <<>> => \A w \in Windows :
        LET overDays(figure(_)) == MapThenSumSet(LAMBDA d : figure(CustomerReport(DayOf(d))), DayKeysIn(w))
            whole == CustomerReport(w)
        IN  /\ whole.newCustomers = overDays(LAMBDA c : c.newCustomers)
            /\ whole.newRevenue = overDays(LAMBDA c : c.newRevenue)
            /\ whole.returningRevenue = overDays(LAMBDA c : c.returningRevenue)

\* The ad tree adds up: spend is the same at each of its levels and on the
\* Overview, an order counted for an ad is counted for its ad set and its campaign
\* once, and every paid order is in a campaign or untagged.
TreeAddsUp ==
    sales # <<>> => \A w \in Windows :
        LET tree == Marketing(w) IN
        /\ Total(tree.campaigns, LAMBDA c : c.spend) = tree.total.spend
        /\ Total(tree.adsets, LAMBDA c : c.spend) = tree.total.spend
        /\ Total(tree.ads, LAMBDA c : c.spend) = tree.total.spend
        /\ Overview(w).spend = tree.total.spend
        /\ UNION {tree.campaigns[c].orders : c \in DOMAIN tree.campaigns} = tree.total.orders \ tree.untagged
        /\ \A a \in DOMAIN tree.adsets : tree.adsets[a].orders \subseteq tree.campaigns[a[1]].orders
        /\ \A a \in DOMAIN tree.ads : tree.ads[a].orders \subseteq tree.adsets[<<a[1], a[2]>>].orders
        /\ \A a, b \in DOMAIN tree.ads : a # b => tree.ads[a].orders \cap tree.ads[b].orders = {}

\* The cohort grid and the months agree: who is active in a month are the members
\* of the cohorts up to it, and those from before the grid; a month that has not
\* happened is in no row, and the month before is counted whole.
CohortsMatchMonths ==
    sales # <<>> => \A month \in DOMAIN MonthlyRetention :
        LET earlier == {b \in Ordering : FirstMonth(b) < CohortStart /\ month \in MonthsOf(b, CohortStart)}
            before == {sales[n].buyer : n \in {m \in Sold : Month(sales[m].day) = month - 1}}
            row == MonthlyRetention[month]
        IN  /\ Cohorts[month].size > 0 => Cohorts[month].retention[0] = Cohorts[month].size
            /\ month + Cardinality(DOMAIN Cohorts[month].retention) = Month(reportDay) + 1
            /\ row.customers = Cardinality(earlier)
                  + MapThenSumSet(LAMBDA c : Cohorts[c].retention[month - c], CohortStart..month)
            /\ row.previous = Cardinality(before)

\* Customers by first channel spent what everyone with a tracked first order did.
ChannelsKeepTheirCustomers ==
    sales # <<>> => Total(LtvByChannel, LAMBDA r : r) =
        Revenue({n \in Sold : \E m \in FirstOf(Sold) : sales[m].attribution.tracked /\ sales[m].buyer = sales[n].buyer})
=============================================================================
