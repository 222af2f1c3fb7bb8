# BuildKart backend: a verification project

TLA+ models of the BuildKart backend: how it takes money, sends goods, keeps
stock and credit, signs people in, tells them things, forgets them, and shows
the shop. They are checked with TLC on small instances and, where it matters
most, proved with TLAPS for all instances. Paths below are relative to the
repository's root. `PROJECT.json` lists the runs, which definition models which
lines, the hazards and the findings.

    tlc -config PaymentSession_safety.cfg MCPaymentSession.tla     # one run
    tlapm PaymentSessionProofs.tla                                 # one module of proofs

1. The system
2. The modules and the plan
3. PaymentSession: paying online
4. Fulfilment: one order from placed to delivered
5. Wallet: a customer's store credit
6. The rest of the shop
7. What is proved
8. What the checks found
9. What is not modelled

## 1. The system

A TypeScript backend of one shop: an HTTP/tRPC server (`api`), the business
logic (`core`), pure rules and schemas (`shared`), and a MySQL database behind
Prisma (`database`). Requests and cron jobs are handled concurrently, by any
number of processes; everything they share is in the database, at the payment
gateways or in the object store. There is no in-memory state to lose: a crash
loses what a request was about to do.

Two facts about the database decide most of what follows. Prisma's
`$transaction` runs at MySQL's default isolation, REPEATABLE READ: the first
plain SELECT of a transaction fixes the snapshot that all its later plain
SELECTs read, whatever is locked or committed in between; locking reads
(`FOR UPDATE`) and updates act on the latest rows. And a statement outside a
transaction is a transaction of its own.

| Component (main files in `core/src`) | State | Interacts with | Hard behaviour | Correct when | Module |
|---|---|---|---|---|---|
| Online payment sessions (`write/payment-session.ts`, `payments/`) | `PaymentSession` rows | gateways, order write | races of reports, crashes under a claim, lost answers, retries | money taken becomes one order or goes back | PaymentSession |
| Placing an order (`write/create-order.ts`, `order-number.ts`, `stock.ts`) | `Order`, stock, numbers, totals | wallet, payments, product saves | checks before the transaction, numbers under contention | stock is its trail, numbers unique | Placing |
| Rates (`write/stock.ts`, `products.ts`) | prices, ladders, `PriceHistory` | cart | three screens write them | a ladder stays below its price; the history tells every price | Rates |
| Pricing (`shared/src`: money, order-pricing, delivery-pricing, discounts; `read/cart.ts`) | none | orders | rounding, allocation, the quote against the order | parts add up; an order costs its quote | Pricing |
| Order status, fulfilment (`write/orders.ts`, `shipments.ts`) | `Order.status`, loads, ledger | stock, wallet | stale pages and snapshots, partial receipts, cash per load | goods, stock and cash counted once | Fulfilment |
| Payment ledger (`write/orders.ts`) | `PaymentTransaction`, cached figures | status | caps read outside the transaction | cache = ledger | OrderLedger |
| Wallet (`write/wallet.ts`, `wallet-jobs.ts`) | lots, entries, balance | orders, sign-in | snapshots older than the lock, expiry, a job overlapping itself | each credit spent once, each promise paid once | Wallet |
| Credit at checkout (`shared/src/wallet.ts`, `payments.ts`) | the rules | cart, payments, orders | rules, balance and prices change between quote and order | money and credit come to the total | CreditRules |
| Payment methods (`write/payment-settings.ts`, `payments/credentials.ts`) | provider settings | open payments | whole rows written back, an account changed under a payment | what is offered can be paid; nothing is on without its keys | PaymentMethods |
| Customer sign-in (`write/customer-auth.ts`) | `CustomerOtp` | wallet, consent | attempts counted in two steps | guesses bounded, a confirmation once | OneTimeCodes |
| Admin sign-in (`auth.ts`, `two-factor.ts`, `totp.ts`) | admin row | – | a code sent twice, enrolment under a login | each code once; sessions passed two steps | AdminSignIn |
| Notifications (`notify/dispatch.ts`, `write/notifications.ts`) | `NotificationMessage`, templates | AiSensy | retries without a claim, templates edited meanwhile | at most once per moment, parameters fit, opt-outs kept | Notifications, Messages |
| Marketing (`marketing/`) | `MarketingEvent`, `AdSpendDaily` | Meta | an outbox with retries; a window replaced | consented purchases reported; no day half stored | Conversions, Analytics |
| Imports (`csv/`, `write/imports.ts`, `shared/src/csv`) | `ImportJob`, image tasks, a file | catalogue, media | claims, deaths, stale release; rows regrouped | completed means linked; a file reads back | CatalogueImport, ProductRows |
| Media (`jobs.ts`, `write/media.ts`, `uploads.ts`, `r2.ts`) | `Media` rows, objects | catalogue, object store | check then delete | nothing in use is deleted | MediaLibrary |
| Products, variants (`write/products.ts`, `product-bulk.ts`, `shared/src/variants.ts`) | products, rows | orders, the publishing job | rows orders hold, first publication, the clock | ordered rows stay; drafts due go live | Catalogue, ProductRows |
| Categories, tags, tax presets, website (`write/categories.ts`, `tags.ts`, `tax-rates.ts`, `pages.ts`, `blog.ts`, `menus.ts`) | their rows | each other | checks before the write, links that are no foreign keys | a tree of two levels, no dangling link, one default | Aisles, TaxPresets, Website |
| Storefront (`read/storefront.ts`) | a cache, one request's promises | cart, warehouses | four queries of one catalogue, concurrent sections | a card shows what the cart sells, a page one price | Shopfront, HomeFeed |
| Privacy (`write/privacy*.ts`) | requests, consent, incidents | all personal data | cancel or new order while erasing; answers out of order; a send resumed | erased on request only; the newer answer wins; a notice reaches everyone, and once by each key | Erasure, Consent, Incidents |
| Support (`write/support.ts`, `read/support.ts`) | tickets, messages | retention | reply against resolve, caps, polling | nothing unanswered leaves the queue | Support |
| Sessions and analytics (`write/sessions.ts`, `read/*analytics*.ts`) | sessions, summaries | orders, erasure | summary and purge, many rules for one figure | nothing counted is lost; screens agree | Analytics |
| Growth, accounts (`write/growth.ts`, `quote-materials.ts`, `customer-account.ts`, `read/quote.ts`) | areas, requests, offers, `Address` rows | queue, cart, orders | steps with nothing around them, a count older than its write | told once; one default address; a quote covers its jobs | Growth, AddressBook |
| Settings, other reads, API server, scripts | single rows, or none | – | – | – | – |

## 2. The modules and the plan

PaymentSession, Fulfilment and Wallet have MC modules and runs of their own,
and abstract specifications where there is one worth stating (PaymentSettlement,
GoodsFlow). The other modules share no row with one another, so three MC modules
check them side by side: a behaviour picks a component in its initial state and
runs it, the others stay as they began (`Elsewhere`). Their states add up instead
of multiplying, and each property is stated of every behaviour (the parts that are dear to
evaluate only of the behaviours in which their component runs: elsewhere it stands as
it began).

| Run | Components | What it asks |
|---|---|---|
| payment_safety, payment_two, payment_live | PaymentSession | section 3 |
| fulfil_goods, fulfil_status | Fulfilment | section 4 |
| wallet_books, wallet_once | Wallet | section 5 |
| backoffice (MCBackOffice) | Notifications, MediaLibrary, Placing, OrderLedger, Rates, CatalogueImport, Conversions, Erasure, OneTimeCodes, AdminSignIn, Pricing, PaymentMethods | the safety of each |
| jobs (MCJobs) | Notifications, MediaLibrary, CatalogueImport, Conversions, Erasure, Catalogue, HomeFeed, Incidents, PaymentMethods | what each job or call owes in the end |
| shop (MCShop) | Support, ProductRows, Aisles, Shopfront, Website, TaxPresets, Consent, Analytics, Messages, CreditRules, AddressBook, Growth, Catalogue, HomeFeed, Incidents | the safety of each |
| fulfil_twice, media_inuse | Fulfilment; MediaLibrary | two statements of the repository that do not hold: section 8 |

The conventions of every module: parameters are CONSTANTS with one named
ASSUME; one action per operation, request step or job step; invariants are
conjunctions of named parts; no RECURSIVE operator, so that every module can be
proved about. Definitions called `Mutant...` stand beside the definition they
break: putting one in that definition's place makes the property they are meant
for fail, which shows that the property says something about the code.
A run checks few properties, each the conjunction of the parts its MC module names.

The proofs of a component are in a module of their own: PaymentSessionProofs,
FulfilmentProofs and WalletProofs; those of MCBackOffice in BackOfficeProofs (messages,
reports, files, imports, erasure, signing in) and OrderProofs (orders, ledger, rates,
prices, payment methods), which extends it and states what holds of all twelve.
ShopPartProofs has what each of MCShop's consent, support, catalogue, incidents, home
page, categories and tags, website, tax presets and address book keeps, ShopProofs what
follows for MCShop. SumTheorems has what they need of sums.

## 3. PaymentSession: paying online

**State.** For each session its row (`status`, `opened` for `gatewayOrderId`,
`payId`, `placed` and `ledger` for the orders committed for it and the payments
on them, `age` for the two ages the cron asks about), for each attempt to pay
what the gateway knows (`pay`, `paidAmt`, `refunded`) and what it will report
(`events`, delivered any number of times, in any order, or never), and for each
worker, a request or a pass of the cron, where it is (`pc`) and what it works on
(`job`). Each await of the code is one step. `finalizePaymentSession` is the
labels read, fail, capture, claim, write, refund, mark…, reopen, reply; the
reconcile pass is `ReopenStuck`, `LookAt`, `LookUp`, `Expire`, `RetryRefund`.
The order's transaction is one step that commits or throws: what it reads and
checks is the subject of other modules.

**Faults.** A worker may die at the labels of `CrashAt`; a gateway call may fail
having done its work or not; the order write may throw. `AckLoss` adds: the
COMMIT succeeded and its answer was lost. `MaxFaults` bounds them all.

| Run | Question | Bounds |
|---|---|---|
| payment_safety | is there ever a second order, an order beside a refund, an order without its money, two claimants, an expired session that was paid? does it implement PaymentSettlement? | one session, two attempts of any of three amounts, two requests and one pass, two faults |
| payment_two | the same across a Razorpay and a PayU session, with late money; settled sessions stay settled; what is marked REFUNDED went back in full | two sessions, one attempt each, one request, one pass |
| payment_live | is every captured payment settled, by the cron alone? | one session, two attempts, two faults, webhooks never guaranteed |

Why these are enough: a session's steps touch no other session, so two sessions
only show that nothing leaks between them; two attempts give the second payment
of a settled session; two requests and a pass give the three-way race, and a
fourth worker can only repeat what one of the three does after it finished;
`MaxOrders` = 2 is one more than is ever right. `CrashAt` leaves out the two
labels between a refund at the gateway and its record (see 8).
`payment_two`'s refund property takes payments of the exact amount.

payment_safety checks `TypeOK`, `OneOrderPerSession`, `MoneyIsAccountedFor`
(OrderHasItsMoney, NeverOrderAndRefund, ClaimIsExclusive, ExpiredMeansUnpaid) and
`ImplementsSettlement`; payment_two `SettledSideBySide` (SettledIsFinal,
RefundedInFull after every step, ImplementsSettlement); payment_live
`EveryPaymentSettles` (MoneyIsSettled, ImplementsFairSettlement).

**The abstract specification.** PaymentSettlement says per session: money is
taken, then either an order is placed or the money is returned. The mapping
takes `money` from the gateway's books and `ordered` from the order table, not
from the session's status, so the status may lag or lie without the property
being trivial.

**Fairness.** Weak fairness on each worker's steps (the database and the
gateway answer), on a session ageing, and on the passes (`/cron/payment-sessions`
"every five minutes"). Nothing obliges a customer to pay, a webhook to arrive or
a browser to return. The live run has one session: fairness is per pass, and with
two the batch of 50 would have to be fair between sessions, which the code's
ordering gives and the model does not represent. A session that is claimed is
handed back only when nobody works on it any more: a request lives far less
than the ten minutes the code waits.

## 4. Fulfilment: one order from placed to delivered

**State.** `order` holds the row, its lines, its loads (`OrderShipment`, each
with what was sent, what arrived, its cash and how often it was taken) and its
cached `paid`; `shelf` what went back to stock; `req` what each request is doing;
`listed` whether a sweep of auto-confirm has the order on its list. A request has
a Begin step, which is the page it acts from or the first read of its
transaction, and a step that is its transaction from the lock of the order to
the commit. `moveThroughLoads`, behind the three status buttons of the admin, runs
the same transactions, so it is the same actions. A delivery is the one that
reads before it locks (`ReadsBeforeLock`): it works from the `view` it began with.

**`Alone`** names the kinds of request during which no other request commits.
`{"deliver"}` is the assumption that nobody writes to an order while another
request waits to deliver a load of it; the runs state what holds under it, and
fulfil_twice and section 8 say what happens without it.

| Run | Question | Bounds |
|---|---|---|
| fulfil_goods | are units, stock and cash counted once, does the order implement GoodsFlow? cash is typed freely, cancels race with the rest | two lines of one unit, two loads, two requests, an advance and charges |
| fulfil_status | is the status always what the loads say? do the slips collect exactly what arrived is worth? is an ended order final? does auto-confirm confirm? | one line of two units (partial loads), three loads, two requests |

Two lines are what makes a load partial in kind, two units what makes it partial in
number; three loads allow a short load, its resend and a recall. Prices differ by
line, so that a mix-up shows. **Fairness**: weak fairness of the sweep only; a
member of staff may stop anywhere. Discounts, GST and the tiers are folded into
what a unit charges (`UnitPayable`); the wallet's part of a cancel is in Wallet;
a customer's lifetime totals, audit rows and messages are left out.

fulfil_goods checks `TypeOK`, `GoodsAndCashAddUp` (NothingSentTwice,
ShelfGetsWhatNeverCame, CashTakenOnce, NeverOverCollected, PaidIsTheLedger) and
`ImplementsGoods`; fulfil_status `OrderFollowsItsLoads` (StatusFollowsLoads,
PayAsItArrives) and `OrdersComeToRest` (TerminalIsFinal, WaitingIsConfirmed).

**The abstract specification.** GoodsFlow has units in the store, on the road,
with the customer and on the shelf: units only move between store and road, from
the road to the customer, and to the shelf at the end; nothing moves afterwards.

## 5. Wallet: a customer's store credit

**State.** The lots in the order they were created, the sum of the statement's
entries, the cached balance, whether the bonus has been stamped, what the wallet
knows of each order (status, cashback and its date, what it drew from each lot),
the clock, and the transactions in flight with their snapshot (`seen`) and its
time (`at`). Placing, cancelling, paying cashback and granting the bonus read
something before they lock the customer: they have a Start (the first read) and a
commit. An admin's adjustment and the expiry job lock first and are one step.
A transaction that writes a lot and reads it again sees its own writes over its
snapshot (`ReadBack`). An order's spend may be any amount up to the balance it
saw: the shop's rules (share, minimum, cap) are settings that may be anything.

**`Overlap`** FALSE is the wallet as its header describes it: one movement after
the other. TRUE lets others commit between a transaction's first read and its lock.

| Run | Question | Bounds |
|---|---|---|
| wallet_books | does the statement add up to the lots? is no lot overspent? does a cancel return spendable credit? does the balance catch up with expiry? is cashback paid? | one order, three lots of 1 or 2, validity of one day or for ever, three days |
| wallet_once | two transactions overlapping: cashback once, bonus once, lots within 0..amount | two orders, three lots, two days |

wallet_books checks `TypeOK`, `LotsAddUp` (StatementIsTheLots, NoLotOverspent) and
`CreditComes` (CancelReturnsSpendableCredit, BalanceSettles, CashbackArrives);
wallet_once `LotsInBounds` and `PaidOnce` (CashbackPaidOnce, BonusOnce).

A lot of two units can be drawn from twice; a lot that expires on day 1 and an
order cancelled on day 2 is the revival; day 3 is when the revived lot dies.
`MaxLots` always leaves room for a lot that is owed (`Promised`), so the bound
never hides a payment. **Fairness**: each commit (weak), the clock (weak), and the
hourly job (strong: InnoDB hands its locks on in turn, so a stream of other
transactions, here a checkout that begins and fails again and again, does not
keep a waiting one out). Left out: the branch of `settleWalletOnCancel` for
CREDITED cashback, since nothing leads from DELIVERED to CANCELLED, and the
scaling of a promise when an order is closed short.

## 6. The rest of the shop

Each module's header says whose steps it has; what an operation reads outside its
transaction and what it writes later are two steps, and a conditional update sees
what is committed. "Without overlap" below means that the named constant is FALSE:
calls of the kind named do not commit between another's check and its write. Where
that is assumed, the code has nothing that prevents the overlap, and the table at
the end of this section says what goes wrong with it. Everything else interleaves
freely in every run.

**Notifications, Messages.** Messages: from an event to a row, in the steps in
which `deliver` reads the recipient, the switch, the template and writes the row,
while owners edit templates and customers change their minds; the row freezes the
campaign and its parameters. Notifications: rows sent by a first attempt or by
the retry pass, with AiSensy failing or accepting and losing its answer, workers
dying at each await, and rows growing past their hour and their day. `SentWasAccepted`, `NeverSentLater`,
`SentIsFinal` tie the row to what AiSensy accepted; `OffersNeedAYes` and
`OwedIsNotHeldBack` are the two halves of consent to messages.

**Placing, Rates, OrderLedger, Pricing.** Placing: two clerks place, cancel,
adjust by hand and save products over one shelf (bounds: two orders, one
article, one unit on the shelf: one more order than units). `ShelfIsItsTrail`
(stock is what the rows say came and went) and `OversoldByOverlapOnly` (stock goes
below zero only where two calls overlapped) are what the code does hold;
`NumbersUnique` and `NumbersConsecutive` hold under the overlap of everything.
OrderLedger: entries typed, backdated, deleted, refunds capped by what a page
read before. Rates: the three screens that write prices. Pricing: one cart of
three lines, priced by `priceCart` and again by `writeOrder`; amounts are chosen
so that shares, taxes and ladders round (35 paise in three parts, 33 %, a rung
that is out of order), pins so that one is at the very end of a range.

**CatalogueImport, ProductRows, MediaLibrary.** The job, a commit product by
product, image batches that die, claims released after their time; what an export
writes and a parser reads, row by row, of one product with one option and any
leftover; files from ticket to object to use to deletion, rows and objects apart.

**Conversions, Analytics.** The purchase outbox, its retries
and sweep; Meta's figures restated while a pull reads them in pages; beacons that
race to create a session, the hourly summary and the purge; and the analytics
screens as functions of one set of orders, compared with one another.

**Erasure, Consent, Incidents, Support.** The cooling-off week, the daily job,
hands that move a request, new orders, photos that outlive their keys; the
banner's answers on two devices and at sign-in; a breach notice walked in batches
by two servers while people sign up and are erased, answers get lost and the retry
job goes over what is queued; a ticket with customer, staff,
retention and a polling page (two talkers, three messages).

**OneTimeCodes, AdminSignIn, PaymentMethods.** Codes guessed by overlapping
callers: the limit is `MaxGuesses` plus one for each caller already past the
check (`GuessesBounded`), and each caller in step with the first may sign in
with the code (`SignsInTogetherAtMost`; section 8). Password, challenge, app or paper code, enrolment,
sessions. Providers saved and reordered as whole rows by two admins at once while
shoppers choose and pay at the accounts they were given. `backoffice` gives them no
options to choose from; `jobs` has one admin, and UPI to route by.

**Catalogue, ProductRows, Aisles, TaxPresets, Website, Shopfront, HomeFeed.**
Saves that read what they rely on and write later, beside the publishing clock;
the editor's matrix of rows under edits of its axes (a value is renamed where no axis
before its own is blank: with one, the position `renameAxisValue` looks up is not the
position in a row's key, `variants.ts:267-288`, and only its tests call it); the tree and its tags; a
preset copied to products; links that are no foreign keys; the shop's lists
against the cart; the sections of a home page sharing one pricer.

**CreditRules, AddressBook, Growth.** CreditRules: two checkouts
of one customer, from the cart through the start of a payment to the order, while
the owner saves rules, the balance moves and carts are repriced; the arithmetic of
slabs, caps, shares and advances is the code's, in paise. Amounts are chosen so that
percentages round, a slab pays less than the one below it, credit covers an order
or leaves less than a rupee of it. The promises compare the order with what was
shown and charged. AddressBook: saves
that count in one step and write in another, removals in four steps, entries orders
add, crashes between any two; `doubt` records what has befallen a customer's
default, so that `OneDefaultAddress` says exactly what can upset it. Growth: an
estimate from given jobs (what one job takes of each material is a constant) and
the shopper's picks, priced in a second step, beside two admins saving, moving and
reordering offers; and, apart from it, asks and announcements of one area, each in
its steps, with crashes.

**What the runs check.** Each part of a promise is a definition of its own, with
its comment, in the module it is about; the MC module joins the parts of one
subject, and a run checks the joined ones:

| Run | Property | Parts |
|---|---|---|
| backoffice | `EachMomentTellsOnce` | SentWasAccepted, OneMessagePerMoment, NeverSentLater, TriesBounded |
| | `OrderBooksAddUp` | NumbersUnique, NumbersConsecutive, ShelfIsItsTrail, PutBackWasTaken, OversoldByOverlapOnly, LifetimeHeals, FiguresAreTheLedger, PaidMeansReceived |
| | `RatesAreTold` | LadderBelowPrice, HistoryTellsThePrice |
| | `PicturesArrive` | CompletedMeansLinked, NoBrokenImage |
| | `SalesReportedOnce` | NothingWithoutConsent, ReportedOnce, SendsBounded |
| | `ErasureIsClean` | ErasedOwesNothing, LoosePhotosGo |
| | `SignInIsEarned` | ConfirmsOnce, SignsInTogetherAtMost, PurposesKeptApart, GuessesBounded, NewestOnly, CodesSentBounded, SessionsPassedTwoSteps, CodePassesOnce |
| | `PricesAddUp` | SharesAddUp, TotalReconciles, NextRungIsKept, DeliveryIsBlocksStarted |
| | `MethodsTakeMoney` | OnHasCredentials, ExpiredWasNotPaid |
| | `NoStepUndoes` (action) | SentIsFinal, DoneIsFinal, ReportIsFinal, ErasedOnRequest, DoneByErasing, ReferencedIsKept, RateRowsRecordChanges, OrderCostsItsQuote, MoreIsNoDearer, DeliveryIsMonotone |
| jobs | `JobsFinish` (liveness) | QueueDrains, UnconfirmedIsSwept, ImagesFinish, SalesAreReported, ScheduledIsCarriedOut, DueIsPublished, PageIsAnswered, SendEnds, PaidBecomesAnOrder |
| shop | `HalfDoneIsRight` | LiveIsNotScheduled, OnePriceAPage, PricedFromItsOwn, StockingReadOnce, NobodyToldTwice, EveryoneHasANotice |
| | `CrossingsTakeNothingBack` (action) | OrderedRowsAreKept, FirstPublishedStands, JobTouchesDrafts, CountOnlyRises |
| | `ThreadsAreTold` | MissedWereInFlight, PreviewIsTheLast, CapHeldButForOverlap, UnansweredIsAwaited |
| | `ProductsKeepTheirRows` | AcceptedByBoth, OneRowPerCombination, StockIsTypedOnce, RowsRegroup, OrderIsKept |
| | `LeanedOnStays` | OneLevelDeep, DirectionsAgree, LinksLeadHome, PresetIsThePercent, OneDefault, OnlyUnusedPresetsGo, OneDefaultAddress, TwoTakeACrossing, BookHasRoom |
| | `ListingsAgree` | CardIsWhatTheCartSells, StockFilterIsTheCard, FacetsCountTheirResults, SuggestionsAreYoung, EnoughAndNoSpare, TogetherIsNoMore, OneLineEach, LeftOutOnPurpose |
| | `ConsentIsProved` | HistoryProvesTheAnswer, TakenBackStays |
| | `CountsAgree` | FunnelNarrows, EveryViewCounted, KeptForGood, PagesAgree, DaysAddUp, TreeAddsUp, CohortsMatchMonths, ChannelsKeepTheirCustomers, PaidToThePaisa, NoPettyPayments, CreditStaysInBounds, EarnsNoMoreThanShown, CreditEarnsNothing, BannerKeepsItsWord |
| | `MessagesFit` | ParamsFitTheCampaign, BlanksAreKnown, ReadyReachesEveryone, OffersNeedAYes, OwedIsNotHeldBack, WishesToldOnce, MarkedAreTold, ToldHadAsked |
| | `NoStepLoses` (action) | OpenWordsAreKept, NothingVanishes, FiledStaysFiled, LoadBearingStays, MergeKeepsAisles, FirstDayStands, NewerAnswerWins, OwnFileChangesNothing, AbsentIsNotBlank, CopyCharges, SessionsMoveForward, OnlyDeletedAdsGo, DeletedAdsDoGo, LastOkStands, OthersAreUntouched, NewOffersGoLast |

**Bounds.** Each constant is in the cfg with its reason in the module's CONSTANTS.
As a rule two actors (a third can only repeat what one of two did after it ended),
two of each row (one to be touched, one to be left alone), and a count of calls
or faults high enough that the longest story the properties are about fits:
fail, retry, give up; list, change, act; post, overtake, post. MadeToOrder is empty,
as it only spares an article the checks. Untracked and Skewed are empty for another
reason: an article whose stock is not counted is put back by a cancel although its
order took nothing, and a device whose clock runs ahead wins over
answers that are newer.

**Fairness.** MCJobs states its promises as fairness => promise, one component at
a time. Weak fairness of each worker's steps (the database and the services
answer, or time out) and of time passing. Strong fairness of a job's listing
(`StartCollection`, `ListDue`, `StartMarketingJob`, `RunDueErasures`, the image
poll): it competes with other calls for the models' few workers, and the code's
cron has a worker of its own every time. Nothing makes a person act. Where the
code takes the newest or the first of many (SweepTake, a batch of 100) the runs'
instances fit into one batch; starvation behind a longer backlog is listed in
section 8.

| Constant | TRUE breaks | how |
|---|---|---|
| `NotifyOverlap` | OneMessagePerMoment, SentIsFinal, TriesBounded | two passes, or a pass and a slow first attempt, send a listed row twice (`dispatch.ts:833`) |
| `MediaOverlap` | ReferencedIsKept | a file is attached between the count of its uses and its deletion |
| `SaveOverlap` | ShelfIsItsTrail | a product save writes the stock it computed from rows read before (`products.ts:318`) |
| `LedgerOverlap` | FiguresAreTheLedger | a deletion recounts from a snapshot older than its lock |
| `RatesOverlap` | LadderBelowPrice, HistoryTellsThePrice, RateRowsRecordChanges | two screens check against rows the other replaces |
| `ImportOverlap` | CompletedMeansLinked, DoneIsFinal | a slow worker loses its claims; a commit overwrites a cancel |
| `ReportOverlap` | ReportedOnce, ReportIsFinal, SendsBounded | a retry sends what is still being sent (Meta removes duplicates by event id) |
| `ErasureOverlap` | ErasedOnRequest, ErasedOwesNothing, LoosePhotosGo | a cancel or an order lands between the checks and the transaction |
| `EnrolOverlap` | CodePassesOnce | a set-up replaced under a login forgets which step was spent |
| `RotateInFlight` | ExpiredWasNotPaid | a payment at the old account is asked for at the new one and not found |
| `ClearOverlap`, `SignInOverlap`, `RenameOnto`, `Recommits` | OpenWordsAreKept; TakenBackStays, NewerAnswerWins; NothingVanishes; CompletedMeansLinked | retention clears a reopened ticket; an answer arrives inside a sign-in; a value is renamed onto another; a commit is repeated |

## 7. What is proved

The theorems hold for every value of the constants (any number of sessions, lines,
lots, moments, clerks..., any amounts, any bounds), from the modules' named
assumptions and the hypotheses each theorem states. A hypothesis such as
`~LedgerOverlap` is the line that the table at the end of section 6 draws: the code
does not prevent the overlap, and what happens with it is in that table and in
section 8. The runs of the same properties set the same constants.

In general a property is not inductive as it stands. The strengthening is at the end of
the component's module, in named parts (`...Inv`), and says *why* the property holds.
TLC checked each on the run's instance before it was proved. A proofs module has a
lemma for each action, saying that it keeps each part; the theorem puts them together.

**PaymentSessionProofs.**

- `Typing`: TypeOK, with no hypothesis.
- `OnePaymentOneOrder`, `MoneyAccountedFor`: with no lost answer to a COMMIT and no death
  between a marking and the write it covers (`Marking`), always OneOrderPerSession and
  the three parts that go with it; and, if no money comes once a session's time is over,
  ExpiredMeansUnpaid, which is the whole of MoneyIsAccountedFor.
- `Refinement`: ImplementsSettlement, late money allowed.
- `SettledForGood`: SettledSideBySide, where attempts pay the price and passes of the
  cron do not overlap (with two, the second marks REFUND_PENDING what the first returned).

The invariant `IInv` says why: a session being opened is known to its opener alone
(OpeningInv), so a payment exists only at an opened session; no report, lookup or
claim runs ahead of the gateway (GatewayInv, ReportInv); while a claim is held the
row is FINALIZING and has one holder, a retried refund is owed, a write is for the
exact price, and ORDER_CREATED is exactly one order (ClaimInv); money goes back
only under a claim that the row has not yet let go of, or of a row that says so
(RefundInv). `ExpiryInv` adds that a pass gives up only what the gateway called unpaid
and what can no longer be paid; `BooksInv` the gateway's own books, which the
refinement maps; `ReturnInv` that a claim and a retry name the payment whose money goes
back. The first two hypotheses are needed: each is what one of the behaviours
of section 8 breaks.

**FulfilmentProofs.**

- `FulfilmentTyped`: TypeOK, with no hypothesis.
- `GoodsAccountedFor`: GoodsAndCashAddUp; `GoodsRefinement`: ImplementsGoods;
  `EndedForGood`: TerminalIsFinal. All where no other request commits during a delivery.
- `StatusAndPayFollow`: OrderFollowsItsLoads, where none commits during a cancel either,
  and loads bring the cash their slips ask for.

`GoodsInv` says that what a delivery saw is what it finds (SnapshotsHold, which is what
the hypothesis buys and nothing else), that an order is what was ordered until it ends,
that a load on the road carries something and shows in the status, and that only a
load that has arrived has brought cash. `StatusInv` adds what a cancel saw, and that
nothing arrives before packing; `PayInv` that what has been paid is what arrived is worth.

**WalletProofs.** With no hypothesis: `CreditTyped` (TypeOK), `LotsBounded`
(LotsInBounds) and `PromisesPaidOnce` (PaidOnce), however transactions overlap. Where
they do not, `EveryRupeeKept` (LotsAddUp): the statement is what the lots hold, and no lot
is overspent.

`OnceInv`: lots are a finite sequence that only grows (LotsInv); an order that is
CREDITED has been placed (OrdersInv); and, the part that matters when transactions
overlap, an order being placed is unplaced still and placed by one transaction, and one
being cancelled has been placed (RequestsInv), so that placing never overwrites a row
whose cashback was paid. `CreditInv` adds that the bound on lots leaves room for every lot
owed (Room: the bound hides no payment), that what a transaction saw of a lot is still
there for what was credited (SeenInv), and that orders draw on lots there are (UsesInv,
CancelsInv).

**SumTheorems.** Sums over sets (`SumFunctionOnSet`) are recursive functions, of which
the prover knows nothing, not even that there are any. SumsExist shows that there is one for every
finite set, from the sums of its subsets; SubsetInduction turns an induction over
a set's subsets into one over the naturals, stated with a set of subsets in place of
the library's operator. What the books need follows: a sum of naturals is one, equal terms have equal
sums, one term changed moves the sum by as much, a sum of sums is taken either way. So
do ranks: the members of a finite set of entries can be put in order (InOrder, Ranks), by
which the paise that rounding left over go to the first so many lines (SumCounts).

**BackOfficeProofs, OrderProofs.** A step of MCBackOffice moves one component
(OneComponentMoves), so each component is proved by itself.

| Theorem | Property | Where | Why (invariant) |
|---|---|---|---|
| `MomentsToldOnce`, `SentForGood` | EachMomentTellsOnce; SentIsFinal | `~NotifyOverlap` | a row is handled by one sender, a list holds only what may be retried, and what AiSensy took is counted by rows and faults (NotifyInv) |
| `ReportedOnceWithConsent`, `ReportedForGood` | SalesReportedOnce; ReportIsFinal | `~ReportOverlap` | an event has its customer's yes from its first row on, and is in one hand (ReportInv) |
| `BooksKept` | OrderBooksAddUp | `~LedgerOverlap`, `~SaveOverlap`, Untracked = {} | a claim's number is its own while the lock is held (PlacingInv); what the calls under way count on is on the shelf or comes off beside them, and a save counts the shelf it read (StockInv); a deletion saw the ledger it writes, and the net is what was paid less what went back (LedgerInv) |
| `RatesTold`, `RowsRecordChanges` | RatesAreTold; RateRowsRecordChanges | `~RatesOverlap` | one screen at a time, whose checks still hold when it writes (RatesInv) |
| `ErasureClean`, `ErasedWhenAsked` | ErasureIsClean; ErasedOnRequest, DoneByErasing | `~ErasureOverlap` | who erases does so for a request that stands, of an account as it saw it (ErasureInv) |
| `PicturesShown`, `PicturesStay` | PicturesArrive; ReferencedIsKept, DoneIsFinal | `~ImportOverlap`, `~Recommits`, `~MediaOverlap`, OneImageEach, every use counted | the commit, the batches and the job's status take turns (ImportInv); what is doomed is used nowhere and what is READY is stored (MediaInv) |
| `SignInEarned` | SignInIsEarned | `~EnrolOverlap` | a code is live or somebody's, and guesses and those under way stay within the limit plus the callers (CodesInv); a version tells which set-up a sign-in began under (AdminInv) |
| `MoneyCanBeTaken` | MethodsTakeMoney | `~RotateInFlight` | what is on has its keys, and a payment is at the account it was opened at (MethodsInv) |
| `PricesReconcile`, `PricesOnlyFall` | PricesAddUp; MoreIsNoDearer, DeliveryIsMonotone, OrderCostsItsQuote | always | shares of a discount are rounded down and what is left over is less than one a line; a rung's price is below the one before it; the quote kept is what the cart costs (PricingInv) |
| `NothingUndone` | NoStepUndoes | all of the above but `~LedgerOverlap`, `~SaveOverlap`, `~EnrolOverlap`, `~RotateInFlight` | the invariants above, side by side |
| `BackOfficeTyped` | TypeOK | all of the above but `~SaveOverlap` | the same |

**ShopProofs.** A step of MCShop moves one component too (OnePartMoves).

| Theorem | Property | Where | Why (invariant) |
|---|---|---|---|
| `ConsentProved` | ConsentIsProved | `~SignInOverlap`, Skewed = {} | a sign-in sees the account as it is, answers are filed no earlier than they are given, and what a device has not sent is newer than the account's (ConsentInv) |
| `NewerWins` | NewerAnswerWins | `~SignInOverlap` | the same |
| `ThreadsTold` | ThreadsAreTold | always | an id belongs to one talker, whatever was begun since is beside it, and a conversation begun past the cap had another beginning beside it (SupportInv) |
| `WordsKept` | OpenWordsAreKept | `~ClearOverlap` | what retention listed is closed and old still (SupportInv) |
| `CrossingsKept` | CrossingsTakeNothingBack | always | what a call read of a first day, a status and the orders of a row is so still, unless it missed the news (CatalogueInv) |
| `HalfDoneProved` | HalfDoneIsRight | always | a product is of the one load that a section showing it waits for, and its price is what that load found (FeedInv); a person has one row a key, a key tells how its person stood, WhatsApp took no more than the rows that are SENT, and whom a run has not told is in its page or after it (IncidentsInv) |
| `LeanedKept` | LeanedOnStays | always | what a check found is so still or was crossed by a call that the property names: categories keep two levels and their directions (AislesInv), a link's page is there or went under it (WebsiteInv), presets that rows lean on stay and one is the default (TaxInv), and an address book has one default unless its `doubt` says what upset it (BookInv) |

**Model-checked only.** Liveness (PaymentSession's, Fulfilment's, the wallet's and all of
JobsFinish): fairness and ENABLED are beyond the prover. CancelReturnsSpendableCredit.
Of MCShop: TypeOK, ProductsKeepTheirRows, ListingsAgree, CountsAgree,
MessagesFit and the parts of NoStepLoses other than the two proved. Most of these compare
what recursive definitions compute of data (rows regrouped from a file, cards, screens,
slabs), which is induction over data. A lost answer, a death at a marking and every overlap
excluded above are beyond the theorems because the properties do not hold with them.

## 8. What the checks found

Runs that violate what the repository says of itself:

- **fulfil_twice**: two requests to deliver one load both find it on the road; its
  cash is recorded twice.
- **media_inuse**: a picture that is the cover of a published blog post is deleted, by
  the nightly job and by an admin: neither counts covers among the uses (no overlap of
  calls is needed; MediaOverlap is FALSE).

Behaviours met while modelling, which the passing runs exclude by a constant or
which no property claims otherwise:

*Payments.* Money captured after its session expired, its webhook lost, is neither
ordered nor refunded: the cron asks about CREATED and FAILED only
(`payment-session.ts:815`). The loser of a claim answers from a row the winner's
catch-all has set back, and says "You have not been charged" (`:439`). A lost
answer to the order's COMMIT reopens a session that has its order (`AckLoss`). A
process that dies between the gateway's refund and its record is handed back and
later gets an order as well (`CrashAt`). A retried refund asks for the session's
amount, not for what was paid (`PaidAmounts`); two passes retrying one refund can
turn REFUNDED into REFUND_PENDING. Changing or clearing a gateway's account
strands the payments open at the old one (`RotateInFlight`).

*Orders.* A cancel from an old page calls the loads back, loses the compare-and-swap
and commits: OUT_FOR_DELIVERY with nothing on the road (`orders.ts:384`). Two last
loads delivered at once leave the order out for delivery, and a delivery that began
before a cancel revives the cancelled order (`Alone`). A load of which nothing
arrived leaves its order PACKED. The cap on a refund is read outside its
transaction, and deleting a payment asks for no cap (`orders.ts:598`, `:727`). All
retries of a number's claim re-read one snapshot (`order-number.ts:21`). A discount's
use is never counted, so its limits never bite (`read/cart.ts`). Cancelling puts back
the units of an article whose stock is not counted, which its order never took
(`orders.ts:408`, `create-order.ts:539`; `Untracked`). The cart prices
two lines of one size apart, `writeOrder` merges them (`create-order.ts:187`).

*Wallet.* Two checkouts spend the same credit; the second works from a snapshot
older than the lock it waited for (`wallet.ts:167`). Overlapping movements leave the
cached balance without a lot until the next movement (`Overlap`).

*Messages.* The tokens riderName, riderPhone and deliveryPromise are supplied by
nobody, and a refund told by a payment session carries no order tokens, although
the editor accepts them for these events (`shared/src/notifications.ts:9-13`): they
arrive as a dash. A Hindi customer is sent the English template where there is no
Hindi one. A crash between an order's commit and the row loses the message.

*Jobs.* The conversion sweep looks at the newest 200 and starves older orders
(`meta-capi.ts:519`). Objects whose rows went and whose deletion crashed are never
looked for (`jobs.ts:64`). `publishScheduledProducts` publishes by id what it listed
(`jobs.ts:107`). A second erasure request of an erased account is never closed
(`privacy-erasure.ts:101`). Incident notices that FAILED are not sent again. A cron
silent for longer than the roll-up window loses its sessions
(`write/sessions.ts:161`). `releaseStaleImageTasks` takes a slow worker's tasks.

*Catalogue.* An export writes the bulk tiers and a parser reads them, and a commit
never imports them, although `export.ts:92-96` calls the round trip lossless;
re-importing one's own file fetches its images again. Price sorts drop products
without an active variant. Two overlapping moves can make a third level of
categories, or a cycle. Merging tags drops discount targets (`tags.ts:219`) that its
header keeps. Deleting a category or a product never looks for the links to it.

*Accounts and growth.* A sign-in code can be spent twice by two requests arriving
together, which the comment at `customer-auth.ts:391-393` rules out: both found it unspent,
and the update that consumes it in the transaction (`:395`) has no condition. Each of
them gets a session, of the same customer. A removal that crosses another call can leave an address book
with two defaults or none; an edit that unticks the default, or an order's address
filed into an empty book, leaves none (`customer-account.ts:121`,
`create-order.ts:367`); an order's address is not held to the cap. Somebody who asks
for an area again after being told is counted and never told again
(`storefront.ts:73`), and a crash between the marking and the telling loses the
messages (`growth.ts:123-140`). A variant moved to another material keeps its
position there, and may come first (`quote-materials.ts:46`); a quantity typed for one
variant stays when the list falls back to another (`read/quote.ts:153`).

*Analytics.* Overview and Marketing can credit one order to different campaigns
(`marketing-analytics.ts:259-265`, `analytics-reports.ts:95-117`). Overlapping ad
pulls can overwrite newer figures with older.

*Support.* The cap on open tickets is read before the ticket and bypassed by replying
to a resolved one. A poll misses a message that commits after one with a later id
(`read/support.ts:100`), which the schema's comment rules out. An admin's reply begun
before a customer's message takes it out of the queue.

*Privacy.* A breach notice can reach somebody twice, though `privacy-incidents.ts:15-16`
and the alert at `:252` say nobody is told twice. Its key is the account's or the number's:
whoever signed up since has the other one, and so does one whose account was erased,
since erasing replaces the number on the account (`privacy-erasure.ts:108`, `:126`) and a
pasted number without a `Customer` row is told as a stranger's
(`privacy-incidents.ts:125-134`; its comment says erased accounts are left out). And a
notice that AiSensy took without its answer arriving stays QUEUED and is sent again by
the retry job (`dispatch.ts:828-858`). `NobodyToldTwice` says that there is no fourth
way. Erasing blanks the messages of an account by its bare ten digits
(`privacy-erasure.ts:179`), where a row has them with 91 in front (`dispatch.ts:188`):
rows written before there was an account keep the number.

*Payment settings.* A save and a reorder, or two saves of one method, each write the
whole row they read (`payment-settings.ts:191`): of two that cross, one is lost, a new
key with it; `OnHasCredentials` says only that what is left on has keys.

## 9. What is not modelled

`PROJECT.json` lists every component with the reason. Single-row edits by admins
(content, settings, discounts, enquiries) are last-writer-wins by design and have
nothing to interleave; most reads are projections. Of the modelled parts: money is
integers (paise are exact integers in the code, and no property here is
about their range), times are ages or days, texts, audit rows, rate limits and
image processing are left out, and the gateways, AiSensy, Meta, the object store,
the clock and the database's snapshots are modelled from how the code uses them.
Left out of modelled components: a second account for a number that was erased,
WhatsApp or the breach template switched off while notices go out,
`eraseRecordsForPhone`, retention's other rules,
lock-out after wrong passwords, what a job takes of each material, product pages
and recommendations, the tracking of visitors across devices, time zones.
