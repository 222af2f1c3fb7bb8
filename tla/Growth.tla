-------------------------------- MODULE Growth --------------------------------
(***************************************************************************)
(* Two ways the shop meets those it does not serve yet: a quote for a job  *)
(* still on paper, and word of an area still to come.  They share no row.  *)
(***************************************************************************)
EXTENDS Integers, FiniteSets, FiniteSetsExt

-----------------------------------------------------------------------------
(* Get a quote: from jobs to a priced list of materials (shared            *)
(* material-estimator.ts, core/src/read/quote.ts), by what the shop offers *)
(* for each material (core/src/write/quote-materials.ts).  An estimate     *)
(* reads the offers, then the cart that prices them; saving an offer reads *)
(* where its material ends, then writes.  What one job takes of each       *)
(* material is given; quantities are the stored column's thousandths.      *)

CONSTANTS
    Materials,      \* QUOTE_MATERIALS in use
    ByThePiece,     \* those counted in pieces
    Jobs,           \* each [Materials -> what it takes]
    Offerable,      \* variants
    Covers,         \* what one sale unit may cover
    SixPlaces,      \* sale units are rounded to one part in so many before they are rounded up
    MaxLineQty,     \* QUOTE_MAX_LINE_QTY
    Picks,          \* each [variant, typed]: a shopper's choice, and the quantity typed or -1
    Offerers,       \* admin calls that may be under way together
    MaxQuoteCalls,  \* bound: admin calls and estimates
    MaxShelfTurns   \* bound: stock changes

ASSUME QuoteAssumption ==
    /\ ByThePiece \subseteq Materials /\ Covers \subseteq Nat /\ SixPlaces \in Nat \ {0}
    /\ \A j \in Jobs : \A m \in Materials : j[m] \in Nat
    /\ MaxLineQty \in Nat /\ \A p \in Picks : p.typed \in Nat \cup {-1}

NoOne == "none"
NotOffered == [material |-> NoOne, cover |-> 0, position |-> 0, made |-> 0]
NotOffering == [at |-> "idle", row |-> NotOffered, variant |-> NoOne, thinned |-> FALSE]
NoPick == [variant |-> NoOne, typed |-> -1]
NoPlan == [status |-> "NO_PRODUCT", variant |-> NoOne, cover |-> 0, units |-> 0, typed |-> FALSE]

VARIABLES
    offers,    \* QuoteMaterialOption, at most one of a variant
    onSale,    \* variants that are live, and of those the ones in stock
    offering,  \* admin calls under way, and what they read
    estimate,  \* the shopper's: how far it is, the jobs, the picks, the plan
    quoteCalls, shelfTurns

quoteVars == <<offers, onSale, offering, estimate, quoteCalls, shelfTurns>>

-----------------------------------------------------------------------------
(* The estimate.                                                           *)

RoundUp(a, b) == (a + b - 1) \div b
Nearest(a, b) == (2 * a + b) \div (2 * b)

\* estimateMaterials: merged by material before anything is rounded; whole
\* pieces only.
Needs(jobs) ==
    [m \in Materials |->
        LET all == MapThenSumSet(LAMBDA j : j[m], jobs)
        IN IF m \in ByThePiece THEN RoundUp(all, 1000) * 1000 ELSE all]

\* saleUnitsFor: six places first.
SaleUnits(need, cover) ==
    IF cover = 0 THEN 0 ELSE RoundUp(Nearest(need * SixPlaces, cover), SixPlaces)

\* The admin's order: by position, then by age.
Before(v, w) ==
    offers[v].position < offers[w].position
        \/ (offers[v].position = offers[w].position /\ offers[v].made < offers[w].made)

First(vs) == CHOOSE v \in vs : \A w \in vs \ {v} : Before(v, w)

\* optionsFor: live ones only.
OnOffer(m) == {v \in Offerable : offers[v].material = m /\ onSale[v] # "gone"}
InStock(v) == onSale[v] = "stocked"

\* Their choice if it is still on offer, else the first that can be sold; a
\* quantity they typed stays, whichever it is.
PlanLine(m, need, pick) ==
    LET stocked == {v \in OnOffer(m) : InStock(v)}
        v == IF pick.variant \in OnOffer(m) THEN pick.variant ELSE First(stocked)
        units == IF pick.typed >= 0 THEN pick.typed ELSE SaleUnits(need, offers[v].cover)
        status == IF units = 0 THEN "REMOVED"
                  ELSE IF ~InStock(v) THEN "OUT_OF_STOCK"
                  ELSE IF units > MaxLineQty THEN "OVER_LIMIT" ELSE "PRICED"
    IN IF OnOffer(m) = {} THEN NoPlan
       ELSE IF pick.variant \notin OnOffer(m) /\ stocked = {} THEN [NoPlan EXCEPT !.status = "OUT_OF_STOCK"]
       ELSE [status |-> status, variant |-> v, cover |-> offers[v].cover, units |-> units, typed |-> pick.typed >= 0]

NoEstimate == [at |-> "none", jobs |-> {}, plan |-> [m \in {} |-> NoPlan]]

QuoteInit ==
    /\ offers = [v \in Offerable |-> NotOffered]
    /\ onSale = [v \in Offerable |-> "stocked"]
    /\ offering = [c \in Offerers |-> NotOffering]
    /\ estimate = NoEstimate
    /\ quoteCalls = 0 /\ shelfTurns = 0

CountCall == quoteCalls < MaxQuoteCalls /\ quoteCalls' = quoteCalls + 1

\* estimateQuote, up to the cart: a line for every material the jobs take.
AskEstimate(jobs, picks) ==
    LET needs == Needs(jobs)
        taken == {m \in Materials : needs[m] > 0}
    IN  /\ estimate.at # "planned" /\ jobs # {} /\ CountCall
        /\ estimate' = [at |-> "planned", jobs |-> jobs,
                        plan |-> [m \in taken |-> PlanLine(m, needs[m], picks[m])]]
        /\ UNCHANGED <<offers, onSale, offering, shelfTurns>>

\* priceCart and after it: what the cart dropped meanwhile is out of stock.
PriceEstimate ==
    /\ estimate.at = "planned"
    /\ estimate' = [estimate EXCEPT !.at = "priced",
           !.plan = [m \in DOMAIN estimate.plan |->
                        LET line == estimate.plan[m]
                        IN IF line.status = "PRICED" /\ ~InStock(line.variant)
                           THEN [line EXCEPT !.status = "OUT_OF_STOCK"] ELSE line]]
    /\ UNCHANGED <<offers, onSale, offering, quoteCalls, shelfTurns>>

-----------------------------------------------------------------------------
(* The offers.                                                             *)

\* Calls under way for a material know nothing of what left it since they read.
Thinned(m) ==
    [c \in Offerers |-> IF offering[c].row.material = m THEN [offering[c] EXCEPT !.thinned = TRUE]
                        ELSE offering[c]]

\* saveQuoteMaterialOption, up to its write: the end of the material.
OpenOffer(c, v, m, cover) ==
    LET there == {offers[w].position : w \in {x \in Offerable : offers[x].material = m}}
    IN  /\ offering[c].at = "idle" /\ CountCall
        /\ offering' = [offering EXCEPT ![c] =
               [at |-> "write", variant |-> v, thinned |-> FALSE,
                row |-> [material |-> m, cover |-> cover, position |-> Max(there \cup {-1}) + 1, made |-> 0]]]
        /\ UNCHANGED <<offers, onSale, estimate, shelfTurns>>

\* The upsert: a variant offered already keeps its position, whatever the
\* material it moves to.
WrittenOffer(v, row) ==
    IF offers[v] = NotOffered
    THEN [row EXCEPT !.made = 1 + Max({offers[w].made : w \in Offerable})]
    ELSE [offers[v] EXCEPT !.material = row.material, !.cover = row.cover]

CommitOffer(c) ==
    LET call == offering[c]
    IN  /\ call.at = "write"
        /\ offers' = [offers EXCEPT ![call.variant] = WrittenOffer(call.variant, call.row)]
        /\ offering' = [Thinned(IF offers[call.variant].material = call.row.material THEN NoOne
                                ELSE offers[call.variant].material) EXCEPT ![c] = NotOffering]
        /\ UNCHANGED <<onSale, estimate, quoteCalls, shelfTurns>>

\* deleteQuoteMaterialOption.
DropOffer(v) ==
    /\ offers[v] # NotOffered /\ CountCall
    /\ offers' = [offers EXCEPT ![v] = NotOffered]
    /\ offering' = Thinned(offers[v].material)
    /\ UNCHANGED <<onSale, estimate, shelfTurns>>

\* reorderQuoteMaterialOptions: those of the page that are still the material's,
\* in the places the page gave them.
ReorderOffers(m, order) ==
    /\ CountCall
    /\ offers' = [v \in Offerable |-> IF v \in DOMAIN order /\ offers[v].material = m
                                      THEN [offers[v] EXCEPT !.position = order[v]] ELSE offers[v]]
    /\ offering' = IF \A v \in DOMAIN order : offers[v].material = m THEN offering ELSE Thinned(m)
    /\ UNCHANGED <<onSale, estimate, shelfTurns>>

\* Stock moves, a product is archived or comes back.
TurnShelf(v, to) ==
    /\ shelfTurns < MaxShelfTurns /\ shelfTurns' = shelfTurns + 1
    /\ onSale[v] # to /\ onSale' = [onSale EXCEPT ![v] = to]
    /\ UNCHANGED <<offers, offering, estimate, quoteCalls>>

Orders(vs) == {f \in [vs -> 0..(Cardinality(vs) - 1)] : \A v, w \in vs : f[v] = f[w] => v = w}

QuoteNext ==
    \/ \E jobs \in SUBSET Jobs, pick \in Picks, m \in Materials :
           AskEstimate(jobs, [x \in Materials |-> IF x = m THEN pick ELSE NoPick])
    \/ PriceEstimate
    \/ \E c \in Offerers : \E v \in Offerable, m \in Materials, cover \in Covers : OpenOffer(c, v, m, cover)
    \/ \E c \in Offerers : CommitOffer(c)
    \/ \E v \in Offerable : DropOffer(v)
    \/ \E m \in Materials, vs \in SUBSET Offerable : vs # {} /\ \E order \in Orders(vs) : ReorderOffers(m, order)
    \/ \E v \in Offerable, to \in {"gone", "sold out", "stocked"} : TurnShelf(v, to)

-----------------------------------------------------------------------------

QuoteTypeOK ==
    /\ \A v \in Offerable : offers[v].material \in Materials \cup {NoOne} /\ offers[v].cover \in Covers \cup {0}
    /\ onSale \in [Offerable -> {"gone", "sold out", "stocked"}]
    /\ estimate.at \in {"none", "planned", "priced"} /\ DOMAIN estimate.plan \subseteq Materials
    /\ quoteCalls \in 0..MaxQuoteCalls /\ shelfTurns \in 0..MaxShelfTurns

\* What the jobs take together, before anything is done to it.
Taken(m) == MapThenSumSet(LAMBDA j : j[m], estimate.jobs)

Planned == {estimate.plan[m] : m \in DOMAIN estimate.plan}

\* Unless the shopper typed a number, what a line sells covers what the jobs
\* take, to the sixth place of a unit, and one unit less would not, but for the
\* piece that is cut (material-estimator.ts:339-347).
EnoughAndNoSpare ==
    \A m \in DOMAIN estimate.plan :
        LET line == estimate.plan[m]
            spare == IF m \in ByThePiece THEN 999 ELSE 0
        IN line.status \in {"PRICED", "OVER_LIMIT"} /\ ~line.typed =>
               /\ 2 * SixPlaces * line.units * line.cover >= 2 * SixPlaces * Taken(m) - line.cover
               /\ (line.units - 1) * line.cover < Taken(m) + spare

\* Jobs quoted together never take more units than quoted apart
\* (material-estimator.ts:308-310).
TogetherIsNoMore ==
    \A m \in DOMAIN estimate.plan :
        LET line == estimate.plan[m]
        IN line.variant # NoOne /\ ~line.typed =>
               line.units <= MapThenSumSet(LAMBDA j : SaleUnits(Needs({j})[m], line.cover), estimate.jobs)

\* No variant is in an estimate twice: the cart would add the two lines up.
OneLineEach ==
    \A m, n \in DOMAIN estimate.plan :
        estimate.plan[m].variant = estimate.plan[n].variant /\ estimate.plan[m].variant # NoOne => m = n

\* A line is left out only when the shopper typed nought or a unit covers
\* nothing, and priced only within the limit.
LeftOutOnPurpose ==
    \A line \in Planned :
        /\ line.status = "REMOVED" => line.typed \/ line.cover = 0
        /\ line.status = "PRICED" => line.units \in 1..MaxLineQty

\* A product newly offered is not what the calculator offers first while there
\* are others of its material, whatever is added and reordered while it is saved;
\* only what left the material meanwhile can make it so (quote-materials.ts:37-46).
NewOffersGoLast ==
    [][\A c \in Offerers :
           LET v == offering[c].variant
               others == {w \in Offerable \ {v} : offers[w].material = offers'[v].material}
           IN offering[c].at = "write" /\ offering'[c] = NotOffering /\ ~offering[c].thinned
                  /\ offers[v] = NotOffered /\ others # {} =>
              \E w \in others : offers[w].position < offers'[v].position
                                 \/ (offers[w].position = offers'[v].position /\ offers[w].made < offers'[v].made)]_quoteVars

-----------------------------------------------------------------------------
(* "Tell me when you deliver here": the areas the shop serves              *)
(* (core/src/write/growth.ts), the requests for those it does not          *)
(* (core/src/write/storefront.ts), and telling those who asked.  Asking    *)
(* reads the area before it writes; telling is three steps, and the        *)
(* process may go between any two of them.                                 *)

CONSTANTS
    Areas,           \* pincodes
    Wishers,         \* phones
    Requests,        \* PincodeRequest rows that may be made, numbered as they are
    Announcers,      \* markRequestsNotified calls that may be under way together
    MaxAreaCalls     \* bound: calls made

ASSUME AreaAssumption == Requests = 1..Cardinality(Requests) /\ MaxAreaCalls \in Nat

NotMade == [area |-> "none", phone |-> "none", asks |-> 0, notified |-> FALSE]
NotAnnouncing == [at |-> "idle", area |-> "none", pending |-> {}]

VARIABLES
    areaIs,       \* ServiceablePincode: "unlisted", "off" or "on"
    request,      \* PincodeRequest
    lastRequest,  \* the newest
    wishing,      \* asks under way: the area each found unserved, or "none"
    announcer,    \* announcements under way, and whom they listed
    handed,       \* messages handed on for each request, those with a used key dropped
    unannounced,  \* requests whose announcement died under them
    areaCalls

areaVars == <<areaIs, request, lastRequest, wishing, announcer, handed, unannounced, areaCalls>>

AreaInit ==
    /\ areaIs = [a \in Areas |-> "unlisted"]
    /\ request = [r \in Requests |-> NotMade] /\ lastRequest = 0
    /\ wishing = [w \in Wishers |-> "none"]
    /\ announcer = [c \in Announcers |-> NotAnnouncing]
    /\ handed = [r \in Requests |-> 0]
    /\ unannounced = {} /\ areaCalls = 0

CountAreaCall == areaCalls < MaxAreaCalls /\ areaCalls' = areaCalls + 1

\* savePincode, deletePincode: the pincode is unique.
SetArea(a, to) ==
    /\ CountAreaCall /\ areaIs[a] # to /\ areaIs' = [areaIs EXCEPT ![a] = to]
    /\ UNCHANGED <<request, lastRequest, wishing, announcer, handed, unannounced>>

\* requestPincode, up to its transaction: nothing is recorded for an area served.
AskForArea(w, a) ==
    /\ wishing[w] = "none" /\ CountAreaCall
    /\ wishing' = [wishing EXCEPT ![w] = IF areaIs[a] = "on" THEN "none" ELSE a]
    /\ UNCHANGED <<areaIs, request, lastRequest, announcer, handed, unannounced>>

RequestsOf(a, w) == {r \in Requests : request[r].area = a /\ request[r].phone = w}

\* The upsert on area and phone: asking again counts, and leaves isNotified as it is.
RecordWish(w) ==
    LET a == wishing[w]
        mine == RequestsOf(a, w)
    IN  /\ a # "none" /\ (mine = {} => lastRequest + 1 \in Requests)
        /\ request' = IF mine = {}
                      THEN [request EXCEPT ![lastRequest + 1] =
                               [area |-> a, phone |-> w, asks |-> 1, notified |-> FALSE]]
                      ELSE [r \in Requests |-> IF r \in mine THEN [request[r] EXCEPT !.asks = @ + 1]
                                               ELSE request[r]]
        /\ lastRequest' = IF mine = {} THEN lastRequest + 1 ELSE lastRequest
        /\ wishing' = [wishing EXCEPT ![w] = "none"]
        /\ UNCHANGED <<areaIs, announcer, handed, unannounced, areaCalls>>

\* Erasure and retention take the rows of a phone (privacy-erasure.ts, privacy-retention.ts).
ForgetWisher(w) ==
    /\ CountAreaCall
    /\ request' = [r \in Requests |-> IF request[r].phone = w THEN NotMade ELSE request[r]]
    /\ UNCHANGED <<areaIs, lastRequest, wishing, announcer, handed, unannounced>>

-----------------------------------------------------------------------------
(* markRequestsNotified.                                                   *)

Pending(a) == {r \in Requests : request[r].area = a /\ ~request[r].notified}

ListPending(c, a) ==
    /\ announcer[c].at = "idle" /\ CountAreaCall
    /\ announcer' = [announcer EXCEPT ![c] = [at |-> "listed", area |-> a, pending |-> Pending(a)]]
    /\ UNCHANGED <<areaIs, request, lastRequest, wishing, handed, unannounced>>

\* Those of the list not marked by now.
MarkPending(c) ==
    /\ announcer[c].at = "listed"
    /\ request' = [r \in Requests |-> IF r \in announcer[c].pending /\ request[r] # NotMade
                                      THEN [request[r] EXCEPT !.notified = TRUE] ELSE request[r]]
    /\ announcer' = [announcer EXCEPT ![c].at = "marked"]
    /\ UNCHANGED <<areaIs, lastRequest, wishing, handed, unannounced, areaCalls>>

\* Everyone on the list, marked by this call or another: the key is the row's,
\* and a second message of one key is not written.
AlreadyKeyed(r) == handed[r] > 0

TellPending(c) ==
    /\ announcer[c].at = "marked"
    /\ handed' = [r \in Requests |-> IF r \in announcer[c].pending /\ ~AlreadyKeyed(r)
                                     THEN handed[r] + 1 ELSE handed[r]]
    /\ announcer' = [announcer EXCEPT ![c] = NotAnnouncing]
    /\ UNCHANGED <<areaIs, request, lastRequest, wishing, unannounced, areaCalls>>

DieAnnouncing(c) ==
    /\ announcer[c].at # "idle"
    /\ unannounced' = IF announcer[c].at = "marked" THEN unannounced \cup announcer[c].pending ELSE unannounced
    /\ announcer' = [announcer EXCEPT ![c] = NotAnnouncing]
    /\ UNCHANGED <<areaIs, request, lastRequest, wishing, handed, areaCalls>>

AreaNext ==
    \/ \E a \in Areas :
           \/ \E to \in {"unlisted", "off", "on"} : SetArea(a, to)
           \/ \E w \in Wishers : AskForArea(w, a)
           \/ \E c \in Announcers : ListPending(c, a)
    \/ \E w \in Wishers : RecordWish(w) \/ ForgetWisher(w)
    \/ \E c \in Announcers : MarkPending(c) \/ TellPending(c) \/ DieAnnouncing(c)

-----------------------------------------------------------------------------

AreaTypeOK ==
    /\ areaIs \in [Areas -> {"unlisted", "off", "on"}]
    /\ \A r \in Requests :
           request[r] = NotMade \/ (request[r].area \in Areas /\ request[r].phone \in Wishers)
    /\ wishing \in [Wishers -> Areas \cup {"none"}]
    /\ \A c \in Announcers : announcer[c].pending \subseteq Requests
    /\ unannounced \subseteq Requests /\ areaCalls \in 0..MaxAreaCalls

\* However announcements overlap and often people ask, a request is told of
\* once, and a person has one request for an area (growth.ts:130, storefront.ts:37-42).
WishesToldOnce ==
    /\ \A r \in Requests : handed[r] <= 1
    /\ \A a \in Areas, w \in Wishers : Cardinality(RequestsOf(a, w)) <= 1

\* Nobody stays marked as told without being told, unless the call that marked
\* them died before it told anyone: an announcement has them in hand yet
\* (growth.ts:123-140).
MarkedAreTold ==
    \A r \in Requests :
        request[r].notified =>
            \/ handed[r] = 1
            \/ r \in unannounced
            \/ \E c \in Announcers : announcer[c].at = "marked" /\ r \in announcer[c].pending

\* Who is told had asked, and the list shows it: asking again does not reopen
\* what was answered, nor is a request made after the list told of
\* (growth.ts:118-126, storefront.ts:73).
ToldHadAsked ==
    \A r \in Requests :
        handed[r] > 0 => /\ r <= lastRequest
                         /\ request[r] # NotMade => request[r].notified

=============================================================================
