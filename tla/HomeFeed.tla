------------------------------- MODULE HomeFeed -------------------------------
(***************************************************************************)
(* One request for the home page (core/src/read/storefront.ts: getHomeFeed, *)
(* resolveSection, distancePricerFor).  Its sections are resolved side by   *)
(* side, each reading its own products, and share one pricer, which reads   *)
(* the warehouses stocking a product once and lets every other section that *)
(* shows the product wait for that read.  Products are archived and         *)
(* restocked meanwhile.                                                     *)
(***************************************************************************)
EXTENDS Integers, Sequences, FiniteSets, FiniteSetsExt, SequencesExt

CONSTANTS
    Tiles,         \* products priced by distance, of one variant each
    Depots,        \* active warehouses
    Way,           \* how far each is from the shopper
    Bands,         \* the sections of the page, in the owner's order
    MaxFeedEdits   \* bound: changes made during the request

ASSUME HomeFeedAssumption ==
    /\ Way \in [Depots -> Nat] /\ Depots # {}
    /\ \A n \in DOMAIN Bands : /\ Bands[n].kind \in {"CAROUSEL", "TRENDING", "LATEST", "TRUST_STRIP"}
                               /\ Bands[n].wanted \in Seq(Tiles) /\ Bands[n].limit \in Nat
    /\ MaxFeedEdits \in Nat

VARIABLES
    onShow,      \* products that are ACTIVE
    stocking,    \* the warehouses stocking each product's variant
    promises,    \* settings: what the shop can keep
    band,        \* each section: how far it is, and what it shows
    pending,     \* the pricer: the load each variant is of
    loads,       \* the pricer's reads of who stocks what
    fallback,    \* loadShared: not begun, being read, or read
    stockedBy,   \* the pricer: what its reads found
    feedEdits    \* changes made meanwhile

feedVars == <<onShow, stocking, promises, band, pending, loads, fallback, stockedBy, feedEdits>>

Sections == DOMAIN Bands
NoLoad == 0
Unready == [stage |-> "START", rows |-> <<>>, awaits |-> {}, cards |-> <<>>, markers |-> {}]

HomeFeedInit ==
    /\ onShow = Tiles
    /\ stocking \in [Tiles -> {{}} \cup {{d} : d \in Depots}]
    /\ promises = {"cod", "cashback"}
    /\ band = [n \in Sections |-> Unready]
    /\ pending = [i \in Tiles |-> NoLoad]
    /\ loads = <<>>
    /\ fallback = "NOT_BEGUN"
    /\ stockedBy = [i \in Tiles |-> {}]
    /\ feedEdits = 0

-----------------------------------------------------------------------------
(* The sections' own reads *)

\* The products of a list that are ACTIVE, in its order.
Visibles(products) ==
    LET kept[k \in 0..Len(products)] ==
            IF k = 0 THEN <<>>
            ELSE IF products[k] \in onShow THEN Append(kept[k - 1], products[k]) ELSE kept[k - 1]
    IN  kept[Len(products)]

FirstFew(products, count) == SubSeq(products, 1, Min({count, Len(products)}))

\* What a section reads: a carousel its products in the owner's order, the
\* latest ones as many as it shows, and the trending ones out of twice as many.
TilesOf(n) ==
    LET b == Bands[n]
    IN  CASE b.kind = "CAROUSEL" -> Visibles(b.wanted)
          [] b.kind = "LATEST"   -> FirstFew(Visibles(b.wanted), b.limit)
          [] b.kind = "TRENDING" -> FirstFew(Visibles(FirstFew(b.wanted, 2 * b.limit)), b.limit)
          [] OTHER               -> <<>>

-----------------------------------------------------------------------------
(* The pricer *)

\* prime: the loads of every variant on show, whoever began them.
Awaited(ids, known) == {known[i] : i \in ids}

Fresh(ids) == {i \in ids : pending[i] = NoLoad}

Begun(fresh) == IF fresh = {} THEN loads ELSE Append(loads, [of |-> fresh, stage |-> "READING"])

\* additionFor: from the nearest warehouse known to stock it, or of them all.
AdditionFor(i) ==
    LET from == IF stockedBy[i] # {} THEN stockedBy[i] ELSE IF fallback = "READ" THEN Depots ELSE {}
    IN  IF from = {} THEN 0 ELSE Min({Way[d] : d \in from})

-----------------------------------------------------------------------------
(* Steps *)

\* A section reads its products, and primes the pricer for them in one go.
ReadSection(n) ==
    LET rows  == TilesOf(n)
        fresh == Fresh(ToSet(rows))
        known == [i \in Tiles |-> IF i \in fresh THEN Len(loads) + 1 ELSE pending[i]]
    IN  /\ band[n].stage = "START"
        /\ Bands[n].kind # "TRUST_STRIP"
        /\ band' = [band EXCEPT ![n].rows = rows, ![n].awaits = Awaited(ToSet(rows), known),
                                ![n].stage = IF rows = <<>> THEN "DROPPED" ELSE "PRIMING"]
        /\ pending' = known
        /\ loads' = Begun(fresh)
        /\ fallback' = IF fresh # {} /\ fallback = "NOT_BEGUN" THEN "READING" ELSE fallback
        /\ UNCHANGED <<onShow, stocking, promises, stockedBy, feedEdits>>

\* findStockingWarehouses answers one load.
FindStocking(l) ==
    /\ loads[l].stage = "READING"
    /\ loads' = [loads EXCEPT ![l] = [of |-> @.of, stage |-> "FOUND", found |-> [i \in @.of |-> stocking[i]]]]
    /\ UNCHANGED <<onShow, stocking, promises, band, pending, fallback, stockedBy, feedEdits>>

\* loadDeliveryRules and findActiveWarehouses.
LoadShared ==
    /\ fallback = "READING"
    /\ fallback' = "READ"
    /\ UNCHANGED <<onShow, stocking, promises, band, pending, loads, stockedBy, feedEdits>>

\* A load is in when both reads are.
Land(l) ==
    /\ loads[l].stage = "FOUND" /\ fallback = "READ"
    /\ stockedBy' = [i \in Tiles |-> IF i \in loads[l].of THEN loads[l].found[i] ELSE stockedBy[i]]
    /\ loads' = [loads EXCEPT ![l].stage = "LANDED"]
    /\ UNCHANGED <<onShow, stocking, promises, band, pending, fallback, feedEdits>>

\* toCardDto, once everything the section awaits is in.
MapSection(n) ==
    /\ band[n].stage = "PRIMING"
    /\ \A l \in band[n].awaits : l \in DOMAIN loads /\ loads[l].stage = "LANDED"
    /\ band' = [band EXCEPT ![n].stage = "SHOWN",
                            ![n].cards = [k \in DOMAIN band[n].rows |->
                                [product |-> band[n].rows[k], addition |-> AdditionFor(band[n].rows[k])]]]
    /\ UNCHANGED <<onShow, stocking, promises, pending, loads, fallback, stockedBy, feedEdits>>

\* TRUST_STRIP: the promises the owner ticked that the shop still keeps.
ShowTrust(n) ==
    LET kept == {"gst"} \cup promises
    IN  /\ band[n].stage = "START" /\ Bands[n].kind = "TRUST_STRIP"
        /\ band' = [band EXCEPT ![n].markers = kept, ![n].stage = IF kept = {} THEN "DROPPED" ELSE "SHOWN"]
        /\ UNCHANGED <<onShow, stocking, promises, pending, loads, fallback, stockedBy, feedEdits>>

ArchiveTile(i) ==
    /\ feedEdits < MaxFeedEdits /\ i \in onShow
    /\ onShow' = onShow \ {i}
    /\ feedEdits' = feedEdits + 1
    /\ UNCHANGED <<stocking, promises, band, pending, loads, fallback, stockedBy>>

Restock(i, depots) ==
    /\ feedEdits < MaxFeedEdits
    /\ stocking' = [stocking EXCEPT ![i] = depots]
    /\ feedEdits' = feedEdits + 1
    /\ UNCHANGED <<onShow, promises, band, pending, loads, fallback, stockedBy>>

\* Cash on delivery, or cashback, is switched off.
StopPromising(marker) ==
    /\ feedEdits < MaxFeedEdits /\ marker \in promises
    /\ promises' = promises \ {marker}
    /\ feedEdits' = feedEdits + 1
    /\ UNCHANGED <<onShow, stocking, band, pending, loads, fallback, stockedBy>>

HomeFeedNext ==
    \/ \E n \in Sections : ReadSection(n) \/ MapSection(n) \/ ShowTrust(n)
    \/ \E l \in DOMAIN loads : FindStocking(l) \/ Land(l)
    \/ LoadShared
    \/ \E i \in Tiles : ArchiveTile(i) \/ \E d \in Depots : Restock(i, {d})
    \/ \E marker \in promises : StopPromising(marker)

\* Every read is answered, and a section goes on when it can.
HomeFeedFairness ==
    /\ \A n \in Sections : WF_feedVars(ReadSection(n) \/ MapSection(n) \/ ShowTrust(n))
    /\ \A l \in 1..Cardinality(Tiles) * Len(Bands) :
          WF_feedVars(l \in DOMAIN loads /\ (FindStocking(l) \/ Land(l)))
    /\ WF_feedVars(LoadShared)

-----------------------------------------------------------------------------

HomeFeedTypeOK ==
    /\ onShow \subseteq Tiles /\ promises \subseteq {"cod", "cashback"} /\ feedEdits \in 0..MaxFeedEdits
    /\ \A n \in Sections : band[n].stage \in {"START", "PRIMING", "SHOWN", "DROPPED"}
    /\ pending \in [Tiles -> Nat]
    /\ fallback \in {"NOT_BEGUN", "READING", "READ"}
    /\ stockedBy \in [Tiles -> SUBSET Depots]

Shown(n) == ToSet(band[n].cards)

\* A page says one price for a product, however many of its sections show it
\* and whatever moves while they are resolved (storefront.ts:213-217).
OnePriceAPage ==
    \A m, n \in Sections : \A a \in Shown(m), b \in Shown(n) :
        a.product = b.product => a.addition = b.addition

\* Nothing is priced from the nearest warehouse of all when the page knew, or
\* was about to know, one that stocks it.
PricedFromItsOwn ==
    \A n \in Sections : \A c \in Shown(n) :
        \E l \in DOMAIN loads :
            /\ loads[l].stage \in {"FOUND", "LANDED"} /\ c.product \in loads[l].of
            /\ c.addition = Min({Way[d] : d \in IF loads[l].found[c.product] = {} THEN Depots
                                                ELSE loads[l].found[c.product]})

\* The stocking of a variant is read once a page (storefront.ts:187-190).
StockingReadOnce ==
    \A i \in Tiles : Cardinality({l \in DOMAIN loads : i \in loads[l].of}) <= 1

\* No section waits for ever on a read it left to another: a page that has begun
\* to read is answered.
PageIsAnswered ==
    (\E n \in Sections : band[n].stage = "PRIMING") ~>
        (\A n \in Sections : band[n].stage \in {"SHOWN", "DROPPED"})

-----------------------------------------------------------------------------
(* Why it holds.                                                           *)

PricedTiles == [product : Tiles, addition : Nat]

BandKind ==
    [stage : {"START", "PRIMING", "SHOWN", "DROPPED"}, rows : Seq(Tiles), awaits : SUBSET Nat,
     cards : Seq(PricedTiles), markers : SUBSET {"gst", "cod", "cashback"}]

Finds == UNION {[ids -> SUBSET Depots] : ids \in SUBSET Tiles}

LoadKind ==
    [of : SUBSET Tiles, stage : {"READING"}]
    \cup [of : SUBSET Tiles, stage : {"FOUND", "LANDED"}, found : Finds]

FeedTyped ==
    /\ HomeFeedTypeOK
    /\ stocking \in [Tiles -> SUBSET Depots]
    /\ band \in [Sections -> BandKind]
    /\ loads \in Seq(LoadKind)

LoadOf(i) == loads[pending[i]]
Arrived(i) == pending[i] # NoLoad /\ LoadOf(i).stage = "LANDED"

\* A product is of the one load its variant waits for, and once that has landed the
\* pricer knows what it found.
LoadsHold ==
    /\ \A l \in DOMAIN loads :
          /\ loads[l].stage # "READING" => loads[l].found \in [loads[l].of -> SUBSET Depots]
          /\ loads[l].stage = "LANDED" => fallback = "READ"
    /\ \A i \in Tiles : pending[i] \in 0..Len(loads)
    /\ \A i \in Tiles, l \in DOMAIN loads : i \in loads[l].of <=> pending[i] = l
    /\ \A i \in Tiles : stockedBy[i] = IF Arrived(i) THEN LoadOf(i).found[i] ELSE {}

\* What a product costs more from the warehouses that stock it, or from any.
NearestOf(depots) == Min({Way[d] : d \in IF depots = {} THEN Depots ELSE depots})

\* A card says of a product what its load found, and a section that waits does so
\* for the loads of all it will show.
BandsHold ==
    \A n \in Sections :
        /\ \A c \in Shown(n) : Arrived(c.product) /\ c.addition = NearestOf(LoadOf(c.product).found[c.product])
        /\ band[n].stage = "PRIMING" =>
              \A i \in ToSet(band[n].rows) : pending[i] # NoLoad /\ pending[i] \in band[n].awaits

FeedInv == FeedTyped /\ LoadsHold /\ BandsHold

=============================================================================
