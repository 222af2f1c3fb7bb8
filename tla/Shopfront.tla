------------------------------- MODULE Shopfront -------------------------------
(***************************************************************************)
(* What a shopper is shown (core/src/read/storefront.ts), against what the *)
(* cart then sells (core/src/read/cart.ts): the card of a product, lists   *)
(* with their filters, sorts and facets, and the search box, whose answers *)
(* are kept for a while by the server that gave them.                      *)
(***************************************************************************)
EXTENDS Integers, Sequences, FiniteSets, FiniteSetsExt, SequencesExt

CONSTANTS
    Cards,          \* products
    Sizes,          \* variants each may have
    SizeKinds,      \* what a variant may be like
    Brands,         \* brands
    HiddenBrands,   \* those switched off
    SuggestTake,    \* rows the search box asks for
    SuggestTTL,     \* SUGGEST_TTL_MS
    MaxShelfEdits,  \* bound: products saved
    MaxMinutes      \* bound: time

ASSUME ShopfrontAssumption ==
    /\ \A k \in SizeKinds : /\ k.price \in Nat \ {0} /\ k.stock \in Nat
                            /\ {k.active, k.tracked, k.more} \subseteq BOOLEAN
    /\ HiddenBrands \subseteq Brands
    /\ {SuggestTake, SuggestTTL, MaxShelfEdits, MaxMinutes} \subseteq Nat

VARIABLES
    card,        \* Product: status, brand, variants
    recent,      \* products, most recently touched first
    cached,      \* the suggestions a server keeps, and since when
    answer,      \* what the search box was last told, and what it would be told now
    minute,      \* the time
    edited,      \* when a product was last saved
    shelfEdits   \* products saved

shopfrontVars == <<card, recent, cached, answer, minute, edited, shelfEdits>>

NoBrand == "none"
NoPrice == 0

CardRecords == [status : {"DRAFT", "ACTIVE"}, brand : Brands \cup {NoBrand}, sizes : [Sizes -> SizeKinds]]

ShopfrontInit ==
    /\ card = [i \in Cards |-> CHOOSE c \in CardRecords : c.status = "ACTIVE"]
    /\ recent = SetToSeq(Cards)
    /\ cached = [at |-> 0, rows |-> <<>>, held |-> FALSE]
    /\ answer = [rows |-> <<>>, now |-> <<>>, since |-> 0]
    /\ minute = 1
    /\ edited = 0
    /\ shelfEdits = 0

-----------------------------------------------------------------------------
(* Cards *)

Visible(i) == card[i].status = "ACTIVE"

\* canFulfil
SizeFulfils(k, quantity) == ~k.tracked \/ k.more \/ k.stock >= quantity

Offered(i) == {s \in Sizes : card[i].sizes[s].active}
Sellable(i) == {s \in Offered(i) : SizeFulfils(card[i].sizes[s], 1)}

Cheapest(i, sizes) == IF sizes = {} THEN NoPrice ELSE Min({card[i].sizes[s].price : s \in sizes})

\* toCardDto: the cheapest sellable size, and its own "Add" when there is one.
CardOf(i) ==
    LET pool == IF Sellable(i) # {} THEN Sellable(i) ELSE Offered(i)
    IN  [price |-> Cheapest(i, pool), inStock |-> Sellable(i) # {},
         variant |-> IF Cardinality(Sellable(i)) = 1 THEN Sellable(i) ELSE {}]

\* priceCart: what becomes of a line of one unit.
CartLine(i, s) ==
    IF ~Visible(i) \/ ~card[i].sizes[s].active THEN "GONE"
    ELSE IF ~SizeFulfils(card[i].sizes[s], 1) THEN "OUT_OF_STOCK"
    ELSE "KEPT"

-----------------------------------------------------------------------------
(* Lists *)

Queries == [brands : SUBSET Brands, inStockOnly : BOOLEAN, max : {k.price : k \in SizeKinds} \cup {NoPrice}]

\* Mutant: any active size counts as in stock when it may be ordered on.
MutantInStockFilter(i) == \E s \in Offered(i) : ~card[i].sizes[s].tracked \/ card[i].sizes[s].stock > 0

InStockFilter(i) ==
    \E s \in Offered(i) : LET k == card[i].sizes[s] IN ~k.tracked \/ k.more \/ k.stock > 0

\* narrowBy, on top of VISIBLE_PRODUCT.
Listed(query) ==
    {i \in Cards :
        /\ Visible(i)
        /\ query.brands # {} => card[i].brand \in query.brands
        /\ query.max # NoPrice => \E s \in Offered(i) : card[i].sizes[s].price <= query.max
        /\ query.inStockOnly => InStockFilter(i)}

\* facetsFor: how many results each brand has; brands switched off are left out.
BrandCount(query, b) == Cardinality({i \in Listed(query) : card[i].brand = b})

BrandFacets(query) == {b \in Brands \ HiddenBrands : BrandCount(query, b) > 0}

-----------------------------------------------------------------------------
(* The search box *)

\* loadSuggestRows: most recently touched first, at their lowest active price.
FreshSuggestions ==
    LET shown == SelectSeq(recent, LAMBDA i : Visible(i))
        first == SubSeq(shown, 1, Min({SuggestTake, Len(shown)}))
    IN  [n \in DOMAIN first |-> [card |-> first[n], price |-> Cheapest(first[n], Offered(first[n]))]]

\* suggestProducts
Suggest ==
    LET hit == cached.held /\ minute - cached.at < SuggestTTL
        rows == IF hit THEN cached.rows ELSE FreshSuggestions
    IN  /\ cached' = IF hit THEN cached ELSE [at |-> minute, rows |-> rows, held |-> TRUE]
        /\ answer' = [rows |-> rows, now |-> FreshSuggestions, since |-> minute - edited]
        /\ UNCHANGED <<card, recent, minute, edited, shelfEdits>>

\* The back office saves a product.
SaveCard(i, record) ==
    /\ shelfEdits < MaxShelfEdits
    /\ shelfEdits' = shelfEdits + 1
    /\ card' = [card EXCEPT ![i] = record]
    /\ recent' = <<i>> \o SelectSeq(recent, LAMBDA j : j # i)
    /\ edited' = minute
    /\ UNCHANGED <<cached, answer, minute>>

MinutePasses ==
    /\ minute < MaxMinutes
    /\ minute' = minute + 1
    /\ UNCHANGED <<card, recent, cached, answer, edited, shelfEdits>>

ShopfrontNext ==
    \/ Suggest
    \/ \E i \in Cards, record \in CardRecords : SaveCard(i, record)
    \/ MinutePasses

-----------------------------------------------------------------------------

ShopfrontTypeOK ==
    /\ card \in [Cards -> CardRecords]
    /\ ToSet(recent) = Cards /\ Len(recent) = Cardinality(Cards)
    /\ cached.at \in 0..MaxMinutes /\ Len(cached.rows) <= SuggestTake
    /\ minute \in 1..MaxMinutes /\ edited \in 0..minute

\* A card promises what the cart keeps: it is in stock when a size can be
\* bought, its price is that of the cheapest such size, and the size it adds by
\* itself is the only one the cart would take (storefront.ts:264-269).
CardIsWhatTheCartSells ==
    \A i \in Cards : Visible(i) =>
       LET shown == CardOf(i)
           kept  == {s \in Sizes : CartLine(i, s) = "KEPT"}
       IN  /\ shown.inStock <=> kept # {}
           /\ shown.inStock => shown.price = Cheapest(i, kept)
           /\ shown.variant # {} => shown.variant = kept

\* The filter for what is in stock shows the products whose card says so.
StockFilterIsTheCard ==
    \A query \in Queries : query.inStockOnly =>
        Listed(query) = {i \in Listed([query EXCEPT !.inStockOnly = FALSE]) : CardOf(i).inStock}

\* The number beside a brand is how many products ticking it shows.
FacetsCountTheirResults ==
    \A query \in Queries : query.brands = {} =>
        \A b \in BrandFacets(query) : BrandCount(query, b) = Cardinality(Listed([query EXCEPT !.brands = {b}]))

\* The search box is behind the shop by less than the time its answers are
\* kept (storefront.ts:825-829).
SuggestionsAreYoung == answer.rows # answer.now => answer.since < SuggestTTL

=============================================================================
