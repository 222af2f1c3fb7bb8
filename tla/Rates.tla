--------------------------------- MODULE Rates ---------------------------------
(***************************************************************************)
(* A variant's price and its ladder of bulk rates, and the three screens   *)
(* that write them: the morning rates (saveRates), the bulk rates          *)
(* (saveBulkTiers), both of core/src/write/stock.ts, and the product form  *)
(* (persistVariants of write/products.ts).  Each checks the ladder against *)
(* a price before its transaction, and says in PriceHistory what it did.   *)
(*                                                                         *)
(* A ladder is its highest bulk rate: the first rung, which every other    *)
(* rung is below, decides whether the ladder is below the price.           *)
(***************************************************************************)
EXTENDS Integers

CONSTANTS
    Variants,
    MaxRate,       \* bound: prices and rates
    WholeRates,    \* those of whole rupees: "410" in the database, "410.00" in a form
    Screens,       \* saves at work
    RatesOverlap,  \* may two saves overlap?
    MaxSaves       \* bound: saves, in all

ASSUME RatesAssumption ==
    /\ MaxRate \in Nat \ {0}
    /\ WholeRates \subseteq 1..MaxRate
    /\ RatesOverlap \in BOOLEAN
    /\ MaxSaves \in Nat

VARIABLES
    tariff,   \* price and ladder of each variant
    history,  \* its latest PriceHistory row
    screen,   \* what each save is doing
    saves     \* saves begun so far

ratesVars == <<tariff, history, screen, saves>>

NoLadder == 0
AsBefore == -1    \* saveRates of a price alone: no ladder is sent

Tariffs == [price : 1..MaxRate, ladder : 0..MaxRate]

HistorySources == {"PRODUCT_FORM", "RATES_SCREEN"}

IdleScreen == [at |-> "idle", variant |-> "none", price |-> 0, ladder |-> 0,
               stored |-> [price |-> 0, ladder |-> 0]]

RatesInit ==
    /\ \E price \in 2..MaxRate : tariff = [v \in Variants |-> [price |-> price, ladder |-> NoLadder]]
    /\ history = [v \in Variants |-> [source |-> "PRODUCT_FORM", price |-> tariff[v].price, rows |-> 0]]
    /\ screen = [s \in Screens |-> IdleScreen]
    /\ saves = 0

\* validateTierLadder: every rung below the price.
LadderFits(price, ladder) == ladder = NoLadder \/ ladder < price

Submit(s, kind, v, price, ladder) ==
    /\ screen[s] = IdleScreen
    /\ RatesOverlap \/ \A other \in Screens : screen[other] = IdleScreen
    /\ saves < MaxSaves
    /\ saves' = saves + 1
    /\ screen' = [screen EXCEPT ![s] = [at |-> kind, variant |-> v, price |-> price,
                                        ladder |-> ladder, stored |-> tariff[v]]]
    /\ UNCHANGED <<tariff, history>>

-----------------------------------------------------------------------------

\* saveRates checks the ladder sent, or the stored one under the new price.
OpenRates(s, v, price, ladder) ==
    /\ ladder # AsBefore => LadderFits(price, ladder)
    /\ ladder = AsBefore /\ price # tariff[v].price => LadderFits(price, tariff[v].ladder)
    /\ Submit(s, "rates", v, price, ladder)

\* saveBulkTiers checks the ladder against the stored price.
OpenBulk(s, v, ladder) ==
    /\ LadderFits(tariff[v].price, ladder)
    /\ Submit(s, "bulk", v, tariff[v].price, ladder)

\* The product form sends both, and checks one against the other.
OpenForm(s, v, price, ladder) ==
    /\ LadderFits(price, ladder)
    /\ Submit(s, "form", v, price, ladder)

PriceMoved(s) == screen[s].price # screen[s].stored.price

\* Mutant: a ladder that is not sent counts as moved.
MutantLadderMoved(s) == screen[s].ladder # screen[s].stored.ladder

\* A ladder that is not sent (undefined, not null) has not moved.
LadderMoved(s) == screen[s].ladder \notin {AsBefore, screen[s].stored.ladder}

\* A row of history: the ladder is left out of it when it did not change.
HistoryRow(v, source, price) == [source |-> source, price |-> price, rows |-> history[v].rows + 1]

CloseScreen(s) == screen' = [screen EXCEPT ![s] = IdleScreen] /\ UNCHANGED saves

\* Mutant: the row carries the price that was stored.
MutantRowPrice(s) == screen[s].stored.price

RowPrice(s) == IF PriceMoved(s) THEN screen[s].price ELSE screen[s].stored.price

\* Only what differs from what was read is written.
CommitRates(s) ==
    /\ screen[s].at \in {"rates", "bulk"}
    /\ LET v == screen[s].variant
       IN  IF ~ PriceMoved(s) /\ ~ LadderMoved(s) THEN UNCHANGED <<tariff, history>>
           ELSE /\ tariff' = [tariff EXCEPT
                      ![v] = [price |-> IF PriceMoved(s) THEN screen[s].price ELSE @.price,
                              ladder |-> IF LadderMoved(s) THEN screen[s].ladder ELSE @.ladder]]
                /\ history' = [history EXCEPT ![v] = HistoryRow(v, "RATES_SCREEN", RowPrice(s))]
    /\ CloseScreen(s)

\* The form writes both whatever it read, and compares the text of the prices.
FormSeesChange(s) ==
    PriceMoved(s) \/ screen[s].price \in WholeRates \/ LadderMoved(s)

CommitForm(s) ==
    /\ screen[s].at = "form"
    /\ LET v == screen[s].variant
       IN  /\ tariff' = [tariff EXCEPT ![v] = [price |-> screen[s].price, ladder |-> screen[s].ladder]]
           /\ history' = IF FormSeesChange(s)
                         THEN [history EXCEPT ![v] = HistoryRow(v, "PRODUCT_FORM", screen[s].price)]
                         ELSE history
    /\ CloseScreen(s)

RatesNext ==
    \/ \E s \in Screens, v \in Variants, price \in 1..MaxRate, ladder \in 0..MaxRate :
          OpenRates(s, v, price, ladder) \/ OpenForm(s, v, price, ladder)
    \/ \E s \in Screens, v \in Variants, price \in 1..MaxRate : OpenRates(s, v, price, AsBefore)
    \/ \E s \in Screens, v \in Variants, ladder \in 0..MaxRate : OpenBulk(s, v, ladder)
    \/ \E s \in Screens : CommitRates(s) \/ CommitForm(s)

RatesSpec == RatesInit /\ [][RatesNext]_ratesVars

-----------------------------------------------------------------------------
(* What the screens promise.                                               *)

RatesTypeOK ==
    /\ tariff \in [Variants -> Tariffs]
    /\ history \in [Variants -> [source : HistorySources, price : 1..MaxRate, rows : Nat]]
    /\ screen \in [Screens -> [at : {"idle", "rates", "bulk", "form"}, variant : Variants \cup {"none"},
                               price : 0..MaxRate, ladder : -1..MaxRate,
                               stored : [price : 0..MaxRate, ladder : 0..MaxRate]]]
    /\ saves \in 0..MaxSaves

\* No price is left at or under its bulk rate, whichever screen moved which of
\* them, saves following one another (a "rung the pricing engine silently
\* skips", saveRates).
LadderBelowPrice == \A v \in Variants : LadderFits(tariff[v].price, tariff[v].ladder)

\* The latest row of the history tells the price that is charged, though
\* saves of a ladder write rows too ("why did this price move").
HistoryTellsThePrice == \A v \in Variants : history[v].price = tariff[v].price

\* The rates screens write a row only of a change ("a PriceHistory entry
\* recording no change" is what their comparison is for).
RateRowsRecordChanges ==
    [][\A v \in Variants :
          history'[v] # history[v] /\ history'[v].source = "RATES_SCREEN" => tariff'[v] # tariff[v]]_ratesVars
-----------------------------------------------------------------------------
(* Why it holds: saves follow one another, so what a save checked its      *)
(* ladder against is still what is stored.                                 *)

OneScreen == \A s, w \in Screens : screen[s].at # "idle" /\ screen[w].at # "idle" => s = w

\* What a save holds was checked when it was opened.
Checked(s) ==
    LET now == tariff[screen[s].variant]
    IN  /\ screen[s].variant \in Variants /\ screen[s].price \in 1..MaxRate
        /\ screen[s].stored = now
        /\ screen[s].at # "rates" => screen[s].ladder # AsBefore
        /\ screen[s].at = "bulk" => screen[s].price = now.price
        /\ screen[s].ladder # AsBefore => LadderFits(screen[s].price, screen[s].ladder)
        /\ screen[s].ladder = AsBefore => LadderFits(screen[s].price, now.ladder)

WasChecked == \A s \in Screens : screen[s].at # "idle" => Checked(s)

RatesInv == RatesTypeOK /\ OneScreen /\ WasChecked /\ LadderBelowPrice /\ HistoryTellsThePrice
=============================================================================
