----------------------------- MODULE CreditRules -----------------------------
(***************************************************************************)
(* What an order earns and how much of it store credit pays (shared        *)
(* wallet.ts, payments.ts).  The cart, the start of a payment and the      *)
(* order's transaction each work it out anew, from the rules and the       *)
(* balance as they are by then; a payment holds its order to the figures   *)
(* it was opened with.  The lots behind the balance are in Wallet, the     *)
(* fate of the payment in PaymentSession.  Amounts are paise, rates basis  *)
(* points.                                                                 *)
(***************************************************************************)
EXTENDS Integers, FiniteSets, FiniteSetsExt

CONSTANTS
    Baskets,        \* each [base, total]: the goods after coupons, and all that is to pay
    CreditRuleSets, \* each [on, earn, slabs, spend, least, share, most], and partial COD's
                    \* [part, partLeast, partShare, partMin]
    Balances,       \* what other movements may leave in the wallet
    Shoppers,       \* checkouts of one customer
    MaxCreditEdits  \* bound: rules saved, balances moved and carts repriced

NoCap == -1   \* null

ASSUME CreditAssumption ==
    /\ \A b \in Baskets : b.base \in Nat /\ b.total \in Nat
    /\ \A r \in CreditRuleSets :
           /\ r.earn => r.slabs # {}
           /\ \A s, t \in r.slabs : s.from = t.from => s = t
           /\ \A s \in r.slabs : s.bp \in 0..10000
    /\ MaxCreditEdits \in Nat

VARIABLES
    credit,    \* the setting rewards.wallet
    purse,     \* spendable balance
    till,      \* checkouts: how far each is, and the figures it was shown and opened with
    written,   \* the order each wrote
    creditEdits

creditVars == <<credit, purse, till, written, creditEdits>>

-----------------------------------------------------------------------------
(* The arithmetic.                                                         *)

\* floorToRupee, percentOfPaise.
FloorToRupee(paise) == (paise \div 100) * 100
ShareOf(paise, bp) == (paise * bp) \div 10000
UpTo(cap, paise) == IF cap = NoCap THEN paise ELSE Min({cap, paise})

NoSlab == [from |-> 0, bp |-> 0, cap |-> NoCap]

\* pickCashbackSlab: the last of the sorted slabs that the goods reach.
PickSlab(base, r) ==
    LET reached == {s \in r.slabs : base >= s.from}
    IN IF ~r.on \/ ~r.earn \/ reached = {} THEN NoSlab
       ELSE CHOOSE s \in reached : \A t \in reached : t.from <= s.from

\* quoteCashback: the slab by all the goods, the percent of what credit did not pay.
QuoteCashback(base, applied, r) ==
    LET slab == PickSlab(base, r)
        earned == FloorToRupee(ShareOf(Max({0, base - applied}), slab.bp))
    IN IF slab.cap = NoCap THEN earned ELSE Min({earned, FloorToRupee(slab.cap)})

\* nextCashbackSlab: the first slab further up that pays more than this one.
NextSlabs(base, r) ==
    {s \in r.slabs : r.on /\ r.earn /\ s.from > base /\ s.bp > PickSlab(base, r).bp}

NextSlab(base, r) ==
    CHOOSE s \in NextSlabs(base, r) : \A t \in NextSlabs(base, r) : s.from <= t.from

\* quoteWalletRedemption: 0 when it is not eligible.
RedeemLimit(total, r) ==
    IF r.on /\ r.spend /\ total > 0 /\ total >= r.least
    THEN FloorToRupee(Min({total, UpTo(r.most, ShareOf(total, r.share))}))
    ELSE 0

Redeemed(total, balance, r) == FloorToRupee(Min({RedeemLimit(total, r), balance}))

\* quotePartialCod: 0 when an advance is not to be had.
AdvanceOf(toPay, r) ==
    LET asked == Max({((toPay * r.partShare + 999999) \div 1000000) * 100, r.partMin, 100})
    IN IF r.part /\ toPay >= r.partLeast /\ asked < toPay THEN asked ELSE 0

-----------------------------------------------------------------------------
(* Checkouts.                                                              *)

NoBasket == [base |-> 0, total |-> 0]
SomeCreditRules == CHOOSE r \in CreditRuleSets : TRUE
NotShown == [cart |-> NoBasket, under |-> SomeCreditRules, cashback |-> 0]
AtTheDoor == [at |-> "idle", cart |-> NoBasket, shown |-> NotShown, use |-> FALSE, advance |-> FALSE,
              total |-> 0, wallet |-> 0, amount |-> 0]
NotWritten == [there |-> FALSE, cart |-> NoBasket, online |-> FALSE, advance |-> FALSE,
               wallet |-> 0, paid |-> 0, cashback |-> 0, balance |-> 0, under |-> SomeCreditRules]

CreditInit ==
    /\ credit \in CreditRuleSets /\ purse \in Balances
    /\ till = [c \in Shoppers |-> AtTheDoor]
    /\ written = [c \in Shoppers |-> NotWritten]
    /\ creditEdits = 0

\* priceCart: what the cart can earn paid in full.
ViewCart(c, b) ==
    /\ till[c].at = "idle" /\ ~written[c].there
    /\ till' = [till EXCEPT ![c] = [AtTheDoor EXCEPT !.at = "viewed", !.cart = b,
                     !.shown = [cart |-> b, under |-> credit, cashback |-> QuoteCashback(b.base, 0, credit)]]]
    /\ UNCHANGED <<credit, purse, written, creditEdits>>

\* startOnlinePayment, in order: what credit pays, the advance of the rest, an
\* order credit covers, the gateway's minimum, a session.
StartPaying(c, use, advance) ==
    LET total == till[c].cart.total
        wallet == IF use THEN Redeemed(total, purse, credit) ELSE 0
        toPay == total - wallet
        amount == IF advance THEN AdvanceOf(toPay, credit) ELSE toPay
        next == IF advance /\ amount = 0 THEN "refused"
                ELSE IF amount = 0 THEN "covered"
                ELSE IF amount < 100 THEN "refused" ELSE "paying"
    IN  /\ till[c].at = "viewed" /\ (advance => credit.part)
        /\ till' = [till EXCEPT ![c] = [@ EXCEPT !.at = next, !.total = total, !.use = use,
                                            !.advance = advance, !.wallet = wallet, !.amount = amount]]
        /\ UNCHANGED <<credit, purse, written, creditEdits>>

\* writeOrder, its expectations among them: the order's own figures, not those
\* of the page, unless it was paid for against them.
Expected(c, wallet) == till[c].cart.total = till[c].total /\ wallet = till[c].wallet

WriteCredited(c, online, use, advance, paid) ==
    LET cart == till[c].cart
        wallet == IF use THEN Redeemed(cart.total, purse, credit) ELSE 0
        fits == online => Expected(c, wallet)
    IN  /\ till' = [till EXCEPT ![c].at = IF fits THEN "done" ELSE "refused"]
        /\ purse' = IF fits THEN purse - wallet ELSE purse
        /\ written' = IF fits
                      THEN [written EXCEPT ![c] =
                               [there |-> TRUE, cart |-> cart, online |-> online, advance |-> advance,
                                wallet |-> wallet, paid |-> paid, balance |-> purse, under |-> credit,
                                cashback |-> QuoteCashback(cart.base, wallet, credit)]]
                      ELSE written
        /\ UNCHANGED <<credit, creditEdits>>

\* The session's payment has arrived, or credit covered it all.
SettlePaid(c) ==
    /\ till[c].at \in {"paying", "covered"}
    /\ WriteCredited(c, TRUE, till[c].use, till[c].advance, till[c].amount)

\* placeCustomerOrder, cash on delivery.
PlaceForCash(c, use) == till[c].at = "viewed" /\ WriteCredited(c, FALSE, use, FALSE, 0)

\* The customer gives up, or goes back to the cart.
LeaveTill(c) ==
    /\ till[c].at \in {"viewed", "paying", "refused"}
    /\ till' = [till EXCEPT ![c] = AtTheDoor]
    /\ UNCHANGED <<credit, purse, written, creditEdits>>

-----------------------------------------------------------------------------
(* What may change meanwhile.                                              *)

Counted == creditEdits < MaxCreditEdits /\ creditEdits' = creditEdits + 1

\* saveWalletRules; slabs are kept sorted, no two from one amount.
SaveRules(r) == Counted /\ credit' = r /\ UNCHANGED <<purse, till, written>>

\* Cashback released, credit given or taken, a lot expired (Wallet).
MovePurse(p) == Counted /\ purse' = p /\ UNCHANGED <<credit, till, written>>

\* A price or a charge changes what the cart comes to (Pricing).
Reprice(c, b) ==
    /\ Counted /\ till[c].at \in {"viewed", "paying", "covered"}
    /\ till' = [till EXCEPT ![c].cart = b]
    /\ UNCHANGED <<credit, purse, written>>

CreditNext ==
    \/ \E c \in Shoppers :
           \/ \E b \in Baskets : ViewCart(c, b) \/ Reprice(c, b)
           \/ \E use, advance \in BOOLEAN : StartPaying(c, use, advance)
           \/ SettlePaid(c)
           \/ \E use \in BOOLEAN : PlaceForCash(c, use)
           \/ LeaveTill(c)
    \/ \E r \in CreditRuleSets : SaveRules(r)
    \/ \E p \in Balances : MovePurse(p)

-----------------------------------------------------------------------------

CreditTypeOK ==
    /\ credit \in CreditRuleSets /\ purse \in Nat /\ creditEdits \in 0..MaxCreditEdits
    /\ \A c \in Shoppers :
           /\ till[c].at \in {"idle", "viewed", "paying", "covered", "refused", "done"}
           /\ written[c].there <=> till[c].at = "done"

Written == {written[c] : c \in {d \in Shoppers : written[d].there}}

\* Money and credit come to the total of every order paid online, and of an
\* advance something is left for the door, whatever changed while it was paid
\* (create-order.ts:97-102, 594).
PaidToThePaisa ==
    \A o \in Written : o.online =>
        IF o.advance THEN o.paid >= 100 /\ o.paid + o.wallet < o.cart.total
        ELSE o.paid + o.wallet = o.cart.total

\* No gateway is asked for less than a rupee (payment-session.ts:375-385).
NoPettyPayments == \A c \in Shoppers : till[c].at = "paying" => till[c].amount >= 100

\* Credit pays whole rupees, within the balance, the share and the cap of the
\* rules in force when the order was written (wallet.ts:235-240).
CreditStaysInBounds ==
    \A o \in Written :
        /\ o.wallet % 100 = 0 /\ o.wallet <= o.balance
        /\ o.wallet > 0 => /\ o.under.on /\ o.under.spend /\ o.cart.total >= o.under.least
                           /\ o.wallet * 10000 <= o.cart.total * o.under.share
                           /\ o.under.most # NoCap => o.wallet <= o.under.most

\* The cart shows the most it can earn: the order, after any use of credit, is
\* promised no more by the same rules (read/cart.ts:395-399).
EarnsNoMoreThanShown ==
    \A c \in Shoppers :
        LET o == written[c]
            shown == till[c].shown
        IN o.there /\ o.under = shown.under /\ o.cart = shown.cart => o.cashback <= shown.cashback

\* Credit spent earns no credit: with more of it an order never earns more, and
\* covered by it earns nothing (wallet.ts:191-196).
CreditEarnsNothing ==
    \A o \in Written :
        /\ o.wallet >= o.cart.base => o.cashback = 0
        /\ o.cashback <= QuoteCashback(o.cart.base, 0, o.under)

\* "Add so much more to earn 2%": with that much more the cart earns at that
\* rate, and the rate is better than its own (wallet.ts:210-213).
BannerKeepsItsWord ==
    \A c \in Shoppers :
        LET base == till[c].cart.base
            next == NextSlab(base, credit)
        IN till[c].at = "viewed" /\ NextSlabs(base, credit) # {} =>
               /\ PickSlab(next.from, credit).bp = next.bp
               /\ next.bp > PickSlab(base, credit).bp

=============================================================================
