-------------------------------- MODULE Wallet --------------------------------
(***************************************************************************)
(* The store credit of one customer: core/src/write/wallet.ts, the hourly  *)
(* job of wallet-jobs.ts, and the three writes that move credit as a part  *)
(* of something else (placing an order, cancelling one, signing in).       *)
(*                                                                         *)
(* Every movement locks the customer's row first and is one step from that *)
(* lock to its commit.  A write that has read anything before the lock     *)
(* keeps the snapshot of that first read for its later reads (MySQL's      *)
(* default isolation): placing, cancelling, paying cashback and the        *)
(* welcome bonus all have, and work from the lots as they were then.  An   *)
(* admin's hand and the expiry job lock before they read.                  *)
(***************************************************************************)
EXTENDS Integers, Sequences, FiniteSets, Functions

CONSTANTS
    Orders,     \* the orders the customer may place
    Workers,    \* transactions in flight
    Overlap,    \* may another transaction commit while one waits for the lock?
    Bonus,      \* what the welcome bonus pays
    Cashback,   \* what each order promises back, the wallet's share taken off
    Validities, \* how long a credit may be made to last
    Forever,    \* the validity of a credit that never expires
    Hold,       \* from delivery until cashback is paid
    Grace,      \* for how long a returned credit is revived
    Horizon,    \* bound: the last instant
    HandCredits,\* the amounts an admin may add
    MaxLots     \* bound: lots in all, with room for those that are promised

Slots == 1 .. MaxLots
Instants == 0 .. Horizon
LongestValidity == Horizon + Grace
Never == Horizon + LongestValidity + 1

ASSUME WalletAssumption ==
    /\ IsFiniteSet(Orders)
    /\ Overlap \in BOOLEAN
    /\ Bonus \in Nat \ {0}
    /\ Cashback \in [Orders -> Nat]
    /\ Forever \notin Nat
    /\ Validities \subseteq (1 .. LongestValidity) \cup {Forever}
    /\ Hold \in Nat
    /\ Grace \in Nat \ {0}
    /\ Horizon \in Nat
    /\ HandCredits \subseteq Nat \ {0}
    /\ MaxLots \in Nat \ {0}
    /\ Cardinality({o \in Orders : Cashback[o] > 0}) < MaxLots

VARIABLES
    now,       \* the clock
    lots,      \* WalletLot, in the order they were created
    orders,    \* what the wallet knows of each order
    statement, \* the sum of the WalletEntry rows
    balance,   \* Customer.walletBalance, the cached figure
    bonusAt,   \* has Customer.signupBonusAt been stamped?
    req        \* what each transaction is doing

vars == <<now, lots, orders, statement, balance, bonusAt, req>>

Sources == {"SIGNUP_BONUS", "CASHBACK", "ADMIN_CREDIT"}
NoOrder == "no order"
LotRows == [source : Sources, of : Orders \cup {NoOrder}, amount : Nat,
            remaining : Nat, expires : 1 .. Never]
OrderRows == [status : {"none", "PLACED", "DELIVERED", "CANCELLED"},
              cashback : {"NONE", "PENDING", "CREDITED", "VOIDED"},
              releaseAt : Nat, uses : [Slots -> Nat]]

Idle == [kind |-> "idle"]
Kinds == {"spend", "cancel", "release", "bonus"}

\* An order not placed: nothing spent, nothing promised.
Unplaced == [status |-> "none", cashback |-> "NONE", releaseAt |-> 0,
             uses |-> [l \in Slots |-> 0]]

Init ==
    /\ now = 0
    /\ lots = <<>>
    /\ orders = [o \in Orders |-> Unplaced]
    /\ statement = 0
    /\ balance = 0
    /\ bonusAt = FALSE
    /\ req = [w \in Workers |-> Idle]

-----------------------------------------------------------------------------
(* The arithmetic of the lots.                                             *)

Least(a, b) == IF a <= b THEN a ELSE b

ExpiryFrom(at, validity) == IF validity = Forever THEN Never ELSE at + validity

Spendable(ls, at) == {l \in DOMAIN ls : ls[l].remaining > 0 /\ ls[l].expires > at}

Available(ls, at) ==
    SumFunctionOnSet([l \in DOMAIN ls |-> ls[l].remaining], Spendable(ls, at))

\* The soonest to expire is spent first, the older of two that expire together.
SpentBefore(ls, k, l) ==
    ls[k].expires < ls[l].expires \/ (ls[k].expires = ls[l].expires /\ k < l)

\* Mutant: the lot's own limit is forgotten.
MutantDraw(ls, at, owed) ==
    [l \in DOMAIN ls |->
        LET earlier == {k \in Spendable(ls, at) : SpentBefore(ls, k, l)}
            before  == SumFunctionOnSet([k \in DOMAIN ls |-> ls[k].remaining], earlier)
        IN  IF l \in Spendable(ls, at) /\ before < owed THEN owed - before ELSE 0]

\* Mutant: every lot gives what the whole debit owes.
MutantDrawEach(ls, at, owed) ==
    [l \in DOMAIN ls |-> IF l \in Spendable(ls, at) THEN Least(ls[l].remaining, owed) ELSE 0]

\* What each lot gives to a debit of `owed`.
Draw(ls, at, owed) ==
    [l \in DOMAIN ls |->
        LET earlier == {k \in Spendable(ls, at) : SpentBefore(ls, k, l)}
            before  == SumFunctionOnSet([k \in DOMAIN ls |-> ls[k].remaining], earlier)
        IN  IF l \in Spendable(ls, at) /\ before < owed
            THEN Least(ls[l].remaining, owed - before) ELSE 0]

\* `seen` as its own transaction reads it back after writing the lots `touched`.
ReadBack(seen, touched, written) ==
    [l \in DOMAIN seen |-> IF l \in touched THEN written[l] ELSE seen[l]]

-----------------------------------------------------------------------------
(* A transaction's first read, and its commit.                             *)

Quiet == \A w \in Workers : req[w] = Idle

\* Where transactions of one customer do not overlap, each starts alone.
MayStart == Overlap \/ Quiet

\* The orders there are: each has taken a number from the shop's one counter.
PlacedOrders == {o \in Orders : orders[o].status # "none"}

Doing(kind, o) == \E w \in Workers : req[w] # Idle /\ req[w].kind = kind /\ req[w].order = o

Start(w, kind, o) ==
    /\ MayStart
    /\ req[w] = Idle
    /\ req' = [req EXCEPT ![w] = [kind |-> kind, order |-> o, seen |-> lots, at |-> now,
                                 numbered |-> PlacedOrders]]
    /\ UNCHANGED <<now, lots, orders, statement, balance, bonusAt>>

Finish(w) == req' = [req EXCEPT ![w] = Idle]

\* Orders whose cashback may yet be paid.
Awaited ==
    {o \in Orders : orders[o].cashback = "PENDING"
                      \/ (orders[o].status = "none" /\ Cashback[o] > 0)}

\* Lots still owed to somebody: the bound leaves them room.
Promised == Cardinality(Awaited) + (IF bonusAt THEN 0 ELSE 1)

\* A new lot, for a transaction that sees the lots as `seen`.
Credit(seen, at, source, o, amount) ==
    \E validity \in Validities :
        LET lot == [source |-> source, of |-> o, amount |-> amount,
                    remaining |-> amount, expires |-> ExpiryFrom(at, validity)]
        IN  /\ lots' = Append(lots, lot)
            /\ statement' = statement + amount
            /\ balance' = Available(Append(seen, lot), at)

\* The order row, with what it drew from each lot and the cashback it promises.
Placed(o, uses) ==
    orders' = [orders EXCEPT
        ![o].status = "PLACED",
        ![o].cashback = IF Cashback[o] > 0 THEN "PENDING" ELSE "NONE",
        ![o].uses = uses]

\* The order is placed, paying `amount` of it from the lots it saw.
SpendFrom(o, seen, at, amount) ==
    LET take    == Draw(seen, at, amount)
        touched == {l \in DOMAIN seen : take[l] > 0}
        written == [l \in DOMAIN lots |->
                       IF l \in touched THEN [lots[l] EXCEPT !.remaining = seen[l].remaining - take[l]]
                       ELSE lots[l]]
    IN  /\ lots' = written
        /\ statement' = statement - amount
        /\ balance' = Available(ReadBack(seen, touched, written), at)
        /\ Placed(o, [l \in Slots |-> IF l \in touched THEN take[l] ELSE 0])

\* allocateOrderNumber swaps the counter against the value its snapshot holds,
\* and finds that changed if an order was placed since.
NumberFree(w) == req[w].numbered = PlacedOrders

StartSpend(w, o) ==
    /\ orders[o].status = "none"
    /\ ~ Doing("spend", o)
    /\ Start(w, "spend", o)

\* The rules decide how much of the balance the order may use, 0 if it is too
\* small; a checkout without the wallet leaves even the cached balance alone.
Spend(w) ==
    /\ req[w].kind = "spend"
    /\ NumberFree(w)
    /\ \/ \E amount \in 0 .. Available(req[w].seen, req[w].at) :
             SpendFrom(req[w].order, req[w].seen, req[w].at, amount)
       \/ /\ Placed(req[w].order, [l \in Slots |-> 0])
          /\ UNCHANGED <<lots, statement, balance>>
    /\ Finish(w)
    /\ UNCHANGED <<now, bonusAt>>

\* The order is not written: the price moved, its number was taken by another
\* order (of any customer), or the database broke a deadlock.
Abandon(w) ==
    /\ req[w].kind = "spend"
    /\ Finish(w)
    /\ UNCHANGED <<now, lots, orders, statement, balance, bonusAt>>

\* Cancelling holds the order's row from its first read.
StartCancel(w, o) ==
    /\ orders[o].status = "PLACED"
    /\ ~ Doing("cancel", o)
    /\ Start(w, "cancel", o)

\* Mutant: credit goes back to a lot that has expired.
MutantNoRevival(row, seen, back, at) ==
    [row EXCEPT !.remaining = Least(seen.amount, seen.remaining + back)]

\* A lot that gets credit back, revived if it had expired by then.
Restored(row, seen, back, at) ==
    [row EXCEPT
        !.remaining = Least(seen.amount, seen.remaining + back),
        !.expires = IF seen.expires <= at THEN at + Grace ELSE @]

\* Delivered orders cannot be cancelled, so no cashback has been paid yet.
Cancel(w) ==
    /\ req[w].kind = "cancel"
    /\ LET o       == req[w].order
           seen    == req[w].seen
           touched == {l \in DOMAIN seen : orders[o].uses[l] > 0}
           written == [l \in DOMAIN lots |->
                          IF l \in touched
                          THEN Restored(lots[l], seen[l], orders[o].uses[l], now) ELSE lots[l]]
       IN  /\ lots' = written
           /\ statement' = statement + SumFunctionOnSet(orders[o].uses, Slots)
           /\ balance' = IF touched = {} THEN balance
                         ELSE Available(ReadBack(seen, touched, written), now)
           /\ orders' = [orders EXCEPT
                  ![o].status = "CANCELLED",
                  ![o].cashback = IF @ = "PENDING" THEN "VOIDED" ELSE @]
    /\ Finish(w)
    /\ UNCHANGED <<now, bonusAt>>

\* The last load arrives: the hold on the cashback starts.
Deliver(o) ==
    /\ MayStart
    /\ orders[o].status = "PLACED"
    /\ ~ Doing("cancel", o)
    /\ now + Hold <= Horizon
    /\ orders' = [orders EXCEPT
            ![o].status = "DELIVERED",
            ![o].releaseAt = IF orders[o].cashback = "PENDING" THEN now + Hold ELSE @]
    /\ UNCHANGED <<now, lots, statement, balance, bonusAt, req>>

CashbackDue(o) ==
    /\ orders[o].status = "DELIVERED"
    /\ orders[o].cashback = "PENDING"
    /\ orders[o].releaseAt <= now

\* The hourly job, or the delivery itself when there is no hold.
StartRelease(w, o) == CashbackDue(o) /\ Start(w, "release", o)

\* Mutant: the claim forgets that it is made once.
MutantClaimed(o) == orders[o].status = "DELIVERED"

\* The claim: a second runner finds the order CREDITED.
Claimed(o) == orders[o].cashback = "PENDING" /\ orders[o].status = "DELIVERED"

Release(w) ==
    /\ req[w].kind = "release"
    /\ LET o == req[w].order
       IN  IF Claimed(o)
           THEN /\ orders' = [orders EXCEPT ![o].cashback = "CREDITED"]
                /\ Credit(req[w].seen, req[w].at, "CASHBACK", o, Cashback[o])
           ELSE UNCHANGED <<orders, lots, statement, balance>>
    /\ Finish(w)
    /\ UNCHANGED <<now, bonusAt>>

\* A sign-in reads the rules, and then stamps the account if nobody has.
StartBonus(w) ==
    /\ ~ bonusAt
    /\ Start(w, "bonus", NoOrder)

OwedABonus == ~ bonusAt

\* While the shop pays no bonus the stamp is set all the same.
GrantBonus(w) ==
    /\ req[w].kind = "bonus"
    /\ IF OwedABonus
       THEN /\ bonusAt' = TRUE
            /\ \/ Credit(req[w].seen, req[w].at, "SIGNUP_BONUS", NoOrder, Bonus)
               \/ UNCHANGED <<lots, statement, balance>>
       ELSE UNCHANGED <<bonusAt, lots, statement, balance>>
    /\ Finish(w)
    /\ UNCHANGED <<now, orders>>

HandCredit ==
    /\ MayStart
    /\ Len(lots) + Promised < MaxLots
    /\ \E amount \in HandCredits : Credit(lots, now, "ADMIN_CREDIT", NoOrder, amount)
    /\ UNCHANGED <<now, orders, bonusAt, req>>

HandDebit ==
    /\ MayStart
    /\ \E amount \in 1 .. Available(lots, now) :
          LET take == Draw(lots, now, amount)
              left == [l \in DOMAIN lots |->
                          [lots[l] EXCEPT !.remaining = @ - take[l]]]
          IN  /\ lots' = left
              /\ balance' = Available(left, now)
              /\ statement' = statement - amount
    /\ UNCHANGED <<now, orders, bonusAt, req>>

\* The job re-reads the lot under the lock: a cancel may have revived it.
Expire(l) ==
    /\ MayStart
    /\ lots[l].remaining > 0
    /\ lots[l].expires <= now
    /\ lots' = [lots EXCEPT ![l].remaining = 0]
    /\ balance' = Available(lots', now)
    /\ statement' = statement - lots[l].remaining
    /\ UNCHANGED <<now, orders, bonusAt, req>>

Tick ==
    /\ now < Horizon
    /\ now' = now + 1
    /\ UNCHANGED <<lots, orders, statement, balance, bonusAt, req>>

Commit(w) == Spend(w) \/ Abandon(w) \/ Cancel(w) \/ Release(w) \/ GrantBonus(w)

Next ==
    \/ \E w \in Workers, o \in Orders :
          StartSpend(w, o) \/ StartCancel(w, o) \/ StartRelease(w, o)
    \/ \E w \in Workers : StartBonus(w) \/ Commit(w)
    \/ \E o \in Orders : Deliver(o)
    \/ HandCredit \/ HandDebit
    \/ \E l \in DOMAIN lots : Expire(l)
    \/ Tick

Spec == Init /\ [][Next]_vars

\* The database answers, and gives its locks in turn, so no stream of other
\* transactions keeps the hourly job out for ever; time passes; nobody need sign
\* in, order, cancel, deliver or adjust anything.
Job ==
    \/ \E w \in Workers, o \in Orders : StartRelease(w, o)
    \/ \E l \in DOMAIN lots : Expire(l)

FairSpec ==
    /\ Spec
    /\ \A w \in Workers : WF_vars(Commit(w))
    /\ SF_vars(Job)
    /\ WF_vars(Tick)

-----------------------------------------------------------------------------
(* What the wallet promises.                                               *)

TypeOK ==
    /\ now \in Instants
    /\ lots \in Seq(LotRows) /\ Len(lots) <= MaxLots
    /\ orders \in [Orders -> OrderRows]
    /\ statement \in Int
    /\ balance \in Nat
    /\ bonusAt \in BOOLEAN
    /\ DOMAIN req = Workers
    /\ \A w \in Workers : req[w] # Idle =>
          /\ req[w].kind \in Kinds
          /\ req[w].seen \in Seq(LotRows)
          /\ req[w].at \in 0 .. now

\* The statement a customer is shown adds up to what the lots hold (wallet.ts
\* writes one WalletEntry per movement): no movement is lost, made twice or
\* split over the lots to a different amount.
StatementIsTheLots ==
    statement = SumFunctionOnSet([l \in DOMAIN lots |-> lots[l].remaining], DOMAIN lots)

\* What orders that stand have drawn from a lot, and what it has left, never
\* exceeds what was credited (lockWallet serialising every debitWallet).
NoLotOverspent ==
    \A l \in DOMAIN lots :
        LET drawn == [o \in Orders |-> IF orders[o].status = "CANCELLED" THEN 0
                                       ELSE orders[o].uses[l]]
        IN  SumFunctionOnSet(drawn, Orders) + lots[l].remaining <= lots[l].amount

\* Statement, lots and orders agree on every rupee (wallet.ts: debitWallet,
\* creditWallet, reverseOrderRedemption).
LotsAddUp == StatementIsTheLots /\ NoLotOverspent

\* Cancelling an order gives back credit that can be spent, all of it, even
\* when the lots it came from expired meanwhile (reverseOrderRedemption's
\* revival).
CancelReturnsSpendableCredit ==
    [][\A o \in Orders :
          orders[o].status = "PLACED" /\ orders'[o].status = "CANCELLED" =>
              Available(lots', now) >= Available(lots, now)
                                          + SumFunctionOnSet(orders[o].uses, Slots)]_vars

\* The cached balance comes to be what the lots allow, however credit lapses
\* between two movements (refreshWalletBalance, and the expiry job).
BalanceSettles == []<>(balance = Available(lots, now))

\* Whatever overlaps, the order of a lot's life keeps it within what was
\* credited (the clamps of debitWallet and reverseOrderRedemption).
LotsInBounds == \A l \in DOMAIN lots : lots[l].remaining \in 0 .. lots[l].amount

CashbackLots(o) == {l \in DOMAIN lots : lots[l].source = "CASHBACK" /\ lots[l].of = o}
BonusLots == {l \in DOMAIN lots : lots[l].source = "SIGNUP_BONUS"}

\* However often the job runs, and overlapping itself or a cancel, an order's
\* cashback is one lot if it is CREDITED and none otherwise (the compare-and-
\* swap of releaseOrderCashback).
CashbackPaidOnce ==
    \A o \in Orders :
        Cardinality(CashbackLots(o)) = IF orders[o].cashback = "CREDITED" THEN 1 ELSE 0

\* Two sign-ins at once grant one welcome bonus (grantSignupBonus).
BonusOnce ==
    Cardinality(BonusLots) <= IF bonusAt THEN 1 ELSE 0

\* What is promised once is paid once, whatever overlaps (releaseOrderCashback,
\* grantSignupBonus).
PaidOnce == CashbackPaidOnce /\ BonusOnce

(* Why the promises are paid once: what else is true of every reachable     *)
(* state, however transactions overlap.                                    *)

LotFields(lot) == {"source", "of"} \subseteq DOMAIN lot

OrderFields(order) == {"status", "cashback"} \subseteq DOMAIN order

\* Lots are only ever added, at the end.
LotsInv ==
    /\ lots \in Seq({lots[l] : l \in DOMAIN lots})
    /\ \A l \in DOMAIN lots : LotFields(lots[l])

OrdersInv ==
    /\ DOMAIN orders = Orders
    /\ \A o \in Orders :
          /\ OrderFields(orders[o])
          /\ orders[o].cashback = "CREDITED" => orders[o].status # "none"

\* An order is being placed by one transaction, and only until it is placed; one
\* that is being cancelled has been.
RequestsInv ==
    /\ req = [w \in Workers |-> req[w]]
    /\ \A w \in Workers : req[w] # Idle =>
          /\ req[w].kind \in Kinds
          /\ req[w].kind # "bonus" => req[w].order \in Orders
          /\ req[w].kind = "spend" => orders[req[w].order].status = "none"
          /\ req[w].kind = "cancel" => orders[req[w].order].status # "none"
    /\ \A v, w \in Workers :
          /\ req[v] # Idle /\ req[v].kind = "spend"
          /\ req[w] # Idle /\ req[w].kind = "spend"
          /\ req[v].order = req[w].order
          => v = w

OnceInv == /\ LotsInv /\ OrdersInv /\ RequestsInv /\ bonusAt \in BOOLEAN
           /\ CashbackPaidOnce /\ BonusOnce

(* Why the credit adds up: what transactions saw, and what orders drew.     *)

\* The bound leaves room for every lot that is owed.
Room == Len(lots) + Promised <= MaxLots

\* What a transaction saw of a lot is still there, for what was credited; and
\* what it saw is what there is, where transactions do not overlap.
SeenInv ==
    \A w \in Workers : req[w] # Idle =>
        /\ Len(req[w].seen) <= Len(lots)
        /\ \A l \in DOMAIN req[w].seen :
              /\ req[w].seen[l].amount = lots[l].amount
              /\ req[w].seen[l].remaining <= lots[l].amount
        /\ ~ Overlap => req[w].seen = lots /\ \A v \in Workers : req[v] # Idle => v = w

\* An order draws on lots there are, and on none before it is placed.
UsesInv ==
    \A o \in Orders :
        /\ orders[o].status = "none" => orders[o].cashback = "NONE"
        /\ \A l \in Slots : orders[o].status = "none" \/ l > Len(lots) => orders[o].uses[l] = 0

\* An order is cancelled while it stands, and by one transaction.
CancelsInv ==
    \A w \in Workers : req[w] # Idle /\ req[w].kind = "cancel" =>
        /\ orders[req[w].order].status = "PLACED"
        /\ \A v \in Workers : req[v] # Idle /\ req[v].kind = "cancel" /\ req[v].order = req[w].order => v = w

CreditInv == OnceInv /\ TypeOK /\ Room /\ SeenInv /\ UsesInv /\ CancelsInv /\ LotsInBounds

\* A delivered order's cashback is paid in the end (runWalletJobs).
CashbackArrives ==
    \A o \in Orders :
        orders[o].status = "DELIVERED" /\ orders[o].cashback = "PENDING"
            ~> orders[o].cashback = "CREDITED"
=============================================================================
