----------------------------- MODULE WalletProofs -----------------------------
(* Theorems about Wallet, for every number of orders and of transactions,  *)
(* whether or not they overlap.                                            *)
EXTENDS Wallet, SumTheorems, FiniteSetTheorems, TLAPS

\* The lots are those there were, whatever they hold.
SameLots ==
    /\ DOMAIN lots' = DOMAIN lots
    /\ lots' = [l \in DOMAIN lots |-> lots'[l]]
    /\ \A l \in DOMAIN lots : /\ LotFields(lots'[l])
                              /\ lots'[l].source = lots[l].source
                              /\ lots'[l].of = lots[l].of

\* Nothing is then credited to anybody.
LEMMA LotsKept ==
    ASSUME LotsInv, SameLots
    PROVE  /\ LotsInv'
           /\ BonusLots' = BonusLots
           /\ \A o : CashbackLots(o)' = CashbackLots(o)
<1>1. PICK n \in Nat : DOMAIN lots = 1 .. n
  BY DEF LotsInv
<1>2. lots' \in Seq({lots'[l] : l \in DOMAIN lots'})
  BY <1>1 DEF SameLots
<1>3. LotsInv'
  BY <1>2 DEF LotsInv, LotFields, SameLots
<1> QED
  BY <1>3 DEF BonusLots, CashbackLots, SameLots

\* A step that adds one lot.
LEMMA LotAdded ==
    ASSUME LotsInv, NEW lot, LotFields(lot), lots' = Append(lots, lot)
    PROVE  /\ LotsInv'
           /\ Len(lots) + 1 \notin DOMAIN lots
           /\ BonusLots' = BonusLots \cup
                 (IF lot.source = "SIGNUP_BONUS" THEN {Len(lots) + 1} ELSE {})
           /\ \A o : CashbackLots(o)' = CashbackLots(o) \cup
                 (IF lot.source = "CASHBACK" /\ lot.of = o THEN {Len(lots) + 1} ELSE {})
<1>s. PICK S : S = {lots[l] : l \in DOMAIN lots} \cup {lot}
  OBVIOUS
<1>n. PICK n : n = Len(lots)
  OBVIOUS
<1>q. lots \in Seq(S) /\ lot \in S
  <2>1. \A T : lots \in Seq(T) /\ T \subseteq S => lots \in Seq(S)
    OBVIOUS
  <2> QED
    BY <1>s, <2>1 DEF LotsInv
<1>1. /\ n \in Nat
      /\ DOMAIN lots = 1 .. n
      /\ lots \in Seq(S) /\ lot \in S
  BY <1>n, <1>q
<1>2. /\ DOMAIN lots' = 1 .. (n + 1)
      /\ \A l \in 1 .. n : lots'[l] = lots[l]
      /\ lots'[n + 1] = lot
      /\ lots' = [l \in 1 .. (n + 1) |-> lots'[l]]
  <2>1. Append(lots, lot) \in Seq(S) /\ Len(Append(lots, lot)) = n + 1
    BY <1>1, <1>n
  <2>2. \A l \in 1 .. n : Append(lots, lot)[l] = lots[l]
    BY <1>1, <1>n
  <2>3. Append(lots, lot)[n + 1] = lot
    BY <1>1, <1>n
  <2>4. \A s \in Seq(S) : DOMAIN s = 1 .. Len(s) /\ s = [l \in 1 .. Len(s) |-> s[l]]
    OBVIOUS
  <2>5. DOMAIN lots' = 1 .. (n + 1) /\ lots' = [l \in 1 .. (n + 1) |-> lots'[l]]
    BY <2>1, <2>4
  <2> QED
    BY <1>1, <2>2, <2>3, <2>5
<1>3. lots' \in Seq({lots'[l] : l \in DOMAIN lots'})
  BY <1>1, <1>2
<1>4. \A l \in DOMAIN lots' : LotFields(lots'[l])
  BY <1>1, <1>2 DEF LotsInv
<1>5. LotsInv'
  BY <1>3, <1>4 DEF LotsInv, LotFields
<1>6. DOMAIN lots' = DOMAIN lots \cup {n + 1} /\ n + 1 \notin DOMAIN lots
  BY <1>1, <1>2
<1>7. BonusLots' = BonusLots \cup (IF lot.source = "SIGNUP_BONUS" THEN {n + 1} ELSE {})
  BY <1>1, <1>2, <1>6 DEF BonusLots
<1>8. \A o : CashbackLots(o)' = CashbackLots(o) \cup
                 (IF lot.source = "CASHBACK" /\ lot.of = o THEN {n + 1} ELSE {})
  BY <1>1, <1>2, <1>6 DEF CashbackLots
<1> QED
  BY <1>n, <1>5, <1>6, <1>7, <1>8

\* There are finitely many lots of any kind.
LEMMA FewLots ==
    ASSUME LotsInv
    PROVE  /\ IsFiniteSet(BonusLots)
           /\ \A o : IsFiniteSet(CashbackLots(o))
<1>1. PICK n \in Nat : DOMAIN lots = 1 .. n
  BY DEF LotsInv
<1>2. IsFiniteSet(DOMAIN lots)
  BY <1>1, FS_Interval
<1> QED
  BY <1>2, FS_Subset DEF BonusLots, CashbackLots

\* A commit frees its worker; nobody else's request changes.
LEMMA FinishStep ==
    ASSUME RequestsInv, NEW w \in Workers, Finish(w)
    PROVE  /\ req' = [v \in Workers |-> req'[v]]
           /\ req'[w] = Idle
           /\ \A v \in Workers : v # w => req'[v] = req[v]
  BY DEF RequestsInv, Finish

\* An order a worker is placing is placed by no other.
LEMMA OnePlacer ==
    ASSUME RequestsInv, NEW w \in Workers, req[w].kind = "spend"
    PROVE  /\ req[w].order \in Orders
           /\ orders[req[w].order].status = "none"
           /\ \A v \in Workers : v # w /\ req[v] # Idle /\ req[v].kind = "spend"
                                    => req[v].order # req[w].order
<1>1. req[w] # Idle
  BY DEF Idle
<1> QED
  BY <1>1 DEF RequestsInv

\* What a step may do to the orders without unsettling a request in flight.
StepLeaves(w) ==
    /\ \A p \in Orders : orders[p].status # "none" => orders'[p].status # "none"
    /\ \A v \in Workers : v # w /\ req[v] # Idle /\ req[v].kind = "spend"
                             => orders'[req[v].order].status = "none"

LEMMA CommitRequests ==
    ASSUME RequestsInv, NEW w \in Workers, Finish(w), StepLeaves(w)
    PROVE  RequestsInv'
  BY FinishStep DEF RequestsInv, StepLeaves, Kinds

LEMMA StartRequests ==
    ASSUME RequestsInv, NEW w \in Workers, NEW kind \in Kinds, NEW o,
           Start(w, kind, o),
           kind # "bonus" => o \in Orders,
           kind = "spend" => orders[o].status = "none" /\ ~ Doing("spend", o),
           kind = "cancel" => orders[o].status # "none"
    PROVE  RequestsInv'
<1>1. /\ req' = [v \in Workers |-> req'[v]]
      /\ req'[w] # Idle /\ req'[w].kind = kind /\ req'[w].order = o
      /\ \A v \in Workers : v # w => req'[v] = req[v]
  BY DEF RequestsInv, Start, Idle, Kinds
<1>2. orders' = orders
  BY DEF Start
<1>3. kind = "spend" => \A v \in Workers :
         req[v] # Idle /\ req[v].kind = "spend" => req[v].order # o
  BY DEF Doing
<1> QED
  BY <1>1, <1>2, <1>3 DEF RequestsInv

LEMMA RequestsStep == OnceInv /\ Next => RequestsInv'
<1> SUFFICES ASSUME OnceInv, Next
             PROVE  RequestsInv'
  OBVIOUS
<1> USE DEF OnceInv
<1>k. \A kind \in {"spend", "cancel", "release", "bonus"} : kind \in Kinds
  BY DEF Kinds
<1>1. ASSUME NEW w \in Workers, NEW o \in Orders,
             StartSpend(w, o) \/ StartCancel(w, o) \/ StartRelease(w, o)
      PROVE  RequestsInv'
  BY <1>1, <1>k, StartRequests DEF StartSpend, StartCancel, StartRelease
<1>2. ASSUME NEW w \in Workers, StartBonus(w)
      PROVE  RequestsInv'
  BY <1>2, <1>k, StartRequests DEF StartBonus
<1>3. ASSUME NEW w \in Workers, Spend(w)
      PROVE  RequestsInv'
  <2>1. Finish(w) /\ req[w].kind = "spend"
    BY <1>3 DEF Spend
  <2>2. \E uses : Placed(req[w].order, uses)
    BY <1>3 DEF Spend, SpendFrom
  <2>3. \A p \in Orders : p # req[w].order => orders'[p] = orders[p]
    BY <2>2 DEF Placed, OrdersInv
  <2>4. \A p \in Orders : orders[p].status # "none" => orders'[p].status # "none"
    BY <2>1, <2>3, OnePlacer
  <2>5. ASSUME NEW v \in Workers, v # w, req[v] # Idle, req[v].kind = "spend"
        PROVE  orders'[req[v].order].status = "none"
    BY <2>1, <2>3, <2>5, OnePlacer DEF RequestsInv
  <2> QED
    BY <2>1, <2>4, <2>5, CommitRequests DEF StepLeaves
<1>4. ASSUME NEW w \in Workers, Abandon(w)
      PROVE  RequestsInv'
  <2>1. Finish(w) /\ orders' = orders
    BY <1>4 DEF Abandon
  <2> QED
    BY <2>1, CommitRequests DEF RequestsInv, StepLeaves
<1>5. ASSUME NEW w \in Workers, Cancel(w)
      PROVE  RequestsInv'
  <2>1. Finish(w) /\ req[w].kind = "cancel"
    BY <1>5 DEF Cancel
  <2>2. req[w].order \in Orders /\ orders[req[w].order].status # "none"
    BY <2>1 DEF RequestsInv, Idle
  <2>3. /\ orders'[req[w].order].status = "CANCELLED"
        /\ \A p \in Orders : p # req[w].order => orders'[p] = orders[p]
    BY <1>5, <2>2 DEF Cancel, OrdersInv, OrderFields
  <2>4. StepLeaves(w)
    BY <2>2, <2>3 DEF StepLeaves, RequestsInv
  <2> QED
    BY <2>1, <2>4, CommitRequests
<1>6. ASSUME NEW w \in Workers, Release(w)
      PROVE  RequestsInv'
  <2>1. Finish(w) /\ req[w].kind = "release"
    BY <1>6 DEF Release
  <2>2. \/ orders' = orders
        \/ orders' = [orders EXCEPT ![req[w].order].cashback = "CREDITED"]
    BY <1>6 DEF Release
  <2>3. \A p \in Orders : orders'[p].status = orders[p].status
    BY <2>2 DEF OrdersInv, OrderFields
  <2> QED
    BY <2>1, <2>3, CommitRequests DEF StepLeaves, RequestsInv
<1>7. ASSUME NEW w \in Workers, GrantBonus(w)
      PROVE  RequestsInv'
  <2>1. Finish(w) /\ orders' = orders
    BY <1>7 DEF GrantBonus
  <2> QED
    BY <2>1, CommitRequests DEF RequestsInv, StepLeaves
<1>8. ASSUME NEW o \in Orders, Deliver(o)
      PROVE  RequestsInv'
  <2>1. orders[o].status = "PLACED" /\ req' = req
    BY <1>8 DEF Deliver
  <2>2. /\ orders'[o].status = "DELIVERED"
        /\ \A p \in Orders : p # o => orders'[p] = orders[p]
    BY <1>8 DEF Deliver, OrdersInv, OrderFields
  <2> QED
    BY <2>1, <2>2 DEF RequestsInv, Kinds
<1>9. ASSUME \/ HandCredit \/ HandDebit \/ Tick
             \/ \E l \in DOMAIN lots : Expire(l)
      PROVE  RequestsInv'
  <2>1. req' = req /\ orders' = orders
    BY <1>9 DEF HandCredit, HandDebit, Tick, Expire
  <2> QED
    BY <2>1 DEF RequestsInv
<1> QED
  BY <1>1, <1>2, <1>3, <1>4, <1>5, <1>6, <1>7, <1>8, <1>9 DEF Next, Commit

\* A step that writes one order's row.
LEMMA OneOrderWritten ==
    ASSUME OrdersInv, NEW o \in Orders,
           DOMAIN orders' = Orders,
           \A p \in Orders : p # o => orders'[p] = orders[p],
           OrderFields(orders'[o]),
           orders'[o].cashback = "CREDITED" => orders'[o].status # "none"
    PROVE  OrdersInv'
  BY DEF OrdersInv, OrderFields

\* What each step that writes an order leaves in it.
LEMMA SpendOrders ==
    ASSUME OrdersInv, RequestsInv, NEW w \in Workers, Spend(w)
    PROVE  \E o \in Orders :
              /\ o = req[w].order /\ orders[o].status = "none"
              /\ DOMAIN orders' = Orders
              /\ \A p \in Orders : p # o => orders'[p] = orders[p]
              /\ OrderFields(orders'[o])
              /\ orders'[o].cashback # "CREDITED"
<1>1. PICK o \in Orders : o = req[w].order /\ orders[o].status = "none"
  BY OnePlacer DEF Spend
<1>2. PICK uses : Placed(o, uses)
  BY <1>1 DEF Spend, SpendFrom
<1>3. PICK c : c = (IF Cashback[o] > 0 THEN "PENDING" ELSE "NONE") /\ c # "CREDITED"
  OBVIOUS
<1>4. orders' = [orders EXCEPT ![o].status = "PLACED", ![o].cashback = c, ![o].uses = uses]
  BY <1>2, <1>3 DEF Placed
<1>5. OrderFields(orders'[o]) /\ orders'[o].cashback = c
  BY <1>4 DEF OrdersInv, OrderFields
<1>6. DOMAIN orders' = Orders /\ \A p \in Orders : p # o => orders'[p] = orders[p]
  BY <1>4 DEF OrdersInv
<1> QED
  BY <1>1, <1>3, <1>5, <1>6

LEMMA CancelOrders ==
    ASSUME OrdersInv, RequestsInv, NEW w \in Workers, Cancel(w)
    PROVE  \E o \in Orders :
              /\ DOMAIN orders' = Orders
              /\ \A p \in Orders : p # o => orders'[p] = orders[p]
              /\ OrderFields(orders'[o])
              /\ orders'[o].status = "CANCELLED"
              /\ orders'[o].cashback = "CREDITED" <=> orders[o].cashback = "CREDITED"
<1>1. PICK o \in Orders : o = req[w].order
  BY DEF Cancel, RequestsInv, Idle
<1>2. PICK c : c = (IF orders[o].cashback = "PENDING" THEN "VOIDED" ELSE orders[o].cashback)
  OBVIOUS
<1>3. orders' = [orders EXCEPT ![o].status = "CANCELLED", ![o].cashback = c]
  BY <1>1, <1>2 DEF Cancel, OrdersInv, OrderFields
<1>4. /\ OrderFields(orders'[o])
      /\ orders'[o].status = "CANCELLED" /\ orders'[o].cashback = c
  BY <1>3 DEF OrdersInv, OrderFields
<1>5. DOMAIN orders' = Orders /\ \A p \in Orders : p # o => orders'[p] = orders[p]
  BY <1>3 DEF OrdersInv
<1> QED
  BY <1>2, <1>4, <1>5

LEMMA ReleaseOrders ==
    ASSUME OrdersInv, RequestsInv, NEW w \in Workers, Release(w), Claimed(req[w].order)
    PROVE  \E o \in Orders :
              /\ o = req[w].order
              /\ orders[o].cashback = "PENDING"
              /\ DOMAIN orders' = Orders
              /\ \A p \in Orders : p # o => orders'[p] = orders[p]
              /\ OrderFields(orders'[o])
              /\ orders'[o].status = "DELIVERED" /\ orders'[o].cashback = "CREDITED"
<1>1. PICK o \in Orders : o = req[w].order
  BY DEF Release, RequestsInv, Idle
<1>2. orders' = [orders EXCEPT ![o].cashback = "CREDITED"]
  BY <1>1 DEF Release
<1>3. /\ OrderFields(orders'[o])
      /\ orders'[o].status = orders[o].status /\ orders'[o].cashback = "CREDITED"
  BY <1>2 DEF OrdersInv, OrderFields
<1> QED
  BY <1>1, <1>2, <1>3 DEF OrdersInv, Claimed

LEMMA DeliverOrders ==
    ASSUME OrdersInv, NEW o \in Orders, Deliver(o)
    PROVE  /\ DOMAIN orders' = Orders
           /\ \A p \in Orders : p # o => orders'[p] = orders[p]
           /\ OrderFields(orders'[o])
           /\ orders'[o].status = "DELIVERED"
           /\ orders'[o].cashback = orders[o].cashback
<1>1. PICK at : orders' = [orders EXCEPT ![o].status = "DELIVERED", ![o].releaseAt = at]
  BY DEF Deliver
<1>2. /\ OrderFields(orders'[o])
      /\ orders'[o].status = "DELIVERED" /\ orders'[o].cashback = orders[o].cashback
  BY <1>1 DEF OrdersInv, OrderFields
<1> QED
  BY <1>1, <1>2 DEF OrdersInv

LEMMA OrdersStep == OnceInv /\ Next => OrdersInv'
<1> SUFFICES ASSUME OnceInv, Next
             PROVE  OrdersInv'
  OBVIOUS
<1> USE DEF OnceInv
<1>u. ASSUME orders' = orders
      PROVE  OrdersInv'
  BY <1>u DEF OrdersInv, OrderFields
<1>1. ASSUME NEW w \in Workers, Spend(w)
      PROVE  OrdersInv'
  BY <1>1, SpendOrders, OneOrderWritten
<1>2. ASSUME NEW w \in Workers, Cancel(w)
      PROVE  OrdersInv'
  BY <1>2, CancelOrders DEF OrdersInv, OrderFields
<1>3. ASSUME NEW w \in Workers, Release(w)
      PROVE  OrdersInv'
  BY <1>3, <1>u, ReleaseOrders, OneOrderWritten DEF Release
<1>4. ASSUME NEW o \in Orders, Deliver(o)
      PROVE  OrdersInv'
  BY <1>4, DeliverOrders, OneOrderWritten
<1>5. ASSUME \/ HandCredit \/ HandDebit \/ Tick
             \/ \E l \in DOMAIN lots : Expire(l)
             \/ \E w \in Workers : StartBonus(w) \/ Abandon(w) \/ GrantBonus(w)
             \/ \E w \in Workers, o \in Orders :
                   StartSpend(w, o) \/ StartCancel(w, o) \/ StartRelease(w, o)
      PROVE  OrdersInv'
  BY <1>5, <1>u DEF HandCredit, HandDebit, Tick, Expire, StartBonus, Abandon, GrantBonus,
                    StartSpend, StartCancel, StartRelease, Start
<1> QED
  BY <1>1, <1>2, <1>3, <1>4, <1>5 DEF Next, Commit

\* A step that adds no promised lot and pays none.
LEMMA PaidKept ==
    ASSUME OnceInv,
           BonusLots' = BonusLots,
           \A o \in Orders : CashbackLots(o)' = CashbackLots(o),
           \A o \in Orders : orders'[o].cashback = "CREDITED" <=> orders[o].cashback = "CREDITED",
           bonusAt => bonusAt'
    PROVE  CashbackPaidOnce' /\ BonusOnce'
<1>1. CashbackPaidOnce'
  BY DEF OnceInv, CashbackPaidOnce
<1>2. PICK n \in Nat : n = Cardinality(BonusLots)
  BY FewLots, FS_CardinalityType DEF OnceInv
<1>3. n <= IF bonusAt THEN 1 ELSE 0
  BY <1>2 DEF OnceInv, BonusOnce
<1>4. n <= IF bonusAt' THEN 1 ELSE 0
  BY <1>3
<1>5. Cardinality(BonusLots') = n
  BY <1>2
<1>6. BonusOnce'
  BY <1>4, <1>5 DEF BonusOnce
<1> QED
  BY <1>1, <1>6

\* The lots after a credit of either kind.
LEMMA CreditAdds ==
    ASSUME LotsInv, NEW seen, NEW at, NEW source, NEW o, NEW amount,
           Credit(seen, at, source, o, amount)
    PROVE  /\ LotsInv'
           /\ Len(lots) + 1 \notin DOMAIN lots
           /\ source = "SIGNUP_BONUS" => BonusLots' = BonusLots \cup {Len(lots) + 1}
           /\ source # "SIGNUP_BONUS" => BonusLots' = BonusLots
           /\ source = "CASHBACK" => CashbackLots(o)' = CashbackLots(o) \cup {Len(lots) + 1}
           /\ \A p : source # "CASHBACK" \/ p # o => CashbackLots(p)' = CashbackLots(p)
<1>1. PICK lot : /\ LotFields(lot) /\ lots' = Append(lots, lot)
                 /\ lot.source = source /\ lot.of = o
  BY DEF Credit, LotFields
<1>2. /\ LotsInv'
      /\ Len(lots) + 1 \notin DOMAIN lots
      /\ BonusLots' = BonusLots \cup
            (IF lot.source = "SIGNUP_BONUS" THEN {Len(lots) + 1} ELSE {})
      /\ \A p : CashbackLots(p)' = CashbackLots(p) \cup
            (IF lot.source = "CASHBACK" /\ lot.of = p THEN {Len(lots) + 1} ELSE {})
  BY <1>1, LotAdded
<1> QED
  BY <1>1, <1>2

\* One more member than none is one, of a finite set.
LEMMA OneMore ==
    ASSUME NEW S, IsFiniteSet(S), Cardinality(S) <= 0, NEW x, x \notin S
    PROVE  Cardinality(S \cup {x}) = 1
<1>1. Cardinality(S) = 0
  BY FS_CardinalityType
<1>2. Cardinality(S \cup {x}) = Cardinality(S) + 1
  BY FS_AddElement
<1> QED
  BY <1>1, <1>2

LEMMA KeptLots ==
    ASSUME OnceInv, SameLots, bonusAt' = bonusAt,
           \A o \in Orders : orders'[o].cashback = "CREDITED" <=> orders[o].cashback = "CREDITED"
    PROVE  LotsInv' /\ CashbackPaidOnce' /\ BonusOnce'
  BY LotsKept, PaidKept DEF OnceInv

\* A step that leaves the lots alone.
LEMMA UnwrittenLots ==
    ASSUME LotsInv, lots' = lots
    PROVE  SameLots
  BY DEF LotsInv, LotFields, SameLots

\* Each step that writes lots writes their remaining credit and their expiry.
LEMMA SpendLots ==
    ASSUME OnceInv, NEW w \in Workers, Spend(w)
    PROVE  SameLots
<1> USE DEF OnceInv
<1>1. ASSUME NEW o, NEW seen, NEW at, NEW amount, SpendFrom(o, seen, at, amount)
      PROVE  SameLots
  BY <1>1 DEF SpendFrom, LotsInv, LotFields, SameLots
<1> QED
  BY <1>1, UnwrittenLots DEF Spend

LEMMA CancelLots ==
    ASSUME OnceInv, NEW w \in Workers, Cancel(w)
    PROVE  SameLots
  BY DEF OnceInv, Cancel, Restored, LotsInv, LotFields, SameLots

LEMMA HandDebitLots ==
    ASSUME OnceInv, HandDebit
    PROVE  SameLots
  BY DEF OnceInv, HandDebit, LotsInv, LotFields, SameLots

LEMMA ExpireLots ==
    ASSUME OnceInv, NEW l \in DOMAIN lots, Expire(l)
    PROVE  SameLots
  BY DEF OnceInv, Expire, LotsInv, LotFields, SameLots

\* A claimed order is CREDITED in the step that credits its lot.
LEMMA ReleasePays ==
    ASSUME OnceInv, NEW w \in Workers, Release(w), Claimed(req[w].order)
    PROVE  LotsInv' /\ CashbackPaidOnce' /\ BonusOnce'
<1> USE DEF OnceInv
<1>1. PICK o \in Orders :
         /\ o = req[w].order
         /\ orders[o].cashback = "PENDING"
         /\ \A p \in Orders : p # o => orders'[p] = orders[p]
         /\ orders'[o].cashback = "CREDITED"
  BY ReleaseOrders
<1>2. /\ LotsInv'
      /\ Len(lots) + 1 \notin DOMAIN lots
      /\ BonusLots' = BonusLots
      /\ CashbackLots(o)' = CashbackLots(o) \cup {Len(lots) + 1}
      /\ \A p : p # o => CashbackLots(p)' = CashbackLots(p)
  <2>1. Credit(req[w].seen, req[w].at, "CASHBACK", o, Cashback[o])
    BY <1>1 DEF Release
  <2> QED
    BY <2>1, CreditAdds
<1>3. Cardinality(CashbackLots(o)') = 1
  <2>1. Cardinality(CashbackLots(o)) <= 0 /\ IsFiniteSet(CashbackLots(o))
    BY <1>1, FewLots DEF CashbackPaidOnce
  <2>2. Len(lots) + 1 \notin CashbackLots(o)
    BY <1>2 DEF CashbackLots
  <2> QED
    BY <1>2, <2>1, <2>2, OneMore
<1>4. CashbackPaidOnce'
  <2>1. ASSUME NEW p \in Orders, p # o
        PROVE  /\ CashbackLots(p)' = CashbackLots(p)
               /\ orders'[p].cashback = orders[p].cashback
    BY <1>1, <1>2, <2>1
  <2> QED
    BY <1>1, <1>3, <2>1 DEF CashbackPaidOnce
<1>5. BonusOnce'
  BY <1>2 DEF BonusOnce, Release
<1> QED
  BY <1>2, <1>4, <1>5

\* The account is stamped in the step that credits the bonus.
LEMMA BonusPays ==
    ASSUME OnceInv, NEW w \in Workers, GrantBonus(w)
    PROVE  LotsInv' /\ CashbackPaidOnce' /\ BonusOnce'
<1> USE DEF OnceInv
<1>1. orders' = orders
  BY DEF GrantBonus
<1>2. CASE OwedABonus /\ Credit(req[w].seen, req[w].at, "SIGNUP_BONUS", NoOrder, Bonus)
  <2>1. /\ LotsInv'
        /\ Len(lots) + 1 \notin DOMAIN lots
        /\ BonusLots' = BonusLots \cup {Len(lots) + 1}
        /\ \A p : CashbackLots(p)' = CashbackLots(p)
    BY <1>2, CreditAdds
  <2>2. Cardinality(BonusLots') = 1
    <3>1. Cardinality(BonusLots) <= 0 /\ IsFiniteSet(BonusLots)
      BY <1>2, FewLots DEF OwedABonus, BonusOnce
    <3>2. Len(lots) + 1 \notin BonusLots
      BY <2>1 DEF BonusLots
    <3> QED
      BY <2>1, <3>1, <3>2, OneMore
  <2>3. bonusAt' = TRUE
    BY <1>2 DEF GrantBonus
  <2>4. BonusOnce'
    BY <2>2, <2>3 DEF BonusOnce
  <2>5. CashbackPaidOnce'
    BY <1>1, <2>1 DEF CashbackPaidOnce
  <2> QED
    BY <2>1, <2>4, <2>5
<1>3. CASE lots' = lots /\ (bonusAt => bonusAt')
  BY <1>1, <1>3, UnwrittenLots, LotsKept, PaidKept
<1> QED
  BY <1>2, <1>3 DEF GrantBonus

LEMMA PaidStep == OnceInv /\ Next => LotsInv' /\ CashbackPaidOnce' /\ BonusOnce'
<1> SUFFICES ASSUME OnceInv, Next
             PROVE  LotsInv' /\ CashbackPaidOnce' /\ BonusOnce'
  OBVIOUS
<1>i. LotsInv /\ OrdersInv /\ RequestsInv /\ CashbackPaidOnce /\ BonusOnce
  BY DEF OnceInv
<1>1. ASSUME NEW w \in Workers, Spend(w)
      PROVE  LotsInv' /\ CashbackPaidOnce' /\ BonusOnce'
  <2>1. \A o \in Orders : orders'[o].cashback = "CREDITED" <=> orders[o].cashback = "CREDITED"
    BY <1>1, <1>i, SpendOrders DEF OrdersInv
  <2>2. bonusAt' = bonusAt
    BY <1>1 DEF Spend
  <2> QED
    BY <1>1, <2>1, <2>2, SpendLots, KeptLots
<1>2. ASSUME NEW w \in Workers, Cancel(w)
      PROVE  LotsInv' /\ CashbackPaidOnce' /\ BonusOnce'
  <2>1. \A o \in Orders : orders'[o].cashback = "CREDITED" <=> orders[o].cashback = "CREDITED"
    BY <1>2, <1>i, CancelOrders
  <2>2. bonusAt' = bonusAt
    BY <1>2 DEF Cancel
  <2> QED
    BY <1>2, <2>1, <2>2, CancelLots, KeptLots
<1>3. ASSUME NEW w \in Workers, Release(w)
      PROVE  LotsInv' /\ CashbackPaidOnce' /\ BonusOnce'
  <2>1. CASE Claimed(req[w].order)
    BY <1>3, <2>1, ReleasePays
  <2>2. CASE ~ Claimed(req[w].order)
    <3>1. lots' = lots /\ orders' = orders /\ bonusAt' = bonusAt
      BY <1>3, <2>2 DEF Release
    <3> QED
      BY <1>i, <3>1, UnwrittenLots, KeptLots
  <2> QED
    BY <2>1, <2>2
<1>4. ASSUME NEW w \in Workers, GrantBonus(w)
      PROVE  LotsInv' /\ CashbackPaidOnce' /\ BonusOnce'
  BY <1>4, BonusPays
<1>5. ASSUME NEW o \in Orders, Deliver(o)
      PROVE  LotsInv' /\ CashbackPaidOnce' /\ BonusOnce'
  <2>1. \A p \in Orders : orders'[p].cashback = "CREDITED" <=> orders[p].cashback = "CREDITED"
    BY <1>5, <1>i, DeliverOrders
  <2>2. lots' = lots /\ bonusAt' = bonusAt
    BY <1>5 DEF Deliver
  <2> QED
    BY <1>i, <2>1, <2>2, UnwrittenLots, KeptLots
<1>6. ASSUME HandCredit
      PROVE  LotsInv' /\ CashbackPaidOnce' /\ BonusOnce'
  <2>1. orders' = orders /\ bonusAt' = bonusAt
    BY <1>6 DEF HandCredit
  <2>2. PICK amount : Credit(lots, now, "ADMIN_CREDIT", NoOrder, amount)
    BY <1>6 DEF HandCredit
  <2>3. /\ LotsInv'
        /\ BonusLots' = BonusLots
        /\ \A p : CashbackLots(p)' = CashbackLots(p)
    BY <1>i, <2>2, CreditAdds
  <2> QED
    BY <2>1, <2>3, PaidKept
<1>7. ASSUME HandDebit \/ \E l \in DOMAIN lots : Expire(l)
      PROVE  LotsInv' /\ CashbackPaidOnce' /\ BonusOnce'
  <2>1. SameLots
    BY <1>7, HandDebitLots, ExpireLots
  <2>2. orders' = orders /\ bonusAt' = bonusAt
    BY <1>7 DEF HandDebit, Expire
  <2> QED
    BY <2>1, <2>2, KeptLots
<1>8. ASSUME \/ Tick
             \/ \E w \in Workers : StartBonus(w) \/ Abandon(w)
             \/ \E w \in Workers, o \in Orders :
                   StartSpend(w, o) \/ StartCancel(w, o) \/ StartRelease(w, o)
      PROVE  LotsInv' /\ CashbackPaidOnce' /\ BonusOnce'
  <2>1. lots' = lots /\ orders' = orders /\ bonusAt' = bonusAt
    BY <1>8 DEF Tick, StartBonus, Abandon, StartSpend, StartCancel, StartRelease, Start
  <2> QED
    BY <1>i, <2>1, UnwrittenLots, KeptLots
<1> QED
  BY <1>1, <1>2, <1>3, <1>4, <1>5, <1>6, <1>7, <1>8 DEF Next, Commit

LEMMA BonusStep == OnceInv /\ Next => bonusAt' \in BOOLEAN
<1> SUFFICES ASSUME OnceInv, Next
             PROVE  bonusAt' \in BOOLEAN
  OBVIOUS
<1>1. bonusAt' = bonusAt \/ bonusAt' = TRUE
  BY DEF Next, Commit, StartSpend, StartCancel, StartRelease, StartBonus, Start, Spend,
         Abandon, Cancel, Release, GrantBonus, Deliver, HandCredit, HandDebit, Expire, Tick
<1> QED
  BY <1>1 DEF OnceInv

LEMMA OnceInit == Init => OnceInv
<1> SUFFICES ASSUME Init
             PROVE  OnceInv
  OBVIOUS
<1>1. DOMAIN lots = {}
  BY DEF Init
<1>2. lots \in Seq({lots[l] : l \in DOMAIN lots})
  BY DEF Init
<1>3. LotsInv
  BY <1>1, <1>2 DEF LotsInv
<1>4. \A o \in Orders : orders[o] = Unplaced
  BY DEF Init
<1>5. OrdersInv
  BY <1>4 DEF Init, OrdersInv, OrderFields, Unplaced
<1>6. RequestsInv
  BY DEF Init, RequestsInv
<1>7. BonusLots = {} /\ \A o : CashbackLots(o) = {}
  BY <1>1 DEF BonusLots, CashbackLots
<1>8. Cardinality({}) = 0
  BY FS_EmptySet
<1>9. CashbackPaidOnce
  BY <1>4, <1>7, <1>8 DEF CashbackPaidOnce, Unplaced
<1>10. bonusAt \in BOOLEAN /\ BonusOnce
  <2>1. Cardinality(BonusLots) = 0
    BY <1>7, <1>8
  <2>2. 0 <= IF bonusAt THEN 1 ELSE 0
    OBVIOUS
  <2>3. BonusOnce
    BY <2>1, <2>2 DEF BonusOnce
  <2>4. bonusAt \in BOOLEAN
    BY DEF Init
  <2> QED
    BY <2>3, <2>4
<1> QED
  BY <1>3, <1>5, <1>6, <1>9, <1>10 DEF OnceInv

LEMMA OnceStep == OnceInv /\ [Next]_vars => OnceInv'
<1>1. OnceInv /\ Next => OnceInv'
  BY OrdersStep, RequestsStep, PaidStep, BonusStep DEF OnceInv
<1>2. OnceInv /\ UNCHANGED vars => OnceInv'
  BY DEF vars, OnceInv, LotsInv, LotFields, OrdersInv, OrderFields, RequestsInv,
         CashbackPaidOnce, CashbackLots, BonusOnce, BonusLots
<1> QED
  BY <1>1, <1>2

\* Whatever overlaps, an order's cashback is one lot once it is CREDITED and none
\* before, and an account has at most one welcome bonus: the claims that
\* releaseOrderCashback and grantSignupBonus make by compare-and-swap hold up, for
\* any number of orders, transactions, amounts and validities.
THEOREM PromisesPaidOnce == Spec => []PaidOnce
<1>1. OnceInv => PaidOnce
  BY DEF OnceInv, PaidOnce
<1> QED
  BY OnceInit, OnceStep, <1>1, PTL DEF Spec

-----------------------------------------------------------------------------
(* The arithmetic of the lots.                                             *)

\* A function on an interval from 1 is a sequence.
LEMMA Listed ==
    ASSUME NEW S, NEW n \in Nat, NEW f, f = [l \in 1..n |-> f[l]], \A l \in 1..n : f[l] \in S
    PROVE  f \in Seq(S) /\ Len(f) = n /\ DOMAIN f = 1..n
<1>1. f \in [1..n -> S]
  BY Zenon
<1>2. f \in Seq(S) /\ DOMAIN f = 1..n
  BY <1>1
<1> QED
  BY <1>2

LEMMA LotsListed ==
    ASSUME NEW ls \in Seq(LotRows)
    PROVE  /\ Len(ls) \in Nat /\ DOMAIN ls = 1..Len(ls) /\ IsFiniteSet(DOMAIN ls)
           /\ ls = [l \in 1..Len(ls) |-> ls[l]]
           /\ \A l \in DOMAIN ls : /\ ls[l] \in LotRows
                                   /\ ls[l].amount \in Nat /\ ls[l].remaining \in Nat
                                   /\ ls[l].expires \in 1..Never
<1>1. Len(ls) \in Nat /\ DOMAIN ls = 1..Len(ls) /\ ls = [l \in 1..Len(ls) |-> ls[l]]
  OBVIOUS
<1>2. \A l \in DOMAIN ls : ls[l] \in LotRows
  OBVIOUS
<1>3. IsFiniteSet(1..Len(ls))
  <2>1. \A n \in Nat : IsFiniteSet(1..n)
    BY FS_Interval
  <2> QED
    BY <1>1, <2>1
<1>4. \A lot \in LotRows : lot.amount \in Nat /\ lot.remaining \in Nat /\ lot.expires \in 1..Never
  BY DEF LotRows
<1> QED
  BY <1>1, <1>2, <1>3, <1>4

LEMMA FewSpendable ==
    ASSUME NEW ls \in Seq(LotRows), NEW at
    PROVE  /\ Spendable(ls, at) \subseteq DOMAIN ls /\ IsFiniteSet(Spendable(ls, at))
           /\ \A l \in DOMAIN ls : [k \in DOMAIN ls |-> ls[k].remaining][l] = ls[l].remaining
           /\ \A l \in DOMAIN ls : [k \in DOMAIN ls |-> ls[k].remaining][l] \in Nat
  BY LotsListed, FS_Subset DEF Spendable

\* What may be spent is a number.
LEMMA AvailableIsNat ==
    ASSUME NEW ls \in Seq(LotRows), NEW at
    PROVE  Available(ls, at) \in Nat
<1> DEFINE left == [l \in DOMAIN ls |-> ls[l].remaining]
<1>1. IsFiniteSet(Spendable(ls, at)) /\ \A l \in Spendable(ls, at) : left[l] \in Nat
  BY FewSpendable
<1>2. Available(ls, at) = SumFunctionOnSet(left, Spendable(ls, at))
  BY DEF Available
<1> HIDE DEF left
<1> QED
  BY <1>1, <1>2, SumIsNat

\* A lot gives no more than it has.
LEMMA DrawWithin ==
    ASSUME NEW ls \in Seq(LotRows), NEW at, NEW owed \in Nat
    PROVE  /\ DOMAIN Draw(ls, at, owed) = DOMAIN ls
           /\ \A l \in DOMAIN ls : Draw(ls, at, owed)[l] \in 0..ls[l].remaining
<1> DEFINE left == [k \in DOMAIN ls |-> ls[k].remaining]
           earlier(l) == {k \in Spendable(ls, at) : SpentBefore(ls, k, l)}
           before(l) == SumFunctionOnSet(left, earlier(l))
<1>1. ASSUME NEW l \in DOMAIN ls
      PROVE  before(l) \in Nat
  <2>1. IsFiniteSet(earlier(l)) /\ \A k \in earlier(l) : left[k] \in Nat
    BY FewSpendable, FS_Subset
  <2> HIDE DEF left, earlier
  <2> QED
    BY <2>1, SumIsNat
<1>2. /\ DOMAIN Draw(ls, at, owed) = DOMAIN ls
      /\ \A l \in DOMAIN ls :
            Draw(ls, at, owed)[l] = IF l \in Spendable(ls, at) /\ before(l) < owed
                                    THEN Least(ls[l].remaining, owed - before(l)) ELSE 0
  BY DEF Draw
<1> HIDE DEF before
<1> QED
  BY <1>1, <1>2, LotsListed DEF Least

-----------------------------------------------------------------------------
(* What each step does to the lots.                                        *)

LEMMA WalletTyped ==
    ASSUME CreditInv
    PROVE  /\ lots \in Seq(LotRows) /\ Len(lots) \in Nat /\ DOMAIN lots = 1..Len(lots)
           /\ lots = [l \in 1..Len(lots) |-> lots[l]] /\ Len(lots) <= MaxLots
           /\ \A l \in DOMAIN lots : /\ lots[l] \in LotRows /\ l \in Slots
                                     /\ lots[l].amount \in Nat /\ lots[l].remaining \in 0..lots[l].amount
           /\ orders \in [Orders -> OrderRows]
           /\ req = [w \in Workers |-> req[w]]
           /\ now \in 0..Horizon /\ Horizon \in Nat /\ MaxLots \in Nat
           /\ statement \in Int /\ balance \in Nat /\ bonusAt \in BOOLEAN
<1>1. lots \in Seq(LotRows) /\ orders \in [Orders -> OrderRows] /\ now \in 0..Horizon
      /\ Len(lots) <= MaxLots
  BY DEF CreditInv, TypeOK, Instants
<1>2. Horizon \in Nat /\ MaxLots \in Nat
  BY WalletAssumption
<1>3. \A l \in DOMAIN lots : l \in Slots
  BY <1>1, <1>2, LotsListed DEF Slots
<1>4. \A l \in DOMAIN lots : lots[l].remaining \in 0..lots[l].amount
  BY DEF CreditInv, LotsInBounds
<1>5. req = [w \in Workers |-> req[w]] /\ statement \in Int /\ balance \in Nat /\ bonusAt \in BOOLEAN
  BY DEF CreditInv, OnceInv, RequestsInv, TypeOK
<1> QED
  BY <1>1, <1>2, <1>3, <1>4, <1>5, LotsListed

\* What a transaction saw, of lots that are there still.
LEMMA SeenTyped ==
    ASSUME CreditInv, NEW w \in Workers, req[w] # Idle
    PROVE  /\ req[w].seen \in Seq(LotRows) /\ req[w].at \in 0..now
           /\ DOMAIN req[w].seen \subseteq DOMAIN lots
           /\ \A l \in DOMAIN req[w].seen :
                 /\ req[w].seen[l].amount = lots[l].amount /\ req[w].seen[l].amount \in Nat
                 /\ req[w].seen[l].remaining \in 0..lots[l].amount /\ req[w].seen[l].expires \in 1..Never
<1>1. /\ req[w].seen \in Seq(LotRows) /\ req[w].at \in 0..now /\ Len(req[w].seen) <= Len(lots)
      /\ \A l \in DOMAIN req[w].seen : /\ req[w].seen[l].amount = lots[l].amount
                                       /\ req[w].seen[l].remaining <= lots[l].amount
  BY DEF CreditInv, TypeOK, SeenInv
<1>2. PICK seen : seen = req[w].seen
  OBVIOUS
<1>3. /\ Len(seen) \in Nat /\ DOMAIN seen = 1..Len(seen)
      /\ \A l \in DOMAIN seen : seen[l].amount \in Nat /\ seen[l].remaining \in Nat /\ seen[l].expires \in 1..Never
  BY <1>1, <1>2, LotsListed
<1> QED
  BY <1>1, <1>2, <1>3, WalletTyped

\* Every lot there was is still there, for what was credited.
LotsGrow ==
    /\ Len(lots) <= Len(lots')
    /\ \A l \in DOMAIN lots : lots'[l].amount = lots[l].amount

\* The lots there were, some of them rewritten.
Rewritten ==
    /\ DOMAIN lots' = DOMAIN lots
    /\ lots' = [l \in DOMAIN lots |-> lots'[l]]
    /\ \A l \in DOMAIN lots : /\ lots'[l] \in LotRows /\ lots'[l].amount = lots[l].amount
                              /\ lots'[l].remaining <= lots[l].amount

LotsHold == lots \in Seq(LotRows) /\ LotsInBounds

LEMMA LotsRewritten ==
    ASSUME CreditInv, Rewritten
    PROVE  LotsHold' /\ LotsGrow /\ Len(lots') = Len(lots)
<1>1. lots' \in Seq(LotRows) /\ Len(lots') = Len(lots)
  BY WalletTyped, Listed DEF Rewritten
<1>2. \A l \in DOMAIN lots' : lots'[l].remaining \in 0..lots'[l].amount
  BY <1>1, LotsListed DEF Rewritten
<1> QED
  BY <1>1, <1>2, WalletTyped DEF Rewritten, LotsHold, LotsInBounds, LotsGrow

LEMMA LotsAppended ==
    ASSUME CreditInv, NEW lot \in LotRows, lot.remaining <= lot.amount, lots' = Append(lots, lot)
    PROVE  LotsHold' /\ LotsGrow /\ Len(lots') = Len(lots) + 1
<1>1. /\ lots' \in Seq(LotRows) /\ Len(lots') = Len(lots) + 1
      /\ \A l \in 1..Len(lots) : lots'[l] = lots[l]
      /\ lots'[Len(lots) + 1] = lot
  BY WalletTyped
<1>2. \A l \in DOMAIN lots' : lots'[l].remaining \in 0..lots'[l].amount
  BY <1>1, LotsListed, WalletTyped DEF LotRows
<1> QED
  BY <1>1, <1>2, WalletTyped DEF LotsHold, LotsInBounds, LotsGrow

\* A lot that is credited is worth what is credited, and lasts.
LEMMA CreditWrites ==
    ASSUME CreditInv, NEW seen \in Seq(LotRows), NEW at \in 0..now, NEW source \in Sources,
           NEW o \in Orders \cup {NoOrder}, NEW amount \in Nat, Credit(seen, at, source, o, amount)
    PROVE  /\ LotsHold' /\ LotsGrow /\ Len(lots') = Len(lots) + 1
           /\ statement' = statement + amount /\ balance' \in Nat
           /\ \E lot : lots' = Append(lots, lot) /\ lot.remaining = amount /\ lot.amount = amount
<1>1. PICK validity \in Validities :
        LET lot == [source |-> source, of |-> o, amount |-> amount,
                    remaining |-> amount, expires |-> ExpiryFrom(at, validity)]
        IN  lots' = Append(lots, lot) /\ statement' = statement + amount
            /\ balance' = Available(Append(seen, lot), at)
  BY DEF Credit
<1>2. PICK expires : expires = ExpiryFrom(at, validity)
  OBVIOUS
<1>3. expires \in 1..Never
  <2>1. at \in Nat /\ at <= Horizon /\ Horizon \in Nat /\ Grace \in Nat \ {0}
    BY WalletTyped, WalletAssumption
  <2>2. validity = Forever \/ validity \in 1..LongestValidity
    BY WalletAssumption
  <2> QED
    BY <1>2, <2>1, <2>2 DEF ExpiryFrom, Never, LongestValidity
<1> DEFINE lot == [source |-> source, of |-> o, amount |-> amount,
                   remaining |-> amount, expires |-> expires]
<1>4. lot \in LotRows /\ lot.remaining = amount /\ lot.amount = amount
  BY <1>3 DEF LotRows
<1>5. lots' = Append(lots, lot) /\ statement' = statement + amount /\ balance' = Available(Append(seen, lot), at)
  BY <1>1, <1>2
<1> HIDE DEF lot
<1>6. Append(seen, lot) \in Seq(LotRows)
  BY <1>4
<1>7. LotsHold' /\ LotsGrow /\ Len(lots') = Len(lots) + 1
  <2>1. lot.remaining <= lot.amount
    BY <1>4
  <2> QED
    BY <1>4, <1>5, <2>1, LotsAppended
<1>8. balance' \in Nat
  BY <1>5, <1>6, AvailableIsNat
<1> QED
  BY <1>4, <1>5, <1>7, <1>8

-----------------------------------------------------------------------------
(* What each step does to the orders.                                      *)

LEMMA FewSlots == IsFiniteSet(Slots)
<1>1. \A n \in Nat : IsFiniteSet(1..n)
  BY FS_Interval
<1> QED
  BY <1>1, WalletAssumption DEF Slots

LEMMA OrderPlaced ==
    ASSUME orders \in [Orders -> OrderRows], NEW o \in Orders, NEW uses \in [Slots -> Nat], Placed(o, uses)
    PROVE  /\ orders' \in [Orders -> OrderRows]
           /\ \A p \in Orders : p # o => orders'[p] = orders[p]
           /\ orders'[o].status = "PLACED" /\ orders'[o].uses = uses
           /\ orders'[o].cashback = IF Cashback[o] > 0 THEN "PENDING" ELSE "NONE"
<1> DEFINE cb == IF Cashback[o] > 0 THEN "PENDING" ELSE "NONE"
           one == [orders[o] EXCEPT !.status = "PLACED"]
           two == [one EXCEPT !.cashback = cb]
           row == [two EXCEPT !.uses = uses]
<1>0. orders[o] \in OrderRows /\ cb \in {"PENDING", "NONE"}
  OBVIOUS
<1>1. one \in OrderRows /\ one.status = "PLACED"
  BY <1>0 DEF OrderRows
<1> HIDE DEF one
<1>2. two \in OrderRows /\ two.status = "PLACED" /\ two.cashback = cb
  BY <1>0, <1>1 DEF OrderRows
<1> HIDE DEF two
<1>3. row \in OrderRows /\ row.status = "PLACED" /\ row.cashback = cb /\ row.uses = uses
  BY <1>2 DEF OrderRows
<1>4. orders' = [orders EXCEPT ![o] = row]
  BY DEF Placed, row, two, one
<1> HIDE DEF row
<1> QED
  BY <1>3, <1>4

LEMMA OrderCancelled ==
    ASSUME orders \in [Orders -> OrderRows], NEW o \in Orders,
           orders' = [orders EXCEPT ![o].status = "CANCELLED",
                                    ![o].cashback = IF @ = "PENDING" THEN "VOIDED" ELSE @]
    PROVE  /\ orders' \in [Orders -> OrderRows]
           /\ \A p \in Orders : p # o => orders'[p] = orders[p]
           /\ orders'[o].status = "CANCELLED" /\ orders'[o].uses = orders[o].uses
           /\ orders'[o].cashback # "PENDING"
<1> DEFINE cb == IF orders[o].cashback = "PENDING" THEN "VOIDED" ELSE orders[o].cashback
           one == [orders[o] EXCEPT !.status = "CANCELLED"]
           row == [one EXCEPT !.cashback = cb]
<1>0. orders[o] \in OrderRows /\ cb \in {"NONE", "PENDING", "CREDITED", "VOIDED"} /\ cb # "PENDING"
  BY DEF OrderRows
<1>1. one \in OrderRows /\ one.status = "CANCELLED" /\ one.uses = orders[o].uses
  BY <1>0 DEF OrderRows
<1> HIDE DEF one
<1>2. row \in OrderRows /\ row.status = "CANCELLED" /\ row.cashback = cb /\ row.uses = orders[o].uses
  BY <1>0, <1>1 DEF OrderRows
<1>3. orders' = [orders EXCEPT ![o] = row]
  BY <1>0 DEF row, one, OrderRows
<1> HIDE DEF row
<1> QED
  BY <1>0, <1>2, <1>3

LEMMA OrderCredited ==
    ASSUME orders \in [Orders -> OrderRows], NEW o \in Orders,
           orders' = [orders EXCEPT ![o].cashback = "CREDITED"]
    PROVE  /\ orders' \in [Orders -> OrderRows]
           /\ \A p \in Orders : p # o => orders'[p] = orders[p]
           /\ orders'[o].status = orders[o].status /\ orders'[o].uses = orders[o].uses
           /\ orders'[o].cashback = "CREDITED"
<1> DEFINE row == [orders[o] EXCEPT !.cashback = "CREDITED"]
<1>1. row \in OrderRows /\ row.status = orders[o].status /\ row.cashback = "CREDITED" /\ row.uses = orders[o].uses
  BY DEF OrderRows
<1>2. orders' = [orders EXCEPT ![o] = row]
  OBVIOUS
<1> HIDE DEF row
<1> QED
  BY <1>1, <1>2

LEMMA OrderDelivered ==
    ASSUME CreditInv, NEW o \in Orders, Deliver(o)
    PROVE  /\ orders' \in [Orders -> OrderRows]
           /\ \A p \in Orders : p # o => orders'[p] = orders[p]
           /\ orders'[o].status = "DELIVERED" /\ orders'[o].uses = orders[o].uses
           /\ orders'[o].cashback = orders[o].cashback
<1> DEFINE at == IF orders[o].cashback = "PENDING" THEN now + Hold ELSE orders[o].releaseAt
           one == [orders[o] EXCEPT !.status = "DELIVERED"]
           row == [one EXCEPT !.releaseAt = at]
<1>0. orders[o] \in OrderRows /\ at \in Nat
  BY WalletTyped, WalletAssumption DEF OrderRows
<1>1. /\ one \in OrderRows /\ one.status = "DELIVERED" /\ one.uses = orders[o].uses
      /\ one.cashback = orders[o].cashback
  BY <1>0 DEF OrderRows
<1>3. orders' = [orders EXCEPT ![o] = row]
  BY <1>0, WalletTyped DEF Deliver, OrderRows
<1> HIDE DEF one, at
<1>2. /\ row \in OrderRows /\ row.status = "DELIVERED" /\ row.uses = orders[o].uses
      /\ row.cashback = orders[o].cashback
  BY <1>0, <1>1 DEF OrderRows
<1> HIDE DEF row
<1> QED
  BY <1>2, <1>3, WalletTyped

-----------------------------------------------------------------------------
(* The bound leaves room.                                                  *)

LEMMA FewAwaited ==
    /\ IsFiniteSet(Awaited) /\ Cardinality(Awaited) \in Nat
    /\ IsFiniteSet(Awaited') /\ Cardinality(Awaited') \in Nat
<1>1. Awaited \subseteq Orders /\ Awaited' \subseteq Orders /\ IsFiniteSet(Orders)
  BY WalletAssumption DEF Awaited
<1> QED
  BY <1>1, FS_Subset, FS_CardinalityType

LEMMA RoomKept ==
    ASSUME CreditInv, Len(lots') = Len(lots), Awaited' \subseteq Awaited, bonusAt' \in BOOLEAN, bonusAt => bonusAt'
    PROVE  Room'
<1>1. Cardinality(Awaited') <= Cardinality(Awaited)
  BY FewAwaited, FS_Subset
<1> QED
  BY <1>1, FewAwaited, WalletTyped DEF CreditInv, Room, Promised

LEMMA RoomForCashback ==
    ASSUME CreditInv, Len(lots') = Len(lots) + 1, NEW o \in Awaited, Awaited' \subseteq Awaited \ {o},
           bonusAt' = bonusAt
    PROVE  Room'
<1>1. Cardinality(Awaited') <= Cardinality(Awaited) - 1
  BY FewAwaited, FS_Subset, FS_RemoveElement
<1> QED
  BY <1>1, FewAwaited, WalletTyped DEF CreditInv, Room, Promised

LEMMA RoomForBonus ==
    ASSUME CreditInv, Len(lots') = Len(lots) + 1, Awaited' = Awaited, ~bonusAt, bonusAt'
    PROVE  Room'
  BY FewAwaited, WalletTyped DEF CreditInv, Room, Promised

-----------------------------------------------------------------------------
(* What each step does to the transactions in flight.                      *)

RequestsTyped ==
    /\ DOMAIN req = Workers
    /\ \A w \in Workers : req[w] # Idle =>
          req[w].kind \in Kinds /\ req[w].seen \in Seq(LotRows) /\ req[w].at \in 0 .. now

\* A step that leaves the transactions it finds, or ends one, where none that
\* saw what it changes goes on unless they may overlap.
LEMMA SeenKept ==
    ASSUME CreditInv, LotsGrow, LotsHold', req' = [v \in Workers |-> req'[v]],
           Overlap \/ lots' = lots \/ \A v \in Workers : req'[v] = Idle,
           \A v \in Workers : req'[v] # Idle => req'[v] = req[v],
           now' \in Nat, now <= now'
    PROVE  SeenInv' /\ RequestsTyped'
<1>1. ASSUME NEW w \in Workers, req'[w] # Idle
      PROVE  /\ req'[w].kind \in Kinds /\ req'[w].seen \in Seq(LotRows) /\ req'[w].at \in 0 .. now'
             /\ Len(req'[w].seen) <= Len(lots')
             /\ \A l \in DOMAIN req'[w].seen : /\ req'[w].seen[l].amount = lots'[l].amount
                                               /\ req'[w].seen[l].remaining <= lots'[l].amount
             /\ ~Overlap => req'[w].seen = lots' /\ \A v \in Workers : req'[v] # Idle => v = w
  <2>1. req'[w] = req[w] /\ req[w] # Idle
    BY <1>1
  <2>2. PICK r : r = req[w]
    OBVIOUS
  <2>3. /\ r.kind \in Kinds /\ r.seen \in Seq(LotRows) /\ r.at \in 0 .. now /\ Len(r.seen) <= Len(lots)
        /\ \A l \in DOMAIN r.seen : r.seen[l].amount = lots[l].amount /\ r.seen[l].remaining <= lots[l].amount
        /\ ~Overlap => r.seen = lots /\ \A v \in Workers : req[v] # Idle => v = w
    BY <2>1, <2>2 DEF CreditInv, SeenInv, TypeOK
  <2>4. DOMAIN r.seen \subseteq DOMAIN lots
    BY <2>1, <2>2, SeenTyped
  <2>5. Len(r.seen) \in Nat /\ Len(lots) \in Nat /\ Len(lots') \in Nat /\ Len(lots) <= Len(lots')
    BY <2>3, WalletTyped, LotsListed DEF LotsGrow, LotsHold
  <2>6. Len(r.seen) <= Len(lots')
    BY <2>3, <2>5
  <2>7. ~Overlap => r.seen = lots' /\ \A v \in Workers : req'[v] # Idle => v = w
    BY <1>1, <2>3
  <2>8. r.at \in 0 .. now'
    BY <2>3, WalletTyped
  <2>9. \A l \in DOMAIN r.seen : r.seen[l].amount = lots'[l].amount /\ r.seen[l].remaining <= lots'[l].amount
    BY <2>3, <2>4 DEF LotsGrow
  <2> QED
    BY <2>1, <2>2, <2>3, <2>6, <2>7, <2>8, <2>9
<1> QED
  BY <1>1 DEF SeenInv, RequestsTyped

\* A commit frees its transaction; where they do not overlap none is left.
LEMMA CommitAlone ==
    ASSUME CreditInv, NEW w \in Workers, req[w] # Idle, Finish(w)
    PROVE  /\ req' = [v \in Workers |-> req'[v]]
           /\ req'[w] = Idle /\ \A v \in Workers : v # w => req'[v] = req[v]
           /\ \A v \in Workers : req'[v] # Idle => req'[v] = req[v]
           /\ Overlap \/ \A v \in Workers : req'[v] = Idle
<1>1. /\ req' = [v \in Workers |-> req'[v]]
      /\ req'[w] = Idle /\ \A v \in Workers : v # w => req'[v] = req[v]
  BY FinishStep DEF CreditInv, OnceInv
<1>2. ~Overlap => \A v \in Workers : req[v] # Idle => v = w
  BY DEF CreditInv, SeenInv
<1> QED
  BY <1>1, <1>2

\* A step by hand, or of the job, waits for the transactions it may not overlap.
LEMMA HandAlone ==
    ASSUME CreditInv, MayStart, req' = req
    PROVE  /\ req' = [v \in Workers |-> req'[v]]
           /\ \A v \in Workers : req'[v] # Idle => req'[v] = req[v]
           /\ Overlap \/ \A v \in Workers : req'[v] = Idle
  BY WalletTyped DEF MayStart, Quiet

\* A transaction begins with what there is.
LEMMA StartSees ==
    ASSUME CreditInv, NEW w \in Workers, NEW kind \in Kinds, NEW o, Start(w, kind, o)
    PROVE  /\ SeenInv' /\ RequestsTyped'
           /\ req'[w] # Idle /\ req'[w].kind = kind /\ req'[w].order = o
           /\ \A v \in Workers : v # w => req'[v] = req[v]
           /\ UNCHANGED <<now, lots, orders, statement, balance, bonusAt>>
<1> DEFINE r == [kind |-> kind, order |-> o, seen |-> lots, at |-> now, numbered |-> PlacedOrders]
<1>1. /\ req' = [req EXCEPT ![w] = r] /\ UNCHANGED <<now, lots, orders, statement, balance, bonusAt>>
      /\ Overlap \/ \A v \in Workers : req[v] = Idle
  BY DEF Start, MayStart, Quiet
<1>2. r.kind = kind /\ r.order = o /\ r.seen = lots /\ r.at = now /\ r # Idle
  BY DEF Idle, Kinds
<1> HIDE DEF r
<1>3. req'[w] = r /\ \A v \in Workers : v # w => req'[v] = req[v]
  BY <1>1, WalletTyped
<1>4. RequestsTyped'
  BY <1>1, <1>2, <1>3, WalletTyped DEF RequestsTyped, CreditInv, TypeOK
<1>5. SeenInv'
  <2>1. \A l \in DOMAIN lots : lots[l].remaining <= lots[l].amount
    BY WalletTyped
  <2>2. Len(lots) \in Nat
    BY WalletTyped
  <2> QED
    BY <1>1, <1>2, <1>3, <2>1, <2>2 DEF SeenInv, CreditInv
<1> QED
  BY <1>1, <1>2, <1>3, <1>4, <1>5

LEMMA CancelsKept ==
    ASSUME CreditInv, \A v \in Workers : req'[v] # Idle => req'[v] = req[v],
           \A p \in Orders : orders[p].status = "PLACED" =>
               \/ orders'[p].status = "PLACED"
               \/ \A v \in Workers : req'[v] # Idle /\ req'[v].kind = "cancel" => req'[v].order # p
    PROVE  CancelsInv'
<1>1. \A v \in Workers : req[v] # Idle /\ req[v].kind = "cancel" => req[v].order \in Orders
  BY DEF CreditInv, OnceInv, RequestsInv
<1> QED
  BY <1>1 DEF CreditInv, CancelsInv

\* One order is rewritten, and is placed by then.
LEMMA UsesKept ==
    ASSUME CreditInv, LotsGrow, Len(lots') \in Nat, NEW o \in Orders,
           \A p \in Orders : p # o => orders'[p] = orders[p],
           orders'[o].status # "none", \A l \in Slots : l > Len(lots) => orders'[o].uses[l] = 0
    PROVE  UsesInv'
<1>1. \A l \in Slots : l > Len(lots') => l > Len(lots)
  BY WalletTyped DEF LotsGrow, Slots
<1> QED
  BY <1>1 DEF CreditInv, UsesInv

LEMMA UsesRest ==
    ASSUME CreditInv, LotsGrow, Len(lots') \in Nat, orders' = orders
    PROVE  UsesInv'
<1>1. \A l \in Slots : l > Len(lots') => l > Len(lots)
  BY WalletTyped DEF LotsGrow, Slots
<1> QED
  BY <1>1 DEF CreditInv, UsesInv

LEMMA LotsRest ==
    ASSUME CreditInv, lots' = lots
    PROVE  LotsHold' /\ LotsGrow /\ Len(lots') = Len(lots) /\ Len(lots') \in Nat
  BY WalletTyped DEF LotsHold, LotsGrow, CreditInv, LotsInBounds

\* The parts of the invariant, put together.
LEMMA CreditHolds ==
    ASSUME OnceInv', Room', SeenInv', RequestsTyped', UsesInv', CancelsInv', LotsHold',
           now' \in Instants, orders' \in [Orders -> OrderRows], statement' \in Int, balance' \in Nat,
           bonusAt' \in BOOLEAN
    PROVE  CreditInv'
<1>1. Len(lots') <= MaxLots
  <2>1. Len(lots') \in Nat /\ MaxLots \in Nat
    BY LotsListed, WalletAssumption DEF LotsHold
  <2> QED
    BY <2>1, FewAwaited DEF Room, Promised
<1> QED
  BY <1>1 DEF CreditInv, TypeOK, RequestsTyped, LotsHold

-----------------------------------------------------------------------------
(* The steps.                                                              *)

LEMMA StartCredit ==
    ASSUME CreditInv, OnceInv', NEW w \in Workers,
           StartBonus(w) \/ \E o \in Orders : StartSpend(w, o) \/ StartCancel(w, o) \/ StartRelease(w, o)
    PROVE  CreditInv'
<1>1. PICK kind, p :
         /\ kind \in Kinds /\ Start(w, kind, p)
         /\ kind = "cancel" => p \in Orders /\ orders[p].status = "PLACED" /\ ~ Doing("cancel", p)
  BY DEF StartSpend, StartCancel, StartRelease, StartBonus, Kinds
<1>2. /\ SeenInv' /\ RequestsTyped'
      /\ req'[w] # Idle /\ req'[w].kind = kind /\ req'[w].order = p
      /\ \A v \in Workers : v # w => req'[v] = req[v]
      /\ UNCHANGED <<now, lots, orders, statement, balance, bonusAt>>
  BY <1>1, StartSees
<1>3. CancelsInv'
  BY <1>1, <1>2 DEF CreditInv, CancelsInv, Doing
<1>4. LotsHold' /\ UsesInv' /\ Room'
  BY <1>2, LotsRest, UsesRest DEF CreditInv, Room, Promised, Awaited
<1> QED
  BY <1>2, <1>3, <1>4, CreditHolds, WalletTyped DEF Instants

LEMMA AbandonCredit ==
    ASSUME CreditInv, OnceInv', NEW w \in Workers, Abandon(w)
    PROVE  CreditInv'
<1>1. /\ req[w] # Idle /\ Finish(w) /\ UNCHANGED <<now, lots, orders, statement, balance, bonusAt>>
  BY DEF Abandon, Idle
<1>2. LotsHold' /\ LotsGrow /\ Len(lots') = Len(lots) /\ Len(lots') \in Nat
  BY <1>1, LotsRest
<1>3. SeenInv' /\ RequestsTyped'
  BY <1>1, <1>2, CommitAlone, SeenKept, WalletTyped
<1>4. CancelsInv'
  BY <1>1, CommitAlone, CancelsKept
<1>5. UsesInv' /\ Room'
  BY <1>1, <1>2, UsesRest DEF CreditInv, Room, Promised, Awaited
<1> QED
  BY <1>1, <1>2, <1>3, <1>4, <1>5, CreditHolds, WalletTyped DEF Instants

\* Placing an order rewrites lots for less than they had.
LEMMA SpendWrites ==
    ASSUME CreditInv, NEW w \in Workers, req[w].kind = "spend", req[w] # Idle,
           NEW amount \in Nat, SpendFrom(req[w].order, req[w].seen, req[w].at, amount)
    PROVE  /\ Rewritten /\ statement' = statement - amount /\ balance' \in Nat
           /\ \E uses \in [Slots -> Nat] :
                 /\ Placed(req[w].order, uses)
                 /\ \A l \in Slots : l > Len(lots) => uses[l] = 0
<1>1. PICK seen : seen = req[w].seen
  OBVIOUS
<1>2. PICK take : take = Draw(seen, req[w].at, amount)
  OBVIOUS
<1> DEFINE touched == {l \in DOMAIN seen : take[l] > 0}
           written == [l \in DOMAIN lots |->
                          IF l \in touched THEN [lots[l] EXCEPT !.remaining = seen[l].remaining - take[l]]
                          ELSE lots[l]]
           uses == [l \in Slots |-> IF l \in touched THEN take[l] ELSE 0]
<1>3. /\ lots' = written /\ statement' = statement - amount
      /\ balance' = Available(ReadBack(seen, touched, written), req[w].at)
      /\ Placed(req[w].order, uses)
  BY <1>1, <1>2 DEF SpendFrom
<1>4. /\ seen \in Seq(LotRows) /\ DOMAIN seen \subseteq DOMAIN lots
      /\ \A l \in DOMAIN seen : seen[l].remaining \in 0..lots[l].amount /\ seen[l] \in LotRows
  BY <1>1, SeenTyped, LotsListed
<1>5. \A l \in DOMAIN seen : take[l] \in 0..seen[l].remaining
  BY <1>1, <1>2, <1>4, DrawWithin
<1>6. ASSUME NEW l \in DOMAIN lots
      PROVE  /\ written[l] \in LotRows /\ written[l].amount = lots[l].amount
             /\ written[l].remaining <= lots[l].amount
  <2>1. CASE l \in touched
    <3>1. PICK left \in Nat : left = seen[l].remaining - take[l] /\ left <= lots[l].amount
      BY <1>4, <1>5, <2>1, WalletTyped, SMTT(30)
    <3>2. written[l] = [lots[l] EXCEPT !.remaining = left]
      BY <2>1, <3>1
    <3> HIDE DEF written
    <3> QED
      BY <3>1, <3>2, WalletTyped DEF LotRows
  <2>2. CASE l \notin touched
    BY <2>2, WalletTyped
  <2> QED
    BY <2>1, <2>2
<1>7. Rewritten
  <2>1. DOMAIN written = DOMAIN lots /\ written = [l \in DOMAIN lots |-> written[l]]
    OBVIOUS
  <2> HIDE DEF written
  <2> QED
    BY <1>3, <1>6, <2>1 DEF Rewritten
<1>8. balance' \in Nat
  <2> DEFINE back == ReadBack(seen, touched, written)
  <2>1. /\ back = [l \in 1..Len(seen) |-> back[l]]
        /\ \A l \in 1..Len(seen) : back[l] = IF l \in touched THEN written[l] ELSE seen[l]
    BY <1>4, LotsListed DEF ReadBack
  <2>2. \A l \in 1..Len(seen) : back[l] \in LotRows
    <3> HIDE DEF written, back
    <3> QED
      BY <1>4, <1>6, <2>1, LotsListed
  <2> HIDE DEF back
  <2>3. back \in Seq(LotRows)
    BY <1>4, <2>1, <2>2, LotsListed, Listed
  <2>4. Available(back, req[w].at) \in Nat
    BY <2>3, AvailableIsNat
  <2> QED
    BY <1>3, <2>4 DEF back
<1>9. uses \in [Slots -> Nat] /\ \A l \in Slots : l > Len(lots) => uses[l] = 0
  <2>1. \A l \in Slots : (IF l \in touched THEN take[l] ELSE 0) \in Nat
    BY <1>4, <1>5, WalletTyped
  <2>2. \A l \in touched : l <= Len(lots)
    BY <1>4, WalletTyped
  <2>3. \A l \in Slots : l > Len(lots) => l \notin touched
    BY <2>2, WalletTyped DEF Slots
  <2> QED
    BY <2>1, <2>3
<1> QED
  BY <1>3, <1>7, <1>8, <1>9

LEMMA PlacedCredit ==
    ASSUME CreditInv, OnceInv', NEW w \in Workers, req[w] # Idle, req[w].kind = "spend", Finish(w),
           Rewritten, NEW uses \in [Slots -> Nat], \A l \in Slots : l > Len(lots) => uses[l] = 0,
           Placed(req[w].order, uses), statement' \in Int, balance' \in Nat,
           now' = now, bonusAt' = bonusAt
    PROVE  CreditInv'
<1>1. PICK o \in Orders : o = req[w].order /\ orders[o].status = "none"
  BY DEF CreditInv, OnceInv, RequestsInv
<1>2. /\ orders' \in [Orders -> OrderRows]
      /\ \A p \in Orders : p # o => orders'[p] = orders[p]
      /\ orders'[o].status = "PLACED" /\ orders'[o].uses = uses
      /\ orders'[o].cashback = IF Cashback[o] > 0 THEN "PENDING" ELSE "NONE"
  BY <1>1, OrderPlaced, WalletTyped
<1>3. LotsHold' /\ LotsGrow /\ Len(lots') = Len(lots) /\ Len(lots') \in Nat
  BY LotsRewritten, WalletTyped
<1>4. SeenInv' /\ RequestsTyped'
  BY <1>3, CommitAlone, SeenKept, WalletTyped
<1>5. CancelsInv'
  BY <1>1, <1>2, CommitAlone, CancelsKept
<1>6. UsesInv'
  BY <1>2, <1>3, UsesKept
<1>7. Room'
  <2>1. Awaited' \subseteq Awaited
    BY <1>1, <1>2 DEF Awaited
  <2> QED
    BY <1>3, <2>1, RoomKept, WalletTyped
<1> QED
  BY <1>2, <1>3, <1>4, <1>5, <1>6, <1>7, CreditHolds, WalletTyped DEF Instants

\* Nothing is rewritten.
LEMMA RestRewritten ==
    ASSUME CreditInv, lots' = lots
    PROVE  Rewritten
  BY WalletTyped DEF Rewritten

LEMMA SpendCredit ==
    ASSUME CreditInv, OnceInv', NEW w \in Workers, Spend(w)
    PROVE  CreditInv'
<1>1. req[w] # Idle /\ req[w].kind = "spend" /\ Finish(w) /\ now' = now /\ bonusAt' = bonusAt
  BY DEF Spend, Idle
<1>2. CASE \E amount \in 0 .. Available(req[w].seen, req[w].at) :
             SpendFrom(req[w].order, req[w].seen, req[w].at, amount)
  <2>1. PICK amount \in Nat : SpendFrom(req[w].order, req[w].seen, req[w].at, amount)
    BY <1>1, <1>2, SeenTyped, AvailableIsNat
  <2>2. PICK uses \in [Slots -> Nat] :
           Placed(req[w].order, uses) /\ \A l \in Slots : l > Len(lots) => uses[l] = 0
    BY <1>1, <2>1, SpendWrites
  <2>3. Rewritten /\ statement' \in Int /\ balance' \in Nat
    BY <1>1, <2>1, SpendWrites, WalletTyped
  <2> QED
    BY <1>1, <2>2, <2>3, PlacedCredit
<1>3. CASE Placed(req[w].order, [l \in Slots |-> 0]) /\ UNCHANGED <<lots, statement, balance>>
  <2>1. [l \in Slots |-> 0] \in [Slots -> Nat] /\ \A l \in Slots : [k \in Slots |-> 0][l] = 0
    OBVIOUS
  <2>2. Rewritten /\ statement' \in Int /\ balance' \in Nat
    BY <1>3, RestRewritten, WalletTyped
  <2> QED
    BY <1>1, <1>3, <2>1, <2>2, PlacedCredit
<1> QED
  BY <1>2, <1>3 DEF Spend

\* A cancelled order gives back no more than was credited.
LEMMA CancelWrites ==
    ASSUME CreditInv, NEW w \in Workers, Cancel(w)
    PROVE  /\ Rewritten /\ balance' \in Nat
           /\ statement' = statement + SumFunctionOnSet(orders[req[w].order].uses, Slots)
           /\ statement' \in Int
<1>1. PICK o \in Orders : o = req[w].order
  BY DEF Cancel, Idle, CreditInv, OnceInv, RequestsInv
<1>2. PICK seen : seen = req[w].seen /\ req[w] # Idle
  BY DEF Cancel, Idle
<1>3. PICK uses \in [Slots -> Nat] : uses = orders[o].uses
  BY WalletTyped DEF OrderRows
<1> DEFINE touched == {l \in DOMAIN seen : uses[l] > 0}
           written == [l \in DOMAIN lots |->
                          IF l \in touched THEN Restored(lots[l], seen[l], uses[l], now) ELSE lots[l]]
<1>4. /\ lots' = written /\ statement' = statement + SumFunctionOnSet(uses, Slots)
      /\ balance' = IF touched = {} THEN balance ELSE Available(ReadBack(seen, touched, written), now)
  BY <1>1, <1>2, <1>3 DEF Cancel
<1>5. /\ seen \in Seq(LotRows) /\ DOMAIN seen \subseteq DOMAIN lots
      /\ \A l \in DOMAIN seen : /\ seen[l].remaining \in 0..lots[l].amount /\ seen[l].amount = lots[l].amount
                                /\ seen[l] \in LotRows
  BY <1>2, SeenTyped, LotsListed
<1>6. now + Grace \in 1..Never
  BY WalletTyped, WalletAssumption, SMTT(30) DEF Never, LongestValidity
<1>7. ASSUME NEW l \in DOMAIN lots
      PROVE  /\ written[l] \in LotRows /\ written[l].amount = lots[l].amount
             /\ written[l].remaining <= lots[l].amount
  <2>1. CASE l \in touched
    <3>1. PICK back \in Nat : back = Least(seen[l].amount, seen[l].remaining + uses[l]) /\ back <= lots[l].amount
      BY <1>5, <2>1, WalletTyped DEF Least
    <3>2. PICK expires \in 1..Never : expires = IF seen[l].expires <= now THEN now + Grace ELSE lots[l].expires
      BY <1>6, LotsListed, WalletTyped
    <3> DEFINE some == [lots[l] EXCEPT !.remaining = back]
    <3>3. some \in LotRows /\ some.remaining = back /\ some.amount = lots[l].amount
      BY WalletTyped DEF LotRows
    <3>4. written[l] = [some EXCEPT !.expires = expires]
      BY <2>1, <3>1, <3>2, WalletTyped DEF Restored, LotRows
    <3> HIDE DEF written, some
    <3> QED
      BY <3>1, <3>3, <3>4 DEF LotRows
  <2>2. CASE l \notin touched
    BY <2>2, WalletTyped
  <2> QED
    BY <2>1, <2>2
<1>8. Rewritten
  <2>1. DOMAIN written = DOMAIN lots /\ written = [l \in DOMAIN lots |-> written[l]]
    OBVIOUS
  <2> HIDE DEF written
  <2> QED
    BY <1>4, <1>7, <2>1 DEF Rewritten
<1>9. balance' \in Nat
  <2> DEFINE back == ReadBack(seen, touched, written)
  <2>1. /\ back = [l \in 1..Len(seen) |-> back[l]]
        /\ \A l \in 1..Len(seen) : back[l] = IF l \in touched THEN written[l] ELSE seen[l]
    BY <1>5, LotsListed DEF ReadBack
  <2>2. \A l \in 1..Len(seen) : back[l] \in LotRows
    <3> HIDE DEF written, back
    <3> QED
      BY <1>5, <1>7, <2>1, LotsListed
  <2> HIDE DEF back
  <2>3. back \in Seq(LotRows)
    BY <1>5, <2>1, <2>2, LotsListed, Listed
  <2>4. Available(back, now) \in Nat
    BY <2>3, AvailableIsNat
  <2>5. balance' = balance \/ balance' = Available(back, now)
    BY <1>4 DEF back
  <2> QED
    BY <2>4, <2>5, WalletTyped
<1>10. SumFunctionOnSet(uses, Slots) \in Nat
  BY FewSlots, SumIsNat
<1> QED
  BY <1>1, <1>3, <1>4, <1>8, <1>9, <1>10, WalletTyped

LEMMA CancelCredit ==
    ASSUME CreditInv, OnceInv', NEW w \in Workers, Cancel(w)
    PROVE  CreditInv'
<1>1. PICK o \in Orders :
         /\ o = req[w].order /\ req[w] # Idle /\ req[w].kind = "cancel" /\ orders[o].status = "PLACED"
         /\ \A v \in Workers : req[v] # Idle /\ req[v].kind = "cancel" /\ req[v].order = o => v = w
  BY SMTT(30) DEF Cancel, Idle, CreditInv, OnceInv, RequestsInv, CancelsInv
<1>2. /\ orders' = [orders EXCEPT ![o].status = "CANCELLED",
                                  ![o].cashback = IF @ = "PENDING" THEN "VOIDED" ELSE @]
      /\ Finish(w) /\ now' = now /\ bonusAt' = bonusAt
  BY <1>1 DEF Cancel
<1>3. /\ orders' \in [Orders -> OrderRows]
      /\ \A p \in Orders : p # o => orders'[p] = orders[p]
      /\ orders'[o].status = "CANCELLED" /\ orders'[o].uses = orders[o].uses /\ orders'[o].cashback # "PENDING"
  BY <1>2, OrderCancelled, WalletTyped
<1>4. Rewritten /\ balance' \in Nat /\ statement' \in Int
  BY CancelWrites
<1>5. LotsHold' /\ LotsGrow /\ Len(lots') = Len(lots) /\ Len(lots') \in Nat
  BY <1>4, LotsRewritten, WalletTyped
<1>6. SeenInv' /\ RequestsTyped'
  BY <1>1, <1>2, <1>5, CommitAlone, SeenKept, WalletTyped
<1>7. CancelsInv'
  <2>1. \A v \in Workers : req'[v] # Idle /\ req'[v].kind = "cancel" => req'[v].order # o
    BY <1>1, <1>2, CommitAlone
  <2> QED
    BY <1>1, <1>2, <1>3, <2>1, CommitAlone, CancelsKept
<1>8. UsesInv'
  BY <1>3, <1>5, UsesKept DEF CreditInv, UsesInv
<1>9. Room'
  <2>1. Awaited' \subseteq Awaited
    BY <1>3 DEF Awaited
  <2> QED
    BY <1>2, <1>5, <2>1, RoomKept, WalletTyped
<1> QED
  BY <1>2, <1>3, <1>4, <1>5, <1>6, <1>7, <1>8, <1>9, CreditHolds, WalletTyped DEF Instants

LEMMA ReleaseCredit ==
    ASSUME CreditInv, OnceInv', NEW w \in Workers, Release(w)
    PROVE  CreditInv'
<1>1. PICK o \in Orders : o = req[w].order /\ req[w] # Idle /\ req[w].kind = "release"
  BY DEF Release, Idle, CreditInv, OnceInv, RequestsInv
<1>2. Finish(w) /\ now' = now /\ bonusAt' = bonusAt
  BY DEF Release
<1>3. CASE ~ Claimed(o)
  <2>1. UNCHANGED <<orders, lots, statement, balance>>
    BY <1>1, <1>3 DEF Release
  <2>2. LotsHold' /\ LotsGrow /\ Len(lots') = Len(lots) /\ Len(lots') \in Nat
    BY <2>1, LotsRest
  <2>3. SeenInv' /\ RequestsTyped'
    BY <1>1, <1>2, <2>2, CommitAlone, SeenKept, WalletTyped
  <2>4. CancelsInv'
    BY <1>1, <1>2, <2>1, CommitAlone, CancelsKept
  <2>5. UsesInv' /\ Room'
    BY <1>2, <2>1, <2>2, UsesRest DEF CreditInv, Room, Promised, Awaited
  <2> QED
    BY <1>2, <2>1, <2>2, <2>3, <2>4, <2>5, CreditHolds, WalletTyped DEF Instants
<1>4. CASE Claimed(o)
  <2>1. /\ orders' = [orders EXCEPT ![o].cashback = "CREDITED"]
        /\ Credit(req[w].seen, req[w].at, "CASHBACK", o, Cashback[o])
    BY <1>1, <1>4 DEF Release
  <2>2. /\ orders' \in [Orders -> OrderRows]
        /\ \A p \in Orders : p # o => orders'[p] = orders[p]
        /\ orders'[o].status = orders[o].status /\ orders'[o].uses = orders[o].uses
        /\ orders'[o].cashback = "CREDITED"
    BY <2>1, OrderCredited, WalletTyped
  <2>3. /\ LotsHold' /\ LotsGrow /\ Len(lots') = Len(lots) + 1
        /\ statement' = statement + Cashback[o] /\ balance' \in Nat
    BY <1>1, <2>1, SeenTyped, CreditWrites, WalletAssumption DEF Sources
  <2>4. Len(lots') \in Nat /\ statement' \in Int
    BY <2>3, WalletTyped, WalletAssumption
  <2>5. SeenInv' /\ RequestsTyped'
    BY <1>1, <1>2, <2>3, CommitAlone, SeenKept, WalletTyped
  <2>6. CancelsInv'
    BY <1>1, <1>2, <2>2, CommitAlone, CancelsKept
  <2>7. UsesInv'
    BY <1>4, <2>2, <2>3, <2>4, UsesKept DEF CreditInv, UsesInv, Claimed
  <2>8. Room'
    <3>1. o \in Awaited /\ Awaited' \subseteq Awaited \ {o}
      BY <1>4, <2>2 DEF Awaited, Claimed
    <3> QED
      BY <1>2, <2>3, <3>1, RoomForCashback
  <2> QED
    BY <1>2, <2>2, <2>3, <2>4, <2>5, <2>6, <2>7, <2>8, CreditHolds, WalletTyped DEF Instants
<1> QED
  BY <1>3, <1>4

LEMMA BonusCredit ==
    ASSUME CreditInv, OnceInv', NEW w \in Workers, GrantBonus(w)
    PROVE  CreditInv'
<1>1. req[w] # Idle /\ Finish(w) /\ now' = now /\ orders' = orders /\ (bonusAt' = bonusAt \/ bonusAt' = TRUE)
  BY DEF GrantBonus, Idle
<1>2. CASE lots' = lots /\ statement' = statement /\ balance' = balance
  <2>2. LotsHold' /\ LotsGrow /\ Len(lots') = Len(lots) /\ Len(lots') \in Nat
    BY <1>2, LotsRest
  <2>3. SeenInv' /\ RequestsTyped'
    BY <1>1, <2>2, CommitAlone, SeenKept, WalletTyped
  <2>4. CancelsInv'
    BY <1>1, CommitAlone, CancelsKept
  <2>5. UsesInv'
    BY <1>1, <2>2, UsesRest
  <2>6. Room'
    <3>1. Awaited' = Awaited
      BY <1>1 DEF Awaited
    <3>2. bonusAt \in BOOLEAN
      BY WalletTyped
    <3>3. bonusAt' \in BOOLEAN /\ (bonusAt => bonusAt')
      <4>1. CASE bonusAt' = bonusAt
        BY <3>2, <4>1, Zenon
      <4>2. CASE bonusAt' = TRUE
        BY <4>2, Zenon
      <4> QED
        BY <1>1, <4>1, <4>2
    <3> QED
      BY <2>2, <3>1, <3>3, RoomKept
  <2> QED
    BY <1>1, <1>2, <2>2, <2>3, <2>4, <2>5, <2>6, CreditHolds, WalletTyped DEF Instants
<1>3. CASE OwedABonus /\ bonusAt' = TRUE /\ Credit(req[w].seen, req[w].at, "SIGNUP_BONUS", NoOrder, Bonus)
  <2>3. /\ LotsHold' /\ LotsGrow /\ Len(lots') = Len(lots) + 1
        /\ statement' = statement + Bonus /\ balance' \in Nat
    <3>1. PICK seen, at, source, of, amount :
            /\ seen = req[w].seen /\ at = req[w].at /\ source = "SIGNUP_BONUS" /\ of = NoOrder /\ amount = Bonus
            /\ Credit(seen, at, source, of, amount)
      BY <1>3
    <3>2. /\ seen \in Seq(LotRows) /\ at \in 0..now /\ amount \in Nat
          /\ source \in Sources /\ of \in Orders \cup {NoOrder}
      BY <1>1, <3>1, SeenTyped, WalletAssumption DEF Sources
    <3>3. LotsHold' /\ LotsGrow /\ Len(lots') = Len(lots) + 1 /\ statement' = statement + amount /\ balance' \in Nat
      <4>1. Credit(seen, at, source, of, amount)
        BY <3>1
      <4> QED
        BY <3>2, <4>1, CreditWrites
    <3> QED
      BY <3>1, <3>3
  <2>4. Len(lots') \in Nat /\ statement' \in Int
    BY <2>3, WalletTyped, WalletAssumption
  <2>5. SeenInv' /\ RequestsTyped'
    BY <1>1, <2>3, CommitAlone, SeenKept, WalletTyped
  <2>6. CancelsInv'
    BY <1>1, CommitAlone, CancelsKept
  <2>7. UsesInv'
    BY <1>1, <2>3, <2>4, UsesRest
  <2>8. Room'
    BY <1>1, <1>3, <2>3, RoomForBonus DEF Awaited, OwedABonus
  <2> QED
    BY <1>1, <1>3, <2>3, <2>4, <2>5, <2>6, <2>7, <2>8, CreditHolds, WalletTyped DEF Instants
<1> QED
  BY <1>2, <1>3 DEF GrantBonus

LEMMA DeliverCredit ==
    ASSUME CreditInv, OnceInv', NEW o \in Orders, Deliver(o)
    PROVE  CreditInv'
<1>1. /\ orders[o].status = "PLACED" /\ ~ Doing("cancel", o) /\ MayStart
      /\ UNCHANGED <<now, lots, statement, balance, bonusAt, req>>
  BY DEF Deliver
<1>2. /\ orders' \in [Orders -> OrderRows]
      /\ \A p \in Orders : p # o => orders'[p] = orders[p]
      /\ orders'[o].status = "DELIVERED" /\ orders'[o].uses = orders[o].uses
      /\ orders'[o].cashback = orders[o].cashback
  BY OrderDelivered
<1>3. LotsHold' /\ LotsGrow /\ Len(lots') = Len(lots) /\ Len(lots') \in Nat
  BY <1>1, LotsRest
<1>4. SeenInv' /\ RequestsTyped'
  BY <1>1, <1>3, HandAlone, SeenKept, WalletTyped
<1>5. CancelsInv'
  BY <1>1, <1>2, CancelsKept DEF Doing
<1>6. UsesInv'
  BY <1>2, <1>3, UsesKept DEF CreditInv, UsesInv
<1>7. Room'
  <2>1. Awaited' = Awaited
    BY <1>1, <1>2 DEF Awaited
  <2> QED
    BY <1>1, <1>3, <2>1, RoomKept, WalletTyped
<1> QED
  BY <1>1, <1>2, <1>3, <1>4, <1>5, <1>6, <1>7, CreditHolds, WalletTyped DEF Instants

\* A step by hand, or of the job, that rewrites lots or adds one.
LEMMA ByHandCredit ==
    ASSUME CreditInv, OnceInv', MayStart, UNCHANGED <<now, orders, bonusAt, req>>, LotsHold', LotsGrow,
           Room', statement' \in Int, balance' \in Nat
    PROVE  CreditInv'
<1>1. Len(lots') \in Nat
  BY LotsListed DEF LotsHold
<1>2. SeenInv' /\ RequestsTyped'
  BY HandAlone, SeenKept, WalletTyped
<1>3. CancelsInv' /\ UsesInv'
  BY <1>1, CancelsKept, UsesRest
<1> QED
  BY <1>2, <1>3, CreditHolds, WalletTyped DEF Instants

LEMMA HandCreditCredit ==
    ASSUME CreditInv, OnceInv', HandCredit
    PROVE  CreditInv'
<1>1. MayStart /\ UNCHANGED <<now, orders, bonusAt, req>> /\ Len(lots) + Promised < MaxLots
  BY DEF HandCredit
<1>2. PICK amount \in HandCredits : Credit(lots, now, "ADMIN_CREDIT", NoOrder, amount)
  BY DEF HandCredit
<1>3. /\ lots \in Seq(LotRows) /\ now \in 0..now /\ amount \in Nat
      /\ "ADMIN_CREDIT" \in Sources /\ NoOrder \in Orders \cup {NoOrder}
  BY WalletTyped, WalletAssumption DEF Sources
<1>4. /\ LotsHold' /\ LotsGrow /\ Len(lots') = Len(lots) + 1
      /\ statement' = statement + amount /\ balance' \in Nat
  BY <1>2, <1>3, CreditWrites
<1>5. Room'
  <2>1. Promised' = Promised /\ Promised \in Nat /\ MaxLots \in Nat /\ Len(lots) \in Nat
    BY <1>1, FewAwaited, WalletTyped DEF Promised, Awaited
  <2> QED
    BY <1>1, <1>4, <2>1 DEF Room
<1> QED
  BY <1>1, <1>3, <1>4, <1>5, ByHandCredit, WalletTyped

\* A lot loses some of what it has.
LEMMA Drained ==
    ASSUME CreditInv, DOMAIN lots' = DOMAIN lots, lots' = [l \in DOMAIN lots |-> lots'[l]],
           \A l \in DOMAIN lots : \E left \in 0..lots[l].remaining : lots'[l] = [lots[l] EXCEPT !.remaining = left]
    PROVE  Rewritten
<1>1. ASSUME NEW l \in DOMAIN lots
      PROVE  lots'[l] \in LotRows /\ lots'[l].amount = lots[l].amount /\ lots'[l].remaining <= lots[l].amount
  <2>1. PICK left \in 0..lots[l].remaining : lots'[l] = [lots[l] EXCEPT !.remaining = left]
    OBVIOUS
  <2>2. left \in Nat /\ left <= lots[l].amount
    BY WalletTyped
  <2> QED
    BY <2>1, <2>2, WalletTyped DEF LotRows
<1> QED
  BY <1>1 DEF Rewritten

LEMMA HandDebitWrites ==
    ASSUME CreditInv, HandDebit
    PROVE  /\ Rewritten /\ balance' \in Nat /\ statement' \in Int
<1>1. PICK amount \in 1 .. Available(lots, now) :
         LET take == Draw(lots, now, amount)
             left == [l \in DOMAIN lots |-> [lots[l] EXCEPT !.remaining = @ - take[l]]]
         IN  lots' = left /\ balance' = Available(left, now) /\ statement' = statement - amount
  BY DEF HandDebit
<1>2. Available(lots, now) \in Nat
  BY AvailableIsNat, WalletTyped
<1>3. PICK take : take = Draw(lots, now, amount)
  OBVIOUS
<1>4. \A l \in DOMAIN lots : take[l] \in 0..lots[l].remaining
  BY <1>2, <1>3, DrawWithin, WalletTyped
<1>5. /\ lots' = [l \in DOMAIN lots |-> [lots[l] EXCEPT !.remaining = @ - take[l]]]
      /\ balance' = Available(lots', now) /\ statement' = statement - amount
  BY <1>1, <1>3
<1>6. \A l \in DOMAIN lots : lots'[l] = [lots[l] EXCEPT !.remaining = lots[l].remaining - take[l]]
  BY <1>5, WalletTyped DEF LotRows
<1>7. Rewritten
  <2>1. DOMAIN lots' = DOMAIN lots /\ lots' = [l \in DOMAIN lots |-> lots'[l]]
    BY <1>5
  <2>2. \A l \in DOMAIN lots : lots[l].remaining - take[l] \in 0..lots[l].remaining
    BY <1>4, WalletTyped
  <2> QED
    BY <1>6, <2>1, <2>2, Drained
<1>8. balance' \in Nat
  BY <1>5, <1>7, LotsRewritten, AvailableIsNat DEF LotsHold
<1> QED
  BY <1>2, <1>5, <1>7, <1>8, WalletTyped

LEMMA ExpireWrites ==
    ASSUME CreditInv, NEW l \in DOMAIN lots, Expire(l)
    PROVE  /\ Rewritten /\ balance' \in Nat /\ statement' \in Int
<1>1. /\ lots' = [lots EXCEPT ![l].remaining = 0] /\ balance' = Available(lots', now)
      /\ statement' = statement - lots[l].remaining
  BY DEF Expire
<1>2. DOMAIN lots' = DOMAIN lots /\ lots' = [k \in DOMAIN lots |-> lots'[k]]
  BY <1>1, WalletTyped
<1>3. ASSUME NEW k \in DOMAIN lots
      PROVE  \E left \in 0..lots[k].remaining : lots'[k] = [lots[k] EXCEPT !.remaining = left]
  <2>1. CASE k = l
    <3>1. lots'[k] = [lots[k] EXCEPT !.remaining = 0] /\ 0 \in 0..lots[k].remaining
      BY <1>1, <2>1, WalletTyped
    <3> QED
      BY <3>1
  <2>2. CASE k # l
    <3>1. lots'[k] = lots[k] /\ lots[k].remaining \in 0..lots[k].remaining
      BY <1>1, <2>2, WalletTyped
    <3>2. lots[k] = [lots[k] EXCEPT !.remaining = lots[k].remaining]
      BY WalletTyped DEF LotRows
    <3> QED
      BY <3>1, <3>2
  <2> QED
    BY <2>1, <2>2
<1>4. Rewritten
  BY <1>2, <1>3, Drained
<1>5. balance' \in Nat
  BY <1>1, <1>4, LotsRewritten, AvailableIsNat DEF LotsHold
<1> QED
  BY <1>1, <1>4, <1>5, WalletTyped

LEMMA DebitCredit ==
    ASSUME CreditInv, OnceInv', HandDebit \/ \E l \in DOMAIN lots : Expire(l)
    PROVE  CreditInv'
<1>1. MayStart /\ UNCHANGED <<now, orders, bonusAt, req>>
  BY DEF HandDebit, Expire
<1>2. Rewritten /\ balance' \in Nat /\ statement' \in Int
  BY HandDebitWrites, ExpireWrites
<1>3. LotsHold' /\ LotsGrow /\ Len(lots') = Len(lots)
  BY <1>2, LotsRewritten
<1>4. Room'
  BY <1>1, <1>3 DEF CreditInv, Room, Promised, Awaited
<1> QED
  BY <1>1, <1>2, <1>3, <1>4, ByHandCredit

LEMMA TickCredit ==
    ASSUME CreditInv, OnceInv', Tick
    PROVE  CreditInv'
<1>1. now' = now + 1 /\ now' \in Instants /\ UNCHANGED <<lots, orders, statement, balance, bonusAt, req>>
  BY WalletTyped DEF Tick, Instants
<1>2. now' \in Nat /\ now <= now'
  BY <1>1, WalletTyped
<1>3. LotsHold' /\ LotsGrow /\ Len(lots') = Len(lots) /\ Len(lots') \in Nat
  BY <1>1, LotsRest
<1>4. SeenInv' /\ RequestsTyped'
  BY <1>1, <1>2, <1>3, SeenKept, WalletTyped
<1>5. CancelsInv' /\ UsesInv' /\ Room'
  BY <1>1, <1>3, UsesRest, CancelsKept DEF CreditInv, Room, Promised, Awaited
<1> QED
  BY <1>1, <1>3, <1>4, <1>5, CreditHolds, WalletTyped

LEMMA RestCredit ==
    ASSUME CreditInv, OnceInv', UNCHANGED vars
    PROVE  CreditInv'
<1>1. UNCHANGED <<now, lots, orders, statement, balance, bonusAt, req>>
  BY DEF vars
<1>2. LotsHold' /\ LotsGrow /\ Len(lots') = Len(lots) /\ Len(lots') \in Nat
  BY <1>1, LotsRest
<1>3. now' \in Nat /\ now <= now' /\ now' \in Instants
  BY <1>1, WalletTyped DEF Instants
<1>4. SeenInv' /\ RequestsTyped'
  BY <1>1, <1>2, <1>3, SeenKept, WalletTyped
<1>5. CancelsInv' /\ UsesInv' /\ Room'
  BY <1>1, <1>2, UsesRest, CancelsKept DEF CreditInv, Room, Promised, Awaited
<1> QED
  BY <1>1, <1>2, <1>3, <1>4, <1>5, CreditHolds, WalletTyped

LEMMA CreditStep == CreditInv /\ [Next]_vars => CreditInv'
<1> SUFFICES ASSUME CreditInv, [Next]_vars
             PROVE  CreditInv'
  OBVIOUS
<1>1. OnceInv'
  BY OnceStep DEF CreditInv
<1>2. CASE UNCHANGED vars
  BY <1>1, <1>2, RestCredit
<1>3. CASE Next
  <2>1. ASSUME NEW w \in Workers, Commit(w)
        PROVE  CreditInv'
    BY <1>1, <2>1, SpendCredit, AbandonCredit, CancelCredit, ReleaseCredit, BonusCredit DEF Commit
  <2>2. ASSUME NEW w \in Workers, NEW o \in Orders, StartSpend(w, o) \/ StartCancel(w, o) \/ StartRelease(w, o)
        PROVE  CreditInv'
    BY <1>1, <2>2, StartCredit
  <2>3. ASSUME NEW w \in Workers, StartBonus(w)
        PROVE  CreditInv'
    BY <1>1, <2>3, StartCredit
  <2> QED
    BY <1>1, <1>3, <2>1, <2>2, <2>3, DeliverCredit, HandCreditCredit, DebitCredit, TickCredit DEF Next
<1> QED
  BY <1>2, <1>3

-----------------------------------------------------------------------------
(* A debit is what the lots give.                                          *)

\* Of two lots one is spent before the other, and before what it is spent before.
LEMMA SpentInOrder ==
    ASSUME NEW ls \in Seq(LotRows)
    PROVE  /\ \A k \in DOMAIN ls : ~ SpentBefore(ls, k, k)
           /\ \A k, l \in DOMAIN ls : k # l => SpentBefore(ls, k, l) \/ SpentBefore(ls, l, k)
           /\ \A j, k, l \in DOMAIN ls : SpentBefore(ls, j, k) /\ SpentBefore(ls, k, l) => SpentBefore(ls, j, l)
<1>1. \A k \in DOMAIN ls : k \in Int /\ ls[k].expires \in Int
  <2>1. \A e \in 1..Never : e \in Int
    OBVIOUS
  <2> QED
    BY <2>1, LotsListed
<1> QED
  BY <1>1 DEF SpentBefore

\* Some lot is spent last.
LEMMA SpentLast ==
    ASSUME NEW ls \in Seq(LotRows), NEW S, S \subseteq DOMAIN ls, S # {}
    PROVE  \E l \in S : \A k \in S : k # l => SpentBefore(ls, k, l)
<1> DEFINE P == {t \in SUBSET S : t # {} => \E l \in t : \A k \in t : k # l => SpentBefore(ls, k, l)}
<1>1. IsFiniteSet(S)
  BY LotsListed, FS_Subset
<1>2. {} \in P
  OBVIOUS
<1>3. ASSUME NEW t \in SUBSET S, t # {}, \A x \in t : t \ {x} \in P
      PROVE  t \in P
  <2>1. PICK x \in t : TRUE
    BY <1>3
  <2>2. CASE t \ {x} = {}
    BY <2>1, <2>2
  <2>3. CASE t \ {x} # {}
    <3>1. PICK l \in t \ {x} : \A k \in t \ {x} : k # l => SpentBefore(ls, k, l)
      BY <1>3, <2>1, <2>3
    <3>2. \A k \in t : k \in DOMAIN ls
      OBVIOUS
    <3>3. CASE SpentBefore(ls, x, l)
      BY <3>1, <3>3
    <3>4. CASE SpentBefore(ls, l, x)
      <4>1. \A k \in t : k # x => SpentBefore(ls, k, x)
        BY <2>1, <3>1, <3>2, <3>4, SpentInOrder
      <4> QED
        BY <2>1, <4>1
    <3> QED
      BY <2>1, <3>1, <3>2, <3>3, <3>4, SpentInOrder
  <2> QED
    BY <2>2, <2>3
<1> HIDE DEF P
<1>4. S \in P
  BY <1>1, <1>2, <1>3, SubsetInduction
<1> QED
  BY <1>4 DEF P

\* What the lots give to a debit the balance covers is the debit.
LEMMA DrawAddsUp ==
    ASSUME NEW ls \in Seq(LotRows), NEW at, NEW owed \in 0..Available(ls, at)
    PROVE  SumFunctionOnSet(Draw(ls, at, owed), DOMAIN ls) = owed
<1> DEFINE S == Spendable(ls, at)
           left == [l \in DOMAIN ls |-> ls[l].remaining]
           take == Draw(ls, at, owed)
           sumL(t) == SumFunctionOnSet(left, t)
           sumT(t) == SumFunctionOnSet(take, t)
           closed(t) == \A k \in t, j \in S : SpentBefore(ls, j, k) => j \in t
           P == {t \in SUBSET S : closed(t) => sumT(t) = Least(sumL(t), owed)}
<1>1. /\ S \subseteq DOMAIN ls /\ IsFiniteSet(S) /\ \A l \in DOMAIN ls : left[l] \in Nat
      /\ Available(ls, at) = sumL(S)
  BY FewSpendable DEF Available
<1>2. owed \in Nat
  BY AvailableIsNat
<1>3. /\ \A l \in DOMAIN ls : take[l] \in Nat
      /\ \A l \in DOMAIN ls \ S : take[l] = 0
      /\ \A l \in S : LET before == sumL({k \in S : SpentBefore(ls, k, l)})
                      IN  take[l] = IF before < owed THEN Least(left[l], owed - before) ELSE 0
  <2>1. \A l \in DOMAIN ls : take[l] \in 0..ls[l].remaining /\ ls[l].remaining \in Nat
    BY <1>2, DrawWithin, LotsListed
  <2>2. \A l \in DOMAIN ls \ S : take[l] = 0
    BY DEF Draw
  <2>3. \A l \in S : LET before == sumL({k \in S : SpentBefore(ls, k, l)})
                     IN  take[l] = IF before < owed THEN Least(left[l], owed - before) ELSE 0
    BY <1>1 DEF Draw
  <2>4. \A l \in DOMAIN ls : take[l] \in Nat
    BY <2>1
  <2> HIDE DEF S, left, take
  <2> QED
    BY <2>2, <2>3, <2>4
<1> HIDE DEF S, left, take
<1>4. {} \in P
  <2>1. sumT({}) = 0 /\ sumL({}) = 0
    BY SumOfNone
  <2> QED
    BY <1>2, <2>1 DEF Least
<1>5. ASSUME NEW t \in SUBSET S, t # {}, \A x \in t : t \ {x} \in P
      PROVE  t \in P
  <2> SUFFICES ASSUME closed(t)
               PROVE  sumT(t) = Least(sumL(t), owed)
    OBVIOUS
  <2>1. PICK m \in t : \A k \in t : k # m => SpentBefore(ls, k, m)
    BY <1>1, <1>5, SpentLast
  <2>a. PICK rest : rest = t \ {m}
    OBVIOUS
  <2>2. rest = t \ {m} /\ rest \subseteq S /\ IsFiniteSet(rest) /\ IsFiniteSet(t)
    BY <1>1, <2>a, FS_Subset
  <2>3. {k \in S : SpentBefore(ls, k, m)} = rest
    BY <1>1, <2>1, <2>2, SpentInOrder
  <2>4. closed(rest)
    BY <1>1, <2>1, <2>2, SpentInOrder
  <2>5. sumT(rest) = Least(sumL(rest), owed)
    BY <1>5, <2>2, <2>4
  <2>6. sumT(t) = take[m] + sumT(rest) /\ sumL(t) = left[m] + sumL(rest)
    <3>1. \A l \in t : take[l] \in Int /\ left[l] \in Int
      BY <1>1, <1>3
    <3> QED
      BY <2>1, <2>2, <3>1, SumWithout
  <2>7. sumL(rest) \in Nat /\ left[m] \in Nat
    <3>1. \A l \in rest : left[l] \in Nat
      BY <1>1, <2>2
    <3> QED
      BY <1>1, <2>1, <2>2, <3>1, SumIsNat
  <2>8. take[m] = IF sumL(rest) < owed THEN Least(left[m], owed - sumL(rest)) ELSE 0
    BY <1>3, <2>1, <2>3
  <2> HIDE DEF sumL, sumT
  <2> QED
    BY <1>2, <2>5, <2>6, <2>7, <2>8 DEF Least
<1> HIDE DEF P
<1>6. S \in P
  BY <1>1, <1>4, <1>5, SubsetInduction
<1>7. sumT(S) = owed
  <2>1. sumT(S) = Least(sumL(S), owed)
    BY <1>6 DEF P
  <2>2. sumL(S) \in Nat /\ owed <= sumL(S)
    BY <1>1, <1>2, AvailableIsNat
  <2> HIDE DEF sumL, sumT
  <2> QED
    BY <1>2, <2>1, <2>2 DEF Least
<1>8. sumT(DOMAIN ls) = sumT(S) + sumT(DOMAIN ls \ S)
  <2>1. \A l \in DOMAIN ls : take[l] \in Int
    BY <1>3
  <2> QED
    BY <1>1, <2>1, LotsListed, SumOfParts
<1>9. sumT(DOMAIN ls \ S) = 0
  BY <1>3, LotsListed, FS_Difference, SumOfZeros
<1> QED
  BY <1>2, <1>7, <1>8, <1>9 DEF take

-----------------------------------------------------------------------------
(* Where transactions do not overlap, statement, lots and orders agree.    *)

\* What a lot has been asked for by orders that stand.
Drawn(l) == [o \in Orders |-> IF orders[o].status = "CANCELLED" THEN 0 ELSE orders[o].uses[l]]

Left(ls) == [l \in DOMAIN ls |-> ls[l].remaining]

BooksInv == CreditInv /\ LotsAddUp

LEMMA UsesTyped ==
    ASSUME CreditInv, NEW o \in Orders
    PROVE  /\ orders[o].uses \in [Slots -> Nat]
           /\ \A l \in Slots : orders[o].uses[l] \in Nat /\ Drawn(l)[o] \in Nat
  BY WalletTyped DEF OrderRows, Drawn

\* The lots there were lose what they give.
LEMMA LotsGive ==
    ASSUME CreditInv, Rewritten, NEW give, \A l \in DOMAIN lots : give[l] \in Int /\ lots[l].remaining = lots'[l].remaining + give[l]
    PROVE  SumFunctionOnSet(Left(lots), DOMAIN lots)
              = SumFunctionOnSet(Left(lots'), DOMAIN lots') + SumFunctionOnSet(give, DOMAIN lots)
<1>1. \A l \in DOMAIN lots : /\ Left(lots)[l] = lots[l].remaining /\ Left(lots')[l] = lots'[l].remaining
                             /\ lots'[l].remaining \in Int /\ lots[l].remaining \in Int
  BY WalletTyped, LotsRewritten, LotsListed DEF Left, Rewritten, LotsHold
<1>2. IsFiniteSet(DOMAIN lots) /\ DOMAIN lots' = DOMAIN lots
  BY WalletTyped, LotsListed DEF Rewritten
<1>3. \A l \in DOMAIN lots : /\ Left(lots')[l] \in Int /\ give[l] \in Int
                             /\ Left(lots)[l] = Left(lots')[l] + give[l]
  BY <1>1
<1> QED
  BY <1>2, <1>3, SumOfSums

\* The orders are as they were, and no lot has more than it had.
LEMMA NoMoreSpent ==
    ASSUME BooksInv, orders' = orders, CreditInv', LotsGrow,
           \A l \in DOMAIN lots : lots'[l].remaining <= lots[l].remaining
    PROVE  NoLotOverspent'
<1> SUFFICES ASSUME NEW l \in DOMAIN lots'
             PROVE  SumFunctionOnSet(Drawn(l), Orders) + lots'[l].remaining <= lots'[l].amount
  BY DEF NoLotOverspent, Drawn
<1>1. lots'[l].remaining \in Nat /\ lots'[l].amount \in Nat /\ lots'[l].remaining <= lots'[l].amount
  BY LotsListed DEF CreditInv, TypeOK, LotsInBounds
<1>2. CASE l \in DOMAIN lots
  <2>1. /\ SumFunctionOnSet(Drawn(l), Orders) + lots[l].remaining <= lots[l].amount
        /\ lots[l].remaining \in Nat /\ lots[l].amount \in Nat
    BY <1>2, WalletTyped DEF BooksInv, LotsAddUp, NoLotOverspent, Drawn
  <2>2. SumFunctionOnSet(Drawn(l), Orders) \in Nat
    <3>1. \A o \in Orders : Drawn(l)[o] \in Nat
      BY <1>2, UsesTyped, WalletTyped DEF BooksInv
    <3> QED
      BY <3>1, SumIsNat, WalletAssumption
  <2>3. lots'[l].amount = lots[l].amount /\ lots'[l].remaining <= lots[l].remaining
    BY <1>2 DEF LotsGrow
  <2> QED
    BY <1>1, <2>1, <2>2, <2>3
<1>3. CASE l \notin DOMAIN lots
  <2>1. l \in Slots /\ l > Len(lots)
    <3>1. Len(lots') \in Nat /\ l \in 1..Len(lots') /\ Len(lots') <= MaxLots /\ MaxLots \in Nat
      BY LotsListed, WalletAssumption DEF CreditInv, TypeOK
    <3> QED
      BY <1>3, <3>1, WalletTyped DEF BooksInv, Slots
  <2>2. \A o \in Orders : Drawn(l)[o] = 0
    BY <2>1 DEF BooksInv, CreditInv, UsesInv, Drawn
  <2>3. SumFunctionOnSet(Drawn(l), Orders) = 0
    BY <2>2, SumOfZeros, WalletAssumption
  <2> QED
    BY <1>1, <2>3
<1> QED
  BY <1>2, <1>3

\* One order comes to draw on the lots as they give, or gives back what it drew.
LEMMA OrderDraws ==
    ASSUME BooksInv, NEW o \in Orders, Rewritten, CreditInv',
           \A p \in Orders : p # o => orders'[p] = orders[p],
           \A l \in DOMAIN lots : lots'[l].remaining + Drawn(l)'[o] = lots[l].remaining + Drawn(l)[o]
    PROVE  NoLotOverspent'
<1> SUFFICES ASSUME NEW l \in DOMAIN lots'
             PROVE  SumFunctionOnSet(Drawn(l)', Orders) + lots'[l].remaining <= lots'[l].amount
  BY DEF NoLotOverspent, Drawn
<1>1. l \in DOMAIN lots /\ l \in Slots /\ lots'[l].amount = lots[l].amount
  BY WalletTyped DEF BooksInv, Rewritten
<1>2. \A p \in Orders : Drawn(l)[p] \in Nat /\ Drawn(l)'[p] \in Nat
  <2>1. \A p \in Orders : orders'[p] \in OrderRows
    BY DEF CreditInv, TypeOK
  <2> QED
    BY <1>1, <2>1, UsesTyped DEF BooksInv, OrderRows, Drawn
<1>3. \A p \in Orders : p # o => Drawn(l)'[p] = Drawn(l)[p]
  BY DEF Drawn
<1>4. SumFunctionOnSet(Drawn(l)', Orders) = SumFunctionOnSet(Drawn(l), Orders) + Drawn(l)'[o] - Drawn(l)[o]
  BY <1>2, <1>3, SumMoves, WalletAssumption
<1>5. SumFunctionOnSet(Drawn(l), Orders) \in Nat
  BY <1>2, SumIsNat, WalletAssumption
<1>6. /\ SumFunctionOnSet(Drawn(l), Orders) + lots[l].remaining <= lots[l].amount
      /\ lots[l].remaining \in Nat /\ lots[l].amount \in Nat
  BY <1>1, WalletTyped, SMTT(30) DEF BooksInv, LotsAddUp, NoLotOverspent, Drawn
<1>7. lots'[l].remaining \in Nat
  BY LotsListed DEF CreditInv, TypeOK
<1>8. lots'[l].remaining + Drawn(l)'[o] = lots[l].remaining + Drawn(l)[o]
  BY <1>1
<1> QED
  BY <1>1, <1>2, <1>4, <1>5, <1>6, <1>7, <1>8

\* The lots there were gain what they get back.
LEMMA LotsGain ==
    ASSUME CreditInv, Rewritten, NEW back, \A l \in DOMAIN lots : back[l] \in Int /\ lots'[l].remaining = lots[l].remaining + back[l]
    PROVE  SumFunctionOnSet(Left(lots'), DOMAIN lots')
              = SumFunctionOnSet(Left(lots), DOMAIN lots) + SumFunctionOnSet(back, DOMAIN lots)
<1>1. \A l \in DOMAIN lots : /\ Left(lots)[l] = lots[l].remaining /\ Left(lots')[l] = lots'[l].remaining
                             /\ lots'[l].remaining \in Int /\ lots[l].remaining \in Int
  BY WalletTyped, LotsRewritten, LotsListed DEF Left, Rewritten, LotsHold
<1>2. IsFiniteSet(DOMAIN lots) /\ DOMAIN lots' = DOMAIN lots
  BY WalletTyped, LotsListed DEF Rewritten
<1>3. \A l \in DOMAIN lots : /\ Left(lots)[l] \in Int /\ back[l] \in Int
                             /\ Left(lots')[l] = Left(lots)[l] + back[l]
  BY <1>1
<1> QED
  BY <1>2, <1>3, SumOfSums

\* What the lots hold is a number.
LEMMA HeldIsNat ==
    ASSUME NEW ls \in Seq(LotRows)
    PROVE  SumFunctionOnSet(Left(ls), DOMAIN ls) \in Nat
<1>1. IsFiniteSet(DOMAIN ls) /\ \A l \in DOMAIN ls : Left(ls)[l] \in Nat
  BY LotsListed DEF Left
<1> QED
  BY <1>1, SumIsNat

\* A credit is held by the lot it adds.
LEMMA CreditBooks ==
    ASSUME BooksInv, CreditInv', NEW seen \in Seq(LotRows), NEW at \in 0..now, NEW source \in Sources,
           NEW o \in Orders \cup {NoOrder}, NEW amount \in Nat, Credit(seen, at, source, o, amount)
    PROVE  StatementIsTheLots'
<1>1. PICK lot : lots' = Append(lots, lot) /\ lot.remaining = amount
  BY CreditWrites DEF BooksInv
<1>2. statement' = statement + amount
  BY CreditWrites DEF BooksInv
<1>3. PICK n \in Nat : n = Len(lots) /\ DOMAIN lots = 1..n /\ IsFiniteSet(DOMAIN lots) /\ lots \in Seq(LotRows)
  BY WalletTyped, LotsListed DEF BooksInv
<1>4. /\ DOMAIN lots' = DOMAIN lots \cup {n + 1} /\ n + 1 \notin DOMAIN lots
      /\ \A l \in DOMAIN lots : lots'[l] = lots[l]
      /\ lots'[n + 1] = lot
  BY <1>1, <1>3
<1>5. \A l \in DOMAIN lots : Left(lots')[l] = Left(lots)[l] /\ Left(lots)[l] \in Int
  BY <1>3, <1>4, LotsListed DEF Left
<1>6. Left(lots')[n + 1] = amount
  BY <1>1, <1>4 DEF Left
<1>7. SumFunctionOnSet(Left(lots'), DOMAIN lots') = SumFunctionOnSet(Left(lots'), DOMAIN lots) + amount
  <2>1. PICK f : f = Left(lots')
    OBVIOUS
  <2>2. f[n + 1] \in Int /\ \A l \in DOMAIN lots : f[l] \in Int
    BY <1>5, <1>6, <2>1
  <2>3. SumFunctionOnSet(f, DOMAIN lots \cup {n + 1}) = SumFunctionOnSet(f, DOMAIN lots) + f[n + 1]
    BY <1>3, <1>4, <2>2, SumWith
  <2> QED
    BY <1>4, <1>6, <2>1, <2>3
<1>8. SumFunctionOnSet(Left(lots'), DOMAIN lots) = SumFunctionOnSet(Left(lots), DOMAIN lots)
  BY <1>3, <1>5, SumSame
<1>9. statement = SumFunctionOnSet(Left(lots), DOMAIN lots)
  BY DEF BooksInv, LotsAddUp, StatementIsTheLots, Left
<1> QED
  BY <1>2, <1>7, <1>8, <1>9 DEF StatementIsTheLots, Left

\* A debit the balance covers takes from the lots what it takes from the statement.
LEMMA DebitBooks ==
    ASSUME BooksInv, Rewritten, NEW at, NEW owed \in 0..Available(lots, at), statement' = statement - owed,
           \A l \in DOMAIN lots : lots[l].remaining = lots'[l].remaining + Draw(lots, at, owed)[l]
    PROVE  StatementIsTheLots'
<1>1. PICK take : take = Draw(lots, at, owed)
  OBVIOUS
<1>2. lots \in Seq(LotRows) /\ Available(lots, at) \in Nat
  BY WalletTyped, AvailableIsNat DEF BooksInv
<1>3. \A l \in DOMAIN lots : take[l] \in Int
  BY <1>1, <1>2, DrawWithin
<1>4. SumFunctionOnSet(take, DOMAIN lots) = owed
  BY <1>1, <1>2, DrawAddsUp
<1>5. SumFunctionOnSet(Left(lots), DOMAIN lots) = SumFunctionOnSet(Left(lots'), DOMAIN lots') + SumFunctionOnSet(take, DOMAIN lots)
  BY <1>1, <1>3, LotsGive DEF BooksInv
<1>6. statement = SumFunctionOnSet(Left(lots), DOMAIN lots)
  BY DEF BooksInv, LotsAddUp, StatementIsTheLots, Left
<1>7. SumFunctionOnSet(Left(lots'), DOMAIN lots') \in Nat
  BY LotsRewritten, HeldIsNat DEF LotsHold, BooksInv
<1> QED
  BY <1>2, <1>4, <1>5, <1>6, <1>7 DEF StatementIsTheLots, Left

\* A transaction that does not overlap sees the lots as they are.
LEMMA SeesAll ==
    ASSUME CreditInv, ~Overlap, NEW w \in Workers, req[w] # Idle
    PROVE  req[w].seen = lots
  BY DEF CreditInv, SeenInv

LEMMA SpendBooks ==
    ASSUME BooksInv, CreditInv', ~Overlap, NEW w \in Workers, req[w] # Idle, req[w].kind = "spend",
           NEW amount \in 0 .. Available(req[w].seen, req[w].at),
           SpendFrom(req[w].order, req[w].seen, req[w].at, amount)
    PROVE  LotsAddUp'
<1>1. PICK o \in Orders : o = req[w].order /\ orders[o].status = "none"
  BY DEF BooksInv, CreditInv, OnceInv, RequestsInv
<1>2. PICK at : at = req[w].at /\ req[w].seen = lots
  BY SeesAll DEF BooksInv
<1>3. amount \in 0..Available(lots, at) /\ amount \in Nat
  BY <1>2, WalletTyped, AvailableIsNat DEF BooksInv
<1>4. PICK take : take = Draw(lots, at, amount)
  OBVIOUS
<1> DEFINE touched == {l \in DOMAIN lots : take[l] > 0}
           uses == [l \in Slots |-> IF l \in touched THEN take[l] ELSE 0]
<1>5. /\ lots' = [l \in DOMAIN lots |-> IF l \in touched THEN [lots[l] EXCEPT !.remaining = lots[l].remaining - take[l]]
                                       ELSE lots[l]]
      /\ statement' = statement - amount
      /\ Placed(o, uses)
  BY <1>1, <1>2, <1>4 DEF SpendFrom
<1>6. Rewritten
  BY <1>3, SpendWrites DEF BooksInv
<1>7. \A l \in DOMAIN lots : take[l] \in 0..lots[l].remaining /\ l \in Slots
  BY <1>3, <1>4, DrawWithin, WalletTyped DEF BooksInv
<1>8. \A l \in DOMAIN lots : lots[l].remaining = lots'[l].remaining + take[l] /\ uses[l] = take[l]
  <2> SUFFICES ASSUME NEW l \in DOMAIN lots
               PROVE  lots[l].remaining = lots'[l].remaining + take[l] /\ uses[l] = take[l]
    OBVIOUS
  <2>1. take[l] \in Nat /\ lots[l].remaining \in Nat /\ l \in Slots /\ lots[l] \in LotRows
    BY <1>7, WalletTyped DEF BooksInv
  <2>2. CASE take[l] > 0
    <3>1. PICK left : left = lots[l].remaining - take[l]
      OBVIOUS
    <3>2. lots'[l] = [lots[l] EXCEPT !.remaining = left]
      BY <1>5, <2>2, <3>1
    <3>3. lots'[l].remaining = left
      BY <2>1, <3>2 DEF LotRows
    <3> QED
      BY <2>1, <2>2, <3>1, <3>3
  <2>3. CASE ~ (take[l] > 0)
    BY <1>5, <2>1, <2>3
  <2> QED
    BY <2>2, <2>3
<1>9. uses \in [Slots -> Nat]
  <2>1. \A l \in touched : take[l] \in Nat
    BY <1>7, WalletTyped DEF BooksInv
  <2> QED
    BY <2>1
<1>10. StatementIsTheLots'
  BY <1>3, <1>4, <1>5, <1>6, <1>8, DebitBooks, SMTT(30)
<1>11. NoLotOverspent'
  <2> HIDE DEF uses
  <2>1. /\ \A p \in Orders : p # o => orders'[p] = orders[p]
        /\ orders'[o].status = "PLACED" /\ orders'[o].uses = uses
    BY <1>5, <1>9, OrderPlaced, WalletTyped DEF BooksInv
  <2>2. \A l \in DOMAIN lots : Drawn(l)[o] = 0 /\ Drawn(l)'[o] = take[l]
    BY <1>1, <1>7, <1>8, <2>1 DEF BooksInv, CreditInv, UsesInv, Drawn
  <2>3. \A l \in DOMAIN lots : lots'[l].remaining + Drawn(l)'[o] = lots[l].remaining + Drawn(l)[o]
    BY <1>8, <2>2, WalletTyped DEF BooksInv
  <2> QED
    BY <1>6, <2>1, <2>3, OrderDraws
<1> QED
  BY <1>10, <1>11 DEF LotsAddUp

LEMMA CancelBooks ==
    ASSUME BooksInv, CreditInv', ~Overlap, NEW w \in Workers, Cancel(w)
    PROVE  LotsAddUp'
<1>1. PICK o \in Orders : o = req[w].order /\ orders[o].status = "PLACED" /\ req[w] # Idle
  BY SMTT(30) DEF Cancel, Idle, BooksInv, CreditInv, OnceInv, RequestsInv, CancelsInv
<1>2. req[w].seen = lots
  BY <1>1, SeesAll DEF BooksInv
<1>3. PICK uses \in [Slots -> Nat] : uses = orders[o].uses
  BY UsesTyped DEF BooksInv
<1>4. Rewritten /\ statement' = statement + SumFunctionOnSet(uses, Slots)
  BY <1>1, <1>3, CancelWrites DEF BooksInv
<1>5. /\ \A p \in Orders : p # o => orders'[p] = orders[p]
      /\ orders'[o].status = "CANCELLED"
  <2>1. orders' = [orders EXCEPT ![o].status = "CANCELLED",
                                 ![o].cashback = IF @ = "PENDING" THEN "VOIDED" ELSE @]
    BY <1>1 DEF Cancel
  <2> QED
    BY <2>1, OrderCancelled, WalletTyped DEF BooksInv
<1>6. \A l \in DOMAIN lots : Drawn(l)[o] = uses[l] /\ Drawn(l)'[o] = 0 /\ l \in Slots /\ uses[l] \in Nat
  BY <1>1, <1>3, <1>5, WalletTyped DEF Drawn, BooksInv
<1>7. \A l \in DOMAIN lots : uses[l] + lots[l].remaining <= lots[l].amount
  <2> SUFFICES ASSUME NEW l \in DOMAIN lots
               PROVE  uses[l] + lots[l].remaining <= lots[l].amount
    OBVIOUS
  <2>1. /\ SumFunctionOnSet(Drawn(l), Orders) + lots[l].remaining <= lots[l].amount
        /\ lots[l].remaining \in Nat /\ lots[l].amount \in Nat
    <3>1. lots[l].remaining \in Nat /\ lots[l].amount \in Nat
      BY WalletTyped DEF BooksInv
    <3>2. SumFunctionOnSet(Drawn(l), Orders) + lots[l].remaining <= lots[l].amount
      BY DEF BooksInv, LotsAddUp, NoLotOverspent, Drawn
    <3> QED
      BY <3>1, <3>2
  <2>2. \A p \in Orders : Drawn(l)[p] \in Nat
    BY <1>6, UsesTyped DEF BooksInv
  <2>3. Drawn(l)[o] <= SumFunctionOnSet(Drawn(l), Orders) /\ SumFunctionOnSet(Drawn(l), Orders) \in Nat
    BY <2>2, SumCovers, SumIsNat, WalletAssumption
  <2> QED
    BY <1>6, <2>1, <2>3
<1>8. \A l \in DOMAIN lots : lots'[l].remaining = lots[l].remaining + uses[l]
  <2> SUFFICES ASSUME NEW l \in DOMAIN lots
               PROVE  lots'[l].remaining = lots[l].remaining + uses[l]
    OBVIOUS
  <2>1. lots'[l] = IF uses[l] > 0 THEN Restored(lots[l], lots[l], uses[l], now) ELSE lots[l]
    BY <1>1, <1>2, <1>3 DEF Cancel
  <2>2. /\ lots[l].remaining \in Nat /\ lots[l].amount \in Nat /\ uses[l] \in Nat /\ lots[l] \in LotRows
        /\ uses[l] + lots[l].remaining <= lots[l].amount
    BY <1>6, <1>7, WalletTyped DEF BooksInv
  <2>3. CASE uses[l] > 0
    <3>1. PICK back : back = lots[l].remaining + uses[l] /\ back = Least(lots[l].amount, lots[l].remaining + uses[l])
      BY <2>2 DEF Least
    <3>2. PICK expires : lots'[l] = [lots[l] EXCEPT !.remaining = back, !.expires = expires]
      BY <2>1, <2>2, <2>3, <3>1 DEF Restored, LotRows
    <3>3. lots'[l].remaining = back
      BY <2>2, <3>2 DEF LotRows
    <3> QED
      BY <3>1, <3>3
  <2>4. CASE ~ (uses[l] > 0)
    BY <2>1, <2>2, <2>4
  <2> QED
    BY <2>3, <2>4
<1>9. SumFunctionOnSet(uses, Slots) = SumFunctionOnSet(uses, DOMAIN lots)
  <2>1. \A l \in Slots \ DOMAIN lots : uses[l] = 0
    <3>1. \A l \in Slots \ DOMAIN lots : l > Len(lots)
      BY WalletTyped DEF BooksInv, Slots
    <3> QED
      BY <1>3, <3>1 DEF BooksInv, CreditInv, UsesInv
  <2>2. SumFunctionOnSet(uses, Slots \ DOMAIN lots) = 0
    BY <2>1, FewSlots, FS_Difference, SumOfZeros
  <2>3. DOMAIN lots \subseteq Slots /\ \A l \in Slots : uses[l] \in Int
    BY <1>6
  <2>4. SumFunctionOnSet(uses, Slots) = SumFunctionOnSet(uses, DOMAIN lots) + SumFunctionOnSet(uses, Slots \ DOMAIN lots)
    BY <2>3, FewSlots, SumOfParts
  <2>5. SumFunctionOnSet(uses, DOMAIN lots) \in Int
    BY <2>3, FewSlots, FS_Subset, SumIsInt
  <2> QED
    BY <2>2, <2>4, <2>5
<1>10. StatementIsTheLots'
  <2>1. SumFunctionOnSet(Left(lots'), DOMAIN lots') = SumFunctionOnSet(Left(lots), DOMAIN lots) + SumFunctionOnSet(uses, DOMAIN lots)
    BY <1>4, <1>6, <1>8, LotsGain DEF BooksInv
  <2>2. statement = SumFunctionOnSet(Left(lots), DOMAIN lots)
    BY DEF BooksInv, LotsAddUp, StatementIsTheLots, Left
  <2> QED
    BY <1>4, <1>9, <2>1, <2>2 DEF StatementIsTheLots, Left
<1>11. NoLotOverspent'
  <2>1. \A l \in DOMAIN lots : lots'[l].remaining + Drawn(l)'[o] = lots[l].remaining + Drawn(l)[o]
    BY <1>6, <1>8, WalletTyped DEF BooksInv
  <2> QED
    BY <1>4, <1>5, <2>1, OrderDraws
<1> QED
  BY <1>10, <1>11 DEF LotsAddUp

\* An admin's debit takes what the balance covers.
LEMMA HandDebitBooks ==
    ASSUME BooksInv, CreditInv', HandDebit
    PROVE  LotsAddUp'
<1>1. PICK amount \in 1 .. Available(lots, now) :
        LET take == Draw(lots, now, amount)
        IN  /\ lots' = [l \in DOMAIN lots |-> [lots[l] EXCEPT !.remaining = @ - take[l]]]
            /\ statement' = statement - amount
  BY DEF HandDebit
<1>2. amount \in 0..Available(lots, now) /\ amount \in Nat /\ orders' = orders
  BY WalletTyped, AvailableIsNat DEF BooksInv, HandDebit
<1>3. PICK take : take = Draw(lots, now, amount)
  OBVIOUS
<1>4. \A l \in DOMAIN lots : take[l] \in 0..lots[l].remaining
  BY <1>2, <1>3, DrawWithin, WalletTyped DEF BooksInv
<1>5. \A l \in DOMAIN lots : lots[l].remaining = lots'[l].remaining + take[l] /\ lots'[l].remaining <= lots[l].remaining
  <2> SUFFICES ASSUME NEW l \in DOMAIN lots
               PROVE  lots[l].remaining = lots'[l].remaining + take[l] /\ lots'[l].remaining <= lots[l].remaining
    OBVIOUS
  <2>1. take[l] \in Nat /\ lots[l].remaining \in Nat /\ lots[l] \in LotRows /\ take[l] <= lots[l].remaining
    BY <1>4, WalletTyped DEF BooksInv
  <2>2. lots'[l] = [lots[l] EXCEPT !.remaining = lots[l].remaining - take[l]]
    BY <1>1, <1>3, <2>1 DEF LotRows
  <2>3. PICK left : left = lots[l].remaining - take[l]
    OBVIOUS
  <2>4. lots'[l].remaining = left
    BY <2>1, <2>2, <2>3 DEF LotRows
  <2> QED
    BY <2>1, <2>3, <2>4
<1>6. Rewritten
  BY HandDebitWrites DEF BooksInv
<1>7. StatementIsTheLots'
  BY <1>1, <1>2, <1>3, <1>5, <1>6, DebitBooks
<1>8. NoLotOverspent'
  BY <1>2, <1>5, <1>6, LotsRewritten, NoMoreSpent DEF BooksInv
<1> QED
  BY <1>7, <1>8 DEF LotsAddUp

\* A lot that lapses is struck off the statement.
LEMMA ExpireBooks ==
    ASSUME BooksInv, CreditInv', NEW l \in DOMAIN lots, Expire(l)
    PROVE  LotsAddUp'
<1>1. /\ lots' = [lots EXCEPT ![l].remaining = 0] /\ statement' = statement - lots[l].remaining
      /\ orders' = orders
  BY DEF Expire
<1>2. Rewritten
  BY ExpireWrites DEF BooksInv
<1> DEFINE gone == [k \in DOMAIN lots |-> IF k = l THEN lots[l].remaining ELSE 0]
<1>3. \A k \in DOMAIN lots : /\ gone[k] \in Nat /\ gone[k] = IF k = l THEN lots[l].remaining ELSE 0
                             /\ lots[k].remaining = lots'[k].remaining + gone[k]
                             /\ lots'[k].remaining <= lots[k].remaining
  <2> SUFFICES ASSUME NEW k \in DOMAIN lots
               PROVE  /\ gone[k] \in Nat /\ gone[k] = IF k = l THEN lots[l].remaining ELSE 0
                      /\ lots[k].remaining = lots'[k].remaining + gone[k]
                      /\ lots'[k].remaining <= lots[k].remaining
    OBVIOUS
  <2>1. lots[k].remaining \in Nat /\ lots[k] \in LotRows
    BY WalletTyped DEF BooksInv
  <2>2. CASE k = l
    <3>1. lots'[k].remaining = 0
      BY <1>1, <2>1, <2>2 DEF LotRows
    <3> QED
      BY <2>1, <2>2, <3>1
  <2>3. CASE k # l
    BY <1>1, <2>1, <2>3
  <2> QED
    BY <2>2, <2>3
<1> HIDE DEF gone
<1>4. SumFunctionOnSet(gone, DOMAIN lots) = lots[l].remaining
  <2>1. IsFiniteSet(DOMAIN lots) /\ IsFiniteSet(DOMAIN lots \ {l})
    BY WalletTyped, LotsListed, FS_Difference DEF BooksInv
  <2>2. SumFunctionOnSet(gone, DOMAIN lots \ {l}) = 0
    BY <1>3, <2>1, SumOfZeros
  <2>3. SumFunctionOnSet(gone, DOMAIN lots) = gone[l] + SumFunctionOnSet(gone, DOMAIN lots \ {l})
    BY <1>3, <2>1, SumWithout
  <2> QED
    BY <1>3, <2>2, <2>3
<1>5. StatementIsTheLots'
  <2>1. SumFunctionOnSet(Left(lots), DOMAIN lots) = SumFunctionOnSet(Left(lots'), DOMAIN lots') + lots[l].remaining
    BY <1>2, <1>3, <1>4, LotsGive DEF BooksInv
  <2>2. statement = SumFunctionOnSet(Left(lots), DOMAIN lots)
    BY DEF BooksInv, LotsAddUp, StatementIsTheLots, Left
  <2>3. SumFunctionOnSet(Left(lots'), DOMAIN lots') \in Nat /\ lots[l].remaining \in Nat
    BY <1>2, LotsRewritten, HeldIsNat, WalletTyped DEF LotsHold, BooksInv
  <2> QED
    BY <1>1, <2>1, <2>2, <2>3 DEF StatementIsTheLots, Left
<1>6. NoLotOverspent'
  BY <1>1, <1>2, <1>3, LotsRewritten, NoMoreSpent DEF BooksInv
<1> QED
  BY <1>5, <1>6 DEF LotsAddUp

\* Nothing moves on the lots or on what orders draw from them.
LEMMA RestBooks ==
    ASSUME BooksInv, CreditInv', lots' = lots, statement' = statement,
           \A o \in Orders : orders'[o].uses = orders[o].uses,
           \A o \in Orders : orders'[o].status = "CANCELLED" <=> orders[o].status = "CANCELLED"
    PROVE  LotsAddUp'
<1>1. StatementIsTheLots'
  BY DEF BooksInv, LotsAddUp, StatementIsTheLots
<1>2. \A l : Drawn(l)' = Drawn(l)
  BY DEF Drawn
<1>3. \A l \in DOMAIN lots : SumFunctionOnSet(Drawn(l), Orders) + lots[l].remaining <= lots[l].amount
  BY DEF BooksInv, LotsAddUp, NoLotOverspent, Drawn
<1>4. \A l \in DOMAIN lots' : SumFunctionOnSet(Drawn(l)', Orders) + lots'[l].remaining <= lots'[l].amount
  BY <1>2, <1>3
<1>5. NoLotOverspent'
  BY <1>4 DEF NoLotOverspent, Drawn
<1> QED
  BY <1>1, <1>5 DEF LotsAddUp

\* An order placed without the wallet draws on nothing.
LEMMA PlainBooks ==
    ASSUME BooksInv, CreditInv', NEW o \in Orders, orders[o].status = "none",
           Placed(o, [l \in Slots |-> 0]), lots' = lots, statement' = statement
    PROVE  LotsAddUp'
<1> DEFINE uses == [l \in Slots |-> 0]
<1>1. uses \in [Slots -> Nat] /\ \A l \in Slots : uses[l] = 0
  OBVIOUS
<1> HIDE DEF uses
<1>2. /\ \A p \in Orders : p # o => orders'[p] = orders[p]
      /\ orders'[o].status = "PLACED" /\ orders'[o].uses = uses
  <2>1. Placed(o, uses)
    BY DEF uses
  <2> QED
    BY <1>1, <2>1, OrderPlaced, WalletTyped DEF BooksInv
<1>3. \A l \in DOMAIN lots : l \in Slots /\ Drawn(l)[o] = 0 /\ Drawn(l)'[o] = 0
  <2>1. \A l \in DOMAIN lots : l \in Slots
    BY WalletTyped DEF BooksInv
  <2> QED
    BY <1>1, <1>2, <2>1 DEF BooksInv, CreditInv, UsesInv, Drawn
<1>4. NoLotOverspent'
  <2>1. Rewritten
    BY RestRewritten DEF BooksInv
  <2>2. \A l \in DOMAIN lots : lots'[l].remaining + Drawn(l)'[o] = lots[l].remaining + Drawn(l)[o]
    BY <1>3
  <2> QED
    BY <1>2, <2>1, <2>2, OrderDraws
<1>5. StatementIsTheLots'
  BY DEF BooksInv, LotsAddUp, StatementIsTheLots
<1> QED
  BY <1>4, <1>5 DEF LotsAddUp

\* A credit, to an order or to nobody, leaves what orders draw.
LEMMA CreditedBooks ==
    ASSUME BooksInv, CreditInv', NEW seen \in Seq(LotRows), NEW at \in 0..now, NEW source \in Sources,
           NEW o \in Orders \cup {NoOrder}, NEW amount \in Nat, Credit(seen, at, source, o, amount),
           \A p \in Orders : orders'[p].uses = orders[p].uses,
           \A p \in Orders : orders'[p].status = "CANCELLED" <=> orders[p].status = "CANCELLED"
    PROVE  LotsAddUp'
<1>1. StatementIsTheLots'
  BY CreditBooks
<1>2. /\ LotsGrow /\ Len(lots') = Len(lots) + 1
      /\ \E lot : lots' = Append(lots, lot) /\ lot.remaining = amount /\ lot.amount = amount
  BY CreditWrites DEF BooksInv
<1>3. PICK lot : lots' = Append(lots, lot) /\ lot.remaining = amount /\ lot.amount = amount
  BY <1>2
<1>4. PICK n \in Nat : n = Len(lots) /\ DOMAIN lots = 1..n /\ lots \in Seq(LotRows) /\ n + 1 \in Slots
  <2>1. Len(lots) + 1 \in Slots
    <3>1. Len(lots') <= MaxLots /\ Len(lots) \in Nat /\ MaxLots \in Nat
      BY WalletTyped DEF BooksInv, CreditInv, TypeOK
    <3> QED
      BY <1>2, <3>1 DEF Slots
  <2> QED
    BY <2>1, WalletTyped DEF BooksInv
<1>5. /\ DOMAIN lots' = 1..(n + 1) /\ \A l \in 1..n : lots'[l] = lots[l]
      /\ lots'[n + 1] = lot
  BY <1>3, <1>4
<1>6. \A l : Drawn(l)' = Drawn(l)
  BY DEF Drawn
<1>7. \A l \in 1..n : SumFunctionOnSet(Drawn(l), Orders) + lots[l].remaining <= lots[l].amount
  BY <1>4 DEF BooksInv, LotsAddUp, NoLotOverspent, Drawn
<1>8. SumFunctionOnSet(Drawn(n + 1), Orders) = 0
  <2>1. n + 1 > Len(lots)
    BY <1>4
  <2>2. \A p \in Orders : Drawn(n + 1)[p] = 0
    BY <1>4, <2>1 DEF BooksInv, CreditInv, UsesInv, Drawn
  <2> QED
    BY <2>2, SumOfZeros, WalletAssumption
<1>9. \A l \in 1..(n + 1) : SumFunctionOnSet(Drawn(l), Orders) + lots'[l].remaining <= lots'[l].amount
  <2> SUFFICES ASSUME NEW l \in 1..(n + 1)
               PROVE  SumFunctionOnSet(Drawn(l), Orders) + lots'[l].remaining <= lots'[l].amount
    OBVIOUS
  <2>1. l \in 1..n \/ l = n + 1
    BY <1>4
  <2>2. CASE l \in 1..n
    BY <1>5, <1>7, <2>2
  <2>3. CASE l = n + 1
    BY <1>3, <1>5, <1>8, <2>3
  <2> QED
    BY <2>1, <2>2, <2>3
<1>10. NoLotOverspent'
  <2>1. \A l \in DOMAIN lots' : SumFunctionOnSet(Drawn(l)', Orders) + lots'[l].remaining <= lots'[l].amount
    BY <1>5, <1>6, <1>9
  <2> QED
    BY <2>1 DEF NoLotOverspent, Drawn
<1> QED
  BY <1>1, <1>10 DEF LotsAddUp

LEMMA CommitBooks ==
    ASSUME BooksInv, CreditInv', ~Overlap, NEW w \in Workers, Commit(w)
    PROVE  LotsAddUp'
<1>i. CreditInv
  BY DEF BooksInv
<1>1. CASE Spend(w)
  <2>1. req[w] # Idle /\ req[w].kind = "spend"
    BY <1>1 DEF Spend, Idle
  <2>2. req[w].order \in Orders /\ orders[req[w].order].status = "none"
    BY <1>i, <2>1 DEF CreditInv, OnceInv, RequestsInv
  <2>3. CASE \E amount \in 0 .. Available(req[w].seen, req[w].at) :
                SpendFrom(req[w].order, req[w].seen, req[w].at, amount)
    BY <2>1, <2>3, SpendBooks
  <2>4. CASE Placed(req[w].order, [l \in Slots |-> 0]) /\ UNCHANGED <<lots, statement, balance>>
    BY <2>2, <2>4, PlainBooks
  <2> QED
    BY <1>1, <2>3, <2>4 DEF Spend
<1>2. CASE Abandon(w)
  BY <1>2, RestBooks DEF Abandon
<1>3. CASE Cancel(w)
  BY <1>3, CancelBooks
<1>4. CASE Release(w)
  <2>1. PICK o \in Orders : o = req[w].order /\ req[w] # Idle
    BY <1>i, <1>4 DEF Release, Idle, CreditInv, OnceInv, RequestsInv
  <2>2. CASE Claimed(o)
    <3>1. /\ orders' = [orders EXCEPT ![o].cashback = "CREDITED"]
          /\ Credit(req[w].seen, req[w].at, "CASHBACK", o, Cashback[o])
      BY <1>4, <2>1, <2>2 DEF Release
    <3>2. /\ \A p \in Orders : orders'[p].uses = orders[p].uses
          /\ \A p \in Orders : orders'[p].status = orders[p].status
      BY <1>i, <3>1, OrderCredited, WalletTyped
    <3>3. PICK seen, at, source, amount :
             /\ seen = req[w].seen /\ at = req[w].at /\ source = "CASHBACK" /\ amount = Cashback[o]
             /\ Credit(seen, at, source, o, amount)
      BY <3>1
    <3>4. seen \in Seq(LotRows) /\ at \in 0..now /\ source \in Sources /\ amount \in Nat
      BY <1>i, <2>1, <3>3, SeenTyped, WalletAssumption DEF Sources
    <3>5. Credit(seen, at, source, o, amount)
      BY <3>3
    <3> QED
      BY <3>2, <3>4, <3>5, CreditedBooks
  <2>3. CASE ~ Claimed(o)
    BY <1>4, <2>1, <2>3, RestBooks DEF Release
  <2> QED
    BY <2>2, <2>3
<1>5. CASE GrantBonus(w)
  <2>1. req[w] # Idle /\ orders' = orders
    BY <1>5 DEF GrantBonus, Idle
  <2>2. CASE Credit(req[w].seen, req[w].at, "SIGNUP_BONUS", NoOrder, Bonus)
    <3>1. PICK seen, at, source, of, amount :
             /\ seen = req[w].seen /\ at = req[w].at /\ source = "SIGNUP_BONUS" /\ of = NoOrder /\ amount = Bonus
             /\ Credit(seen, at, source, of, amount)
      BY <2>2
    <3>2. /\ seen \in Seq(LotRows) /\ at \in 0..now /\ source \in Sources /\ amount \in Nat
          /\ of \in Orders \cup {NoOrder}
      BY <1>i, <2>1, <3>1, SeenTyped, WalletAssumption DEF Sources
    <3>3. Credit(seen, at, source, of, amount)
      BY <3>1
    <3> QED
      BY <2>1, <3>2, <3>3, CreditedBooks
  <2>3. CASE UNCHANGED <<lots, statement, balance>>
    BY <2>1, <2>3, RestBooks
  <2> QED
    BY <1>5, <2>2, <2>3 DEF GrantBonus
<1> QED
  BY <1>1, <1>2, <1>3, <1>4, <1>5 DEF Commit

LEMMA HandCreditBooks ==
    ASSUME BooksInv, CreditInv', HandCredit
    PROVE  LotsAddUp'
<1>1. PICK amount \in HandCredits : Credit(lots, now, "ADMIN_CREDIT", NoOrder, amount)
  BY DEF HandCredit
<1>2. /\ lots \in Seq(LotRows) /\ now \in 0..now /\ amount \in Nat
      /\ "ADMIN_CREDIT" \in Sources /\ NoOrder \in Orders \cup {NoOrder} /\ orders' = orders
  BY WalletTyped, WalletAssumption DEF Sources, BooksInv, HandCredit
<1> QED
  BY <1>1, <1>2, CreditedBooks

LEMMA BooksStep == ~Overlap /\ BooksInv /\ [Next]_vars => BooksInv'
<1> SUFFICES ASSUME ~Overlap, BooksInv, [Next]_vars
             PROVE  LotsAddUp'
  BY CreditStep DEF BooksInv
<1>1. CreditInv'
  BY CreditStep DEF BooksInv
<1>2. CASE UNCHANGED vars
  BY <1>1, <1>2, RestBooks DEF vars
<1>3. ASSUME NEW w \in Workers, NEW kind, NEW o, Start(w, kind, o)
      PROVE  LotsAddUp'
  BY <1>1, <1>3, RestBooks DEF Start
<1>4. ASSUME NEW o \in Orders, Deliver(o)
      PROVE  LotsAddUp'
  <2>1. /\ orders[o].status = "PLACED" /\ orders'[o].status = "DELIVERED" /\ orders'[o].uses = orders[o].uses
        /\ \A p \in Orders : p # o => orders'[p] = orders[p]
        /\ lots' = lots /\ statement' = statement
    BY <1>4, OrderDelivered DEF Deliver, BooksInv
  <2> QED
    BY <1>1, <2>1, RestBooks
<1>5. CASE Tick
  BY <1>1, <1>5, RestBooks DEF Tick
<1>6. CASE Next
  BY <1>1, <1>3, <1>4, <1>5, <1>6, CommitBooks, HandCreditBooks, HandDebitBooks, ExpireBooks
  DEF Next, StartSpend, StartCancel, StartRelease, StartBonus
<1> QED
  BY <1>2, <1>6

LEMMA BooksInit == Init => BooksInv
<1> SUFFICES ASSUME Init
             PROVE  BooksInv
  OBVIOUS
<1>1. /\ now = 0 /\ lots = <<>> /\ orders = [o \in Orders |-> Unplaced] /\ statement = 0 /\ balance = 0
      /\ bonusAt = FALSE /\ req = [w \in Workers |-> Idle]
  BY DEF Init
<1>2. DOMAIN lots = {} /\ Len(lots) = 0 /\ lots \in Seq(LotRows)
  BY <1>1
<1>3. \A o \in Orders : /\ orders[o].status = "none" /\ orders[o].cashback = "NONE"
                        /\ \A l \in Slots : orders[o].uses[l] = 0
  BY <1>1 DEF Unplaced
<1>4. orders \in [Orders -> OrderRows]
  <2>1. Unplaced \in OrderRows
    BY DEF Unplaced, OrderRows
  <2> QED
    BY <1>1, <2>1
<1>5. OnceInv
  BY OnceInit
<1>6. \A w \in Workers : req[w] = Idle
  BY <1>1
<1>7. TypeOK
  <2>1. now \in Instants /\ Len(lots) <= MaxLots
    BY <1>1, <1>2, WalletAssumption DEF Instants
  <2>2. statement \in Int /\ balance \in Nat
    BY <1>1
  <2>3. DOMAIN req = Workers
    BY <1>1
  <2>4. bonusAt \in BOOLEAN
    BY <1>1
  <2> QED
    BY <1>2, <1>4, <1>6, <2>1, <2>2, <2>3, <2>4 DEF TypeOK
<1>8. Room
  <2>1. Awaited = {o \in Orders : Cashback[o] > 0}
    BY <1>3 DEF Awaited
  <2> QED
    BY <1>1, <1>2, <2>1, FewAwaited, WalletAssumption DEF Room, Promised
<1>9. SeenInv /\ UsesInv /\ CancelsInv /\ LotsInBounds
  BY <1>2, <1>3, <1>6 DEF SeenInv, UsesInv, CancelsInv, LotsInBounds
<1>10. LotsAddUp
  <2>1. StatementIsTheLots
    BY <1>1, <1>2, SumOfNone DEF StatementIsTheLots
  <2>2. NoLotOverspent
    BY <1>2 DEF NoLotOverspent
  <2> QED
    BY <2>1, <2>2 DEF LotsAddUp
<1> QED
  BY <1>5, <1>7, <1>8, <1>9, <1>10 DEF BooksInv, CreditInv

\* However transactions overlap, what the wallet keeps is what it may be: rows,
\* clock and balance (Wallet's own types).
THEOREM CreditTyped == Spec => []TypeOK
<1>1. CreditInv => TypeOK
  BY DEF CreditInv
<1>2. Init => CreditInv
  BY BooksInit DEF BooksInv
<1> QED
  BY CreditStep, <1>1, <1>2, PTL DEF Spec

\* However transactions overlap, a lot never holds less than nothing or more
\* than was credited (the clamps of debitWallet and reverseOrderRedemption).
THEOREM LotsBounded == Spec => []LotsInBounds
<1>1. CreditInv => LotsInBounds
  BY DEF CreditInv
<1>2. Init => CreditInv
  BY BooksInit DEF BooksInv
<1> QED
  BY CreditStep, <1>1, <1>2, PTL DEF Spec

\* Where one customer's transactions do not overlap, the statement is what the
\* lots hold, and no lot is spent beyond what was credited to it (wallet.ts:
\* debitWallet, creditWallet, reverseOrderRedemption).
THEOREM EveryRupeeKept == ASSUME ~Overlap PROVE Spec => []LotsAddUp
<1>1. BooksInv => LotsAddUp
  BY DEF BooksInv
<1>2. BooksInv /\ [Next]_vars => BooksInv'
  BY BooksStep
<1> QED
  BY BooksInit, <1>1, <1>2, PTL DEF Spec

=============================================================================
