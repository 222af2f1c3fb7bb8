--------------------------- MODULE PaymentSession ---------------------------
(***************************************************************************)
(* Paying online: core/src/write/payment-session.ts.                       *)
(*                                                                         *)
(* A PaymentSession row stands for an order that is not written yet.  The  *)
(* browser, PayU's return, a webhook and the reconcile cron each report    *)
(* the money, and all of them end in finalizePaymentSession, which claims  *)
(* the row and then writes the order or refunds the payment.               *)
(*                                                                         *)
(* A worker is one request, or one pass of the cron, in flight.  Each of   *)
(* its awaits (one database statement, or one call of the gateway) is one  *)
(* step, so everything the other workers do may come between two of them.  *)
(***************************************************************************)
EXTENDS Integers, FiniteSets

CONSTANTS
    Sessions,       \* rows of PaymentSession
    Payments,       \* attempts to pay, as the gateway numbers them
    Requests,       \* HTTP requests in flight: browsers and webhooks
    Passes,         \* passes of the reconcile cron in flight
    SessionOf,      \* the session (by its gateway order) an attempt is for
    GatewayOf,      \* the gateway a session was opened at
    Price,          \* `amount`, what every session charges
    PaidAmounts,    \* what an attempt may turn out to have taken
    LatePayments,   \* may money arrive after `expiresAt`?
    CrashAt,        \* the labels at which a worker may die
    AckLoss,        \* may the answer to a COMMIT that succeeded be lost?
    MaxFaults,      \* bound: crashes, errors and lost answers in a behaviour
    MaxOrders       \* bound: orders written for one session

Gateways == {"RAZORPAY", "PAYU"}
NoPayment == "noPayment"

\* Where a worker can be.  At a payment label it knows the payment it is about.
PaymentLabels == {"read", "fail", "capture", "claim", "write", "refund",
                  "markRefunded", "markPending", "reopen", "reply"}
Labels == PaymentLabels \cup {"opening", "lookup", "lookupLate", "expire"}

ASSUME ConstantsAssumption ==
    /\ Sessions # {}
    /\ Requests \cap Passes = {}
    /\ NoPayment \notin Payments
    /\ SessionOf \in [Payments -> Sessions]
    /\ GatewayOf \in [Sessions -> Gateways]
    /\ Price \in Nat \ {0}
    /\ PaidAmounts \subseteq Nat \ {0}
    /\ LatePayments \in BOOLEAN
    /\ AckLoss \in BOOLEAN
    /\ CrashAt \subseteq Labels
    /\ MaxFaults \in Nat
    /\ MaxOrders \in Nat \ {0}

VARIABLES
    status,    \* PaymentSession.status, "none" before the row exists
    opened,    \* gatewayOrderId is set
    payId,     \* gatewayPaymentId
    placed,    \* orders committed for the session; orderId is null iff it is 0
    ledger,    \* gateway payments recorded on those orders
    age,       \* how old the row is: "new", "settled" (5 min), "expired"
    pay,       \* at the gateway: the state of each attempt
    paidAmt,   \* at the gateway: the amount of each attempt
    refunded,  \* at the gateway: how much of it has gone back
    events,    \* at the gateway: the outcomes it reports, any number of times
    pc,        \* where each worker is
    job,       \* what each worker is working on
    faults     \* faults so far

rows    == <<status, opened, payId, placed, ledger, age>>
gateway == <<pay, paidAmt, refunded, events>>
vars    == <<rows, gateway, pc, job, faults>>

Workers == Requests \cup Passes

\* Mutant: a session once reported failed is not asked about again.
MutantWaiting == {"CREATED"}

Open    == {"CREATED", "FAILED", "EXPIRED"}
Waiting == {"CREATED", "FAILED"}
Statuses == Open \cup {"none", "FINALIZING", "ORDER_CREATED",
                       "REFUND_PENDING", "REFUNDED"}
PayStates == {"none", "created", "authorized", "captured", "failed"}
Reported  == {"SUCCESS", "AUTHORIZED", "FAILED", "PENDING"}

\* Mutant: the gateway's own word is passed on.
MutantRawStatus(st) == st

\* What toVerifiedRazorpayPayment and toVerifiedPayuPayment call a state.
VerifiedStatus(st) ==
    IF st = "captured" THEN "SUCCESS"
    ELSE IF st = "authorized" THEN "AUTHORIZED"
    ELSE IF st = "failed" THEN "FAILED" ELSE "PENDING"

Job == [session: Sessions, payment: Payments \cup {NoPayment},
        said: Reported, amount: Nat, retry: BOOLEAN]

\* A report of payment p, as finalizePaymentSession receives it.
ReportOf(p, said) ==
    [session |-> SessionOf[p], payment |-> p, said |-> said,
     amount |-> paidAmt[p], retry |-> FALSE]

\* Work on a session before any payment is known.
WorkOn(s) == [session |-> s, payment |-> NoPayment, said |-> "PENDING",
              amount |-> 0, retry |-> FALSE]
NoJob == WorkOn(CHOOSE s \in Sessions : TRUE)

PaymentsOf(s) == {p \in Payments : SessionOf[p] = s}

Begin(w, label, j) ==
    /\ pc[w] = "idle"
    /\ pc' = [pc EXCEPT ![w] = label]
    /\ job' = [job EXCEPT ![w] = j]
Goto(w, label) == pc' = [pc EXCEPT ![w] = label] /\ UNCHANGED job
Done(w) == /\ pc' = [pc EXCEPT ![w] = "idle"]
           /\ job' = [job EXCEPT ![w] = NoJob]
Fault == faults < MaxFaults /\ faults' = faults + 1

RowTypes ==
    /\ status \in [Sessions -> Statuses]
    /\ opened \in [Sessions -> BOOLEAN]
    /\ payId  \in [Sessions -> Payments \cup {NoPayment}]
    /\ placed \in [Sessions -> Nat]
    /\ ledger \in [Sessions -> SUBSET Payments]
    /\ age    \in [Sessions -> {"new", "settled", "expired"}]

GatewayTypes ==
    /\ pay      \in [Payments -> PayStates]
    /\ paidAmt  \in [Payments -> Nat]
    /\ refunded \in [Payments -> Nat]
    /\ events   \subseteq Payments \X {"authorized", "captured", "failed"}

WorkerTypes ==
    /\ pc  \in [Workers -> Labels \cup {"idle"}]
    /\ job \in [Workers -> Job]
    /\ \A w \in Workers : pc[w] \in PaymentLabels => job[w].payment \in Payments

TypeOK == RowTypes /\ GatewayTypes /\ WorkerTypes /\ faults \in Nat

Init ==
    /\ status   = [s \in Sessions |-> "none"]
    /\ opened   = [s \in Sessions |-> FALSE]
    /\ payId    = [s \in Sessions |-> NoPayment]
    /\ placed   = [s \in Sessions |-> 0]
    /\ ledger   = [s \in Sessions |-> {}]
    /\ age      = [s \in Sessions |-> "new"]
    /\ pay      = [p \in Payments |-> "none"]
    /\ paidAmt  = [p \in Payments |-> 0]
    /\ refunded = [p \in Payments |-> 0]
    /\ events   = {}
    /\ pc       = [w \in Workers |-> "idle"]
    /\ job      = [w \in Workers |-> NoJob]
    /\ faults   = 0

-----------------------------------------------------------------------------
(* The gateway and the customer at it: code outside this repository.       *)

\* Money may still arrive for the session.
CanStillPay(s) == LatePayments \/ age[s] # "expired"

\* The customer tries to pay.  A gateway order takes one payment at a time,
\* and none once it is paid.
Attempt(p, amount) ==
    LET s == SessionOf[p] IN
    /\ opened[s] /\ CanStillPay(s)
    /\ pay[p] = "none"
    /\ \A q \in PaymentsOf(s) : pay[q] \in {"none", "failed"}
    /\ pay' = [pay EXCEPT ![p] = "created"]
    /\ paidAmt' = [paidAmt EXCEPT ![p] = amount]
    /\ UNCHANGED <<rows, refunded, events, pc, job, faults>>

\* The attempt ends at the gateway, which will report it.
Resolve(p, outcome) ==
    LET s == SessionOf[p] IN
    /\ CanStillPay(s)
    /\ \/ pay[p] = "created" /\ outcome \in {"captured", "failed"}
       \/ pay[p] = "created" /\ outcome = "authorized"
                             /\ GatewayOf[s] = "RAZORPAY"
       \/ pay[p] = "authorized" /\ outcome = "captured"
    /\ pay' = [pay EXCEPT ![p] = outcome]
    /\ events' = events \cup {<<p, outcome>>}
    /\ UNCHANGED <<rows, paidAmt, refunded, pc, job, faults>>

-----------------------------------------------------------------------------
(* Opening a session.                                                      *)

\* openAtGateway creates the row, then calls the gateway.
StartSession(w, s) ==
    /\ status[s] = "none"
    /\ Begin(w, "opening", WorkOn(s))
    /\ status' = [status EXCEPT ![s] = "CREATED"]
    /\ UNCHANGED <<opened, payId, placed, ledger, age, gateway, faults>>

SessionOpened(w) ==
    /\ pc[w] = "opening"
    /\ opened' = [opened EXCEPT ![job[w].session] = TRUE]
    /\ Done(w)
    /\ UNCHANGED <<status, payId, placed, ledger, age, gateway, faults>>

\* The gateway would not open the payment.
OpeningFailed(w) ==
    /\ pc[w] = "opening"
    /\ Fault
    /\ status' = [status EXCEPT ![job[w].session] = "EXPIRED"]
    /\ Done(w)
    /\ UNCHANGED <<opened, payId, placed, ledger, age, gateway>>

\* The row gets older.
Age(s) ==
    /\ status[s] # "none" /\ age[s] # "expired"
    /\ age' = [age EXCEPT ![s] = IF age[s] = "new" THEN "settled" ELSE "expired"]
    /\ UNCHANGED <<status, opened, payId, placed, ledger, gateway, pc, job, faults>>

-----------------------------------------------------------------------------
(* The four ways a payment is reported.                                    *)

\* The modal succeeded: the payment is read back, then finalized.
ConfirmRazorpay(w, p) ==
    /\ opened[SessionOf[p]] /\ GatewayOf[SessionOf[p]] = "RAZORPAY"
    /\ \E st \in {"authorized", "captured"} : <<p, st>> \in events
    /\ Begin(w, "read", ReportOf(p, VerifiedStatus(pay[p])))
    /\ UNCHANGED <<rows, gateway, faults>>

\* An event is finalized on what it says, which the payment may have left
\* behind by now; one that says "failed" only marks the attempt.
RazorpayWebhook(w, p, st) ==
    /\ <<p, st>> \in events
    /\ opened[SessionOf[p]] /\ GatewayOf[SessionOf[p]] = "RAZORPAY"
    /\ Begin(w, IF st = "failed" THEN "fail" ELSE "read",
             ReportOf(p, VerifiedStatus(st)))
    /\ UNCHANGED <<rows, gateway, faults>>

\* PayU's return and its webhook: a success is verified server to server.
PayuReturn(w, p, st) ==
    /\ <<p, st>> \in events
    /\ opened[SessionOf[p]] /\ GatewayOf[SessionOf[p]] = "PAYU"
    /\ Begin(w, IF st = "failed" THEN "fail" ELSE "read",
             ReportOf(p, VerifiedStatus(pay[p])))
    /\ UNCHANGED <<rows, gateway, faults>>

\* The customer closed the window.
ReportPaymentFailed(s) ==
    /\ opened[s] /\ status[s] = "CREATED"
    /\ status' = [status EXCEPT ![s] = "FAILED"]
    /\ UNCHANGED <<opened, payId, placed, ledger, age, gateway, pc, job, faults>>

-----------------------------------------------------------------------------
(* finalizePaymentSession, one await at a time.                            *)

\* The session is read; what was reported decides where to go.
ReadSession(w) ==
    LET s == job[w].session
        said == job[w].said IN
    /\ pc[w] = "read"
    /\ \/ status[s] \notin Open /\ Goto(w, "reply")
       \/ status[s] \in Open /\ said = "FAILED"     /\ Goto(w, "fail")
       \/ status[s] \in Open /\ said = "PENDING"    /\ Done(w)
       \/ status[s] \in Open /\ said = "AUTHORIZED" /\ Goto(w, "capture")
       \/ status[s] \in Open /\ said = "SUCCESS"    /\ Goto(w, "claim")
    /\ UNCHANGED <<rows, gateway, faults>>

\* markSessionFailed: only a session still waiting is marked.
MarkSessionFailed(w) ==
    LET s == job[w].session IN
    /\ pc[w] = "fail"
    /\ status' = IF status[s] = "CREATED"
                 THEN [status EXCEPT ![s] = "FAILED"] ELSE status
    /\ Goto(w, "reply")
    /\ UNCHANGED <<opened, payId, placed, ledger, age, gateway, faults>>

\* The hold is captured, or the gateway's own capture came first.
Capture(w) ==
    LET p == job[w].payment IN
    /\ pc[w] = "capture"
    /\ pay[p] \in {"authorized", "captured"}
    /\ pay' = [pay EXCEPT ![p] = "captured"]
    /\ events' = events \cup {<<p, "captured">>}
    /\ Goto(w, "claim")
    /\ UNCHANGED <<rows, paidAmt, refunded, faults>>

\* The capture call throws; the gateway may have captured all the same.
CaptureFails(w) ==
    /\ pc[w] = "capture"
    /\ Fault
    /\ \/ UNCHANGED <<pay, events>>
       \/ /\ pay' = [pay EXCEPT ![job[w].payment] = "captured"]
          /\ events' = events \cup {<<job[w].payment, "captured">>}
    /\ Done(w)
    /\ UNCHANGED <<rows, paidAmt, refunded>>

\* Mutant: the claim does not look at the status it replaces.
MutantClaim(w) ==
    /\ pc[w] = "claim"
    /\ status' = [status EXCEPT ![job[w].session] = "FINALIZING"]
    /\ payId' = [payId EXCEPT ![job[w].session] = job[w].payment]
    /\ Goto(w, IF job[w].amount = Price THEN "write" ELSE "refund")
    /\ UNCHANGED <<opened, placed, ledger, age, gateway, faults>>

\* The claim: one updateMany, which matches an open session only.
Claim(w) ==
    LET s == job[w].session
        p == job[w].payment IN
    /\ pc[w] = "claim"
    /\ IF status[s] \in Open
       THEN /\ status' = [status EXCEPT ![s] = "FINALIZING"]
            /\ payId' = [payId EXCEPT ![s] = p]
            /\ Goto(w, IF job[w].amount = Price THEN "write" ELSE "refund")
       ELSE /\ UNCHANGED <<status, payId>>
            /\ Goto(w, "reply")
    /\ UNCHANGED <<opened, placed, ledger, age, gateway, faults>>

\* writeOrder commits: the order, its payment and the session together.
WriteCommits(s, p) ==
    /\ placed[s] < MaxOrders
    /\ placed' = [placed EXCEPT ![s] = @ + 1]
    /\ ledger' = [ledger EXCEPT ![s] = @ \cup {p}]
    /\ status' = [status EXCEPT ![s] = "ORDER_CREATED"]

\* Mutant: a session that has its order is refunded too.
MutantWriteOrder(w) ==
    /\ pc[w] = "write"
    /\ WriteCommits(job[w].session, job[w].payment)
    /\ Goto(w, "refund")
    /\ UNCHANGED <<opened, payId, age, gateway, faults>>

WriteOrder(w) ==
    /\ pc[w] = "write"
    /\ WriteCommits(job[w].session, job[w].payment)
    /\ Goto(w, "reply")
    /\ UNCHANGED <<opened, payId, age, gateway, faults>>

\* Stock gone, price moved, wallet spent, customer blocked.
WriteRefused(w) ==
    /\ pc[w] = "write"
    /\ Goto(w, "refund")
    /\ UNCHANGED <<rows, gateway, faults>>

\* Anything else writeOrder throws, or the answer to its COMMIT is lost.
WriteThrows(w) ==
    /\ pc[w] = "write"
    /\ Fault
    /\ \/ UNCHANGED <<placed, ledger, status>>
       \/ AckLoss /\ WriteCommits(job[w].session, job[w].payment)
    /\ Goto(w, "reopen")
    /\ UNCHANGED <<opened, payId, age, gateway>>

\* The catch hands the session back, and throws on.
HandBack(w) ==
    /\ pc[w] = "reopen"
    /\ status' = [status EXCEPT ![job[w].session] = "CREATED"]
    /\ Done(w)
    /\ UNCHANGED <<opened, payId, placed, ledger, age, gateway, faults>>

\* The gateway takes a refund of captured money that has not gone back yet.
Refundable(p, amount) ==
    /\ pay[p] = "captured"
    /\ refunded[p] + amount <= paidAmt[p]

\* refundSession calls the gateway.
Refund(w) ==
    LET p == job[w].payment IN
    /\ pc[w] = "refund"
    /\ IF Refundable(p, job[w].amount)
       THEN /\ refunded' = [refunded EXCEPT ![p] = @ + job[w].amount]
            /\ Goto(w, "markRefunded")
       ELSE /\ UNCHANGED refunded
            /\ Goto(w, "markPending")
    /\ UNCHANGED <<rows, pay, paidAmt, events, faults>>

\* The call fails, or times out after the gateway took the refund.
RefundFails(w) ==
    LET p == job[w].payment IN
    /\ pc[w] = "refund"
    /\ Fault
    /\ \/ UNCHANGED refunded
       \/ /\ Refundable(p, job[w].amount)
          /\ refunded' = [refunded EXCEPT ![p] = @ + job[w].amount]
    /\ Goto(w, "markPending")
    /\ UNCHANGED <<rows, pay, paidAmt, events>>

\* What became of the refund is written whatever the row says by now.
MarkRefund(w) ==
    /\ pc[w] \in {"markRefunded", "markPending"}
    /\ status' = [status EXCEPT ![job[w].session] =
                    IF pc[w] = "markRefunded" THEN "REFUNDED" ELSE "REFUND_PENDING"]
    /\ IF job[w].retry THEN Done(w) ELSE Goto(w, "reply")
    /\ UNCHANGED <<opened, payId, placed, ledger, age, gateway, faults>>

Reply(w) ==
    /\ pc[w] = "reply"
    /\ Done(w)
    /\ UNCHANGED <<rows, gateway, faults>>

-----------------------------------------------------------------------------
(* reconcilePaymentSessions, in pieces: each session a pass looks at.      *)

\* A worker holds the claim on s, and is not done with it.
Claimed == {"write", "refund", "markRefunded", "markPending", "reopen"}
HoldsClaim(w, s) == pc[w] \in Claimed /\ ~job[w].retry /\ job[w].session = s

\* Mutant: a claim is handed back whatever its age.
MutantStuckAtOnce(s) == status[s] = "FINALIZING" /\ placed[s] = 0

\* Claims ten minutes old are handed back.  A request lives for less: the
\* gateway call is cut after 15 seconds and the transaction times out, so
\* such a claim is one nobody holds.
Stuck(s) == /\ status[s] = "FINALIZING" /\ placed[s] = 0
            /\ \A w \in Workers : ~HoldsClaim(w, s)

ReopenStuck ==
    /\ \E s \in Sessions : Stuck(s)
    /\ status' = [s \in Sessions |-> IF Stuck(s) THEN "CREATED" ELSE status[s]]
    /\ UNCHANGED <<opened, payId, placed, ledger, age, gateway, pc, job, faults>>

\* A session left waiting is asked about.  Whether it has expired was read
\* with the list, before the gateway answers.
LookAt(w, s) ==
    /\ status[s] \in Waiting /\ opened[s] /\ age[s] # "new"
    /\ Begin(w, IF age[s] = "expired" THEN "lookupLate" ELSE "lookup", WorkOn(s))
    /\ UNCHANGED <<rows, gateway, faults>>

\* lookUpPayment: the captured payment if there is one, else the held one.
FoundPayments(s) ==
    LET captured == {p \in PaymentsOf(s) : pay[p] = "captured"}
        held     == {p \in PaymentsOf(s) : pay[p] = "authorized"}
    IN  IF captured # {} THEN captured ELSE held

LookUp(w) ==
    LET s == job[w].session IN
    /\ pc[w] \in {"lookup", "lookupLate"}
    /\ \/ \E p \in FoundPayments(s) :
            /\ pc' = [pc EXCEPT ![w] = "read"]
            /\ job' = [job EXCEPT ![w] = ReportOf(p, VerifiedStatus(pay[p]))]
       \/ /\ FoundPayments(s) = {}
          /\ IF pc[w] = "lookupLate" THEN Goto(w, "expire") ELSE Done(w)
    /\ UNCHANGED <<rows, gateway, faults>>

LookUpFails(w) ==
    /\ pc[w] \in {"lookup", "lookupLate"}
    /\ Fault
    /\ Done(w)
    /\ UNCHANGED <<rows, gateway>>

\* Mutant: the list is trusted, not the status.
MutantExpire(w) ==
    /\ pc[w] = "expire"
    /\ status' = [status EXCEPT ![job[w].session] = "EXPIRED"]
    /\ Done(w)
    /\ UNCHANGED <<opened, payId, placed, ledger, age, gateway, faults>>

\* Nothing paid and the window closed; only a waiting session expires.
Expire(w) ==
    LET s == job[w].session IN
    /\ pc[w] = "expire"
    /\ status' = IF status[s] \in Waiting
                 THEN [status EXCEPT ![s] = "EXPIRED"] ELSE status
    /\ Done(w)
    /\ UNCHANGED <<opened, payId, placed, ledger, age, gateway, faults>>

\* A refund that failed is tried again, for the session's amount.
RetryRefund(w, s) ==
    /\ status[s] = "REFUND_PENDING" /\ payId[s] # NoPayment
    /\ Begin(w, "refund", [session |-> s, payment |-> payId[s],
                           said |-> "SUCCESS", amount |-> Price, retry |-> TRUE])
    /\ UNCHANGED <<rows, gateway, faults>>

-----------------------------------------------------------------------------
\* The process dies under a worker: what it had not yet written is lost.
Crash(w) ==
    /\ pc[w] \in CrashAt
    /\ Fault
    /\ Done(w)
    /\ UNCHANGED <<rows, gateway>>

Customer ==
    \/ \E p \in Payments : \/ \E a \in PaidAmounts : Attempt(p, a)
                           \/ \E o \in PayStates : Resolve(p, o)
    \/ \E s \in Sessions : Age(s) \/ ReportPaymentFailed(s)

Request(w) ==
    \/ \E s \in Sessions : StartSession(w, s)
    \/ \E p \in Payments : ConfirmRazorpay(w, p)
    \/ \E e \in events : RazorpayWebhook(w, e[1], e[2]) \/ PayuReturn(w, e[1], e[2])

Pass(w) == \E s \in Sessions : LookAt(w, s) \/ RetryRefund(w, s)

\* The steps a worker takes of itself.
Step(w) ==
    \/ SessionOpened(w)
    \/ LookUp(w) \/ Expire(w)
    \/ ReadSession(w) \/ MarkSessionFailed(w) \/ Capture(w) \/ Claim(w)
    \/ WriteOrder(w) \/ WriteRefused(w) \/ HandBack(w)
    \/ Refund(w) \/ MarkRefund(w) \/ Reply(w)

\* The steps something outside it takes against it.
Failure(w) ==
    \/ OpeningFailed(w) \/ LookUpFails(w) \/ CaptureFails(w)
    \/ WriteThrows(w) \/ RefundFails(w) \/ Crash(w)

Next ==
    \/ Customer
    \/ ReopenStuck
    \/ \E w \in Requests : Request(w)
    \/ \E w \in Passes : Pass(w)
    \/ \E w \in Workers : Step(w) \/ Failure(w)

Spec == Init /\ [][Next]_vars

\* Requests run to their end, time passes and the cron keeps coming.  A
\* customer need not pay, and a webhook or a browser need never report.
FairSpec ==
    /\ Spec
    /\ \A w \in Workers : WF_vars(Step(w))
    /\ \A s \in Sessions : WF_vars(Age(s))
    /\ WF_vars(ReopenStuck)
    /\ \A w \in Passes : WF_vars(Pass(w))

-----------------------------------------------------------------------------
(* Safety.                                                                 *)

\* However many paths report one payment, exactly one of them places the
\* order (finalizePaymentSession: the claim is the updateMany).
OneOrderPerSession == \A s \in Sessions : placed[s] <= 1

\* No money goes back for a session that has its order, and no order is
\* written for a session any of whose money went back.
NeverOrderAndRefund ==
    \A s \in Sessions :
        placed[s] > 0 => \A p \in PaymentsOf(s) : refunded[p] = 0

\* An order written for a payment is written on money that was captured, for
\* that session, of exactly its amount: neither a hold, nor a stale report of
\* one, nor a mismatched amount becomes a paid order.
OrderHasItsMoney ==
    \A s \in Sessions : \A p \in ledger[s] :
        SessionOf[p] = s /\ pay[p] = "captured" /\ paidAmt[p] = Price

\* At any moment one worker at most is between claiming a session and
\* settling it, although a claim can be taken away and made again.
ClaimIsExclusive ==
    \A s \in Sessions : \A v, w \in Workers :
        HoldsClaim(v, s) /\ HoldsClaim(w, s) => v = w

\* A session the customer is told was refunded had all of its money returned
\* (schema.prisma: "the money went back").
RefundedInFull ==
    \A s \in Sessions :
        status[s] = "REFUNDED" => refunded[payId[s]] = paidAmt[payId[s]]

\* A session expires only when nothing was paid before the window closed, even
\* when the payment and the pass that gives the session up cross each other.
ExpiredMeansUnpaid ==
    \A s \in Sessions : status[s] = "EXPIRED" =>
        \A p \in PaymentsOf(s) : pay[p] \notin {"authorized", "captured"}

\* A session's money is accounted for: its order was written on captured money
\* of its own and never beside a refund, one worker settles it at a time, and
\* it expires only unpaid (payment-session.ts).
MoneyIsAccountedFor ==
    /\ OrderHasItsMoney /\ NeverOrderAndRefund
    /\ ClaimIsExclusive
    /\ ExpiredMeansUnpaid

(* Why they hold: what else is true of every reachable state.              *)

BackStatuses == {"REFUND_PENDING", "REFUNDED"}
Marking == {"markRefunded", "markPending"}

\* A session being opened is known to its opener alone.
OpeningInv ==
    /\ \A s \in Sessions : status[s] = "none" => ~opened[s]
    /\ \A w \in Workers : pc[w] \in {"lookup", "lookupLate", "expire"} =>
          opened[job[w].session]
    /\ \A w \in Workers : pc[w] = "opening" =>
          status[job[w].session] = "CREATED" /\ ~opened[job[w].session]
    /\ \A v, w \in Workers :
          /\ pc[v] = "opening" /\ pc[w] = "opening"
          /\ job[v].session = job[w].session
          => v = w

\* What is reported, found or claimed never runs ahead of the gateway.
GatewayInv ==
    /\ \A p \in Payments : pay[p] # "none" => opened[SessionOf[p]]
    /\ \A e \in events : pay[e[1]] \in {e[2], "captured"}
    /\ \A s \in Sessions : payId[s] # NoPayment =>
          SessionOf[payId[s]] = s /\ pay[payId[s]] = "captured"

ReportInv ==
    \A w \in Workers : pc[w] \in PaymentLabels =>
        LET p == job[w].payment IN
        /\ SessionOf[p] = job[w].session
        /\ pay[p] # "none"
        /\ ~job[w].retry => job[w].amount = paidAmt[p]
        /\ (\/ pc[w] = "read" /\ job[w].said = "AUTHORIZED"
            \/ pc[w] = "capture") => pay[p] \in {"authorized", "captured"}
        /\ (\/ pc[w] = "read" /\ job[w].said = "SUCCESS"
            \/ pc[w] \in Claimed \cup {"claim"}) => pay[p] = "captured"

\* While a claim is held the row says so, and nothing else settles it.
ClaimShows ==
    \A s \in Sessions : \A w \in Workers :
        HoldsClaim(w, s) => status[s] = "FINALIZING"

RetryIsOwed ==
    \A w \in Workers : job[w].retry =>
        pc[w] \in Marking \cup {"refund"} /\ status[job[w].session] \in BackStatuses

WriteIsExact ==
    \A w \in Workers : pc[w] = "write" => job[w].amount = Price

PlacedShows ==
    \A s \in Sessions : placed[s] = IF status[s] = "ORDER_CREATED" THEN 1 ELSE 0

ClaimInv == /\ ClaimIsExclusive /\ ClaimShows /\ RetryIsOwed
            /\ WriteIsExact /\ PlacedShows

\* Money goes back only under a claim, and the row says so before it is let go.
RefundInv ==
    \A p \in Payments : refunded[p] > 0 =>
        \/ status[SessionOf[p]] \in BackStatuses
        \/ \E w \in Workers : HoldsClaim(w, SessionOf[p]) /\ pc[w] \in Marking

\* What a session is given up on stays unpaid: no money comes any more, and
\* none had come when the gateway was asked.
Unpaid(s) == \A p \in PaymentsOf(s) : pay[p] \notin {"authorized", "captured"}

ExpiryInv ==
    /\ \A w \in Workers :
          /\ pc[w] \in {"lookupLate", "expire"} => age[job[w].session] = "expired"
          /\ pc[w] = "expire" => Unpaid(job[w].session)
    /\ \A s \in Sessions : status[s] = "EXPIRED" =>
          Unpaid(s) /\ (opened[s] => age[s] = "expired")

\* The gateway's books: an attempt takes something, a session one attempt at a
\* time, and what goes back was captured and is no more than that.
BooksInv ==
    /\ \A p \in Payments :
          /\ pay[p] # "none" => paidAmt[p] > 0
          /\ refunded[p] <= paidAmt[p]
          /\ refunded[p] > 0 => pay[p] = "captured"
    /\ \A p, q \in Payments :
          /\ SessionOf[p] = SessionOf[q]
          /\ pay[p] \notin {"none", "failed"} /\ pay[q] \notin {"none", "failed"}
          => p = q

\* Where attempts pay exactly the price and passes do not overlap, what a row
\* says of its refund is what the gateway did.
PaysThePrice == \A p \in Payments : pay[p] # "none" => paidAmt[p] = Price

ClaimNamesPayment ==
    \A s \in Sessions : \A w \in Workers :
        HoldsClaim(w, s) => payId[s] = job[w].payment

RetryNamesPayment ==
    \A w \in Workers : job[w].retry =>
        LET s == job[w].session IN
        /\ w \in Passes /\ job[w].amount = Price
        /\ status[s] = "REFUND_PENDING" /\ payId[s] = job[w].payment

MarkedIsReturned ==
    \A w \in Workers : pc[w] = "markRefunded" => refunded[job[w].payment] = Price

BackNamesPayment ==
    \A s \in Sessions : status[s] \in BackStatuses => payId[s] # NoPayment

ReturnInv == /\ PaysThePrice /\ ClaimNamesPayment /\ RetryNamesPayment
             /\ MarkedIsReturned /\ BackNamesPayment /\ RefundedInFull

IInv == TypeOK /\ OpeningInv /\ GatewayInv /\ ReportInv /\ ClaimInv
               /\ RefundInv /\ OrderHasItsMoney

(* What a step may never do.                                               *)

\* A settled session stays as it was settled, whatever report, retry or pass
\* was already under way when it was.
SettledIsFinal ==
    [][\A s \in Sessions : status[s] \in {"ORDER_CREATED", "REFUNDED"}
                               => status'[s] = status[s]]_vars

(* Liveness.                                                               *)

\* Money the gateway holds or has taken becomes an order or goes back.
MoneyIsSettled ==
    \A p \in Payments :
        pay[p] \in {"authorized", "captured"}
            ~> placed[SessionOf[p]] > 0 \/ refunded[p] = paidAmt[p]

-----------------------------------------------------------------------------
(* The abstract specification this implements.                             *)

Captured(s) == {p \in PaymentsOf(s) : pay[p] = "captured"}

MoneyOf(s) ==
    IF Captured(s) = {} THEN "none"
    ELSE IF \E p \in Captured(s) : refunded[p] = paidAmt[p] THEN "returned"
    ELSE "taken"

Settlement == INSTANCE PaymentSettlement WITH
    money   <- [s \in Sessions |-> MoneyOf(s)],
    ordered <- [s \in Sessions |-> placed[s] > 0]

\* The steps implement the abstract ones, and with fairness so does the whole.
ImplementsSettlement == Settlement!Spec
ImplementsFairSettlement == Settlement!FairSpec

\* Two sessions side by side, money arriving late: each keeps the settlement it
\* promised, stays settled, and no step marks refunded what was not returned in
\* full (payment-session.ts).
SettledSideBySide ==
    /\ SettledIsFinal
    /\ [][RefundedInFull']_vars
    /\ ImplementsSettlement
=============================================================================
