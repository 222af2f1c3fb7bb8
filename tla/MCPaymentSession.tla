-------------------------- MODULE MCPaymentSession --------------------------
(* Small instances of PaymentSession for TLC.                              *)
EXTENDS PaymentSession, TLC

CONSTANTS s1, s2, p1, p2, r1, r2, c1, c2

OneSession  == {s1}
TwoSessions == {s1, s2}
TwoPayments == {p1, p2}
OneRequest  == {r1}
TwoRequests == {r1, r2}
OnePass     == {c1}

AllToFirst == [p \in Payments |-> s1]
OneEach    == p1 :> s1 @@ p2 :> s2
AtRazorpay == [s \in Sessions |-> "RAZORPAY"]
OneOfEach  == s1 :> "RAZORPAY" @@ s2 :> "PAYU"

Exact      == {2}
AnyAmount  == {1, 2, 3}

BeforeTheRefund    == Labels \ {"markRefunded", "markPending"}

RequestSymmetry == Permutations(Requests)

\* Money held or taken becomes an order or goes back, and with fairness the whole
\* is the settlement PaymentSettlement promises (reconcilePaymentSessions).
EveryPaymentSettles == MoneyIsSettled /\ ImplementsFairSettlement

=============================================================================
