----------------------------- MODULE MCFulfilment -----------------------------
(* Small instances of Fulfilment for TLC.                                  *)
EXTENDS Fulfilment, TLC

CONSTANTS cement, steel, w1, w2

TwoLines == {cement, steel}
OneLine  == {cement}
OneRequest  == {w1}
TwoRequests == {w1, w2}

JustTwo   == cement :> 2
OneEach   == cement :> 1 @@ steel :> 1
Prices    == cement :> 1 @@ steel :> 2
Price     == cement :> 2

Deliveries            == {"deliver"}
Cancels               == {"cancel"}
DeliveriesAndCancels  == {"deliver", "cancel"}

\* A finished order rests, and one that waits to be confirmed does not wait for
\* ever (shipments.ts, autoConfirmOrders).
OrdersComeToRest == TerminalIsFinal /\ WaitingIsConfirmed

=============================================================================
