------------------------- MODULE PaymentSettlement -------------------------
(***************************************************************************)
(* What paying online promises, with nothing of how: the header of         *)
(* core/src/write/payment-session.ts.  Money a gateway has taken becomes   *)
(* one order, or goes back; never both, and never neither.                 *)
(***************************************************************************)
CONSTANT Sessions

VARIABLES money,    \* "none", "taken" by the gateway, or "returned"
          ordered   \* the order has been placed

vars == <<money, ordered>>

TypeOK == /\ money   \in [Sessions -> {"none", "taken", "returned"}]
          /\ ordered \in [Sessions -> BOOLEAN]

Init == /\ money   = [s \in Sessions |-> "none"]
        /\ ordered = [s \in Sessions |-> FALSE]

Take(s) == /\ money[s] = "none"
           /\ money' = [money EXCEPT ![s] = "taken"]
           /\ UNCHANGED ordered

Place(s) == /\ money[s] = "taken" /\ ~ordered[s]
            /\ ordered' = [ordered EXCEPT ![s] = TRUE]
            /\ UNCHANGED money

Return(s) == /\ money[s] = "taken" /\ ~ordered[s]
             /\ money' = [money EXCEPT ![s] = "returned"]
             /\ UNCHANGED ordered

Next == \E s \in Sessions : Take(s) \/ Place(s) \/ Return(s)

Spec == Init /\ [][Next]_vars

\* Money taken does not stay taken for nothing.
FairSpec == Spec /\ \A s \in Sessions : WF_vars(Place(s) \/ Return(s))
=============================================================================
