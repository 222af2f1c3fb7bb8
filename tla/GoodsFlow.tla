------------------------------ MODULE GoodsFlow ------------------------------
(***************************************************************************)
(* What fulfilling an order promises of its goods, whatever the loads,     *)
(* requests and statuses behind it: a unit is in the store, on the road,   *)
(* with the customer, or back on the shelf (or written off) once the order *)
(* has ended.  What arrived stays, and nothing moves after the end.        *)
(***************************************************************************)
EXTENDS Integers

CONSTANTS Lines, Ordered

VARIABLES
    store,    \* still to send
    road,     \* sent, and not arrived
    arrived,  \* with the customer
    shelf,    \* back in stock
    ended     \* the order is delivered, closed short or cancelled

vars == <<store, road, arrived, shelf, ended>>

Nothing == [l \in Lines |-> 0]

Init ==
    /\ store = Ordered
    /\ road = Nothing /\ arrived = Nothing /\ shelf = Nothing
    /\ ended = FALSE

\* Goods between the store and the road: a load sent, or called back.
Carry ==
    /\ ~ended
    /\ store' # store
    /\ \A l \in Lines : /\ store'[l] >= 0 /\ road'[l] >= 0
                        /\ store'[l] + road'[l] = store[l] + road[l]
    /\ UNCHANGED <<arrived, shelf, ended>>

\* A load comes in: all, some or none of it arrived, the rest is to send again.
\* With that, everything may have arrived, and the order ends.
HandOver ==
    /\ ~ended
    /\ road' # road
    /\ \A l \in Lines :
        /\ road'[l] \in 0 .. road[l]
        /\ arrived'[l] - arrived[l] \in 0 .. (road[l] - road'[l])
        /\ store'[l] + road'[l] + arrived'[l] = store[l] + road[l] + arrived[l]
    /\ ended' = (\A l \in Lines : arrived'[l] = Ordered[l])
    /\ UNCHANGED shelf

\* The order ends with what arrived; the rest is back on the shelf, or is not.
End ==
    /\ ~ended
    /\ ended' = TRUE
    /\ store' = Nothing /\ road' = Nothing
    /\ UNCHANGED arrived
    /\ \/ shelf' = [l \in Lines |-> store[l] + road[l]]
       \/ UNCHANGED shelf

Next == Carry \/ HandOver \/ End

Spec == Init /\ [][Next]_vars
=============================================================================
