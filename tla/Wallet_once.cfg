SPECIFICATION Spec
CONSTANTS
    o1 = o1
    o2 = o2
    w1 = w1
    w2 = w2
    Forever = Forever
    Orders <- TwoOrders
    Workers <- TwoTransactions
    Overlap = TRUE
    Cashback <- OnlyTheFirst
    Validities <- Short
    Hold = 1
    Grace = 1
    Horizon = 2
    HandCredits <- Ones
    MaxLots = 3
    Bonus = 1
SYMMETRY Symmetry
INVARIANTS
    LotsInBounds
    PaidOnce
CHECK_DEADLOCK FALSE
