SPECIFICATION FairSpec
CONSTANTS
    o1 = o1
    o2 = o2
    w1 = w1
    w2 = w2
    Forever = Forever
    Orders <- OneOrder
    Workers <- OneTransaction
    Overlap = FALSE
    Cashback <- OnlyTheFirst
    Validities <- ShortOrForever
    Hold = 1
    Grace = 1
    Horizon = 3
    HandCredits <- Twos
    MaxLots = 3
    Bonus = 1
INVARIANTS
    TypeOK
    LotsAddUp
PROPERTIES
    CreditComes
CHECK_DEADLOCK FALSE
