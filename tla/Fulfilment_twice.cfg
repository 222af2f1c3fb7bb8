SPECIFICATION Spec
CONSTANTS
    cement = cement  steel = steel  w1 = w1  w2 = w2
    Lines <- OneLine
    Ordered <- JustTwo
    UnitPayable <- Price
    Staff <- TwoRequests
    Alone <- Cancels
    TypedCash = FALSE
    MaxLoads = 2
    Advance = 0
    Charges = 1
INVARIANT CashTakenOnce
