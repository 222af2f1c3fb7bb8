SPECIFICATION FairSpec
CONSTANTS
    cement = cement  steel = steel  w1 = w1  w2 = w2
    Lines <- OneLine
    Ordered <- JustTwo
    UnitPayable <- Price
    Staff <- TwoRequests
    Alone <- DeliveriesAndCancels
    TypedCash = FALSE
    MaxLoads = 3
    Advance = 1
    Charges = 1
INVARIANTS
    OrderFollowsItsLoads
PROPERTIES
    OrdersComeToRest
