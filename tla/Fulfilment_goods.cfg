SPECIFICATION Spec
CONSTANTS
    cement = cement  steel = steel  w1 = w1  w2 = w2
    Lines <- TwoLines
    Ordered <- OneEach
    UnitPayable <- Prices
    Staff <- TwoRequests
    Alone <- Deliveries
    TypedCash = TRUE
    MaxLoads = 2
    Advance = 1
    Charges = 1
INVARIANTS
    TypeOK
    GoodsAndCashAddUp
PROPERTIES
    ImplementsGoods
