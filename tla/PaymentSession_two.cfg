SPECIFICATION Spec
CONSTANTS
    s1 = s1  s2 = s2  p1 = p1  p2 = p2  r1 = r1  r2 = r2  c1 = c1  c2 = c2
    Sessions <- TwoSessions
    Payments <- TwoPayments
    Requests <- OneRequest
    Passes <- OnePass
    SessionOf <- OneEach
    GatewayOf <- OneOfEach
    Price = 2
    PaidAmounts <- Exact
    LatePayments = TRUE
    CrashAt <- BeforeTheRefund
    AckLoss = FALSE
    MaxFaults = 1
    MaxOrders = 2
PROPERTIES
    SettledSideBySide
CHECK_DEADLOCK FALSE
