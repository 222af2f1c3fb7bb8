SPECIFICATION FairSpec
CONSTANTS
    s1 = s1  s2 = s2  p1 = p1  p2 = p2  r1 = r1  r2 = r2  c1 = c1  c2 = c2
    Sessions <- OneSession
    Payments <- TwoPayments
    Requests <- OneRequest
    Passes <- OnePass
    SessionOf <- AllToFirst
    GatewayOf <- AtRazorpay
    Price = 2
    PaidAmounts <- Exact
    LatePayments = FALSE
    CrashAt <- BeforeTheRefund
    AckLoss = FALSE
    MaxFaults = 2
    MaxOrders = 2
PROPERTIES
    EveryPaymentSettles
CHECK_DEADLOCK FALSE
