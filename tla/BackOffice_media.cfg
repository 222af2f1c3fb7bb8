SPECIFICATION Spec
CONSTANTS
    Components = {"media"}
    Moments = {m1, m2}
    Codes = {m2}
    Refused = {}
    Senders = {s1, s2}
    MaxAttempts = 2
    NotifyOverlap = FALSE
    MaxNotifyFaults = 2
    Files = {f1, f2}
    UseKinds = {"product", "blog"}
    Cleaners = {c1, c2}
    MediaOverlap = FALSE
    MaxStoreFaults = 1
    Bookings = {o1, o2, o3}
    Goods = {g1}
    Untracked = {}
    MadeToOrder = {}
    Clerks = {k1, k2}
    OpeningStock = 1
    MostUnits = 1
    Styles = {"BK", "BM"}
    SaveOverlap = FALSE
    MaxByHand = 1
    Cashiers = {h1, h2}
    OrderTotal = 2
    WalletPaid = 1
    MaxAmount = 2
    MaxEntries = 2
    LedgerOverlap = FALSE
    Variants = {v1}
    MaxRate = 3
    WholeRates = {1, 3}
    Screens = {w1, w2}
    RatesOverlap = FALSE
    MaxSaves = 4
    Products = {p1, p2}
    ImageOf <- ImageOfEach
    Runners = {r1, r2}
    MaxTries = 2
    ImportOverlap = FALSE
    Recommits = FALSE
    MaxImportFaults = 3
    Sales = {o1, o2, o3}
    Consenting = {o1, o2}
    Reporters = {t1, t2}
    MaxSends = 2
    SweepTake = 3
    ReportOverlap = FALSE
    MaxReportFaults = 2
    Requests = {q1, q2}
    Erasers = {e1, e2}
    HandStatuses = {"IN_PROGRESS", "DONE"}
    ErasureOverlap = FALSE
    MaxErasureFaults = 1
    CodePurposes = {"LOGIN", "COD"}
    Callers = {u1, u2}
    MaxGuesses = 1
    MaxCodesSent = 2
    SignIns = {a1, a2}
    Roles = {"OWNER", "STAFF"}
    Papers = 3
    LastStep = 2
    MaxPasswords = 2
    EnrolOverlap = FALSE
    Catalogues <- TwoCatalogues
    Coupons <- ThreeCoupons
    Rules <- ShopRules
    Road <- ThreePins
    Blocks = 5
    MostOfEach = 3
    Merchants = {"m1"}
    PayOptions = {"UPI"}
    Shoppers = {b1}
    SettingEditors = {n1}
    ChannelKeys = {"WHATSAPP"}
    RotateInFlight = FALSE
    Positions = {0}
    MaxMethodSaves = 1
    MaxRefusals = 0
PROPERTIES
    ReferencedIsKept
CHECK_DEADLOCK FALSE
