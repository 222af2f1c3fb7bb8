SPECIFICATION Spec
CONSTANTS
    Components = {"support", "matrix", "aisles", "front", "website", "tax", "consent", "file", "visits", "reports", "ads", "messages",
                  "credit", "book", "quote", "areas", "catalogue", "feed", "incidents"}
    Tickets = {1, 2, 3}
    Talkers = {x1, x2}
    OpenCap = 1
    MostMessages = 3
    MostMoves = 2
    ClearOverlap = FALSE
    OptionValues = {"a", "A", "b"}
    Lower <- LowerCase
    MaxAxes = 2
    MaxRows = 3
    MaxEdits = 4
    RenameOnto = FALSE
    Aisles = {"a1", "a2", "a3"}
    Ruled = {"a1"}
    RuleSets <- SomeRules
    Labels = {"l1", "l2"}
    Stocked = {i1}
    Curators = {e1, e2}
    MaxCurations = 2
    Cards = {"i1", "i2"}
    Sizes = {"z1", "z2"}
    SizeKinds <- FourSizes
    Brands = {"b1", "b2"}
    HiddenBrands = {"b2"}
    SuggestTake = 1
    SuggestTTL = 2
    MaxShelfEdits = 1
    MaxMinutes = 4
    Targets = {"page", "category"}
    Guarded = {"page"}
    Addresses = {"x", "y"}
    Authoring = {1, 2}
    MaxAuthored = 4
    Presets = {"r1", "r2"}
    Taxed = {"i1"}
    Percents = {5, 18}
    TaxClerks = {1, 2}
    MaxTaxCalls = 3
    Devices = {1, 2}
    Skewed = {}
    SignInOverlap = FALSE
    MostAnswers = 2
    MostSignIns = 2
    OptionNames = {"8mm", "10mm"}
    Forms <- ThreeForms
    MaxCopies = 1
    MaxFileSteps = 5
    Sessions = {"s1", "s2"}
    Visitors = {"v1", "v2"}
    Tabs = {"t1", "t2"}
    Beacons <- FourBeacons
    Summarisers = {"r1"}
    RollupDays = 2
    RetentionDays = 2
    SilentDays = 1
    MaxBeacons = 2
    MaxVisitOrders = 1
    MaxDay = 3
    Buyers = {"b1", "b2"}
    Sources <- FourSources
    Towns = {"t1"}
    Sellables = {"w1"}
    AdSpend <- ThreeDaysOfSpend
    DailySessions <- TwoDaysOfSessions
    MonthDays = 1
    CohortMonths = 2
    MaxReportDay = 2
    MaxSales = 2
    Pages <- TwoPages
    Pullers = {"p1"}
    PullDays = 2
    MaxRestated = 2
    MaxPulls = 2
    MaxSpendDay = 2
    Patrons = {"p1"}
    AlertPhones = {"s1", "s2"}
    Tellers = {t1}
    ToldEvents = {"payment.received", "customer.welcome", "customer.privacyUpdate"}
    Bodies <- TwoBodies
    MaxTemplateEdits = 2
    MaxMinds = 1
    MaxTold = 1
    Baskets <- TwoBaskets
    CreditRuleSets <- ThreeCredits
    Balances = {0, 65050}
    Shoppers = {"c1", "c2"}
    MaxCreditEdits = 1
    Owners = {"o1", "o2"}
    Entries = {1, 2, 3, 4}
    MaxAddresses = 2
    Keepers = {1, 2}
    MaxBookCalls = 4
    Materials = {"cement", "brick"}
    ByThePiece = {"brick"}
    Jobs <- TwoWalls
    Offerable = {"v1", "v2"}
    Covers = {1000}
    SixPlaces = 100
    MaxLineQty = 3
    Picks <- FourPicks
    Offerers = {1, 2}
    MaxQuoteCalls = 3
    MaxShelfTurns = 1
    Areas = {"p"}
    Wishers = {"w1", "w2"}
    Requests = {1, 2, 3}
    Announcers = {1, 2}
    MaxAreaCalls = 5
    Wares = {g1, g2}
    Entered = {g1}
    RowKeys = {k1}
    Editors = {d1, d2}
    MaxEditorCalls = 2
    MaxStamps = 2
    Tiles = {"i1", "i2"}
    Depots = {"d1", "d2"}
    Way <- TwoDepots
    Bands <- FourBands
    MaxFeedEdits = 1
    People = {1, 2, 3}
    Strangers = {3}
    Servers = {v1, v2}
    Batch = 1
    MostPresses = 2
    MostUnheard = 1
    MostTurns = 1
INVARIANTS
    TypeOK
    ThreadsAreTold
    ProductsKeepTheirRows
    LeanedOnStays
    ListingsAgree
    ConsentIsProved
    CountsAgree
    MessagesFit
    HalfDoneIsRight
PROPERTIES
    NoStepLoses
    CrossingsTakeNothingBack
CHECK_DEADLOCK FALSE
