SPECIFICATION Spec
CONSTANTS
    Components = {"notify", "media", "import", "convert", "erasure", "catalogue", "feed", "incidents", "methods"}
    Moments = {m1, m2}
    Codes = {m2}
    Refused = {}
    Senders = {s1, s2}
    MaxAttempts = 2
    NotifyOverlap = FALSE
    MaxNotifyFaults = 2
    Files = {f1, f2}
    UseKinds = {"product"}
    Cleaners = {c1, c2}
    MediaOverlap = FALSE
    MaxStoreFaults = 1
    Products = {p1, p2}
    ImageOf <- ImageOfEach
    Runners = {r1, r2}
    MaxTries = 2
    ImportOverlap = FALSE
    Recommits = FALSE
    MaxImportFaults = 3
    Sales = {o1, o2}
    Consenting = {o1}
    Reporters = {t1, t2}
    MaxSends = 2
    SweepTake = 2
    ReportOverlap = FALSE
    MaxReportFaults = 2
    Requests = {q1}
    Erasers = {e1, e2}
    HandStatuses = {"DONE"}
    ErasureOverlap = FALSE
    MaxErasureFaults = 1
    Wares = {g1, g2}
    Entered = {g1}
    RowKeys = {k1}
    Editors = {d1, d2}
    MaxEditorCalls = 2
    MaxStamps = 2
    Tiles = {"i1", "i2"}
    Depots = {"d1", "d2"}
    Way <- TwoDepots
    Bands <- FourBands
    MaxFeedEdits = 0
    People = {1, 2}
    Strangers = {2}
    Servers = {v1, v2}
    Batch = 1
    MostPresses = 2
    MostUnheard = 1
    MostTurns = 1
    Merchants = {"m1"}
    PayOptions = {"UPI"}
    Shoppers = {b1}
    SettingEditors = {n1}
    ChannelKeys = {"WHATSAPP"}
    RotateInFlight = FALSE
    Positions = {0}
    MaxMethodSaves = 1
    MaxRefusals = 1
PROPERTIES
    JobsFinish
CHECK_DEADLOCK FALSE
