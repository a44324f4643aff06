SPECIFICATION Spec
CONSTANTS
    RateScale = 100
    BeamWidth = 2
    ExactLimit = 2
    MaxStack = 2
    MaxMemo = 4
    MaxCalls = 2
    Inventories <- MCInventories
    Calls <- MCCalls
    Callbacks = {"a", "b"}
    Debounce = 2
    Threshold = 1
    MaxStarts = 2
    MaxRegistered = 3
    MaxMonitorTime = 4
    Plugins = {"p1", "p2", "p3"}
    PluginMerchants = {"m1", "m2", "m3", "m4"}
    MerchantsOf <- MCMerchantsOf
    Throwing = {"p1", "p3"}
    Environments = {"browser", "stand-in"}
    Steps = {1, 2, 3}
    MaxAttempts = 2
    Programs = {"g1", "g2"}
    CatalogMerchants = {"m1"}
    PartnerBenefits = {"b1"}
    Wallets <- MCWallets
    Datasets <- MCDatasets
    CatalogTtl = 1
    MaxEdges = 2
    MaxCatalogTime = 1
    ApiKeys = {"k1", "k2"}
    MaxChangesOfKey = 2
    MaxKeyFaults = 1
    Popups = {popup1, popup2}
    Cards = {"c1"}
    Memberships = {"m1"}
    Vouchers = {"v1"}
    Renderings = {TRUE, FALSE}
    MaxCards = 2
    MaxWrites = 2
    MaxEvents = 1
    MaxLogged = 2
    MaxProfileFaults = 1
    LoyaltyIds = {"i1", "i2"}
    Expiries <- MCExpiries
    MaxDay = 1
    ShopIds = {"amazon", "flipkart"}
    StrategyIds = {"s1", "s2"}
    Purchases <- MCPurchases
    HoursPerTick = 30
    MaxRows = 3
    MaxReportTime = 1
    MaxQueueSize = 2
    Loggers <- MCLoggers
    RedactPaths <- MCRedactPaths
    MaxRecorded = 3
    MaxFlushes = 2
    MaxLogCalls = 1
    MaxRequests = 1
    Window = 2
    MaxDashboards = 2
    MaxExplains = 3
    MaxExplainTime = 2
    ReaderVersion = 1
    MaxShelfTime = 2
    Callers = {caller1, caller2}
    VoucherIds = {"v1", "v2"}
    ProgramIds = {"g1"}
    MaxVouchers = 2
    MaxManagerCalls = 3
    MaxManagerFaults = 1
    Uploads <- MCUploads
INVARIANTS
    NearlyBest
    GreedyIsBest
    ResultsAddUp
    AdaptersAreOwned
    NeverHalfMigrated
    AnswersAreRecent
    SettingsShowTheKey
    ShownIsSaved
    StoredIsUsable
    EventsSurvive
    ReportsAddUp
    QueriesMatch
    EventsAreAnonymous
    EventsAreAccountedFor
    QuietDialogAnswers
    CallsArePaced
    ReadAsWritten
    WritesTakeEffect
    ImportsAreWhole
PROPERTY
    EventReachesAll
SYMMETRY Symmetry
CHECK_DEADLOCK FALSE
