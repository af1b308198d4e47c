SPECIFICATION GroupSpec
CONSTANTS
    m1 = m1
    x1 = x1
    j1 = j1
    j3 = j3
    Symbols = {"A"}
    InitialCash = 14
    WashWindow = 1
    Prices = {4, 6}
    Quantities = {1, 2}
    Cost = 1
    MaxDay = 2
    MaxTrades = 4
    MaxOrders = 2
    Window = 2
    MaxDailyLoss = 5
    MaxNotional = 3
    PositionCap = 4
    SectorCap = 30
    Notionals = {1, 4}
    Pnls <- MCPnls
    Exposures = {0, 2, 4}
    GateValue = 10
    GateHorizon = 5
    Strategies = {s1, s2, s3}
    Percents = {0, 50, 60, 101}
    ActiveWeights = {0, 40, 150}
    MaxStrategies = 2
    MaxRegisters = 5
    BrokerKinds <- MCBrokerKinds
    BrokerCalls = {b1, b2}
    MaxRetries = 2
    MaxHandles = 2
    MaxPaperOrders = 3
    VoteKinds = {"core", "orchestration", "fixed", "capital"}
    Voters = {v1, v2}
    VoteWeights = {0, 3}
    VoteSymbols = {"AAPL", "MSFT"}
    AnswerLists <- MCAnswers
    MaxSignals = 2
    Capital = 12
    MaxVoters = 2
    MaxVoteChanges = 3
    VersionCalls = {c1, c2}
    Contents = {k1, k2}
    MaxVersions = 2
    MaxActivations = 2
    MaxStageMoves = 5
    Publishers = {p1, p2}
    Handlers = {h1, h2}
    MaxLogSize = 1
    MaxPublications = 2
    MaxChanges = 3
    Keys = {k1, k2}
    Tiers <- MCTiers
    Parts = 2
    MaxKeys = 1
    MaxTime = 4
    Calls = {s1, s2}
    MaxConcurrent = 1
    MaxTotal = 2
    IdleTimeout = 1
    AbsoluteTimeout = 2
    MaxSessions = 3
    MaxClock = 3
    Requests = {q1, q2}
    MaxTokens = 3
    MaxToggles = 1
    AssetClasses = {"equity"}
    Adapters <- MCAdapters
    DataMethods = {"bars", "chain"}
    MaxAttempts = 2
    MaxRegistryOps = 2
    CacheKinds = {"locked", "unlocked"}
    Readers = {r1, r2}
    CacheTtl = 2
    MaxDataVersions = 3
    MaxCacheTime = 3
    DropPolicies = {"drop_oldest", "drop_newest"}
    BufferSize = 2
    ReplayCapacity = 2
    MaxTicksMade = 5
    Files = {f1, f2}
    Loaders = {l1, l2}
    MaxEntries = 1
    MaxFileVersions = 2
    Fetches = {y1, y2}
    MaxClients = 4
    MinBars = 2
    MinPrice = 2
    StaleDays = 2
    Closes <- MCCloses
    Revenues <- MCRevenues
    MaxRows = 3
    Sandboxes = {x1, x2}
    EvalTasks = {e1, e2}
    MaxEvals = 3
    GuardThreads = {m1, m2}
    MainThread = m1
    AllowedModules <- MCAllowed
    DeniedModules <- MCDenied
    Bypass <- MCBypass
    Modules <- MCModules
    PluginNames = {n1}
    PluginClasses = {pc1}
    MaxFlips = 2
    Funds = {1, 2, 3}
    FundWeights = {0, 1}
    FundValues = {0, 37}
    DriftPermille = 50
    MaxMarks = 1
    TaxCodes = {"US", "GB", "DE", "FR"}
    TaxResults <- MCTaxResults
    AssetKinds = {"equity"}
    DeductibleCap = 2
    Exemption = 1
    CarryYears = 2
    CarrybackYears = 2
    MaxTaxYear = 3
    Tickers = {"A"}
    TradeSizes = {1, 3}
    TradePrices = {1, 4}
    WashDays = 1
    MaxWashDay = 2
    MaxWashTrades = 3
    RecordIds = {g1, g2}
    Policies <- MCPolicies
    ChunkDays = 2
    MaxRetentionDay = 4
    LoginRequests = {l1, l2}
    Browsers = {b1, b2}
    Flows = {"oidc"}
    Mails = {m1}
    Profiles <- MCProfiles
    MaxStates = 1
    MaxUsers = 2
    Persons = {y1}
    PrivacyCalls = {k1, k2, k3}
    Grace = 1
    MaxDsr = 3
    MaxErasureDay = 2
    LdapThreads = {t1, t2}
    Links = {n1, n2, n3}
    PoolSize = 1
    Groups = {"traders", "staff", "guests"}
    RoleMapping <- MCMapping
    MfaCalls = {f1, f2}
    CodesPerSet = 2
    ChallengeTtl = 0
    MaxSets = 2
    MaxStep = 2
    KeyOwners = {v1, v2}
    KeyPrefixes = {z1, z2}
    Scopes = {"read", "trade"}
    MaxKeysIssued = 2
    FlowIds = {j1, j2, j3, j4}
    ProviderOf <- MCProviderOf
    Skew = 1
    Slugs = {"terms"}
    Required = {"terms"}
    LegalCalls = {lc1, lc2}
    MaxVersion = 2
    MaxAcceptances = 2
    MaxEditions = 2
    MaxStamp = 2
    Universe = {"A", "B"}
    Factors <- MCFactors
    MinPoints = 1
    Scorers = {"f"}
    Ceilings = {2, 4}
    MaxSnapshots = 2
    Clients = {ca, cb}
    Proxies = {pa}
    MaxHops = 2
    Sockets = {ka}
    People = {"ann", "bob"}
    AuthAttempts = 1
    MaxRefills = 1
    MaxRoomsEach = 2
    Raters = {1, 2}
    Stars = {4}
    PageLimit = 1
    MaxSubmissions = 3
    Catalog <- MCCatalog
    SecretNames = {n1, n2}
    SecretCalls = {sc1}
    MaxMasterKeys = 3
    MaxPuts = 2
    FileProviders = {"polygon"}
    Actors = {"ann"}
    MaxAudited = 3
    MaxTampered = 2
    Ratios <- MCRatios
    Dividends = {0, 1, 6}
    ExCloses = {0, 3}
    RawVolumes = {1, 5}
    LastDay = 2
    MaxCorpActions = 2
    TopicSockets = {w1, w2}
    TopicUsers = {"ann", "bob"}
    ValidTopics = {"orders"}
    OtherTopics = {"junk"}
    MaxCasts = 1
    Reports <- MCReports
    WeightSets <- MCWeightSets
    Entrants = {1, 2}
INVARIANTS
    BookBalances
    CapitalKept
    DecisionsGrounded
    BrokerAgrees
    PluginsContained
    LossesRelievedOnce
    EventsDelivered
    LimitsHold
    CredentialsActForOwner
    SpentStaysSpent
    LegalDutiesKept
    DataHonest
    CleaningExplained
    PagesComplete
    SecretsSurviveRotation
PROPERTIES
    StepsFollowHistory
CHECK_DEADLOCK FALSE
