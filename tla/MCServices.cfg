SPECIFICATION ServicesSpec
CONSTANTS
    p1 = p1
    p2 = p2
    solo = solo
    w1 = w1
    w2 = w2
    pin = pin
    paid = paid
    main = main
    a1 = a1
    a2 = a2
    a3 = a3
    t1 = t1
    t2 = t2
    alice = alice
    okx = okx
    v1 = v1
    NoAccount = NoAccount
    NoProvider = NoProvider
    NoAgent = NoAgent
    NoContent = NoContent
    Environments <- Every
    MaxEdits = 0
    MaxOutages = 3
    SeedRace <- Race
    SeedCrash <- OneSeed
    SeedProfile <- Profile
    RegPostgres <- Operated
    RegMemory <- InMemory
    RegAlone <- OneRequest
    WalletRace <- Overlapping
    WalletAlone <- OneByOne
    OkxRetries <- Retries
    OkxForwarded <- OneReveal
    OkxAlone <- Alone
    UploadPinned <- Pinned
    UploadLocal <- Local
    UploadServed <- Served
    Parts = {"startup", "seed_crash", "registration", "okx_forwarded", "upload_served",
             "submissions", "workflow", "validator", "wallet", "creation", "decision"}
CHECK_DEADLOCK FALSE
PROPERTIES
    EventuallyServed
    RecordsSettle
    CallsEnd
