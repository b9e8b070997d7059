SPECIFICATION MCSpec
CONSTANTS
    p1 = p1
    p2 = p2
    solo = solo
    w1 = w1
    w2 = w2
    pin = pin
    paid = paid
    main = main
    Environments <- Every
    MaxEdits = 2
    MaxOutages = 1
    SeedRace <- Race
    SeedCrash <- Crash
    SeedProfile <- Profile
    RegPostgres <- InPostgres
    RegMemory <- InMemory
    RegAlone <- OneRequest
    WalletRace <- Overlapping
    WalletAlone <- OneByOne
    OkxRetries <- Retries
    OkxForwarded <- Forwarded
    OkxAlone <- Alone
    UploadPinned <- Pinned
    UploadLocal <- Local
    UploadServed <- Served
    Parts = {"startup", "seed_race", "seed_crash", "seed_profile",
             "registration", "registration_memory", "registration_alone",
             "agent_wallet", "agent_wallet_alone",
             "okx_retries", "okx_forwarded", "okx_alone", "upload", "upload_local", "upload_served"}
SYMMETRY Symmetry
CHECK_DEADLOCK FALSE
INVARIANTS
    EnvSuffices
    ProductionIsReal
    HealthIsTrue
    RegistrationSound
    StakesBookedOnce
    WalletCallsAreDone
    UploadsAreFound
PROPERTY
    SeedsOnce
