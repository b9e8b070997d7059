-------------------------------- MODULE Server --------------------------------
(***************************************************************************)
(* The API server's components in the deployments they are looked at in,   *)
(* the server's parts: in Postgres or in memory, with the requests and the *)
(* failures that each part's settings allow.  The components share no      *)
(* state that matters to them, so an execution picks one part at the start *)
(* and only that part's component moves, the others stay as they are.      *)
(***************************************************************************)
EXTENDS Startup

CONSTANTS
    Parts,
    SeedRace, SeedCrash, SeedProfile,           \* a part's settings, a record:
    RegPostgres, RegMemory, RegAlone,           \* which requests there are, what fails,
    WalletRace, WalletAlone,                    \* and the bounds
    OkxRetries, OkxForwarded, OkxAlone,
    UploadPinned, UploadLocal, UploadServed

VARIABLES
    part,
    row, lease, allowance, txs, onchainStake, call, held, faults, crashes, rearms, restakes,
    reached, excused,
    challenges, regs, regIndex, judgeList, judgeIndex, agents, sessions, secret, request,
    registered, joined, restarts,
    staker, seed, profiles, processed, claimTraces, walletRequest, booked, claims, walletRestarts,
    ledger, sent, linked, okxCall, traces, asked, lost,
    round, signed, uploadRequest, stored, calls

seedVars == <<row, lease, allowance, txs, onchainStake, call, held, faults, crashes, rearms,
              restakes, reached, excused>>
regVars == <<challenges, regs, regIndex, judgeList, judgeIndex, agents, sessions, secret, request,
             registered, joined, restarts>>
walletVars == <<staker, seed, profiles, processed, claimTraces, walletRequest, booked, claims,
                walletRestarts>>
okxVars == <<ledger, sent, linked, okxCall, traces, asked, lost>>
uploadVars == <<round, signed, uploadRequest, stored, calls>>

-----------------------------------------------------------------------------
\* Seeding stake: requests that race; one, with crashes; one, beside a handler that saves the
\* whole row.
SR ==
    INSTANCE StakeSeed WITH
        Calls <- SeedRace.calls, Writers <- SeedRace.writers, Stamps <- 1 .. SeedRace.stamps,
        Amount <- SeedRace.amount, OwnStakes <- SeedRace.own, MaxFaults <- SeedRace.faults,
        MaxCrashes <- SeedRace.crashes, MaxTxs <- SeedRace.txs, MaxRearms <- SeedRace.rearms,
        StoreFails <- SeedRace.crashes > 0,
        MaxRestakes <- SeedRace.restakes
SC ==
    INSTANCE StakeSeed WITH
        Calls <- SeedCrash.calls, Writers <- SeedCrash.writers, Stamps <- 1 .. SeedCrash.stamps,
        Amount <- SeedCrash.amount, OwnStakes <- SeedCrash.own, MaxFaults <- SeedCrash.faults,
        MaxCrashes <- SeedCrash.crashes, MaxTxs <- SeedCrash.txs, MaxRearms <- SeedCrash.rearms,
        StoreFails <- SeedCrash.crashes > 0,
        MaxRestakes <- SeedCrash.restakes
SP ==
    INSTANCE StakeSeed WITH
        Calls <- SeedProfile.calls, Writers <- SeedProfile.writers,
        Stamps <- 1 .. SeedProfile.stamps, Amount <- SeedProfile.amount,
        OwnStakes <- SeedProfile.own, MaxFaults <- SeedProfile.faults,
        MaxCrashes <- SeedProfile.crashes, MaxTxs <- SeedProfile.txs,
        MaxRearms <- SeedProfile.rearms, StoreFails <- SeedProfile.crashes > 0,
        MaxRestakes <- SeedProfile.restakes
\* Registering: in Postgres, in memory, and one request at a time.
RP ==
    INSTANCE Registration WITH
        Requests <- RegPostgres.requests, Wallets <- RegPostgres.wallets,
        DemoWallets <- RegPostgres.demo, Postgres <- RegPostgres.postgres,
        FixedSecret <- RegPostgres.fixed, MaxChallenges <- RegPostgres.challenges,
        MaxAsked <- RegPostgres.asked, MaxRestarts <- RegPostgres.restarts,
        MayExpire <- RegPostgres.asked = RegPostgres.challenges
RM ==
    INSTANCE Registration WITH
        Requests <- RegMemory.requests, Wallets <- RegMemory.wallets, DemoWallets <- RegMemory.demo,
        Postgres <- RegMemory.postgres, FixedSecret <- RegMemory.fixed,
        MaxChallenges <- RegMemory.challenges, MaxAsked <- RegMemory.asked,
        MaxRestarts <- RegMemory.restarts, MayExpire <- RegMemory.asked = RegMemory.challenges
RA ==
    INSTANCE Registration WITH
        Requests <- RegAlone.requests, Wallets <- RegAlone.wallets, DemoWallets <- RegAlone.demo,
        Postgres <- RegAlone.postgres, FixedSecret <- RegAlone.fixed,
        MaxChallenges <- RegAlone.challenges, MaxAsked <- RegAlone.asked,
        MaxRestarts <- RegAlone.restarts, MayExpire <- RegAlone.asked = RegAlone.challenges
\* Staking and claiming: stakes that overlap, and one request after another.
WR ==
    INSTANCE AgentWallet WITH
        Requests <- WalletRace.requests, Agents <- WalletRace.agents, Txs <- WalletRace.txs,
        Vaults <- WalletRace.vaults, Postgres <- WalletRace.postgres, Mock <- WalletRace.mock,
        MaySeed <- FALSE, MaxClaims <- WalletRace.claims, MaxRestarts <- WalletRace.restarts,
        agents <- profiles, traces <- claimTraces, request <- walletRequest,
        restarts <- walletRestarts
WA ==
    INSTANCE AgentWallet WITH
        Requests <- WalletAlone.requests, Agents <- WalletAlone.agents, Txs <- WalletAlone.txs,
        Vaults <- WalletAlone.vaults, Postgres <- WalletAlone.postgres, Mock <- WalletAlone.mock,
        MaySeed <- FALSE, MaxClaims <- WalletAlone.claims, MaxRestarts <- WalletAlone.restarts,
        agents <- profiles, traces <- claimTraces, request <- walletRequest,
        restarts <- walletRestarts
\* The OKX wallet: stakes repeated, forwarded calls, one call after another.
OR ==
    INSTANCE OkxWallet WITH
        Calls <- OkxRetries.calls, Wallets <- OkxRetries.wallets, Actions <- OkxRetries.actions,
        Contents <- OkxRetries.contents, HasRpc <- TRUE, Forwards <- OkxRetries.forwards,
        RpcFails <- OkxRetries.rpcFails, MayRevert <- OkxRetries.reverts,
        MaxGrant <- OkxRetries.grant, MaxBond <- OkxRetries.bond, MaxLost <- OkxRetries.lost,
        MaxTxs <- OkxRetries.txs, MaxAsked <- OkxRetries.asked, txs <- sent, call <- okxCall
OF ==
    INSTANCE OkxWallet WITH
        Calls <- OkxForwarded.calls, Wallets <- OkxForwarded.wallets,
        Actions <- OkxForwarded.actions, Contents <- OkxForwarded.contents, HasRpc <- TRUE,
        Forwards <- OkxForwarded.forwards, RpcFails <- OkxForwarded.rpcFails,
        MayRevert <- OkxForwarded.reverts, MaxGrant <- OkxForwarded.grant,
        MaxBond <- OkxForwarded.bond, MaxLost <- OkxForwarded.lost, MaxTxs <- OkxForwarded.txs,
        MaxAsked <- OkxForwarded.asked, txs <- sent, call <- okxCall
OA ==
    INSTANCE OkxWallet WITH
        Calls <- OkxAlone.calls, Wallets <- OkxAlone.wallets, Actions <- OkxAlone.actions,
        Contents <- OkxAlone.contents, HasRpc <- TRUE, Forwards <- OkxAlone.forwards,
        RpcFails <- OkxAlone.rpcFails, MayRevert <- OkxAlone.reverts, MaxGrant <- OkxAlone.grant,
        MaxBond <- OkxAlone.bond, MaxLost <- OkxAlone.lost, MaxTxs <- OkxAlone.txs,
        MaxAsked <- OkxAlone.asked, txs <- sent, call <- okxCall
\* Uploads: pinned, kept here, and pinned where a gateway serves at once.
UP ==
    INSTANCE PayloadUpload WITH
        Requests <- UploadPinned.requests, Wallets <- UploadPinned.wallets,
        Contents <- UploadPinned.texts, Kinds <- UploadPinned.kinds,
        Gateways <- UploadPinned.gateways, Configured <- UploadPinned.configured,
        Defaults <- UploadPinned.defaults,
        Pinata <- UploadPinned.pinata, Steady <- UploadPinned.steady,
        Provider <- UploadPinned.provider, Production <- UploadPinned.provider = "ipfs",
        MaxRounds <- UploadPinned.rounds, MaxSigned <- UploadPinned.signed,
        MaxCalls <- UploadPinned.calls, request <- uploadRequest
UL ==
    INSTANCE PayloadUpload WITH
        Requests <- UploadLocal.requests, Wallets <- UploadLocal.wallets,
        Contents <- UploadLocal.texts, Kinds <- UploadLocal.kinds,
        Gateways <- UploadLocal.gateways, Configured <- UploadLocal.configured,
        Defaults <- UploadLocal.defaults,
        Pinata <- UploadLocal.pinata, Steady <- UploadLocal.steady,
        Provider <- UploadLocal.provider, Production <- UploadLocal.provider = "ipfs",
        MaxRounds <- UploadLocal.rounds, MaxSigned <- UploadLocal.signed,
        MaxCalls <- UploadLocal.calls, request <- uploadRequest
US ==
    INSTANCE PayloadUpload WITH
        Requests <- UploadServed.requests, Wallets <- UploadServed.wallets,
        Contents <- UploadServed.texts, Kinds <- UploadServed.kinds,
        Gateways <- UploadServed.gateways, Configured <- UploadServed.configured,
        Defaults <- UploadServed.defaults,
        Pinata <- UploadServed.pinata, Steady <- UploadServed.steady,
        Provider <- UploadServed.provider, Production <- UploadServed.provider = "ipfs",
        MaxRounds <- UploadServed.rounds, MaxSigned <- UploadServed.signed,
        MaxCalls <- UploadServed.calls, request <- uploadRequest

\* The settings are of the kind that each component expects; who saves a whole row (StakeSeed)
\* takes part in one part only, the parts of one request have one, and the mock provider serves
\* only one that stakes in memory.
ASSUME ServerAssumption ==
    /\ StartupAssumption
    /\ SR!SeedAssumption /\ SC!SeedAssumption /\ SP!SeedAssumption
    /\ SeedRace.writers = {} /\ SeedCrash.writers = {} /\ \A c, d \in SeedCrash.calls : c = d
    /\ RP!RegistrationAssumption /\ RM!RegistrationAssumption /\ RA!RegistrationAssumption
    /\ WR!AgentWalletAssumption /\ WA!AgentWalletAssumption
    /\ ~WalletRace.mock /\ ~WalletAlone.postgres /\ \A r, q \in WalletAlone.requests : r = q
    /\ OR!OkxWalletAssumption /\ OF!OkxWalletAssumption /\ OA!OkxWalletAssumption
    /\ UP!PayloadUploadAssumption /\ UL!PayloadUploadAssumption /\ US!PayloadUploadAssumption

-----------------------------------------------------------------------------
serverVars == <<part, vars, seedVars, regVars, walletVars, okxVars, uploadVars>>

ServerInit ==
    /\ part \in Parts
    /\ Init
    /\ CASE part = "seed_race" -> SR!Init
         [] part = "seed_profile" -> SP!Init
         [] OTHER -> SC!Init
    /\ CASE part = "registration_memory" -> RM!Init
         [] part = "registration_alone" -> RA!Init
         [] OTHER -> RP!Init
    /\ IF part = "agent_wallet" THEN WR!Init ELSE WA!Init
    /\ CASE part = "okx_retries" -> OR!Init
         [] part = "okx_alone" -> OA!Init
         [] OTHER -> OF!Init
    /\ CASE part = "upload_local" -> UL!Init
         [] part = "upload_served" -> US!Init
         [] OTHER -> UP!Init

StartupNext ==
    /\ part = "startup" /\ Next
    /\ UNCHANGED <<part, seedVars, regVars, walletVars, okxVars, uploadVars>>
SeedNext ==
    /\ \/ part = "seed_race" /\ SR!Next
       \/ part = "seed_crash" /\ SC!Next
       \/ part = "seed_profile" /\ SP!Next
    /\ UNCHANGED <<part, vars, regVars, walletVars, okxVars, uploadVars>>
RegNext ==
    /\ \/ part = "registration" /\ RP!Next
       \/ part = "registration_memory" /\ RM!Next
       \/ part = "registration_alone" /\ RA!Next
    /\ UNCHANGED <<part, vars, seedVars, walletVars, okxVars, uploadVars>>
WalletNext ==
    /\ \/ part = "agent_wallet" /\ WR!Next
       \/ part = "agent_wallet_alone" /\ WA!Next
    /\ UNCHANGED <<part, vars, seedVars, regVars, okxVars, uploadVars>>
OkxNext ==
    /\ \/ part = "okx_retries" /\ OR!Next
       \/ part = "okx_forwarded" /\ OF!Next
       \/ part = "okx_alone" /\ OA!Next
    /\ UNCHANGED <<part, vars, seedVars, regVars, walletVars, uploadVars>>
UploadNext ==
    /\ \/ part = "upload" /\ UP!Next
       \/ part = "upload_local" /\ UL!Next
       \/ part = "upload_served" /\ US!Next
    /\ UNCHANGED <<part, vars, seedVars, regVars, walletVars, okxVars>>

ServerNext == StartupNext \/ SeedNext \/ RegNext \/ WalletNext \/ OkxNext \/ UploadNext
ServerSpec == ServerInit /\ [][ServerNext]_serverVars

-----------------------------------------------------------------------------
\* Evidence of a seed is of an agent who had the stake, whoever races; requests that share a
\* chance share one broadcast; a second transfer has one of four reasons, one request loses
\* no record, and evidence, once recorded, stays (StakeSeed).
SeedsOnce ==
    /\ [](part = "seed_race" =>
            /\ SR!TypeOK /\ SR!EvidenceBacked
            /\ SR!OneBroadcastPerChance /\ SR!SeedsOnce)
    /\ [](part = "seed_crash" => SC!EvidenceBacked /\ SC!SeedsOnce /\ SC!NoneOverwritten)
    /\ [](part = "seed_profile" => SP!EvidenceBacked)
    /\ [][part = "seed_race" => SR!EvidenceStays]_seedVars

\* A challenge is used once in either store, and in Postgres a wallet is registered once, the two
\* judge lists agree and every session was earned by its wallet; what was admitted one at a
\* time stays listed (Registration).
RegistrationSound ==
    /\ part = "registration" => RP!RegistrationSound
    /\ part = "registration_memory" => RM!RegistrationSound
    /\ part = "registration_alone" => RA!RegistrationSound

\* No profile shows more stake than the agent has, and one request after another loses
\* neither stakes nor claims (AgentWallet).
StakesBookedOnce ==
    /\ part = "agent_wallet" => WR!TypeOK /\ WR!NeverOverstated
    /\ part = "agent_wallet_alone" =>
           /\ WA!NeverOverstated /\ WA!StakeBooked
           /\ WA!ClaimsTraced

\* What the provider returns as verified was done on the chain, a repeated POST stakes no
\* more than was asked for, and approvals made first suffice (OkxWallet).
WalletCallsAreDone ==
    /\ part = "okx_retries" =>
           OR!StakedAsAsked /\ OR!VerifiedIsDone
    /\ part = "okx_forwarded" => OF!TypeOK /\ OF!VerifiedIsDone
    /\ part = "okx_alone" => OA!ApprovalsSuffice

\* What was uploaded is stored as it was signed, under its own address, and found again as
\* it was sent, and is not given up while a gateway serves it (PayloadUpload).
UploadsAreFound ==
    /\ part = "upload" =>
           /\ UP!TypeOK /\ UP!SignedAsStored
           /\ UP!StoredIsPinned /\ UP!UploadIsFound
    /\ part = "upload_local" => UL!UploadIsFound
    /\ part = "upload_served" => US!ServedIsVerified
=============================================================================
