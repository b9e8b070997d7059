-------------------------------- MODULE Startup --------------------------------
(***************************************************************************)
(* How the API comes up: its environment is parsed, stores, gateway and    *)
(* providers are built from it, demo agents are seeded or, in production,  *)
(* the seeding of stake is checked, and it listens.  /health reports on    *)
(* the database, on the environment and on seeding.  Meanwhile the         *)
(* operator edits the environment and migrates the database, and database  *)
(* and chain fail and return.                                              *)
(*                                                                         *)
(* An environment is the set of what holds of it: the settings given and   *)
(* the modes chosen.  Values the schema of a single setting refuses, and   *)
(* what the services do once built, are left to their modules.             *)
(***************************************************************************)
EXTENDS Integers

CONSTANTS
    Environments,   \* those the operator starts from
    MaxEdits, MaxOutages   \* bounds

Settings == {"DATABASE_URL", "RPC_URL", "VAULT_FACTORY", "ORCHESTRATOR_KEY", "SEED_KEY", "OKX_ACCESS_KEY",
             "OKX_SECRET_KEY", "OKX_PASSPHRASE", "AGENT_STAKING", "POV_TOKEN", "PINNING_URL", "PINNING_JWT",
             "AUTH_SECRET", "OPERATOR_TOKEN", "PUBLIC_URL", "WEB_URL", "WOKB", "WOKB_CAP", "USDCE", "USDCE_CAP"}
Modes == {"production", "postgres", "demo", "viem", "okxWallet", "okxMarket", "ipfs", "enforce",
          "mainnet", "mainnetIndex", "legacyAlias", "seeding", "zeroFactory", "zeroStaking", "zeroPov"}
Options == Settings \cup Modes

StartupAssumption ==
    /\ Environments \subseteq SUBSET Options
    /\ MaxEdits \in Nat /\ MaxOutages \in Nat

VARIABLES
    env,                \* the environment file
    pc, running,        \* how far the process is, and the environment it read
    migrations, dbUp,   \* files applied to the database
    chain,              \* "sound" for seeding, "unsound" or "silent"
    probe, health,      \* a /health in progress, and the last answer
    edits, outages

process == <<pc, running, probe, health>>
outside == <<env, migrations, dbUp, chain, edits, outages>>
vars == <<process, outside>>

Migrations == 4
NoProbe == "none"

Init ==
    /\ env \in Environments /\ pc = "down" /\ running = {}
    /\ migrations \in 0 .. Migrations /\ dbUp = TRUE /\ chain = "sound"
    /\ probe = NoProbe /\ health = "none" /\ edits = 0 /\ outages = 0

-----------------------------------------------------------------------------
(* The environment's schema. *)

usesOkx(e) == "okxWallet" \in e \/ "okxMarket" \in e
OkxKeys == {"OKX_ACCESS_KEY", "OKX_SECRET_KEY", "OKX_PASSPHRASE"}
tokens(e) == {"WOKB", "USDCE"} \cap e
cap(t) == IF t = "WOKB" THEN "WOKB_CAP" ELSE "USDCE_CAP"

chainGiven(e) ==
    /\ "postgres" \in e => "DATABASE_URL" \in e
    /\ "viem" \in e => {"RPC_URL", "VAULT_FACTORY", "ORCHESTRATOR_KEY"} \subseteq e

okxGiven_NoSecret(e) == usesOkx(e) => "OKX_ACCESS_KEY" \in e
okxGiven(e) ==
    /\ usesOkx(e) => OkxKeys \subseteq e
    /\ "okxWallet" \in e => {"VAULT_FACTORY", "AGENT_STAKING"} \subseteq e
    /\ "ipfs" \in e => {"PINNING_URL", "PINNING_JWT"} \subseteq e

seedingGiven(e) ==
    "seeding" \in e =>
        /\ {"RPC_URL", "AGENT_STAKING", "POV_TOKEN"} \subseteq e
        /\ "SEED_KEY" \in e \/ "ORCHESTRATOR_KEY" \in e

capsGiven(e) == \A t \in tokens(e) : cap(t) \in e

productionGiven_Demo(e) ==
    "production" \in e =>
        /\ {"postgres", "viem", "okxWallet", "okxMarket", "ipfs", "mainnet", "mainnetIndex"} \subseteq e
        /\ {"AUTH_SECRET", "OPERATOR_TOKEN", "POV_TOKEN"} \subseteq e /\ tokens(e) # {}
productionGiven(e) ==
    "production" \in e =>
        /\ {"postgres", "viem", "okxWallet", "okxMarket", "ipfs", "mainnet", "mainnetIndex"} \subseteq e
        /\ {"AUTH_SECRET", "OPERATOR_TOKEN", "PUBLIC_URL", "WEB_URL", "POV_TOKEN"} \subseteq e
        /\ {"demo", "legacyAlias", "zeroFactory", "zeroStaking", "zeroPov"} \cap e = {}
        /\ tokens(e) # {}

loadEnv(e) == chainGiven(e) /\ okxGiven(e) /\ seedingGiven(e) /\ capsGiven(e) /\ productionGiven(e)

-----------------------------------------------------------------------------
(* What is built from it. *)

createRuntimeAdapters(e) ==
    /\ "viem" \in e => "ORCHESTRATOR_KEY" \in e
    /\ usesOkx(e) => "OKX_ACCESS_KEY" \in e /\ ("OKX_SECRET_KEY" \in e <=> "OKX_PASSPHRASE" \in e)
seedServiceBuilt(e) ==
    "seeding" \in e => /\ {"RPC_URL", "AGENT_STAKING", "POV_TOKEN"} \subseteq e
                       /\ "SEED_KEY" \in e \/ "ORCHESTRATOR_KEY" \in e

store(e) == IF "postgres" \in e THEN "postgres" ELSE "memory"
requireLiveAgentSession(e) == "okxWallet" \in e
advertisedTokens(e) == tokens(e)

(* The tables each file makes; the second and the fourth alter columns. *)
OldTables == {"vaults", "agent_profiles", "agent_submissions", "proof_records", "auth_challenges",
              "agent_registrations", "judge_list_entries"}
made(file) == IF file = 1 THEN OldTables ELSE IF file = 3 THEN {"processed_stake_transactions"} ELSE {}
existing == UNION {made(file) : file \in 1 .. migrations}

REQUIRED_POSTGRES_TABLES_Old == OldTables
REQUIRED_POSTGRES_TABLES == OldTables \cup {"processed_stake_transactions"}
databaseOk == store(running) = "memory" \/ (dbUp /\ REQUIRED_POSTGRES_TABLES \subseteq existing)

(* Agents are read with the columns of the second file. *)
agentsReadable == store(running) = "memory" \/ (dbUp /\ migrations >= 2)

realDemoReady(e, ok) ==
    /\ {"postgres", "viem", "okxWallet", "okxMarket", "ipfs", "mainnet", "mainnetIndex"} \subseteq e
    /\ {"RPC_URL", "VAULT_FACTORY", "AGENT_STAKING", "POV_TOKEN", "AUTH_SECRET", "OPERATOR_TOKEN", "ORCHESTRATOR_KEY", "PINNING_URL"} \subseteq e
    /\ OkxKeys \subseteq e /\ "demo" \notin e /\ ~("enforce" \in e /\ "legacyAlias" \in e)
    /\ ok

-----------------------------------------------------------------------------
goes(p) == pc' = p /\ UNCHANGED <<running, probe, health, outside>>
fails == goes("down")

start ==
    /\ pc = "down"
    /\ loadEnv(env) /\ pc' = "loaded" /\ running' = env
    /\ UNCHANGED <<probe, health, outside>>

build ==
    /\ pc = "loaded"
    /\ IF createRuntimeAdapters(running) /\ seedServiceBuilt(running) THEN goes("built") ELSE fails

ensureBaseAgents ==
    /\ pc = "built"
    /\ IF "demo" \notin running \/ agentsReadable THEN goes("populated") ELSE fails

getRuntimeIssues == "seeding" \in running /\ chain # "sound"
seedingChecked == "production" \in running => ~getRuntimeIssues

listen ==
    /\ pc = "populated"
    /\ IF seedingChecked THEN goes("serving") ELSE fails

(* The database is looked at first, then seeding; a chain that does not    *)
(* answer is an error.                                                     *)
checkHealth ==
    /\ pc = "serving" /\ probe = NoProbe
    /\ probe' = (IF databaseOk THEN "ok" ELSE "not ok")
    /\ UNCHANGED <<pc, running, health, outside>>

answers(ok) ==
    IF getRuntimeIssues /\ chain = "silent" THEN "error"
    ELSE IF ok /\ ~getRuntimeIssues /\ ("enforce" \in running => realDemoReady(running, ok)) THEN "ok" ELSE "not ok"

getHealth ==
    /\ pc = "serving" /\ probe # NoProbe
    /\ health' = answers(probe = "ok") /\ probe' = NoProbe
    /\ UNCHANGED <<pc, running, outside>>

crash ==
    /\ pc = "serving" /\ outages < MaxOutages /\ outages' = outages + 1
    /\ pc' = "down" /\ probe' = NoProbe /\ health' = "none"
    /\ UNCHANGED <<running, env, migrations, dbUp, chain, edits>>

edit ==
    /\ edits < MaxEdits /\ edits' = edits + 1
    /\ \E o \in Options : env' = (IF o \in env THEN env \ {o} ELSE env \cup {o})
    /\ UNCHANGED <<process, migrations, dbUp, chain, outages>>

(* Files are applied in order, each by itself; applying one again changes  *)
(* nothing.                                                                *)
applySqlMigrations ==
    /\ dbUp /\ migrations' \in migrations + 1 .. Migrations
    /\ UNCHANGED <<process, env, dbUp, chain, edits, outages>>

outage ==
    /\ outages < MaxOutages /\ outages' = outages + 1
    /\ \/ dbUp' = ~dbUp /\ UNCHANGED chain
       \/ chain' \in {"sound", "unsound", "silent"} \ {chain} /\ UNCHANGED dbUp
    /\ UNCHANGED <<process, env, migrations, edits>>

boot == start \/ build \/ ensureBaseAgents \/ listen
Next == boot \/ checkHealth \/ getHealth \/ crash \/ edit \/ applySqlMigrations \/ outage

(* The service manager starts what is down again, and somebody asks. *)
Fairness == WF_vars(boot) /\ WF_vars(checkHealth) /\ WF_vars(getHealth)
Spec == Init /\ [][Next]_vars /\ Fairness

-----------------------------------------------------------------------------
TypeOK ==
    /\ env \subseteq Options /\ running \subseteq Options
    /\ pc \in {"down", "loaded", "built", "populated", "serving"}
    /\ migrations \in 0 .. Migrations /\ dbUp \in BOOLEAN /\ chain \in {"sound", "unsound", "silent"}
    /\ probe \in {NoProbe, "ok", "not ok"} /\ health \in {"none", "ok", "not ok", "error"}
    /\ edits \in 0 .. MaxEdits /\ outages \in 0 .. MaxOutages

(* What the schema lets through is enough to build every service from: no  *)
(* constructor finds a setting missing.                                    *)
(* [env.ts, superRefine; runtime.ts; AgentStakeSeedService's constructor] *)
EnvSuffices == pc = "loaded" => createRuntimeAdapters(running) /\ seedServiceBuilt(running)

(* A production server keeps its data, acts on the chain and asks agents   *)
(* for sessions that outlive it, and offers a token to create vaults with. *)
(* [env.ts, production; app.ts; app.test.ts:328] *)
ProductionIsReal ==
    pc = "serving" /\ "production" \in running =>
        /\ store(running) = "postgres" /\ {"viem", "okxMarket", "ipfs"} \subseteq running
        /\ requireLiveAgentSession(running) /\ "AUTH_SECRET" \in running
        /\ "demo" \notin running /\ advertisedTokens(running) # {}

(* Two lists kept apart agree: in production nothing but the database can  *)
(* keep the launch check from passing.                                     *)
(* [env.ts, production; runtime-readiness.ts] *)
ProductionIsReady == pc = "serving" /\ "production" \in running => realDemoReady(running, TRUE)

(* A server that said it was healthy has all the tables its stores use,    *)
(* and, where real providers are enforced, has them.                       *)
(* [db/client.ts, checkHealth; app.ts, /health] *)
schema == OldTables \cup {"processed_stake_transactions"}
HealthyHasTables ==
    health = "ok" /\ pc = "serving" =>
        /\ store(running) = "memory" \/ schema \subseteq existing
        /\ "enforce" \in running => {"postgres", "viem", "okxWallet", "okxMarket", "ipfs"} \subseteq running

(* What /health says is true: a healthy server has its tables, and in      *)
(* production only the database can keep the launch check from passing.    *)
HealthIsTrue == TypeOK /\ HealthyHasTables /\ ProductionIsReady

(* Once the environment, the database and the chain are in order and left  *)
(* alone, the server comes up however its earlier starts failed, and says  *)
(* that it is healthy.                                                     *)
(* [proof-of-vault-api.service, Restart; app.ts] *)
InOrder == loadEnv(env) /\ realDemoReady(env, TRUE) /\ dbUp /\ migrations = Migrations /\ chain = "sound"
ComesUp == <>[]InOrder => <>[](pc = "serving" /\ (running = env => health = "ok"))
=============================================================================
