------------------------------ MODULE MCServer ------------------------------
(***************************************************************************)
(* The API server on small instances: the settings of its parts.           *)
(***************************************************************************)
EXTENDS Server, TLC

CONSTANTS p1, p2, solo, w1, w2, pin, paid, main

Both == {p1, p2}

-----------------------------------------------------------------------------
\* Startup, from three environments and with two edits.
Production == Options \ {"demo", "legacyAlias", "zeroFactory", "zeroStaking", "zeroPov"}
Every == {Production, {"demo", "RPC_URL"}, {"postgres", "DATABASE_URL", "demo", "enforce"}}

\* Two requests; one, with more failures; one, beside a handler that saves the whole row.  The
\* agent moves its stake once or twice.
Race ==
    [calls |-> Both, writers |-> {}, stamps |-> 4, amount |-> 2, own |-> {0}, faults |-> 1,
     crashes |-> 1, txs |-> 3, rearms |-> 2, restakes |-> 1]
Crash ==
    [Race EXCEPT !.calls = {solo}, !.stamps = 3, !.own = {0, 1, 2}, !.faults = 2, !.txs = 4, !.rearms = 3,
                 !.restakes = 2]
Profile ==
    [Race EXCEPT !.calls = {solo}, !.writers = {p1}, !.own = {0, 2}, !.txs = 2, !.rearms = 1]

\* Two requests, in either store; one, from two wallets.
InPostgres ==
    [requests |-> Both, wallets |-> {1}, demo |-> {3}, postgres |-> TRUE, fixed |-> FALSE,
     challenges |-> 3, asked |-> 3, restarts |-> 1]
InMemory ==
    [InPostgres EXCEPT !.postgres = FALSE, !.fixed = TRUE, !.challenges = 2, !.asked = 2, !.restarts = 0]
OneRequest == [InPostgres EXCEPT !.requests = {solo}, !.wallets = {1, 2}]

\* Overlapping stakes in Postgres; stakes and claims one by one in memory.
Overlapping ==
    [requests |-> Both, agents |-> {w1, w2}, txs |-> {"t1", "t2"}, vaults |-> {}, postgres |-> TRUE,
     mock |-> FALSE, claims |-> 0, restarts |-> 1]
OneByOne ==
    [Overlapping EXCEPT !.requests = {solo}, !.vaults = {"v1", "v2"}, !.postgres = FALSE, !.mock = TRUE,
                        !.claims = 3, !.restarts = 0]

\* Two stakes at once, the answer to one lost; forwarded calls; one call after another.
Retries ==
    [calls |-> Both, wallets |-> {w1}, actions |-> {"stakeForAgent"}, contents |-> {1, 2},
     forwards |-> FALSE, rpcFails |-> FALSE, reverts |-> TRUE, grant |-> 0, bond |-> 1, lost |-> 1,
     txs |-> 4, asked |-> 2]
Forwarded ==
    [calls |-> Both, wallets |-> {w1, w2}, contents |-> {1}, forwards |-> TRUE, rpcFails |-> TRUE,
     actions |-> {"openPublicChallenge", "revealResolution", "claimRewards"}, reverts |-> TRUE,
     grant |-> 0, bond |-> 2, lost |-> 0, txs |-> 2, asked |-> 2]
Alone ==
    [calls |-> {solo}, wallets |-> {w1, w2}, contents |-> {1}, forwards |-> FALSE, rpcFails |-> TRUE,
     actions |-> {"stakeForAgent", "openPublicChallenge", "submitRuleDraft"}, reverts |-> FALSE,
     grant |-> 1, bond |-> 1, lost |-> 0, txs |-> 4, asked |-> 3]

\* Pinned, one at a time; kept here, two at once; pinned where a gateway serves at once.
Pinned ==
    [requests |-> {solo}, wallets |-> {w1}, texts |-> {"a"}, kinds |-> {"phase"}, provider |-> "ipfs",
     gateways |-> {pin, paid, main}, configured |-> paid, defaults |-> <<pin, main>>,
     pinata |-> FALSE, steady |-> {}, rounds |-> 2, signed |-> 1, calls |-> 2]
Local ==
    [Pinned EXCEPT !.requests = Both, !.texts = {"a", "b"}, !.kinds = {"phase", "other"},
                   !.provider = "local", !.signed = 0]
Served == [Pinned EXCEPT !.rounds = 1, !.pinata = TRUE, !.steady = {main}, !.signed = 0]

-----------------------------------------------------------------------------
\* Where the other components stay while a part moves.
Resting ==
    /\ part # "startup" => env = Production /\ migrations = Migrations
    /\ part \notin {"seed_race", "seed_crash", "seed_profile"} => onchainStake = 0

MCInit == ServerInit /\ Resting
MCSpec == MCInit /\ [][ServerNext]_serverVars

Symmetry == Permutations(Both) \cup Permutations({w1, w2})
=============================================================================
