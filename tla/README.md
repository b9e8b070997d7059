# Verification of ProofOfVault

TLA+ specifications of the ProofOfVault contracts, API server and web pages, the
configurations that model-check them with TLC, and proofs checked by TLAPS. The
reference is the code of the repository; `PROJECT.json` maps every definition to
the lines it stands for.

## 1. The system

A *setter* locks collateral on a statement about the world. Agents who staked
POV tokens first write the rules by which the statement will be judged, then
judge it; the collateral goes back to the setter (True, Invalid) or to a
compensation pool (False), less a fee. The contracts decide; an API server
registers agents, forms committees, stores payloads and evidence and keeps its
own record of every vault; pages in the browser let setters and committee members
send transactions and submissions.

| Component | State | Operations | Works with |
|---|---|---|---|
| `AgentStaking` | active, locked and pending stake per agent; task bonds; consumed incidents; accounted total | stake, seed, credit a reward, request and complete a withdrawal, lock, slash and release a task bond, slash an agent | called by the factory (bonds) and by `RewardPool` (staked claims) |
| `VaultFactory` | vault records (status, rounds), pause, roles, collateral policy | create, legacy resolve / dispute / finalize, claim; forwards everything else to its two libraries | calls every other contract; each call is one transaction |
| `VaultFactoryRuleLib` | rule drafts and issues | rule committee, drafts, issues, finalize, reject, accept and fund | `CommitteeRegistry`, `AgentStaking`, `RewardPool`, `VaultEscrow` |
| `VaultFactoryResolutionLib` | none of its own | resolution committee, commit, reveal, verdict, challenge, finalize | the same and `ResolutionRegistry` |
| `CommitteeRegistry` | the two current committees of a vault, their deadlines | register, clear | the libraries |
| `ResolutionRegistry` | final resolution; commits, reveals, verdicts, challenges per round | record each of them, store the final one | the libraries and the legacy path |
| `VaultEscrow` | one escrow record per vault | lock, release, refund, slash, rescue stray tokens | the factory |
| `RewardPool` | setup and reward deposits per vault, challenge bonds, claimable amounts | collect, allocate, refund, sweep, claim | the factory, `AgentStaking` |
| `FeeManager` | fees, bonds, rewards | owner's setters, previews | read by the libraries at the moment they need an amount |
| `VaultFactoryLite` | vault records of a reduced factory | one round, majorities, rule deadlines | the same contracts |
| `ProofOfVaultToken`, `TokenLockbox`, `CompensationPool` | token balances | transfer, vesting, payout | |
| API: start and health | environment, migrations, the process | parse, build, migrate, check, serve, report | the database, the chain |
| API: stake seeding | a seed record in each agent's row | broadcast, record, recover, give up | the chain, the row, registration |
| API: registration and sessions | challenges, registrations, judge list, tokens | challenge, register, log in, admit, bootstrap | two stores, seeding |
| API: agents' stakes | profiles, booked hashes, claim traces | stake, claim | the wallet provider, seeding |
| API: vaults, workflow, reconciliation | a record per vault | create, register, committees, decide, finalize, reconcile | the gateway, the chain, a timer |
| API: submissions, evidence | submissions, proofs, snapshots | prepare, submit, collect, merge | the market provider, the vault's record |
| API: payloads | uploads by hash | authorize, normalize, pin, verify, store | gateways, submissions |
| Agent runtime | none lasting | consensus metrics, committee choice, dispute window, tasks, wallet calls | API, OKX services, the chain |
| Web pages | forms, sessions, salts, the shown wallet | create, decide, commit, reveal, connect | the wallet, the API, the chain |

What is hard here:

- *Interleaving.* On the chain any account may call anything it is entitled to at
  any moment. On the server every `await` lets other requests, the reconciliation
  timer and the chain run, and most services read a row, wait, and save it whole.
- *Two protocols on one record.* The legacy (V1) and the committee (V2)
  resolution share the status `Active` and the resolution record.
- *Rounds.* A resolution without consensus is tried a second time; some records
  carry the round in their key and some (challenge bonds, the mismatch incident)
  do not. Off the chain the round may move between a page's reads and its posts.
- *All-or-nothing transactions, and none at all.* `finalizeV2Vault` is undone as a
  whole by one revert; the in-memory store, uploads, migrations and anything sent
  to the chain are never undone.
- *Lost answers.* A transaction, a POST to the wallet service or a submission may
  have been done although its answer was lost; retries must not do it twice.
- *Two programs for one decision.* Consensus is computed by the factory and by
  the API, committees by the API and checked by the factory, what production needs
  is listed in three places.
- *Money and time.* Rewards are capped by a deposit that may run dry; fees are read
  at different times; deadlines pass while members are silent or the protocol is paused.

What makes each component correct is section 4.

## 2. Modules

| Module | Models | Uses |
|---|---|---|
| `Sums` | sums over finite sets (no code of its own) | |
| `AgentStaking` | `AgentStaking.sol`, all of its state and every operation | `Sums` |
| `VaultBase` | the state of one vault over all contracts, and what the called contracts do (`FundEscrow`, `SettleEscrow`, `Payout`, `LockBonds`, `SlashAndRelease`, ...) | `Sums` |
| `VaultFactoryRuleLib` | the rule phase, one action per external function | `VaultBase` |
| `VaultFactoryResolutionLib` | the resolution round: its steps, then what finalization makes of them, then `finalizeV2Vault` | `VaultBase` |
| `VaultFactory` | the whole vault: both libraries, the legacy path, claims, owner, outside stake movements, time | both |
| `VaultFactoryLite` | the reduced factory; what it does as the full one is taken from it | `VaultBase`, `Full == INSTANCE VaultFactory` |
| `CollateralPromise` | abstract: what a vault promises about the collateral; both factories implement it | |
| `Startup` | `env.ts`, `app.ts`, `runtime.ts`, `server.ts`, migrations, health | |
| `StakeSeed` | `agent-stake-seed-service.ts` and the failure handler of registration | |
| `Registration` | registration, sessions, judge list, bootstrap, over either store | |
| `AgentWallet` | `agent-wallet-service.ts` beside seeding | |
| `OkxWallet` | `okx-agentic-wallet-provider.ts`, `okx-auth.ts` | |
| `PayloadUpload` | `payload-storage-service.ts`, `routes/payloads.ts` | |
| `VaultWorkflow` | `vault-service.ts`, `workflow-service.ts`, reconciliation, the v2 gateway, the vault's row | |
| `Submissions` | `submission-service.ts`, the normalizer, the proof store | |
| `Evidence` | snapshots: `okx-market-data-provider.ts` and the merging in `submission-service.ts` | |
| `Committees` | `committee-selector.ts` and the candidates `vault-service.ts` gives it | |
| `Consensus` | `consensus-engine.ts`, `task-router.ts`, beside the factory's round | `Chain == INSTANCE VaultFactoryResolutionLib` |
| `ConnectedWallet` | `injected.ts`, `Wallet.tsx` | |
| `VaultCreation` | `vaults/create/page.tsx` and its contract calls | |
| `RuleDecision` | `vaults/[id]/review/page.tsx`, the setter's half | |
| `ValidatorPage` | `vaults/[id]/submit/page.tsx`, sessions, submissions; issues of the review page | |
| `Web` | the pages together, each with a state of its own | `ValidatorPage`, `CW == INSTANCE ConnectedWallet`, `VC == INSTANCE VaultCreation`, `RD == INSTANCE RuleDecision` |
| `SumsTheorems`, `AgentStakingProofs`, `VaultBaseProofs`, `VaultFactoryProofs`, `VaultFactoryLiteProofs`, `WebProofs` | theorems (section 5) | the modules they are named for |
| `Server` | the server's components in the deployments they are looked at in, its parts | `Startup`, and two or three instances each of `StakeSeed`, `Registration`, `AgentWallet`, `OkxWallet`, `PayloadUpload` |
| `Records` | what the API stores of vaults, submissions and evidence, in the deployments it is looked at in, its areas | `Vault(s)`, `Subs(s)`, `Ev(s)`: `VaultWorkflow`, `Submissions` and `Evidence` under the settings `s` |
| `ServiceProofs` | theorems about one service each (section 5) | `StakeSeed`, `Reg == INSTANCE Registration`, `Wal == INSTANCE AgentWallet`, `Up == INSTANCE PayloadUpload` |
| `ServerProofs` | theorems about the server and its records (section 5) | `Server`, `Records`, and an instance of `ServiceProofs` for each group of parts |

MC modules give the constants values:

- `MCAgentStaking`, `MCVaultFactory`, `MCVaultFactoryLite` for one instance per `.cfg`;
- `MCVaults` for two more of `VaultFactory`, each cut into *parts*: an execution picks a part in its first
  state and takes only steps that keep to the committees, challenges and rejections of the part (`InPart`);
- `MCServer` gives `Server` its parts' settings; `MCRecords` gives `Records` those of its areas and adds committees and
  consensus, which are instantiated there, as areas of their own; `MCWeb`
  narrows `Web`, and `MCServices` instantiates the smallest of all these for liveness. Each instance is a *part* (or area), too: from the first
  state on only that part's component moves. Parts share no state, and checking them in one run is checking
  each alone. What components do to one another is inside the modules, as the
  moves of their surroundings (section 3). The assumptions of a component on its constants are its
  `...Assumption`; `ServerAssumption`, `RecordsAssumption` and the MC modules' `PartsAreSound` and
  `OthersAreSound` assume them of every part, so TLC checks them.

An operator `X_Variant` that stands before `X` is `X` with a plausible mistake
in it (a missing guard, an off-by-one, a forgotten reset). The specifications do
not use it; put in place of `X` it makes the property it is listed with in
`PROJECT.json` fail, which shows that the property says something about the code.

## 3. How state and actions correspond to the code

### Contracts

*AgentStaking.* `_stakes[a]` is split into the functions `activeStake`,
`lockedTaskStake`, `pendingWithdrawal`; `withdrawalReadyIn` is the time left
until `withdrawalReadyAt`; `_taskBonds` is keyed by agent and task, a task being
the `(vaultId, role)` that `_taskKey` hashes. Checked arithmetic that reverts is a
guard. `Transfer` is a token transfer to the contract without a call, which
`RewardPool` makes just before `creditRewardStake`. The rest of the fixed token
supply is outside, so nothing brings in more than `TokenSupply`.

*One vault.* `vault` is the `VaultRecord`; `ruleCommittee` and
`resolutionCommittee` are `CommitteeRegistry`'s configurations; `round` holds the
commit, reveal, verdict and challenge records of the current round (the code
keeps older rounds, which nothing reads again); `submissions` the drafts and issues
of the current rule round; `resolution` the `ResolutionRecord`, where
`windowOver` says that the dispute window has passed; `escrow`, `collateral` and
`pool` the money. `bonds[a][r].left` is amount minus slashed amount of a's bond
for this vault and role.

*Time.* `clock.deadlinesPassed` counts how many of the four deadlines of the
round (commit, reveal, audit, challenge) `block.timestamp` is past, and
`settlementReached` whether settlement time is; nothing in the code looks at
time in any other way. Rule deadlines are stored by the full factory but never
enforced, hence absent; the reduced one enforces the last of them, which is
`issueDeadlinePassed`.

*Commit and reveal.* A commitment is the value it hides (an outcome and a salt):
the hash is taken to be collision-free and to bind vault and sender, as in the code.
A reveal may be any value, so mismatches happen.

*Incidents* are the tuples the code hashes, with exactly the components it
hashes: the mismatch incident has no round in it, the others do.

*Rewards and slashes.* The libraries allocate one reward after the other, each capped by
what is left; `Payout` computes the same amounts from the list of requests in
the code's order. The code slashes in several loops and then releases. All slashes of a
finalization hit different bonds, with different incidents, so `SlashAndRelease` takes a set
of them; that no incident is consumed is its guard, because `AgentStaking` reverts.
`FinalizeNeverBlocked` then says that this guard is never what stops a finalization.

*Fees.* `fees` is a whole configuration of `FeeManager`; `setFees` replaces it
at any moment. Fractions are in basis points and rounded down. The share of a lost challenge bond
that goes to the treasury only changes where the money goes outside the
model, so both shares leave the pool.

*Surroundings.* `moveStake` stands for what agents and the staking owner do with
stake outside this vault (deposit, withdrawal, `slashAgent`); it never reaches
locked stake, which is exactly what `AgentStaking` guarantees
(`LockedWithinActive`, proved).

*The reduced factory* differs in rule deadlines, bonds (nobody's rule bond is
slashed), challenges (the finalizer names the slash, and the reward is not capped), the tally (majorities;
the disqualified flag is not read) and finalization (after an audit only, nobody is paid for a round).
`ReducedFactory` states what of `VaultFactory`'s constants its code fixes. The refund of a lost
challenge is a fraction of the bond; with a fraction of nothing (10000 bps) the payment of zero reverts, which
`ReducedFactory` allows and the runs, with 2500, do not meet.

### The server

Everything between two awaits is one step; a store transaction that locks its row is
one step, and one that does not (or the in-memory store) is as many as it has awaits. A request is a
record with a `pc` and its locals, so what it read and what it saves later are told apart.
Row ids, hashes and nonces are positions in what was issued so far; a hash is otherwise the record it is taken of.
Requests die at any await (`Faults`, crashes, restarts), and what was sent or saved by then stays.

*StakeSeed.* `row` is the agent's row, `txs` the seed transactions with their fate
(mined, reverted, dropped), `lease` the bootstrap lock in `processed_stake_transactions`. `startedAt` is a fresh
stamp, since the code compares it for equality only, and the five-minute lease on it may have run out
whenever it is looked at. *Writers* are requests that save the whole row without a lock. `onchainStake` is the agent's active
stake, which seeds raise and which `restake` sets to what the agent's own stakes and withdrawals or a slash leave, nothing included;
so a receipt may be there and the stake not (`:394`, `:601`, `:649`).
*Registration.* A request is a step up to the signature's verification and one from it on. In Postgres the
two share a transaction that rolls back; in memory nothing is undone.
*AgentWallet.* Every stake is one unit, so a stake is a number of transactions; seeding sets profiles beside it.
*OkxWallet.* A transaction is a sequence of operations, since account abstraction
forwards several wallets' operations in one; the wallet service may have broadcast whatever it answers.
*PayloadUpload.* Gateways are asked in the code's order and serve or do not, except those in `Steady`.
*Startup.* An environment is the set of what holds of it; whether the schema accepts it, what is built from it and what the
launch check asks are the three lists of the code, translated one by one.

*VaultWorkflow.* `chain` is the factory as the gateway sees it; writes return when broadcast and are mined, or revert, later;
a snapshot is two reads, between which the chain moves. `record` is the API's vault, saved whole
by requests and by the timer. `booked` remembers the transactions whose answer the API has: from a write on, from the
receipt of a registration, from the verification of what a browser sent. It forgets one only when the request that holds it
fails, or ends without saving a challenge it closed (`unsaved`, `closedInVain`).
*Submissions.* Uploads, transactions and submissions of agents who may name the vault by either of its ids;
`Overlap` lets others save the record meanwhile.
*Evidence.* A price is the time it was quoted at; posts are tried twice; clients may send sources of their own, and with a
reveal a hash of their own, as the page does (one over the payload without snapshots), or one that was prepared.
*Committees.* The selector is a function of sorted agents; the service feeds it with listed profiles, or
with those an operator's request claims, and saves them.
*Consensus.* The factory's round runs by its own actions (`Chain!...`); its events are posted to the API at
once, or, when `Lossy`, later or never; the metrics, readiness, slash candidates and tasks are those of the engine.

### The pages

A tab is a record with a `pc`, its form and what it has read. Between any two steps the wallet may change account or chain,
the chain moves, another tab runs, an answer is lost or the tab is reloaded.
*ConnectedWallet.* A call is three requests, each answered in its own time, so calls overtake one another.
*VaultCreation.* Metadata, payment, receipt, registration; a draft is not sent when the wallet is the treasury's as the page read
it. The owner may name another treasury at any time; `reign` counts these, and a payment carries the one that its page had read.
*RuleDecision.* The allowance is one number for all of a setter's vaults and tabs; approvals are left out when what was read suffices.
*ValidatorPage.* Salt and committed snapshot live in the tab; sessions are stored per tab; the API accepts what is of its
round, once per agent and kind.

## 4. Runs

All bounds are in the `.cfg` files and in the MC modules; times are for two workers.

| Run | Question | Parts and bounds | States, time |
|---|---|---|---|
| `staking` | Is the staking ledger consistent and solvent? | 2 agents, 2 tasks, 2 incidents, small amounts, supply of 4 | 160 000, 10 s |
| `owner` | Do the contracts agree, and is the collateral promise kept, while the owner interferes and both protocols run? | 2 fee configurations, pause, stake moving between 0 and 2, 2 rounds, one commitment value of each outcome | 1 080 000, 90 s |
| `rounds` | Do bonds, deposits and rounds end as they should, and can finalizing revert? | *rules*: 2 makers, 1 verifier, one rejection, deposit of 3; *rounds*: 2 rounds, a challenge each, staked claims | 870 000, 100 s |
| `verdicts` | Is collateral taken only on evidence, and does disagreement ever cost stake? | *consensus*: 3 validators, quorum 2; *audit*: 2 validators x 2 auditors, 1 x 3; *challenges*: 2 challenges, the auditor sits on the council | 1 230 000, 105 s |
| `progress` | Is every round closed? | a maker or a verifier alone, then 2 rounds of a validator and an auditor, one challenge, pause; one outcome | 79 000, 55 s |
| `lite` | The same questions to the reduced factory | a maker and a verifier, then 2 validators or 2 auditors, 1 challenge, 2 fee schedules, a slash of 0 or 1 | 408 000, 100 s |
| `server` | Start, seeding, registration, stakes, wallet calls and uploads under races, crashes and lost answers | 15 parts: *startup*, 3 of seeding, 3 of registration, 2 of agents' stakes, 3 of wallet calls, 3 of uploads | 110 s |
| `records` | Does what the API keeps agree with what happened? | 17 parts: 3 of a vault's record, 3 of submissions, 4 of evidence, 3 of committees, 4 of consensus | 3 590 000, 170 s |
| `web` | Do pages pay once, reveal what they committed to, and show what is? | 9 parts: the validator's page, 3 of the connected wallet, 2 of creating, 3 of deciding | 4 320 000, 165 s |
| `services` | Does what was asked for happen in the end? | one part per component, small enough for liveness | 140 000, 200 s |
| `legacy` | Are `Resolving` and `Disputed` only for legacy vaults? (no) | one vault through the rule phase, then the legacy path | violation |
| `lite_silent` | Does a silent committee of the reduced factory lose its round? (no) | one validator, one auditor | violation |

### Why the bounds suffice

The three-validator committee is at the smallest size where "more than two
thirds" differs both from a majority and from unanimity of those counted (2 of 3
is not enough, 2 of 2 is); three auditors on one validator exercise the same boundary for
verdicts. Two rounds are all the code allows (`MAX_RESOLUTION_ROUNDS`), one
rejection too (`MAX_RULE_REJECTIONS`). Deposits are chosen smaller than the rewards
they pay, so that caps bite. `MaxChallenges` bounds the challenges of a round;
the code's limit on open ones, `MAX_CHALLENGES_PER_ROUND`, is lowered to 1 so that
*challenges* reaches it (two challenges, one open at a time). Creation and settlement fees are a quarter
and a half, so that rounding and fees are visible with a collateral of 4.

On the server and the pages two requests or two tabs are what it takes for one to
overwrite another; the parts with `solo` have one, and more crashes, faults or operations instead.
`MaxTxs` and the like leave room for the broadcast that should not happen: a property about one
transaction is checked where two and three are possible. Agents, tasks and incidents in `staking`, requests that differ only in name
(`p1`, `p2`) and wallets (`w1`, `w2`) in `server`, and the requests in `records` are symmetric; liveness is
checked without symmetry.

Parts switch off what the others cover, because the product of everything is out of
reach. `CHECK_DEADLOCK FALSE` is set in all runs but `staking`: a resolved vault, a request that was answered and a
counter at its bound really have nothing left to do.

### The properties

Each line names the hazard its property is for; `PROJECT.json` has their places in the code.
A run's property may be a bundle of the component's own, named in its definition.

Contracts:

- `LockedMatchesBonds`, `StakeAccounted`, `Solvent`, `IncidentTakesOnce`: locks, partial slashes, releases,
  withdrawals, seeding and `slashAgent` in any order keep each bond backed, the total right and the tokens there, and an incident takes
  from one bond once.
- `EscrowMatchesStatus`, `VaultAgrees`: contracts that keep their own copy of a vault's progress agree.
- `OutcomeIsFinal`: nothing changes a final resolution, neither protocol's calls.
- `KeepsCollateralPromise`: the vault implements `CollateralPromise`: taken once,
  given back once and whole in the step that fixes the outcome, to the receiver
  that the outcome names, with no fee on Invalid. The refinement mapping reads custody, compensation and
  fees off the token balances, and the verdict off the resolution once the escrow is settled.
- `BondsAreLive`: exactly the members of a current committee have bonds, challenge bonds are there
  while challenges are open, all are backed, also in the second round.
- `DepositsAccounted`: the pool owes what it holds, and nothing is stuck there once a vault is cancelled or
  resolved by a committee. (A V2 vault that takes the legacy path does leave its reward deposit behind; section 7.)
- `FinalizeNeverBlocked`: a finalization that is due cannot revert in a slash.
- `CollateralTakenOnEvidence`: a committee's False needs an honest commit and
  reveal, found Valid by an auditor, neither of them successfully challenged.
- `RewardXorSlash`, `DisagreementIsNotSlashed`, `FaultCostsTheBond`: who pays and who earns
  when a round is closed. The second is what the repository's README promises.
- `RoundGetsClosed`, for the reduced factory `AuditedRoundGetsClosed`: liveness, see below.
- `MoneyFollowsPhase`, `TakenForCause`: in the reduced factory bonds and deposits are held exactly while a phase
  needs them, a bond is taken for a fault or a lost challenge only and released otherwise, the collateral is taken by a
  qualified majority only.

Server:

- `EnvSuffices`, `ProductionIsReal`, `HealthIsTrue`: what the schema accepts suffices to build every
  service; production never runs on mocks; a healthy server has its tables; and, once accepted, a production
  environment passes the launch check.
- `SeedsOnce`: evidence of a seed is of an agent who has had the stake, and stays; requests that share a chance share one
  broadcast; and of two transfers that were sent and not reverted or dropped the service had a reason not to count one: its
  answer was lost, its lease ran out before the receipt was read, another request's record replaced its own, or the agent's stake
  was spent to the last token. One request at a time, however often repeated, never replaces the record of a transfer that counts.
- `RegistrationSound`: one use per challenge; in Postgres one registration per wallet, lists that agree and
  sessions that were earned; with one request at a time whoever was admitted stays listed.
- `StakesBookedOnce`: no profile shows more than was staked; one request after another loses nothing.
- `WalletCallsAreDone`: what is returned as verified was done by that wallet with that content; a repeated POST
  stakes no more than was asked for (with one lost answer, and no allowance left over from before: with more, it can);
  approvals made first suffice (while the bond is steady).
- `UploadsAreFound`: what was uploaded is stored as it was signed, pinned, found again, and not given up while a gateway serves it.
- `RecordsAreTraced`: a vault is registered and its deposit paid once; a transaction whose answer the API has is in the traces or
  in the hands of a request that is still to save it, unless that request failed or had closed a challenge in vain; and the traces show
  no decision the factory refused. The first two with one request after another; with several the code loses traces (section 7).
- `SubmissionsAreSound`: no duplicates, no orphaned proofs, what is stored is on the chain; and, in the part with reveals,
  accepted ones match their commits (`RevealsMatch`).
- `RevealsAreGrounded`: under the real policy a reveal rests on a price OKX quoted to the API, and so do the snapshots a prepared
  hash is of; a stored hash is of what is stored with it, unless a reveal brought it.
- `SeatsAreSound`: nobody sits twice, every seat is filled, by those of its trade first, and no stake is taken away by forming a committee.
- `EnginesAgree`: the API's engine and the factory agree on outcomes and slashes, and evidence that is missing condemns nobody.

Pages:

- `RevealsTheCommit`, `CommitsAreUsable`: what is revealed is what was committed to; a salt is lost
  with an answer or a reload only, and a session serves only whom it was opened for.
- `ShownIsCurrent`: once all is answered the page shows the account and the chain of the provider it uses.
- `CreationSound`: metadata, chain and record name one setter, a deposit is paid for an unregistered vault only
  when an answer or a tab was lost, and no vault exceeds the cap or is of the treasury, which could not fund it, but of one who
  was named the treasury after the page had read who it is.
- `DecisionSound`: acceptances revert only because something came in between, use up what was approved for
  them, and a decision unknown to the API is one whose answer was lost.

In the end (`services`):

- `EventuallyServed`: seeds are recorded, wallets listed, accepted work verified, a server set right healthy.
- `RecordsSettle`: the record of a vault becomes what the chain has.
- `CallsEnd`: what a page or an upload began is done or has failed.

### Fairness

`FairSpec` of the vault (run `progress`) assumes of time that deadlines pass (weak fairness of
`passDeadline`), of the owner that a pause ends (weak fairness of
unpausing), and of the operator who runs the finalizer that due finalizations and open
challenges are answered again and again (strong fairness, since a pause may disable
them in between). The finalizer and orchestrator are roles the deployment keeps
running for exactly these calls. Members and challengers owe nothing. Then
every round is closed: all four phases can be finalized once the
last deadline has passed. The reduced factory has the same operator, and there only audited rounds are closed
(run `lite_silent` shows the other ones). No progress is claimed for the legacy path (the council
may dispute for ever) nor for committees being registered.

`ServicesSpec` assumes that code which is running goes on: handlers, pages and uploads take
their next step, the chain mines what was broadcast, wallets answer (weak fairness). Beyond that:

- a supervisor restarts a server that exited, and `/health` is polled (`boot`, `checkHealth`, `getHealth`);
  `ops/server/proof-of-vault-api.service` does the first;
- the reconciliation timer fires again and again, and a seed overdue is looked at again, whenever the agent's next request comes (strong
  fairness, since a lease or another request disables it in between);
- an agent who wants to be listed keeps asking, and the one who wants work verified keeps posting its hash
  (strong fairness of those requests).

Faults are bounded in number, so each part shows what happens after the last one.

## 5. Theorems

`AgentStakingProofs` proves, for any number of agents, tasks, incidents and
any amounts:

| Theorem | Statement |
|---|---|
| `TypeCorrect` | `Spec => []TypeOK` |
| `LocksBacked` | `Spec => []LockedMatchesBonds` |
| `LocksWithinStake` | `Spec => []LockedWithinActive` |
| `IncidentsChargedOnce` | `Spec => IncidentTakesOnce` |
| `Solvency` | `Spec => []Solvent` |
| `TotalIsRight` | `Spec => []StakeAccounted` |

Assumptions: agents and tasks are finite sets, amounts, cooldowns and the supply are
natural numbers, lists are sequences of agents. Nothing is assumed about their size.

`TypeOK` is inductive: the guards (the code's checks and checked subtractions)
keep every amount natural. The bond properties need the conjunction

    BondInv == TypeOK /\ BondsInRange /\ LockedWithinActive /\ LockedMatchesBonds

because a release frees `Remaining`, which is natural only if no bond was slashed
for more than its amount (`BondsInRange`), and a sum over the other tasks is only known to be
unchanged through `LockedMatchesBonds`. `IncidentTakesOnce` follows from the same invariant: only
`slashTaskBond` changes a bond that stays active, and it consumes a new incident. `Solvent` is inductive with `TypeOK`.

`StakeAccounted` is about sums over all agents. One agent's change is
`SumOfChange` in `SumsTheorems`; seeding changes many, and needs that the shares of
a list without duplicates add up to the amount. The proof deals the amount out
like cards: token k goes to agent `1 + (k % n)`, which is a bijection between
1 .. total and the pairs (agent, place in its share), and `SumsTheorems` counts the pairs
(`Sum` is defined as a cardinality of such pairs, so that facts about sums come from
the library's facts about finite sets, without induction over data).

`VaultFactoryProofs` proves of the full factory, for any accounts, committees, commitments, fee
configurations, amounts and bounds on rounds, rejections and challenges:

| Theorem | Statement |
|---|---|
| `EscrowAgrees` | `Spec => []EscrowMatchesStatus` |
| `OutcomeStaysFinal` | `Spec => OutcomeIsFinal` |
| `PromiseKept` | `Spec => KeepsCollateralPromise`, that is, the vault implements `CollateralPromise` |
| `TypeIsInvariant` | `Spec => []TypeOK`: no amount the contracts subtract from goes below zero |
| `VaultStaysInAgreement` | `Spec => []VaultAgrees` |
| `BondsStayLive` | `Spec => []BondsAreLive` |
| `DepositsStayAccounted` | `Spec => []DepositsAccounted` |
| `FinalizeStaysOpen` | `Spec => []FinalizeNeverBlocked` |
| `TakenOnEvidence` | `Spec => []CollateralTakenOnEvidence` |
| `FaultsCostBonds` | `Spec => FaultCostsTheBond` |
| `DisagreementCostsNothing` | `Spec => DisagreementIsNotSlashed` |
| `RewardedIsNotSlashed` | `Spec => RewardXorSlash` |

Assumed is what `VaultBase` and `VaultFactory` assume of their constants and TLC evaluates: accounts are finitely
many, amounts are natural numbers, committees are lists of agents, a commitment hides an outcome, and the configurations of
`FeeManager` have fractions between 0 and 10000 basis points (its setters enforce that).

The invariant comes in layers, each inductive given those below it:

| Layer | Says | Needed because |
|---|---|---|
| `CustodyInv` | where the collateral is, by status | the setter holds nothing while the escrow is locked, or the amount returned would not be the amount locked; a dispute window that were to pass after the final word would change the final record |
| `StatusInv` | committees are registered exactly in their phases, disputes are those of the resolution, rounds and rejections are counted | the legacy and the committee path share `Active`; a rejected vault gets a new rule round only while `ruleRound` is one ahead of `rejectionCount` |
| `RecordsInv` | committees are disjoint lists, a reveal follows a commitment, an open challenge is of a round still open | finalization loops over the lists, and the loops slash and reward by what the records say |
| `PoolInv` | `RewardPool` holds the sum of what it owes | a reward is capped by what is left after those before it, so one payment is only right as part of the whole list |
| `StakeInv` | bonds are there exactly for the members of a current committee and fit into their stake | a release or a slash subtracts from stake without a check of the factory's own |
| `IncidentsOfRounds` | the incidents of a round's finalization are consumed for closed rounds only | `AgentStaking` reverts on a consumed incident, which would undo the whole finalization |

What steps do to one layer is stated once for both factories in `VaultBaseProofs`, as *kinds of steps* (`StepKind`,
`CommitteesChange`, `RoundChange`, ...): a vault proceeds, is funded, is debated, is settled; a committee is left alone, registered or
cleared; a bond is locked, released or slashed. Each factory's module goes through its own actions and names the kind of each.
The end-of-round theorems then combine the layers: only `finalizeV2Vault` closes a round (`OnlyFinalizingCloses`), each
member's stake changes by its own slash (`ValidatorIsSlashed`, `AuditorIsSlashed`), and what it is paid is the sum of its requests.
Every kind of custody step is a step of `CollateralPromise` or leaves its variables unchanged.

The proofs about slashes need the arms of the `CASE` in `ValidatorSlash` to exclude one another: TLA+ chooses any arm
that holds, the code's `if` chain the first. The definition says so.

`VaultFactoryLiteProofs` proves of the reduced factory, for any constants `ReducedFactory` allows:

| Theorem | Statement |
|---|---|
| `LiteEscrowAgrees` | `Spec => []EscrowMatchesStatus` |
| `LitePromiseKept` | `Spec => KeepsCollateralPromise` |
| `LiteMoneyIsWhereItBelongs` | `Spec => []MoneyFollowsPhase` |
| `LiteTakesForCause` | `Spec => TakenForCause` |

Custody, records and pool are the layers of `VaultBaseProofs` again; bonds differ (a lost challenge takes what the finalizer
says, and nobody's rule bond is slashed), so their layer is the module's own, `LiteStakeInv`.

`ServiceProofs` proves, of each service and for any number of requests, wallets, transactions, failures and rounds:

| Theorem | Statement | Under |
|---|---|---|
| `SeedTypeIsInvariant` | `Spec => []TypeOK` | `SeedAssumption`: one stamp is always fresh |
| `EvidenceStaysBacked` | `Spec => []EvidenceBacked` | `SeedAssumption` |
| `EvidenceIsFinal` | `Spec => [][EvidenceStays]_vars` | and no `Writers` |
| `BroadcastsAreShared` | `Spec => []OneBroadcastPerChance` | and no `Writers` |
| `SeedsAreExplained` | `Spec => []SeedsOnce` | and no `Writers` |
| `OneRequestSeedsOnce` | `Spec => [](SeedsOnce /\ NoneOverwritten)` | and no `Writers`, one request |
| `RegistrationIsSound` | `Reg!Spec => []Reg!RegistrationSound`, either store | `RegistrationAssumption` |
| `StakesAreNeverOverstated` | `[](Wal!TypeOK /\ Wal!NeverOverstated)` | `AgentWalletAssumption`, no `MaySeed`; the mock provider serves one request, and in memory |
| `StakesAreBookedOneByOne` | `[](Wal!NeverOverstated /\ Wal!StakeBooked /\ Wal!ClaimsTraced)` | and one request, in memory |
| `UploadsStayFound` | `[](Up!SignedAsStored /\ Up!StoredIsPinned /\ Up!UploadIsFound /\ Up!ServedIsVerified)` | `PayloadUploadAssumption` |

*StakeSeed.* A writer saves a whole row it had read before, and really does put old evidence back, which is why three of the theorems
do without them (section 7). `EvidenceBacked` needs that every copy of evidence which waits to be saved was of stake the agent had (`EvidenceInv`); it may
be gone again by the time it is saved. The others relate the row's pending record to the requests' locals: who may still save what (`LocalsInv`), who holds
the claim to broadcast (`ChanceInv`), and that every hash is of a transfer that was sent (`HashInv`). That every second transfer is explained rests on
`CountInv`: in a row without evidence a transfer that counts is the one of the row's pending record, which keeps others from broadcasting; a record is given up only when its
transfer does not count; and an agent without stake has spent what was mined. With one request, what it looks at is what the row has (`OneInv`), so it overwrites nothing.
*Registration.* `RegInv`: the indexes
by wallet are those of the rows, the challenge of a request between its two steps is one of its wallet, and a session's nonce is of a
consumed challenge; the unique columns and locks are used exactly where the theorem says Postgres.
*AgentWallet.* `WalletInv`: what a profile shows is no more than the stakes among the hashes that were inserted, less those whose request
has inserted and not saved (`Counted`); what a request is about to book was staked by its agent; and what it read when it began is no more than
what has been saved since. So an update that is lost loses a stake, and none is counted twice. With one request (`SingleInv`) nothing is lost either.
*PayloadUpload.* `UploadInv`: a request past authorization carries what was sent, with the round it had then, and a message that its
wallet signed, or none; the gateways before the one whose turn it is were asked and do not serve what was pinned (`Unserved`), so a
steady gateway is always still to be asked.

`ServerProofs` proves:

| Theorem | Statement | Under |
|---|---|---|
| `EnvAlwaysSuffices`, `ProductionAlwaysReal`, `ProductionAlwaysReady` | what is accepted of an environment suffices, is real in production, and passes the launch check | |
| `HealthAlwaysTrue` | `Spec => []HealthIsTrue` | `StartupAssumption` |
| `SeedsAreSeededOnce` | `ServerSpec => SeedsOnce` | `ServerAssumption` |
| `RegistrationStaysSound` | `ServerSpec => []RegistrationSound` | `ServerAssumption` |
| `StakesAreBookedOnce` | `ServerSpec => []StakesBookedOnce` | `ServerAssumption` |
| `UploadsAreAlwaysFound` | `ServerSpec => []UploadsAreFound` | `ServerAssumption` |
| `TracesStayVerified` | `Vault(w)!Spec => [](Vault(w)!TypeOK /\ Vault(w)!VerifiedTraces)`, any `w` | `VaultWorkflowAssumption` of `w` |
| `RecordsStayRegistered` | `Vault(w)!Spec => []Vault(w)!RegisteredOnce`, and `TracesKept` where no browser registers vaults | and `OneAtATime`: one request at a time, no failure between a registration and its receipt |
| `SubmissionsStaySound` | `Subs(w)!Spec => []Subs(w)!SubmissionsAreSound`, any `w` | `SubmissionsAssumption` of `w`; Postgres |
| `RevealsAlwaysMatch` | `Subs(w)!Spec => []Subs(w)!RevealsMatch` | and `RealWork`: production, vaults named by the chain's id, no overlap |
| `RevealsStayGrounded` | `[](TypeOK /\ TrustedIsQuoted /\ RevealGrounded /\ ProofAligned)` of `Ev(w)`, any `w` | `EvidenceAssumption` of `w` |
| `RecordsAreAlwaysTraced` | `RecordsSpec => []RecordsAreTraced` | `RecordsAssumption` |
| `SubmissionsAreAlwaysSound` | `RecordsSpec => []SubmissionsAreSound` | `RecordsAssumption` |
| `RevealsAreAlwaysGrounded` | `RecordsSpec => []RevealsAreGrounded` | `RecordsAssumption` |

Of every environment: what is running was accepted when it was read (`ReadIsAccepted`, `Booted`), and from the schema's conditions the
constructors' and the launch check's follow; that a healthy server has its tables rests on the probe that was answered by this
process and database (`ProbeIsTrue`). The four of `ServerSpec` are properties of run `server` for whatever settings the parts have that
satisfy `ServerAssumption` (each component's own assumption, and who takes part where). A part moves as the instance of `ServiceProofs` with its settings does
(`...Moves`, `...Means`, `...Steps`), so what is proved of the service holds in the part (`...Keeps`).

The three of `RecordsSpec` are properties of run `records`. Their proofs are written once for any setting `w`, and
each area of `Records` keeps the invariant of its component (`WorkflowSteps`, `SubmissionSteps`, `EvidenceSteps`).

*VaultWorkflow.* `RecordInv`: whoever is about to save a trace has sent that transaction itself, or found it on the
chain with the vault and the success that a setter's decision needs (`Traced`, `Handled`), and what succeeded does not change.
That a record is registered once is false of requests that overlap. For one after another
`AloneInv` says more: what a request holds is what is stored (`Follows`), the vault of a transaction that succeeded
is there (`Mined`), and the one creation that was sent has the record's number, or its sender still waits for
the receipt (`CreatedOnce`); so the next request finds the number and sends none. When that wait fails, or the creation
is reverted, this is false, which is why `OneAtATime` leaves that failure out. `TracesKept` needs
to know at which steps a request has what is not yet traced in its hands (`InHands`): from the write to the save, and closed challenges all the way to
the finalization. A browser's registration starts a new record, whose traces do not include the old one's; such settings are left out.
*Submissions.* `WorkInv`: the second check and the
store happen under the lock of the agent's row, so that a request which passed the check is the only one of
its agent that may store (`OneOfAnAgent`, `FirstOfItsKey`); in memory this is false. A reveal's match needs `PairInv`:
a reveal the chain accepted has the commit of the same payload and round before it among the transactions
(`TxsPaired`), all that is stored was accepted there in that order (`FromChain`), and while no submission overlaps
another the record's round is the chain's (`SameRound`).
*Evidence.* `EvidenceInv`: what the API collects with its trusted mark was quoted (`Grounded`); a reveal is stored only with such a
snapshot collected, and merging leaves it or a copy of the client's with the same provider and value, so the price that the proof shows
was quoted either way (`GroundedProof`); a hash that a reveal brings is of no snapshots or was prepared, hence of snapshots that passed the same
policy, and every other one is made of what is stored with it (`Aligned`).

`WebProofs` proves of `Web`, for any number of tabs, agents, accounts, wallets, vaults, rounds and faults:

| Theorem | Statement | Under |
|---|---|---|
| `RevealsAlwaysTheCommit` | `Spec => []RevealsTheCommit` | |
| `CommitsStayUsable` | `Spec => []CommitsAreUsable` | |
| `WalletStaysCurrent` | `WebSpec => []ShownIsCurrent` | `WebAssumption` |
| `CreationStaysSound` | `WebSpec => []CreationSound` | `Unit <= ListedUnit`, `WebAssumption` |
| `DecisionStaysSound` | `WebSpec => DecisionSound` | `WebAssumption` |

`Spec` is the committee members' page alone; `PagesBehave` takes what is proved of each page by itself over to all of them.
`WebAssumption` says that tabs and providers are finite and the bounds natural numbers. `Unit <= ListedUnit` is the setting that
lists a token with no fewer decimals than it has: with fewer, the page, which multiplies what was typed by the listed ones, really lets through
vaults above the cap.

*ValidatorPage.* The invariant `IInv` says of each page, by its `pc`, how salt, draft and snapshot relate (`Pages`), and that every
stored reveal is backed by a commit of the same content and salt; `MoreBacks` says that further
submissions do not undo that. `CommitsStayUsable` needs besides which commits were answered and which tab still has their salt, and who a
stored session was opened for.
*VaultCreation.* That the setter agrees needs that a payment still carries the account the page's metadata was made with, and a
registration the payment of its page (`CreationInv`). `PaidIsRegistered` bounds the vaults without a record by the faults and the tabs still
at work: the payments that are lost are no more than the faults (`LossInv`), every other unregistered payment is awaited by a
tab, and the map from vaults to their payments is injective (`FS_Injection`).
*RuleDecision.* `SpendInv` says what each allowance is: what the last approval mined gave, less what acceptances took, in the order in which a
page sends them (`DecisionInv`); from it follow what an acceptance that succeeds has used up, and that one which reverts was
overtaken. Decisions the API has not heard of are counted as payments are (`HeardInv`).
*ConnectedWallet.* `ListenInv`: the page is attached to the best provider announced and listens to no other. `CurrentInv`: unless a notice is on its
way, the call that began last has heard no more than what still holds, by its `pc` (`Heard`); so what it writes last is current. A call that
was overtaken may write afterwards, which is why `ShownIsCurrent` speaks of the call that began last having written last.

A theorem about a list is proved by counting a set: the sums, the numbers of a list (`NumbersFrom0`) and the
transactions that count are cardinalities, so no proof needs induction over data.

Only model-checked: all liveness (`RoundGetsClosed`, `AuditedRoundGetsClosed`, `EventuallyServed`, `RecordsSettle`, `CallsEnd`) and with it
whatever is `ENABLED`, which are out of the prover's reach; `SeatsAreSound` and `EnginesAgree`, which compare functions
computed by recursion over lists, and `WalletCallsAreDone`, whose ledger is a fold over the transactions that were mined: each would take induction
over data.

## 6. Not modelled, and why

- `CompensationPool`, `TokenLockbox`: a sink with one withdrawal and a timer over one transfer.
- Collateral policies, `rescueToken`, several vaults in one pool, escrow and API: the models follow one
  vault (the setter's pages two). A draft's id in the API comes from a sequence and a registered vault's from the factory, in one table; that
  they may collide is listed as a hazard without a property.
- The proof submission fee: a transfer from validator to treasury beside the protocol.
- Authorisation setters, ownership transfers: trusted, and actions admit any caller
  that may hold the role.
- Widths: amounts are `uint256` and checked; nothing here comes near a wrap-around.
- Reentrancy: guarded in the code, and a transaction is atomic in the model.
- Texts, URIs, ABI encoding, SQL row mapping, HTTP plumbing, caching of reads.
- `onchain-gateway.ts`, `seedJudgeListedAgent` and the hooks no page uses: called nowhere.
- Landing, list and profile pages, profiles and reputation: they show what the API returns.
- In the runs, not in the modules: the agent's stakes beside seeding (`MaySeed` is false; section 7 says why).

## 7. Where code and documents differ

Two have a run:

*Legacy states are open to every vault* (`legacy`). `docs/Contract-Handoff.md` (lines 83 and
87) calls `Resolving` and `Disputed` "Legacy V1" states. The code has no such
distinction: `submitResolutionHash` (`VaultFactory.sol:573`) accepts every vault in
`Active`, so one that was funded through the rule phase can be resolved by a
single active agent's hash and the dispute window, without a committee. The
collateral promise still holds on it, but the reward deposit then stays in `RewardPool`, which is
why `DepositsAccounted` speaks of vaults resolved by a committee.

*A silent committee keeps the collateral* (`lite_silent`). `VaultFactoryLite.finalizeV2Vault` (line 578) asks for the audit or
the challenge phase, which only a verdict reaches. `README.md:202` says of insufficient evidence that "the protocol can reopen the round or fall back to `INVALID`".

Others were met while modelling. No run is kept for them; the models contain the behaviour, and the properties above are
stated so as to leave it out, by a bound, a store or a condition:

- Seeding. A second transfer is sent after each of four things: an answer lost between broadcast and commit leaves no hash
  (`agent-stake-seed-service.ts:536`); a lease that runs out before the receipt was read gives the hash up (`:623`); `persistPending` overwrites a
  hash stored meanwhile (`:745`); and an agent who has withdrawn all of its stake is seeded again (`:601`). `SeedsOnce` says there is no fifth. When the
  receipt of a reverted transfer cannot be read, stake of the agent's own is recorded as the seed, under the reverted hash (`:606`); an agent that
  keeps stake of its own after a reverted seed stays pending (`:649`), which `EventuallySeeded` leaves out. A failure without a
  record is stored over the amount 0, which every stake has reached (`agent-registration-service.ts:476`).
- Registration. `login` saves a registration read before the signature was verified, over an admission (`:289`); in memory two
  requests register one wallet twice (`:190`).
- Stakes. Of two stakes booked at once one is lost (`agent-wallet-service.ts:82`); a stake mined before seeding reads the
  chain counts twice (`:93`), which is why the runs have no seeding there.
- Wallet calls. Of two operations of one kind forwarded in a transaction only the first is found (`okx-agentic-wallet-provider.ts:1395`);
  a failed first read of the linked contracts stays cached (`:1341`).
- Records. A challenge is resolved on the chain and the resolution then found not ready, or its finalization refused: the trace of
  `resolveChallenge` is not saved (`workflow-service.ts:229`, `:290`); a failure after a write loses the write's trace; of two requests that overlap the
  later save drops the traces of the earlier (`vault-service.ts:200`); registering a vault again from the browser starts its traces anew (`:78`).
  Finalizations sent by a finalizer that is not the API's signer are not modelled. A cleared committee stays in the row (`postgres-workflow-store.ts:366`); a committee whose transaction reverts is kept
  (`onchain-gateway-v2.ts:710`); the stored result is computed from what was posted (`workflow-service.ts:308`).
- Submissions. A late one puts back the round (`submission-service.ts:706`); an upload replaces the proof under its hash
  (`payload-storage-service.ts:81`); a challenge may be posted twice (`submission-service.ts:236`).
- Committees. Profiles are saved as they were read (`vault-service.ts:513`); tasks are shown to agents who are not listed (`task-router.ts:70`).
- Consensus. A validator whose challenge was upheld counts in the API's engine (`consensus-engine.ts:126`), hence outcomes are compared without upheld challenges.
- Evidence. A reveal's hash need not cover what is stored with it: the service keeps whatever hash a client sends (`submission-service.ts:511`), the
  page's own is of the payload alone (`apps/web/src/lib/api/submission.ts:187`), and a prepared one may be of earlier snapshots. A client's copy displaces the collected snapshot (`:94`).
- Pages. The treasury is read before the wallet is asked to sign and the payment is mined (`proofOfVault.ts:392`, `:415`): a setter who is named the
  treasury in between has a vault that it cannot fund. The reveal carries the round shown by then, not the commit's (`submit/page.tsx:147`).
- Start. `migrationsApplied` looks at tables only (`db/client.ts:54`).
- Reduced factory. `_tallyOutcome` ignores the disqualified flag (`VaultFactoryLite.sol:712`).

*Worth knowing, not contradicted by any document:* a pause does not stop
deadlines, so members may be slashed for a submission they could not make; the mismatch incident has no round, so
repeating one's mismatched reveal in the second round reverts (and is then
slashed as missing, part *rounds*); the full factory stores rule deadlines and does not enforce them; with
`challengeFailureSlashBps` at its maximum a lost challenge cannot be rejected in the reduced factory.

## 8. What is left

1. Several vaults: one pool, one escrow, the API's table of vaults and its ids, collateral policies.
2. That the vault's use of staking (`LockBonds`, `SlashAndRelease`) is a sequence of `AgentStaking` steps.
3. Committees and consensus with lists replaced by sets where their order does not matter, so that `SeatsAreSound`
   and `EnginesAgree` can be proved.
