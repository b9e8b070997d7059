----------------------------- MODULE StakeSeed -----------------------------
(***************************************************************************)
(* Seeding one registered agent's stake from the API.                      *)
(*                                                                         *)
(* AgentStakeSeedService broadcasts one seedAgentStakesFrom transaction    *)
(* per agent and remembers what it did in the agent's row: a pending       *)
(* record while it is under way, the seed evidence once the stake is on    *)
(* chain.  Every store transaction locks the row and is one step here;     *)
(* between two of them (each await on the chain) other requests for the    *)
(* same wallet, the chain, a crash of the process and the requests that    *)
(* rewrite the whole row without a lock may run.                           *)
(*                                                                         *)
(* A transaction hash is its index in txs; a pending record's startedAt    *)
(* is a fresh stamp, since the code only compares it for equality; the     *)
(* five-minute lease on it may have run out whenever it is looked at.      *)
(***************************************************************************)
EXTENDS Integers, Sequences, FiniteSets

CONSTANTS
    Calls,       \* concurrent requests to seed this wallet (register, ensureRegistrationStakeSeed)
    Writers,     \* requests that read the agent's row, wait, and save it whole
    Stamps,      \* startedAt values that can be told apart
    Amount,      \* PROOF_OF_VAULT_AGENT_REGISTRATION_STAKE_AMOUNT
    OwnStakes,   \* what the agent's own stakes and withdrawals, or a slash, leave on chain
    MaxFaults,   \* bound: failed calls, lost answers, reverts, drops and expired leases
    MaxCrashes,  \* bound: crashes of the API process
    MaxTxs,      \* bound: transactions the signer can pay for; the next one is refused
    MaxRearms,   \* bound: how far the pending records given up are counted
    MaxRestakes, \* bound: moves of the agent's stake that are not a seed's
    StoreFails   \* whether the store's transactions may fail

SeedAssumption ==
    /\ Amount \in Nat \ {0}
    /\ OwnStakes \subseteq Nat
    /\ StoreFails \in BOOLEAN
    /\ MaxFaults \in Nat /\ MaxCrashes \in Nat /\ MaxRearms \in Nat /\ MaxTxs \in Nat
    /\ MaxRestakes \in Nat
    /\ IsFiniteSet(Calls) /\ IsFiniteSet(Writers) /\ IsFiniteSet(Stamps)
    /\ Cardinality(Stamps) > 1 + Cardinality(Calls) + Cardinality(Writers)   \* one is always fresh

VARIABLES
    row,        \* the agent's row: seed evidence, pending record, active stake
    lease,      \* whether the bootstrap lock key is in processed_stake_transactions
    allowance,  \* whether the funder approved AgentStaking
    txs,        \* seed transactions sent, with their fate
    onchainStake,  \* activeStakeOf the agent
    call,       \* the requests' positions and locals
    held,       \* the row a Writer has read and not yet saved
    faults, crashes, rearms, restakes,
    reached,    \* history: the stake has once been as much as a seed
    excused     \* history: the seeds the service cannot know to count, by reason

chainVars == <<allowance, txs, onchainStake>>
counters == <<faults, crashes, rearms, restakes>>
history == <<counters, reached, excused>>
vars == <<row, lease, chainVars, call, held, history>>

None == 0
Recovered == -1        \* the hash "recovered-pending-bootstrap:<wallet>"
NoEvidence == [amount |-> 0, tx |-> None]
NoPending == [stage |-> "none", amount |-> 0, tx |-> None, at |-> None]

Stages == {"awaiting_tx_hash", "broadcasted", "failed"}
Hashes == {None, Recovered} \cup 1 .. MaxTxs
Evidence == [amount : {0, Amount}, tx : Hashes]
Pending == {NoPending} \cup
           [stage : Stages, amount : {0, Amount}, tx : Hashes \ {Recovered}, at : Stamps]

(***************************************************************************)
(* readSeedEvidence, readPendingSeedEvidence and buildPendingSeedEvidence. *)
(***************************************************************************)
IsSeeded(agent) == agent.seed.tx # None
HasPending(agent) == agent.pending # NoPending

StampsInUse ==
    {row.pending.at} \cup {call[c].seen.at : c \in Calls} \cup {held[w].pending.at : w \in Writers}
FreshStamp == CHOOSE s \in Stamps : s \notin StampsInUse

PendingSeed(stage, amount, tx) ==
    [stage |-> stage, amount |-> amount, tx |-> tx, at |-> FreshStamp]

-----------------------------------------------------------------------------
(* The chain. *)
TxWith(status) == {i \in DOMAIN txs : txs[i] = status}

(* Why a seed that is in the mempool or mined no longer counts: its answer *)
(* never came, its receipt did not come within the lease, another request  *)
(* put its own record in place of the row's, or the agent has no stake     *)
(* left since it was mined.                                                *)
Reasons == {"lost", "overdue", "overwritten", "spent"}
Excuse(reason, seeds) == excused' = [excused EXCEPT ![reason] = @ \cup seeds]

InPlay(i) == txs[i] \in {"inflight", "mined"}
Counts(i) == InPlay(i) /\ \A reason \in Reasons : i \notin excused[reason]

NoLocals == [pc |-> "idle", seen |-> NoPending, tx |-> None, before |-> 0,
             ev |-> NoEvidence, stake |-> 0]

Init ==
    /\ onchainStake \in OwnStakes
    /\ row = [seed |-> NoEvidence, pending |-> NoPending, stake |-> 0]
    /\ lease = FALSE
    /\ allowance = FALSE
    /\ txs = <<>>
    /\ call = [c \in Calls |-> NoLocals]
    /\ held = [w \in Writers |-> row]
    /\ faults = 0 /\ crashes = 0 /\ rearms = 0 /\ restakes = 0
    /\ reached = (onchainStake >= Amount)
    /\ excused = [reason \in Reasons |-> {}]

(* A seed in the mempool is mined, reverts or is dropped. *)
Settle(i, status) ==
    /\ txs[i] = "inflight"
    /\ status # "mined" => faults < MaxFaults
    /\ txs' = [txs EXCEPT ![i] = status]
    /\ onchainStake' = IF status = "mined" THEN onchainStake + Amount ELSE onchainStake
    /\ reached' = (reached \/ status = "mined")
    /\ faults' = IF status = "mined" THEN faults ELSE faults + 1
    /\ UNCHANGED <<row, lease, allowance, call, held, crashes, rearms, restakes, excused>>

(* The agent stakes more, withdraws or is slashed (AgentStaking).          *)
restake(stake) ==
    /\ stake # onchainStake /\ restakes < MaxRestakes
    /\ restakes' = restakes + 1
    /\ onchainStake' = stake
    /\ reached' = (reached \/ stake >= Amount)
    /\ Excuse("spent", IF stake = 0 THEN TxWith("mined") ELSE {})
    /\ UNCHANGED <<row, lease, allowance, txs, call, held, faults, crashes, rearms>>

-----------------------------------------------------------------------------
(* What a request does next, with the locals it carries there. *)
At(c, pc) == call[c].pc = pc
Go(c, locals) == call' = [call EXCEPT ![c] = locals]
GoTo(c, pc) == Go(c, [call[c] EXCEPT !.pc = pc])

WithSeed(c, agent) ==
    [call[c] EXCEPT !.pc = "recordSeed", !.ev = agent.seed, !.stake = agent.stake,
                    !.seen = agent.pending]
WithPending(c, pc, pending) == [call[c] EXCEPT !.pc = pc, !.seen = pending]
Ready(c, pending) == [call[c] EXCEPT !.pc = "checkStake", !.seen = pending]

(* register and ensureRegistrationStakeSeed call seedRegisteredAgent.      *)
ensureRegistrationStakeSeed(c) ==
    /\ At(c, "idle")
    /\ Go(c, [NoLocals EXCEPT !.pc = "prepare"])
    /\ UNCHANGED <<row, lease, chainVars, held, history>>

(* The agent's row is seeded, pending, or gets the awaiting record of the  *)
(* request that first claims the lock key; a second claim is a failure     *)
(* record, to be recovered from the chain.                                 *)
prepareSeedTarget(c) ==
    /\ At(c, "prepare")
    /\ \/ /\ IsSeeded(row)
          /\ Go(c, WithSeed(c, row))
          /\ UNCHANGED <<row, lease>>
       \/ /\ ~IsSeeded(row) /\ HasPending(row)
          /\ Go(c, WithPending(c, "recover", row.pending))
          /\ UNCHANGED <<row, lease>>
       \/ /\ ~IsSeeded(row) /\ ~HasPending(row)
          /\ lease' = TRUE
          /\ LET pending == PendingSeed(IF lease THEN "failed" ELSE "awaiting_tx_hash", Amount, None)
             IN  /\ row' = [row EXCEPT !.pending = pending]
                 /\ Go(c, IF lease THEN WithPending(c, "recover", pending) ELSE Ready(c, pending))
    /\ UNCHANGED <<chainVars, held, history>>

(* The outcome of looking at the chain for a pending record.               *)
StakeReached(c) == onchainStake >= call[c].seen.amount

RecoveredEvidence(c) ==
    [call[c] EXCEPT !.pc = "recordSeed", !.stake = onchainStake,
        !.ev = [amount |-> call[c].seen.amount,
                tx |-> IF call[c].seen.tx = None THEN Recovered ELSE call[c].seen.tx]]

Receipt(tx) == IF tx \in DOMAIN txs THEN txs[tx] ELSE "none"

(* With a hash the receipt decides, or the stake when it does not come in  *)
(* time.  Without a hash only the stake does, and only a failed attempt    *)
(* may be repeated.                                                        *)
recoverPendingSeed(c) ==
    LET receipt == Receipt(call[c].seen.tx)
    IN  /\ At(c, "recover")
        /\ \/ /\ receipt # "reverted" /\ StakeReached(c)
              /\ Go(c, RecoveredEvidence(c))
           \/ /\ \/ receipt \in {"mined", "reverted"} /\ onchainStake = 0
                 \/ receipt = "none" /\ ~StakeReached(c) /\ call[c].seen.stage = "failed"
              /\ GoTo(c, "rearm")
           \/ /\ \/ receipt = "reverted" /\ onchainStake # 0
                 \/ receipt = "mined" /\ ~StakeReached(c) /\ onchainStake # 0
                 \/ receipt \in {"inflight", "dropped"} /\ ~StakeReached(c)
                 \/ receipt = "none" /\ ~StakeReached(c) /\ call[c].seen.stage # "failed"
              /\ GoTo(c, "recordPending")
        /\ UNCHANGED <<row, lease, chainVars, held, history>>

(* The receipt is there but cannot be read: the stake alone decides.       *)
recoverWithoutReceipt(c) ==
    /\ At(c, "recover")
    /\ Receipt(call[c].seen.tx) \in {"mined", "reverted"}
    /\ faults < MaxFaults
    /\ faults' = faults + 1
    /\ IF StakeReached(c) THEN Go(c, RecoveredEvidence(c)) ELSE GoTo(c, "recordPending")
    /\ UNCHANGED <<row, lease, chainVars, held, crashes, rearms, restakes, reached, excused>>

(* No receipt in time, and PENDING_SEED_LEASE_MS have passed.  That counts *)
(* as a fault unless the transaction is gone, for which nobody waits on.   *)
recoverOverdueSeed(c) ==
    LET tx == call[c].seen.tx
    IN  /\ At(c, "recover")
        /\ Receipt(tx) # "none" /\ ~StakeReached(c)
        /\ IF Receipt(tx) = "dropped"
           THEN UNCHANGED faults
           ELSE faults < MaxFaults /\ faults' = faults + 1
        /\ Excuse("overdue", {i \in {tx} : InPlay(i)})
        /\ GoTo(c, "rearm")
        /\ UNCHANGED <<row, lease, chainVars, held, crashes, rearms, restakes, reached>>

(* The pending record is removed if it still is the one that was looked at. *)
rearmPendingSeed(c) ==
    /\ At(c, "rearm")
    /\ \/ /\ IsSeeded(row)
          /\ Go(c, WithSeed(c, row))
          /\ UNCHANGED <<row, rearms>>
       \/ /\ ~IsSeeded(row) /\ row.pending # call[c].seen
          /\ Go(c, IF HasPending(row) THEN WithPending(c, "recordPending", row.pending)
                                      ELSE Ready(c, NoPending))
          /\ UNCHANGED <<row, rearms>>
       \/ /\ ~IsSeeded(row) /\ row.pending = call[c].seen
          /\ rearms' = IF rearms < MaxRearms THEN rearms + 1 ELSE rearms
          /\ row' = [row EXCEPT !.pending = NoPending]
          /\ Go(c, Ready(c, NoPending))
    /\ UNCHANGED <<lease, chainVars, held, faults, crashes, restakes, reached, excused>>

(* Stake that no evidence explains blocks the seeding.                     *)
checkStakeBefore(c) ==
    /\ At(c, "checkStake")
    /\ Go(c, [call[c] EXCEPT !.before = onchainStake,
                             !.pc = IF onchainStake > 0 THEN "recordFailure" ELSE "allowance"])
    /\ UNCHANGED <<row, lease, chainVars, held, history>>

ensureAllowance(c) ==
    /\ At(c, "allowance")
    /\ allowance' = TRUE
    /\ GoTo(c, "broadcast")
    /\ UNCHANGED <<row, lease, txs, onchainStake, held, history>>

(* The awaiting record in the row is this request's own.                   *)
CanUseAwaitingLease_Any(c) == TRUE
CanUseAwaitingLease(c) ==
    /\ row.pending.stage = "awaiting_tx_hash"
    /\ call[c].seen.stage = "awaiting_tx_hash"
    /\ row.pending.at = call[c].seen.at

MayBroadcast(c) == ~IsSeeded(row) /\ (HasPending(row) => CanUseAwaitingLease(c))

(* The transaction is sent inside the store's transaction, which then      *)
(* stores its hash.                                                        *)
beginSeedBroadcast(c) ==
    /\ At(c, "broadcast")
    /\ \/ /\ IsSeeded(row)
          /\ Go(c, WithSeed(c, row))
          /\ UNCHANGED <<row, txs>>
       \/ /\ ~IsSeeded(row) /\ ~MayBroadcast(c)
          /\ Go(c, WithPending(c, "recordPending", row.pending))
          /\ UNCHANGED <<row, txs>>
       \/ /\ MayBroadcast(c) /\ Len(txs) = MaxTxs
          /\ GoTo(c, "recordFailure")
          /\ UNCHANGED <<row, txs>>
       \/ /\ MayBroadcast(c) /\ Len(txs) < MaxTxs
          /\ txs' = Append(txs, "inflight")
          /\ LET pending == PendingSeed("broadcasted", Amount, Len(txs'))
             IN  /\ row' = [row EXCEPT !.pending = pending]
                 /\ Go(c, [call[c] EXCEPT !.pc = "receipt", !.tx = Len(txs'), !.seen = pending])
    /\ UNCHANGED <<lease, allowance, onchainStake, held, history>>

(* The transaction is sent, but the answer or the store's commit fails:    *)
(* the store rolls back and the request sees an error without a hash.      *)
broadcastAnswerLost(c) ==
    /\ At(c, "broadcast") /\ MayBroadcast(c) /\ Len(txs) < MaxTxs
    /\ faults < MaxFaults
    /\ faults' = faults + 1
    /\ txs' = Append(txs, "inflight")
    /\ Excuse("lost", {Len(txs')})
    /\ GoTo(c, "recordFailure")
    /\ UNCHANGED <<row, lease, allowance, onchainStake, held, crashes, rearms, restakes, reached>>

(* The wait ends with the receipt, or times out on a transaction that is   *)
(* gone; a time-out on one still under way is a Fault.  The stake may have *)
(* been moved since it was mined.                                          *)
awaitReceipt(c) ==
    /\ At(c, "receipt")
    /\ txs[call[c].tx] # "inflight"
    /\ IF txs[call[c].tx] = "mined" /\ onchainStake >= call[c].before + Amount
       THEN Go(c, [call[c] EXCEPT !.pc = "recordSeed", !.stake = onchainStake,
                                  !.ev = [amount |-> Amount, tx |-> call[c].tx]])
       ELSE GoTo(c, "recordFailure")
    /\ UNCHANGED <<row, lease, chainVars, held, history>>

-----------------------------------------------------------------------------
(* Storing the outcome.  Evidence that is already there stays.             *)
ClearsPending(c) ==
    LET seen == call[c].seen
        ev == call[c].ev
    IN  \/ ~HasPending(row)
        \/ /\ row.pending.tx = ev.tx
           /\ seen.tx = row.pending.tx /\ seen.stage = row.pending.stage
        \/ /\ row.pending.stage = "awaiting_tx_hash" /\ seen.stage = "awaiting_tx_hash"
           /\ row.pending.at = seen.at /\ row.pending.amount = ev.amount
        \/ /\ row.pending.tx = None /\ ev.tx = Recovered
           /\ seen.stage = row.pending.stage /\ seen.at = row.pending.at

WithEvidence(c) ==
    [seed |-> call[c].ev, stake |-> call[c].stake,
     pending |-> IF ClearsPending(c) THEN NoPending ELSE row.pending]

persistSeed(c) ==
    /\ At(c, "recordSeed")
    /\ row' = IF IsSeeded(row) THEN row ELSE WithEvidence(c)
    /\ GoTo(c, "idle")
    /\ UNCHANGED <<lease, chainVars, held, history>>

(* The row's record was of a seed that counts, and the new one is not.     *)
Displaced(tx) == {i \in DOMAIN txs : Counts(i) /\ i = row.pending.tx /\ i # tx}

WritesPending(pending) ==
    /\ row' = IF IsSeeded(row) THEN row ELSE [row EXCEPT !.pending = pending]
    /\ Excuse("overwritten", IF IsSeeded(row) THEN {} ELSE Displaced(pending.tx))
    /\ UNCHANGED <<lease, chainVars, held, counters, reached>>

(* persistPending, for a request that found the seed under way: it writes  *)
(* back the record it had read.                                            *)
persistPending(c) ==
    /\ At(c, "recordPending")
    /\ WritesPending(call[c].seen)
    /\ GoTo(c, "idle")

(* persistPending, for a request that failed; the error is thrown again.   *)
persistFailure(c) ==
    /\ At(c, "recordFailure")
    /\ WritesPending(PendingSeed("failed", Amount, call[c].tx))
    /\ GoTo(c, "mark")

(* The registration service turns the error into a failure record.         *)
markStakeSeedPending(c) ==
    /\ At(c, "mark")
    /\ row' = IF IsSeeded(row) THEN row
              ELSE [row EXCEPT !.pending =
                       IF ~HasPending(row) THEN PendingSeed("failed", 0, None)
                       ELSE IF @.stage = "awaiting_tx_hash" THEN [@ EXCEPT !.stage = "failed"] ELSE @]
    /\ GoTo(c, "idle")
    /\ UNCHANGED <<lease, chainVars, held, history>>

-----------------------------------------------------------------------------
(* An RPC call or a store transaction of a request fails without effect.   *)
ChainSteps == {"recover", "checkStake", "allowance", "broadcast", "receipt"}
AfterFault(pc) ==
    CASE pc \in {"broadcast", "receipt"} -> "recordFailure"
      [] pc = "mark" -> "idle"
      [] OTHER -> "mark"

Fault(c) ==
    /\ faults < MaxFaults
    /\ ~At(c, "idle")
    /\ StoreFails \/ call[c].pc \in ChainSteps
    /\ faults' = faults + 1
    /\ GoTo(c, AfterFault(call[c].pc))
    /\ UNCHANGED <<row, lease, chainVars, held, crashes, rearms, restakes, reached, excused>>

(* The process dies.  Requests are gone, the open store transaction rolls  *)
(* back, and a transaction that was just sent stays sent.                  *)
Crash ==
    /\ crashes < MaxCrashes
    /\ crashes' = crashes + 1
    /\ call' = [c \in Calls |-> NoLocals]
    /\ held' = [w \in Writers |-> row]
    /\ \/ UNCHANGED <<txs, excused>>
       \/ /\ \E c \in Calls : At(c, "broadcast") /\ MayBroadcast(c)
          /\ Len(txs) < MaxTxs
          /\ txs' = Append(txs, "inflight")
          /\ Excuse("lost", {Len(txs')})
    /\ UNCHANGED <<row, lease, allowance, onchainStake, faults, rearms, restakes, reached>>

(* stakeForAgent, ensureAgent and the operator bootstrap read the row and  *)
(* later save it whole, without a lock.                                    *)
readProfile(w) ==
    /\ held' = [held EXCEPT ![w] = row]
    /\ held' # held
    /\ UNCHANGED <<row, lease, chainVars, call, history>>

saveProfile(w) ==
    /\ row # held[w]
    /\ row' = held[w]
    /\ UNCHANGED <<lease, chainVars, call, held, history>>

-----------------------------------------------------------------------------
Request(c) ==
    \/ ensureRegistrationStakeSeed(c) \/ prepareSeedTarget(c) \/ recoverPendingSeed(c)
    \/ recoverWithoutReceipt(c) \/ recoverOverdueSeed(c) \/ rearmPendingSeed(c)
    \/ checkStakeBefore(c) \/ ensureAllowance(c) \/ beginSeedBroadcast(c) \/ awaitReceipt(c)
    \/ persistSeed(c) \/ persistPending(c) \/ persistFailure(c) \/ markStakeSeedPending(c)

Next ==
    \/ \E c \in Calls : Request(c) \/ Fault(c) \/ broadcastAnswerLost(c)
    \/ \E i \in DOMAIN txs, status \in {"mined", "reverted", "dropped"} : Settle(i, status)
    \/ \E stake \in OwnStakes : restake(stake)
    \/ Crash
    \/ \E w \in Writers : readProfile(w) \/ saveProfile(w)

Spec == Init /\ [][Next]_vars

(* Requests that run go on running, the network mines what is sent, and    *)
(* requests keep coming, so that a transaction which is gone is some day   *)
(* found to be overdue.                                                    *)
Fairness ==
    /\ \A c \in Calls : /\ WF_vars(Request(c))
                         /\ SF_vars(recoverOverdueSeed(c) /\ UNCHANGED faults)
    /\ WF_vars(\E i \in DOMAIN txs : Settle(i, "mined"))
FairSpec == Spec /\ Fairness

-----------------------------------------------------------------------------
(* Every variable keeps its type. *)
Row == [seed : Evidence, pending : Pending, stake : Nat]
Steps == {"idle", "prepare", "recover", "rearm", "recordPending", "checkStake", "recordFailure",
          "allowance", "broadcast", "receipt", "recordSeed", "mark"}
Locals ==
    [pc : Steps, seen : Pending, tx : Hashes \ {Recovered}, before : Nat, ev : Evidence,
     stake : Nat]
TypeOK ==
    /\ row \in Row
    /\ lease \in BOOLEAN /\ allowance \in BOOLEAN /\ reached \in BOOLEAN
    /\ txs \in Seq({"inflight", "mined", "reverted", "dropped"})
    /\ onchainStake \in Nat
    /\ call \in [Calls -> Locals]
    /\ held \in [Writers -> Row]
    /\ faults \in 0 .. MaxFaults /\ crashes \in 0 .. MaxCrashes /\ rearms \in 0 .. MaxRearms
    /\ restakes \in 0 .. MaxRestakes
    /\ excused \in [Reasons -> SUBSET Nat]

(* Evidence of a seed is only ever recorded for an agent who had the stake *)
(* on chain, whatever crashed, got lost, was overtaken or withdrawn on the *)
(* way.                                                                    *)
EvidenceBacked == IsSeeded(row) => reached \/ row.seed.amount = 0

(* One broadcast for the claimed lock key and one for each pending record  *)
(* that was given up: requests that race for the same chance share it, and *)
(* only a broadcast whose answer is lost leaves its chance to another.     *)
OneBroadcastPerChance ==
    rearms < MaxRearms => Cardinality(DOMAIN txs \ excused["lost"]) <= 1 + rearms

(* However many requests race, fail and retry, a second transfer has one   *)
(* of four reasons: an earlier one's answer was lost, its lease ran out    *)
(* before its receipt was read, another request's late record took its     *)
(* place in the row, or the agent has spent it.                            *)
SeedsOnce == \A i, j \in DOMAIN txs : Counts(i) /\ Counts(j) => i = j

(* With one request at a time, no record of a seed that counts is lost.    *)
NoneOverwritten == excused["overwritten"] = {}

(* No request, retry or late failure rewrites evidence already recorded.   *)
EvidenceStays == IsSeeded(row) => row'.seed = row.seed

(* Under finitely many failures of the chain a registered agent gets its   *)
(* seed recorded, unless it keeps some stake of its own: less than a seed, *)
(* or any at all once the seed on record has reverted.                     *)
EventuallySeeded ==
    \/ <>IsSeeded(row)
    \/ <>[](/\ onchainStake > 0
            /\ onchainStake < Amount \/ Receipt(row.pending.tx) = "reverted")
=============================================================================
