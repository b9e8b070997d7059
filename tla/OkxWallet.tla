------------------------------ MODULE OkxWallet ------------------------------
(***************************************************************************)
(* The agentic-wallet provider: preparing, executing and verifying an      *)
(* agent's on-chain calls through the OKX wallet service.                  *)
(*                                                                         *)
(* A call is a sequence of awaits: reads over RPC, a POST to the wallet    *)
(* service, the wait for a receipt.  Every await is the end of a step.     *)
(* The wallet service may answer, refuse, or time out; whatever it says,   *)
(* it may have broadcast the operation.  postOkxJson repeats a POST that   *)
(* timed out once.                                                         *)
(*                                                                         *)
(* What an operation carries beyond its action and its wallet (vault id,   *)
(* hashes, URI, outcome) is one number, its content; for a stake and an    *)
(* approval it is the amount.  A transaction is a sequence of operations:  *)
(* account abstraction may forward the operations of several wallets in    *)
(* one transaction, sent by neither of them.                               *)
(***************************************************************************)
EXTENDS Integers, Sequences, FiniteSets, Folds

CONSTANTS
    Calls,      \* concurrent calls of the provider
    Wallets,
    Actions,    \* the part of AgentActions that is exercised
    Contents,   \* contents of requests
    HasRpc,     \* whether an RPC URL is configured
    Forwards,   \* whether the wallets are smart accounts: transactions are forwarded
    RpcFails,   \* whether the read of the linked contracts may fail
    MayRevert,  \* whether an operation may fail for reasons outside this model
    MaxGrant,   \* bound: allowance that a wallet granted before
    MaxBond,    \* bound: the challenge bond that the owner sets
    MaxLost,    \* bound: POSTs that time out
    MaxTxs,     \* bound: transactions
    MaxAsked    \* bound: calls

StakeActions == {"stakeForAgent"}
FactoryActions == {"submitRuleDraft", "submitRuleIssue"}
RegistryActions == {"commitResolution", "revealResolution", "submitAuditVerdict", "openPublicChallenge"}
AgentActions == StakeActions \cup FactoryActions \cup RegistryActions \cup {"claimRewards"}

OkxWalletAssumption ==
    /\ Actions \subseteq AgentActions
    /\ Contents \subseteq Nat \ {0}
    /\ {HasRpc, Forwards, RpcFails, MayRevert} \subseteq BOOLEAN
    /\ MaxBond \in Nat \ {0} /\ MaxGrant \in Nat /\ MaxLost \in Nat /\ MaxTxs \in Nat /\ MaxAsked \in Nat

VARIABLES
    ledger,     \* the chain: allowances, stakes, bond, what was done once
    txs,        \* transactions: operations, status, events
    linked,     \* the promise of the linked contracts' addresses
    call,       \* positions and locals of the calls
    traces,     \* history: traces returned
    asked,      \* history: calls begun, and per wallet the amounts it was asked to stake
    lost        \* history: POSTs timed out

vars == <<ledger, txs, linked, call, traces, asked, lost>>

-----------------------------------------------------------------------------
(* The chain, as far as the provider sees it. *)
Spenders == {"agentStaking", "rewardPool"}
Operation(action, w, content, spender) ==
    [action |-> action, wallet |-> w, content |-> content, spender |-> spender]

(* The contract whose address the event of an action must come from. *)
emitter(action) ==
    CASE action \in StakeActions -> "agentStaking"
      [] action \in FactoryActions -> "vaultFactory"
      [] action \in RegistryActions -> "resolutionRegistry"
      [] OTHER -> "rewardPool"

needsLinked(action) == emitter(action) \in {"resolutionRegistry", "rewardPool"}

price(l, op) ==
    CASE op.action = "stakeForAgent" -> op.content
      [] op.action = "openPublicChallenge" -> l.bond
      [] OTHER -> 0

spenderOf(action) == IF action \in StakeActions THEN "agentStaking" ELSE "rewardPool"

(* Rules, commits, reveals, verdicts and claims are accepted once. *)
accepted(l, op) ==
    /\ l.allowance[op.wallet][spenderOf(op.action)] >= price(l, op)
    /\ op.action \in AgentActions \ {"stakeForAgent", "openPublicChallenge"} => op \notin l.done

effect(l, op) ==
    IF op.action = "erc20Approve"
    THEN [l EXCEPT !.allowance[op.wallet][op.spender] = op.content]
    ELSE [l EXCEPT !.allowance[op.wallet][spenderOf(op.action)] = @ - price(l, op),
                   !.staked[op.wallet] = IF op.action = "stakeForAgent" THEN @ + op.content ELSE @,
                   !.done = @ \cup {op}]

(* One operation after the other; those that fail leave no event. *)
execution(ops, failing) ==
    LET step(op, acc) ==
          IF op \notin failing /\ (op.action = "erc20Approve" \/ accepted(acc.ledger, op))
          THEN [ledger |-> effect(acc.ledger, op), events |-> Append(acc.events, op)]
          ELSE acc
    IN  MapThenFoldSet(step, [ledger |-> ledger, events |-> <<>>],
            LAMBDA i : ops[i], LAMBDA S : CHOOSE i \in S : \A j \in S : j <= i, DOMAIN ops)

senders(t) == {txs[t].ops[i].wallet : i \in DOMAIN txs[t].ops}

(* Transactions of one wallet are mined in the order of its nonces.  A     *)
(* forwarded transaction succeeds even when its operations fail.           *)
mine(t) ==
    /\ txs[t].status = "pending"
    /\ \A u \in 1 .. t - 1 : senders(u) \cap senders(t) # {} => txs[u].status # "pending"
    /\ \E failing \in IF MayRevert THEN {{}, {txs[t].ops[1]}} ELSE {{}} :
        LET mined == execution(txs[t].ops, failing) IN
        /\ ledger' = mined.ledger
        /\ txs' = [txs EXCEPT ![t].events = mined.events,
                     ![t].status = IF Forwards \/ mined.events # <<>> THEN "success" ELSE "reverted"]
    /\ UNCHANGED <<linked, call, traces, asked, lost>>

setChallengeBond(n) ==
    /\ ledger.bond # n
    /\ ledger' = [ledger EXCEPT !.bond = n]
    /\ UNCHANGED <<txs, linked, call, traces, asked, lost>>

(* A new transaction, or one more operation forwarded in a pending one. *)
broadcast(op, hash) ==
    \/ /\ hash = Len(txs) + 1 /\ hash <= MaxTxs
       /\ txs' = Append(txs, [ops |-> <<op>>, status |-> "pending", events |-> <<>>])
    \/ /\ Forwards /\ hash \in DOMAIN txs /\ txs[hash].status = "pending"
       /\ op.wallet \notin senders(hash)
       /\ txs' = [txs EXCEPT ![hash].ops = Append(@, op)]

-----------------------------------------------------------------------------
NoRequest == Operation("none", "none", 0, "none")
Idle == [pc |-> "idle", kind |-> "none", request |-> NoRequest, minimum |-> 0, hash |-> 0, retried |-> FALSE]

Init ==
    /\ \E n \in 0 .. MaxGrant :
         ledger = [allowance |-> [w \in Wallets |-> [s \in Spenders |-> n]],
                   staked |-> [w \in Wallets |-> 0], bond |-> 1, done |-> {}]
    /\ txs = <<>> /\ linked = "unread"
    /\ call = [c \in Calls |-> Idle]
    /\ traces = {} /\ asked = [calls |-> 0, stake |-> [w \in Wallets |-> 0]] /\ lost = 0

Goto(c, locals) == call' = [call EXCEPT ![c] = locals]
Step(c, pc) == Goto(c, [call[c] EXCEPT !.pc = pc])
Fail(c) == Goto(c, Idle)
Requests == {Operation(a, w, x, "none") : a \in Actions, w \in Wallets, x \in Contents}

(* Where the approvals of a request begin: a stake needs its amount, a     *)
(* challenge the bond, for which the linked contracts are read first.      *)
prepareApprovalSteps(c, kind, req) ==
    LET at(pc, n) == Goto(c, [Idle EXCEPT !.pc = pc, !.kind = kind, !.request = req, !.minimum = n]) IN
    CASE req.action = "stakeForAgent" -> at("allowance", req.content)
      [] req.action = "openPublicChallenge" -> at("linked", 0)
      [] OTHER -> at("send", 0)

ask(req) ==
    /\ asked.calls < MaxAsked
    /\ asked' = [asked EXCEPT !.calls = @ + 1,
                 !.stake[req.wallet] = @ + IF req.action = "stakeForAgent" THEN req.content ELSE 0]

execute(c, req) ==
    /\ call[c].pc = "idle"
    /\ IF HasRpc THEN prepareApprovalSteps(c, "execute", req)
       ELSE Goto(c, [Idle EXCEPT !.pc = "send", !.kind = "execute", !.request = req])
    /\ ask(req)
    /\ UNCHANGED <<ledger, txs, linked, traces, lost>>

(* Without an RPC a challenge cannot be prepared: its bond is unknown. *)
prepareExecution(c, req) ==
    /\ call[c].pc = "idle"
    /\ HasRpc \/ req.action # "openPublicChallenge"
    /\ prepareApprovalSteps(c, "prepare", req)
    /\ ask(req)
    /\ UNCHANGED <<ledger, txs, linked, traces, lost>>

verifyExecution(c, req, hash) ==
    /\ HasRpc
    /\ call[c].pc = "idle"
    /\ Goto(c, [Idle EXCEPT !.pc = "receipt", !.kind = "verify", !.request = req, !.hash = hash])
    /\ UNCHANGED <<ledger, txs, linked, traces, asked, lost>>

(* The promise is kept, also when it was rejected: every later call that   *)
(* awaits it fails.                                                        *)
getLinkedContracts(outcome) ==
    /\ linked = "unread" => outcome \in {"known"} \cup (IF RpcFails THEN {"rejected"} ELSE {})
    /\ linked # "unread" => outcome = linked
    /\ linked' = outcome

previewChallengeBond(c) ==
    /\ call[c].pc = "linked"
    /\ \E outcome \in {"known", "rejected"} :
        /\ getLinkedContracts(outcome)
        /\ IF outcome = "rejected" THEN Fail(c)
           ELSE Goto(c, [call[c] EXCEPT !.pc = "allowance", !.minimum = ledger.bond])
    /\ UNCHANGED <<ledger, txs, traces, asked, lost>>

granted(c) ==
    LET req == call[c].request IN ledger.allowance[req.wallet][spenderOf(req.action)]

enoughAllowance(c) == granted(c) >= call[c].minimum

(* Without an RPC the allowance is not known and approval is always asked. *)
prepareAllowanceApproval(c) ==
    /\ call[c].pc = "allowance"
    /\ Step(c, IF HasRpc /\ enoughAllowance(c) THEN "send" ELSE "approve")
    /\ UNCHANGED <<ledger, txs, linked, traces, asked, lost>>

approvedAmount_Doubled(c) == 2 * call[c].minimum
approvedAmount(c) == call[c].minimum

nextOperation(c) ==
    LET req == call[c].request IN
    IF call[c].pc = "approve"
    THEN Operation("erc20Approve", req.wallet, approvedAmount(c), spenderOf(req.action))
    ELSE req

(* The POST was answered with a transaction hash. *)
sendContractCall(c) ==
    /\ call[c].kind = "execute" /\ call[c].pc \in {"approve", "send"}
    /\ \E hash \in 1 .. MaxTxs :
        /\ broadcast(nextOperation(c), hash)
        /\ IF HasRpc
           THEN /\ Goto(c, [call[c] EXCEPT !.hash = hash, !.retried = FALSE,
                              !.pc = IF @ = "approve" THEN "approval" ELSE "receipt"])
                /\ UNCHANGED traces
           ELSE /\ Fail(c)
                /\ traces' = traces \cup {[request |-> call[c].request, hash |-> hash]}
    /\ UNCHANGED <<ledger, linked, asked, lost>>

(* It timed out: once more, over IPv4; a second time-out is an error. *)
postOkxJson(c) ==
    /\ call[c].kind = "execute" /\ call[c].pc \in {"approve", "send"}
    /\ lost < MaxLost /\ lost' = lost + 1
    /\ IF call[c].retried THEN Fail(c) ELSE Goto(c, [call[c] EXCEPT !.retried = TRUE])
    /\ UNCHANGED txs \/ \E hash \in 1 .. MaxTxs : broadcast(nextOperation(c), hash)
    /\ UNCHANGED <<ledger, linked, traces, asked>>

(* It was refused, or answered without a hash. *)
postOkxJsonOnce(c) ==
    /\ call[c].kind = "execute" /\ call[c].pc \in {"approve", "send"} /\ MayRevert
    /\ Fail(c)
    /\ UNCHANGED txs \/ \E hash \in 1 .. MaxTxs : broadcast(nextOperation(c), hash)
    /\ UNCHANGED <<ledger, linked, traces, asked, lost>>

(* The approval must be the wallet's own transaction to the token, which a *)
(* forwarded one is not, and must leave enough allowance.                  *)
verifyApproval(c) ==
    /\ call[c].pc = "approval"
    /\ txs[call[c].hash].status # "pending"
    /\ IF txs[call[c].hash].status = "success" /\ ~Forwards /\ enoughAllowance(c)
       THEN Step(c, "send") ELSE Fail(c)
    /\ UNCHANGED <<ledger, txs, linked, traces, asked, lost>>

(* The first event of that name in the receipt; later ones are not looked  *)
(* at.                                                                     *)
findEvent(t, action) ==
    LET named == {i \in DOMAIN txs[t].events : txs[t].events[i].action = action} IN
    IF named = {} THEN NoRequest ELSE txs[t].events[CHOOSE i \in named : \A j \in named : i <= j]

(* Rewards are not asked by content: the account must be the wallet. *)
eventMatches(t, req) ==
    LET event == findEvent(t, req.action) IN
    /\ event.action = req.action /\ event.wallet = req.wallet
    /\ req.action = "claimRewards" \/ event.content = req.content

verifyExecutionOnchain(c) ==
    /\ call[c].pc = "receipt"
    /\ LET t == call[c].hash  req == call[c].request IN
       /\ txs[t].status # "pending"
       /\ Fail(c)
       /\ IF txs[t].status = "success" /\ needsLinked(req.action)
          THEN getLinkedContracts("known") \/ getLinkedContracts("rejected")
          ELSE UNCHANGED linked
       /\ traces' = IF /\ txs[t].status = "success"
                       /\ needsLinked(req.action) => linked' = "known"
                       /\ eventMatches(t, req)
                    THEN traces \cup {[request |-> req, hash |-> t]} ELSE traces
    /\ UNCHANGED <<ledger, txs, asked, lost>>

(* What prepareExecution returned is broadcast by the agent itself: the    *)
(* approval, when there is one, and then the call.                         *)
agentBroadcast(c) ==
    /\ call[c].kind = "prepare" /\ call[c].pc \in {"approve", "send"}
    /\ \E hash \in 1 .. MaxTxs :
        /\ broadcast(nextOperation(c), hash)
        /\ Goto(c, [call[c] EXCEPT !.hash = hash, !.pc = IF @ = "approve" THEN "send" ELSE "mining"])
    /\ UNCHANGED <<ledger, linked, traces, asked, lost>>

(* It waits for the receipt before it has the call verified. *)
agentReceipt(c) ==
    /\ call[c].pc = "mining" /\ txs[call[c].hash].status # "pending"
    /\ Fail(c)
    /\ UNCHANGED <<ledger, txs, linked, traces, asked, lost>>

(* A prepared call that the agent drops, perhaps after its approval. *)
agentDrops(c) ==
    /\ call[c].kind = "prepare" /\ call[c].pc \in {"approve", "send"}
    /\ call[c].hash = 0 \/ MayRevert
    /\ Fail(c)
    /\ UNCHANGED <<ledger, txs, linked, traces, asked, lost>>

-----------------------------------------------------------------------------
CallStep(c) ==
    \/ previewChallengeBond(c) \/ prepareAllowanceApproval(c) \/ sendContractCall(c)
    \/ postOkxJson(c) \/ postOkxJsonOnce(c) \/ verifyApproval(c)
    \/ verifyExecutionOnchain(c) \/ agentBroadcast(c) \/ agentReceipt(c)
    \/ agentDrops(c)

Next ==
    \/ \E c \in Calls, req \in Requests :
        \/ execute(c, req) \/ prepareExecution(c, req)
        \/ \E hash \in DOMAIN txs : verifyExecution(c, req, hash)
    \/ \E c \in Calls : CallStep(c)
    \/ \E t \in DOMAIN txs : mine(t)
    \/ \E n \in 1 .. MaxBond : setChallengeBond(n)

Spec == Init /\ [][Next]_vars

(* Transactions get mined, calls proceed, and the agent whose operation    *)
(* was mined keeps asking for its verification.                            *)
FairSpec ==
    /\ Spec
    /\ \A t \in 1 .. MaxTxs : WF_vars(t \in DOMAIN txs /\ mine(t))
    /\ \A c \in Calls :
        /\ WF_vars(CallStep(c))
        /\ \A req \in Requests, t \in 1 .. MaxTxs :
             SF_vars(t \in DOMAIN txs /\ req \in {txs[t].events[i] : i \in DOMAIN txs[t].events}
                     /\ [request |-> req, hash |-> t] \notin traces /\ verifyExecution(c, req, t))

-----------------------------------------------------------------------------
TypeOK ==
    /\ ledger.allowance \in [Wallets -> [Spenders -> Nat]]
    /\ ledger.staked \in [Wallets -> Nat] /\ ledger.bond \in 1 .. MaxBond
    /\ ledger.done \subseteq Requests
    /\ linked \in {"unread", "known", "rejected"}
    /\ \A t \in DOMAIN txs :
        /\ txs[t].status \in {"pending", "success", "reverted"}
        /\ Len(txs[t].events) <= Len(txs[t].ops)
        /\ txs[t].status = "pending" => txs[t].events = <<>>
    /\ \A c \in Calls : call[c].request \in Requests \cup {NoRequest}
    /\ \A c \in Calls : call[c].hash \in 0 .. Len(txs)

(* A trace that the provider returned after verification stands for a     *)
(* call the chain accepted from that wallet, never for a mined            *)
(* transaction whose own operation failed (verifyExecutionOnchain).       *)
VerifiedIsDone ==
    HasRpc => \A trace \in traces :
        \E op \in ledger.done :
            /\ op.action = trace.request.action /\ op.wallet = trace.request.wallet
            /\ op.action = "claimRewards" \/ op.content = trace.request.content

(* With at most one POST lost, a wallet that had granted no allowance     *)
(* before never stakes more than it was                                   *)
(* asked to, although the repeated POST may broadcast a stake twice: the  *)
(* approvals are exact, so the second transfer finds no allowance.        *)
StakedAsAsked == lost <= 1 => \A w \in Wallets : ledger.staked[w] <= asked.stake[w]

(* One call at a time, with nothing lost and a steady bond:  a call whose  *)
(* approvals were prepared and broadcast first is not rejected for want   *)
(* of allowance (prepareAllowanceApproval against the transfer).          *)
ApprovalsSuffice ==
    \A t \in DOMAIN txs : txs[t].status = "reverted" =>
        txs[t].ops[1].action \notin {"stakeForAgent", "openPublicChallenge"}

(* A call that the chain accepted is verified in the end, when its agent   *)
(* keeps asking, unless the addresses of the linked contracts could not be *)
(* read the first time.                                                    *)
OwnWorkVerifies ==
    \A t \in 1 .. MaxTxs, req \in Requests :
        (t \in DOMAIN txs /\ req \in {txs[t].events[i] : i \in DOMAIN txs[t].events})
            ~> ([request |-> req, hash |-> t] \in traces \/ linked = "rejected")

=============================================================================
