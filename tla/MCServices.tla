------------------------------ MODULE MCServices ------------------------------
(***************************************************************************)
(* What the services and the pages bring about in the end, on instances    *)
(* small enough for liveness.  As in MCServer, an execution picks one part *)
(* at the start and only that part's component moves.                      *)
(***************************************************************************)
EXTENDS MCServer

CONSTANTS a1, a2, a3, t1, t2, alice, okx, v1,
          NoAccount, NoProvider, NoAgent, NoContent

VARIABLES
    factory, accepted, vaultRow, subs, proofs, subRequest, subCalls,
    vaultChain, vaultTxs, record, mirror, opRequest, answered, opCalls,
    pageRound, pageAccount, posted, tab, session, salts, pageCalls, switches, pageFaults,
    silent, present, wallet, notices, attached, listening, questions, shown, applied, changes, connects,
    config, payer, rightChain, treasury, reign, minimum, now, payments, vaults, records, forms, submits,
    moves, losses,
    status, deposit, approved, blocked, decided, mined, decision, page, decisions, reprices, mishaps

submissionVars == <<factory, accepted, vaultRow, subs, proofs, subRequest, subCalls>>
workflowVars == <<vaultChain, vaultTxs, record, mirror, opRequest, answered, opCalls>>
validatorVars == <<pageRound, pageAccount, posted, tab, session, salts, pageCalls, switches, pageFaults>>
connectedVars == <<silent, present, wallet, notices, attached, listening, questions, shown, applied, changes, connects>>
creationVars == <<config, payer, rightChain, treasury, reign, minimum, now, payments, vaults, records, forms,
                  submits, moves, losses>>
decisionVars == <<status, deposit, approved, blocked, decided, mined, decision, page, decisions, reprices, mishaps>>

Tabs == {t1, t2}

\* The server's parts on smaller instances: a seed without a crash; challenges left for the
\* operator's; one call whose answer may get lost.
OneSeed == [Crash EXCEPT !.own = {0, 1}, !.crashes = 0, !.faults = 2, !.txs = 5, !.rearms = 4]
Operated == [InPostgres EXCEPT !.challenges = 6, !.asked = 2]
OneReveal ==
    [Forwarded EXCEPT !.calls = {solo}, !.wallets = {w1}, !.actions = {"revealResolution"}, !.bond = 1,
                      !.lost = 1]

-----------------------------------------------------------------------------
\* A validator's commit and reveal while requests overlap.
Subs ==
    INSTANCE Submissions WITH
        Agents <- {a1, a2, a3}, Makers <- {a1, a2}, Verifiers <- {a2}, Validators <- {a1},
        Auditors <- {a2}, Kinds <- {"resolution_commit", "resolution_reveal"}, Requests <- Both,
        Outcomes <- {"TRUE"}, Start <- "Active", Ids <- {"external"}, Postgres <- TRUE,
        Production <- FALSE, Faults <- FALSE, Overlap <- TRUE, MaxTxs <- 2, MaxRounds <- 2,
        MaxCalls <- 2, chain <- factory, txs <- accepted, vault <- vaultRow,
        request <- subRequest, calls <- subCalls
\* A vault's rules, by requests that fail anywhere, and the timer.
Vault ==
    INSTANCE VaultWorkflow WITH
        Requests <- {solo}, Timers <- {p1}, Vaults <- {1}, Postgres <- TRUE, Mock <- FALSE,
        Ops <- {"createDraft", "registerOnchain", "registerRuleCommittee", "finalizeRuleSet",
                "decideRuleSet", "sync"},
        Finalizer <- FALSE, Faults <- {"write", "save", "ensure", "receipt", "sync"},
        MaxTxs <- 3, MaxCalls <- 4, chain <- vaultChain, txs <- vaultTxs, request <- opRequest,
        booked <- answered, calls <- opCalls
Validator ==
    INSTANCE ValidatorPage WITH
        Agents <- {alice}, Members <- [r \in 1 .. 2 |-> {alice}], Contents <- {"true"},
        MaxRounds <- 2, MaxCalls <- 2, MaxSwitches <- 1, MaxFaults <- 1, round <- pageRound,
        account <- pageAccount, subs <- posted, calls <- pageCalls, faults <- pageFaults
Connected ==
    INSTANCE ConnectedWallet WITH
        Providers <- {okx}, Accounts <- {alice}, Chains <- {196},
        providerScore <- [p \in {okx} |-> 300], MaxChanges <- 1, MaxConnects <- 1, events <- notices, calls <- questions
Creation ==
    INSTANCE VaultCreation WITH
        Accounts <- {alice}, Unit <- 2, ListedUnit <- 2, Cap <- 3, Amounts <- {1}, Deposits <- {1},
        MaxTime <- 1, MaxSubmits <- 2, MaxSwitches <- 1, MaxFaults <- 2, account <- payer,
        txs <- payments, tab <- forms, switches <- moves, faults <- losses
Decision ==
    INSTANCE RuleDecision WITH
        Vaults <- {v1}, Gross <- [v \in {v1} |-> 3], Deposits <- {1},
        MaxDecisions <- 2, MaxReprices <- 0, MaxFaults <- 1, allowance <- approved,
        txs <- decided, record <- decision, faults <- mishaps

-----------------------------------------------------------------------------
servicesVars == <<serverVars, submissionVars, workflowVars, validatorVars, connectedVars,
                  creationVars, decisionVars>>

ServicesInit ==
    /\ ServerInit /\ Resting
    /\ Subs!Init /\ Vault!Init /\ Validator!Init /\ Creation!Init /\ Decision!Init
    /\ treasury = NoAccount
    /\ Connected!Init /\ silent = {okx}
    /\ ~blocked
    /\ part # "wallet" => present = {} /\ \A p \in DOMAIN wallet : wallet[p].account = alice

PagesNext ==
    /\ UNCHANGED <<serverVars, submissionVars, workflowVars>>
    /\ \/ /\ part = "validator" /\ Validator!Next
          /\ UNCHANGED <<connectedVars, creationVars, decisionVars>>
       \/ /\ part = "wallet" /\ Connected!Next
          /\ UNCHANGED <<validatorVars, creationVars, decisionVars>>
       \/ /\ part = "creation" /\ Creation!Next
          /\ UNCHANGED <<validatorVars, connectedVars, decisionVars>>
       \/ /\ part = "decision" /\ Decision!Next
          /\ UNCHANGED <<validatorVars, connectedVars, creationVars>>
ServicesNext ==
    \/ /\ ServerNext
       /\ UNCHANGED <<submissionVars, workflowVars, validatorVars, connectedVars, creationVars, decisionVars>>
    \/ /\ part = "submissions" /\ Subs!Next
       /\ UNCHANGED <<serverVars, workflowVars, validatorVars, connectedVars, creationVars, decisionVars>>
    \/ /\ part = "workflow" /\ Vault!Next
       /\ UNCHANGED <<serverVars, submissionVars, validatorVars, connectedVars, creationVars, decisionVars>>
    \/ PagesNext

\* The fairness that each component states, while its part is the one that moves.
StartupFairness ==
    /\ WF_vars(part = "startup" /\ boot)
    /\ WF_vars(part = "startup" /\ checkHealth)
    /\ WF_vars(part = "startup" /\ getHealth)
SeedFairness ==
    /\ WF_seedVars(part = "seed_crash" /\ SC!Request(solo))
    /\ SF_seedVars(part = "seed_crash" /\ SC!recoverOverdueSeed(solo) /\ UNCHANGED faults)
    /\ WF_seedVars(part = "seed_crash" /\ \E i \in DOMAIN txs : SC!Settle(i, "mined"))
RegFairness ==
    \A r \in Both :
        /\ WF_regVars(part = "registration" /\ RP!Handler(r))
        /\ SF_regVars(/\ part = "registration" /\ ~RP!isJudgeListed(1)
                      /\ \/ RP!createRegistration(r, 1)
                         \/ RP!bootstrapRegistered(r, 1))
OkxFairness ==
    /\ \A t \in 1 .. OkxForwarded.txs :
           WF_okxVars(part = "okx_forwarded" /\ t \in DOMAIN sent /\ OF!mine(t))
    /\ WF_okxVars(part = "okx_forwarded" /\ OF!CallStep(solo))
    /\ \A req \in OF!Requests, t \in 1 .. OkxForwarded.txs :
           SF_okxVars(/\ part = "okx_forwarded" /\ t \in DOMAIN sent
                      /\ req \in {sent[t].events[i] : i \in DOMAIN sent[t].events}
                      /\ [request |-> req, hash |-> t] \notin traces
                      /\ OF!verifyExecution(solo, req, t))
RecordsFairness ==
    /\ WF_uploadVars(part = "upload_served" /\ US!progress(solo))
    /\ WF_submissionVars(part = "submissions" /\ Subs!syncOnchainSnapshot)
    /\ \A r \in Both : WF_submissionVars(part = "submissions" /\ Subs!Step(r))
    /\ WF_workflowVars(part = "workflow" /\ \E k \in DOMAIN vaultTxs : Vault!mine(k))
    /\ \A r \in {solo, p1} : WF_workflowVars(part = "workflow" /\ Vault!Step(r))
    /\ WF_workflowVars(part = "workflow" /\ Vault!syncOnchainSnapshot(p1))
PagesFairness ==
    /\ \A t \in Tabs :
        /\ WF_validatorVars(part = "validator" /\ Validator!step(t))
        /\ WF_creationVars(part = "creation" /\ Creation!step(t))
        /\ WF_decisionVars(part = "decision" /\ Decision!step(t))
    /\ WF_creationVars(part = "creation" /\ \E i \in DOMAIN payments : Creation!mine(i))
    /\ WF_decisionVars(part = "decision" /\ Decision!mine)
    /\ WF_connectedVars(part = "wallet" /\ \E i \in DOMAIN questions : Connected!step(i))

ServicesSpec ==
    /\ ServicesInit /\ [][ServicesNext]_servicesVars
    /\ StartupFairness /\ SeedFairness /\ RegFairness /\ OkxFairness /\ RecordsFairness /\ PagesFairness

-----------------------------------------------------------------------------
\* What an agent or the operator asks for again and again is granted in the end: a seed is
\* recorded, a wallet listed, accepted work verified; and a server set right is healthy
\* (StakeSeed, Registration, OkxWallet, Startup).
EventuallyServed ==
    /\ part = "seed_crash" => SC!EventuallySeeded
    /\ part = "registration" => RP!EventuallyListed
    /\ part = "okx_forwarded" => OF!OwnWorkVerifies
    /\ part = "startup" => ComesUp

\* The API's record of a vault becomes what the chain has, whatever overlapped or failed
\* (Submissions, VaultWorkflow).
RecordsSettle ==
    /\ part = "submissions" => Subs!StatusSettles
    /\ part = "workflow" => Vault!Reconciled

\* What a page or an upload began comes to an end, done or failed (ValidatorPage,
\* ConnectedWallet, VaultCreation, RuleDecision, PayloadUpload).
CallsEnd ==
    /\ part = "validator" => Validator!SubmissionEnds
    /\ part = "wallet" => Connected!ConnectingEnds
    /\ part = "creation" => Creation!SubmitEnds
    /\ part = "decision" => Decision!DecisionEnds
    /\ part = "upload_served" => US!UploadEnds
=============================================================================
