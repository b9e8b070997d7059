------------------------------ MODULE MCRecords ------------------------------
(***************************************************************************)
(* What the API keeps of vaults, submissions and evidence (Records), of    *)
(* committees and of rounds, on small instances: the settings of the       *)
(* areas, and two components more, which move in areas of their own.       *)
(***************************************************************************)
EXTENDS Records, TLC

CONSTANTS p1, p2, solo, timer, a1, a2, a3, a4, setter

VARIABLES
    applicants, listed, seats, comRequest, comCalls,
    status, turn, number, clock, events, penalties

committeeVars == <<applicants, listed, seats, comRequest, comCalls>>
consensusVars == <<status, turn, number, clock, events, penalties>>

Both == {p1, p2}

-----------------------------------------------------------------------------
RuleOps == {"createDraft", "registerRuleCommittee", "bootstrapCommittee", "finalizeRuleSet",
            "decideRuleSet", "registerTx", "sync"}
BrowserOps == {"registerOnchain", "registerRuleCommittee", "finalizeRuleSet", "registerTx", "sync"}
AllOps == RuleOps \cup {"createVaultRequest", "registerResolutionCommittee", "finalizeResolution"}
LaterFaults == {"write", "save", "challenge", "resolve", "evaluate", "finalize", "vault", "committees"}
AllFaults == LaterFaults \cup {"insert", "ensure", "receipt", "verify", "registerTx", "registerOnchain",
                               "sync", "finalized"}
\* Two requests and the timer over a browser's vaults; one request after another with the
\* server's own wallet; the same without a chain.
Browsers ==
    [requests |-> Both, timers |-> {timer}, ops |-> BrowserOps, vaults |-> {1, 2}, postgres |-> TRUE,
     mock |-> FALSE, finalizer |-> FALSE, faults |-> AllFaults, txs |-> 3, calls |-> 4]
OneByOne ==
    [requests |-> {solo}, timers |-> {}, ops |-> AllOps, vaults |-> {1, 2}, postgres |-> FALSE,
     mock |-> FALSE, finalizer |-> TRUE, faults |-> LaterFaults, txs |-> 6, calls |-> 6]
NoChain == [OneByOne EXCEPT !.mock = TRUE, !.vaults = {1}]

\* Two submissions at once; with the wallets and payloads of production; one
\* validator's commits and reveals through two rounds.
Overlapping ==
    [agents |-> {a1, a2, a3}, makers |-> {a1, a2}, verifiers |-> {a2}, validators |-> {a1}, auditors |-> {a2},
     requests |-> Both, outcomes |-> {"TRUE"}, start |-> "RuleAuction",
     kinds |-> {"rule_draft", "rule_issue", "resolution_commit", "public_challenge"},
     ids |-> {"external"}, production |-> FALSE, overlap |-> TRUE, txs |-> 2, rounds |-> 1, calls |-> 2]
RealWallets ==
    [Overlapping EXCEPT !.start = "Active", !.ids = {"local", "external"}, !.production = TRUE, !.txs = 2,
                        !.kinds = {"resolution_commit", "resolution_reveal", "audit_verdict"}, !.calls = 3]
TwoRounds ==
    [agents |-> {a1}, makers |-> {a1}, verifiers |-> {}, validators |-> {a1}, auditors |-> {},
     requests |-> {solo}, outcomes |-> {"TRUE", "FALSE"}, start |-> "Active",
     kinds |-> {"resolution_commit", "resolution_reveal"}, ids |-> {"external"}, production |-> TRUE,
     overlap |-> FALSE, txs |-> 4, rounds |-> 2, calls |-> 5]

\* Two requests under the real policy, with a client's own sources; a search for the token;
\* no policy; the mock provider.
RealPolicy ==
    [requests |-> Both, kinds |-> {"resolution_reveal"}, tokens |-> {"usd", "okb"}, collateral |-> "usd",
     named |-> "none", provider |-> "okx-market-mcp", real |-> TRUE, ways |-> {"prepared", "direct"},
     sources |-> {"forged", "copied"}, faults |-> TRUE, time |-> 2, calls |-> 2]
Searching == [RealPolicy EXCEPT !.requests = {solo}, !.kinds = {"rule_draft", "resolution_reveal"},
                                !.collateral = "none", !.named = "okb", !.sources = {}]
NoPolicy == [RealPolicy EXCEPT !.requests = {solo}, !.collateral = "none", !.real = FALSE,
                               !.ways = {"direct"}, !.kinds = {"rule_draft", "resolution_commit",
                                                               "resolution_reveal"}]
MockProvider == [NoPolicy EXCEPT !.requests = Both, !.collateral = "usd", !.real = TRUE,
                                 !.provider = "mock-okx-market-skill", !.faults = FALSE]

Con(s) ==
    INSTANCE Consensus WITH
        Agents <- s.agents, Setter <- setter, Committee <- s.committee, Commitments <- s.commitments,
        VerdictsUsed <- s.verdicts, MAX_RESOLUTION_ROUNDS <- s.rounds, MaxChallenges <- s.challenges,
        Lossy <- s.lossy, round <- turn, subs <- events, claims <- penalties
Value(outcome) == [outcome |-> outcome, salt |-> 1]
Bench(validators, auditors, quorum) ==
    [validators |-> validators, auditors |-> auditors, minValidCount |-> quorum]
\* Three validators; two and two auditors, with a challenge; three auditors and every
\* verdict; two rounds whose events come late or never.
ConVotes ==
    [agents |-> {a1, a2, a3, a4}, committee |-> Bench(<<a1, a2, a3>>, <<a4>>, 2),
     commitments |-> {Value("True"), Value("False")}, verdicts |-> {"Valid", "Invalid"}, rounds |-> 1,
     challenges |-> 0, lossy |-> FALSE]
ConAudit == [ConVotes EXCEPT !.committee = Bench(<<a1, a2>>, <<a3, a4>>, 1), !.challenges = 1]
ConVerdicts ==
    [ConVotes EXCEPT !.committee = Bench(<<a1>>, <<a2, a3, a4>>, 1), !.commitments = {Value("True")},
                     !.verdicts = {"Valid", "Questionable", "Invalid", "Malicious"}]
ConLossy ==
    [ConVotes EXCEPT !.agents = {a1, a2}, !.committee = Bench(<<a1>>, <<a2>>, 1), !.rounds = 2,
                     !.challenges = 1, !.lossy = TRUE]

Com(s) ==
    INSTANCE Committees WITH
        Agents <- 1 .. s.agents, Profiles <- s.profiles, Claims <- s.claims, Sizings <- s.sizings,
        Requests <- {solo}, Overlap <- FALSE, MaxStake <- s.stake, MaxCalls <- s.calls, MaxRounds <- 1,
        profiles <- applicants, vault <- seats, request <- comRequest, calls <- comCalls
P(stake, available, reputation, tags) ==
    [stake |-> stake, available |-> available, reputation |-> reputation, tags |-> tags]
Seats(first, second, quorum) == [first |-> first, second |-> second, minValidCount |-> quorum]
\* Five agents of three trades; three of mixed quality, claimed by requests too; three whose
\* stake grows.
ComTrades ==
    [agents |-> 5, claims |-> {}, stake |-> 0, calls |-> 1, sizings |-> {Seats(2, 2, 2), Seats(3, 2, 2)},
     profiles |-> {P(1, TRUE, 50, {"rule-maker", "validator"}),
                   P(1, TRUE, 40, {"rule-verifier", "auditor"}), P(2, TRUE, 90, {"all-rounder"})}]
ComMixed ==
    [agents |-> 3, stake |-> 1, calls |-> 2, sizings |-> {Seats(1, 1, 2), Seats(1, 1, 1)},
     claims |-> {(1 :> P(3, TRUE, 90, {"validator"})) @@ (2 :> P(1, TRUE, 10, {"auditor"}))},
     profiles |-> {P(1, TRUE, 50, {"rule-maker"}), P(0, TRUE, 90, {"rule-verifier"}),
                   P(1, FALSE, 50, {"auditor"}), P(1, TRUE, 50, {"challenger"})}]
ComStake == [ComMixed EXCEPT !.profiles = {P(0, TRUE, 50, {"all-rounder"})}, !.claims = {}, !.stake = 2]

ASSUME OthersAreSound ==
    /\ \A s \in {ComTrades, ComMixed, ComStake} : Com(s)!CommitteesAssumption
    /\ \A s \in {ConVotes, ConAudit, ConVerdicts, ConLossy} : Con(s)!ConsensusAssumption

-----------------------------------------------------------------------------
MCInit ==
    /\ RecordsInit
    /\ Com(ComTrades)!Init
    /\ IF area = "metrics_lossy" THEN Con(ConLossy)!Init ELSE Con(ConVotes)!Init

CommitteesNext ==
    /\ \/ area = "committees" /\ Com(ComTrades)!Next
       \/ area = "committees_mixed" /\ Com(ComMixed)!Next
       \/ area = "committees_stake" /\ Com(ComStake)!Next
    /\ UNCHANGED <<recordVars, consensusVars>>
ConsensusNext ==
    /\ \/ area = "metrics" /\ Con(ConVotes)!Next
       \/ area = "metrics_audit" /\ Con(ConAudit)!Next
       \/ area = "metrics_verdicts" /\ Con(ConVerdicts)!Next
       \/ area = "metrics_lossy" /\ Con(ConLossy)!Next
    /\ UNCHANGED <<recordVars, committeeVars>>

MCNext ==
    \/ RecordsNext /\ UNCHANGED <<committeeVars, consensusVars>>
    \/ CommitteesNext
    \/ ConsensusNext
MCSpec == MCInit /\ [][MCNext]_<<recordVars, committeeVars, consensusVars>>

Symmetry == Permutations(Both)

-----------------------------------------------------------------------------
\* Nobody sits twice, every seat is filled, by those of its trade first and with a seat for
\* who asked, and forming a committee takes no stake away (Committees).
SeatsAreSound ==
    /\ [](area = "committees" =>
            /\ Com(ComTrades)!TypeOK /\ Com(ComTrades)!RolesDisjoint /\ Com(ComTrades)!EnoughSeats)
    /\ [](area = "committees_mixed" => Com(ComMixed)!RolesDisjoint /\ Com(ComMixed)!EnoughSeats)
    /\ [][/\ area = "committees" =>
              Com(ComTrades)!SpecialistsFirst /\ Com(ComTrades)!AskerIsSeated
          /\ area = "committees_mixed" => Com(ComMixed)!SpecialistsFirst
          /\ area = "committees_stake" => Com(ComStake)!StakeStays]_committeeVars

\* The API's consensus engine and the factory agree on outcomes and slashes, and evidence
\* that is missing condemns nobody (Consensus).
EnginesAgree ==
    /\ area = "metrics" =>
           /\ Con(ConVotes)!TypeOK /\ Con(ConVotes)!OutcomesAgree /\ Con(ConVotes)!SlashesAgree
    /\ area = "metrics_audit" => Con(ConAudit)!OutcomesAgree /\ Con(ConAudit)!SlashesAgree
    /\ area = "metrics_verdicts" => Con(ConVerdicts)!OutcomesAgree
    /\ area = "metrics_lossy" =>
           /\ Con(ConLossy)!AuditTaskMatches /\ Con(ConLossy)!NoInventedFaults
           /\ Con(ConLossy)!RewardsTasked
=============================================================================
