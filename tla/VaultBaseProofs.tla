-------------------------- MODULE VaultBaseProofs ---------------------------
(***************************************************************************)
(* Facts about the contracts that a factory calls, whichever factory it    *)
(* is, and for any accounts, fees and amounts: the custody of the          *)
(* collateral, the allocations and bonds of RewardPool, the bonds and      *)
(* slashes of AgentStaking.                                                *)
(*                                                                         *)
(* What the collateral is concerned with is a small part of the state, and *)
(* there are only a few kinds of steps on it (StepKind).  Here is what     *)
(* follows for a factory all of whose steps are of these kinds: the        *)
(* invariant that its contracts agree, and the promise about the           *)
(* collateral.                                                             *)
(***************************************************************************)
EXTENDS VaultBase, SumsTheorems, SequenceTheorems, TLAPS

-----------------------------------------------------------------------------
\* The part of the state that matters, and the invariant.

custody == <<vault, resolution, escrow, collateral>>

VaultRecord ==
    [status : VaultStatus, legacyMode : BOOLEAN, ruleSet : BOOLEAN,
     ruleRound : Nat, resolutionRound : Nat, rejectionCount : Nat]
ResolutionRecord ==
    [outcome : Outcomes \cup {"None"}, disputed : BOOLEAN, finalized : BOOLEAN,
     windowOver : BOOLEAN]

CustodyType ==
    /\ vault \in VaultRecord
    /\ resolution \in ResolutionRecord
    /\ escrow \in [initialized : BOOLEAN, lockedAmount : Nat, settled : BOOLEAN]
    /\ collateral \in [Holders -> Nat]
    /\ fees \in FeeSchedules

\* Until the escrow settles, whatever the setter brought is with the setter, or in escrow
\* but for the creation fee.
BeforeSettling ==
    /\ ~escrow.settled => collateral["compensation"] = 0
    /\ ~escrow.initialized => collateral["treasury"] = 0
    /\ escrow.initialized /\ ~escrow.settled =>
           /\ collateral["setter"] = 0
           /\ escrow.lockedAmount \in 1 .. GrossCollateral
           /\ collateral["treasury"] = GrossCollateral - escrow.lockedAmount

FinalMeansOver == resolution.finalized => resolution.windowOver

CustodyInv == CustodyType /\ EscrowMatchesStatus /\ BeforeSettling /\ FinalMeansOver

-----------------------------------------------------------------------------
\* The kinds of steps.

Open == VaultStatus \ (Unfunded \cup Resolved)

MoneyStays == UNCHANGED <<escrow, collateral>>

\* The vault proceeds, before or after it is funded.
Proceeds(phase) ==
    /\ vault.status \in phase
    /\ vault' \in VaultRecord
    /\ vault'.status \in phase
    /\ UNCHANGED resolution
    /\ MoneyStays
\* The setter funds it.
IsFunded ==
    /\ vault.status \in Unfunded
    /\ vault' \in VaultRecord
    /\ vault'.status = "Active"
    /\ UNCHANGED resolution
    /\ FundEscrow
\* A resolution is proposed or disputed.
IsDebated ==
    /\ vault.status \in Open
    /\ vault' \in VaultRecord
    /\ vault'.status \in Open
    /\ resolution' \in ResolutionRecord
    /\ ~resolution'.finalized
    /\ MoneyStays
\* The dispute window passes.
WindowPasses ==
    /\ ~resolution.windowOver
    /\ resolution' = [resolution EXCEPT !.windowOver = TRUE]
    /\ UNCHANGED vault
    /\ MoneyStays
\* The outcome is decided and executed.
IsSettled ==
    /\ vault.status \in Open
    /\ \E outcome \in Outcomes : executeVaultOutcome(outcome)

StepKind ==
    \/ UNCHANGED custody
    \/ Proceeds(Unfunded)
    \/ Proceeds(Open)
    \/ IsFunded
    \/ IsDebated
    \/ WindowPasses
    \/ IsSettled

-----------------------------------------------------------------------------
\* The invariant.

\* A share of an amount in basis points is an amount.
LEMMA BpsIsNat == ASSUME NEW amount \in Nat, NEW bps \in 0 .. MAX_BPS PROVE Bps(amount, bps) \in Nat
<1>1. \A k \in Nat : k \div MAX_BPS \in Nat
    BY DEF MAX_BPS
<1>2. amount * bps \in Nat
    BY DEF MAX_BPS
<1> DEFINE product == amount * bps
<1>3. product \in Nat /\ Bps(amount, bps) = product \div MAX_BPS
    BY <1>2 DEF Bps
<1> HIDE DEF product
<1> QED BY <1>1, <1>3

\* FundEscrow moves what the setter brings, the fee to the treasury and the rest to escrow.
LEMMA FundingLocksTheRest ==
    ASSUME CustodyType, FundEscrow
    PROVE  /\ escrow' = [initialized |-> TRUE, lockedAmount |-> escrow'.lockedAmount,
                         settled |-> FALSE]
           /\ escrow'.lockedAmount \in 1 .. GrossCollateral
           /\ collateral["setter"] >= GrossCollateral
           /\ collateral' = [collateral EXCEPT
                  !["setter"] = @ - GrossCollateral,
                  !["treasury"] = @ + (GrossCollateral - escrow'.lockedAmount),
                  !["escrow"] = @ + escrow'.lockedAmount]
<1> DEFINE creationFee == Bps(GrossCollateral, fees.creationFeeBps)
           locked == GrossCollateral - creationFee
<1>1. fees.creationFeeBps \in 0 .. MAX_BPS /\ GrossCollateral \in Nat
    BY FeesAreSchedules, AmountsAreNat DEF CustodyType, FeeSchedule
<1>2. creationFee \in Nat
    BY <1>1, BpsIsNat
<1>3. /\ locked > 0
      /\ collateral["setter"] >= GrossCollateral
      /\ collateral' = [collateral EXCEPT !["setter"] = @ - GrossCollateral,
                                          !["treasury"] = @ + creationFee,
                                          !["escrow"] = @ + locked]
      /\ escrow' = [initialized |-> TRUE, lockedAmount |-> locked, settled |-> FALSE]
    BY DEF FundEscrow
<1> HIDE DEF creationFee
<1>4. locked \in 1 .. GrossCollateral /\ creationFee = GrossCollateral - locked
    BY <1>1, <1>2, <1>3
<1> HIDE DEF locked
<1> QED BY <1>3, <1>4

\* Nothing has been moved at the start.
LEMMA CustodyInit == BaseInit => CustodyInv
<1> SUFFICES ASSUME BaseInit PROVE CustodyInv
    OBVIOUS
<1> USE DEF BaseInit
<1>1. CustodyType
    BY AmountsAreNat
    DEF CustodyType, VaultRecord, VaultStatus, ResolutionRecord, NoResolution, Holders
<1>2. EscrowMatchesStatus
    BY DEF EscrowMatchesStatus, Unfunded, Resolved, NoResolution, Holders
<1>3. BeforeSettling /\ FinalMeansOver
    BY DEF BeforeSettling, FinalMeansOver, NoResolution, Holders
<1> QED BY <1>1, <1>2, <1>3 DEF CustodyInv

\* What SettleEscrow does to the balances, once they are known.
LEMMA SettlingPaysOut ==
    ASSUME CustodyInv, NEW outcome \in Outcomes, SettleEscrow(outcome)
    PROVE  \E fee \in 0 .. escrow.lockedAmount :
               /\ outcome = "Invalid" => fee = 0
               /\ escrow.initialized /\ ~escrow.settled
               /\ escrow' = [escrow EXCEPT !.settled = TRUE]
               /\ collateral' \in [Holders -> Nat]
               /\ collateral'["escrow"] = 0
               /\ collateral'["treasury"] = collateral["treasury"] + fee
               /\ collateral'["compensation"] =
                      IF outcome = "False" THEN escrow.lockedAmount - fee ELSE 0
               /\ collateral'["setter"] =
                      IF outcome = "False" THEN 0 ELSE escrow.lockedAmount - fee
<1> DEFINE locked == escrow.lockedAmount
           fee == settlementFee(outcome)
<1>1. /\ escrow.initialized /\ ~escrow.settled /\ fee <= locked
      /\ escrow' = [escrow EXCEPT !.settled = TRUE]
      /\ collateral' = [collateral EXCEPT
             !["escrow"] = @ - locked, !["treasury"] = @ + fee,
             ![IF outcome = "False" THEN "compensation" ELSE "setter"] = @ + (locked - fee)]
    BY DEF SettleEscrow
<1>2. locked \in Nat /\ collateral \in [Holders -> Nat]
    BY DEF CustodyInv, CustodyType
<1>3. collateral["escrow"] = locked /\ collateral["compensation"] = 0 /\ collateral["setter"] = 0
    BY <1>1 DEF CustodyInv, EscrowMatchesStatus, BeforeSettling
<1>4. fee \in Nat /\ (outcome = "Invalid" => fee = 0)
    <2>1. fees.settlementFeeBps \in 0 .. MAX_BPS
        BY FeesAreSchedules DEF CustodyInv, CustodyType, FeeSchedule
    <2>2. Bps(escrow.lockedAmount, fees.settlementFeeBps) \in Nat
        BY <1>2, <2>1, BpsIsNat
    <2> QED BY <2>2 DEF settlementFee
<1> HIDE DEF locked, fee
<1>5. fee \in 0 .. locked /\ locked - fee \in Nat
    BY <1>1, <1>2, <1>4
<1>6. CASE outcome = "False"
    <2>1. collateral' = [collateral EXCEPT !["escrow"] = @ - locked, !["treasury"] = @ + fee,
                                            !["compensation"] = @ + (locked - fee)]
        BY <1>1, <1>6
    <2>2. /\ collateral' \in [Holders -> Nat] /\ collateral'["escrow"] = 0
          /\ collateral'["treasury"] = collateral["treasury"] + fee
          /\ collateral'["compensation"] = locked - fee
          /\ collateral'["setter"] = 0
        BY <1>2, <1>3, <1>4, <1>5, <2>1 DEF Holders
    <2> QED BY <1>1, <1>4, <1>5, <1>6, <2>2 DEF locked
<1>7. CASE outcome # "False"
    <2>1. collateral' = [collateral EXCEPT !["escrow"] = @ - locked, !["treasury"] = @ + fee,
                                            !["setter"] = @ + (locked - fee)]
        BY <1>1, <1>7
    <2>2. /\ collateral' \in [Holders -> Nat] /\ collateral'["escrow"] = 0
          /\ collateral'["treasury"] = collateral["treasury"] + fee
          /\ collateral'["compensation"] = 0
          /\ collateral'["setter"] = locked - fee
        BY <1>2, <1>3, <1>4, <1>5, <2>1 DEF Holders
    <2> QED BY <1>1, <1>4, <1>5, <1>7, <2>2 DEF locked
<1> QED BY <1>6, <1>7

\* What funding leaves, once the balances are known.
LEMMA FundingLeaves ==
    ASSUME CustodyInv, IsFunded
    PROVE  /\ ~escrow.initialized /\ ~escrow.settled
           /\ escrow' \in [initialized : {TRUE}, lockedAmount : 1 .. GrossCollateral,
                           settled : {FALSE}]
           /\ collateral' \in [Holders -> Nat]
           /\ collateral'["setter"] = 0
           /\ collateral'["treasury"] = GrossCollateral - escrow'.lockedAmount
           /\ collateral'["escrow"] = escrow'.lockedAmount
           /\ collateral'["compensation"] = 0
<1> DEFINE locked == escrow'.lockedAmount
<1>1. ~escrow.initialized /\ ~escrow.settled
    BY DEF CustodyInv, EscrowMatchesStatus, IsFunded, Unfunded, Resolved
<1>2. /\ collateral["setter"] = GrossCollateral /\ collateral["escrow"] = 0
      /\ collateral["treasury"] = 0 /\ collateral["compensation"] = 0
    BY <1>1 DEF CustodyInv, EscrowMatchesStatus, BeforeSettling
<1>3. /\ escrow' = [initialized |-> TRUE, lockedAmount |-> locked, settled |-> FALSE]
      /\ locked \in 1 .. GrossCollateral
      /\ collateral' = [collateral EXCEPT
             !["setter"] = @ - GrossCollateral,
             !["treasury"] = @ + (GrossCollateral - locked), !["escrow"] = @ + locked]
    BY FundingLocksTheRest DEF CustodyInv, IsFunded
<1> HIDE DEF locked
<1>4. collateral \in [Holders -> Nat] /\ GrossCollateral \in Nat
    BY AmountsAreNat DEF CustodyInv, CustodyType
<1>5. collateral' = [collateral EXCEPT !["setter"] = 0,
                         !["treasury"] = GrossCollateral - locked, !["escrow"] = locked]
    BY <1>2, <1>3, <1>4 DEF Holders
<1>6. /\ collateral' \in [Holders -> Nat] /\ collateral'["setter"] = 0
      /\ collateral'["treasury"] = GrossCollateral - locked
      /\ collateral'["escrow"] = locked /\ collateral'["compensation"] = 0
    BY <1>2, <1>3, <1>4, <1>5 DEF Holders
<1>7. escrow' \in [initialized : {TRUE}, lockedAmount : 1 .. GrossCollateral,
                   settled : {FALSE}]
    BY <1>3
<1> QED BY <1>1, <1>6, <1>7 DEF locked

\* Every kind of step preserves the invariant.
LEMMA CustodyStep == CustodyInv /\ StepKind /\ fees' \in FeeSchedules => CustodyInv'
<1> SUFFICES ASSUME CustodyInv, StepKind, fees' \in FeeSchedules PROVE CustodyInv'
    OBVIOUS
<1> USE DEF CustodyInv
<1>1. CASE UNCHANGED custody
    BY <1>1
    DEF custody, CustodyType, EscrowMatchesStatus, BeforeSettling, FinalMeansOver
<1>2. CASE Proceeds(Unfunded)
    <2>1. CustodyType'
        BY <1>2 DEF Proceeds, MoneyStays, CustodyType
    <2>2. EscrowMatchesStatus'
        BY <1>2 DEF Proceeds, MoneyStays, EscrowMatchesStatus, Unfunded, Resolved
    <2>3. BeforeSettling' /\ FinalMeansOver'
        BY <1>2 DEF Proceeds, MoneyStays, BeforeSettling, FinalMeansOver
    <2> QED BY <2>1, <2>2, <2>3
<1>3. CASE Proceeds(Open)
    <2>1. CustodyType'
        BY <1>3 DEF Proceeds, MoneyStays, CustodyType
    <2>2. EscrowMatchesStatus'
        BY <1>3 DEF Proceeds, MoneyStays, EscrowMatchesStatus, Open
    <2>3. BeforeSettling' /\ FinalMeansOver'
        BY <1>3 DEF Proceeds, MoneyStays, BeforeSettling, FinalMeansOver
    <2> QED BY <2>1, <2>2, <2>3
<1>4. CASE IsFunded
    <2>0. /\ vault' \in VaultRecord /\ vault'.status = "Active" /\ UNCHANGED resolution
        BY <1>4 DEF IsFunded
    <2>1. CustodyType'
        <3>1. escrow' \in [initialized : {TRUE}, lockedAmount : 1 .. GrossCollateral,
                           settled : {FALSE}]
            BY <1>4, FundingLeaves
        <3>2. escrow' \in [initialized : BOOLEAN, lockedAmount : Nat, settled : BOOLEAN]
            <4>1. 1 .. GrossCollateral \subseteq Nat
                BY AmountsAreNat
            <4> QED BY <3>1, <4>1
        <3>3. collateral' \in [Holders -> Nat]
            BY <1>4, FundingLeaves
        <3> QED BY <2>0, <3>2, <3>3 DEF CustodyType
    <2>2. EscrowMatchesStatus'
        BY <1>4, <2>0, FundingLeaves DEF EscrowMatchesStatus, Unfunded, Resolved
    <2>3. BeforeSettling'
        BY <1>4, FundingLeaves DEF BeforeSettling
    <2>4. FinalMeansOver'
        BY <2>0 DEF FinalMeansOver
    <2> QED BY <2>1, <2>2, <2>3, <2>4
<1>5. CASE IsDebated
    <2>1. CustodyType'
        BY <1>5 DEF IsDebated, MoneyStays, CustodyType
    <2>2. EscrowMatchesStatus'
        BY <1>5 DEF IsDebated, MoneyStays, EscrowMatchesStatus, Open
    <2>3. BeforeSettling' /\ FinalMeansOver'
        BY <1>5 DEF IsDebated, MoneyStays, BeforeSettling, FinalMeansOver
    <2> QED BY <2>1, <2>2, <2>3
<1>6. CASE WindowPasses
    <2>0. /\ resolution' \in ResolutionRecord
          /\ resolution'.finalized = resolution.finalized
          /\ resolution'.outcome = resolution.outcome
          /\ resolution'.windowOver
        BY <1>6 DEF WindowPasses, CustodyType, ResolutionRecord
    <2>1. CustodyType'
        BY <1>6, <2>0 DEF WindowPasses, MoneyStays, CustodyType
    <2>2. EscrowMatchesStatus'
        BY <1>6, <2>0 DEF WindowPasses, MoneyStays, EscrowMatchesStatus, StatusOf
    <2>3. BeforeSettling' /\ FinalMeansOver'
        BY <1>6, <2>0 DEF WindowPasses, MoneyStays, BeforeSettling, FinalMeansOver
    <2> QED BY <2>1, <2>2, <2>3
<1>7. CASE IsSettled
    <2>1. PICK outcome \in Outcomes : executeVaultOutcome(outcome)
        BY <1>7 DEF IsSettled
    <2>2. SettleEscrow(outcome)
        BY <2>1 DEF executeVaultOutcome
    <2>3. /\ escrow.initialized /\ ~escrow.settled
          /\ escrow' = [escrow EXCEPT !.settled = TRUE]
          /\ collateral' \in [Holders -> Nat] /\ collateral'["escrow"] = 0
        BY <2>2, SettlingPaysOut
    <2>4. /\ vault' = [vault EXCEPT !.status = StatusOf(outcome)]
          /\ resolution' = [outcome |-> outcome, disputed |-> FALSE, finalized |-> TRUE,
                            windowOver |-> TRUE]
        BY <2>1 DEF executeVaultOutcome
    <2>5. /\ StatusOf(outcome) \in Resolved /\ Resolved \subseteq VaultStatus
          /\ StatusOf(outcome) \notin Unfunded
        BY DEF StatusOf, Outcomes, Resolved, VaultStatus, Unfunded
    <2>6. vault' \in VaultRecord /\ vault'.status = StatusOf(outcome)
        BY <2>4, <2>5 DEF CustodyType, VaultRecord
    <2>7. /\ escrow' \in [initialized : BOOLEAN, lockedAmount : Nat, settled : BOOLEAN]
          /\ escrow'.initialized /\ escrow'.settled
        BY <2>3 DEF CustodyType
    <2>8. CustodyType'
        BY <2>3, <2>4, <2>6, <2>7 DEF CustodyType, ResolutionRecord
    <2>9. EscrowMatchesStatus'
        BY <2>3, <2>4, <2>5, <2>6, <2>7 DEF EscrowMatchesStatus
    <2>10. BeforeSettling' /\ FinalMeansOver'
        BY <2>4, <2>7 DEF BeforeSettling, FinalMeansOver
    <2> QED BY <2>8, <2>9, <2>10
<1> QED BY <1>1, <1>2, <1>3, <1>4, <1>5, <1>6, <1>7 DEF StepKind

\* Once a resolution is final, only steps that leave all of it alone are of such a kind.
LEMMA FinalStays ==
    ASSUME CustodyInv, StepKind, resolution.finalized
    PROVE  resolution' = resolution /\ vault' = vault /\ escrow' = escrow
           /\ collateral' = collateral
<1>1. /\ escrow.settled /\ resolution.windowOver
      /\ vault.status \in Resolved /\ escrow.initialized
    BY DEF CustodyInv, EscrowMatchesStatus, FinalMeansOver, Resolved, Unfunded
<1>2. vault.status \notin Unfunded /\ vault.status \notin Open
    BY <1>1 DEF Open, Resolved, Unfunded
<1> QED BY <1>1, <1>2
        DEF StepKind, custody, Proceeds, IsFunded, IsDebated, WindowPasses, IsSettled

\* At the start nothing is promised, and every kind of step is a step of the promise.
LEMMA PromiseInit == BaseInit => Promise!Init
BY DEF BaseInit, Holders, NoResolution, Promise!Init
LEMMA PromiseStep == CustodyInv /\ StepKind => [Promise!Next]_(Promise!promised)
<1> SUFFICES ASSUME CustodyInv, StepKind PROVE [Promise!Next]_(Promise!promised)
    OBVIOUS
<1>1. CASE UNCHANGED custody \/ Proceeds(Unfunded) \/ Proceeds(Open)
    BY <1>1 DEF custody, Proceeds, MoneyStays, Promise!promised
<1>2. CASE IsFunded
    BY <1>2, FundingLeaves
    DEF CustodyInv, EscrowMatchesStatus, BeforeSettling, Promise!Next, Promise!Fund
<1>3. CASE IsDebated
    BY <1>3
    DEF IsDebated, MoneyStays, CustodyInv, EscrowMatchesStatus, Open, Promise!promised
<1>4. CASE WindowPasses
    BY <1>4
    DEF WindowPasses, MoneyStays, CustodyInv, CustodyType, ResolutionRecord, Promise!promised
<1>5. CASE IsSettled
    <2>1. PICK outcome \in Outcomes : executeVaultOutcome(outcome)
        BY <1>5 DEF IsSettled
    <2>2. SettleEscrow(outcome) /\ resolution'.outcome = outcome
        BY <2>1 DEF executeVaultOutcome
    <2>3. PICK fee \in 0 .. escrow.lockedAmount :
              /\ outcome = "Invalid" => fee = 0
              /\ escrow.initialized /\ ~escrow.settled
              /\ escrow' = [escrow EXCEPT !.settled = TRUE]
              /\ collateral'["escrow"] = 0
              /\ collateral'["treasury"] = collateral["treasury"] + fee
              /\ collateral'["compensation"] =
                     IF outcome = "False" THEN escrow.lockedAmount - fee ELSE 0
              /\ collateral'["setter"] =
                     IF outcome = "False" THEN 0 ELSE escrow.lockedAmount - fee
        BY <2>2, SettlingPaysOut
    <2>4. escrow'.settled
        BY <2>3 DEF CustodyInv, CustodyType
    <2>5. /\ collateral["escrow"] = escrow.lockedAmount /\ collateral["compensation"] = 0
          /\ escrow.lockedAmount \in 1 .. GrossCollateral
        BY <2>3 DEF CustodyInv, EscrowMatchesStatus, BeforeSettling
    <2>6. fee \in 0 .. GrossCollateral
        BY <2>5, AmountsAreNat
    <2>7. Promise!Settle(outcome, fee)
        BY <2>2, <2>3, <2>4, <2>5, <2>6 DEF Promise!Settle
    <2> QED BY <2>6, <2>7 DEF Promise!Next, Outcomes
<1> QED BY <1>1, <1>2, <1>3, <1>4, <1>5 DEF StepKind

-----------------------------------------------------------------------------
\* RewardPool: requests are paid in order, and whatever is paid or left adds up.

Requests == Seq([to : Accounts, amount : Nat])

PoolRecord ==
    [setup : Nat, reward : Nat, challengeBonds : [1 .. MaxChallenges -> Nat],
     claimable : [Accounts -> Nat], claimableSetup : [Accounts -> Nat],
     heldPov : Nat, heldNative : Nat]

\* A pool that holds what it owes.
Balanced(p) ==
    /\ p \in PoolRecord
    /\ p.heldNative = p.setup + Sum(Accounts, p.claimableSetup)
    /\ p.heldPov = p.reward + Sum(Accounts, p.claimable)
                       + Sum(1 .. MaxChallenges, p.challengeBonds)

\* Requests are numbered from 1; each names an account and an amount.
LEMMA RequestsAreNumbered ==
    ASSUME NEW reqs \in Requests
    PROVE  /\ Len(reqs) \in Nat /\ DOMAIN reqs = 1 .. Len(reqs) /\ IsFiniteSet(DOMAIN reqs)
           /\ \A i \in 1 .. Len(reqs) : reqs[i].to \in Accounts /\ reqs[i].amount \in Nat
<1>1. Len(reqs) \in Nat /\ DOMAIN reqs = 1 .. Len(reqs)
    BY LenProperties DEF Requests
<1>2. ASSUME NEW i \in 1 .. Len(reqs) PROVE reqs[i] \in [to : Accounts, amount : Nat]
    BY ElementOfSeq DEF Requests
<1>3. IsFiniteSet(1 .. Len(reqs))
    BY <1>1, FS_Interval
<1> QED BY <1>1, <1>2, <1>3

\* The requested amounts add up one by one.
LEMMA RequestedAddsUp ==
    ASSUME NEW reqs \in Requests
    PROVE  /\ \A n \in 0 .. Len(reqs) : Requested(reqs, n) \in Nat
           /\ Requested(reqs, 0) = 0
           /\ \A n \in 1 .. Len(reqs) :
                  Requested(reqs, n) = Requested(reqs, n - 1) + reqs[n].amount
<1> DEFINE q == [j \in DOMAIN reqs |-> reqs[j].amount]
<1>1. /\ Len(reqs) \in Nat /\ DOMAIN reqs = 1 .. Len(reqs)
      /\ \A i \in 1 .. Len(reqs) : reqs[i].amount \in Nat
    BY RequestsAreNumbered
<1>2. \A i \in 1 .. Len(reqs) : q[i] = reqs[i].amount /\ q[i] \in Nat
    BY <1>1
<1>3. \A n : Requested(reqs, n) = Sum(1 .. n, q)
    BY DEF Requested
<1> HIDE DEF q
<1>4. ASSUME NEW n \in 0 .. Len(reqs)
      PROVE  Requested(reqs, n) \in Nat
    <2>1. IsFiniteSet(1 .. n)
        BY FS_Interval
    <2>2. 1 .. n \subseteq 1 .. Len(reqs)
        BY <1>1
    <2> QED BY <1>2, <1>3, <2>1, <2>2, SumIsNat
<1>5. Requested(reqs, 0) = 0
    <2>1. 1 .. 0 = {}
        OBVIOUS
    <2> QED BY <1>3, <2>1, SumOfZero
<1>6. ASSUME NEW n \in 1 .. Len(reqs)
      PROVE  Requested(reqs, n) = Requested(reqs, n - 1) + reqs[n].amount
    <2>0. IsFiniteSet(1 .. n)
        BY FS_Interval
    <2>1. /\ 1 .. n \subseteq 1 .. Len(reqs) /\ n \in 1 .. n
          /\ (1 .. n) \ {n} = 1 .. (n - 1) /\ n - 1 \in 0 .. Len(reqs)
        BY <1>1
    <2>2. Sum(1 .. n, q) = q[n] + Sum((1 .. n) \ {n}, q)
        BY <1>2, <2>0, <2>1, SumWithout
    <2>3. Requested(reqs, n - 1) \in Nat /\ q[n] = reqs[n].amount /\ q[n] \in Nat
        BY <1>2, <1>4, <2>1
    <2>4. Requested(reqs, n) = q[n] + Requested(reqs, n - 1)
        BY <1>3, <2>1, <2>2
    <2> QED BY <2>3, <2>4
<1> QED BY <1>4, <1>5, <1>6

\* A request is paid at most its amount.
LEMMA PayoutIsNat ==
    ASSUME NEW reqs \in Requests, NEW i \in 1 .. Len(reqs), NEW balance \in Nat
    PROVE  Payout(reqs, i, balance) \in 0 .. reqs[i].amount
<1>1. Len(reqs) \in Nat /\ reqs[i].amount \in Nat
    BY RequestsAreNumbered
<1>2. i - 1 \in 0 .. Len(reqs)
    BY <1>1
<1>3. Requested(reqs, i - 1) \in Nat
    BY <1>2, RequestedAddsUp
<1> QED BY <1>1, <1>3 DEF Payout

\* What an account is paid is natural, and nothing if it asks for nothing.
LEMMA PaidToIsNat ==
    ASSUME NEW reqs \in Requests, NEW balance \in Nat, NEW a
    PROVE  /\ PaidTo(a, reqs, balance) \in Nat
           /\ (\A i \in 1 .. Len(reqs) : reqs[i].to = a => reqs[i].amount = 0)
                  => PaidTo(a, reqs, balance) = 0
<1> DEFINE g == [i \in DOMAIN reqs |-> Payout(reqs, i, balance)]
           Of == {i \in DOMAIN reqs : reqs[i].to = a}
<1>1. /\ Len(reqs) \in Nat /\ DOMAIN reqs = 1 .. Len(reqs)
      /\ \A i \in 1 .. Len(reqs) : reqs[i].amount \in Nat
    BY RequestsAreNumbered
<1>2. IsFiniteSet(Of) /\ Of \subseteq 1 .. Len(reqs)
    BY <1>1, RequestsAreNumbered, FS_Subset
<1>3. \A i \in Of : g[i] \in 0 .. reqs[i].amount
    BY <1>1, PayoutIsNat
<1>4. PaidTo(a, reqs, balance) = Sum(Of, g)
    BY DEF PaidTo
<1>5. \A i \in Of : g[i] \in Nat /\ (reqs[i].amount = 0 => g[i] = 0)
    BY <1>1, <1>2, <1>3
<1>6. \A i \in Of : reqs[i].to = a /\ i \in 1 .. Len(reqs)
    BY <1>1
<1> HIDE DEF g, Of
<1> QED BY <1>2, <1>4, <1>5, <1>6, SumIsNat, SumOfZero

\* Served in order from a balance, the requests are paid just that balance, or all they
\* ask for and the rest is left.
LEMMA PaidAddsUp ==
    ASSUME NEW reqs \in Requests, NEW balance \in Nat
    PROVE  /\ LeftOver(reqs, balance) \in Nat
           /\ Sum(Accounts, [a \in Accounts |-> PaidTo(a, reqs, balance)])
                  + LeftOver(reqs, balance) = balance
<1> DEFINE g == [i \in DOMAIN reqs |-> Payout(reqs, i, balance)]
           Of(a, n) == {i \in 1 .. n : reqs[i].to = a}
           paid(n) == [a \in Accounts |-> Sum(Of(a, n), g)]
           served(n) == IF Requested(reqs, n) >= balance THEN balance ELSE Requested(reqs, n)
           Right == {n \in Nat : n <= Len(reqs) => Sum(Accounts, paid(n)) = served(n)}
<1>1. /\ Len(reqs) \in Nat /\ DOMAIN reqs = 1 .. Len(reqs)
      /\ \A i \in 1 .. Len(reqs) : reqs[i].to \in Accounts /\ reqs[i].amount \in Nat
    BY RequestsAreNumbered
<1>2. \A i \in 1 .. Len(reqs) : g[i] = Payout(reqs, i, balance) /\ g[i] \in Nat
    <2>1. ASSUME NEW i \in 1 .. Len(reqs) PROVE Payout(reqs, i, balance) \in Nat
        BY <1>1, PayoutIsNat
    <2> QED BY <1>1, <2>1
<1> HIDE DEF g
<1>3. ASSUME NEW n \in 0 .. Len(reqs), NEW a
      PROVE  /\ IsFiniteSet(Of(a, n)) /\ Of(a, n) \subseteq 1 .. Len(reqs)
             /\ Sum(Of(a, n), g) \in Nat
    <2>1. IsFiniteSet(1 .. n) /\ Of(a, n) \in SUBSET (1 .. n)
        BY FS_Interval
    <2>2. IsFiniteSet(Of(a, n)) /\ Of(a, n) \subseteq 1 .. Len(reqs)
        BY <1>1, <2>1, FS_Subset
    <2> QED BY <1>2, <2>2, SumIsNat
<1>4. 0 \in Right
    <2>1. \A a : Of(a, 0) = {}
        OBVIOUS
    <2>2. \A a : Sum(Of(a, 0), g) = 0
        BY <2>1, SumOfZero
    <2>3. Sum(Accounts, paid(0)) = 0
        BY <2>2, SumOfZero
    <2> QED BY <2>3, RequestedAddsUp
<1>5. ASSUME NEW n \in Nat, n \in Right PROVE n + 1 \in Right
    <2> SUFFICES ASSUME n + 1 <= Len(reqs)
                 PROVE  Sum(Accounts, paid(n + 1)) = served(n + 1)
        OBVIOUS
    <2> DEFINE i == n + 1
               b == reqs[i].to
    <2>1. i \in 1 .. Len(reqs) /\ n \in 0 .. Len(reqs) /\ i \in 0 .. Len(reqs) /\ i - 1 = n
        BY <1>1
    <2>2. b \in Accounts
        BY <1>1, <2>1
    <2>3. \A a \in Accounts \ {b} : Of(a, i) = Of(a, n)
        <3>1. 1 .. i = (1 .. n) \cup {i}
            BY <2>1
        <3> QED BY <3>1
    <2>4. Sum(Of(b, i), g) = g[i] + Sum(Of(b, n), g)
        <3>1. i \in Of(b, i) /\ Of(b, i) \ {i} = Of(b, n)
            BY <2>1
        <3>2. IsFiniteSet(Of(b, i)) /\ \A j \in Of(b, i) : g[j] \in Nat
            BY <1>2, <1>3, <2>1
        <3> HIDE DEF Of, b, i
        <3>3. Sum(Of(b, i), g) = g[i] + Sum(Of(b, i) \ {i}, g)
            BY <3>1, <3>2, SumWithout
        <3> QED BY <3>1, <3>3
    <2>5. /\ \A a \in Accounts : paid(n)[a] = Sum(Of(a, n), g) /\ paid(n)[a] \in Nat
          /\ \A a \in Accounts : paid(i)[a] = Sum(Of(a, i), g) /\ paid(i)[a] \in Nat
        BY <1>3, <2>1
    <2>6. \A a \in Accounts \ {b} : paid(i)[a] = paid(n)[a]
        BY <2>3, <2>5
    <2> HIDE DEF paid, Of
    <2>7. Sum(Accounts, paid(i)) = Sum(Accounts, paid(n)) + paid(i)[b] - paid(n)[b]
        BY <2>2, <2>5, <2>6, AccountsAreFinite, SumOfChange
    <2>8. /\ Sum(Accounts, paid(n)) = served(n)
          /\ paid(i)[b] = g[i] + paid(n)[b] /\ paid(n)[b] \in Nat /\ g[i] \in Nat
        BY <1>1, <1>2, <1>5, <2>1, <2>2, <2>4, <2>5
    <2>9. /\ Requested(reqs, i) = Requested(reqs, n) + reqs[i].amount
          /\ Requested(reqs, n) \in Nat /\ reqs[i].amount \in Nat
          /\ g[i] = IF reqs[i].amount <= (IF Requested(reqs, n) >= balance THEN 0
                                         ELSE balance - Requested(reqs, n))
                    THEN reqs[i].amount
                    ELSE (IF Requested(reqs, n) >= balance THEN 0
                          ELSE balance - Requested(reqs, n))
        BY <1>1, <1>2, <2>1, RequestedAddsUp DEF Payout
    <2> HIDE DEF i, b
    <2>10. Sum(Accounts, paid(i)) = served(n) + g[i] /\ served(n) \in Nat
        BY <2>7, <2>8, <2>9
    <2>11. served(n) + g[i] = served(i)
        BY <2>9
    <2> QED BY <2>10, <2>11 DEF i
<1> HIDE DEF Right
<1>6. Len(reqs) \in Right
    BY <1>1, <1>4, <1>5, NumbersFrom0
<1>7. Sum(Accounts, paid(Len(reqs))) = served(Len(reqs))
    BY <1>1, <1>6 DEF Right
<1>8. paid(Len(reqs)) = [a \in Accounts |-> PaidTo(a, reqs, balance)]
    BY <1>1 DEF PaidTo, g
<1>9. Requested(reqs, Len(reqs)) \in Nat
    BY <1>1, RequestedAddsUp
<1> HIDE DEF paid
<1> QED BY <1>7, <1>8, <1>9 DEF LeftOver

\* The totals of a balanced pool are natural numbers.
LEMMA TotalsAreNat ==
    ASSUME NEW p \in PoolRecord
    PROVE  /\ Sum(Accounts, p.claimable) \in Nat
           /\ Sum(Accounts, p.claimableSetup) \in Nat
           /\ Sum(1 .. MaxChallenges, p.challengeBonds) \in Nat
<1>1. /\ \A a \in Accounts : p.claimable[a] \in Nat /\ p.claimableSetup[a] \in Nat
      /\ \A i \in 1 .. MaxChallenges : p.challengeBonds[i] \in Nat
    BY DEF PoolRecord
<1>2. IsFiniteSet(1 .. MaxChallenges)
    BY BoundsAreNat, FS_Interval
<1> QED BY <1>1, <1>2, AccountsAreFinite, SumIsNat

\* Deposits are added to what the pool holds.
LEMMA CollectingBalances ==
    ASSUME NEW p, Balanced(p), NEW amount \in Nat
    PROVE  /\ Balanced(collectSetupDeposit(p, amount))
           /\ Balanced(collectResolutionRewardDeposit(p, amount))
<1>1. /\ p \in PoolRecord
      /\ p.heldNative = p.setup + Sum(Accounts, p.claimableSetup)
      /\ p.heldPov = p.reward + Sum(Accounts, p.claimable)
                         + Sum(1 .. MaxChallenges, p.challengeBonds)
    BY DEF Balanced
<1>0. /\ p.setup \in Nat /\ p.reward \in Nat
      /\ p.heldPov \in Nat /\ p.heldNative \in Nat
    BY <1>1 DEF PoolRecord
<1>2. /\ Sum(Accounts, p.claimable) \in Nat
      /\ Sum(Accounts, p.claimableSetup) \in Nat
      /\ Sum(1 .. MaxChallenges, p.challengeBonds) \in Nat
    BY <1>1, TotalsAreNat
<1>3. Balanced(collectSetupDeposit(p, amount))
    <2> DEFINE q == collectSetupDeposit(p, amount)
    <2>0. p.setup + amount \in Nat /\ p.heldNative + amount \in Nat
        BY <1>0
    <2>1. /\ q \in PoolRecord
          /\ q.setup = p.setup + amount
          /\ q.heldNative = p.heldNative + amount
          /\ q.reward = p.reward /\ q.challengeBonds = p.challengeBonds
          /\ q.claimable = p.claimable /\ q.claimableSetup = p.claimableSetup
          /\ q.heldPov = p.heldPov
        BY <1>1, <2>0 DEF PoolRecord, collectSetupDeposit
    <2> HIDE DEF q
    <2>2. q.heldNative = q.setup + Sum(Accounts, q.claimableSetup)
        BY <1>1, <1>2, <1>0, <2>1
    <2>3. q.heldPov = q.reward + Sum(Accounts, q.claimable)
                          + Sum(1 .. MaxChallenges, q.challengeBonds)
        BY <1>1, <1>2, <1>0, <2>1
    <2>4. q \in PoolRecord
        BY <2>1
    <2>5. Balanced(q)
        BY <2>2, <2>3, <2>4, Zenon DEF Balanced
    <2> QED BY <2>5 DEF q
<1>4. Balanced(collectResolutionRewardDeposit(p, amount))
    <2> DEFINE q == collectResolutionRewardDeposit(p, amount)
    <2>0. p.reward + amount \in Nat /\ p.heldPov + amount \in Nat
        BY <1>0
    <2>1. /\ q \in PoolRecord
          /\ q.reward = p.reward + amount
          /\ q.heldPov = p.heldPov + amount
          /\ q.setup = p.setup /\ q.challengeBonds = p.challengeBonds
          /\ q.claimable = p.claimable /\ q.claimableSetup = p.claimableSetup
          /\ q.heldNative = p.heldNative
        BY <1>1, <2>0 DEF PoolRecord, collectResolutionRewardDeposit
    <2> HIDE DEF q
    <2>2. q.heldNative = q.setup + Sum(Accounts, q.claimableSetup)
        BY <1>1, <1>2, <1>0, <2>1
    <2>3. q.heldPov = q.reward + Sum(Accounts, q.claimable)
                          + Sum(1 .. MaxChallenges, q.challengeBonds)
        BY <1>1, <1>2, <1>0, <2>1
    <2>4. q \in PoolRecord
        BY <2>1
    <2>5. Balanced(q)
        BY <2>2, <2>3, <2>4, Zenon DEF Balanced
    <2> QED BY <2>5 DEF q
<1> QED BY <1>3, <1>4

\* What is left of a deposit is there to be sent away.
LEMMA SweepingBalances ==
    ASSUME NEW p, Balanced(p)
    PROVE  Balanced(emptySetup(p)) /\ Balanced(emptyReward(p))
<1>1. /\ p \in PoolRecord
      /\ p.heldNative = p.setup + Sum(Accounts, p.claimableSetup)
      /\ p.heldPov = p.reward + Sum(Accounts, p.claimable)
                         + Sum(1 .. MaxChallenges, p.challengeBonds)
    BY DEF Balanced
<1>0. /\ p.setup \in Nat /\ p.reward \in Nat
      /\ p.heldPov \in Nat /\ p.heldNative \in Nat
    BY <1>1 DEF PoolRecord
<1>2. /\ Sum(Accounts, p.claimable) \in Nat
      /\ Sum(Accounts, p.claimableSetup) \in Nat
      /\ Sum(1 .. MaxChallenges, p.challengeBonds) \in Nat
    BY <1>1, TotalsAreNat
<1>3. Balanced(emptySetup(p))
    <2> DEFINE q == emptySetup(p)
    <2>0. p.heldNative - p.setup \in Nat
        BY <1>1, <1>2, <1>0
    <2>1. /\ q \in PoolRecord
          /\ q.setup = 0
          /\ q.heldNative = p.heldNative - p.setup
          /\ q.reward = p.reward /\ q.challengeBonds = p.challengeBonds
          /\ q.claimable = p.claimable /\ q.claimableSetup = p.claimableSetup
          /\ q.heldPov = p.heldPov
        BY <1>1, <2>0 DEF PoolRecord, emptySetup
    <2> HIDE DEF q
    <2>2. /\ q.heldNative = q.setup + Sum(Accounts, q.claimableSetup)
          /\ q.heldPov = q.reward + Sum(Accounts, q.claimable)
                             + Sum(1 .. MaxChallenges, q.challengeBonds)
        BY <1>1, <1>2, <1>0, <2>1
    <2>3. q \in PoolRecord
        BY <2>1
    <2>4. Balanced(q)
        BY <2>2, <2>3, Zenon DEF Balanced
    <2> QED BY <2>4 DEF q
<1>4. Balanced(emptyReward(p))
    <2> DEFINE q == emptyReward(p)
    <2>0. p.heldPov - p.reward \in Nat
        BY <1>1, <1>2, <1>0
    <2>1. /\ q \in PoolRecord
          /\ q.reward = 0
          /\ q.heldPov = p.heldPov - p.reward
          /\ q.setup = p.setup /\ q.challengeBonds = p.challengeBonds
          /\ q.claimable = p.claimable /\ q.claimableSetup = p.claimableSetup
          /\ q.heldNative = p.heldNative
        BY <1>1, <2>0 DEF PoolRecord, emptyReward
    <2> HIDE DEF q
    <2>2. /\ q.heldNative = q.setup + Sum(Accounts, q.claimableSetup)
          /\ q.heldPov = q.reward + Sum(Accounts, q.claimable)
                             + Sum(1 .. MaxChallenges, q.challengeBonds)
        BY <1>1, <1>2, <1>0, <2>1
    <2>3. q \in PoolRecord
        BY <2>1
    <2>4. Balanced(q)
        BY <2>2, <2>3, Zenon DEF Balanced
    <2> QED BY <2>4 DEF q
<1> QED BY <1>3, <1>4

\* So are the bonds of challenges.
LEMMA ChallengeBondsBalance ==
    ASSUME NEW p, Balanced(p), NEW id \in 1 .. MaxChallenges, NEW amount \in Nat
    PROVE  /\ Balanced(collectChallengeBond(p, id, amount))
           /\ p.challengeBonds[id] >= amount => Balanced(payChallengeBond(p, id, amount))
<1> DEFINE Ids == 1 .. MaxChallenges
           total(f) == Sum(Ids, f)
<1>1. /\ p \in PoolRecord /\ p.challengeBonds \in [Ids -> Nat]
      /\ p.setup \in Nat /\ p.reward \in Nat /\ p.heldPov \in Nat /\ p.heldNative \in Nat
      /\ p.heldNative = p.setup + Sum(Accounts, p.claimableSetup)
      /\ p.heldPov = p.reward + Sum(Accounts, p.claimable)
                         + total(p.challengeBonds)
    BY DEF Balanced, PoolRecord
<1>2. /\ Sum(Accounts, p.claimable) \in Nat
      /\ Sum(Accounts, p.claimableSetup) \in Nat
      /\ total(p.challengeBonds) \in Nat
    BY <1>1, TotalsAreNat
<1>3. IsFiniteSet(Ids)
    BY BoundsAreNat, FS_Interval
<1>b. p.challengeBonds[id] \in Nat
    BY <1>1
<1>a. id \in Ids
    OBVIOUS
<1> HIDE DEF Ids
<1>4. ASSUME NEW f \in [Ids -> Nat], NEW n \in Nat,
             f = [p.challengeBonds EXCEPT ![id] = n]
      PROVE  /\ total(f)
                    = total(p.challengeBonds) + n - p.challengeBonds[id]
             /\ p.challengeBonds[id] <= total(p.challengeBonds)
    <2> DEFINE held == p.challengeBonds
    <2>1. /\ \A i \in Ids : held[i] \in Nat /\ f[i] \in Nat
          /\ \A i \in (Ids) \ {id} : f[i] = held[i]
          /\ f[id] = n
        BY <1>1, <1>4, <1>a
    <2> HIDE DEF held
    <2>2. total(f) = total(held) + f[id] - held[id]
        BY <1>3, <1>a, <2>1, SumOfChange
    <2>3. held[id] <= total(held)
        BY <1>3, <1>a, <2>1, SumBounds
    <2> QED BY <2>1, <2>2, <2>3 DEF held
<1> HIDE DEF total
<1>5. Balanced(collectChallengeBond(p, id, amount))
    <2> DEFINE q == collectChallengeBond(p, id, amount)
               n == p.challengeBonds[id] + amount
    <2>1. n \in Nat /\ p.challengeBonds[id] \in Nat /\ p.heldPov + amount \in Nat
        BY <1>1, <1>b
    <2>2. /\ q \in PoolRecord /\ q.challengeBonds = [p.challengeBonds EXCEPT ![id] = n]
          /\ q.challengeBonds \in [Ids -> Nat]
          /\ q.setup = p.setup /\ q.reward = p.reward
          /\ q.claimable = p.claimable /\ q.claimableSetup = p.claimableSetup
          /\ q.heldPov = p.heldPov + amount /\ q.heldNative = p.heldNative
        BY <1>1, <2>1, <1>a DEF Ids, PoolRecord, collectChallengeBond
    <2> HIDE DEF q
    <2>3. total(q.challengeBonds)
              = total(p.challengeBonds) + n - p.challengeBonds[id]
        BY <1>4, <2>1, <2>2
    <2>4. q.heldPov = q.reward + Sum(Accounts, q.claimable)
                          + total(q.challengeBonds)
        BY <1>1, <1>2, <2>1, <2>2, <2>3
    <2>5. q \in PoolRecord /\ q.heldNative = q.setup + Sum(Accounts, q.claimableSetup)
        BY <1>1, <2>2
    <2>6. Balanced(q)
        BY <2>4, <2>5, Zenon DEF Balanced, total, Ids
    <2> QED BY <2>6 DEF q
<1>6. ASSUME p.challengeBonds[id] >= amount
      PROVE  Balanced(payChallengeBond(p, id, amount))
    <2> DEFINE q == payChallengeBond(p, id, amount)
               n == p.challengeBonds[id] - amount
    <2>0. p.challengeBonds[id] <= total(p.challengeBonds)
        BY <1>1, <1>4
    <2>1. /\ n \in Nat /\ p.challengeBonds[id] \in Nat
          /\ p.heldPov - amount \in Nat
        BY <1>1, <1>2, <1>b, <1>6, <2>0
    <2>2. /\ q \in PoolRecord /\ q.challengeBonds = [p.challengeBonds EXCEPT ![id] = n]
          /\ q.challengeBonds \in [Ids -> Nat]
          /\ q.setup = p.setup /\ q.reward = p.reward
          /\ q.claimable = p.claimable /\ q.claimableSetup = p.claimableSetup
          /\ q.heldPov = p.heldPov - amount /\ q.heldNative = p.heldNative
        BY <1>1, <2>1, <1>a DEF Ids, PoolRecord, payChallengeBond
    <2> HIDE DEF q
    <2>3. total(q.challengeBonds)
              = total(p.challengeBonds) + n - p.challengeBonds[id]
        BY <1>4, <2>1, <2>2
    <2>4. q.heldPov = q.reward + Sum(Accounts, q.claimable)
                          + total(q.challengeBonds)
        BY <1>1, <1>2, <2>1, <2>2, <2>3
    <2>5. q \in PoolRecord /\ q.heldNative = q.setup + Sum(Accounts, q.claimableSetup)
        BY <1>1, <2>2
    <2>6. Balanced(q)
        BY <2>4, <2>5, Zenon DEF Balanced, total, Ids
    <2> QED BY <2>6 DEF q
<1> QED BY <1>5, <1>6

\* An allocation moves from the deposit to the accounts what it takes from the deposit.
LEMMA AllocationBalances ==
    ASSUME NEW p, Balanced(p), NEW reqs \in Requests
    PROVE  /\ Balanced(allocateSetupRewards(p, reqs))
           /\ Balanced(allocateResolutionRewards(p, reqs))
<1> DEFINE paid(balance) == [a \in Accounts |-> PaidTo(a, reqs, balance)]
<1>1. /\ p \in PoolRecord /\ p.setup \in Nat /\ p.reward \in Nat
      /\ p.heldPov \in Nat /\ p.heldNative \in Nat
      /\ p.heldNative = p.setup + Sum(Accounts, p.claimableSetup)
      /\ p.heldPov = p.reward + Sum(Accounts, p.claimable)
                         + Sum(1 .. MaxChallenges, p.challengeBonds)
    BY DEF Balanced, PoolRecord
<1>2. /\ Sum(Accounts, p.claimable) \in Nat
      /\ Sum(Accounts, p.claimableSetup) \in Nat
      /\ Sum(1 .. MaxChallenges, p.challengeBonds) \in Nat
    BY <1>1, TotalsAreNat
<1>3. ASSUME NEW balance \in Nat, NEW f \in [Accounts -> Nat],
             NEW g, g = [a \in Accounts |-> f[a] + PaidTo(a, reqs, balance)]
      PROVE  /\ g \in [Accounts -> Nat] /\ LeftOver(reqs, balance) \in Nat
             /\ Sum(Accounts, g) + LeftOver(reqs, balance) = Sum(Accounts, f) + balance
    <2>1. \A a \in Accounts : paid(balance)[a] = PaidTo(a, reqs, balance)
                              /\ paid(balance)[a] \in Nat
        BY PaidToIsNat
    <2>2. \A a \in Accounts : f[a] \in Nat /\ g[a] = f[a] + paid(balance)[a]
        BY <1>3, <2>1
    <2>3. g \in [Accounts -> Nat]
        BY <1>3, <2>1, <2>2
    <2>4. Sum(Accounts, g) = Sum(Accounts, f) + Sum(Accounts, paid(balance))
        <3> HIDE DEF paid
        <3> QED BY <2>1, <2>2, AccountsAreFinite, SumOfPlus
    <2>5. /\ LeftOver(reqs, balance) \in Nat
          /\ Sum(Accounts, paid(balance)) + LeftOver(reqs, balance) = balance
        BY PaidAddsUp
    <2>6. Sum(Accounts, f) \in Nat /\ Sum(Accounts, paid(balance)) \in Nat
        <3> HIDE DEF paid
        <3> QED BY <2>1, <2>2, AccountsAreFinite, SumIsNat
    <2> HIDE DEF paid
    <2> QED BY <2>3, <2>4, <2>5, <2>6
<1>4. Balanced(allocateSetupRewards(p, reqs))
    <2> DEFINE after == [a \in Accounts |-> p.claimableSetup[a] + PaidTo(a, reqs, p.setup)]
               q == allocateSetupRewards(p, reqs)
    <2>2. p.claimableSetup \in [Accounts -> Nat]
        BY <1>1 DEF PoolRecord
    <2>3. /\ after \in [Accounts -> Nat] /\ LeftOver(reqs, p.setup) \in Nat
          /\ Sum(Accounts, after) + LeftOver(reqs, p.setup)
                 = Sum(Accounts, p.claimableSetup) + p.setup
        BY <1>1, <1>3, <2>2
    <2>4. Sum(Accounts, after) \in Nat
        BY <2>3, AccountsAreFinite, SumIsNat
    <2>5. /\ q = [p EXCEPT !.setup = LeftOver(reqs, p.setup), !.claimableSetup = after]
          /\ q.claimableSetup = after
        BY <1>1 DEF allocateSetupRewards, PoolRecord
    <2> HIDE DEF after
    <2>6. /\ q \in PoolRecord /\ q.setup = LeftOver(reqs, p.setup)
          /\ q.reward = p.reward /\ q.challengeBonds = p.challengeBonds
          /\ q.claimable = p.claimable
          /\ q.heldPov = p.heldPov /\ q.heldNative = p.heldNative
        BY <1>1, <2>3, <2>5 DEF PoolRecord
    <2> HIDE DEF q
    <2>7. /\ q.heldNative = q.setup + Sum(Accounts, q.claimableSetup)
          /\ q.heldPov = q.reward + Sum(Accounts, q.claimable)
                             + Sum(1 .. MaxChallenges, q.challengeBonds)
        BY <1>1, <1>2, <2>3, <2>4, <2>5, <2>6
    <2>8. q \in PoolRecord
        BY <2>6
    <2>9. Balanced(q)
        BY <2>7, <2>8, Zenon DEF Balanced
    <2> QED BY <2>9 DEF q
<1>5. Balanced(allocateResolutionRewards(p, reqs))
    <2> DEFINE after == [a \in Accounts |-> p.claimable[a] + PaidTo(a, reqs, p.reward)]
               q == allocateResolutionRewards(p, reqs)
    <2>2. p.claimable \in [Accounts -> Nat]
        BY <1>1 DEF PoolRecord
    <2>3. /\ after \in [Accounts -> Nat] /\ LeftOver(reqs, p.reward) \in Nat
          /\ Sum(Accounts, after) + LeftOver(reqs, p.reward)
                 = Sum(Accounts, p.claimable) + p.reward
        BY <1>1, <1>3, <2>2
    <2>4. Sum(Accounts, after) \in Nat
        BY <2>3, AccountsAreFinite, SumIsNat
    <2>5. /\ q = [p EXCEPT !.reward = LeftOver(reqs, p.reward), !.claimable = after]
          /\ q.claimable = after
        BY <1>1 DEF allocateResolutionRewards, PoolRecord
    <2> HIDE DEF after
    <2>6. /\ q \in PoolRecord /\ q.reward = LeftOver(reqs, p.reward)
          /\ q.setup = p.setup /\ q.challengeBonds = p.challengeBonds
          /\ q.claimableSetup = p.claimableSetup
          /\ q.heldPov = p.heldPov /\ q.heldNative = p.heldNative
        BY <1>1, <2>3, <2>5 DEF PoolRecord
    <2> HIDE DEF q
    <2>7. /\ q.heldNative = q.setup + Sum(Accounts, q.claimableSetup)
          /\ q.heldPov = q.reward + Sum(Accounts, q.claimable)
                             + Sum(1 .. MaxChallenges, q.challengeBonds)
        BY <1>1, <1>2, <2>3, <2>4, <2>5, <2>6
    <2>8. q \in PoolRecord
        BY <2>6
    <2>9. Balanced(q)
        BY <2>7, <2>8, Zenon DEF Balanced
    <2> QED BY <2>9 DEF q
<1> QED BY <1>4, <1>5

\* A claim takes from the pool what it takes from the account.
LEMMA ClaimBalances ==
    ASSUME NEW p, Balanced(p), NEW a \in Accounts,
           NEW pov \in 0 .. p.claimable[a], NEW native \in 0 .. p.claimableSetup[a]
    PROVE  Balanced([p EXCEPT !.claimable[a] = @ - pov, !.heldPov = @ - pov,
                              !.claimableSetup[a] = @ - native, !.heldNative = @ - native])
<1>1. /\ p \in PoolRecord /\ p.setup \in Nat /\ p.reward \in Nat
      /\ p.heldPov \in Nat /\ p.heldNative \in Nat
      /\ p.heldNative = p.setup + Sum(Accounts, p.claimableSetup)
      /\ p.heldPov = p.reward + Sum(Accounts, p.claimable)
                         + Sum(1 .. MaxChallenges, p.challengeBonds)
    BY DEF Balanced, PoolRecord
<1>2. /\ Sum(Accounts, p.claimable) \in Nat
      /\ Sum(Accounts, p.claimableSetup) \in Nat
      /\ Sum(1 .. MaxChallenges, p.challengeBonds) \in Nat
    BY <1>1, TotalsAreNat
<1>3. ASSUME NEW f \in [Accounts -> Nat], NEW amount \in 0 .. f[a],
             NEW g, g = [f EXCEPT ![a] = @ - amount]
      PROVE  /\ g \in [Accounts -> Nat] /\ amount \in Nat /\ amount <= Sum(Accounts, f)
             /\ Sum(Accounts, g) = Sum(Accounts, f) - amount
    <2>1. /\ \A b \in Accounts : f[b] \in Nat /\ g[b] \in Nat
          /\ \A b \in Accounts \ {a} : g[b] = f[b]
          /\ g[a] = f[a] - amount /\ g \in [Accounts -> Nat]
        BY <1>3
    <2>2. Sum(Accounts, g) = Sum(Accounts, f) + g[a] - f[a] /\ f[a] <= Sum(Accounts, f)
        BY <2>1, AccountsAreFinite, SumOfChange, SumBounds
    <2>3. Sum(Accounts, f) \in Nat
        BY <2>1, AccountsAreFinite, SumIsNat
    <2> QED BY <1>3, <2>1, <2>2, <2>3
<1> DEFINE f == [p.claimable EXCEPT ![a] = @ - pov]
           g == [p.claimableSetup EXCEPT ![a] = @ - native]
<1>4. p.claimable \in [Accounts -> Nat] /\ p.claimableSetup \in [Accounts -> Nat]
    BY <1>1 DEF PoolRecord
<1>5. /\ f \in [Accounts -> Nat] /\ pov \in Nat /\ pov <= Sum(Accounts, p.claimable)
      /\ Sum(Accounts, f) = Sum(Accounts, p.claimable) - pov
    BY <1>3, <1>4
<1>6. /\ g \in [Accounts -> Nat] /\ native \in Nat
      /\ native <= Sum(Accounts, p.claimableSetup)
      /\ Sum(Accounts, g) = Sum(Accounts, p.claimableSetup) - native
    BY <1>3, <1>4
<1> DEFINE q == [p EXCEPT !.claimable[a] = @ - pov, !.heldPov = @ - pov,
                          !.claimableSetup[a] = @ - native, !.heldNative = @ - native]
<1>7. /\ q = [p EXCEPT !.claimable = f, !.heldPov = @ - pov,
                       !.claimableSetup = g, !.heldNative = @ - native]
      /\ q.claimable = f /\ q.claimableSetup = g
    BY <1>1 DEF PoolRecord
<1> HIDE DEF f, g
<1> DEFINE owed == Sum(Accounts, p.claimable)
           owedSetup == Sum(Accounts, p.claimableSetup)
           held == Sum(1 .. MaxChallenges, p.challengeBonds)
<1>8. /\ p.heldNative = p.setup + owedSetup /\ p.heldPov = p.reward + owed + held
      /\ owed \in Nat /\ owedSetup \in Nat /\ held \in Nat
      /\ pov \in Nat /\ native \in Nat /\ pov <= owed /\ native <= owedSetup
      /\ Sum(Accounts, f) = owed - pov /\ Sum(Accounts, g) = owedSetup - native
    BY <1>1, <1>2, <1>5, <1>6
<1> HIDE DEF owed, owedSetup, held
<1>a. p.setup \in Nat /\ p.reward \in Nat /\ p.heldPov \in Nat /\ p.heldNative \in Nat
    BY <1>1
<1>9. p.heldPov - pov \in Nat /\ p.heldNative - native \in Nat
    BY <1>8, <1>a
<1>10. /\ q \in PoolRecord /\ q.setup = p.setup /\ q.reward = p.reward
       /\ q.claimable = f /\ q.claimableSetup = g
       /\ q.challengeBonds = p.challengeBonds
       /\ q.heldPov = p.heldPov - pov /\ q.heldNative = p.heldNative - native
    BY <1>1, <1>5, <1>6, <1>7, <1>9 DEF PoolRecord
<1> HIDE DEF q
<1>11. /\ q.heldNative = q.setup + (owedSetup - native)
       /\ q.heldPov = q.reward + (owed - pov) + held
    BY <1>8, <1>a, <1>10
<1>12. /\ q \in PoolRecord
       /\ q.heldNative = q.setup + Sum(Accounts, q.claimableSetup)
       /\ q.heldPov = q.reward + Sum(Accounts, q.claimable)
                          + Sum(1 .. MaxChallenges, q.challengeBonds)
    BY <1>8, <1>10, <1>11 DEF held
<1>13. Balanced(q)
    BY <1>12, Zenon DEF Balanced
<1> QED BY <1>13 DEF q

-----------------------------------------------------------------------------
\* AgentStaking: whatever is locked, slashed and released, the bonds of an account are
\* covered by its stake.

BondRecords == [Accounts -> [Roles -> [active : BOOLEAN, left : Nat]]]

\* What is locked in the bonds b of an account.
LockedIn(b, a) == Sum(Roles, [r \in Roles |-> b[a][r].left])

\* Typed bonds, covered by the stakes.
Covered(b, s) ==
    /\ b \in BondRecords
    /\ s \in [Accounts -> Nat]
    /\ \A a \in Accounts : LockedIn(b, a) <= s[a]

LEMMA RolesAreFinite == IsFiniteSet(Roles)
<1>1. IsFiniteSet({"RuleMaker"})
    BY FS_Singleton
<1>2. IsFiniteSet({"RuleMaker"} \cup {"RuleVerifier"})
    BY <1>1, FS_AddElement
<1>3. IsFiniteSet(({"RuleMaker"} \cup {"RuleVerifier"}) \cup {"ResolutionValidator"})
    BY <1>2, FS_AddElement
<1>4. IsFiniteSet((({"RuleMaker"} \cup {"RuleVerifier"}) \cup {"ResolutionValidator"})
                  \cup {"ResolutionAuditor"})
    BY <1>3, FS_AddElement
<1>5. Roles = (({"RuleMaker"} \cup {"RuleVerifier"}) \cup {"ResolutionValidator"})
              \cup {"ResolutionAuditor"}
    BY DEF Roles
<1> QED BY <1>4, <1>5

\* What is locked is an amount, and at least what any one bond has left.
LEMMA LockedIsNat ==
    ASSUME NEW b \in BondRecords, NEW a \in Accounts
    PROVE  /\ LockedIn(b, a) \in Nat
           /\ \A r \in Roles : b[a][r].left \in Nat /\ b[a][r].left <= LockedIn(b, a)
<1> DEFINE f == [r \in Roles |-> b[a][r].left]
<1>1. \A r \in Roles : b[a][r].left \in Nat /\ f[r] = b[a][r].left
    BY DEF BondRecords
<1> HIDE DEF f
<1>2. Sum(Roles, f) \in Nat
    BY <1>1, RolesAreFinite, SumIsNat
<1>3. ASSUME NEW r \in Roles PROVE f[r] <= Sum(Roles, f)
    BY <1>1, RolesAreFinite, SumBounds
<1> QED BY <1>1, <1>2, <1>3 DEF f, LockedIn

\* When the bond of one role changes, what is locked changes by as much.
LEMMA LockedChanges ==
    ASSUME NEW b \in BondRecords, NEW c \in BondRecords, NEW a \in Accounts, NEW r \in Roles,
           \A q \in Roles \ {r} : c[a][q].left = b[a][q].left
    PROVE  LockedIn(c, a) = LockedIn(b, a) + c[a][r].left - b[a][r].left
<1> DEFINE f == [q \in Roles |-> b[a][q].left]
           g == [q \in Roles |-> c[a][q].left]
<1>1. /\ \A q \in Roles : f[q] = b[a][q].left /\ f[q] \in Nat
      /\ \A q \in Roles : g[q] = c[a][q].left /\ g[q] \in Nat
    BY DEF BondRecords
<1>2. \A q \in Roles \ {r} : g[q] = f[q]
    BY <1>1
<1> HIDE DEF f, g
<1>3. Sum(Roles, g) = Sum(Roles, f) + g[r] - f[r]
    BY <1>1, <1>2, RolesAreFinite, SumOfChange
<1> QED BY <1>1, <1>3 DEF f, g, LockedIn

\* Bonds that are no greater lock no more.
LEMMA LockedShrinks ==
    ASSUME NEW b \in BondRecords, NEW c \in BondRecords, NEW a \in Accounts,
           \A r \in Roles : c[a][r].left <= b[a][r].left
    PROVE  LockedIn(c, a) <= LockedIn(b, a)
<1> DEFINE f == [r \in Roles |-> b[a][r].left]
           g == [r \in Roles |-> c[a][r].left]
           id == [r \in Roles |-> r]
<1>1. /\ \A r \in Roles : f[r] = b[a][r].left /\ f[r] \in Nat
      /\ \A r \in Roles : g[r] = c[a][r].left /\ g[r] \in Nat
    BY DEF BondRecords
<1>2. id \in Injection(Roles, Roles) /\ \A r \in Roles : id[r] = r
    BY DEF Injection, IsInjective
<1>3. \A r \in Roles : g[r] <= f[id[r]]
    BY <1>1, <1>2
<1> HIDE DEF f, g, id
<1>4. Sum(Roles, g) <= Sum(Roles, f)
    BY <1>1, <1>2, <1>3, RolesAreFinite, SumOfFewer
<1> QED BY <1>4 DEF f, g, LockedIn

\* Locking a bond for each member of two lists, an account in one of them at most.
LEMMA LockingIsCovered ==
    ASSUME fees \in FeeSchedules, Covered(bonds, stake),
           NEW firsts, NEW seconds, NEW r \in Roles, NEW q \in Roles, r # q,
           ToSet(firsts) \cap ToSet(seconds) = {},
           \A a \in Accounts, p \in Roles : ~bonds[a][p].active => bonds[a][p].left = 0,
           LockBonds(firsts, r, seconds, q)
    PROVE  /\ Covered(bonds', stake')
           /\ \A a \in Accounts, p \in Roles :
                  bonds'[a][p] = IF \/ p = r /\ a \in ToSet(firsts)
                                    \/ p = q /\ a \in ToSet(seconds)
                                 THEN [active |-> TRUE, left |-> fees.bond[p]]
                                 ELSE bonds[a][p]
           /\ \A a \in Accounts, p \in Roles :
                  (p = r /\ a \in ToSet(firsts)) \/ (p = q /\ a \in ToSet(seconds))
                  => MayLock(a, p)
<1> DEFINE locks(a, p) == \/ p = r /\ a \in ToSet(firsts)
                          \/ p = q /\ a \in ToSet(seconds)
<1>0. /\ bonds \in BondRecords /\ stake \in [Accounts -> Nat] /\ stake' = stake
      /\ \A p \in Roles : fees.bond[p] \in Nat
      /\ \A a \in Accounts : LockedIn(bonds, a) <= stake[a]
    BY FeesAreSchedules DEF Covered, LockBonds, FeeSchedule
<1>1. /\ \A a \in Accounts, p \in Roles : locks(a, p) => MayLock(a, p)
      /\ bonds' = [a \in Accounts |-> [p \in Roles |->
                      IF locks(a, p) THEN [active |-> TRUE, left |-> fees.bond[p]]
                      ELSE bonds[a][p]]]
    <2> DEFINE m(p) == IF p = r THEN ToSet(firsts) ELSE IF p = q THEN ToSet(seconds) ELSE {}
    <2>1. /\ \A a \in Accounts, p \in Roles : a \in m(p) => MayLock(a, p)
          /\ bonds' = [a \in Accounts |-> [p \in Roles |->
                          IF a \in m(p) THEN [active |-> TRUE, left |-> fees.bond[p]]
                          ELSE bonds[a][p]]]
        BY DEF LockBonds
    <2>2. ASSUME NEW a, NEW p PROVE a \in m(p) <=> locks(a, p)
        <3>1. CASE p = r
            BY <3>1
        <3>2. CASE p = q
            BY <3>2
        <3>3. CASE p # r /\ p # q
            BY <3>3
        <3> QED BY <3>1, <3>2, <3>3
    <2> HIDE DEF m, locks
    <2> QED BY <2>1, <2>2
<1>2. bonds' \in BondRecords
    BY <1>0, <1>1 DEF BondRecords
<1>3. \A a \in Accounts, p \in Roles :
          bonds'[a][p] = IF locks(a, p) THEN [active |-> TRUE, left |-> fees.bond[p]]
                         ELSE bonds[a][p]
    BY <1>1
<1>4. ASSUME NEW a \in Accounts PROVE LockedIn(bonds', a) <= stake[a]
    <2>1. CASE \E p \in Roles : locks(a, p)
        <3>1. PICK p \in Roles : locks(a, p)
            BY <2>1
        <3>2. /\ \A s \in Roles \ {p} : bonds'[a][s].left = bonds[a][s].left
              /\ bonds'[a][p].left = fees.bond[p] /\ bonds[a][p].left = 0
            BY <1>1, <1>3, <3>1 DEF MayLock
        <3>3. LockedIn(bonds', a) = LockedIn(bonds, a) + bonds'[a][p].left - bonds[a][p].left
            BY <1>0, <1>2, <3>2, LockedChanges
        <3>4. stake[a] - LockedIn(bonds, a) >= fees.bond[p]
            BY <1>1, <3>1 DEF MayLock, freeStakeOf, Locked, LockedIn
        <3>5. LockedIn(bonds, a) \in Nat /\ stake[a] \in Nat /\ fees.bond[p] \in Nat
            BY <1>0, LockedIsNat
        <3> QED BY <3>2, <3>3, <3>4, <3>5
    <2>2. CASE ~\E p \in Roles : locks(a, p)
        <3>1. \A p \in Roles : bonds'[a][p] = bonds[a][p]
            BY <1>3, <2>2
        <3>2. LockedIn(bonds', a) = LockedIn(bonds, a)
            <4> DEFINE f == [p \in Roles |-> bonds[a][p].left]
                       g == [p \in Roles |-> bonds'[a][p].left]
            <4>1. f = g
                BY <3>1
            <4> QED BY <4>1 DEF LockedIn
        <3> QED BY <1>0, <3>2
    <2> QED BY <2>1, <2>2
<1> QED BY <1>0, <1>1, <1>2, <1>3, <1>4 DEF Covered

\* What a set of slashes takes from an account that one of them is of, or none.
LEMMA SlashedByOne ==
    ASSUME NEW slashes, NEW s \in slashes, s.amount \in Nat,
           \A t \in slashes : t.agent = s.agent => t = s
    PROVE  SlashedBy(slashes, s.agent) = s.amount
<1> DEFINE of == {t \in slashes : t.agent = s.agent}
           f == [t \in of |-> t.amount]
<1>1. of = {s} /\ f[s] = s.amount
    OBVIOUS
<1>2. SlashedBy(slashes, s.agent) = Sum(of, f)
    BY DEF SlashedBy
<1> HIDE DEF of, f
<1>3. Sum({s}, f) = f[s]
    BY <1>1, SumOfOne
<1> QED BY <1>1, <1>2, <1>3

LEMMA SlashedByNone ==
    ASSUME NEW slashes, NEW a, \A t \in slashes : t.agent # a
    PROVE  SlashedBy(slashes, a) = 0
<1> DEFINE of == {t \in slashes : t.agent = a}
           f == [t \in of |-> t.amount]
<1>1. \A t \in of : f[t] = 0
    OBVIOUS
<1>2. SlashedBy(slashes, a) = Sum(of, f)
    BY DEF SlashedBy
<1> HIDE DEF of, f
<1> QED BY <1>1, <1>2, SumOfZero

\* Slashes of an account at most one each, out of bonds that are then released.
LEMMA SlashingIsCovered ==
    ASSUME Covered(bonds, stake), NEW slashes, NEW members, NEW roles \in SUBSET Roles,
           SlashAndRelease(slashes, members, roles),
           \A s \in slashes : s.amount \in Nat,
           \A s \in slashes : s.amount > 0 =>
               /\ s.agent \in Accounts \cap members /\ s.role \in roles
               /\ s.amount <= bonds[s.agent][s.role].left,
           \A s, t \in slashes :
               s.amount > 0 /\ t.amount > 0 /\ s.agent = t.agent => s = t
    PROVE  /\ Covered(bonds', stake')
           /\ \A a \in Accounts : stake'[a] <= stake[a]
           /\ \A s \in slashes : s.amount > 0 => stake'[s.agent] = stake[s.agent] - s.amount
           /\ \A a \in Accounts :
                  (\A s \in slashes : s.amount > 0 => s.agent # a) => stake'[a] = stake[a]
<1> DEFINE real == {s \in slashes : s.amount > 0}
<1>0. /\ bonds \in BondRecords /\ stake \in [Accounts -> Nat]
      /\ \A a \in Accounts : LockedIn(bonds, a) <= stake[a]
    BY DEF Covered
<1>1. /\ stake' = [a \in Accounts |-> stake[a] - SlashedBy(real, a)]
      /\ bonds' = [a \in Accounts |-> [r \in Roles |->
                      IF a \in members /\ r \in roles THEN NoBond ELSE bonds[a][r]]]
    BY DEF SlashAndRelease, Released
<1>2. /\ bonds' \in BondRecords
      /\ \A a \in Accounts, r \in Roles :
             bonds'[a][r] = IF a \in members /\ r \in roles THEN NoBond ELSE bonds[a][r]
    BY <1>0, <1>1 DEF BondRecords, NoBond
<1>3. \A a \in Accounts, r \in Roles :
          bonds[a][r].left \in Nat /\ bonds'[a][r].left <= bonds[a][r].left
    BY <1>0, <1>2 DEF BondRecords, NoBond
<1>4. ASSUME NEW s \in real
      PROVE  /\ s.agent \in Accounts /\ stake'[s.agent] = stake[s.agent] - s.amount
             /\ s.amount \in Nat
             /\ LockedIn(bonds', s.agent) <= stake[s.agent] - s.amount
    <2> DEFINE a == s.agent
               r == s.role
    <2>1. /\ a \in Accounts /\ a \in members /\ r \in roles /\ r \in Roles
          /\ s.amount \in Nat /\ s.amount <= bonds[a][r].left
        OBVIOUS
    <2>2. SlashedBy(real, a) = s.amount
        <3>1. \A t \in real : t.agent = s.agent => t = s
            OBVIOUS
        <3> HIDE DEF real
        <3> QED BY <2>1, <3>1, SlashedByOne
    <2>3. stake'[a] = stake[a] - s.amount
        BY <1>1, <2>1, <2>2
    <2> DEFINE c == [bonds EXCEPT ![a][r] = NoBond]
    <2>4. /\ c \in BondRecords /\ c[a][r].left = 0
          /\ \A q \in Roles \ {r} : c[a][q].left = bonds[a][q].left
          /\ \A q \in Roles : bonds'[a][q].left <= c[a][q].left
        <3>1. c \in BondRecords /\ c[a][r] = NoBond
              /\ \A q \in Roles \ {r} : c[a][q] = bonds[a][q]
            BY <1>0, <2>1 DEF BondRecords, NoBond
        <3>2. bonds'[a][r] = NoBond
            BY <1>2, <2>1
        <3> QED BY <1>3, <2>1, <3>1, <3>2 DEF NoBond
    <2> HIDE DEF a, r, c
    <2>5. LockedIn(c, a) = LockedIn(bonds, a) + c[a][r].left - bonds[a][r].left
        BY <1>0, <2>1, <2>4, LockedChanges
    <2>6. LockedIn(bonds', a) <= LockedIn(c, a)
        BY <1>2, <2>1, <2>4, LockedShrinks
    <2>7. /\ LockedIn(bonds, a) \in Nat /\ LockedIn(bonds', a) \in Nat
          /\ LockedIn(c, a) \in Nat /\ bonds[a][r].left \in Nat
          /\ stake[a] \in Nat /\ LockedIn(bonds, a) <= stake[a]
        BY <1>0, <1>2, <2>1, <2>4, LockedIsNat
    <2>8. LockedIn(bonds', a) <= stake[a] - s.amount
        BY <2>1, <2>4, <2>5, <2>6, <2>7
    <2> QED BY <2>1, <2>3, <2>8 DEF a
<1>5. ASSUME NEW a \in Accounts, \A s \in real : s.agent # a
      PROVE  stake'[a] = stake[a] /\ LockedIn(bonds', a) <= stake[a]
    <2>1. SlashedBy(real, a) = 0
        <3> HIDE DEF real
        <3> QED BY <1>5, SlashedByNone
    <2>2. stake[a] \in Nat
        BY <1>0
    <2>3. stake'[a] = stake[a]
        BY <1>1, <2>1, <2>2
    <2>4. LockedIn(bonds', a) <= LockedIn(bonds, a)
        BY <1>0, <1>2, <1>3, LockedShrinks
    <2>5. /\ LockedIn(bonds, a) \in Nat /\ LockedIn(bonds', a) \in Nat
          /\ LockedIn(bonds, a) <= stake[a]
        BY <1>0, <1>2, LockedIsNat
    <2> QED BY <2>2, <2>3, <2>4, <2>5
<1>6. ASSUME NEW a \in Accounts
      PROVE  /\ stake'[a] \in Nat /\ stake'[a] <= stake[a]
             /\ LockedIn(bonds', a) <= stake'[a]
    <2>1. LockedIn(bonds', a) \in Nat /\ stake[a] \in Nat
        BY <1>0, <1>2, LockedIsNat
    <2>2. CASE \E s \in real : s.agent = a
        <3>1. PICK s \in real : s.agent = a
            BY <2>2
        <3> HIDE DEF real
        <3>2. /\ stake'[a] = stake[a] - s.amount /\ s.amount \in Nat
              /\ LockedIn(bonds', a) <= stake[a] - s.amount
            BY <1>4, <3>1
        <3> QED BY <2>1, <3>2
    <2>3. CASE ~\E s \in real : s.agent = a
        BY <1>5, <2>1, <2>3
    <2> QED BY <2>2, <2>3
<1>7. stake' \in [Accounts -> Nat]
    BY <1>1, <1>6
<1>8. Covered(bonds', stake')
    BY <1>2, <1>6, <1>7 DEF Covered
<1> QED BY <1>4, <1>5, <1>6, <1>8

\* One slash, of a bond that stays locked.
Spent(b, a, r, left) == [b EXCEPT ![a][r].left = left]

LEMMA OneSlashIsCovered ==
    ASSUME Covered(bonds, stake), NEW a \in Accounts, NEW r \in Roles,
           NEW amount \in Nat, NEW left \in Nat, amount + left = bonds[a][r].left,
           stake' = [stake EXCEPT ![a] = @ - amount],
           bonds' = Spent(bonds, a, r, left)
    PROVE  /\ Covered(bonds', stake')
           /\ bonds'[a][r].left = left /\ stake'[a] = stake[a] - amount
           /\ \A b \in Accounts, q \in Roles :
                  /\ bonds'[b][q].active = bonds[b][q].active
                  /\ b # a \/ q # r => bonds'[b][q] = bonds[b][q]
<1>1. /\ bonds \in BondRecords /\ stake \in [Accounts -> Nat]
      /\ LockedIn(bonds, a) \in Nat /\ LockedIn(bonds, a) <= stake[a]
      /\ bonds[a][r].left \in Nat /\ bonds[a][r].left <= LockedIn(bonds, a)
    BY LockedIsNat DEF Covered
<1>2. /\ bonds' \in BondRecords /\ bonds'[a][r].left = left
      /\ \A b \in Accounts, q \in Roles :
             /\ bonds'[b][q].active = bonds[b][q].active
             /\ b # a \/ q # r => bonds'[b][q] = bonds[b][q]
    <2> DEFINE spent == [active |-> bonds[a][r].active, left |-> left]
    <2>1. /\ bonds[a] \in [Roles -> [active : BOOLEAN, left : Nat]]
          /\ bonds[a][r] \in [active : BOOLEAN, left : Nat]
        BY <1>1 DEF BondRecords
    <2>2. /\ [bonds[a][r] EXCEPT !.left = left] = spent
          /\ spent \in [active : BOOLEAN, left : Nat]
          /\ spent.active = bonds[a][r].active /\ spent.left = left
        BY <2>1
    <2>3. bonds' = [bonds EXCEPT ![a][r] = spent]
        BY <2>2 DEF Spent
    <2> HIDE DEF spent
    <2> QED BY <1>1, <2>2, <2>3 DEF BondRecords
<1>3. LockedIn(bonds', a) = LockedIn(bonds, a) + bonds'[a][r].left - bonds[a][r].left
    BY <1>1, <1>2, LockedChanges
<1>4. /\ stake' \in [Accounts -> Nat] /\ LockedIn(bonds', a) <= stake'[a]
      /\ stake'[a] = stake[a] - amount
    BY <1>1, <1>2, <1>3
<1>5. ASSUME NEW b \in Accounts, b # a PROVE LockedIn(bonds', b) <= stake'[b]
    <2>1. LockedIn(bonds', b) <= LockedIn(bonds, b)
        <3>1. \A q \in Roles : bonds'[b][q].left <= bonds[b][q].left
            BY <1>1, <1>2, <1>5 DEF BondRecords
        <3> QED BY <1>1, <1>2, <3>1, LockedShrinks
    <2>2. /\ LockedIn(bonds', b) \in Nat /\ LockedIn(bonds, b) \in Nat
          /\ stake'[b] = stake[b] /\ stake[b] \in Nat /\ LockedIn(bonds, b) <= stake[b]
        BY <1>1, <1>2, <1>5, LockedIsNat DEF Covered
    <2> QED BY <2>1, <2>2
<1> QED BY <1>2, <1>4, <1>5 DEF Covered

\* Bonds are released: the stake that covered them covers what is left.
LEMMA ReleasingIsCovered ==
    ASSUME Covered(bonds, stake), NEW members, NEW roles,
           bonds' = Released(members, roles), UNCHANGED stake
    PROVE  /\ Covered(bonds', stake')
           /\ \A a \in Accounts, r \in Roles :
                  bonds'[a][r] = IF a \in members /\ r \in roles THEN NoBond ELSE bonds[a][r]
<1>1. /\ bonds \in BondRecords /\ stake \in [Accounts -> Nat]
      /\ bonds' = [a \in Accounts |-> [r \in Roles |->
                      IF a \in members /\ r \in roles THEN NoBond ELSE bonds[a][r]]]
    BY DEF Covered, Released
<1>2. /\ bonds' \in BondRecords
      /\ \A a \in Accounts, r \in Roles :
             bonds'[a][r] = IF a \in members /\ r \in roles THEN NoBond ELSE bonds[a][r]
    BY <1>1 DEF BondRecords, NoBond
<1>3. ASSUME NEW a \in Accounts PROVE LockedIn(bonds', a) <= stake'[a]
    <2>1. \A r \in Roles : bonds'[a][r].left <= bonds[a][r].left
        BY <1>1, <1>2 DEF BondRecords, NoBond
    <2>2. LockedIn(bonds', a) <= LockedIn(bonds, a)
        BY <1>1, <1>2, <2>1, LockedShrinks
    <2>3. /\ LockedIn(bonds', a) \in Nat /\ LockedIn(bonds, a) \in Nat
          /\ stake'[a] = stake[a] /\ stake[a] \in Nat /\ LockedIn(bonds, a) <= stake[a]
        BY <1>1, <1>2, LockedIsNat DEF Covered
    <2> QED BY <2>2, <2>3
<1> QED BY <1>1, <1>2, <1>3 DEF Covered

-----------------------------------------------------------------------------
\* CommitteeRegistry and ResolutionRegistry: lists of members, and the record of a round.

\* A list made entry by entry from another is a list.
LEMMA ListByEntry ==
    ASSUME NEW A, NEW s \in Seq(A), NEW S, NEW t \in [DOMAIN s -> S]
    PROVE  t \in Seq(S)
<1>1. Len(s) \in Nat /\ DOMAIN s = 1 .. Len(s)
    BY LenProperties
<1> QED BY <1>1, SeqDef

\* The members of a list are finitely many.
LEMMA ListsAreFinite ==
    ASSUME NEW S, NEW s \in Seq(S)
    PROVE  IsFiniteSet(ToSet(s))
<1>1. Len(s) \in Nat /\ DOMAIN s = 1 .. Len(s)
    BY LenProperties
<1>2. s \in Surjection(1 .. Len(s), ToSet(s))
    <2>1. s \in [1 .. Len(s) -> ToSet(s)]
        BY <1>1, LenProperties DEF ToSet
    <2> QED BY <1>1, <2>1 DEF Surjection, ToSet
<1>3. IsFiniteSet(1 .. Len(s))
    BY <1>1, FS_Interval
<1> DEFINE Ids == 1 .. Len(s)
<1> HIDE DEF Ids
<1>4. s \in Surjection(Ids, ToSet(s)) /\ IsFiniteSet(Ids)
    BY <1>2, <1>3 DEF Ids
<1> QED BY <1>4, FS_Surjection

\* The members of a committee.
LEMMA MembersAreBoth ==
    ASSUME NEW S, NEW s \in Seq(S), NEW t \in Seq(S)
    PROVE  ToSet(s \o t) = ToSet(s) \cup ToSet(t)
<1>1. /\ Len(s) \in Nat /\ DOMAIN s = 1 .. Len(s)
      /\ Len(t) \in Nat /\ DOMAIN t = 1 .. Len(t)
    BY LenProperties
<1>2. /\ s \o t \in Seq(S) /\ Len(s \o t) = Len(s) + Len(t)
      /\ \A i \in 1 .. Len(s) + Len(t) :
             (s \o t)[i] = IF i <= Len(s) THEN s[i] ELSE t[i - Len(s)]
    BY ConcatProperties
<1>3. DOMAIN (s \o t) = 1 .. Len(s) + Len(t)
    BY <1>2, LenProperties
<1>4. ASSUME NEW x \in ToSet(s \o t) PROVE x \in ToSet(s) \cup ToSet(t)
    <2>1. PICK i \in 1 .. Len(s) + Len(t) : (s \o t)[i] = x
        BY <1>3 DEF ToSet
    <2>2. CASE i <= Len(s)
        BY <1>1, <1>2, <2>1, <2>2 DEF ToSet
    <2>3. CASE ~(i <= Len(s))
        <3>1. i - Len(s) \in 1 .. Len(t)
            BY <1>1, <2>3
        <3> QED BY <1>1, <1>2, <2>1, <2>3, <3>1 DEF ToSet
    <2> QED BY <2>2, <2>3
<1>5. ASSUME NEW x \in ToSet(s) PROVE x \in ToSet(s \o t)
    <2>1. PICK i \in 1 .. Len(s) : s[i] = x
        BY <1>1 DEF ToSet
    <2>2. i \in 1 .. Len(s) + Len(t) /\ i <= Len(s)
        BY <1>1
    <2> QED BY <1>2, <1>3, <2>1, <2>2 DEF ToSet
<1>6. ASSUME NEW x \in ToSet(t) PROVE x \in ToSet(s \o t)
    <2>1. PICK j \in 1 .. Len(t) : t[j] = x
        BY <1>1 DEF ToSet
    <2>2. Len(s) + j \in 1 .. Len(s) + Len(t) /\ ~(Len(s) + j <= Len(s))
          /\ (Len(s) + j) - Len(s) = j
        BY <1>1
    <2> QED BY <1>2, <1>3, <2>1, <2>2 DEF ToSet
<1> QED BY <1>4, <1>5, <1>6

\* No account is in two places of a concatenation without repetitions.
LEMMA ListsDiffer ==
    ASSUME NEW S, NEW s \in Seq(S), NEW t \in Seq(S), IsInjective(s \o t)
    PROVE  ToSet(s) \cap ToSet(t) = {}
<1> SUFFICES ASSUME NEW x \in ToSet(s), x \in ToSet(t) PROVE FALSE
    OBVIOUS
<1>1. /\ Len(s) \in Nat /\ DOMAIN s = 1 .. Len(s)
      /\ Len(t) \in Nat /\ DOMAIN t = 1 .. Len(t)
    BY LenProperties
<1>2. PICK i \in 1 .. Len(s), j \in 1 .. Len(t) : s[i] = x /\ t[j] = x
    BY <1>1 DEF ToSet
<1>3. /\ s \o t \in Seq(S) /\ Len(s \o t) = Len(s) + Len(t)
      /\ (s \o t)[i] = s[i] /\ (s \o t)[Len(s) + j] = t[j]
    BY <1>1, ConcatProperties
<1>4. DOMAIN (s \o t) = 1 .. Len(s) + Len(t)
    BY <1>3, LenProperties
<1>5. i \in DOMAIN (s \o t) /\ Len(s) + j \in DOMAIN (s \o t) /\ i # Len(s) + j
    BY <1>1, <1>4
<1> QED BY <1>2, <1>3, <1>5 DEF IsInjective

\* CommitteeRegistry refuses an account in both lists of a committee.
CommitteesInv ==
    /\ ruleCommittee \in [makers : Seq(Agents), verifiers : Seq(Agents)]
    /\ resolutionCommittee \in
           [validators : Seq(Agents), auditors : Seq(Agents), minValidCount : Nat]
    /\ ToSet(ruleCommittee.makers) \cap ToSet(ruleCommittee.verifiers) = {}
    /\ ToSet(resolutionCommittee.validators) \cap ToSet(resolutionCommittee.auditors) = {}

RoundRecord ==
    [commits : [Agents -> Commitments \cup {NoCommit}],
     reveals : [Agents -> Commitments \cup {NoCommit}],
     verdicts : [Agents -> [Agents -> Verdicts \cup {"None"}]],
     challenges : Seq(Challenge)]

\* A reveal follows a commitment, and no challenge stays open when its round is over.
RoundInv ==
    /\ round \in RoundRecord
    /\ \A a \in Agents : Revealed(a) => round.commits[a] # NoCommit
    /\ Len(round.challenges) <= MaxChallenges
    /\ openChallenges # {} => vault.status \in RoundPhases

LEMMA EmptyRoundIsRound ==
    /\ EmptyRound \in RoundRecord /\ Len(EmptyRound.challenges) = 0
    /\ DOMAIN EmptyRound.challenges = {}
    /\ \A a \in Agents : EmptyRound.reveals[a] = NoCommit
<1>1. /\ <<>> \in Seq(Challenge) /\ Len(<<>>) = 0 /\ DOMAIN <<>> = {}
    BY EmptySeq
<1> QED BY <1>1 DEF EmptyRound, RoundRecord, NoCommit

\* Nobody sits on no committee.
LEMMA NobodySits ==
    /\ ToSet(NoRuleCommittee.makers) = {} /\ ToSet(NoRuleCommittee.verifiers) = {}
    /\ ToSet(NoResolutionCommittee.validators) = {}
    /\ ToSet(NoResolutionCommittee.auditors) = {}
<1>1. ToSet(<<>>) = {}
    BY EmptySeq DEF ToSet
<1> QED BY <1>1 DEF NoRuleCommittee, NoResolutionCommittee

LEMMA CommitteesInit == BaseInit => CommitteesInv
<1>1. <<>> \in Seq(Agents) /\ ToSet(<<>>) = {}
    BY EmptySeq DEF ToSet
<1> QED BY <1>1 DEF BaseInit, NoRuleCommittee, NoResolutionCommittee, CommitteesInv

LEMMA RoundInit == BaseInit => RoundInv
BY EmptyRoundIsRound, BoundsAreNat DEF BaseInit, RoundInv, Revealed, openChallenges

\* What a step may do to the committees.
CommitteesChange ==
    /\ \/ UNCHANGED ruleCommittee
       \/ ruleCommittee' = NoRuleCommittee
       \/ \E committee \in RuleCommittees : recordRuleCommittee(committee)
    /\ \/ UNCHANGED resolutionCommittee
       \/ resolutionCommittee' = NoResolutionCommittee
       \/ \E committee \in ResolutionCommittees : recordResolutionCommittee(committee)

\* Whatever a step does to the committees, their lists stay apart.
LEMMA ChangesKeepCommittees == CommitteesInv /\ CommitteesChange => CommitteesInv'
<1> SUFFICES ASSUME CommitteesInv, CommitteesChange PROVE CommitteesInv'
    OBVIOUS
<1>0. <<>> \in Seq(Agents) /\ ToSet(<<>>) = {}
    BY EmptySeq DEF ToSet
<1>1. /\ ruleCommittee' \in [makers : Seq(Agents), verifiers : Seq(Agents)]
      /\ ToSet(ruleCommittee'.makers) \cap ToSet(ruleCommittee'.verifiers) = {}
    <2>1. ASSUME NEW committee \in RuleCommittees, recordRuleCommittee(committee)
          PROVE  /\ ruleCommittee' \in [makers : Seq(Agents), verifiers : Seq(Agents)]
                 /\ ToSet(ruleCommittee'.makers) \cap ToSet(ruleCommittee'.verifiers) = {}
        <3>1. /\ committee \in [makers : Seq(Agents), verifiers : Seq(Agents)]
              /\ ruleCommittee' = committee
              /\ IsInjective(committee.makers \o committee.verifiers)
            BY <2>1, CommitteesAreLists DEF recordRuleCommittee
        <3>2. committee.makers \in Seq(Agents) /\ committee.verifiers \in Seq(Agents)
            BY <3>1
        <3>3. ToSet(committee.makers) \cap ToSet(committee.verifiers) = {}
            BY <3>1, <3>2, ListsDiffer
        <3> QED BY <3>1, <3>3
    <2>2. CASE ruleCommittee' = NoRuleCommittee
        BY <1>0, <2>2 DEF NoRuleCommittee
    <2> QED BY <2>1, <2>2 DEF CommitteesInv, CommitteesChange
<1>2. /\ resolutionCommittee' \in
             [validators : Seq(Agents), auditors : Seq(Agents), minValidCount : Nat]
      /\ ToSet(resolutionCommittee'.validators)
             \cap ToSet(resolutionCommittee'.auditors) = {}
    <2>1. ASSUME NEW committee \in ResolutionCommittees, recordResolutionCommittee(committee)
          PROVE  /\ resolutionCommittee' \in
                        [validators : Seq(Agents), auditors : Seq(Agents), minValidCount : Nat]
                 /\ ToSet(resolutionCommittee'.validators)
                        \cap ToSet(resolutionCommittee'.auditors) = {}
        <3>1. /\ committee \in
                     [validators : Seq(Agents), auditors : Seq(Agents), minValidCount : Nat]
              /\ resolutionCommittee' = committee
              /\ IsInjective(committee.validators \o committee.auditors)
            BY <2>1, CommitteesAreLists DEF recordResolutionCommittee
        <3>2. committee.validators \in Seq(Agents) /\ committee.auditors \in Seq(Agents)
            BY <3>1
        <3>3. ToSet(committee.validators) \cap ToSet(committee.auditors) = {}
            BY <3>1, <3>2, ListsDiffer
        <3> QED BY <3>1, <3>3
    <2>2. CASE resolutionCommittee' = NoResolutionCommittee
        BY <1>0, <2>2 DEF NoResolutionCommittee
    <2> QED BY <2>1, <2>2 DEF CommitteesInv, CommitteesChange
<1> QED BY <1>1, <1>2 DEF CommitteesInv

\* What a step may do to the record of the round.
RoundChange ==
    \/ /\ UNCHANGED round
       /\ \/ vault.status \notin RoundPhases
          \/ openChallenges = {}
          \/ vault'.status \in RoundPhases
    \/ round' = EmptyRound /\ vault.status \in {"Active", "ResolutionAuction"}
    \/ /\ vault.status \in RoundPhases /\ vault'.status \in RoundPhases
       /\ \/ \E a \in Agents, commitment \in Commitments : recordCommit(a, commitment)
          \/ \E a \in Agents, revealed \in Commitments : recordReveal(a, revealed)
          \/ \E auditor \in Agents, judged \in Judgeable, verdict \in Verdicts :
                 recordAuditVerdict(judged, auditor, verdict)
          \/ /\ Len(round.challenges) + 1 <= MaxChallenges
             /\ \E challenger \in Accounts, target \in Agents :
                    openChallenge(challenger, target, fees.challengeBond)
    \/ /\ UNCHANGED vault
       /\ \E id \in DOMAIN round.challenges, successful \in BOOLEAN :
              closeChallenge(id, successful)

\* The challenges are numbered, and the open ones are among them.
LEMMA ChallengesAreNumbered ==
    ASSUME round \in RoundRecord
    PROVE  /\ round.challenges \in Seq(Challenge) /\ Len(round.challenges) \in Nat
           /\ DOMAIN round.challenges = 1 .. Len(round.challenges)
           /\ \A i \in 1 .. Len(round.challenges) : round.challenges[i] \in Challenge
<1>1. round.challenges \in Seq(Challenge)
    BY DEF RoundRecord
<1>2. /\ Len(round.challenges) \in Nat
      /\ DOMAIN round.challenges = 1 .. Len(round.challenges)
    BY <1>1, LenProperties
<1>3. ASSUME NEW i \in 1 .. Len(round.challenges) PROVE round.challenges[i] \in Challenge
    BY <1>1, ElementOfSeq
<1> QED BY <1>1, <1>2, <1>3

\* What opening and closing a challenge makes of the list.
LEMMA OpeningAppends ==
    ASSUME round \in RoundRecord, fees \in FeeSchedules,
           NEW challenger \in Accounts, NEW target \in Agents,
           openChallenge(challenger, target, fees.challengeBond)
    PROVE  LET id == Len(round.challenges) + 1
               new == [challenger |-> challenger, target |-> target,
                       bondAmount |-> fees.challengeBond, status |-> "Open"]
           IN  /\ new \in Challenge
               /\ round'.challenges \in Seq(Challenge) /\ Len(round'.challenges) = id
               /\ DOMAIN round'.challenges = 1 .. id
               /\ round'.challenges[id] = new
               /\ \A i \in 1 .. Len(round.challenges) :
                      round'.challenges[i] = round.challenges[i]
               /\ round' \in RoundRecord
               /\ openChallenges' = openChallenges \cup {id}
<1> DEFINE id == Len(round.challenges) + 1
           new == [challenger |-> challenger, target |-> target,
                   bondAmount |-> fees.challengeBond, status |-> "Open"]
<1>1. fees.challengeBond \in Nat
    BY FeesAreSchedules DEF FeeSchedule
<1>2. new \in Challenge
    BY <1>1 DEF Challenge
<1>3. round' = [round EXCEPT !.challenges = Append(@, new)]
    BY DEF openChallenge
<1>4. round.challenges \in Seq(Challenge) /\ round'.challenges = Append(round.challenges, new)
    BY <1>3 DEF RoundRecord
<1>5. /\ Len(round.challenges) \in Nat /\ DOMAIN round.challenges = 1 .. Len(round.challenges)
    BY ChallengesAreNumbered
<1> HIDE DEF new
<1>6. /\ round'.challenges \in Seq(Challenge) /\ Len(round'.challenges) = id
      /\ round'.challenges[id] = new
      /\ \A i \in 1 .. Len(round.challenges) : round'.challenges[i] = round.challenges[i]
    BY <1>2, <1>4, AppendProperties
<1>7. DOMAIN round'.challenges = 1 .. id
    BY <1>6, LenProperties
<1>8. round' \in RoundRecord
    BY <1>3, <1>4, <1>6 DEF RoundRecord
<1>9. openChallenges' = openChallenges \cup {id}
    <2>1. new.status = "Open"
        BY DEF new
    <2> QED BY <1>5, <1>6, <1>7, <2>1 DEF openChallenges
<1> QED BY <1>2, <1>6, <1>7, <1>8, <1>9 DEF new

LEMMA ClosingKeepsTheRest ==
    ASSUME round \in RoundRecord, NEW id \in DOMAIN round.challenges,
           NEW successful \in BOOLEAN, closeChallenge(id, successful)
    PROVE  /\ id \in openChallenges /\ openChallenges' = openChallenges \ {id}
           /\ Len(round'.challenges) = Len(round.challenges)
           /\ \A i \in DOMAIN round.challenges :
                  round'.challenges[i].bondAmount = round.challenges[i].bondAmount
           /\ UNCHANGED <<round.commits, round.reveals, round.verdicts>>
           /\ round' \in RoundRecord
<1> DEFINE status == IF successful THEN "ResolvedSuccess" ELSE "ResolvedFailure"
           list == [round.challenges EXCEPT ![id].status = status]
<1>1. /\ round.challenges \in Seq(Challenge) /\ Len(round.challenges) \in Nat
      /\ DOMAIN round.challenges = 1 .. Len(round.challenges)
      /\ \A i \in 1 .. Len(round.challenges) : round.challenges[i] \in Challenge
    BY ChallengesAreNumbered
<1>2. round.challenges[id].status = "Open" /\ round' = [round EXCEPT !.challenges = list]
    BY DEF closeChallenge, RoundRecord
<1>3. /\ DOMAIN list = 1 .. Len(round.challenges)
      /\ \A i \in 1 .. Len(round.challenges) :
             /\ list[i] \in Challenge /\ list[i].bondAmount = round.challenges[i].bondAmount
             /\ i # id => list[i] = round.challenges[i]
      /\ list[id].status = status
    BY <1>1 DEF Challenge
<1>4. list \in Seq(Challenge) /\ Len(list) = Len(round.challenges)
    <2>1. list \in [1 .. Len(round.challenges) -> Challenge]
        BY <1>3
    <2>2. list \in Seq(Challenge)
        BY <1>1, <2>1, SeqDef
    <2> QED BY <1>1, <2>1, <2>2, LenProperties
<1>5. round' \in RoundRecord /\ round'.challenges = list
      /\ UNCHANGED <<round.commits, round.reveals, round.verdicts>>
    BY <1>2, <1>4 DEF RoundRecord
<1> HIDE DEF list
<1>6. status # "Open"
    OBVIOUS
<1>7. id \in openChallenges /\ openChallenges' = openChallenges \ {id}
    BY <1>1, <1>2, <1>3, <1>5, <1>6 DEF openChallenges
<1> QED BY <1>1, <1>3, <1>4, <1>5, <1>7

LEMMA ChangesKeepRound ==
    ASSUME CustodyType, RoundInv, RoundChange
    PROVE  RoundInv'
<1>0. /\ round \in RoundRecord /\ fees \in FeeSchedules
      /\ \A a \in Agents : round.reveals[a] # NoCommit => round.commits[a] # NoCommit
      /\ Len(round.challenges) <= MaxChallenges
      /\ openChallenges # {} => vault.status \in RoundPhases
    BY DEF CustodyType, RoundInv, Revealed
<1>1. ASSUME UNCHANGED round,
             vault.status \notin RoundPhases \/ openChallenges = {}
             \/ vault'.status \in RoundPhases
      PROVE  RoundInv'
    <2>1. openChallenges' # {} => vault'.status \in RoundPhases
        BY <1>0, <1>1 DEF openChallenges
    <2> QED BY <1>0, <1>1, <2>1 DEF RoundInv, Revealed
<1>2. CASE round' = EmptyRound
    BY <1>2, EmptyRoundIsRound, BoundsAreNat DEF RoundInv, Revealed, openChallenges
<1>3. ASSUME vault'.status \in RoundPhases,
             NEW a \in Agents, NEW commitment \in Commitments, recordCommit(a, commitment)
      PROVE  RoundInv'
    <2>1. commitment # NoCommit
        BY CommitmentsHaveOutcomes DEF NoCommit, Outcomes
    <2>2. /\ round' = [round EXCEPT !.commits[a] = commitment]
          /\ round.commits \in [Agents -> Commitments \cup {NoCommit}]
        BY <1>0, <1>3 DEF recordCommit, RoundRecord
    <2>3. /\ round' \in RoundRecord /\ round'.challenges = round.challenges
          /\ round'.reveals = round.reveals
          /\ \A b \in Agents : round.commits[b] # NoCommit => round'.commits[b] # NoCommit
        BY <1>0, <2>1, <2>2 DEF RoundRecord
    <2> QED BY <1>0, <1>3, <2>3 DEF RoundInv, Revealed
<1>4. ASSUME vault'.status \in RoundPhases,
             NEW a \in Agents, NEW revealed \in Commitments, recordReveal(a, revealed)
      PROVE  RoundInv'
    <2>1. /\ round' = [round EXCEPT !.reveals[a] = revealed] /\ round.commits[a] # NoCommit
          /\ round.reveals \in [Agents -> Commitments \cup {NoCommit}]
        BY <1>0, <1>4 DEF recordReveal, RoundRecord
    <2>2. /\ round' \in RoundRecord /\ round'.challenges = round.challenges
          /\ round'.commits = round.commits
          /\ \A b \in Agents : b # a => round'.reveals[b] = round.reveals[b]
        BY <1>0, <2>1 DEF RoundRecord
    <2> QED BY <1>0, <1>4, <2>1, <2>2 DEF RoundInv, Revealed
<1>5. ASSUME vault'.status \in RoundPhases,
             NEW auditor \in Agents, NEW judged \in Judgeable, NEW verdict \in Verdicts,
             recordAuditVerdict(judged, auditor, verdict)
      PROVE  RoundInv'
    <2>1. /\ round' = [round EXCEPT !.verdicts[judged][auditor] = verdict]
          /\ judged \in Agents
        BY <1>5, BoundsAreNat DEF recordAuditVerdict
    <2>2. /\ round' \in RoundRecord /\ round'.challenges = round.challenges
          /\ round'.commits = round.commits /\ round'.reveals = round.reveals
        BY <1>0, <2>1 DEF RoundRecord
    <2> QED BY <1>0, <1>5, <2>2 DEF RoundInv, Revealed
<1>6. ASSUME vault'.status \in RoundPhases, Len(round.challenges) + 1 <= MaxChallenges,
             NEW challenger \in Accounts, NEW target \in Agents,
             openChallenge(challenger, target, fees.challengeBond)
      PROVE  RoundInv'
    <2>1. round' \in RoundRecord /\ Len(round'.challenges) = Len(round.challenges) + 1
        BY <1>0, <1>6, OpeningAppends
    <2>2. round'.commits = round.commits /\ round'.reveals = round.reveals
        BY <1>0, <1>6 DEF openChallenge, RoundRecord
    <2> QED BY <1>0, <1>6, <2>1, <2>2 DEF RoundInv, Revealed
<1>7. ASSUME UNCHANGED vault, NEW id \in DOMAIN round.challenges, NEW successful \in BOOLEAN,
             closeChallenge(id, successful)
      PROVE  RoundInv'
    <2>1. /\ openChallenges # {} /\ round' \in RoundRecord
          /\ Len(round'.challenges) = Len(round.challenges)
          /\ UNCHANGED <<round.commits, round.reveals>>
        BY <1>0, <1>7, ClosingKeepsTheRest
    <2> QED BY <1>0, <1>7, <2>1 DEF RoundInv, Revealed
<1> QED BY <1>1, <1>2, <1>3, <1>4, <1>5, <1>6, <1>7 DEF RoundChange

-----------------------------------------------------------------------------
\* All that is recorded of committees, submissions and rounds, with the time and the pause.

SubmissionsInv ==
    submissions \in [drafts : SUBSET Agents, issues : [Agents -> Severities \cup {"None"}]]

SurroundingsInv ==
    /\ clock \in [settlementReached : BOOLEAN, deadlinesPassed : 0 .. 4]
    /\ paused \in BOOLEAN

RecordsInv == CommitteesInv /\ SubmissionsInv /\ RoundInv /\ SurroundingsInv

LEMMA RecordsInit == BaseInit => RecordsInv
<1> SUFFICES ASSUME BaseInit PROVE RecordsInv
    OBVIOUS
<1>1. SubmissionsInv
    BY DEF BaseInit, NoSubmissions, SubmissionsInv
<1>2. SurroundingsInv
    <2>1. clock = [settlementReached |-> FALSE, deadlinesPassed |-> 0] /\ paused = FALSE
        BY DEF BaseInit
    <2>2. 0 \in 0 .. 4
        OBVIOUS
    <2> QED BY <2>1, <2>2 DEF SurroundingsInv
<1> QED BY <1>1, <1>2, CommitteesInit, RoundInit DEF RecordsInv

\* What a step may do to the submissions, and to all of it.
SubmissionsChange ==
    \/ UNCHANGED submissions
    \/ submissions' = NoSubmissions
    \/ \E a \in Agents : submissions' = [submissions EXCEPT !.drafts = @ \cup {a}]
    \/ \E a \in Agents, severity \in Severities :
           submissions' = [submissions EXCEPT !.issues[a] = severity]

Changes == CommitteesChange /\ SubmissionsChange /\ RoundChange /\ SurroundingsInv'

LEMMA ChangesKeepRecords == CustodyType /\ RecordsInv /\ Changes => RecordsInv'
<1>1. SubmissionsInv /\ SubmissionsChange => SubmissionsInv'
    BY DEF SubmissionsInv, SubmissionsChange, NoSubmissions
<1> QED BY <1>1, ChangesKeepCommittees, ChangesKeepRound DEF RecordsInv, Changes

-----------------------------------------------------------------------------
\* RewardPool, as the vault goes from status to status.

Drafting == {"RuleAuction", "RuleDrafting", "UserRuleReview"}

\* The setup deposit is there while the rule set is made, the reward deposit once it is
\* accepted, and neither after the end.
DepositsMatchStatus ==
    /\ vault.status \notin Drafting => pool.setup = 0
    /\ vault.status \in Unfunded => pool.reward = 0

PoolInv ==
    Balanced(pool) /\ BondHeldWhileOpen /\ DepositsMatchStatus /\ NoDepositLeftBehind

LEMMA PoolInit == BaseInit => PoolInv
<1> SUFFICES ASSUME BaseInit PROVE PoolInv
    OBVIOUS
<1>1. /\ pool = [setup |-> 0, reward |-> 0, challengeBonds |-> [i \in 1 .. MaxChallenges |-> 0],
                 claimable |-> [a \in Accounts |-> 0],
                 claimableSetup |-> [a \in Accounts |-> 0], heldPov |-> 0, heldNative |-> 0]
      /\ round = EmptyRound
    BY DEF BaseInit
<1>2. /\ Sum(Accounts, pool.claimable) = 0 /\ Sum(Accounts, pool.claimableSetup) = 0
      /\ Sum(1 .. MaxChallenges, pool.challengeBonds) = 0
    BY <1>1, SumOfZero
<1>3. pool \in PoolRecord /\ pool.setup = 0 /\ pool.reward = 0
      /\ pool.heldPov = 0 /\ pool.heldNative = 0
    BY <1>1 DEF PoolRecord
<1>4. /\ pool.heldNative = pool.setup + Sum(Accounts, pool.claimableSetup)
      /\ pool.heldPov = pool.reward + Sum(Accounts, pool.claimable)
                            + Sum(1 .. MaxChallenges, pool.challengeBonds)
    BY <1>2, <1>3
<1>5. Balanced(pool)
    BY <1>3, <1>4, Zenon DEF Balanced
<1>6. BondHeldWhileOpen
    BY <1>1, EmptyRoundIsRound DEF BondHeldWhileOpen, openChallenges
<1>7. DepositsMatchStatus /\ NoDepositLeftBehind
    BY <1>3 DEF DepositsMatchStatus, NoDepositLeftBehind
<1> QED BY <1>5, <1>6, <1>7 DEF PoolInv

\* Between which statuses a vault goes without a deposit coming or going.
DepositsRest ==
    \/ UNCHANGED vault
    \/ vault.status \in Drafting /\ vault'.status \in Drafting
    \/ vault.status \in Open /\ vault'.status \in Open
    \/ vault.status = "Absent" /\ vault'.status = "Active"
    \/ /\ vault.status \in {"Resolving", "Disputed"}
       /\ vault'.resolutionRound = 0
       /\ vault'.status \in Resolved

\* The steps that leave the reward pool alone leave the challenges alone as well, or clear
\* those of a round that is over.
PoolRests ==
    /\ UNCHANGED pool
    /\ DepositsRest
    /\ \/ UNCHANGED round.challenges
       \/ round' = EmptyRound /\ vault.status \notin RoundPhases

\* The steps of a vault that move its deposits and bonds into and out of the pool.
SetupPaidIn ==
    /\ vault.status = "Absent" /\ vault'.status = "RuleAuction"
    /\ \E value \in Nat : pool' = collectSetupDeposit(pool, value)
    /\ UNCHANGED round.challenges
SetupPaidOut ==
    /\ vault.status \in Drafting /\ vault'.status \in Drafting
    /\ \E reqs \in Requests : pool' = allocateSetupRewards(pool, reqs)
    /\ UNCHANGED round.challenges
SetupReturned ==
    /\ vault.status \in Drafting /\ vault'.status = "Cancelled"
    /\ pool' = emptySetup(pool)
    /\ UNCHANGED round.challenges
RewardPaidIn ==
    /\ vault.status \in Drafting /\ vault'.status = "Active"
    /\ \E amount \in Nat : pool' = collectResolutionRewardDeposit(emptySetup(pool), amount)
    /\ UNCHANGED round.challenges
BondPaidIn ==
    LET id == Len(round.challenges) + 1
    IN  /\ vault.status \in Open /\ vault'.status \in Open
        /\ id <= MaxChallenges
        /\ \E challenger \in Accounts, target \in Agents :
               openChallenge(challenger, target, fees.challengeBond)
        /\ pool' = collectChallengeBond(pool, id, fees.challengeBond)
BondPaidOut ==
    /\ UNCHANGED vault
    /\ \E id \in DOMAIN round.challenges, successful \in BOOLEAN :
           LET closed == payChallengeBond(pool, id, round.challenges[id].bondAmount)
           IN  /\ closeChallenge(id, successful)
               /\ \/ pool' = closed
                  \/ \E reqs \in Requests : pool' = allocateResolutionRewards(closed, reqs)
RewardPaidOut ==
    /\ vault.status \in RoundPhases /\ vault'.status \in Resolved
    /\ \/ pool' = emptyReward(pool)
       \/ \E reqs \in Requests : pool' = emptyReward(allocateResolutionRewards(pool, reqs))
    /\ UNCHANGED round.challenges
RewardsClaimed ==
    /\ UNCHANGED <<vault, round.challenges>>
    /\ \E a \in Accounts :
       \E pov \in 0 .. pool.claimable[a], native \in 0 .. pool.claimableSetup[a] :
           pool' = [pool EXCEPT !.claimable[a] = @ - pov, !.heldPov = @ - pov,
                                !.claimableSetup[a] = @ - native, !.heldNative = @ - native]

PoolStep ==
    \/ PoolRests
    \/ SetupPaidIn \/ SetupPaidOut \/ SetupReturned
    \/ BondPaidIn \/ BondPaidOut
    \/ RewardPaidIn \/ RewardPaidOut \/ RewardsClaimed

\* What a challenger who wins is paid is a request.
LEMMA ChallengersAreRequests ==
    ASSUME CustodyType, RoundInv, NEW id \in DOMAIN round.challenges
    PROVE  <<[to |-> round.challenges[id].challenger, amount |-> fees.challengerSuccess]>>
               \in Requests
<1>1. round.challenges[id].challenger \in Accounts
    BY ChallengesAreNumbered DEF RoundInv, Challenge
<1>2. fees.challengerSuccess \in Nat
    BY FeesAreSchedules DEF CustodyType, FeeSchedule
<1> QED BY <1>1, <1>2 DEF Requests

\* Challenge bonds stay where they are, for the challenges stay.
LEMMA BondsRest ==
    ASSUME BondHeldWhileOpen, UNCHANGED <<round.challenges, pool.challengeBonds>>
    PROVE  BondHeldWhileOpen'
BY DEF BondHeldWhileOpen, openChallenges

\* What allocations and sweeps leave alone.
LEMMA AllocationsLeave ==
    ASSUME NEW p \in PoolRecord, NEW reqs \in Requests
    PROVE  /\ allocateSetupRewards(p, reqs).challengeBonds = p.challengeBonds
           /\ allocateSetupRewards(p, reqs).reward = p.reward
           /\ allocateResolutionRewards(p, reqs).challengeBonds = p.challengeBonds
           /\ allocateResolutionRewards(p, reqs).setup = p.setup
           /\ emptySetup(p).challengeBonds = p.challengeBonds
           /\ emptySetup(p).reward = p.reward /\ emptySetup(p).setup = 0
           /\ emptyReward(p).challengeBonds = p.challengeBonds
           /\ emptyReward(p).setup = p.setup /\ emptyReward(p).reward = 0
BY DEF PoolRecord, allocateSetupRewards, allocateResolutionRewards, emptySetup, emptyReward

LEMMA RestingKeepsPool == PoolInv /\ RoundInv /\ PoolRests => PoolInv'
<1> SUFFICES ASSUME PoolInv, RoundInv, PoolRests PROVE PoolInv'
    OBVIOUS
<1>1. Balanced(pool')
    BY DEF PoolInv, PoolRests
<1>2. BondHeldWhileOpen'
    <2>1. CASE UNCHANGED round.challenges
        BY <2>1 DEF PoolInv, PoolRests, BondHeldWhileOpen, openChallenges
    <2>2. CASE round' = EmptyRound /\ vault.status \notin RoundPhases
        <3>1. openChallenges = {} /\ openChallenges' = {}
            BY <2>2, EmptyRoundIsRound DEF RoundInv, openChallenges
        <3> QED BY <3>1 DEF PoolInv, PoolRests, BondHeldWhileOpen
    <2> QED BY <2>1, <2>2 DEF PoolRests
<1>3. DepositsMatchStatus' /\ NoDepositLeftBehind'
    BY DEF PoolInv, PoolRests, DepositsRest, DepositsMatchStatus, NoDepositLeftBehind,
           Drafting, Open, Unfunded, Resolved
<1> QED BY <1>1, <1>2, <1>3 DEF PoolInv, Balanced

\* The setup deposit: paid in, paid out to the committee, returned, or followed by the
\* reward deposit.
LEMMA SetupStepsKeepPool ==
    ASSUME CustodyType, PoolInv,
           SetupPaidIn \/ SetupPaidOut \/ SetupReturned \/ RewardPaidIn
    PROVE  PoolInv'
<1>0. /\ vault \in VaultRecord /\ Balanced(pool) /\ pool \in PoolRecord
      /\ BondHeldWhileOpen /\ DepositsMatchStatus
    BY DEF CustodyType, PoolInv, Balanced
<1>1. ASSUME SetupPaidIn PROVE PoolInv'
    <2>1. PICK value \in Nat : pool' = collectSetupDeposit(pool, value)
        BY <1>1 DEF SetupPaidIn
    <2>2. Balanced(pool')
        BY <1>0, <2>1, CollectingBalances
    <2>3. pool'.challengeBonds = pool.challengeBonds /\ pool'.reward = pool.reward
        BY <1>0, <2>1 DEF collectSetupDeposit, PoolRecord
    <2>4. BondHeldWhileOpen'
        BY <1>0, <1>1, <2>3, BondsRest DEF SetupPaidIn
    <2>5. DepositsMatchStatus' /\ NoDepositLeftBehind'
        BY <1>0, <1>1, <2>3
        DEF SetupPaidIn, DepositsMatchStatus, NoDepositLeftBehind, Drafting, Unfunded, Resolved
    <2> QED BY <2>2, <2>4, <2>5 DEF PoolInv, Balanced
<1>2. ASSUME SetupPaidOut PROVE PoolInv'
    <2>1. PICK reqs \in Requests : pool' = allocateSetupRewards(pool, reqs)
        BY <1>2 DEF SetupPaidOut
    <2>2. Balanced(pool')
        BY <1>0, <2>1, AllocationBalances
    <2>3. pool'.challengeBonds = pool.challengeBonds /\ pool'.reward = pool.reward
        BY <1>0, <2>1, AllocationsLeave
    <2>4. BondHeldWhileOpen'
        BY <1>0, <1>2, <2>3, BondsRest DEF SetupPaidOut
    <2>5. DepositsMatchStatus' /\ NoDepositLeftBehind'
        BY <1>0, <1>2, <2>3
        DEF SetupPaidOut, DepositsMatchStatus, NoDepositLeftBehind, Drafting, Unfunded, Resolved
    <2> QED BY <2>2, <2>4, <2>5 DEF PoolInv, Balanced
<1>3. ASSUME SetupReturned PROVE PoolInv'
    <2>1. Balanced(pool')
        BY <1>0, <1>3, SweepingBalances DEF SetupReturned
    <2>2. /\ pool'.challengeBonds = pool.challengeBonds /\ pool'.reward = pool.reward
          /\ pool'.setup = 0
        BY <1>0, <1>3 DEF SetupReturned, emptySetup, PoolRecord
    <2>3. BondHeldWhileOpen'
        BY <1>0, <1>3, <2>2, BondsRest DEF SetupReturned
    <2>4. DepositsMatchStatus' /\ NoDepositLeftBehind'
        BY <1>0, <1>3, <2>2
        DEF SetupReturned, DepositsMatchStatus, NoDepositLeftBehind, Drafting, Unfunded, Resolved
    <2> QED BY <2>1, <2>3, <2>4 DEF PoolInv, Balanced
<1>4. ASSUME RewardPaidIn PROVE PoolInv'
    <2>1. PICK amount \in Nat :
              pool' = collectResolutionRewardDeposit(emptySetup(pool), amount)
        BY <1>4 DEF RewardPaidIn
    <2>2. Balanced(emptySetup(pool))
        BY <1>0, SweepingBalances
    <2>3. Balanced(pool')
        BY <2>1, <2>2, CollectingBalances
    <2>4. pool'.challengeBonds = pool.challengeBonds /\ pool'.setup = 0
        BY <1>0, <2>1 DEF emptySetup, collectResolutionRewardDeposit, PoolRecord
    <2>5. BondHeldWhileOpen'
        BY <1>0, <1>4, <2>4, BondsRest DEF RewardPaidIn
    <2>6. DepositsMatchStatus' /\ NoDepositLeftBehind'
        BY <1>4, <2>4
        DEF RewardPaidIn, DepositsMatchStatus, NoDepositLeftBehind, Drafting, Unfunded, Resolved
    <2> QED BY <2>3, <2>5, <2>6 DEF PoolInv, Balanced
<1> QED BY <1>1, <1>2, <1>3, <1>4

\* The reward deposit: paid out and swept, or claimed.
LEMMA RewardStepsKeepPool ==
    ASSUME CustodyType, PoolInv, RewardPaidOut \/ RewardsClaimed
    PROVE  PoolInv'
<1>0. /\ vault \in VaultRecord /\ Balanced(pool) /\ pool \in PoolRecord
      /\ BondHeldWhileOpen /\ DepositsMatchStatus
    BY DEF CustodyType, PoolInv, Balanced
<1>1. ASSUME RewardPaidOut PROVE PoolInv'
    <2>1. PICK paid :
              /\ pool' = emptyReward(paid) /\ Balanced(paid) /\ paid \in PoolRecord
              /\ paid.challengeBonds = pool.challengeBonds /\ paid.setup = pool.setup
        <3>1. CASE pool' = emptyReward(pool)
            BY <1>0, <3>1
        <3>2. ASSUME NEW reqs \in Requests,
                     pool' = emptyReward(allocateResolutionRewards(pool, reqs))
              PROVE  \E paid :
                         /\ pool' = emptyReward(paid) /\ Balanced(paid) /\ paid \in PoolRecord
                         /\ paid.challengeBonds = pool.challengeBonds
                         /\ paid.setup = pool.setup
            <4> DEFINE paid == allocateResolutionRewards(pool, reqs)
            <4>1. Balanced(paid) /\ paid \in PoolRecord
                BY <1>0, AllocationBalances DEF Balanced
            <4>2. paid.challengeBonds = pool.challengeBonds /\ paid.setup = pool.setup
                BY <1>0, AllocationsLeave
            <4>3. pool' = emptyReward(paid)
                BY <3>2
            <4> HIDE DEF paid
            <4> QED BY <4>1, <4>2, <4>3
        <3> QED BY <1>1, <3>1, <3>2 DEF RewardPaidOut
    <2>2. Balanced(pool')
        BY <2>1, SweepingBalances
    <2>3. /\ pool'.challengeBonds = pool.challengeBonds /\ pool'.setup = pool.setup
          /\ pool'.reward = 0
        BY <2>1 DEF emptyReward, PoolRecord
    <2>4. BondHeldWhileOpen'
        BY <1>0, <1>1, <2>3, BondsRest DEF RewardPaidOut
    <2>5. DepositsMatchStatus' /\ NoDepositLeftBehind'
        BY <1>0, <1>1, <2>3
        DEF RewardPaidOut, DepositsMatchStatus, NoDepositLeftBehind, Drafting, RoundPhases,
            RevealPhases
    <2> QED BY <2>2, <2>4, <2>5 DEF PoolInv, Balanced
<1>2. ASSUME RewardsClaimed PROVE PoolInv'
    <2>1. PICK a \in Accounts :
          \E pov \in 0 .. pool.claimable[a], native \in 0 .. pool.claimableSetup[a] :
              pool' = [pool EXCEPT !.claimable[a] = @ - pov, !.heldPov = @ - pov,
                                   !.claimableSetup[a] = @ - native,
                                   !.heldNative = @ - native]
        BY <1>2 DEF RewardsClaimed
    <2>2. PICK pov \in 0 .. pool.claimable[a], native \in 0 .. pool.claimableSetup[a] :
              pool' = [pool EXCEPT !.claimable[a] = @ - pov, !.heldPov = @ - pov,
                                   !.claimableSetup[a] = @ - native,
                                   !.heldNative = @ - native]
        BY <2>1
    <2>3. Balanced(pool')
        BY <1>0, <2>2, ClaimBalances
    <2>4. /\ pool'.challengeBonds = pool.challengeBonds
          /\ pool'.setup = pool.setup /\ pool'.reward = pool.reward
        BY <1>0, <2>2 DEF PoolRecord
    <2>5. BondHeldWhileOpen'
        BY <1>0, <1>2, <2>4, BondsRest DEF RewardsClaimed
    <2> QED BY <1>2, <2>3, <2>4, <2>5
            DEF RewardsClaimed, PoolInv, Balanced, DepositsMatchStatus, NoDepositLeftBehind
<1> QED BY <1>1, <1>2

\* A challenge's bond, paid in and paid out.
LEMMA OpeningKeepsPool ==
    ASSUME CustodyType, RoundInv, PoolInv, BondPaidIn
    PROVE  PoolInv'
<1> DEFINE id == Len(round.challenges) + 1
<1>1. /\ vault.status \in Open /\ vault'.status \in Open
      /\ vault.status \notin Drafting \cup Unfunded \cup Resolved
      /\ vault'.status \notin Drafting \cup Unfunded \cup Resolved
      /\ id <= MaxChallenges
      /\ pool' = collectChallengeBond(pool, id, fees.challengeBond)
    BY DEF BondPaidIn, Open, Drafting, VaultStatus, Unfunded, Resolved
<1>c. PICK challenger \in Accounts, target \in Agents :
          openChallenge(challenger, target, fees.challengeBond)
    BY DEF BondPaidIn
<1>2. /\ Balanced(pool) /\ pool \in PoolRecord /\ BondHeldWhileOpen /\ DepositsMatchStatus
      /\ fees \in FeeSchedules /\ fees.challengeBond \in Nat /\ round \in RoundRecord
      /\ MaxChallenges \in Nat
    BY FeesAreSchedules, BoundsAreNat
    DEF PoolInv, Balanced, CustodyType, RoundInv, FeeSchedule
<1>3. Len(round.challenges) \in Nat /\ id \in 1 .. MaxChallenges
    BY <1>1, <1>2, ChallengesAreNumbered
<1>4. Balanced(pool')
    BY <1>1, <1>2, <1>3, ChallengeBondsBalance
<1>5. /\ round'.challenges[id].bondAmount = fees.challengeBond
      /\ \A i \in 1 .. Len(round.challenges) : round'.challenges[i] = round.challenges[i]
      /\ openChallenges' = openChallenges \cup {id}
    <2>1. /\ round'.challenges[id]
                 = [challenger |-> challenger, target |-> target,
                    bondAmount |-> fees.challengeBond, status |-> "Open"]
          /\ \A i \in 1 .. Len(round.challenges) : round'.challenges[i] = round.challenges[i]
          /\ openChallenges' = openChallenges \cup {id}
        BY <1>c, <1>2, OpeningAppends, Zenon
    <2> QED BY <2>1
<1>6. openChallenges \subseteq 1 .. Len(round.challenges)
    BY <1>2, ChallengesAreNumbered DEF openChallenges
<1>7. /\ pool'.setup = pool.setup /\ pool'.reward = pool.reward
      /\ pool.challengeBonds \in [1 .. MaxChallenges -> Nat]
      /\ pool'.challengeBonds
             = [pool.challengeBonds EXCEPT ![id] = @ + fees.challengeBond]
    BY <1>1, <1>2 DEF collectChallengeBond, PoolRecord
<1>8. pool.challengeBonds[id] = 0
    BY <1>2, <1>3, <1>6 DEF BondHeldWhileOpen
<1>9. BondHeldWhileOpen'
    <2>1. ASSUME NEW i \in 1 .. MaxChallenges
          PROVE  pool'.challengeBonds[i] = IF i \in openChallenges'
                                           THEN round'.challenges[i].bondAmount ELSE 0
        <3>1. CASE i = id
            BY <1>2, <1>5, <1>7, <1>8, <2>1, <3>1
        <3>2. CASE i # id
            <4>1. /\ pool'.challengeBonds[i] = pool.challengeBonds[i]
                  /\ i \in openChallenges' <=> i \in openChallenges
                BY <1>5, <1>7, <2>1, <3>2
            <4>2. i \in openChallenges => round'.challenges[i] = round.challenges[i]
                BY <1>5, <1>6
            <4> QED BY <1>2, <2>1, <4>1, <4>2 DEF BondHeldWhileOpen
        <3> QED BY <3>1, <3>2
    <2> QED BY <2>1 DEF BondHeldWhileOpen
<1>10. DepositsMatchStatus' /\ NoDepositLeftBehind'
    BY <1>1, <1>2, <1>7 DEF DepositsMatchStatus, NoDepositLeftBehind, Unfunded
<1> QED BY <1>4, <1>9, <1>10 DEF PoolInv, Balanced

LEMMA ClosingKeepsPool ==
    ASSUME CustodyType, RoundInv, PoolInv, BondPaidOut
    PROVE  PoolInv'
<1>a. PICK id \in DOMAIN round.challenges, successful \in BOOLEAN :
          LET closed == payChallengeBond(pool, id, round.challenges[id].bondAmount)
          IN  /\ closeChallenge(id, successful)
              /\ \/ pool' = closed
                 \/ \E reqs \in Requests : pool' = allocateResolutionRewards(closed, reqs)
    BY DEF BondPaidOut
<1> DEFINE challenge == round.challenges[id]
           closed == payChallengeBond(pool, id, challenge.bondAmount)
<1>1. /\ closeChallenge(id, successful) /\ UNCHANGED vault
      /\ pool' = closed \/ \E reqs \in Requests : pool' = allocateResolutionRewards(closed, reqs)
    BY <1>a DEF BondPaidOut
<1>2. /\ Balanced(pool) /\ pool \in PoolRecord /\ BondHeldWhileOpen /\ DepositsMatchStatus
      /\ NoDepositLeftBehind
      /\ round \in RoundRecord
      /\ Len(round.challenges) <= MaxChallenges /\ MaxChallenges \in Nat
    BY BoundsAreNat DEF PoolInv, Balanced, RoundInv
<1>3. /\ challenge \in Challenge /\ challenge.bondAmount \in Nat
      /\ Len(round.challenges) \in Nat /\ DOMAIN round.challenges = 1 .. Len(round.challenges)
    BY <1>2, ChallengesAreNumbered DEF Challenge
<1>4. id \in 1 .. MaxChallenges
    BY <1>2, <1>3
<1>5. /\ id \in openChallenges /\ openChallenges' = openChallenges \ {id}
      /\ \A i \in DOMAIN round.challenges :
             round'.challenges[i].bondAmount = round.challenges[i].bondAmount
    BY <1>1, <1>2, ClosingKeepsTheRest
<1>6. pool.challengeBonds[id] = challenge.bondAmount
    BY <1>2, <1>4, <1>5 DEF BondHeldWhileOpen
<1>7. Balanced(closed)
    BY <1>2, <1>3, <1>4, <1>6, ChallengeBondsBalance
<1>8. /\ closed \in PoolRecord
      /\ closed.setup = pool.setup /\ closed.reward = pool.reward
      /\ closed.challengeBonds
             = [pool.challengeBonds EXCEPT ![id] = @ - challenge.bondAmount]
      /\ pool.challengeBonds \in [1 .. MaxChallenges -> Nat]
    BY <1>2, <1>7 DEF Balanced, payChallengeBond, PoolRecord
<1> HIDE DEF closed
<1>9. Balanced(pool')
    BY <1>1, <1>7, AllocationBalances
<1>10. pool'.challengeBonds = closed.challengeBonds /\ pool'.setup = pool.setup
    BY <1>1, <1>8, AllocationsLeave
<1>11. BondHeldWhileOpen'
    <2>1. ASSUME NEW i \in 1 .. MaxChallenges
          PROVE  pool'.challengeBonds[i] = IF i \in openChallenges'
                                           THEN round'.challenges[i].bondAmount ELSE 0
        <3>1. CASE i = id
            <4>1. pool'.challengeBonds[id] = pool.challengeBonds[id] - challenge.bondAmount
                BY <1>4, <1>8, <1>10
            <4>2. pool'.challengeBonds[id] = 0
                BY <1>3, <1>6, <4>1
            <4> QED BY <1>5, <3>1, <4>2
        <3>2. CASE i # id
            <4>1. /\ pool'.challengeBonds[i] = pool.challengeBonds[i]
                  /\ i \in openChallenges' <=> i \in openChallenges
                BY <1>5, <1>8, <1>10, <2>1, <3>2
            <4>2. i \in openChallenges =>
                      round'.challenges[i].bondAmount = round.challenges[i].bondAmount
                BY <1>5 DEF openChallenges
            <4> QED BY <1>2, <2>1, <4>1, <4>2 DEF BondHeldWhileOpen
        <3> QED BY <3>1, <3>2
    <2> QED BY <2>1 DEF BondHeldWhileOpen
<1>12. vault.status \in RoundPhases
    BY <1>5 DEF RoundInv
<1>13. DepositsMatchStatus' /\ NoDepositLeftBehind'
    BY <1>1, <1>2, <1>10, <1>12
    DEF DepositsMatchStatus, NoDepositLeftBehind, Drafting, Unfunded, Resolved, RoundPhases,
        RevealPhases
<1> QED BY <1>9, <1>11, <1>13 DEF PoolInv, Balanced

\* So the pool keeps in order whichever of these a step is.
LEMMA PoolStepKeepsPool == CustodyType /\ RoundInv /\ PoolInv /\ PoolStep => PoolInv'
BY RestingKeepsPool, SetupStepsKeepPool, RewardStepsKeepPool, OpeningKeepsPool, ClosingKeepsPool
DEF PoolStep

-----------------------------------------------------------------------------
\* So a factory that keeps all this in order keeps every variable in its type.
LEMMA LayersAreTyped ==
    ASSUME CustodyInv, RecordsInv, PoolInv, Covered(bonds, stake)
    PROVE  TypeOK
<1>1. /\ vault \in VaultRecord /\ resolution \in ResolutionRecord
      /\ escrow \in [initialized : BOOLEAN, lockedAmount : Nat, settled : BOOLEAN]
      /\ collateral \in [Holders -> Nat] /\ fees \in FeeSchedules
    BY DEF CustodyInv, CustodyType
<1>2. CommitteesInv /\ SubmissionsInv /\ round \in RoundRecord /\ SurroundingsInv
    BY DEF RecordsInv, RoundInv
<1>3. pool \in PoolRecord /\ stake \in [Accounts -> Nat] /\ bonds \in BondRecords
    BY DEF PoolInv, Balanced, Covered
<1> QED BY <1>1, <1>2, <1>3, Zenon
        DEF TypeOK, VaultRecord, ResolutionRecord, CommitteesInv, SubmissionsInv, RoundRecord,
            SurroundingsInv, PoolRecord, BondRecords, BondRecord
=============================================================================
