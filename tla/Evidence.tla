------------------------------- MODULE Evidence -------------------------------
(***************************************************************************)
(* The market evidence of a submission.  Preparing or submitting collects  *)
(* snapshots from OKX (find the token, ask its price, or settle for the    *)
(* list of chains), each question two posts that are tried again once when *)
(* they time out, and merges them with the sources the client sent into    *)
(* the proof.  A policy decides whether a reveal may do without a price.   *)
(*                                                                         *)
(* A hash is the record it is taken of.  A price is the time it was quoted *)
(* at, 0 when there is none.  What else a submission meets is Submissions. *)
(***************************************************************************)
EXTENDS Integers, Sequences, FiniteSets

CONSTANTS
    Requests,
    Kinds,        \* kinds of submission that are made
    Tokens,       \* contract addresses
    Collateral,   \* the vault's token, or "none" when it is not known
    Named,        \* the address in the statement, or "none"
    Provider,     \* "okx-market-mcp" or "mock-okx-market-skill"
    Real,         \* the policy that reveals carry real snapshots
    Ways,         \* submissions are "prepared" before they are sent, or "direct"
    Sources,      \* what clients put in: subsets of {"forged", "copied"}
    Faults,       \* posts fail or time out
    MaxTime, MaxCalls   \* bounds

EvidenceAssumption ==
    /\ {Collateral, Named} \subseteq Tokens \cup {"none"} /\ "none" \notin Tokens
    /\ Provider \in {"okx-market-mcp", "mock-okx-market-skill"}
    /\ Sources \subseteq {"forged", "copied"} /\ Ways \subseteq {"prepared", "direct"}
    /\ {Real, Faults} \subseteq BOOLEAN /\ MaxTime \in Nat \ {0} /\ MaxCalls \in Nat

VARIABLES
    time,       \* of the market
    drafts,     \* tokens the stored rule drafts name, oldest first
    request,
    prepared,   \* bodies that prepare has answered
    proofs,     \* what submitting has stored
    quoted,     \* prices OKX has quoted (a record of the past)
    calls

vars == <<time, drafts, request, prepared, proofs, quoted, calls>>

NoToken == [token |-> "none", chain |-> "home", price |-> 0]
NoHash == [kind |-> "none", payload |-> {}, snapshots |-> {}]
NoBody == [kind |-> "none", sources |-> {}, proofHash |-> NoHash]
Idle == [pc |-> "idle", for |-> "none", body |-> NoBody, token |-> "none", terms |-> <<>>,
         candidate |-> NoToken, stage |-> "initialize", tries |-> 0, snapshots |-> {}]

Init ==
    /\ time = 1 /\ drafts = <<>> /\ prepared = {} /\ proofs = {} /\ quoted = {} /\ calls = 0
    /\ request = [r \in Requests |-> Idle]

-----------------------------------------------------------------------------
(* Snapshots.  Whose they are and what their metadata claims; a copied     *)
(* source is a quote the client took from OKX itself, its metadata its own.*)
snapshot(provider, token, value, meta) ==
    [provider |-> provider, token |-> token, value |-> value, meta |-> meta]

sourceOf(s) ==
    snapshot("okx-market-mcp", "none", IF s = "copied" THEN time ELSE MaxTime + 1,
             IF s = "copied" THEN "plain" ELSE "trusted")

(* Drafts, reveals and challenges have sources.  A reveal may bring a hash *)
(* of its own: the page's is of the payload alone, which stands for every  *)
(* hash a client makes, and one that was prepared can come with any body.  *)
body(k, ss) == [NoBody EXCEPT !.kind = k, !.sources = {sourceOf(s) : s \in ss}]
hashPayload(b, snapshots) == [kind |-> b.kind, payload |-> b.sources, snapshots |-> snapshots]
createResolutionProofHash(b) == hashPayload(b, {})
hashes(b) == {createResolutionProofHash(b)} \cup {x.proofHash : x \in prepared}
Bodies ==
    LET plain == {body(k, {}) : k \in Kinds}
                 \cup {body(k, ss) : k \in Kinds \cap {"rule_draft", "resolution_reveal", "public_challenge"},
                                    ss \in SUBSET Sources}
        reveals == {b \in plain : b.kind = "resolution_reveal"}
    IN  plain \cup UNION {{[b EXCEPT !.proofHash = h] : h \in hashes(b)} : b \in reveals}

isOkxMarketSnapshot(s) == s.provider = "okx-market-mcp" /\ s.meta = "trusted"
hasOkxMarketSnapshot(ss) == \E s \in ss : isOkxMarketSnapshot(s)

(* Two snapshots are one when provider and value are, whatever their       *)
(* metadata says; the client's stays. *)
sameKey(s, q) == s.provider = q.provider /\ s.value = q.value
mergeSnapshots(existing, collected) ==
    existing \cup {s \in collected : ~\E e \in existing : sameKey(s, e)}

(* The newest draft's token comes before the vault's own. *)
deriveMarketContext(own) ==
    IF own # "none" THEN own
    ELSE IF drafts # <<>> THEN drafts[Len(drafts)] ELSE Collateral

collectSearchTerms(token) ==
    (IF Named # "none" THEN <<Named>> ELSE <<>>)
    \o (IF token = "symbol" THEN <<token>> ELSE <<>>) \o <<"statement">>

(* Rows of other chains are dropped; an address is a candidate even when   *)
(* no row has it, another term only with its first row.                    *)
rowsHere_All(rows) == DOMAIN rows
rowsHere(rows) == {i \in DOMAIN rows : rows[i].chain = "home"}
resolveCandidateFromRows(rows, term) ==
    LET exact == {i \in rowsHere(rows) : rows[i].token = term}
        first(positions) == rows[CHOOSE i \in positions : \A j \in positions : i <= j]
    IN  IF term \in Tokens
          THEN IF exact = {} THEN [NoToken EXCEPT !.token = term] ELSE first(exact)
          ELSE IF rowsHere(rows) = {} THEN NoToken ELSE first(rowsHere(rows))

buildSnapshot(r, value) ==
    snapshot(Provider, request[r].candidate.token,
             IF value > 0 THEN value ELSE request[r].candidate.price,
             IF value > 0 THEN "trusted" ELSE "synthetic")

-----------------------------------------------------------------------------
(* A request begins: what it is about decides whether there is a token to  *)
(* ask the price of, or terms to search with.                              *)
begin(r, for, with, own) ==
    LET token == deriveMarketContext(own)
        known == token \in Tokens
    IN  /\ request[r].pc = "idle" /\ calls < MaxCalls /\ calls' = calls + 1
        /\ request' = [request EXCEPT ![r] =
              [Idle EXCEPT !.for = for, !.body = with, !.token = token,
                 !.terms = IF known THEN <<>> ELSE collectSearchTerms(token),
                 !.candidate = IF known THEN [NoToken EXCEPT !.token = token] ELSE NoToken,
                 !.pc = CASE with.kind = "resolution_commit" -> "collected"
                          [] Provider # "okx-market-mcp" -> "mock"
                          [] OTHER -> IF known THEN "price" ELSE "search"]]
        /\ UNCHANGED <<time, drafts, prepared, proofs, quoted>>

Own(kind) == IF kind = "rule_draft" THEN Tokens \cup {"none", "symbol"} ELSE {"none"}

prepare(r) ==
    "prepared" \in Ways /\ \E b \in Bodies : \E own \in Own(b.kind) : begin(r, "prepare", b, own)
submit(r) ==
    \/ \E b \in prepared : begin(r, "submit", b, "none")
    \/ "direct" \in Ways /\ \E b \in Bodies : \E own \in Own(b.kind) : begin(r, "submit", b, own)

goes(r, q) == request' = [request EXCEPT ![r] = [q EXCEPT !.stage = "initialize", !.tries = 0]]

(* Each question is a session's first post and the post of the question.   *)
(* A post that times out is made again over IPv4, once.                    *)
asking(r) == request[r].pc \in {"search", "price", "chains"}

postOkxJson(r) ==
    request' = [request EXCEPT ![r] = IF @.tries = 0 THEN [@ EXCEPT !.tries = 1] ELSE Idle]

timedOut(r) ==
    /\ Faults /\ asking(r) /\ postOkxJson(r)
    /\ UNCHANGED <<time, drafts, prepared, proofs, quoted, calls>>
failed(r) ==
    /\ Faults /\ asking(r) /\ request' = [request EXCEPT ![r] = Idle]
    /\ UNCHANGED <<time, drafts, prepared, proofs, quoted, calls>>
initializeOkxMcpSession(r) ==
    /\ asking(r) /\ request[r].stage = "initialize"
    /\ request' = [request EXCEPT ![r].stage = "call", ![r].tries = 0]
    /\ UNCHANGED <<time, drafts, prepared, proofs, quoted, calls>>

(* What OKX finds: nothing, or rows that may be of another chain and may   *)
(* have a price. *)
Rows ==
    LET row == [token : Tokens, chain : {"home", "other"}, price : {0, time}]
    IN  {<<>>} \cup {<<w>> : w \in row} \cup {<<w, x>> : w \in row, x \in {y \in row : y.chain = "home"}}

callOkxMcpTool(r, tool) == request[r].pc = tool /\ request[r].stage = "call"

discoverTokenCandidate(r) ==
    /\ callOkxMcpTool(r, "search")
    /\ \E rows \in Rows :
        LET q == request[r]
            found == resolveCandidateFromRows(rows, Head(q.terms))
        IN  IF found.token # "none" THEN goes(r, [q EXCEPT !.pc = "price", !.candidate = found])
            ELSE goes(r, [q EXCEPT !.terms = Tail(@), !.pc = IF Len(q.terms) > 1 THEN @ ELSE "chains"])
    /\ UNCHANGED <<time, drafts, prepared, proofs, quoted, calls>>

priceInfo(r) ==
    /\ callOkxMcpTool(r, "price")
    /\ \E value \in {0, time} :
        /\ goes(r, [request[r] EXCEPT !.pc = "collected", !.snapshots = {buildSnapshot(r, value)}])
        /\ quoted' = IF value = 0 THEN quoted
                     ELSE quoted \cup {[token |-> request[r].candidate.token,
                                        chain |-> request[r].candidate.chain, value |-> value]}
    /\ UNCHANGED <<time, drafts, prepared, proofs, calls>>

priceChains(r) ==
    /\ callOkxMcpTool(r, "chains")
    /\ goes(r, [request[r] EXCEPT !.pc = "collected",
                                  !.snapshots = {snapshot(Provider, "none", 0, "synthetic")}])
    /\ UNCHANGED <<time, drafts, prepared, proofs, quoted, calls>>

mockSnapshots(r) ==
    /\ request[r].pc = "mock"
    /\ goes(r, [request[r] EXCEPT !.pc = "collected",
                                  !.snapshots = {snapshot(Provider, "none", 1, "synthetic")}])
    /\ UNCHANGED <<time, drafts, prepared, proofs, quoted, calls>>

-----------------------------------------------------------------------------
(* The proof of a submission, by kind.  Only a reveal is held to the       *)
(* policy, and only a reveal may bring its own hash.                       *)
assertOkxResolutionRevealSources(r) == hasOkxMarketSnapshot(request[r].snapshots)

proofSnapshots(r) ==
    LET q == request[r]
        trusted == {s \in q.snapshots : isOkxMarketSnapshot(s)}
    IN  CASE q.body.kind \in {"rule_draft", "public_challenge"} -> mergeSnapshots(q.body.sources, q.snapshots)
          [] q.body.kind = "resolution_reveal" ->
                mergeSnapshots(q.body.sources, IF Real THEN trusted ELSE q.snapshots)
          [] OTHER -> q.snapshots

proofHash(r) ==
    LET b == request[r].body IN
    IF b.kind = "resolution_reveal" /\ b.proofHash # NoHash THEN b.proofHash
    ELSE hashPayload(b, proofSnapshots(r))

allowed(r) ==
    Real /\ request[r].body.kind = "resolution_reveal" => assertOkxResolutionRevealSources(r)

prepareSubmissionArtifacts(r) ==
    LET b == request[r].body IN
    /\ request[r].pc = "collected" /\ request' = [request EXCEPT ![r] = Idle]
    /\ IF ~allowed(r) THEN UNCHANGED <<prepared, proofs, drafts>>
       ELSE IF request[r].for = "prepare"
         THEN /\ prepared' = prepared \cup
                    {IF b.kind = "resolution_reveal" THEN [b EXCEPT !.proofHash = proofHash(r)] ELSE b}
              /\ UNCHANGED <<proofs, drafts>>
         ELSE /\ proofs' = proofs \cup
                    {[kind |-> b.kind, payload |-> b.sources, snapshots |-> proofSnapshots(r),
                      proofHash |-> IF b.kind = "resolution_commit" THEN NoHash ELSE proofHash(r)]}
              /\ drafts' = IF b.kind = "rule_draft" /\ request[r].token # "none"
                           THEN Append(drafts, request[r].token) ELSE drafts
              /\ UNCHANGED prepared
    /\ UNCHANGED <<time, quoted, calls>>

tick == time < MaxTime /\ time' = time + 1 /\ UNCHANGED <<drafts, request, prepared, proofs, quoted, calls>>

progress(r) ==
    \/ timedOut(r) \/ failed(r) \/ initializeOkxMcpSession(r)
    \/ discoverTokenCandidate(r) \/ priceInfo(r) \/ priceChains(r) \/ mockSnapshots(r)
    \/ prepareSubmissionArtifacts(r)

Next == tick \/ \E r \in Requests : prepare(r) \/ submit(r) \/ progress(r)

(* An answer arrives, or the 30 second limit of a post does. *)
Spec == Init /\ [][Next]_vars /\ \A r \in Requests : WF_vars(progress(r))

-----------------------------------------------------------------------------
Snapshot == [provider : {"okx-market-mcp", "mock-okx-market-skill"}, token : Tokens \cup {"none"},
             value : 0..MaxTime + 1, meta : {"trusted", "synthetic", "plain"}]

(* Snapshots keep their shape; only a search still has terms, and a        *)
(* question is only asked about a token once one is known. *)
TypeOK ==
    /\ time \in 1..MaxTime /\ calls \in 0..MaxCalls
    /\ \A p \in proofs : p.snapshots \subseteq Snapshot /\ p.payload \subseteq Snapshot
    /\ \A r \in Requests :
        LET q == request[r] IN
        /\ q.tries \in {0, 1} /\ q.snapshots \subseteq Snapshot
        /\ q.pc = "search" => q.terms # <<>>
        /\ q.pc = "price" => q.candidate.token \in Tokens

(* A snapshot that the policy trusts is a price that OKX quoted, of that   *)
(* token, on the chain the vaults are on: never the price a search row     *)
(* showed, never a token of the same name elsewhere (discoverTokenCandidate, *)
(* buildSnapshot). *)
TrustedIsQuoted ==
    \A r \in Requests : \A s \in request[r].snapshots :
        isOkxMarketSnapshot(s) =>
            [token |-> s.token, chain |-> "home", value |-> s.value] \in quoted

(* Under the real policy a stored reveal shows a price that OKX quoted to  *)
(* the API, whatever the client's sources claim, and so does what its hash *)
(* is of, if this is of snapshots at all: one that was prepared is of      *)
(* earlier snapshots than those stored (prepareSubmissionArtifacts). *)
shows(snapshots) ==
    \E s \in snapshots, q \in quoted :
        s.provider = "okx-market-mcp" /\ s.value = q.value /\ q.chain = "home"
RevealGrounded ==
    Real => \A p \in proofs : p.kind = "resolution_reveal" =>
        shows(p.snapshots) /\ (p.proofHash.snapshots # {} => shows(p.proofHash.snapshots))

(* A stored proof hash is the hash of the payload and the snapshots that   *)
(* are stored with it (test "keeps proof snapshots aligned with the        *)
(* persisted proof hash"), unless a reveal brought one that its client     *)
(* made of the payload alone or that was prepared. *)
ProofAligned ==
    \A p \in proofs : p.kind # "resolution_commit" =>
        \/ p.proofHash = hashPayload([kind |-> p.kind, sources |-> p.payload], p.snapshots)
        \/ /\ p.kind = "resolution_reveal"
           /\ p.proofHash.snapshots = {} \/ \E b \in prepared : p.proofHash = b.proofHash

=============================================================================
