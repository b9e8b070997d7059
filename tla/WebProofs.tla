------------------------------- MODULE WebProofs -------------------------------
(***************************************************************************)
(* What the pages promise, for any number of tabs, agents, accounts,       *)
(* wallets, vaults and faults.  No promise is inductive by itself; each    *)
(* part below says what is known between two of its page's steps.          *)
(*                                                                         *)
(* The committee members' page: what is revealed is what was committed, a  *)
(* commit stays usable, and a submission is made in its author's session.  *)
(* A reveal on its way, and the draft it is made from, must already be     *)
(* backed by a stored commit, and a commit on its way must carry the hash  *)
(* of what it says (IInv).  That salts are kept needs a commit on its way  *)
(* to have one that no stored commit and no other tab has (SaltInv); whose *)
(* session it is needs the author to have been found in the committee      *)
(* (SeatInv).                                                              *)
(*                                                                         *)
(* Vault creation: a payment carries what its page was asked for           *)
(* (CreationInv), and all that are lost are counted (LossInv).  Rule       *)
(* decisions: DecisionInv says which transaction a page has sent, SpendInv *)
(* what each allowance is, HeardInv which decisions the API has not heard  *)
(* of.  The connected wallet: ListenInv says whom the page listens to, and *)
(* CurrentInv what the call that began last has heard.                     *)
(***************************************************************************)
EXTENDS Web, FiniteSetTheorems, SequenceTheorems, TLAPS

(* What is in a set that one element may have joined.                      *)
LEMMA OneMore ==
  ASSUME NEW L, NEW M, NEW x, IsFiniteSet(L), M \subseteq L \cup {x}
  PROVE  IsFiniteSet(M) /\ Cardinality(M) \in Nat /\ Cardinality(M) <= Cardinality(L) + 1
<1>1. /\ IsFiniteSet(L \cup {x})
      /\ Cardinality(L \cup {x}) = IF x \in L THEN Cardinality(L) ELSE Cardinality(L) + 1
  BY FS_AddElement
<1>2. Cardinality(L) \in Nat
  BY FS_CardinalityType
<1>3. Cardinality(L \cup {x}) <= Cardinality(L) + 1
  BY <1>1, <1>2
<1>4. IsFiniteSet(M) /\ Cardinality(M) <= Cardinality(L \cup {x})
  BY <1>1, FS_Subset
<1>5. Cardinality(M) \in Nat /\ Cardinality(L \cup {x}) \in Nat
  BY <1>1, <1>4, FS_CardinalityType
<1> QED BY <1>2, <1>3, <1>4, <1>5

Who == Agents \cup {NoAgent}
What == Contents \cup {NoContent}
Hash == {<<>>} \cup (Who \X Nat \X What)
Steps == {"idle", "session", "fetch", "upload", "post", "load"}
Kinds == {"none", "commit", "reveal", "issue"}
Draft == [agent : Who, content : What, hash : Hash, salt : Nat]
Call == [pc : Steps, kind : Kinds, agent : Who, round : Nat, content : What, hash : Hash, salt : Nat]
Page == [seen : Nat, content : What, commitTx : BOOLEAN, revealTx : BOOLEAN, draft : Draft, call : Call]

(* x is backed by a commit among the submissions S. *)
Backed(x, S) ==
    \E c \in S : /\ c.kind = "commit" /\ c.agent = x.agent /\ c.content = x.content
                 /\ c.salt = x.salt /\ c.hash = x.hash
                 /\ x.hash = createResolutionProofHash(x.agent, c.round, x.content)

PageOK(p, S) ==
    /\ p.commitTx => Backed(p.draft, S)
    /\ p.call.kind = "commit" => p.call.hash = createResolutionProofHash(p.call.agent, p.call.round, p.call.content)
    /\ p.call.kind = "reveal" => Backed(p.call, S)
    /\ p.call.pc = "fetch" => p.call.kind = "issue"
    /\ p.call.pc # "idle" => p.call.kind # "none"

Pages(T, S) == T \in [Tabs -> Page] /\ \A t \in Tabs : PageOK(T[t], S)

IInv ==
    /\ round \in Nat /\ account \in Agents /\ salts \in Nat
    /\ Pages(tab, subs)
    /\ \A r \in subs : r.kind = "reveal" => Backed(r, subs)

(* More submissions back no less. *)
LEMMA MoreBacks ==
  ASSUME NEW S, NEW T, S \subseteq T
  PROVE  /\ \A x : Backed(x, S) => Backed(x, T)
         /\ \A p : PageOK(p, S) => PageOK(p, T)
  BY Zenon DEF Backed, PageOK

(* One page is written while submissions grow. *)
LEMMA PageWritten ==
  ASSUME NEW F, NEW G, NEW S, NEW T, Pages(F, S), S \subseteq T,
         NEW t \in Tabs, NEW p \in Page, PageOK(p, T), G = [F EXCEPT ![t] = p]
  PROVE  Pages(G, T)
<1>1. G \in [Tabs -> Page]
  BY DEF Pages
<1>2. ASSUME NEW u \in Tabs PROVE PageOK(G[u], T)
  <2>1. PageOK(F[u], T)
    BY MoreBacks DEF Pages
  <2>2. G[u] = IF u = t THEN p ELSE F[u]
    BY DEF Pages
  <2> QED BY <2>1, <2>2
<1> QED BY <1>1, <1>2 DEF Pages

LEMMA HashesAreHashes ==
  /\ <<>> \in Hash
  /\ \A a \in Who, r \in Nat, c \in What : createResolutionProofHash(a, r, c) \in Hash
<1>1. <<>> \in Hash
  BY Zenon DEF Hash
<1>2. \A a \in Who, r \in Nat, c \in What : <<a, r, c>> \in Hash
  BY Zenon DEF Hash
<1> QED BY <1>1, <1>2 DEF createResolutionProofHash

LEMMA DraftsAndCalls ==
  ASSUME NEW a \in Who, NEW c \in What, NEW h \in Hash, NEW s \in Nat
  PROVE  /\ [agent |-> a, content |-> c, hash |-> h, salt |-> s] \in Draft
         /\ \A pc \in Steps, k \in Kinds, r \in Nat :
               [pc |-> pc, kind |-> k, agent |-> a, round |-> r, content |-> c, hash |-> h, salt |-> s] \in Call
  BY DEF Draft, Call

LEMMA NamesOfCalls ==
  /\ "idle" \in Steps /\ "session" \in Steps /\ "fetch" \in Steps
  /\ "upload" \in Steps /\ "post" \in Steps /\ "load" \in Steps
  /\ "none" \in Kinds /\ "commit" \in Kinds /\ "reveal" \in Kinds /\ "issue" \in Kinds
  BY DEF Steps, Kinds

LEMMA EmptyPages == NoDraft \in Draft /\ NoCall \in Call /\ NewPage \in Page
<1>1. NoAgent \in Who /\ NoContent \in What
  BY DEF Who, What
<1>2. NoDraft \in Draft
  BY <1>1, HashesAreHashes, DraftsAndCalls, Zenon DEF NoDraft
<1>3. NoCall \in Call
  BY <1>1, HashesAreHashes, DraftsAndCalls, NamesOfCalls DEF NoCall
<1> QED BY <1>1, <1>2, <1>3 DEF NewPage, Page

LEMMA InitialPages == Init => IInv
<1> SUFFICES ASSUME Init PROVE IInv
  OBVIOUS
<1>1. NewPage \in Page
  BY EmptyPages
<1>2. PageOK(NewPage, subs)
  BY DEF NewPage, NoCall, PageOK
<1> QED BY <1>1, <1>2 DEF Init, IInv, Pages

(* An action that writes one page and no submission. *)
LEMMA OnlyAPage ==
  ASSUME IInv, NEW t \in Tabs, NEW p \in Page, PageOK(p, subs), becomes(t, p),
         round' = round, account' \in Agents, subs' = subs, salts' \in Nat
  PROVE  IInv'
<1>1. Pages(tab', subs')
  <2>1. tab' = [tab EXCEPT ![t] = p]
    BY DEF becomes
  <2> QED BY <2>1, PageWritten DEF IInv
<1> QED BY <1>1 DEF IInv

LEMMA PageStep ==
  ASSUME IInv, NEW t \in Tabs
  PROVE  tab[t] \in Page /\ PageOK(tab[t], subs)
  BY DEF IInv, Pages

(* A page whose call fails or moves on is still all right. *)
LEMMA CallFails ==
  ASSUME IInv, NEW t \in Tabs, fails(t), UNCHANGED <<world, subs, salts>>
  PROVE  IInv'
<1> DEFINE p == [tab[t] EXCEPT !.call = NoCall]
<1>1. p \in Page
  BY PageStep, EmptyPages DEF Page
<1>2. PageOK(p, subs)
  BY PageStep DEF PageOK, NoCall, Page
<1> QED BY <1>1, <1>2, OnlyAPage DEF fails, world, IInv

LEMMA CallGoesOn ==
  ASSUME IInv, NEW t \in Tabs, NEW pc \in Steps, pc # "fetch", ~at(t, "idle"), goes(t, pc), UNCHANGED <<world, subs, salts>>
  PROVE  IInv'
<1> DEFINE p == [tab[t] EXCEPT !.call.pc = pc]
<1>1. p \in Page /\ p.commitTx = tab[t].commitTx /\ p.draft = tab[t].draft
      /\ p.call = [tab[t].call EXCEPT !.pc = pc]
  BY PageStep DEF Page, Call
<1>2. PageOK(p, subs)
  BY <1>1, PageStep DEF PageOK, Backed, Page, Call, at
<1> QED BY <1>1, <1>2, OnlyAPage DEF goes, world, IInv

LEMMA EditKeeps ==
  ASSUME IInv, NEW t \in Tabs, edit(t)
  PROVE  IInv'
<1>1. PICK c \in Contents : becomes(t, [tab[t] EXCEPT !.content = c])
  BY DEF edit
<1> DEFINE p == [tab[t] EXCEPT !.content = c]
<1>2. p \in Page
  BY PageStep DEF Page, What
<1>3. PageOK(p, subs)
  BY PageStep DEF PageOK, Page
<1> QED BY <1>1, <1>2, <1>3, OnlyAPage DEF edit, world, IInv

LEMMA LoadKeeps ==
  ASSUME IInv, NEW t \in Tabs, loadVault(t)
  PROVE  IInv'
<1>1. CASE becomes(t, [tab[t] EXCEPT !.seen = round, !.call = NoCall])
  <2> DEFINE p == [tab[t] EXCEPT !.seen = round, !.call = NoCall]
  <2>1. p \in Page
    BY PageStep, EmptyPages DEF Page, IInv
  <2>2. PageOK(p, subs)
    BY PageStep DEF PageOK, NoCall, Page
  <2> QED BY <1>1, <2>1, <2>2, OnlyAPage DEF loadVault, world, IInv
<1>2. CASE fails(t)
  BY <1>2, CallFails DEF loadVault
<1> QED BY <1>1, <1>2 DEF loadVault

LEMMA ReloadKeeps ==
  ASSUME IInv, NEW t \in Tabs, reload(t)
  PROVE  IInv'
<1>1. PageOK(NewPage, subs)
  BY DEF NewPage, NoCall, PageOK
<1> QED BY <1>1, EmptyPages, OnlyAPage DEF reload, world, IInv

(* A new call: what it carries is right from the start. *)
LEMMA CommitKeeps ==
  ASSUME IInv, NEW t \in Tabs, handleCommit(t)
  PROVE  IInv'
<1> DEFINE q == [pc |-> "session", kind |-> "commit", agent |-> account, round |-> tab[t].seen,
                 content |-> tab[t].content,
                 hash |-> createResolutionProofHash(account, tab[t].seen, tab[t].content), salt |-> salts']
           p == [tab[t] EXCEPT !.call = q]
<1>1. becomes(t, p) /\ salts' = salts + 1 /\ UNCHANGED <<world, subs>>
  BY DEF handleCommit
<1>2. salts' \in Nat /\ account \in Who /\ tab[t].seen \in Nat /\ tab[t].content \in What
  BY <1>1, PageStep DEF IInv, Who, Page
<1>3. q \in Call
  <2>1. createResolutionProofHash(account, tab[t].seen, tab[t].content) \in Hash
    BY <1>2, HashesAreHashes, Zenon
  <2> QED BY <1>2, <2>1, DraftsAndCalls, NamesOfCalls
<1>4. p \in Page
  BY <1>3, PageStep DEF Page
<1>5. PageOK(p, subs)
  BY PageStep DEF PageOK, Page
<1> QED BY <1>1, <1>2, <1>4, <1>5, OnlyAPage DEF world, IInv

LEMMA RevealKeeps ==
  ASSUME IInv, NEW t \in Tabs, handleReveal(t)
  PROVE  IInv'
<1> DEFINE d == tab[t].draft
           q == [pc |-> "session", kind |-> "reveal", agent |-> account, round |-> tab[t].seen,
                 content |-> snapshot(tab[t]), hash |-> d.hash, salt |-> d.salt]
           p == [tab[t] EXCEPT !.call = q]
<1>1. becomes(t, p) /\ UNCHANGED <<world, subs, salts>> /\ tab[t].commitTx /\ account = d.agent
  BY DEF handleReveal
<1>2. q \in Call
  <2>1. d.hash \in Hash /\ d.salt \in Nat /\ snapshot(tab[t]) \in What /\ account \in Who /\ tab[t].seen \in Nat
    BY PageStep DEF IInv, Who, Page, Draft, snapshot
  <2> QED BY <2>1, DraftsAndCalls, NamesOfCalls
<1>3. p \in Page
  BY <1>2, PageStep DEF Page
<1>4. Backed(q, subs)
  BY <1>1, PageStep DEF PageOK, Backed, snapshot
<1>5. PageOK(p, subs)
  BY <1>4, PageStep DEF PageOK, Page
<1> QED BY <1>1, <1>3, <1>5, OnlyAPage DEF world, IInv

LEMMA IssueKeeps ==
  ASSUME IInv, NEW t \in Tabs, handleSubmitChallenge(t) \/ submitRuleChallenge(t)
  PROVE  IInv'
<1>1. CASE handleSubmitChallenge(t)
  <2> DEFINE q == [NoCall EXCEPT !.pc = "fetch", !.kind = "issue", !.agent = account]
             p == [tab[t] EXCEPT !.call = q]
  <2>1. becomes(t, p) /\ UNCHANGED <<world, subs, salts>>
    BY <1>1 DEF handleSubmitChallenge
  <2>2. q \in Call /\ q.kind = "issue"
    <3>1. account \in Who /\ NoCall \in Call
      BY EmptyPages DEF IInv, Who
    <3> QED BY <3>1, NamesOfCalls DEF Call
  <2>3. p \in Page
    BY <2>2, PageStep DEF Page
  <2>4. PageOK(p, subs)
    BY <2>2, PageStep DEF PageOK, Page
  <2> QED BY <2>1, <2>3, <2>4, OnlyAPage DEF world, IInv
<1>2. CASE submitRuleChallenge(t)
  <2> DEFINE q == [tab[t].call EXCEPT !.pc = "session", !.round = issueRound(t)]
             p == [tab[t] EXCEPT !.call = q]
  <2>1. CASE becomes(t, [tab[t] EXCEPT !.call.pc = "session", !.call.round = issueRound(t)])
    <3>1. tab[t] \in Page /\ tab[t].call \in Call /\ issueRound(t) \in Nat
      BY PageStep DEF Page, IInv, issueRound
    <3>2. q \in Call /\ q.kind = tab[t].call.kind
      BY <3>1, NamesOfCalls DEF Call
    <3>3. p = [tab[t] EXCEPT !.call.pc = "session", !.call.round = issueRound(t)]
      BY <3>1 DEF Page, Call
    <3>4. p \in Page /\ p.call = q /\ q.kind = "issue" /\ q.pc = "session"
      BY <1>2, <3>1, <3>2, PageStep DEF Page, Call, submitRuleChallenge, at, PageOK
    <3>5. PageOK(p, subs)
      BY <3>1, <3>4, PageStep DEF PageOK, Page
    <3> QED BY <1>2, <2>1, <3>3, <3>4, <3>5, OnlyAPage DEF submitRuleChallenge, world, IInv
  <2>2. CASE fails(t)
    BY <1>2, <2>2, CallFails DEF submitRuleChallenge
  <2> QED BY <1>2, <2>1, <2>2 DEF submitRuleChallenge
<1> QED BY <1>1, <1>2

LEMMA SessionKeeps ==
  ASSUME IInv, NEW t \in Tabs, ensureAgentSession(t) \/ resolvePayloadUri(t)
  PROVE  IInv'
<1>1. UNCHANGED <<world, subs, salts>>
  BY DEF ensureAgentSession, resolvePayloadUri
<1>2. goes(t, "upload") \/ goes(t, "post") \/ fails(t)
  BY DEF ensureAgentSession, resolvePayloadUri
<1>3. "upload" # "fetch" /\ "post" # "fetch" /\ ~at(t, "idle")
  BY DEF ensureAgentSession, resolvePayloadUri, at
<1> QED BY <1>1, <1>2, <1>3, CallFails, CallGoesOn, NamesOfCalls

(* What a page makes of an accepted submission, which is then stored. *)
LEMMA AnswerIsPage ==
  ASSUME IInv, NEW t \in Tabs, at(t, "post"), NEW S, subs \subseteq S, submission(t) \in S
  PROVE  answered(t) \in Page /\ PageOK(answered(t), S)
<1> DEFINE c == tab[t].call
           q == [c EXCEPT !.pc = "load"]
<1>1. tab[t] \in Page /\ c \in Call /\ PageOK(tab[t], S)
  BY PageStep, MoreBacks DEF Page
<1>2. q \in Call /\ q.pc = "load" /\ q.kind = c.kind /\ q.agent = c.agent /\ q.round = c.round
      /\ q.content = c.content /\ q.hash = c.hash /\ q.salt = c.salt
  BY <1>1, NamesOfCalls DEF Call
<1>3. CASE c.kind = "commit"
  <2> DEFINE d == [agent |-> c.agent, content |-> c.content, hash |-> c.hash, salt |-> c.salt]
             p == [tab[t] EXCEPT !.call.pc = "load", !.commitTx = TRUE, !.draft = d]
  <2>1. answered(t) = p
    BY <1>3, Zenon DEF answered, keptSalt
  <2>2. d \in Draft
    BY <1>1, DraftsAndCalls DEF Call
  <2>3. p \in Page /\ p.commitTx /\ p.draft = d /\ p.call = q
    BY <1>1, <1>2, <2>2 DEF Page
  <2>4. Backed(d, S)
    <3>1. submission(t) = [kind |-> c.kind, agent |-> c.agent, round |-> c.round, content |-> c.content, hash |-> c.hash, salt |-> c.salt]
      BY DEF submission
    <3>2. c.hash = createResolutionProofHash(c.agent, c.round, c.content)
      BY <1>1, <1>3 DEF PageOK
    <3> QED BY <1>3, <3>1, <3>2 DEF Backed
  <2>5. PageOK(p, S)
    BY <1>1, <1>2, <1>3, <2>3, <2>4 DEF PageOK
  <2> QED BY <2>1, <2>3, <2>5
<1>4. CASE c.kind = "reveal"
  <2> DEFINE p == [tab[t] EXCEPT !.call.pc = "load", !.revealTx = TRUE]
  <2>1. answered(t) = p
    BY <1>4 DEF answered
  <2>2. p \in Page /\ p.commitTx = tab[t].commitTx /\ p.draft = tab[t].draft /\ p.call = q
    BY <1>1, <1>2 DEF Page
  <2>3. Backed(q, S)
    BY <1>1, <1>2, <1>4 DEF PageOK, Backed
  <2>4. PageOK(p, S)
    BY <1>1, <1>2, <1>4, <2>2, <2>3 DEF PageOK
  <2> QED BY <2>1, <2>2, <2>4
<1>5. CASE c.kind = "issue"
  <2> DEFINE p == [tab[t] EXCEPT !.call.pc = "load"]
  <2>1. answered(t) = p
    BY <1>5 DEF answered
  <2>2. p \in Page /\ p.commitTx = tab[t].commitTx /\ p.draft = tab[t].draft /\ p.call = q
    BY <1>1, <1>2 DEF Page
  <2>3. PageOK(p, S)
    BY <1>1, <1>2, <1>5, <2>2 DEF PageOK
  <2> QED BY <2>1, <2>2, <2>3
<1>6. c.kind \in {"commit", "reveal", "issue"}
  BY <1>1 DEF Call, Kinds, PageOK, at
<1> QED BY <1>3, <1>4, <1>5, <1>6

(* A stored reveal was backed while it was on its way. *)
LEMMA StoredReveals ==
  ASSUME IInv, NEW t \in Tabs, NEW S, S = subs \cup {submission(t)}
  PROVE  \A r \in S : r.kind = "reveal" => Backed(r, S)
<1> SUFFICES ASSUME NEW r \in S, r.kind = "reveal" PROVE Backed(r, S)
  OBVIOUS
<1>1. CASE r \in subs
  BY <1>1, MoreBacks DEF IInv
<1>2. CASE r = submission(t)
  <2>1. r.kind = tab[t].call.kind /\ r.agent = tab[t].call.agent /\ r.content = tab[t].call.content
        /\ r.hash = tab[t].call.hash /\ r.salt = tab[t].call.salt
    BY <1>2 DEF submission
  <2>2. Backed(tab[t].call, subs)
    BY <2>1, PageStep DEF PageOK
  <2>3. Backed(r, subs)
    BY <2>1, <2>2 DEF Backed
  <2> QED BY <2>3, MoreBacks
<1> QED BY <1>1, <1>2

LEMMA SubmitKeeps ==
  ASSUME IInv, NEW t \in Tabs, submitResolution(t)
  PROVE  IInv'
<1> DEFINE S == subs \cup {submission(t)}
<1>1. UNCHANGED <<world, salts>> /\ at(t, "post")
  BY DEF submitResolution
<1>2. CASE subs' = S /\ becomes(t, answered(t))
  <2>1. Pages(tab', S)
    <3>1. answered(t) \in Page /\ PageOK(answered(t), S)
      BY <1>1, AnswerIsPage
    <3>2. tab' = [tab EXCEPT ![t] = answered(t)]
      BY <1>2 DEF becomes
    <3> QED BY <3>1, <3>2, PageWritten DEF IInv
  <2> QED BY <1>1, <1>2, <2>1, StoredReveals DEF IInv, world
<1>3. CASE subs' = S /\ fails(t)
  <2> DEFINE p == [tab[t] EXCEPT !.call = NoCall]
  <2>1. p \in Page
    BY PageStep, EmptyPages DEF Page
  <2>2. PageOK(tab[t], S)
    BY PageStep, MoreBacks
  <2>3. PageOK(p, S)
    BY <2>2, PageStep DEF PageOK, NoCall, Page
  <2>4. tab' = [tab EXCEPT ![t] = p]
    BY <1>3 DEF fails, becomes
  <2>5. Pages(tab', S)
    BY <2>1, <2>3, <2>4, PageWritten DEF IInv
  <2> QED BY <1>1, <1>3, <2>5, StoredReveals DEF IInv, world
<1>4. CASE subs' = subs /\ fails(t)
  BY <1>1, <1>4, CallFails
<1> QED BY <1>2, <1>3, <1>4 DEF submitResolution

LEMMA SwitchKeeps ==
  ASSUME IInv, switch
  PROVE  IInv'
<1>1. UNCHANGED <<subs, tab, salts>>
  BY DEF switch
<1>2. round' \in Nat /\ account' \in Agents
  BY DEF switch, IInv, world
<1> QED BY <1>1, <1>2 DEF IInv, Pages

LEMMA StepKeeps == IInv /\ [Next]_vars => IInv'
<1> SUFFICES ASSUME IInv, [Next]_vars PROVE IInv'
  OBVIOUS
<1>1. CASE switch
  BY <1>1, SwitchKeeps
<1>2. ASSUME NEW t \in Tabs,
             \/ loadVault(t) \/ edit(t) \/ handleCommit(t) \/ handleReveal(t) \/ handleSubmitChallenge(t)
             \/ step(t) \/ reload(t)
      PROVE  IInv'
  BY <1>2, LoadKeeps, EditKeeps, CommitKeeps, RevealKeeps, IssueKeeps, SessionKeeps, SubmitKeeps, ReloadKeeps
     DEF step
<1>3. CASE UNCHANGED vars
  BY <1>3 DEF vars, world, IInv, Pages
<1> QED BY <1>1, <1>2, <1>3 DEF Next

(* A reveal says what its author committed to, with the commit's salt and  *)
(* hash. [submit/page.tsx, handleReveal] *)
THEOREM RevealsAlwaysTheCommit == Spec => []RevealsTheCommit
<1>1. IInv => RevealsTheCommit
  BY DEF IInv, Backed, RevealsTheCommit, commits, reveals
<1> QED BY <1>1, InitialPages, StepKeeps, PTL DEF Spec

-----------------------------------------------------------------------------
(* Who a call is made for.  Between the look at the committee and the post *)
(* the account and the round may change, the session may run out and be    *)
(* opened again.                                                           *)

Posting == {"session", "upload", "post"}
Seated(c, s) ==
    /\ c.pc \in Posting => c.agent \in Members[c.round]
    /\ c.pc \in {"upload", "post"} => s.wallet = c.agent
SeatInv ==
    /\ session \in [Tabs -> [wallet : Who, fresh : BOOLEAN]]
    /\ \A t \in Tabs : Seated(tab[t].call, session[t])

LEMMA InitialSeats == Init => SeatInv
<1> SUFFICES ASSUME Init PROVE SeatInv
  OBVIOUS
<1>1. NoSession \in [wallet : Who, fresh : BOOLEAN]
  BY DEF NoSession, Who
<1>2. NewPage.call.pc = "idle"
  BY DEF NewPage, NoCall
<1> QED BY <1>1, <1>2 DEF Init, SeatInv, Seated, Posting

(* A step that writes one page and perhaps its session. *)
LEMMA SeatWritten ==
  ASSUME IInv, SeatInv, NEW t \in Tabs, NEW p \in Page, becomes(t, p),
         NEW s \in [wallet : Who, fresh : BOOLEAN], session' = [session EXCEPT ![t] = s],
         Seated(p.call, s)
  PROVE  SeatInv'
<1>1. tab \in [Tabs -> Page] /\ tab' = [tab EXCEPT ![t] = p]
  BY DEF IInv, Pages, becomes
<1>2. \A u \in Tabs : Seated(tab[u].call, session[u])
  BY DEF SeatInv
<1>3. session \in [Tabs -> [wallet : Who, fresh : BOOLEAN]]
  BY DEF SeatInv
<1>4. ASSUME NEW u \in Tabs PROVE Seated(tab'[u].call, session'[u])
  <2>1. CASE u = t
    BY <1>1, <1>3, <2>1
  <2>2. CASE u # t
    BY <1>1, <1>2, <1>3, <2>2
  <2> QED BY <2>1, <2>2
<1>5. session' \in [Tabs -> [wallet : Who, fresh : BOOLEAN]]
  BY <1>3
<1> QED BY <1>4, <1>5 DEF SeatInv, Seated

LEMMA SeatOfPage ==
  ASSUME IInv, SeatInv, NEW t \in Tabs, NEW p \in Page, becomes(t, p), session' = session,
         Seated(p.call, session[t])
  PROVE  SeatInv'
<1>1. session[t] \in [wallet : Who, fresh : BOOLEAN] /\ session' = [session EXCEPT ![t] = session[t]]
  BY DEF SeatInv
<1> QED BY <1>1, SeatWritten

(* The call of a page whose other parts change. *)
LEMMA CallsOfPages ==
  ASSUME NEW p \in Page
  PROVE  /\ \A q \in Call : [p EXCEPT !.call = q] \in Page /\ [p EXCEPT !.call = q].call = q
         /\ \A c \in What : [p EXCEPT !.content = c] \in Page /\ [p EXCEPT !.content = c].call = p.call
         /\ \A pc \in Steps :
               /\ [p EXCEPT !.call.pc = pc] \in Page
               /\ [p EXCEPT !.call.pc = pc].call.pc = pc
               /\ [p EXCEPT !.call.pc = pc].call.agent = p.call.agent
               /\ [p EXCEPT !.call.pc = pc].call.round = p.call.round
  BY DEF Page, Call

LEMMA FailingSeats ==
  ASSUME IInv, SeatInv, NEW t \in Tabs, fails(t), session' = session
  PROVE  SeatInv'
<1> DEFINE p == [tab[t] EXCEPT !.call = NoCall]
<1>1. p \in Page /\ p.call = NoCall
  BY PageStep, EmptyPages, CallsOfPages
<1>2. Seated(p.call, session[t])
  BY <1>1 DEF Seated, Posting, NoCall
<1> QED BY <1>1, <1>2, SeatOfPage DEF fails

LEMMA PageSeats ==
  ASSUME IInv, SeatInv, NEW t \in Tabs,
         loadVault(t) \/ edit(t) \/ handleCommit(t) \/ handleReveal(t) \/ handleSubmitChallenge(t)
  PROVE  SeatInv'
<1>0. tab[t] \in Page /\ account \in Who /\ salts \in Nat /\ round \in Nat
  BY PageStep DEF IInv, Who
<1>s. Seated(tab[t].call, session[t]) /\ session \in [Tabs -> [wallet : Who, fresh : BOOLEAN]]
  BY DEF SeatInv
<1>1. CASE loadVault(t)
  <2>1. CASE fails(t)
    BY <1>1, <2>1, FailingSeats DEF loadVault
  <2>2. CASE becomes(t, [tab[t] EXCEPT !.seen = round, !.call = NoCall])
    <3> DEFINE p == [tab[t] EXCEPT !.seen = round, !.call = NoCall]
    <3>1. p \in Page /\ p.call = NoCall
      BY <1>0, EmptyPages DEF Page
    <3>2. Seated(p.call, session[t])
      BY <3>1 DEF Seated, Posting, NoCall
    <3> QED BY <1>1, <2>2, <3>1, <3>2, SeatOfPage DEF loadVault
  <2> QED BY <1>1, <2>1, <2>2 DEF loadVault
<1>2. CASE edit(t)
  <2>1. PICK c \in Contents : becomes(t, [tab[t] EXCEPT !.content = c])
    BY <1>2 DEF edit
  <2>2. [tab[t] EXCEPT !.content = c] \in Page /\ [tab[t] EXCEPT !.content = c].call = tab[t].call
    BY <1>0, CallsOfPages DEF What
  <2> QED BY <1>2, <1>s, <2>1, <2>2, SeatOfPage DEF edit
<1>3. CASE handleCommit(t)
  <2> DEFINE hash == createResolutionProofHash(account, tab[t].seen, tab[t].content)
             q == [pc |-> "session", kind |-> "commit", agent |-> account, round |-> tab[t].seen,
                   content |-> tab[t].content, hash |-> hash, salt |-> salts']
  <2>1. becomes(t, [tab[t] EXCEPT !.call = q]) /\ salts' = salts + 1 /\ session' = session
        /\ account \in Members[tab[t].seen]
    BY <1>3 DEF handleCommit, validators, begins
  <2>2. hash \in Hash /\ tab[t].seen \in Nat /\ tab[t].content \in What /\ salts' \in Nat
    BY <1>0, <2>1, HashesAreHashes DEF Page
  <2> HIDE DEF hash
  <2>3. q \in Call /\ q.pc = "session" /\ q.agent = account /\ q.round = tab[t].seen
    BY <1>0, <2>2, DraftsAndCalls, NamesOfCalls
  <2> HIDE DEF q
  <2>4. Seated(q, session[t])
    BY <2>1, <2>3 DEF Seated
  <2> QED BY <1>0, <2>1, <2>3, <2>4, CallsOfPages, SeatOfPage
<1>4. CASE handleReveal(t)
  <2> DEFINE d == tab[t].draft
             q == [pc |-> "session", kind |-> "reveal", agent |-> account, round |-> tab[t].seen,
                   content |-> snapshot(tab[t]), hash |-> d.hash, salt |-> d.salt]
  <2>1. becomes(t, [tab[t] EXCEPT !.call = q]) /\ session' = session
        /\ account \in Members[tab[t].seen]
    BY <1>4 DEF handleReveal, validators, begins
  <2>2. d.hash \in Hash /\ d.salt \in Nat /\ snapshot(tab[t]) \in What /\ tab[t].seen \in Nat
    BY <1>0 DEF Page, Draft, snapshot
  <2>3. q \in Call /\ q.pc = "session" /\ q.agent = account /\ q.round = tab[t].seen
    BY <1>0, <2>2, DraftsAndCalls, NamesOfCalls
  <2> HIDE DEF q
  <2>4. Seated(q, session[t])
    BY <2>1, <2>3 DEF Seated
  <2> QED BY <1>0, <2>1, <2>3, <2>4, CallsOfPages, SeatOfPage
<1>5. CASE handleSubmitChallenge(t)
  <2> DEFINE q == [NoCall EXCEPT !.pc = "fetch", !.kind = "issue", !.agent = account]
  <2>1. becomes(t, [tab[t] EXCEPT !.call = q]) /\ session' = session
    BY <1>5 DEF handleSubmitChallenge
  <2>2. q \in Call /\ q.pc = "fetch"
    BY <1>0, EmptyPages, NamesOfCalls DEF Call
  <2> HIDE DEF q
  <2>3. Seated(q, session[t])
    BY <2>2 DEF Seated, Posting
  <2> QED BY <1>0, <2>1, <2>2, <2>3, CallsOfPages, SeatOfPage
<1> QED BY <1>1, <1>2, <1>3, <1>4, <1>5

LEMMA CallSeats ==
  ASSUME IInv, SeatInv, NEW t \in Tabs,
         \/ submitRuleChallenge(t) \/ ensureAgentSession(t) \/ resolvePayloadUri(t)
         \/ submitResolution(t) \/ reload(t)
  PROVE  SeatInv'
<1>0. tab[t] \in Page /\ round \in Nat /\ tab[t].call \in Call
  BY PageStep DEF IInv, Page
<1>s. Seated(tab[t].call, session[t]) /\ session \in [Tabs -> [wallet : Who, fresh : BOOLEAN]]
  BY DEF SeatInv
<1>1. CASE submitRuleChallenge(t)
  <2>1. CASE fails(t)
    BY <1>1, <2>1, FailingSeats DEF submitRuleChallenge
  <2>2. CASE ~fails(t)
    <3> DEFINE p == [tab[t] EXCEPT !.call.pc = "session", !.call.round = issueRound(t)]
    <3>1. becomes(t, p) /\ session' = session /\ tab[t].call.agent \in Members[round]
      BY <1>1, <2>2 DEF submitRuleChallenge, getWorkflowVault
    <3>2. /\ p \in Page /\ p.call.agent = tab[t].call.agent /\ p.call.round = round
          /\ p.call.pc = "session"
      BY <1>0, NamesOfCalls DEF Page, Call, issueRound
    <3> HIDE DEF p
    <3>3. Seated(p.call, session[t])
      BY <3>1, <3>2 DEF Seated
    <3> QED BY <3>1, <3>2, <3>3, SeatOfPage
  <2> QED BY <2>1, <2>2
<1>2. CASE ensureAgentSession(t)
  <2>1. CASE fails(t) /\ session' = session
    BY <2>1, FailingSeats
  <2>2. CASE /\ goes(t, "upload")
             /\ \/ session' = session /\ stored(t, tab[t].call.agent)
                \/ session' = [session EXCEPT ![t] = [wallet |-> tab[t].call.agent, fresh |-> TRUE]]
    <3> DEFINE p == [tab[t] EXCEPT !.call.pc = "upload"]
               s == [wallet |-> tab[t].call.agent, fresh |-> TRUE]
    <3>1. /\ becomes(t, p) /\ tab[t].call.pc = "session"
          /\ \/ session' = session /\ session[t].wallet = tab[t].call.agent
             \/ session' = [session EXCEPT ![t] = s]
      BY <1>2, <2>2 DEF ensureAgentSession, goes, stored, at
    <3>2. /\ p \in Page /\ p.call.agent = tab[t].call.agent /\ p.call.round = tab[t].call.round
          /\ p.call.pc = "upload"
      BY <1>0, CallsOfPages, NamesOfCalls
    <3>3. s \in [wallet : Who, fresh : BOOLEAN] /\ s.wallet = tab[t].call.agent
      BY <1>0 DEF Call
    <3> HIDE DEF p, s
    <3>4. tab[t].call.agent \in Members[tab[t].call.round]
      BY <1>s, <3>1 DEF Seated, Posting
    <3>5. Seated(p.call, s) /\ (session[t].wallet = tab[t].call.agent => Seated(p.call, session[t]))
      BY <3>2, <3>3, <3>4 DEF Seated
    <3> QED BY <3>1, <3>2, <3>3, <3>5, SeatOfPage, SeatWritten
  <2> QED BY <1>2, <2>1, <2>2 DEF ensureAgentSession
<1>3. CASE resolvePayloadUri(t)
  <2>1. CASE fails(t)
    BY <1>3, <2>1, FailingSeats DEF resolvePayloadUri
  <2>2. CASE ~fails(t)
    <3> DEFINE p == [tab[t] EXCEPT !.call.pc = "post"]
    <3>1. becomes(t, p) /\ tab[t].call.pc = "upload" /\ session' = session
      BY <1>3, <2>2 DEF resolvePayloadUri, goes, at
    <3>2. /\ p \in Page /\ p.call.agent = tab[t].call.agent /\ p.call.round = tab[t].call.round
          /\ p.call.pc = "post"
      BY <1>0, CallsOfPages, NamesOfCalls
    <3> HIDE DEF p
    <3>3. Seated(p.call, session[t])
      BY <1>s, <3>1, <3>2 DEF Seated, Posting
    <3> QED BY <3>1, <3>2, <3>3, SeatOfPage
  <2> QED BY <2>1, <2>2
<1>4. CASE submitResolution(t)
  <2>1. CASE fails(t)
    BY <1>4, <2>1, FailingSeats DEF submitResolution
  <2>2. CASE ~fails(t)
    <3> DEFINE p == answered(t)
    <3>1. becomes(t, p) /\ session' = session /\ at(t, "post")
      BY <1>4, <2>2 DEF submitResolution
    <3>2. p \in Page
      <4>1. submission(t) \in subs \cup {submission(t)}
        OBVIOUS
      <4> QED BY <3>1, <4>1, AnswerIsPage
    <3>3. p.call.pc = "load"
      <4>1. tab[t].call.kind \in {"commit", "reveal", "issue"}
        BY <3>1, <1>0, PageStep DEF Call, Kinds, PageOK, at
      <4> QED BY <1>0, <4>1 DEF answered, Page, Call
    <3> HIDE DEF p
    <3>4. Seated(p.call, session[t])
      BY <3>3 DEF Seated, Posting
    <3> QED BY <3>1, <3>2, <3>4, SeatOfPage
  <2> QED BY <2>1, <2>2
<1>5. CASE reload(t)
  <2>1. NewPage \in Page /\ Seated(NewPage.call, session[t])
    BY EmptyPages DEF NewPage, NoCall, Seated, Posting
  <2> QED BY <1>5, <2>1, SeatOfPage DEF reload
<1> QED BY <1>1, <1>2, <1>3, <1>4, <1>5

LEMMA SeatsAreKept == IInv /\ SeatInv /\ [Next]_vars => SeatInv'
<1> SUFFICES ASSUME IInv, SeatInv, [Next]_vars PROVE SeatInv'
  OBVIOUS
<1>1. CASE switch
  <2>1. tab' = tab /\ (session' = session \/ \E t \in Tabs : session' = [session EXCEPT ![t].fresh = FALSE])
    BY <1>1 DEF switch
  <2>2. session' \in [Tabs -> [wallet : Who, fresh : BOOLEAN]]
        /\ \A t \in Tabs : session'[t].wallet = session[t].wallet
    BY <2>1 DEF SeatInv
  <2> QED BY <2>1, <2>2 DEF SeatInv, Seated
<1>2. ASSUME NEW t \in Tabs,
             \/ loadVault(t) \/ edit(t) \/ handleCommit(t) \/ handleReveal(t) \/ handleSubmitChallenge(t)
             \/ step(t) \/ reload(t)
      PROVE  SeatInv'
  BY <1>2, PageSeats, CallSeats DEF step
<1>3. CASE UNCHANGED vars
  BY <1>3 DEF vars, SeatInv, Seated
<1> QED BY <1>1, <1>2, <1>3 DEF Next

-----------------------------------------------------------------------------
(* The salt of a commit.  A commit on its way has a salt that no other has *)
(* and no stored commit; a page that has not committed keeps none; and the *)
(* stored commits whose salt no page keeps are no more than the faults.    *)

Committing(c) == c.kind = "commit" /\ c.pc \in Posting
Lost(S, T) == {c \in S : c.kind = "commit" /\ \A t \in Tabs : T[t].draft.salt # c.salt}

StoredSalts ==
    /\ IsFiniteSet(subs)
    /\ \A c \in commits : c.salt \in 1 .. salts
    /\ \A c, d \in commits : c.salt = d.salt => c = d
SaltsOnTheirWay ==
    /\ \A t \in Tabs : Committing(tab[t].call) =>
          tab[t].call.salt \in 1 .. salts /\ \A c \in commits : c.salt # tab[t].call.salt
    /\ \A t, u \in Tabs :
          /\ Committing(tab[t].call) /\ Committing(tab[u].call)
          /\ tab[t].call.salt = tab[u].call.salt
          => t = u
NoneBeforeTheCommit ==
    /\ \A t \in Tabs : Committing(tab[t].call) => ~tab[t].commitTx
    /\ \A t \in Tabs : ~tab[t].commitTx => tab[t].draft.salt = 0
FewAreLost == faults \in Nat /\ Cardinality(Lost(subs, tab)) <= faults

SaltInv == StoredSalts /\ SaltsOnTheirWay /\ NoneBeforeTheCommit /\ FewAreLost

LEMMA InitialSalts == Init => SaltInv
<1> SUFFICES ASSUME Init PROVE SaltInv
  OBVIOUS
<1>1. subs = {} /\ salts = 0 /\ faults = 0 /\ \A t \in Tabs : tab[t] = NewPage
  BY DEF Init
<1>2. commits = {} /\ Lost(subs, tab) = {}
  BY <1>1 DEF commits, Lost
<1>3. IsFiniteSet(subs) /\ Cardinality(Lost(subs, tab)) = 0
  BY <1>1, <1>2, FS_EmptySet
<1>4. StoredSalts
  BY <1>2, <1>3 DEF StoredSalts
<1>5. ~Committing(NewPage.call) /\ NewPage.draft.salt = 0
  BY DEF Committing, NewPage, NoCall, NoDraft
<1> QED BY <1>1, <1>3, <1>4, <1>5 DEF SaltInv, SaltsOnTheirWay, NoneBeforeTheCommit, FewAreLost

(* The pages after one has been written. *)
LEMMA OtherPages ==
  ASSUME IInv, NEW t \in Tabs, NEW p \in Page, becomes(t, p)
  PROVE  tab'[t] = p /\ \A u \in Tabs : u # t => tab'[u] = tab[u]
  BY DEF IInv, Pages, becomes

(* Nothing is lost when what is stored and kept stays. *)
LEMMA KeptSalts ==
  ASSUME IInv, SaltInv, NEW t \in Tabs, NEW p \in Page, becomes(t, p), salts' = salts,
         p.draft = tab[t].draft, p.commitTx = tab[t].commitTx,
         Committing(p.call) => Committing(tab[t].call) /\ p.call.salt = tab[t].call.salt,
         NEW s, s.kind # "commit", subs' \in {subs, subs \cup {s}},
         faults' = faults \/ faults' = faults + 1
  PROVE  SaltInv'
<1>1. tab'[t] = p /\ \A u \in Tabs : u # t => tab'[u] = tab[u]
  BY OtherPages
<1>2. commits' = commits
  BY DEF commits
<1>3. IsFiniteSet(subs')
  BY FS_AddElement DEF SaltInv, StoredSalts
<1>4. StoredSalts'
  BY <1>2, <1>3 DEF SaltInv, StoredSalts
<1>5. \A u \in Tabs : /\ tab'[u].draft = tab[u].draft /\ tab'[u].commitTx = tab[u].commitTx
                      /\ Committing(tab'[u].call) =>
                            Committing(tab[u].call) /\ tab'[u].call.salt = tab[u].call.salt
  BY <1>1
<1>6. SaltsOnTheirWay'
  <2>1. ASSUME NEW u \in Tabs, Committing(tab'[u].call)
        PROVE  tab'[u].call.salt \in 1 .. salts' /\ \A c \in commits' : c.salt # tab'[u].call.salt
    BY <1>2, <1>5, <2>1 DEF SaltInv, SaltsOnTheirWay
  <2>2. ASSUME NEW u \in Tabs, NEW v \in Tabs, Committing(tab'[u].call), Committing(tab'[v].call),
               tab'[u].call.salt = tab'[v].call.salt
        PROVE  u = v
    BY <1>5, <2>2 DEF SaltInv, SaltsOnTheirWay
  <2> QED BY <2>1, <2>2 DEF SaltsOnTheirWay, Committing
<1>7. NoneBeforeTheCommit'
  BY <1>5, Zenon DEF SaltInv, NoneBeforeTheCommit, Committing
<1>8. Lost(subs', tab') = Lost(subs, tab)
  BY <1>5 DEF Lost
<1>9. FewAreLost'
  <2>1. IsFiniteSet(Lost(subs, tab)) /\ Lost(subs, tab) \subseteq subs
    BY FS_Subset DEF Lost, SaltInv, StoredSalts
  <2>2. Cardinality(Lost(subs, tab)) \in Nat
    BY <2>1, FS_CardinalityType
  <2> HIDE DEF Lost
  <2> QED BY <1>8, <2>2 DEF SaltInv, FewAreLost
<1> QED BY <1>4, <1>6, <1>7, <1>9 DEF SaltInv

(* A fault may lose one more. *)
LEMMA OneMoreLost ==
  ASSUME SaltInv,
         \/ faults' = faults /\ Lost(subs', tab') \subseteq Lost(subs, tab)
         \/ faults' = faults + 1 /\ \E x : Lost(subs', tab') \subseteq Lost(subs, tab) \cup {x}
  PROVE  FewAreLost'
<1> DEFINE L == Lost(subs, tab)
           M == Lost(subs', tab')
<1>1. IsFiniteSet(L)
  BY FS_Subset DEF Lost, SaltInv, StoredSalts
<1>2. Cardinality(L) \in Nat /\ faults \in Nat /\ Cardinality(L) <= faults
  BY <1>1, FS_CardinalityType DEF SaltInv, FewAreLost
<1> HIDE DEF L, M
<1>3. CASE faults' = faults /\ M \subseteq L
  <2>1. Cardinality(M) <= Cardinality(L) /\ Cardinality(M) \in Nat
    BY <1>1, <1>3, FS_Subset, FS_CardinalityType
  <2> QED BY <1>2, <1>3, <2>1 DEF FewAreLost, M
<1>4. CASE faults' = faults + 1 /\ \E x : M \subseteq L \cup {x}
  <2>1. PICK x : M \subseteq L \cup {x}
    BY <1>4
  <2>2. Cardinality(M) \in Nat /\ Cardinality(M) <= Cardinality(L) + 1
    BY <1>1, <1>2, <2>1, OneMore
  <2>3. Cardinality(M) <= faults'
    BY <1>2, <1>4, <2>2
  <2> QED BY <1>2, <1>4, <2>3 DEF FewAreLost, M
<1> QED BY <1>3, <1>4 DEF L, M

(* A commit starts with a salt of its own. *)
LEMMA CommitSalts ==
  ASSUME IInv, SaltInv, NEW t \in Tabs, handleCommit(t)
  PROVE  SaltInv'
<1> DEFINE hash == createResolutionProofHash(account, tab[t].seen, tab[t].content)
           q == [pc |-> "session", kind |-> "commit", agent |-> account, round |-> tab[t].seen,
                 content |-> tab[t].content, hash |-> hash, salt |-> salts']
           p == [tab[t] EXCEPT !.call = q]
<1>1. /\ becomes(t, p) /\ salts' = salts + 1 /\ subs' = subs /\ faults' = faults
      /\ ~tab[t].commitTx
  BY DEF handleCommit
<1>2. tab[t] \in Page /\ account \in Who /\ salts \in Nat /\ salts' \in Nat
  BY <1>1, PageStep DEF IInv, Who
<1>3. hash \in Hash /\ tab[t].seen \in Nat /\ tab[t].content \in What
  BY <1>2, HashesAreHashes DEF Page
<1> HIDE DEF hash
<1>4. q \in Call /\ q.salt = salts'
  BY <1>2, <1>3, DraftsAndCalls, NamesOfCalls
<1> HIDE DEF q
<1>5. p \in Page /\ p.call = q /\ p.draft = tab[t].draft /\ p.commitTx = tab[t].commitTx
  BY <1>2, <1>4 DEF Page
<1> HIDE DEF p
<1>6. tab'[t] = p /\ \A u \in Tabs : u # t => tab'[u] = tab[u]
  BY <1>1, <1>5, OtherPages
<1>7. commits' = commits
  BY <1>1 DEF commits
<1>8. StoredSalts'
  BY <1>1, <1>2, <1>7 DEF SaltInv, StoredSalts
<1>9. \A u \in Tabs : tab'[u].draft = tab[u].draft /\ tab'[u].commitTx = tab[u].commitTx
  BY <1>5, <1>6
<1>10. SaltsOnTheirWay'
  <2>1. \A c \in commits : c.salt # salts' /\ salts' \in 1 .. salts'
    BY <1>1, <1>2 DEF SaltInv, StoredSalts
  <2>2. \A u \in Tabs : u # t /\ Committing(tab'[u].call) =>
            tab'[u].call.salt \in 1 .. salts' /\ tab'[u].call.salt # salts'
    BY <1>1, <1>2, <1>6 DEF SaltInv, SaltsOnTheirWay
  <2>3. ASSUME NEW u \in Tabs, Committing(tab'[u].call)
        PROVE  tab'[u].call.salt \in 1 .. salts' /\ \A c \in commits' : c.salt # tab'[u].call.salt
    <3>1. CASE u = t
      <4>1. salts' \in 1 .. salts'
        BY <1>1, <1>2
      <4> QED BY <1>4, <1>5, <1>6, <1>7, <2>1, <3>1, <4>1
    <3>2. CASE u # t
      BY <1>6, <1>7, <2>2, <2>3, <3>2 DEF SaltInv, SaltsOnTheirWay
    <3> QED BY <3>1, <3>2
  <2>4. ASSUME NEW u \in Tabs, NEW v \in Tabs, Committing(tab'[u].call), Committing(tab'[v].call),
               tab'[u].call.salt = tab'[v].call.salt
        PROVE  u = v
    <3>1. tab'[t].call.salt = salts'
      BY <1>4, <1>5, <1>6
    <3>2. CASE u = t \/ v = t
      BY <2>2, <2>4, <3>1, <3>2
    <3>3. CASE u # t /\ v # t
      BY <1>6, <2>4, <3>3 DEF SaltInv, SaltsOnTheirWay
    <3> QED BY <3>2, <3>3
  <2> QED BY <2>3, <2>4 DEF SaltsOnTheirWay, Committing
<1>11. NoneBeforeTheCommit'
  <2>1. \A u \in Tabs : Committing(tab'[u].call) => ~tab'[u].commitTx
    BY <1>1, <1>6, <1>9 DEF SaltInv, NoneBeforeTheCommit
  <2> QED BY <1>9, <2>1 DEF SaltInv, NoneBeforeTheCommit, Committing
<1>12. FewAreLost'
  <2>1. Lost(subs', tab') = Lost(subs, tab)
    BY <1>1, <1>9 DEF Lost
  <2> QED BY <1>1, <2>1, OneMoreLost
<1> QED BY <1>8, <1>10, <1>11, <1>12 DEF SaltInv

(* A call that ends leaves the salts of the others as they are. *)
LEMMA SaltsOfOthers ==
  ASSUME IInv, SaltInv, NEW t \in Tabs, NEW p \in Page, becomes(t, p), salts' = salts,
         ~Committing(p.call), ~p.commitTx => p.draft.salt = 0,
         \A c \in commits' : c \in commits \/ (Committing(tab[t].call) /\ c.salt = tab[t].call.salt)
  PROVE  SaltsOnTheirWay' /\ NoneBeforeTheCommit'
<1>1. tab'[t] = p /\ \A u \in Tabs : u # t => tab'[u] = tab[u]
  BY OtherPages
<1>2. ASSUME NEW u \in Tabs, Committing(tab'[u].call)
      PROVE  /\ tab'[u].call.salt \in 1 .. salts' /\ ~tab'[u].commitTx
             /\ \A c \in commits' : c.salt # tab'[u].call.salt
  BY <1>1, <1>2 DEF SaltInv, SaltsOnTheirWay, NoneBeforeTheCommit
<1>3. ASSUME NEW u \in Tabs, NEW v \in Tabs, Committing(tab'[u].call), Committing(tab'[v].call),
             tab'[u].call.salt = tab'[v].call.salt
      PROVE  u = v
  BY <1>1, <1>3 DEF SaltInv, SaltsOnTheirWay
<1>4. \A u \in Tabs : ~tab'[u].commitTx => tab'[u].draft.salt = 0
  BY <1>1 DEF SaltInv, NoneBeforeTheCommit
<1> QED BY <1>2, <1>3, <1>4 DEF SaltsOnTheirWay, NoneBeforeTheCommit, Committing

(* A commit that is stored. *)
LEMMA CommitIsStored ==
  ASSUME IInv, SaltInv, NEW t \in Tabs, Committing(tab[t].call),
         subs' = subs \cup {submission(t)}, salts' = salts
  PROVE  /\ StoredSalts'
         /\ \A c \in commits' : c \in commits \/ (c = submission(t) /\ c.salt = tab[t].call.salt)
         /\ submission(t).salt = tab[t].call.salt
<1> DEFINE s == submission(t)
<1>1. s.kind = "commit" /\ s.salt = tab[t].call.salt
  BY DEF submission, Committing
<1> HIDE DEF s
<1>2. commits' = commits \cup {s}
  BY <1>1 DEF commits, s
<1>3. IsFiniteSet(subs')
  BY FS_AddElement DEF SaltInv, StoredSalts
<1>4. s.salt \in 1 .. salts /\ \A c \in commits : c.salt # s.salt
  BY <1>1 DEF SaltInv, SaltsOnTheirWay
<1>5. \A c \in commits' : c.salt \in 1 .. salts'
  BY <1>2, <1>4 DEF SaltInv, StoredSalts
<1>6. \A c, d \in commits' : c.salt = d.salt => c = d
  BY <1>2, <1>4 DEF SaltInv, StoredSalts
<1>7. StoredSalts'
  BY <1>3, <1>5, <1>6 DEF StoredSalts
<1> QED BY <1>1, <1>2, <1>7 DEF s

LEMMA SubmitSalts ==
  ASSUME IInv, SaltInv, NEW t \in Tabs, submitResolution(t)
  PROVE  SaltInv'
<1> DEFINE c == tab[t].call
           s == submission(t)
           a == answered(t)
           f == [tab[t] EXCEPT !.call = NoCall]
<1>1. /\ at(t, "post") /\ salts' = salts /\ tab[t] \in Page /\ c \in Call
      /\ c.kind \in {"commit", "reveal", "issue"} /\ NoCall \in Call
  BY PageStep, EmptyPages DEF submitResolution, Page, Call, Kinds, PageOK, at
<1>2. f \in Page /\ f.call = NoCall /\ f.draft = tab[t].draft /\ f.commitTx = tab[t].commitTx
  BY <1>1 DEF Page
<1>3. a \in Page
  <2>1. submission(t) \in subs \cup {submission(t)}
    OBVIOUS
  <2> QED BY <1>1, <2>1, AnswerIsPage
<1>4. s.kind = c.kind /\ ~Committing(NoCall) /\ c.pc = "post"
  BY <1>1 DEF submission, Committing, NoCall, at
<1>5. CASE fails(t) /\ subs' = subs /\ (faults' = faults \/ faults' = faults + 1)
  <2>1. becomes(t, f) /\ subs' \in {subs, subs \cup {NoCall}} /\ NoCall.kind # "commit"
    BY <1>5 DEF fails, NoCall
  <2> HIDE DEF f
  <2> QED BY <1>1, <1>2, <1>4, <1>5, <2>1, KeptSalts
<1>6. CASE /\ c.kind # "commit"
           /\ \/ fails(t) /\ subs' = subs \cup {s} /\ faults' = faults + 1
              \/ becomes(t, a) /\ subs' = subs \cup {s} /\ faults' = faults
  <2>1. a.draft = tab[t].draft /\ a.commitTx = tab[t].commitTx /\ a.call.kind = c.kind
    BY <1>1, <1>6 DEF answered, Page, Call
  <2>2. ~Committing(a.call)
    BY <1>6, <2>1 DEF Committing
  <2>3. subs' \in {subs, subs \cup {s}} /\ s.kind # "commit" /\ (becomes(t, f) \/ becomes(t, a))
    BY <1>4, <1>6 DEF fails
  <2> HIDE DEF a, f, s, c
  <2> QED BY <1>1, <1>2, <1>3, <1>4, <1>6, <2>1, <2>2, <2>3, KeptSalts
<1>7. CASE c.kind = "commit" /\ fails(t) /\ subs' = subs \cup {s} /\ faults' = faults + 1
  <2>1. Committing(c) /\ becomes(t, f)
    BY <1>4, <1>7 DEF Committing, Posting, fails
  <2> HIDE DEF f
  <2>2. /\ StoredSalts'
        /\ \A x \in commits' : x \in commits \/ (x = s /\ x.salt = c.salt)
    BY <1>1, <1>7, <2>1, CommitIsStored
  <2>3. SaltsOnTheirWay' /\ NoneBeforeTheCommit'
    <3>1. ~f.commitTx => f.draft.salt = 0
      BY <1>2 DEF SaltInv, NoneBeforeTheCommit
    <3> QED BY <1>1, <1>2, <1>4, <2>1, <2>2, <3>1, SaltsOfOthers
  <2>4. \A u \in Tabs : tab'[u].draft = tab[u].draft
    BY <1>2, <2>1, OtherPages
  <2>5. Lost(subs', tab') \subseteq Lost(subs, tab) \cup {s}
    BY <1>7, <2>4 DEF Lost
  <2>6. FewAreLost'
    BY <1>7, <2>5, OneMoreLost
  <2> QED BY <2>2, <2>3, <2>6 DEF SaltInv
<1>8. CASE c.kind = "commit" /\ becomes(t, a) /\ subs' = subs \cup {s} /\ faults' = faults
  <2> DEFINE d == [agent |-> c.agent, content |-> c.content, hash |-> c.hash, salt |-> c.salt]
  <2>1. Committing(c)
    BY <1>4, <1>8 DEF Committing, Posting
  <2>2. a.commitTx /\ a.draft.salt = c.salt /\ a.call.pc = "load"
    <3>1. a = [tab[t] EXCEPT !.call.pc = "load", !.commitTx = TRUE, !.draft = d]
      BY <1>8, Zenon DEF answered, keptSalt
    <3>2. d.salt = c.salt
      OBVIOUS
    <3> HIDE DEF d, a
    <3> QED BY <1>1, <3>1, <3>2 DEF Page, Call
  <2>3. ~Committing(a.call)
    BY <2>2 DEF Committing, Posting
  <2> HIDE DEF a
  <2>4. /\ StoredSalts'
        /\ \A x \in commits' : x \in commits \/ (x = s /\ x.salt = c.salt)
        /\ s.salt = c.salt
    BY <1>1, <1>8, <2>1, CommitIsStored
  <2>5. SaltsOnTheirWay' /\ NoneBeforeTheCommit'
    BY <1>1, <1>3, <1>8, <2>1, <2>2, <2>3, <2>4, SaltsOfOthers
  <2>6. tab[t].draft.salt = 0 /\ \A x \in commits : x.salt # 0
    BY <2>1 DEF SaltInv, NoneBeforeTheCommit, StoredSalts
  <2>7. tab'[t] = a /\ \A u \in Tabs : u # t => tab'[u] = tab[u]
    BY <1>3, <1>8, OtherPages
  <2>8. Lost(subs', tab') \subseteq Lost(subs, tab)
    <3>1. SUFFICES ASSUME NEW x \in Lost(subs', tab') PROVE x \in Lost(subs, tab)
      OBVIOUS
    <3>2. x \in commits' /\ \A u \in Tabs : tab'[u].draft.salt # x.salt
      BY DEF Lost, commits
    <3>3. x \in commits
      BY <2>2, <2>4, <2>7, <3>2
    <3>4. \A u \in Tabs : tab[u].draft.salt # x.salt
      BY <2>6, <2>7, <3>2, <3>3
    <3> QED BY <3>3, <3>4 DEF Lost, commits
  <2>9. FewAreLost'
    BY <1>8, <2>8, OneMoreLost
  <2> QED BY <2>4, <2>5, <2>9 DEF SaltInv
<1>9. \/ fails(t) /\ subs' = subs /\ (faults' = faults \/ faults' = faults + 1)
      \/ fails(t) /\ subs' = subs \cup {s} /\ faults' = faults + 1
      \/ becomes(t, a) /\ subs' = subs \cup {s} /\ faults' = faults
  BY DEF submitResolution, fault
<1> HIDE DEF s, a
<1> QED BY <1>5, <1>6, <1>7, <1>8, <1>9

(* A reload loses the salt of at most one commit, the page's own. *)
LEMMA ReloadSalts ==
  ASSUME IInv, SaltInv, NEW t \in Tabs, reload(t)
  PROVE  SaltInv'
<1>1. becomes(t, NewPage) /\ faults' = faults + 1 /\ subs' = subs /\ salts' = salts /\ NewPage \in Page
  BY EmptyPages DEF reload, fault
<1>2. ~Committing(NewPage.call) /\ NewPage.draft.salt = 0 /\ commits' = commits
  BY <1>1 DEF NewPage, NoCall, NoDraft, Committing, commits
<1>3. SaltsOnTheirWay' /\ NoneBeforeTheCommit'
  BY <1>1, <1>2, SaltsOfOthers
<1>4. StoredSalts'
  BY <1>1, <1>2 DEF SaltInv, StoredSalts
<1>5. \A u \in Tabs : u # t => tab'[u] = tab[u]
  BY <1>1, OtherPages
<1>6. \E x : Lost(subs', tab') \subseteq Lost(subs, tab) \cup {x}
  <2>1. \A y \in Lost(subs', tab') : y \in commits /\ (y \in Lost(subs, tab) \/ y.salt = tab[t].draft.salt)
    BY <1>1, <1>5 DEF Lost, commits
  <2>2. CASE \E y \in Lost(subs', tab') : y \notin Lost(subs, tab)
    <3>1. PICK y \in Lost(subs', tab') : y \notin Lost(subs, tab)
      BY <2>2
    <3>2. Lost(subs', tab') \subseteq Lost(subs, tab) \cup {y}
      BY <2>1, <3>1 DEF SaltInv, StoredSalts
    <3> QED BY <3>2
  <2>3. CASE Lost(subs', tab') \subseteq Lost(subs, tab)
    BY <2>3
  <2> QED BY <2>2, <2>3
<1>7. FewAreLost'
  BY <1>1, <1>6, OneMoreLost
<1> QED BY <1>3, <1>4, <1>7 DEF SaltInv

(* Every other step of a page keeps what it has to reveal. *)
LEMMA PageSalts ==
  ASSUME IInv, SaltInv, NEW t \in Tabs,
         \/ loadVault(t) \/ edit(t) \/ handleReveal(t) \/ handleSubmitChallenge(t)
         \/ submitRuleChallenge(t) \/ ensureAgentSession(t) \/ resolvePayloadUri(t)
  PROVE  SaltInv'
<1> DEFINE Keeps(p) == /\ becomes(t, p) /\ p \in Page /\ p.draft = tab[t].draft
                       /\ p.commitTx = tab[t].commitTx
                       /\ Committing(p.call) => Committing(tab[t].call) /\ p.call.salt = tab[t].call.salt
<1> HIDE DEF Keeps
<1>0. tab[t] \in Page /\ tab[t].call \in Call /\ account \in Who /\ round \in Nat /\ NoCall \in Call
  BY PageStep, EmptyPages DEF IInv, Page, Who
<1>s. subs' = subs /\ salts' = salts /\ (faults' = faults \/ faults' = faults + 1)
  BY DEF loadVault, edit, handleReveal, handleSubmitChallenge, submitRuleChallenge,
         ensureAgentSession, resolvePayloadUri, fault
<1>k. SUFFICES \E p : Keeps(p)
  <2>1. ASSUME NEW p, Keeps(p) PROVE SaltInv'
    <3>1. subs' \in {subs, subs \cup {NoCall}} /\ NoCall.kind # "commit"
      BY <1>s DEF NoCall
    <3> QED BY <1>s, <2>1, <3>1, KeptSalts DEF Keeps
  <2> QED BY <2>1
<1>f. ASSUME fails(t) PROVE \E p : Keeps(p)
  <2> DEFINE p == [tab[t] EXCEPT !.call = NoCall]
  <2>1. Keeps(p)
    BY <1>0, <1>f DEF fails, Page, Committing, NoCall, Keeps
  <2> HIDE DEF p
  <2> QED BY <2>1
<1>g. ASSUME NEW pc \in {"upload", "post"}, goes(t, pc), tab[t].call.pc \in Posting
      PROVE  \E p : Keeps(p)
  <2> DEFINE p == [tab[t] EXCEPT !.call.pc = pc]
  <2>0. pc \in Steps
    BY NamesOfCalls
  <2>1. p \in Page /\ p.draft = tab[t].draft /\ p.commitTx = tab[t].commitTx
        /\ p.call.kind = tab[t].call.kind /\ p.call.salt = tab[t].call.salt
    BY <1>0, <2>0 DEF Page, Call
  <2>2. Keeps(p)
    BY <1>g, <2>1 DEF goes, Committing, Keeps
  <2> HIDE DEF p
  <2> QED BY <2>2
<1>1. CASE loadVault(t)
  <2>1. CASE becomes(t, [tab[t] EXCEPT !.seen = round, !.call = NoCall])
    <3> DEFINE p == [tab[t] EXCEPT !.seen = round, !.call = NoCall]
    <3>1. Keeps(p)
      BY <1>0, <2>1 DEF Page, Committing, NoCall, Keeps
    <3> HIDE DEF p
    <3> QED BY <3>1
  <2> QED BY <1>1, <1>f, <2>1 DEF loadVault
<1>2. CASE edit(t)
  <2>1. PICK c \in Contents : becomes(t, [tab[t] EXCEPT !.content = c])
    BY <1>2 DEF edit
  <2> DEFINE p == [tab[t] EXCEPT !.content = c]
  <2>2. Keeps(p)
    BY <1>0, <2>1 DEF Page, What, Keeps
  <2> HIDE DEF p
  <2> QED BY <2>2
<1>3. CASE handleReveal(t)
  <2> DEFINE d == tab[t].draft
             q == [pc |-> "session", kind |-> "reveal", agent |-> account, round |-> tab[t].seen,
                   content |-> snapshot(tab[t]), hash |-> d.hash, salt |-> d.salt]
             p == [tab[t] EXCEPT !.call = q]
  <2>1. becomes(t, p)
    BY <1>3 DEF handleReveal
  <2>2. d.hash \in Hash /\ d.salt \in Nat /\ snapshot(tab[t]) \in What /\ tab[t].seen \in Nat
    BY <1>0 DEF Page, Draft, snapshot
  <2>3. q \in Call /\ ~Committing(q)
    BY <1>0, <2>2, DraftsAndCalls, NamesOfCalls DEF Committing
  <2> HIDE DEF q
  <2>4. Keeps(p)
    BY <1>0, <2>1, <2>3 DEF Page, Keeps
  <2> HIDE DEF p
  <2> QED BY <2>4
<1>4. CASE handleSubmitChallenge(t)
  <2> DEFINE q == [NoCall EXCEPT !.pc = "fetch", !.kind = "issue", !.agent = account]
             p == [tab[t] EXCEPT !.call = q]
  <2>1. becomes(t, p)
    BY <1>4 DEF handleSubmitChallenge
  <2>2. q \in Call /\ ~Committing(q)
    BY <1>0, NamesOfCalls DEF Call, Committing
  <2> HIDE DEF q
  <2>3. Keeps(p)
    BY <1>0, <2>1, <2>2 DEF Page, Keeps
  <2> HIDE DEF p
  <2> QED BY <2>3
<1>5. CASE submitRuleChallenge(t)
  <2>1. CASE becomes(t, [tab[t] EXCEPT !.call.pc = "session", !.call.round = issueRound(t)])
    <3> DEFINE p == [tab[t] EXCEPT !.call.pc = "session", !.call.round = issueRound(t)]
    <3>1. tab[t].call.kind = "issue"
      BY <1>5, PageStep DEF submitRuleChallenge, at, PageOK
    <3>2. p \in Page /\ p.draft = tab[t].draft /\ p.commitTx = tab[t].commitTx /\ p.call.kind = "issue"
      BY <1>0, <3>1, NamesOfCalls DEF Page, Call, issueRound
    <3>3. Keeps(p)
      BY <2>1, <3>2 DEF Committing, Keeps
    <3> HIDE DEF p
    <3> QED BY <3>3
  <2> QED BY <1>5, <1>f, <2>1 DEF submitRuleChallenge
<1>6. CASE ensureAgentSession(t) \/ resolvePayloadUri(t)
  <2>1. fails(t) \/ ((goes(t, "upload") \/ goes(t, "post")) /\ tab[t].call.pc \in Posting)
    BY <1>6 DEF ensureAgentSession, resolvePayloadUri, at, Posting
  <2> QED BY <1>f, <1>g, <2>1
<1> QED BY <1>1, <1>2, <1>3, <1>4, <1>5, <1>6

LEMMA SaltsAreSafe == IInv /\ SaltInv /\ [Next]_vars => SaltInv'
<1> SUFFICES ASSUME IInv, SaltInv, [Next]_vars PROVE SaltInv'
  OBVIOUS
<1>1. ASSUME UNCHANGED <<subs, tab, salts, faults>> PROVE SaltInv'
  <2>1. commits' = commits
    BY <1>1 DEF commits
  <2>2. StoredSalts' /\ SaltsOnTheirWay' /\ NoneBeforeTheCommit'
    BY <1>1, <2>1 DEF SaltInv, StoredSalts, SaltsOnTheirWay, NoneBeforeTheCommit, Committing
  <2>3. Lost(subs', tab') = Lost(subs, tab)
    BY <1>1 DEF Lost
  <2>4. FewAreLost'
    BY <1>1, <2>3, OneMoreLost
  <2> QED BY <2>2, <2>4 DEF SaltInv
<1>2. CASE switch
  BY <1>1, <1>2 DEF switch
<1>3. ASSUME NEW t \in Tabs,
             \/ loadVault(t) \/ edit(t) \/ handleCommit(t) \/ handleReveal(t) \/ handleSubmitChallenge(t)
             \/ step(t) \/ reload(t)
      PROVE  SaltInv'
  BY <1>3, PageSalts, CommitSalts, SubmitSalts, ReloadSalts DEF step
<1>4. CASE UNCHANGED vars
  BY <1>1, <1>4 DEF vars
<1> QED BY <1>2, <1>3, <1>4 DEF Next

(* What a validator has committed to can be revealed unless an answer or a *)
(* tab was lost, one for each, and a submission is made in the session of  *)
(* the agent it is for, who was found in the round's committee.            *)
(* [submit/page.tsx, handleCommit; agent-session.ts, ensureAgentSession]   *)
THEOREM CommitsStayUsable == Spec => []CommitsAreUsable
<1>1. Init => IInv /\ SeatInv /\ SaltInv
  BY InitialPages, InitialSeats, InitialSalts
<1>2. IInv /\ SeatInv /\ SaltInv /\ [Next]_vars => (IInv /\ SeatInv /\ SaltInv)'
  BY StepKeeps, SeatsAreKept, SaltsAreSafe
<1>3. SeatInv => SessionIsTheAgents
  BY DEF SeatInv, Seated, Posting, SessionIsTheAgents
<1>4. SaltInv => SaltsAreKept
  <2>1. {c \in commits : \A t \in Tabs : tab[t].draft.salt # c.salt} = Lost(subs, tab)
    BY DEF Lost, commits
  <2> QED BY <2>1 DEF SaltInv, FewAreLost, SaltsAreKept
<1> QED BY <1>1, <1>2, <1>3, <1>4, PTL DEF Spec, CommitsAreUsable

-----------------------------------------------------------------------------
(* Vault creation.  The metadata, the transaction, the vault and the       *)
(* record carry one setter and one sum because each is made of the one     *)
(* before; a page past the check of the treasury was not the treasury's    *)
(* when it read who that is.                                               *)
Payers == Accounts \cup {NoAccount}
Asked == {"upload", "request", "chain", "treasury", "minimum", "send", "receipt", "register"}
Paying == {"receipt", "register"}
Entry == [pc : Asked \cup {"form"}, form : VC!Form \cup {VC!NoForm}, wallet : Payers, uri : Payers, reign : Nat, tx : Nat]
Payment == [from : Accounts, form : VC!Form, gross : Nat, uri : Payers, reign : Nat,
            status : {"pending", "success", "reverted"}, vault : Nat]
Built == [setter : Accounts, gross : Nat, uri : Payers, given : BOOLEAN, reign : Nat]

NotTheTreasurys(w, n) == n <= reign /\ (w = treasury => n < reign)

WithinCap(f) == f \in VC!Form /\ f.amount * ListedUnit <= Cap

EntryOK(e, ts) ==
    /\ e.pc \in Asked => e.wallet \in Accounts /\ WithinCap(e.form)
    /\ e.pc \in Asked \ {"upload"} => e.form.given \/ e.uri = e.wallet
    /\ e.pc \in {"minimum", "send"} \cup Paying => NotTheTreasurys(e.wallet, e.reign)
    /\ e.pc \in Paying =>
          e.tx \in DOMAIN ts /\ ts[e.tx].from = e.wallet /\ ts[e.tx].uri = e.uri
    /\ e.pc = "register" => ts[e.tx].status = "success"

PaymentOK(x, made) ==
    /\ WithinCap(x.form) /\ x.gross = x.form.amount * Unit
    /\ x.form.given \/ x.uri = x.from
    /\ NotTheTreasurys(x.from, x.reign)
    /\ x.status = "success" =>
          x.vault \in DOMAIN made
          /\ made[x.vault] = [setter |-> x.from, gross |-> x.gross, uri |-> x.uri, given |-> x.form.given, reign |-> x.reign]

RecordOK(r, ts) ==
    /\ r.tx \in DOMAIN ts /\ ts[r.tx].status = "success" /\ r.id = ts[r.tx].vault
    /\ r.setter = ts[r.tx].from /\ r.gross = ts[r.tx].gross /\ r.uri = ts[r.tx].uri

CreationInv ==
    /\ payer \in Payers /\ losses \in Nat /\ reign \in Nat
    /\ sent \in Seq(Payment) /\ vaults \in Seq(Built) /\ forms \in [CreationTabs -> Entry]
    /\ \A t \in CreationTabs : EntryOK(forms[t], sent)
    /\ \A i \in DOMAIN sent : PaymentOK(sent[i], vaults)
    /\ \A i \in DOMAIN vaults : \E j \in DOMAIN sent : sent[j].status = "success" /\ sent[j].vault = i
    /\ \A r \in records : RecordOK(r, sent)

LEMMA CreationAtFirst == ASSUME VC!Init PROVE CreationInv
<1>1. sent = <<>> /\ vaults = <<>> /\ DOMAIN sent = {} /\ DOMAIN vaults = {}
  BY DEF VC!Init
<1>2. VC!Idle \in Entry /\ VC!Idle.pc = "form"
  BY DEF VC!Idle, Entry, Payers, VC!NoForm
<1>3. forms = [t \in CreationTabs |-> VC!Idle]
  BY DEF VC!Init
<1>4. \A t \in CreationTabs : EntryOK(forms[t], sent)
  BY <1>2, <1>3 DEF EntryOK, Asked, Paying
<1>5. sent \in Seq(Payment) /\ vaults \in Seq(Built)
  BY <1>1, EmptySeq
<1> HIDE DEF VC!Idle
<1>6. forms \in [CreationTabs -> Entry]
  BY <1>2, <1>3
<1> QED BY <1>1, <1>4, <1>5, <1>6 DEF VC!Init, CreationInv, Payers

(* A page moves, and nothing else does but losses. *)
LEMMA EntryMoves ==
  ASSUME CreationInv, NEW t \in CreationTabs, NEW e \in Entry, EntryOK(e, sent), forms' = [forms EXCEPT ![t] = e],
         UNCHANGED <<payer, sent, vaults, treasury, reign>>, losses' \in Nat,
         \A r \in records' : RecordOK(r, sent)
  PROVE  CreationInv'
<1>1. forms' \in [CreationTabs -> Entry]
  BY DEF CreationInv
<1>2. ASSUME NEW u \in CreationTabs PROVE EntryOK(forms[u], sent)'
  <2>1. forms'[u] = IF u = t THEN e ELSE forms[u]
    BY DEF CreationInv
  <2>2. EntryOK(forms[u], sent)
    BY DEF CreationInv
  <2> QED BY <2>1, <2>2 DEF EntryOK, NotTheTreasurys
<1>3. \A i \in DOMAIN sent : PaymentOK(sent[i], vaults)'
  BY DEF CreationInv, PaymentOK, NotTheTreasurys
<1>4. \A r \in records' : RecordOK(r, sent)'
  BY DEF RecordOK
<1> QED BY <1>1, <1>2, <1>3, <1>4 DEF CreationInv

LEMMA IdleEntry == VC!Idle \in Entry /\ EntryOK(VC!Idle, sent)
  BY DEF VC!Idle, Entry, EntryOK, Payers, VC!NoForm, Asked, Paying

(* A page that fails is empty again. *)
LEMMA EntryFails ==
  ASSUME CreationInv, NEW t \in CreationTabs, VC!fails(t), UNCHANGED <<payer, sent, vaults, treasury, reign>>, losses' \in Nat,
         \A r \in records' : RecordOK(r, sent)
  PROVE  CreationInv'
<1> HIDE DEF VC!Idle
<1> QED BY IdleEntry, EntryMoves DEF VC!fails, VC!goes

LEMMA LossCounts == ASSUME CreationInv, VC!fault PROVE losses' \in Nat
  BY DEF CreationInv, VC!fault

(* The page of a tab and what is known of it. *)
LEMMA EntryOf ==
  ASSUME CreationInv, NEW t \in CreationTabs
  PROVE  forms[t] \in Entry /\ EntryOK(forms[t], sent)
  BY DEF CreationInv

LEMMA RecordsOf == ASSUME CreationInv PROVE \A r \in records : RecordOK(r, sent)
  BY DEF CreationInv

(* What writing some fields of an entry makes of it. *)
LEMMA SentEntered ==
  ASSUME NEW r \in Entry, NEW k \in Asked, NEW n \in Nat,
         NEW e, e = [r EXCEPT !.pc = k, !.tx = n]
  PROVE  e \in Entry /\ e.pc = k /\ e.form = r.form /\ e.wallet = r.wallet /\ e.uri = r.uri /\ e.reign = r.reign /\ e.tx = n
  BY DEF Entry

LEMMA SubmitFormKeeps ==
  ASSUME VC!VaultCreationAssumption, CreationInv, NEW t \in CreationTabs, VC!handleSubmit(t)
  PROVE  CreationInv'
<1> HIDE DEF VC!Idle
<1>0. PICK f \in VC!Form, w \in Accounts :
        /\ VC!validate(f)
        /\ VC!goes(t, [VC!Idle EXCEPT !.pc = IF f.given THEN "request" ELSE "upload", !.form = f, !.wallet = w])
  BY DEF VC!handleSubmit
<1>1. PICK k, e :
        /\ VC!validate(f) /\ k = IF f.given THEN "request" ELSE "upload"
        /\ e = [VC!Idle EXCEPT !.pc = k, !.form = f, !.wallet = w]
        /\ forms' = [forms EXCEPT ![t] = e]
  BY <1>0 DEF VC!goes
<1>2. k \in Asked /\ w \in Payers
  BY <1>1 DEF Asked, Payers
<1>3. e \in Entry /\ e.pc = k /\ e.form = f /\ e.wallet = w
  <2>1. VC!Idle \in Entry
    BY IdleEntry
  <2> QED BY <1>1, <1>2, <2>1 DEF Entry
<1>4. EntryOK(e, sent)
  <2>1. f.amount \in Nat /\ ListedUnit \in Nat /\ Cap \in Nat
    BY DEF VC!Form, VC!VaultCreationAssumption
  <2>2. f.amount * ListedUnit \in Nat
    BY <2>1
  <2>3. WithinCap(f)
    BY <1>1, <2>1, <2>2 DEF VC!validate, VC!collateralCapExceeded, WithinCap
  <2> QED BY <1>1, <1>3, <2>3 DEF EntryOK, Asked, Paying
<1>5. UNCHANGED <<payer, sent, vaults, treasury, reign, losses, records>>
  BY DEF VC!handleSubmit, VC!outside, VC!chain
<1> QED BY <1>1, <1>3, <1>4, <1>5, EntryMoves, RecordsOf DEF CreationInv

LEMMA AskKeeps ==
  ASSUME CreationInv, NEW t \in CreationTabs,
         VC!storePayload(t) \/ VC!requestAccounts(t) \/ VC!requestChain(t) \/ VC!readTreasury(t) \/ VC!readMinimum(t)
  PROVE  CreationInv'
<1> DEFINE r == forms[t]
<1>0. r \in Entry /\ EntryOK(r, sent)
  BY EntryOf
<1>1. UNCHANGED <<payer, sent, vaults, treasury, reign, records>>
  BY DEF VC!storePayload, VC!requestAccounts, VC!requestChain, VC!readTreasury, VC!readMinimum,
     VC!calls, VC!outside, VC!chain
<1>2. losses' \in Nat
  BY LossCounts DEF CreationInv, VC!storePayload, VC!requestAccounts, VC!requestChain, VC!readTreasury,
     VC!readMinimum
<1>3. CASE VC!fails(t)
  BY <1>1, <1>2, <1>3, EntryFails, RecordsOf
<1>4. ASSUME NEW e \in Entry, EntryOK(e, sent), VC!goes(t, e) PROVE CreationInv'
  BY <1>1, <1>2, <1>4, EntryMoves, RecordsOf DEF VC!goes
<1> USE DEF Entry, EntryOK, Asked, Paying, VC!calls
<1>5. CASE VC!storePayload(t) /\ VC!goes(t, [forms[t] EXCEPT !.pc = "request", !.uri = forms[t].wallet])
  <2>1. [r EXCEPT !.pc = "request", !.uri = r.wallet] \in Entry
    BY <1>0
  <2>2. EntryOK([r EXCEPT !.pc = "request", !.uri = r.wallet], sent)
    BY <1>0, <1>5 DEF VC!storePayload
  <2> QED BY <1>4, <1>5, <2>1, <2>2
<1>6. CASE VC!requestAccounts(t) /\ VC!sameSetter(t) /\ VC!goes(t, [forms[t] EXCEPT !.pc = "chain", !.wallet = payer])
  <2>1. payer = r.wallet
    BY <1>6 DEF VC!sameSetter
  <2>2. [r EXCEPT !.pc = "chain", !.wallet = payer] = [r EXCEPT !.pc = "chain"]
    BY <1>0, <2>1
  <2>3. [r EXCEPT !.pc = "chain"] \in Entry /\ EntryOK([r EXCEPT !.pc = "chain"], sent)
    BY <1>0, <1>6 DEF VC!requestAccounts
  <2> QED BY <1>4, <1>6, <2>2, <2>3
<1>7. CASE VC!requestChain(t) /\ VC!goes(t, [forms[t] EXCEPT !.pc = "treasury"])
  <2>1. [r EXCEPT !.pc = "treasury"] \in Entry /\ EntryOK([r EXCEPT !.pc = "treasury"], sent)
    BY <1>0, <1>7 DEF VC!requestChain
  <2> QED BY <1>4, <1>7, <2>1
<1>8. CASE VC!readTreasury(t) /\ ~VC!isTreasury(r.wallet)
           /\ VC!goes(t, [forms[t] EXCEPT !.pc = "minimum", !.reign = reign])
  <2> DEFINE e == [r EXCEPT !.pc = "minimum", !.reign = reign]
  <2>1. /\ e \in Entry /\ e.pc = "minimum" /\ e.form = r.form /\ e.wallet = r.wallet /\ e.uri = r.uri
        /\ e.reign = reign /\ reign \in Nat
    BY <1>0 DEF CreationInv
  <2>2. r.pc = "treasury" /\ r.wallet # treasury
    BY <1>8 DEF VC!readTreasury, VC!isTreasury
  <2> HIDE DEF e
  <2>3. EntryOK(e, sent)
    BY <1>0, <2>1, <2>2 DEF NotTheTreasurys
  <2> QED BY <1>4, <1>8, <2>1, <2>3 DEF e
<1>9. CASE VC!readMinimum(t) /\ VC!goes(t, [forms[t] EXCEPT !.pc = "send"])
  <2>1. [r EXCEPT !.pc = "send"] \in Entry /\ EntryOK([r EXCEPT !.pc = "send"], sent)
    BY <1>0, <1>9 DEF VC!readMinimum
  <2> QED BY <1>4, <1>9, <2>1
<1> QED BY <1>3, <1>5, <1>6, <1>7, <1>8, <1>9
      DEF VC!storePayload, VC!requestAccounts, VC!requestChain, VC!readTreasury, VC!readMinimum

(* Earlier payments stay what they were when one is sent. *)
LEMMA PaymentSent ==
  ASSUME CreationInv, NEW x \in Payment, PaymentOK(x, vaults), sent' = Append(sent, x),
         NEW t \in CreationTabs, NEW e \in Entry, forms' = [forms EXCEPT ![t] = e], EntryOK(e, sent'),
         UNCHANGED <<payer, vaults, treasury, reign, records>>, losses' \in Nat, x.status = "pending"
  PROVE  CreationInv'
<1>1. /\ sent' \in Seq(Payment) /\ Len(sent') = Len(sent) + 1
      /\ \A i \in DOMAIN sent : i \in DOMAIN sent' /\ sent'[i] = sent[i]
      /\ sent'[Len(sent) + 1] = x
      /\ DOMAIN sent' = DOMAIN sent \cup {Len(sent) + 1}
  BY AppendProperties DEF CreationInv
<1>2. forms' \in [CreationTabs -> Entry]
  BY DEF CreationInv
<1>3. ASSUME NEW u \in CreationTabs PROVE EntryOK(forms[u], sent)'
  <2>1. forms'[u] = IF u = t THEN e ELSE forms[u]
    BY DEF CreationInv
  <2>2. EntryOK(forms[u], sent)
    BY DEF CreationInv
  <2>3. CASE u # t
    <3>1. forms'[u] = forms[u] /\ treasury' = treasury /\ reign' = reign
      BY <2>1, <2>3
    <3>2. EntryOK(forms[u], sent)'  <=> EntryOK(forms[u], sent')
      BY <3>1 DEF EntryOK, NotTheTreasurys
    <3>3. EntryOK(forms[u], sent')
      BY <1>1, <2>2 DEF EntryOK, Asked, Paying
    <3> QED BY <3>2, <3>3
  <2>4. CASE u = t
    <3>1. forms'[u] = e /\ treasury' = treasury /\ reign' = reign
      BY <2>1, <2>4
    <3>2. EntryOK(forms[u], sent)'  <=> EntryOK(e, sent')
      BY <3>1 DEF EntryOK, NotTheTreasurys
    <3> QED BY <3>2
  <2> QED BY <2>3, <2>4
<1>4. ASSUME NEW i \in DOMAIN sent' PROVE PaymentOK(sent[i], vaults)'
  <2>1. PaymentOK(sent'[i], vaults)
    BY <1>1 DEF CreationInv
  <2> QED BY <2>1 DEF PaymentOK, NotTheTreasurys
<1>5. ASSUME NEW i \in DOMAIN vaults PROVE \E j \in DOMAIN sent' : sent'[j].status = "success" /\ sent'[j].vault = i
  <2>1. PICK j \in DOMAIN sent : sent[j].status = "success" /\ sent[j].vault = i
    BY DEF CreationInv
  <2> QED BY <1>1, <2>1
<1>6. \A r \in records : RecordOK(r, sent)'
  BY <1>1 DEF CreationInv, RecordOK
<1> QED BY <1>1, <1>2, <1>3, <1>4, <1>5, <1>6 DEF CreationInv

LEMMA WriteKeeps ==
  ASSUME VC!VaultCreationAssumption, CreationInv, NEW t \in CreationTabs, VC!writeContract(t)
  PROVE  CreationInv'
<1> DEFINE r == forms[t]
           x == [from |-> r.wallet, form |-> r.form, gross |-> r.form.amount * Unit, uri |-> r.uri, reign |-> r.reign,
                 status |-> "pending", vault |-> 0]
<1>0. r \in Entry /\ EntryOK(r, sent) /\ r.pc = "send"
  BY EntryOf DEF VC!writeContract, VC!calls
<1>1. UNCHANGED <<payer, vaults, treasury, reign, records>> /\ losses' \in Nat
  BY LossCounts DEF CreationInv, VC!writeContract, VC!calls, VC!outside, VC!chain
<1>2. r.wallet \in Accounts /\ WithinCap(r.form) /\ (r.form.given \/ r.uri = r.wallet)
      /\ NotTheTreasurys(r.wallet, r.reign)
  BY <1>0 DEF EntryOK, Asked, Paying
<1>3. r.form.amount * Unit \in Nat
  <2>1. r.form.amount \in Nat /\ Unit \in Nat
    BY <1>2 DEF WithinCap, VC!Form, VC!VaultCreationAssumption
  <2> QED BY <2>1
<1>4. x \in Payment /\ PaymentOK(x, vaults)
  BY <1>0, <1>2, <1>3 DEF Payment, PaymentOK, WithinCap, Entry
<1>6. CASE VC!fails(t) /\ UNCHANGED sent
  BY <1>1, <1>6, EntryFails, RecordsOf
<1>7. CASE sent' = Append(sent, x) /\ VC!fails(t)
  <2>1. EntryOK(VC!Idle, sent') /\ VC!Idle \in Entry
    BY DEF VC!Idle, Entry, EntryOK, Payers, VC!NoForm, Asked, Paying
  <2> HIDE DEF VC!Idle, x
  <2> QED BY <1>1, <1>4, <1>7, <2>1, PaymentSent DEF VC!fails, VC!goes, x
<1>8. CASE sent' = Append(sent, x) /\ VC!goes(t, [r EXCEPT !.pc = "receipt", !.tx = Len(sent')])
  <2> DEFINE e == [r EXCEPT !.pc = "receipt", !.tx = Len(sent')]
  <2>1. sent \in Seq(Payment) /\ Len(sent) \in Nat
    BY DEF CreationInv
  <2>2. Len(sent') = Len(sent) + 1 /\ sent'[Len(sent) + 1] = x /\ Len(sent) + 1 \in DOMAIN sent'
    <3> HIDE DEF x
    <3> QED BY <1>4, <1>8, <2>1, AppendProperties
  <2>3. "receipt" \in Asked /\ Len(sent') \in Nat
    BY <2>1, <2>2 DEF Asked
  <2>4. e \in Entry /\ e.pc = "receipt" /\ e.form = r.form /\ e.wallet = r.wallet /\ e.uri = r.uri /\ e.reign = r.reign /\ e.tx = Len(sent')
    <3> HIDE DEF x
    <3> QED BY <1>0, <2>3, SentEntered
  <2>5. EntryOK(e, sent')
    <3>1. x.from = r.wallet /\ x.uri = r.uri
      OBVIOUS
    <3> HIDE DEF x, e
    <3>2. treasury' = treasury /\ reign' = reign
      BY <1>1
    <3> QED BY <1>2, <2>2, <2>4, <3>1, <3>2 DEF EntryOK, Asked, Paying
  <2>6. forms' = [forms EXCEPT ![t] = e]
    BY <1>8 DEF VC!goes
  <2>7. x.status = "pending"
    OBVIOUS
  <2> HIDE DEF e, x
  <2> QED BY <1>1, <1>4, <1>8, <2>4, <2>5, <2>6, <2>7, PaymentSent
<1>9. \/ VC!fails(t) /\ UNCHANGED sent
      \/ sent' = Append(sent, x) /\ VC!fails(t)
      \/ sent' = Append(sent, x) /\ VC!goes(t, [r EXCEPT !.pc = "receipt", !.tx = Len(sent')])
  BY DEF VC!writeContract, VC!chain
<1> QED BY <1>6, <1>7, <1>8, <1>9

(* A transaction gets mined: it makes a vault of its own or none. *)
LEMMA MineKeeps == ASSUME CreationInv, NEW i \in DOMAIN sent, VC!mine(i) PROVE CreationInv'
<1> DEFINE x == sent[i]
<1>0. /\ x \in Payment /\ PaymentOK(x, vaults) /\ x.status = "pending"
      /\ sent \in Seq(Payment) /\ vaults \in Seq(Built)
      /\ UNCHANGED <<payer, treasury, reign, records, forms, losses>>
  <2>1. sent \in Seq(Payment) /\ vaults \in Seq(Built) /\ PaymentOK(x, vaults)
    BY DEF CreationInv
  <2>2. x \in Payment
    BY <2>1, ElementOfSeq
  <2> QED BY <2>1, <2>2 DEF VC!mine, VC!outside
<1>1. ASSUME NEW y \in Payment, sent' = [sent EXCEPT ![i] = y], y.from = x.from, y.form = x.form,
             y.gross = x.gross, y.uri = x.uri, y.reign = x.reign, PaymentOK(y, vaults'),
             \A j \in DOMAIN vaults : j \in DOMAIN vaults' /\ vaults'[j] = vaults[j],
             \A j \in DOMAIN vaults' : j \in DOMAIN vaults \/ (y.status = "success" /\ y.vault = j),
             vaults' \in Seq(Built)
      PROVE  CreationInv'
  <2>1. sent' \in Seq(Payment) /\ DOMAIN sent' = DOMAIN sent
    BY <1>0, <1>1
  <2>2. \A j \in DOMAIN sent : sent'[j] = IF j = i THEN y ELSE sent[j]
    BY <1>0, <1>1
  <2>3. ASSUME NEW j \in DOMAIN sent' PROVE PaymentOK(sent[j], vaults)'
    <3>1. PaymentOK(sent'[j], vaults')
      <4>1. CASE j = i
        BY <1>1, <2>1, <2>2, <4>1
      <4>2. CASE j # i
        <5>1. PaymentOK(sent[j], vaults) /\ sent'[j] = sent[j]
          BY <2>1, <2>2, <4>2 DEF CreationInv
        <5> QED BY <1>1, <5>1 DEF PaymentOK
      <4> QED BY <4>1, <4>2
    <3> QED BY <1>0, <3>1 DEF PaymentOK, NotTheTreasurys
  <2>4. ASSUME NEW t \in CreationTabs PROVE EntryOK(forms[t], sent)'
    <3>1. EntryOK(forms[t], sent')
      <4>1. EntryOK(forms[t], sent)
        BY EntryOf
      <4> QED BY <1>0, <1>1, <2>1, <2>2, <4>1 DEF EntryOK, Asked, Paying
    <3>2. forms'[t] = forms[t] /\ treasury' = treasury /\ reign' = reign
      BY <1>0
    <3>3. EntryOK(forms[t], sent)' <=> EntryOK(forms[t], sent')
      BY <3>2 DEF EntryOK, NotTheTreasurys
    <3> QED BY <3>1, <3>3
  <2>5. ASSUME NEW j \in DOMAIN vaults' PROVE \E k \in DOMAIN sent' : sent'[k].status = "success" /\ sent'[k].vault = j
    <3>1. CASE j \in DOMAIN vaults
      <4>1. PICK k \in DOMAIN sent : sent[k].status = "success" /\ sent[k].vault = j
        BY <3>1 DEF CreationInv
      <4>2. k # i
        BY <1>0, <4>1
      <4> QED BY <2>1, <2>2, <4>1, <4>2
    <3>2. CASE y.status = "success" /\ y.vault = j
      BY <2>1, <2>2, <3>2
    <3> QED BY <1>1, <3>1, <3>2
  <2>6. \A r \in records : RecordOK(r, sent)'
    BY <1>0, <1>1, <2>1, <2>2 DEF CreationInv, RecordOK
  <2>7. forms' \in [CreationTabs -> Entry] /\ payer' \in Payers /\ losses' \in Nat
    BY <1>0 DEF CreationInv
  <2> QED BY <1>0, <1>1, <2>1, <2>3, <2>4, <2>5, <2>6, <2>7 DEF CreationInv
<1>2. CASE sent' = [sent EXCEPT ![i].status = "reverted"] /\ UNCHANGED vaults
  <2> DEFINE y == [x EXCEPT !.status = "reverted"]
  <2>1. y \in Payment /\ y.from = x.from /\ y.form = x.form /\ y.gross = x.gross /\ y.uri = x.uri /\ y.reign = x.reign /\ y.status = "reverted"
    BY <1>0 DEF Payment
  <2>2. PaymentOK(y, vaults')
    <3> HIDE DEF y
    <3> QED BY <1>0, <2>1 DEF PaymentOK
  <2>3. sent' = [sent EXCEPT ![i] = y]
    BY <1>2
  <2> HIDE DEF y, x
  <2> QED BY <1>0, <1>1, <1>2, <2>1, <2>2, <2>3
<1>3. CASE /\ vaults' = Append(vaults, [setter |-> x.from, gross |-> x.gross, uri |-> x.uri, given |-> x.form.given, reign |-> x.reign])
           /\ sent' = [sent EXCEPT ![i].status = "success", ![i].vault = Len(vaults')]
  <2> DEFINE b == [setter |-> x.from, gross |-> x.gross, uri |-> x.uri, given |-> x.form.given, reign |-> x.reign]
             n == Len(vaults) + 1
             y == [x EXCEPT !.status = "success", !.vault = n]
  <2>1. b \in Built
    <3>1. x.form \in VC!Form
      BY <1>0 DEF Payment
    <3> QED BY <1>0, <3>1 DEF Payment, Built, VC!Form
  <2>2. /\ vaults' \in Seq(Built) /\ Len(vaults') = n /\ n \in Nat /\ vaults'[n] = b
        /\ \A j \in DOMAIN vaults : j \in DOMAIN vaults' /\ vaults'[j] = vaults[j]
        /\ DOMAIN vaults' = DOMAIN vaults \cup {n}
    <3>1. Len(vaults) \in Nat /\ vaults' = Append(vaults, b)
      BY <1>0, <1>3
    <3> HIDE DEF b
    <3> QED BY <1>0, <2>1, <3>1, AppendProperties
  <2>3. /\ y \in Payment /\ y.from = x.from /\ y.form = x.form /\ y.gross = x.gross /\ y.uri = x.uri /\ y.reign = x.reign
        /\ y.status = "success" /\ y.vault = n
    BY <1>0, <2>2 DEF Payment
  <2>4. PaymentOK(y, vaults')
    <3>1. vaults'[n] = [setter |-> y.from, gross |-> y.gross, uri |-> y.uri, given |-> y.form.given, reign |-> y.reign]
      BY <2>2, <2>3
    <3> HIDE DEF y, b
    <3> QED BY <1>0, <2>2, <2>3, <3>1 DEF PaymentOK
  <2>5. sent' = [sent EXCEPT ![i] = y]
    <3>1. sent' = [sent EXCEPT ![i].status = "success", ![i].vault = n]
      BY <1>3, <2>2
    <3> HIDE DEF n
    <3> QED BY <1>0, <3>1
  <2> HIDE DEF y, x, b, n
  <2> QED BY <1>1, <2>2, <2>3, <2>4, <2>5
<1> QED BY <1>2, <1>3 DEF VC!mine

LEMMA ReceiptKeeps ==
  ASSUME CreationInv, NEW t \in CreationTabs, VC!waitForTransactionReceipt(t) \/ VC!close(t)
  PROVE  CreationInv'
<1> DEFINE r == forms[t]
<1>0. r \in Entry /\ EntryOK(r, sent)
  BY EntryOf
<1>1. UNCHANGED <<payer, sent, vaults, treasury, reign, records>>
  BY DEF VC!waitForTransactionReceipt, VC!close, VC!calls, VC!outside, VC!chain
<1>2. losses' \in Nat
  BY LossCounts DEF CreationInv, VC!waitForTransactionReceipt, VC!close
<1>3. CASE VC!fails(t)
  BY <1>1, <1>2, <1>3, EntryFails, RecordsOf
<1>4. CASE /\ VC!waitForTransactionReceipt(t) /\ sent[forms[t].tx].status = "success"
           /\ VC!goes(t, [forms[t] EXCEPT !.pc = "register"])
  <2> DEFINE e == [r EXCEPT !.pc = "register"]
  <2>1. e \in Entry /\ EntryOK(e, sent)
    BY <1>0, <1>4 DEF VC!waitForTransactionReceipt, Entry, EntryOK, Asked, Paying, VC!calls
  <2>2. forms' = [forms EXCEPT ![t] = e]
    BY <1>4 DEF VC!goes
  <2> HIDE DEF e
  <2> QED BY <1>1, <1>2, <2>1, <2>2, EntryMoves, RecordsOf
<1> QED BY <1>3, <1>4 DEF VC!waitForTransactionReceipt, VC!close

LEMMA RegisterKeeps == ASSUME CreationInv, NEW t \in CreationTabs, VC!createVault(t) PROVE CreationInv'
<1> DEFINE r == forms[t]
           x == sent[r.tx]
           entry == [id |-> VC!parseVaultIdFromReceipt(x), setter |-> r.wallet, gross |-> x.gross, uri |-> r.uri, tx |-> r.tx]
<1>0. r \in Entry /\ EntryOK(r, sent) /\ r.pc = "register"
  BY EntryOf DEF VC!createVault, VC!calls
<1>1. UNCHANGED <<payer, sent, vaults, treasury, reign>> /\ VC!fails(t) /\ losses' \in Nat
  BY LossCounts DEF VC!createVault, VC!calls, VC!outside, VC!chain, CreationInv
<1>2. records' \subseteq records \cup {entry}
  BY DEF VC!createVault
<1>3. RecordOK(entry, sent)
  BY <1>0 DEF RecordOK, EntryOK, Asked, Paying, VC!parseVaultIdFromReceipt
<1>4. \A q \in records' : RecordOK(q, sent)
  <2> HIDE DEF entry
  <2> QED BY <1>2, <1>3, RecordsOf
<1> QED BY <1>1, <1>4, EntryFails

LEMMA AroundKeeps ==
  ASSUME CreationInv, VC!resolveProofOfVaultRuntimeConfig \/ VC!walletChanges \/ UNCHANGED VC!vars
  PROVE  CreationInv'
<1>1. /\ UNCHANGED <<sent, vaults, records, forms, losses>> /\ payer' \in Payers /\ reign \in Nat
      /\ UNCHANGED <<treasury, reign>> \/ reign' = reign + 1
  BY DEF CreationInv, VC!resolveProofOfVaultRuntimeConfig, VC!walletChanges, VC!vars, VC!outside,
     VC!chain, Payers
<1>0. ASSUME NEW w, NEW n \in Nat, NotTheTreasurys(w, n) PROVE NotTheTreasurys(w, n)'
  BY <1>0, <1>1 DEF NotTheTreasurys
<1>2. ASSUME NEW t \in CreationTabs PROVE EntryOK(forms[t], sent)'
  <2>1. forms[t].reign \in Nat /\ EntryOK(forms[t], sent)
    BY EntryOf DEF Entry
  <2> QED BY <1>0, <1>1, <2>1 DEF EntryOK, NotTheTreasurys
<1>3. ASSUME NEW i \in DOMAIN sent PROVE PaymentOK(sent[i], vaults)'
  <2>1. sent[i] \in Payment /\ PaymentOK(sent[i], vaults)
    BY ElementOfSeq DEF CreationInv
  <2>2. sent[i].reign \in Nat
    BY <2>1 DEF Payment
  <2> QED BY <1>0, <1>1, <2>1, <2>2 DEF PaymentOK, NotTheTreasurys
<1>4. \A r \in records : RecordOK(r, sent)'
  BY <1>1 DEF CreationInv, RecordOK
<1> QED BY <1>1, <1>2, <1>3, <1>4 DEF CreationInv

LEMMA CreationIsKept ==
  ASSUME VC!VaultCreationAssumption
  PROVE  CreationInv /\ [VC!Next]_VC!vars => CreationInv'
<1> SUFFICES ASSUME CreationInv, [VC!Next]_VC!vars PROVE CreationInv'
  OBVIOUS
<1>1. CASE VC!resolveProofOfVaultRuntimeConfig \/ VC!walletChanges \/ UNCHANGED VC!vars
  BY <1>1, AroundKeeps
<1>2. CASE \E t \in CreationTabs : VC!handleSubmit(t) \/ VC!step(t) \/ VC!close(t)
  <2>1. PICK t \in CreationTabs : VC!handleSubmit(t) \/ VC!step(t) \/ VC!close(t)
    BY <1>2
  <2> QED BY <2>1, SubmitFormKeeps, AskKeeps, WriteKeeps, ReceiptKeeps, RegisterKeeps DEF VC!step
<1>3. CASE \E i \in DOMAIN sent : VC!mine(i)
  BY <1>3, MineKeeps
<1> QED BY <1>1, <1>2, <1>3 DEF VC!Next

LEMMA CreationHolds == ASSUME VC!VaultCreationAssumption PROVE CreationSpec => []CreationInv
<1>1. VC!Init => CreationInv
  BY CreationAtFirst
<1> QED BY <1>1, CreationIsKept, PTL DEF CreationSpec

(* Metadata, chain and record name one setter.                             *)
(* [create/page.tsx, handleSubmit; proofOfVault.ts, createVaultRequestOnchain] *)
THEOREM SetterAlwaysAgrees == ASSUME VC!VaultCreationAssumption PROVE CreationSpec => []VC!SetterAgrees
<1>1. CreationInv => VC!SetterAgrees
  <2> SUFFICES ASSUME CreationInv PROVE VC!SetterAgrees
    OBVIOUS
  <2>1. ASSUME NEW i \in DOMAIN vaults PROVE vaults[i].given \/ vaults[i].uri = vaults[i].setter
    <3>1. PICK j \in DOMAIN sent : sent[j].status = "success" /\ sent[j].vault = i
      BY DEF CreationInv
    <3>2. PaymentOK(sent[j], vaults)
      BY DEF CreationInv
    <3> QED BY <3>1, <3>2 DEF PaymentOK
  <2>2. ASSUME NEW r \in records
        PROVE LET v == vaults[r.id] IN
              r.setter = v.setter /\ r.gross = v.gross /\ r.uri = v.uri /\ sent[r.tx].vault = r.id
    <3>1. RecordOK(r, sent) /\ PaymentOK(sent[r.tx], vaults)
      BY DEF CreationInv, RecordOK
    <3> QED BY <3>1 DEF PaymentOK, RecordOK
  <2> QED BY <2>1, <2>2 DEF VC!SetterAgrees
<1> QED BY <1>1, CreationHolds, PTL

(* No vault exceeds the settings' cap, if these list a token with no fewer *)
(* decimals than it has, and none is of who was the treasury when the page *)
(* read who that is.                                                       *)
(* [create/page.tsx, validate; proofOfVault.ts, createVaultRequestOnchain] *)
THEOREM VaultsAreFundable ==
  ASSUME VC!VaultCreationAssumption, Unit <= ListedUnit PROVE CreationSpec => []VC!FundableVault
<1>1. CreationInv => VC!FundableVault
  <2> SUFFICES ASSUME CreationInv, NEW i \in DOMAIN vaults
               PROVE vaults[i].gross <= Cap /\ (vaults[i].setter = treasury => vaults[i].reign < reign)
    BY DEF VC!FundableVault
  <2>1. PICK j \in DOMAIN sent : sent[j].status = "success" /\ sent[j].vault = i
    BY DEF CreationInv
  <2>2. PaymentOK(sent[j], vaults)
    BY DEF CreationInv
  <2>3. vaults[i].gross = sent[j].form.amount * Unit /\ WithinCap(sent[j].form)
        /\ (vaults[i].setter = treasury => vaults[i].reign < reign)
    BY <2>1, <2>2 DEF PaymentOK, NotTheTreasurys
  <2>4. sent[j].form.amount \in Nat /\ Unit \in Nat /\ ListedUnit \in Nat /\ Cap \in Nat
    BY <2>3 DEF WithinCap, VC!Form, VC!VaultCreationAssumption
  <2>5. ASSUME NEW n \in Nat PROVE n * Unit <= n * ListedUnit /\ n * Unit \in Nat /\ n * ListedUnit \in Nat
    BY <2>4
  <2> DEFINE u == sent[j].form.amount * Unit
             l == sent[j].form.amount * ListedUnit
  <2>6. u <= l /\ u \in Nat /\ l \in Nat /\ l <= Cap
    BY <2>3, <2>4, <2>5 DEF WithinCap
  <2> HIDE DEF u, l
  <2>7. u <= Cap
    BY <2>4, <2>6
  <2> QED BY <2>3, <2>7 DEF u
<1> QED BY <1>1, CreationHolds, PTL

(* Payments that no page waits for and no record is of, and that were not  *)
(* refused, were lost, one for each loss; a page waits for its own.        *)
Waiting == {t \in CreationTabs : forms[t].pc \in Paying}
Awaited == {forms[t].tx : t \in Waiting}
Recorded == {r.tx : r \in records}
LostPayments == {i \in DOMAIN sent : sent[i].status # "reverted" /\ i \notin Recorded \cup Awaited}
LossInv ==
    /\ \A t, u \in Waiting : forms[t].tx = forms[u].tx => t = u
    /\ Cardinality(LostPayments) <= losses

LEMMA LostAreFew ==
  ASSUME CreationInv
  PROVE  IsFiniteSet(LostPayments) /\ IsFiniteSet(DOMAIN sent) /\ IsFiniteSet(DOMAIN vaults)
<1>1. Len(sent) \in Nat /\ DOMAIN sent = 1 .. Len(sent) /\ Len(vaults) \in Nat /\ DOMAIN vaults = 1 .. Len(vaults)
  BY DEF CreationInv
<1>2. IsFiniteSet(1 .. Len(sent)) /\ IsFiniteSet(1 .. Len(vaults))
  BY <1>1, FS_Interval
<1>3. LostPayments \subseteq DOMAIN sent
  BY DEF LostPayments
<1> QED BY <1>1, <1>2, <1>3, FS_Subset

(* A fault may lose one more payment. *)
LEMMA OneMorePayment ==
  ASSUME CreationInv, CreationInv', LossInv,
         \A t, u \in Waiting' : forms'[t].tx = forms'[u].tx => t = u,
         \/ losses' = losses /\ LostPayments' \subseteq LostPayments
         \/ losses' = losses + 1 /\ \E x : LostPayments' \subseteq LostPayments \cup {x}
  PROVE  LossInv'
<1> DEFINE L == LostPayments
           M == LostPayments'
<1>1. IsFiniteSet(L) /\ Cardinality(L) \in Nat /\ losses \in Nat /\ Cardinality(L) <= losses
  BY LostAreFew, FS_CardinalityType DEF CreationInv, LossInv
<1> HIDE DEF L, M
<1>2. CASE losses' = losses /\ M \subseteq L
  <2>1. Cardinality(M) <= Cardinality(L) /\ Cardinality(M) \in Nat
    BY <1>1, <1>2, FS_Subset, FS_CardinalityType
  <2> QED BY <1>1, <1>2, <2>1 DEF LossInv, M
<1>3. CASE losses' = losses + 1 /\ \E x : M \subseteq L \cup {x}
  <2>1. PICK x : M \subseteq L \cup {x}
    BY <1>3
  <2>2. Cardinality(M) \in Nat /\ Cardinality(M) <= Cardinality(L) + 1
    BY <1>1, <2>1, OneMore
  <2>3. Cardinality(M) <= losses'
    BY <1>1, <1>3, <2>2
  <2> QED BY <2>3 DEF LossInv, M
<1> QED BY <1>2, <1>3 DEF L, M

LEMMA LossAtFirst == ASSUME VC!Init PROVE LossInv
<1>1. LostPayments = {} /\ Waiting = {}
  BY DEF VC!Init, LostPayments, Waiting, VC!Idle, Paying
<1> QED BY <1>1, FS_EmptySet DEF LossInv, VC!Init

(* A page stops waiting: its payment is lost unless it is on record, or    *)
(* was refused. *)
LEMMA PageStops ==
  ASSUME CreationInv, LossInv, NEW t \in CreationTabs, NEW e, e.pc \notin Paying, forms' = [forms EXCEPT ![t] = e],
         sent' = sent, Recorded \subseteq Recorded'
  PROVE  /\ \A u, v \in Waiting' : forms'[u].tx = forms'[v].tx => u = v
         /\ LostPayments' \subseteq LostPayments \cup {forms[t].tx}
         /\ \/ forms[t].pc \notin Paying
            \/ forms[t].tx \in Recorded'
            \/ sent[forms[t].tx].status = "reverted"
            => LostPayments' \subseteq LostPayments
<1>1. \A u \in CreationTabs : forms'[u] = IF u = t THEN e ELSE forms[u]
  BY DEF CreationInv
<1>2. \A u \in Waiting' : u \in Waiting /\ forms'[u] = forms[u]
  BY <1>1 DEF Waiting
<1>3. \A u \in Waiting : u # t => u \in Waiting' /\ forms'[u] = forms[u]
  BY <1>1 DEF Waiting
<1>4. LostPayments' \subseteq LostPayments \cup {forms[t].tx}
  BY <1>3 DEF LostPayments, Awaited
<1>5. ASSUME forms[t].pc \notin Paying PROVE LostPayments' \subseteq LostPayments
  <2>1. t \notin Waiting
    BY <1>5 DEF Waiting
  <2> QED BY <1>3, <2>1 DEF LostPayments, Awaited
<1>6. ASSUME forms[t].tx \in Recorded' \/ sent[forms[t].tx].status = "reverted"
      PROVE  LostPayments' \subseteq LostPayments
  <2>1. forms[t].tx \notin LostPayments'
    BY <1>6 DEF LostPayments
  <2> QED BY <1>4, <2>1
<1> QED BY <1>2, <1>4, <1>5, <1>6 DEF LossInv

(* One that stops with a fault may lose one payment, one that was not      *)
(* waiting, or whose payment is accounted for, none. *)
LEMMA StopIsCounted ==
  ASSUME CreationInv, CreationInv', LossInv, NEW t \in CreationTabs, NEW e, e.pc \notin Paying,
         forms' = [forms EXCEPT ![t] = e], sent' = sent, Recorded \subseteq Recorded',
         \/ losses' = losses + 1
         \/ /\ losses' = losses
            /\ forms[t].pc \notin Paying \/ forms[t].tx \in Recorded' \/ sent[forms[t].tx].status = "reverted"
  PROVE  LossInv'
  BY PageStops, OneMorePayment

LEMMA AskLoses ==
  ASSUME CreationInv, CreationInv', LossInv, NEW t \in CreationTabs,
         VC!handleSubmit(t) \/ VC!storePayload(t) \/ VC!requestAccounts(t) \/ VC!requestChain(t)
            \/ VC!readTreasury(t) \/ VC!readMinimum(t) \/ VC!close(t)
  PROVE  LossInv'
<1>1. UNCHANGED <<sent, records>> /\ losses' \in {losses, losses + 1}
  BY DEF VC!handleSubmit, VC!storePayload, VC!requestAccounts, VC!requestChain, VC!readTreasury,
     VC!readMinimum, VC!calls,
         VC!close, VC!outside, VC!chain, VC!fault
<1>2. forms[t].pc \notin Paying \/ losses' = losses + 1
  BY DEF VC!handleSubmit, VC!storePayload, VC!requestAccounts, VC!requestChain, VC!readTreasury,
     VC!readMinimum, VC!calls,
         VC!close, VC!fault, Paying
<1>3. VC!Idle.pc = "form"
  BY DEF VC!Idle
<1>4. forms[t] \in Entry /\ VC!Idle \in Entry
  BY EntryOf, IdleEntry
<1>5. \E e : e.pc \notin Paying /\ forms' = [forms EXCEPT ![t] = e]
  <2> HIDE DEF VC!Idle
  <2>1. CASE VC!handleSubmit(t)
    <3>0. PICK f \in VC!Form, w \in Accounts :
            VC!goes(t, [VC!Idle EXCEPT !.pc = IF f.given THEN "request" ELSE "upload", !.form = f, !.wallet = w])
      BY <2>1 DEF VC!handleSubmit
    <3>1. PICK k, e :
            /\ k = IF f.given THEN "request" ELSE "upload"
            /\ e = [VC!Idle EXCEPT !.pc = k, !.form = f, !.wallet = w]
            /\ forms' = [forms EXCEPT ![t] = e]
      BY <3>0 DEF VC!goes
    <3>2. e.pc = k
      BY <3>1, <1>4 DEF Entry
    <3>3. e.pc \notin Paying
      BY <3>1, <3>2 DEF Paying
    <3>4. forms' = [forms EXCEPT ![t] = e]
      BY <3>1
    <3> QED BY <3>3, <3>4
  <2>2. CASE VC!storePayload(t)
    BY <2>2, <1>3, <1>4 DEF VC!storePayload, VC!goes, VC!fails, Entry, Paying
  <2>3. CASE VC!requestAccounts(t)
    BY <2>3, <1>3, <1>4 DEF VC!requestAccounts, VC!goes, VC!fails, Entry, Paying
  <2>4. CASE VC!requestChain(t) \/ VC!readTreasury(t) \/ VC!readMinimum(t)
    BY <2>4, <1>3, <1>4 DEF VC!requestChain, VC!readTreasury, VC!readMinimum, VC!goes, VC!fails, Entry,
       Paying
  <2>5. CASE VC!close(t)
    BY <2>5, <1>3 DEF VC!close, VC!goes, VC!fails, Paying
  <2> QED BY <2>1, <2>2, <2>3, <2>4, <2>5
<1> QED BY <1>1, <1>2, <1>5, StopIsCounted DEF Recorded

LEMMA WriteLoses ==
  ASSUME CreationInv, CreationInv', LossInv, NEW t \in CreationTabs, VC!writeContract(t) PROVE LossInv'
<1> DEFINE r == forms[t]
           n == Len(sent) + 1
<1>0. VC!Idle.pc = "form" /\ r \in Entry /\ Len(sent) \in Nat
  BY EntryOf DEF VC!Idle, CreationInv
<1>1. records' = records /\ r.pc = "send"
  BY DEF VC!writeContract, VC!calls, VC!chain
<1>2. CASE VC!fails(t) /\ UNCHANGED <<sent, losses>>
  <2> HIDE DEF VC!Idle
  <2> QED BY <1>0, <1>1, <1>2, StopIsCounted DEF VC!fails, VC!goes, Paying, Recorded
<1>3. PICK x :
        \/ VC!fails(t) /\ UNCHANGED <<sent, losses>>
        \/ sent' = Append(sent, x) /\ VC!fault /\ VC!fails(t)
        \/ sent' = Append(sent, x) /\ losses' = losses /\ VC!goes(t, [r EXCEPT !.pc = "receipt", !.tx = Len(sent')])
  BY DEF VC!writeContract, VC!chain
<1>4. ASSUME sent' = Append(sent, x), NEW e, forms' = [forms EXCEPT ![t] = e],
             \/ e.pc \notin Paying /\ losses' = losses + 1
             \/ e.pc \in Paying /\ e.tx = n /\ losses' = losses
      PROVE  LossInv'
  <2>1. DOMAIN sent' = DOMAIN sent \cup {n} /\ \A i \in DOMAIN sent : sent'[i] = sent[i]
    BY <1>4, AppendProperties DEF CreationInv
  <2>2. \A u \in CreationTabs : forms'[u] = IF u = t THEN e ELSE forms[u]
    BY <1>4 DEF CreationInv
  <2>3. \A u \in Waiting' : u = t \/ (u \in Waiting /\ forms'[u] = forms[u])
    BY <2>2 DEF Waiting
  <2>4. \A u \in Waiting : u # t /\ u \in Waiting' /\ forms'[u] = forms[u] /\ forms[u].tx \in DOMAIN sent
    <3>1. \A u \in Waiting : u # t
      BY <1>1 DEF Waiting, Paying
    <3>2. \A u \in Waiting : forms[u].tx \in DOMAIN sent
      BY EntryOf DEF Waiting, EntryOK
    <3> QED BY <2>2, <3>1, <3>2 DEF Waiting
  <2>5. n \notin DOMAIN sent
    BY <1>0 DEF CreationInv
  <2>6. \A u, v \in Waiting' : forms'[u].tx = forms'[v].tx => u = v
    <3>1. t \in Waiting' => forms'[t].tx = n
      BY <1>4, <2>2 DEF Waiting
    <3> QED BY <2>3, <2>4, <2>5, <3>1 DEF LossInv
  <2>7. LostPayments' \subseteq LostPayments \cup {n}
    BY <1>1, <2>1, <2>4 DEF LostPayments, Awaited, Recorded
  <2>8. CASE e.pc \in Paying /\ e.tx = n /\ losses' = losses
    <3>1. t \in Waiting' /\ forms'[t].tx = n
      BY <2>2, <2>8 DEF Waiting
    <3>2. n \in Awaited'
      BY <3>1 DEF Awaited
    <3>3. LostPayments' \subseteq LostPayments
      BY <2>7, <3>2 DEF LostPayments
    <3> QED BY <2>6, <2>8, <3>3, OneMorePayment
  <2>9. CASE losses' = losses + 1
    BY <2>6, <2>7, <2>9, OneMorePayment
  <2> QED BY <1>4, <2>8, <2>9
<1>5. CASE sent' = Append(sent, x) /\ VC!fault /\ VC!fails(t)
  <2> HIDE DEF VC!Idle
  <2> QED BY <1>0, <1>4, <1>5 DEF VC!fault, VC!fails, VC!goes, Paying
<1>6. CASE sent' = Append(sent, x) /\ losses' = losses /\ VC!goes(t, [r EXCEPT !.pc = "receipt", !.tx = Len(sent')])
  <2>1. PICK e : e = [r EXCEPT !.pc = "receipt", !.tx = Len(sent')] /\ forms' = [forms EXCEPT ![t] = e]
    BY <1>6 DEF VC!goes
  <2>2. Len(sent') = n
    BY <1>6, AppendProperties DEF CreationInv
  <2>3. e.pc = "receipt" /\ e.tx = n
    BY <1>0, <2>1, <2>2 DEF Entry
  <2>4. e.pc \in Paying
    BY <2>3 DEF Paying
  <2> QED BY <1>4, <1>6, <2>1, <2>3, <2>4
<1> QED BY <1>2, <1>3, <1>5, <1>6

LEMMA ReceiptLoses ==
  ASSUME CreationInv, CreationInv', LossInv, NEW t \in CreationTabs, VC!waitForTransactionReceipt(t) PROVE LossInv'
<1>0. VC!Idle.pc = "form" /\ forms[t] \in Entry /\ forms[t].pc = "receipt" /\ UNCHANGED <<sent, records>>
  BY EntryOf DEF VC!Idle, VC!waitForTransactionReceipt, VC!calls, VC!chain
<1>1. CASE VC!fails(t) /\ (VC!fault \/ (sent[forms[t].tx].status = "reverted" /\ losses' = losses))
  <2> HIDE DEF VC!Idle
  <2> QED BY <1>0, <1>1, StopIsCounted DEF VC!fails, VC!goes, VC!fault, Paying, Recorded
<1>2. CASE VC!goes(t, [forms[t] EXCEPT !.pc = "register"]) /\ losses' = losses
  <2> DEFINE e == [forms[t] EXCEPT !.pc = "register"]
  <2>1. e.pc = "register" /\ e.tx = forms[t].tx
    BY <1>0 DEF Entry
  <2>2. forms' = [forms EXCEPT ![t] = e]
    BY <1>2 DEF VC!goes
  <2> HIDE DEF e
  <2>3. \A u \in CreationTabs : forms'[u] = IF u = t THEN e ELSE forms[u]
    BY <2>2 DEF CreationInv
  <2>4. Waiting' = Waiting /\ \A u \in CreationTabs : forms'[u].tx = forms[u].tx
    BY <1>0, <2>1, <2>3 DEF Waiting, Paying
  <2>5. LostPayments' = LostPayments
    BY <1>0, <2>4 DEF LostPayments, Awaited, Recorded, Waiting
  <2> QED BY <1>2, <2>4, <2>5, OneMorePayment DEF LossInv, Waiting
<1> QED BY <1>1, <1>2 DEF VC!waitForTransactionReceipt

LEMMA RegisterLoses ==
  ASSUME CreationInv, CreationInv', LossInv, NEW t \in CreationTabs, VC!createVault(t) PROVE LossInv'
<1>0. VC!Idle.pc = "form" /\ sent' = sent /\ VC!fails(t)
  BY DEF VC!Idle, VC!createVault, VC!chain
<1>1. CASE VC!fault /\ records \subseteq records'
  <2> HIDE DEF VC!Idle
  <2> QED BY <1>0, <1>1, StopIsCounted DEF VC!fails, VC!goes, VC!fault, Paying, Recorded
<1>2. CASE losses' = losses
  <2>1. \E r \in records' : r.tx = forms[t].tx
    <3> DEFINE entry == [id |-> VC!parseVaultIdFromReceipt(sent[forms[t].tx]), setter |-> forms[t].wallet,
                          gross |-> sent[forms[t].tx].gross, uri |-> forms[t].uri, tx |-> forms[t].tx]
    <3>1. losses' # losses + 1
      BY <1>2 DEF CreationInv
    <3>2. records' = records \cup {entry}
      BY <3>1 DEF VC!createVault, VC!fault
    <3>3. entry.tx = forms[t].tx
      OBVIOUS
    <3> HIDE DEF entry
    <3> QED BY <3>2, <3>3
  <2>2. forms[t].tx \in Recorded' /\ Recorded \subseteq Recorded'
    BY <2>1 DEF Recorded, VC!createVault
  <2> HIDE DEF VC!Idle
  <2> QED BY <1>0, <1>2, <2>2, StopIsCounted DEF VC!fails, VC!goes, Paying
<1> QED BY <1>1, <1>2 DEF VC!createVault

LEMMA MineLoses ==
  ASSUME CreationInv, CreationInv', LossInv, NEW i \in DOMAIN sent, VC!mine(i) PROVE LossInv'
<1>1. UNCHANGED <<records, forms, losses>>
  BY DEF VC!mine
<1>2. sent[i].status = "pending" /\ DOMAIN sent' = DOMAIN sent /\ \A j \in DOMAIN sent : j # i => sent'[j] = sent[j]
  BY DEF VC!mine, CreationInv
<1>3. LostPayments' \subseteq LostPayments
  BY <1>1, <1>2 DEF LostPayments, Recorded, Awaited, Waiting
<1>4. \A u, v \in Waiting' : forms'[u].tx = forms'[v].tx => u = v
  BY <1>1 DEF LossInv, Waiting
<1> QED BY <1>1, <1>3, <1>4, OneMorePayment

LEMMA LossesAreCounted == CreationInv /\ CreationInv' /\ LossInv /\ [VC!Next]_VC!vars => LossInv'
<1> SUFFICES ASSUME CreationInv, CreationInv', LossInv, [VC!Next]_VC!vars PROVE LossInv'
  OBVIOUS
<1>1. CASE VC!resolveProofOfVaultRuntimeConfig \/ VC!walletChanges \/ UNCHANGED VC!vars
  <2>1. UNCHANGED <<sent, records, forms, losses>>
    BY <1>1 DEF VC!resolveProofOfVaultRuntimeConfig, VC!walletChanges, VC!vars, VC!chain
  <2> QED BY <2>1 DEF LossInv, LostPayments, Waiting, Awaited, Recorded
<1>2. ASSUME NEW t \in CreationTabs, VC!handleSubmit(t) \/ VC!step(t) \/ VC!close(t) PROVE LossInv'
  BY <1>2, AskLoses, WriteLoses, ReceiptLoses, RegisterLoses DEF VC!step
<1>3. ASSUME NEW i \in DOMAIN sent, VC!mine(i) PROVE LossInv'
  BY <1>3, MineLoses
<1> QED BY <1>1, <1>2, <1>3 DEF VC!Next

(* A deposit is paid for a vault nobody registers only when a receipt, a   *)
(* registration or a tab was lost, once for each loss: each such vault is  *)
(* the one of a payment that is lost or that a page still waits for.       *)
(* [create/page.tsx, handleSubmit] *)
THEOREM PaidStaysRegistered ==
  ASSUME VC!VaultCreationAssumption PROVE CreationSpec => []VC!PaidIsRegistered
<1>1. VC!Init => LossInv
  BY LossAtFirst
<1>2. CreationInv /\ LossInv => VC!PaidIsRegistered
  <2> SUFFICES ASSUME CreationInv, LossInv PROVE VC!PaidIsRegistered
    OBVIOUS
  <2> DEFINE Unregistered == DOMAIN vaults \ {r.id : r \in records}
             Open == LostPayments \cup Awaited
             of == [i \in Unregistered |-> CHOOSE j \in DOMAIN sent : sent[j].status = "success" /\ sent[j].vault = i]
  <2>1. IsFiniteSet(LostPayments) /\ IsFiniteSet(Waiting)
    <3>1. IsFiniteSet(CreationTabs)
      BY DEF VC!VaultCreationAssumption, VC!IsFiniteSet, IsFiniteSet
    <3>2. Waiting \subseteq CreationTabs
      BY DEF Waiting
    <3> QED BY <3>1, <3>2, LostAreFew, FS_Subset
  <2>2. IsFiniteSet(Awaited) /\ Cardinality(Awaited) <= Cardinality(Waiting)
    <3> DEFINE f == [t \in Waiting |-> forms[t].tx]
    <3>1. f \in Surjection(Waiting, Awaited)
      BY DEF Surjection, Awaited
    <3> HIDE DEF f
    <3> QED BY <2>1, <3>1, FS_Surjection
  <2>3. IsFiniteSet(Open) /\ Cardinality(Open) <= Cardinality(LostPayments) + Cardinality(Awaited)
    <3>1. Cardinality(LostPayments \cap Awaited) \in Nat
      BY <2>1, FS_Subset, FS_CardinalityType
    <3>2. /\ IsFiniteSet(Open)
          /\ Cardinality(Open) = Cardinality(LostPayments) + Cardinality(Awaited)
                                    - Cardinality(LostPayments \cap Awaited)
      BY <2>1, <2>2, FS_Union
    <3>3. Cardinality(LostPayments) \in Nat /\ Cardinality(Awaited) \in Nat
      BY <2>1, <2>2, FS_CardinalityType
    <3> QED BY <3>1, <3>2, <3>3
  <2>4. of \in Injection(Unregistered, Open)
    <3>1. ASSUME NEW i \in Unregistered
          PROVE  of[i] \in DOMAIN sent /\ sent[of[i]].status = "success" /\ sent[of[i]].vault = i
      <4>1. \E j \in DOMAIN sent : sent[j].status = "success" /\ sent[j].vault = i
        BY DEF CreationInv
      <4> QED BY <4>1
    <3>2. ASSUME NEW i \in Unregistered PROVE of[i] \in Open
      <4>1. of[i] \notin Recorded
        <5>1. SUFFICES ASSUME NEW r \in records, r.tx = of[i] PROVE FALSE
          BY DEF Recorded
        <5>2. r.id = i
          BY <3>1, <5>1, RecordsOf DEF RecordOK
        <5> QED BY <5>2
      <4> HIDE DEF of
      <4> QED BY <3>1, <4>1 DEF LostPayments
    <3>3. of \in [Unregistered -> Open]
      BY <3>2
    <3> HIDE DEF of
    <3> QED BY <3>1, <3>3 DEF Injection, IsInjective
  <2> HIDE DEF of, Open
  <2>5. Cardinality(Unregistered) <= Cardinality(Open)
    BY <2>3, <2>4, FS_Injection
  <2>6. IsFiniteSet(Unregistered)
    BY LostAreFew, FS_Subset
  <2>7. /\ Cardinality(Unregistered) \in Nat /\ Cardinality(Open) \in Nat /\ Cardinality(LostPayments) \in Nat
        /\ Cardinality(Awaited) \in Nat /\ Cardinality(Waiting) \in Nat /\ losses \in Nat
    BY <2>1, <2>2, <2>3, <2>6, FS_CardinalityType DEF CreationInv
  <2> HIDE DEF Unregistered
  <2>8. Cardinality(Unregistered) <= losses + Cardinality(Waiting)
    BY <2>2, <2>3, <2>5, <2>7 DEF LossInv
  <2> QED BY <2>8 DEF VC!PaidIsRegistered, Unregistered, Waiting, Paying, VC!Cardinality, Cardinality
<1> QED BY <1>1, <1>2, LossesAreCounted, CreationHolds, PTL DEF CreationSpec

-----------------------------------------------------------------------------
(* What is counted is bounded, and what is numbered exists. *)
Counted ==
    /\ config \in {"none", "env", "runtime"} /\ rightChain \in BOOLEAN /\ treasury \in Payers
    /\ reign \in 0 .. moves /\ minimum \in Deposits /\ now \in 0 .. MaxTime
    /\ submits \in 0 .. MaxSubmits /\ moves \in 0 .. MaxMoves /\ losses \in 0 .. MaxLosses
Numbered ==
    /\ \A t \in CreationTabs : forms[t].tx <= Len(sent)
    /\ \A i \in DOMAIN sent : sent[i].vault <= Len(vaults)

LEMMA CountsAreKept == ASSUME VC!VaultCreationAssumption, Counted, [VC!Next]_VC!vars PROVE Counted'
<1>0. losses + 1 \in Nat /\ MaxLosses \in Nat /\ MaxSubmits \in Nat /\ MaxMoves \in Nat /\ MaxTime \in Nat
  BY DEF Counted, VC!VaultCreationAssumption
<1>1. VC!fault => losses' \in 0 .. MaxLosses
  BY <1>0 DEF VC!fault, Counted
<1>2. CASE VC!resolveProofOfVaultRuntimeConfig
  BY <1>2 DEF VC!resolveProofOfVaultRuntimeConfig, VC!outside, Counted
<1>3. CASE VC!walletChanges
  <2>1. rightChain' \in BOOLEAN
    BY <1>3, Zenon DEF VC!walletChanges, Counted
  <2>2. moves' \in 0 .. MaxMoves /\ now' \in 0 .. MaxTime /\ minimum' \in Deposits
    BY <1>0, <1>3 DEF VC!walletChanges, Counted
  <2>3. UNCHANGED <<config, submits, losses>>
    BY <1>3 DEF VC!walletChanges
  <2>4. treasury' \in Payers
    BY <1>3 DEF VC!walletChanges, Counted, Payers
  <2>5. reign' \in 0 .. moves'
    BY <1>0, <1>3 DEF VC!walletChanges, Counted
  <2> QED BY <2>1, <2>2, <2>3, <2>4, <2>5 DEF Counted
<1>4. ASSUME NEW t \in CreationTabs, VC!handleSubmit(t) PROVE Counted'
  BY <1>0, <1>4 DEF VC!handleSubmit, VC!outside, Counted
<1>5. ASSUME NEW t \in CreationTabs, VC!step(t) \/ VC!close(t) PROVE Counted'
  <2>1. UNCHANGED <<config, VC!outside, submits>> /\ (VC!fault \/ losses' = losses)
    BY <1>5 DEF VC!step, VC!close, VC!storePayload, VC!requestAccounts, VC!requestChain,
       VC!readTreasury, VC!readMinimum,
                VC!writeContract, VC!waitForTransactionReceipt, VC!createVault, VC!calls
  <2> QED BY <1>1, <2>1 DEF Counted, VC!outside
<1>6. ASSUME NEW i \in DOMAIN sent, VC!mine(i) PROVE Counted'
  BY <1>6 DEF VC!mine, VC!outside, Counted
<1>7. CASE UNCHANGED VC!vars
  BY <1>7 DEF VC!vars, VC!outside, Counted
<1> QED BY <1>2, <1>3, <1>4, <1>5, <1>6, <1>7 DEF VC!Next

LEMMA NumbersAreKept ==
  ASSUME CreationInv, CreationInv', Numbered, [VC!Next]_VC!vars PROVE Numbered'
<1> HIDE DEF VC!Idle
<1>0. /\ VC!Idle \in Entry /\ VC!Idle.tx = 0 /\ Len(sent) \in Nat /\ Len(vaults) \in Nat /\ DOMAIN sent = 1 .. Len(sent)
      /\ sent \in Seq(Payment) /\ \A t \in CreationTabs : forms[t] \in Entry
  BY IdleEntry, EntryOf DEF VC!Idle, CreationInv
<1>1. ASSUME NEW t \in CreationTabs, NEW e, forms' = [forms EXCEPT ![t] = e], UNCHANGED <<sent, vaults>>, e.tx \in {0, forms[t].tx}
      PROVE  Numbered'
  <2>1. \A u \in CreationTabs : forms'[u] = IF u = t THEN e ELSE forms[u]
    BY <1>1 DEF CreationInv
  <2>2. \A u \in CreationTabs : forms'[u].tx <= Len(sent)
    BY <1>0, <1>1, <2>1 DEF Numbered
  <2> QED BY <1>1, <2>2 DEF Numbered
<1>2. ASSUME NEW t \in CreationTabs, VC!fails(t), UNCHANGED <<sent, vaults>> PROVE Numbered'
  BY <1>0, <1>1, <1>2 DEF VC!fails, VC!goes
<1>3. ASSUME NEW t \in CreationTabs, VC!handleSubmit(t) PROVE Numbered'
  <2>1. PICK f \in VC!Form, w \in Accounts :
          VC!goes(t, [VC!Idle EXCEPT !.pc = IF f.given THEN "request" ELSE "upload", !.form = f, !.wallet = w])
    BY <1>3 DEF VC!handleSubmit
  <2>2. PICK k, e : e = [VC!Idle EXCEPT !.pc = k, !.form = f, !.wallet = w] /\ forms' = [forms EXCEPT ![t] = e]
    BY <2>1 DEF VC!goes
  <2>3. e.tx = 0
    BY <1>0, <2>2 DEF Entry
  <2> QED BY <1>1, <1>3, <2>2, <2>3 DEF VC!handleSubmit, VC!chain
<1>4. ASSUME NEW t \in CreationTabs, VC!storePayload(t) PROVE Numbered'
  <2>1. CASE VC!goes(t, [forms[t] EXCEPT !.pc = "request", !.uri = forms[t].wallet])
    <3>1. PICK e : e = [forms[t] EXCEPT !.pc = "request", !.uri = forms[t].wallet] /\ forms' = [forms EXCEPT ![t] = e]
      BY <2>1 DEF VC!goes
    <3>2. e.tx = forms[t].tx
      BY <1>0, <3>1 DEF Entry
    <3> QED BY <1>1, <1>4, <3>1, <3>2 DEF VC!storePayload, VC!chain
  <2> QED BY <1>2, <1>4, <2>1 DEF VC!storePayload, VC!chain
<1>5. ASSUME NEW t \in CreationTabs, VC!requestAccounts(t) PROVE Numbered'
  <2>1. CASE VC!goes(t, [forms[t] EXCEPT !.pc = "chain", !.wallet = payer])
    <3>1. PICK e : e = [forms[t] EXCEPT !.pc = "chain", !.wallet = payer] /\ forms' = [forms EXCEPT ![t] = e]
      BY <2>1 DEF VC!goes
    <3>2. e.tx = forms[t].tx
      BY <1>0, <3>1 DEF Entry
    <3> QED BY <1>1, <1>5, <3>1, <3>2 DEF VC!requestAccounts, VC!chain
  <2> QED BY <1>2, <1>5, <2>1 DEF VC!requestAccounts, VC!chain
<1>6. ASSUME NEW t \in CreationTabs, NEW k, VC!goes(t, [forms[t] EXCEPT !.pc = k]), UNCHANGED <<sent, vaults>> PROVE Numbered'
  <2>1. PICK e : e = [forms[t] EXCEPT !.pc = k] /\ forms' = [forms EXCEPT ![t] = e]
    BY <1>6 DEF VC!goes
  <2>2. e.tx = forms[t].tx
    BY <1>0, <2>1 DEF Entry
  <2> QED BY <1>1, <1>6, <2>1, <2>2
<1>12. ASSUME NEW t \in CreationTabs, VC!readTreasury(t) PROVE Numbered'
  <2>1. CASE VC!goes(t, [forms[t] EXCEPT !.pc = "minimum", !.reign = reign])
    <3>1. PICK e : e = [forms[t] EXCEPT !.pc = "minimum", !.reign = reign] /\ forms' = [forms EXCEPT ![t] = e]
      BY <2>1 DEF VC!goes
    <3>2. e.tx = forms[t].tx
      BY <1>0, <3>1 DEF Entry
    <3> QED BY <1>1, <1>12, <3>1, <3>2 DEF VC!readTreasury, VC!chain
  <2> QED BY <1>2, <1>12, <2>1 DEF VC!readTreasury, VC!chain
<1>7. ASSUME NEW t \in CreationTabs, VC!requestChain(t) \/ VC!readMinimum(t) \/ VC!waitForTransactionReceipt(t)
      PROVE  Numbered'
  <2>1. UNCHANGED <<sent, vaults>> /\ (VC!fails(t) \/ \E k : VC!goes(t, [forms[t] EXCEPT !.pc = k]))
    BY <1>7 DEF VC!requestChain, VC!readMinimum, VC!waitForTransactionReceipt, VC!chain
  <2> QED BY <1>2, <1>6, <2>1
<1>8. ASSUME NEW t \in CreationTabs, VC!createVault(t) \/ VC!close(t) PROVE Numbered'
  BY <1>2, <1>8 DEF VC!createVault, VC!close, VC!chain
<1>9. ASSUME NEW t \in CreationTabs, VC!writeContract(t) PROVE Numbered'
  <2>1. CASE VC!fails(t) /\ UNCHANGED VC!chain
    BY <1>2, <2>1 DEF VC!chain
  <2>2. ASSUME NEW x, sent' = Append(sent, x), x.vault = 0, vaults' = vaults, NEW e, forms' = [forms EXCEPT ![t] = e],
               e.tx \in {0, Len(sent')}
        PROVE  Numbered'
    <3>1. Len(sent') = Len(sent) + 1 /\ sent'[Len(sent) + 1] = x /\ \A i \in DOMAIN sent : sent'[i] = sent[i]
      BY <1>0, <2>2
    <3>2. Len(sent') \in Nat /\ DOMAIN sent' = 1 .. Len(sent')
      BY <1>0, <3>1 DEF CreationInv
    <3>3. \A u \in CreationTabs : forms'[u] = IF u = t THEN e ELSE forms[u]
      BY <2>2 DEF CreationInv
    <3>4. \A u \in CreationTabs : forms[u].tx \in Nat /\ forms[u].tx <= Len(sent)
      BY <1>0 DEF Entry, Numbered
    <3>5. \A u \in CreationTabs : forms'[u].tx <= Len(sent')
      BY <1>0, <2>2, <3>1, <3>2, <3>3, <3>4
    <3>6. \A i \in DOMAIN sent' : i \in DOMAIN sent \/ i = Len(sent) + 1
      BY <1>0, <3>1, <3>2
    <3>7. \A i \in DOMAIN sent' : sent'[i].vault <= Len(vaults)
      BY <1>0, <2>2, <3>1, <3>6 DEF Numbered
    <3> QED BY <2>2, <3>5, <3>7 DEF Numbered
  <2>3. PICK x : /\ x = [from |-> forms[t].wallet, form |-> forms[t].form, gross |-> forms[t].form.amount * Unit,
                         uri |-> forms[t].uri, reign |-> forms[t].reign, status |-> "pending", vault |-> 0]
                 /\ \/ VC!fails(t) /\ UNCHANGED VC!chain
                    \/ sent' = Append(sent, x) /\ VC!fails(t) /\ vaults' = vaults
                    \/ sent' = Append(sent, x) /\ VC!goes(t, [forms[t] EXCEPT !.pc = "receipt", !.tx = Len(sent')]) /\ vaults' = vaults
    BY <1>9 DEF VC!writeContract
  <2>4. x.vault = 0
    BY <2>3
  <2>5. CASE sent' = Append(sent, x) /\ VC!fails(t) /\ vaults' = vaults
    BY <1>0, <2>2, <2>4, <2>5 DEF VC!fails, VC!goes
  <2>6. CASE sent' = Append(sent, x) /\ VC!goes(t, [forms[t] EXCEPT !.pc = "receipt", !.tx = Len(sent')]) /\ vaults' = vaults
    <3>1. PICK n, e : n = Len(sent') /\ e = [forms[t] EXCEPT !.pc = "receipt", !.tx = n] /\ forms' = [forms EXCEPT ![t] = e]
      BY <2>6 DEF VC!goes
    <3>2. e.tx = n
      BY <1>0, <3>1 DEF Entry
    <3> QED BY <2>2, <2>4, <2>6, <3>1, <3>2
  <2> QED BY <2>1, <2>3, <2>5, <2>6
<1>10. ASSUME NEW i \in DOMAIN sent, VC!mine(i) PROVE Numbered'
  <2>1. forms' = forms
    BY <1>10 DEF VC!mine
  <2>2. /\ DOMAIN sent' = DOMAIN sent /\ \A j \in DOMAIN sent : j # i => sent'[j] = sent[j]
    BY <1>10 DEF VC!mine
  <2>3. Len(vaults') >= Len(vaults) /\ Len(vaults') \in Nat
    BY <1>0, <1>10 DEF VC!mine
  <2>4. sent'[i].vault <= Len(vaults')
    <3>1. sent[i] \in Payment
      BY <1>0, ElementOfSeq
    <3>2. CASE sent' = [sent EXCEPT ![i].status = "success", ![i].vault = Len(vaults')]
      <4>1. PICK n : n = Len(vaults') /\ sent' = [sent EXCEPT ![i].status = "success", ![i].vault = n]
        BY <3>2
      <4>2. sent'[i].vault = n
        BY <3>1, <4>1 DEF Payment
      <4> QED BY <2>3, <4>1, <4>2
    <3>3. CASE sent' = [sent EXCEPT ![i].status = "reverted"]
      <4>1. sent'[i].vault = sent[i].vault /\ sent[i].vault \in Nat
        BY <3>1, <3>3 DEF Payment
      <4> QED BY <1>0, <2>3, <4>1 DEF Numbered
    <3> QED BY <1>10, <3>2, <3>3 DEF VC!mine
  <2>5. Len(sent') = Len(sent)
    BY <1>0, <2>2 DEF CreationInv
  <2>6. ASSUME NEW j \in DOMAIN sent PROVE sent[j].vault \in Nat
    <3>1. sent[j] \in Payment
      BY <1>0, ElementOfSeq
    <3> QED BY <3>1 DEF Payment
  <2>7. \A j \in DOMAIN sent' : sent'[j].vault <= Len(vaults')
    BY <1>0, <2>2, <2>3, <2>4, <2>6 DEF Numbered
  <2> QED BY <2>1, <2>5, <2>7 DEF Numbered
<1>11. CASE VC!resolveProofOfVaultRuntimeConfig \/ VC!walletChanges \/ UNCHANGED VC!vars
  BY <1>11 DEF VC!resolveProofOfVaultRuntimeConfig, VC!walletChanges, VC!vars, VC!chain, Numbered
<1> QED BY <1>3, <1>4, <1>5, <1>7, <1>8, <1>9, <1>10, <1>11, <1>12 DEF VC!Next, VC!step

(* What a tab, a transaction or a record names exists. *)
THEOREM CreationIsTyped == ASSUME VC!VaultCreationAssumption PROVE CreationSpec => []VC!TypeOK
<1>1. VC!Init => Counted /\ Numbered
  <2> SUFFICES ASSUME VC!Init PROVE Counted /\ Numbered
    OBVIOUS
  <2>1. sent = <<>> /\ vaults = <<>> /\ \A t \in CreationTabs : forms[t] = VC!Idle
    BY DEF VC!Init
  <2>2. DOMAIN sent = {} /\ Len(sent) = 0 /\ VC!Idle.tx = 0
    BY <2>1 DEF VC!Idle
  <2>3. Numbered
    <3> HIDE DEF VC!Idle
    <3> QED BY <2>1, <2>2 DEF Numbered
  <2> QED BY <2>3 DEF VC!Init, Counted, Payers, VC!VaultCreationAssumption
<1>2. Counted /\ [VC!Next]_VC!vars => Counted'
  BY CountsAreKept
<1>3. CreationInv /\ CreationInv' /\ Numbered /\ [VC!Next]_VC!vars => Numbered'
  BY NumbersAreKept
<1>4. CreationInv /\ Counted /\ Numbered => VC!TypeOK
  <2> SUFFICES ASSUME CreationInv, Counted, Numbered PROVE VC!TypeOK
    OBVIOUS
  <2>1. ASSUME NEW i \in DOMAIN sent PROVE sent[i].from \in Accounts /\ sent[i].vault \in 0 .. Len(vaults)
    <3>1. sent[i] \in Payment
      BY ElementOfSeq DEF CreationInv
    <3>2. sent[i].vault <= Len(vaults) /\ Len(vaults) \in Nat
      BY DEF Numbered, CreationInv
    <3> QED BY <3>1, <3>2 DEF Payment
  <2>2. ASSUME NEW r \in records PROVE r.id \in DOMAIN vaults /\ r.tx \in DOMAIN sent
    <3>1. r.tx \in DOMAIN sent /\ sent[r.tx].status = "success" /\ r.id = sent[r.tx].vault
      BY RecordsOf DEF RecordOK
    <3>2. PaymentOK(sent[r.tx], vaults)
      BY <3>1 DEF CreationInv
    <3> QED BY <3>1, <3>2 DEF PaymentOK
  <2>3. ASSUME NEW t \in CreationTabs PROVE forms[t].form \in VC!Form \cup {VC!NoForm} /\ forms[t].tx \in 0 .. Len(sent)
    <3>1. forms[t] \in Entry
      BY EntryOf
    <3>2. forms[t].tx <= Len(sent) /\ Len(sent) \in Nat
      BY DEF Numbered, CreationInv
    <3> QED BY <3>1, <3>2 DEF Entry
  <2> QED BY <2>1, <2>2, <2>3 DEF VC!TypeOK, Counted, CreationInv, Payers
<1> QED BY <1>1, <1>2, <1>3, <1>4, CreationHolds, PTL DEF CreationSpec

-----------------------------------------------------------------------------
(* Rule decisions.  A page in a decision has a flow of its own, and so has *)
(* a transaction that is not mined; what a page that nothing came between  *)
(* has had, approved or still has to approve says what each allowance is.  *)
Verdicts == {"accept", "reject"}
Sent == {"approving", "deciding", "register"}
Decided == {"decide"} \cup Sent
InFlow == {"read", "reason"} \cup Decided
Screen == [pc : InFlow \cup {"loading", "ready"}, vault : Vaults \cup {RD!NoVault}, seen : RD!Statuses,
           decision : Verdicts \cup {"none"}, flow : Nat, need : Nat, had : [RD!Uses -> Nat],
           approve : SUBSET RD!Uses, tx : Nat, touched : BOOLEAN]
Move == [vault : Vaults, kind : RD!Uses \cup Verdicts, amount : Nat, had : [RD!Uses -> Nat],
         flow : Nat, ok : BOOLEAN, touched : BOOLEAN]

Outcome(kind) == IF kind = "accept" THEN "active" ELSE "rejected"

(* The transaction x is the one that the page r has sent. *)
SentBy(r, x) ==
    /\ x.flow = r.flow /\ x.vault = r.vault /\ x.had = r.had
    /\ IF r.pc = "approving" THEN x.kind \in r.approve /\ x.amount = RD!amount(r, x.kind)
       ELSE x.kind = r.decision

ScreenOK(r, ts, n) ==
    /\ r.pc # "loading" => r.vault \in Vaults
    /\ r.pc \in InFlow <=> r.flow # 0
    /\ r.pc \in Decided => r.decision \in Verdicts
    /\ r.pc = "reason" => r.decision = "reject"
    /\ r.pc = "read" => r.decision = "accept"
    /\ (r.pc \in Decided /\ r.decision = "accept") \/ r.approve = {}
    /\ r.pc \in Sent => r.tx \in DOMAIN ts /\ SentBy(r, ts[r.tx])
    /\ r.pc = "register" => r.tx <= n /\ ts[r.tx].ok
    /\ \A i \in DOMAIN ts : i > n /\ ts[i].flow = r.flow => r.pc \in Sent /\ r.tx = i

MovesOK(ts, n, d) ==
    /\ \A i \in DOMAIN ts : ts[i].flow \in 1 .. d
    /\ \A i, j \in DOMAIN ts : i > n /\ j > n /\ ts[i].flow = ts[j].flow => i = j

DecisionInv ==
    /\ txs \in Seq(Move) /\ mined \in 0 .. Len(txs) /\ MovesOK(txs, mined, decisions)
    /\ status \in [Vaults -> RD!Statuses] /\ record \in [Vaults -> RD!Statuses]
    /\ allowance \in [RD!Uses -> Nat] /\ deposit \in Deposits
    /\ decisions \in Nat /\ mishaps \in Nat
    /\ page \in [DecisionTabs -> Screen]
    /\ \A t \in DecisionTabs : page[t].flow <= decisions /\ ScreenOK(page[t], txs, mined)
    /\ \A t, u \in DecisionTabs : page[t].flow = page[u].flow /\ page[t].flow # 0 => t = u
    /\ \A i \in 1 .. mined :
          txs[i].ok /\ txs[i].kind \in Verdicts => status[txs[i].vault] = Outcome(txs[i].kind)
    /\ \A v \in Vaults : record[v] \in {"review", status[v]}

LEMMA MovesOf ==
  ASSUME DecisionInv
  PROVE  /\ Len(txs) \in Nat /\ mined \in Nat /\ mined <= Len(txs) /\ DOMAIN txs = 1 .. Len(txs)
         /\ \A i \in DOMAIN txs : txs[i] \in Move
<1>1. Len(txs) \in Nat /\ DOMAIN txs = 1 .. Len(txs)
  BY LenProperties DEF DecisionInv
<1>2. \A i \in 1 .. Len(txs) : txs[i] \in Move
  BY ElementOfSeq DEF DecisionInv
<1> QED BY <1>1, <1>2 DEF DecisionInv

LEMMA ScreenOf ==
  ASSUME DecisionInv, NEW t \in DecisionTabs
  PROVE  page[t] \in Screen /\ ScreenOK(page[t], txs, mined)
  BY DEF DecisionInv

LEMMA FreshScreens ==
  /\ RD!Idle \in Screen /\ RD!Idle.pc = "loading" /\ RD!Idle.vault = RD!NoVault /\ RD!Idle.flow = 0 /\ RD!Idle.approve = {}
  /\ RD!Idle.decision = "none" /\ RD!Idle.touched = FALSE
  BY DEF RD!Idle, Screen, RD!None, InFlow, Decided, Sent, Verdicts, RD!Statuses, RD!NoVault

(* A page in no decision is in order. *)
LEMMA FreshIsOK ==
  ASSUME DecisionInv, NEW r \in Screen, r.pc \in {"loading", "ready"}, r.flow = 0,
         r.decision = "none", r.approve = {}, r.pc = "ready" => r.vault \in Vaults
  PROVE  ScreenOK(r, txs, mined)
<1>1. \A i \in DOMAIN txs : txs[i].flow # 0
  BY DEF DecisionInv, MovesOK
<1> QED BY <1>1 DEF ScreenOK, InFlow, Decided, Sent, Verdicts

LEMMA DecisionAtFirst == ASSUME RD!RuleDecisionAssumption, RD!Init PROVE DecisionInv
<1>1. txs = <<>> /\ mined = 0 /\ DOMAIN txs = {} /\ Len(txs) = 0
  BY DEF RD!Init
<1>2. txs \in Seq(Move)
  BY <1>1, EmptySeq
<1>3. page = [t \in DecisionTabs |-> RD!Idle]
  BY DEF RD!Init
<1>4. page \in [DecisionTabs -> Screen]
  <2> HIDE DEF RD!Idle
  <2> QED BY <1>3, FreshScreens
<1>5. \A t \in DecisionTabs : ScreenOK(page[t], txs, mined) /\ page[t].flow = 0
  <2> HIDE DEF RD!Idle
  <2> QED BY <1>1, <1>3, FreshScreens DEF ScreenOK, InFlow, Decided, Sent, Verdicts
<1>6. status \in [Vaults -> RD!Statuses] /\ record \in [Vaults -> RD!Statuses] /\ allowance \in [RD!Uses -> Nat]
  BY DEF RD!Init, RD!Statuses, RD!None
<1>7. \A v \in Vaults : record[v] = "review"
  BY DEF RD!Init
<1>8. deposit \in Deposits /\ decisions = 0 /\ mishaps = 0
  BY DEF RD!Init
<1> QED BY <1>1, <1>2, <1>4, <1>5, <1>6, <1>7, <1>8 DEF DecisionInv, MovesOK

(* A page moves, and nothing else does but the record and the counters. *)
LEMMA ScreenMoves ==
  ASSUME DecisionInv, NEW t \in DecisionTabs, NEW r \in Screen, ScreenOK(r, txs, mined), page' = [page EXCEPT ![t] = r],
         UNCHANGED RD!chain, mishaps' \in Nat, decisions' \in Nat, decisions <= decisions',
         record' \in [Vaults -> RD!Statuses], \A v \in Vaults : record'[v] \in {"review", status[v]},
         r.flow \in {0, page[t].flow} \/ (r.flow = decisions + 1 /\ decisions' = decisions + 1)
  PROVE  DecisionInv'
<1>1. page' \in [DecisionTabs -> Screen] /\ \A u \in DecisionTabs : page'[u] = IF u = t THEN r ELSE page[u]
  BY DEF DecisionInv
<1>2. UNCHANGED <<status, deposit, allowance, txs, mined>>
  BY DEF RD!chain
<1>3. \A u \in DecisionTabs : page[u].flow \in Nat /\ page[u].flow <= decisions
  BY DEF DecisionInv, Screen
<1>4. decisions \in Nat /\ r.flow \in Nat
  BY DEF DecisionInv, Screen
<1>5. \A u \in DecisionTabs : page'[u].flow <= decisions'
  BY <1>1, <1>3, <1>4
<1>6. \A u \in DecisionTabs : ScreenOK(page'[u], txs, mined)
  BY <1>1 DEF DecisionInv
<1>7. \A u, w \in DecisionTabs : page'[u].flow = page'[w].flow /\ page'[u].flow # 0 => u = w
  <2>1. \A u, w \in DecisionTabs : page[u].flow = page[w].flow /\ page[u].flow # 0 => u = w
    BY DEF DecisionInv
  <2>2. \A u \in DecisionTabs : page[u].flow # decisions + 1
    BY <1>3, <1>4
  <2> QED BY <1>1, <2>1, <2>2
<1>8. MovesOK(txs', mined', decisions')
  <2>1. \A i \in DOMAIN txs : txs[i].flow \in 1 .. decisions'
    BY <1>4 DEF DecisionInv, MovesOK
  <2> QED BY <1>2, <2>1 DEF DecisionInv, MovesOK
<1>9. \A u \in DecisionTabs : ScreenOK(page[u], txs, mined)'
  BY <1>2, <1>6 DEF ScreenOK, SentBy, RD!amount
<1> QED BY <1>1, <1>2, <1>5, <1>7, <1>8, <1>9 DEF DecisionInv

LEMMA FaultCounts == ASSUME DecisionInv, RD!fault \/ mishaps' = mishaps PROVE mishaps' \in Nat
  BY DEF DecisionInv, RD!fault

LEMMA RecordStays ==
  ASSUME DecisionInv, record' = record
  PROVE  record' \in [Vaults -> RD!Statuses] /\ \A v \in Vaults : record'[v] \in {"review", status[v]}
  BY DEF DecisionInv

(* A page that fails is in no decision any more. *)
LEMMA Failed ==
  ASSUME DecisionInv, NEW t \in DecisionTabs, page[t].pc # "loading",
         NEW r, r = [RD!Idle EXCEPT !.pc = "ready", !.vault = page[t].vault, !.seen = page[t].seen]
  PROVE  r \in Screen /\ ScreenOK(r, txs, mined) /\ r.flow = 0 /\ r.pc = "ready"
<1> HIDE DEF RD!Idle
<1>1. page[t] \in Screen /\ page[t].vault \in Vaults
  BY ScreenOf DEF ScreenOK
<1>2. r \in Screen /\ r.pc = "ready" /\ r.vault = page[t].vault /\ r.flow = 0 /\ r.decision = "none" /\ r.approve = {}
  BY <1>1, FreshScreens DEF Screen, InFlow
<1> QED BY <1>1, <1>2, FreshIsOK

LEMMA FailsKeeps ==
  ASSUME DecisionInv, NEW t \in DecisionTabs, page[t].pc # "loading", RD!fails(t), UNCHANGED <<RD!chain, decisions>>,
         mishaps' \in Nat, record' \in [Vaults -> RD!Statuses], \A v \in Vaults : record'[v] \in {"review", status[v]}
  PROVE  DecisionInv'
<1>1. PICK r : /\ r = [RD!Idle EXCEPT !.pc = "ready", !.vault = page[t].vault, !.seen = page[t].seen]
               /\ page' = [page EXCEPT ![t] = r]
  BY DEF RD!fails, RD!goes
<1>2. r \in Screen /\ ScreenOK(r, txs, mined) /\ r.flow = 0
  BY <1>1, Failed
<1>3. UNCHANGED RD!chain /\ decisions' = decisions /\ decisions \in Nat
  BY DEF DecisionInv
<1>4. decisions <= decisions'
  BY <1>3
<1> QED BY <1>1, <1>2, <1>3, <1>4, ScreenMoves

LEMMA ReadsKeep ==
  ASSUME DecisionInv, NEW t \in DecisionTabs, RD!loadReviewState(t) \/ RD!reload(t)
  PROVE  DecisionInv'
<1> HIDE DEF RD!Idle
<1>1. UNCHANGED RD!chain /\ record' = record /\ decisions' = decisions /\ decisions \in Nat /\ mishaps' \in Nat
  BY FaultCounts DEF RD!loadReviewState, RD!reload, DecisionInv
<1>2. PICK r : /\ r \in Screen /\ r.pc \in {"loading", "ready"} /\ r.flow = 0 /\ r.decision = "none" /\ r.approve = {}
               /\ r.pc = "ready" => r.vault \in Vaults
               /\ page' = [page EXCEPT ![t] = r]
  <2>1. CASE RD!loadReviewState(t)
    <3>1. PICK v \in Vaults : RD!goes(t, [RD!Idle EXCEPT !.pc = "ready", !.vault = v, !.seen = record[v]])
      BY <2>1 DEF RD!loadReviewState
    <3>2. record[v] \in RD!Statuses
      BY DEF DecisionInv
    <3>3. PICK r : r = [RD!Idle EXCEPT !.pc = "ready", !.vault = v, !.seen = record[v]] /\ page' = [page EXCEPT ![t] = r]
      BY <3>1 DEF RD!goes
    <3>4. r \in Screen /\ r.pc = "ready" /\ r.vault = v /\ r.flow = 0 /\ r.decision = "none" /\ r.approve = {}
      BY <3>2, <3>3, FreshScreens DEF Screen
    <3> QED BY <3>3, <3>4
  <2>2. CASE RD!reload(t)
    BY <2>2, FreshScreens DEF RD!reload, RD!goes
  <2> QED BY <2>1, <2>2
<1>3. ScreenOK(r, txs, mined)
  BY <1>2, FreshIsOK
<1>4. decisions <= decisions'
  BY <1>1
<1> QED BY <1>1, <1>2, <1>3, <1>4, RecordStays, ScreenMoves

(* A decision begins a flow of its own. *)
LEMMA DecisionKeeps ==
  ASSUME DecisionInv, NEW t \in DecisionTabs, RD!handleSetterDecision(t)
  PROVE  DecisionInv'
<1>1. UNCHANGED RD!chain /\ record' = record /\ decisions' = decisions + 1 /\ decisions \in Nat /\ mishaps' \in Nat
  BY DEF RD!handleSetterDecision, DecisionInv
<1>0. PICK d \in Verdicts, k \in {"read", "reason"} :
        /\ k = "read" => d = "accept"
        /\ k = "reason" => d = "reject"
        /\ RD!goes(t, [page[t] EXCEPT !.pc = k, !.decision = d, !.flow = decisions'])
  BY DEF RD!handleSetterDecision, Verdicts
<1>2. PICK n \in Nat, r \in {[page[t] EXCEPT !.pc = k, !.decision = d, !.flow = decisions + 1]} :
        n = decisions + 1 /\ page' = [page EXCEPT ![t] = r]
  BY <1>0, <1>1 DEF RD!goes
<1>3. page[t] \in Screen /\ ScreenOK(page[t], txs, mined) /\ page[t].pc = "ready"
  BY ScreenOf DEF RD!handleSetterDecision, RD!at
<1>4. /\ r \in Screen /\ r.pc = k /\ r.decision = d /\ r.flow = decisions + 1 /\ r.vault = page[t].vault
      /\ r.approve = page[t].approve
  <2>1. r = [page[t] EXCEPT !.pc = k, !.decision = d, !.flow = n]
    BY <1>2
  <2>2. r \in Screen /\ r.pc = k /\ r.decision = d /\ r.flow = n /\ r.vault = page[t].vault /\ r.approve = page[t].approve
    BY <1>2, <1>3, <2>1 DEF Screen, InFlow
  <2> QED BY <1>2, <2>2
<1>5. page[t].vault \in Vaults /\ r.flow # 0
  BY <1>1, <1>3, <1>4 DEF ScreenOK
<1>6. \A i \in DOMAIN txs : txs[i].flow # r.flow
  BY <1>1, <1>4 DEF DecisionInv, MovesOK
<1>7. page[t].approve = {}
  BY <1>3 DEF ScreenOK, InFlow, Decided, Sent

<1>8. ScreenOK(r, txs, mined)
  BY <1>0, <1>4, <1>5, <1>6, <1>7 DEF ScreenOK, InFlow, Decided, Sent, Verdicts
<1>9. decisions <= decisions' /\ decisions' \in Nat /\ page' = [page EXCEPT ![t] = r]
  BY <1>1, <1>2
<1> QED BY <1>1, <1>4, <1>8, <1>9, RecordStays, ScreenMoves

(* What a page reads or hears of takes it further in its flow. *)
LEMMA FurtherKeeps ==
  ASSUME DecisionInv, NEW t \in DecisionTabs, NEW r \in Screen, ScreenOK(r, txs, mined), r.flow = page[t].flow,
         page' = [page EXCEPT ![t] = r], UNCHANGED <<RD!chain, record, decisions, mishaps>>
  PROVE  DecisionInv'
<1>1. decisions \in Nat /\ decisions' = decisions /\ mishaps' \in Nat
  BY DEF DecisionInv
<1>2. decisions <= decisions'
  BY <1>1
<1> QED BY <1>1, <1>2, RecordStays, ScreenMoves

LEMMA ReasonKeeps == ASSUME DecisionInv, NEW t \in DecisionTabs, RD!storeReason(t) PROVE DecisionInv'
<1>1. page[t] \in Screen /\ ScreenOK(page[t], txs, mined) /\ page[t].pc = "reason"
  BY ScreenOf DEF RD!storeReason, RD!at
<1>2. CASE RD!fault /\ RD!fails(t)
  BY <1>1, <1>2, FailsKeeps, FaultCounts, RecordStays DEF RD!storeReason
<1>3. CASE RD!goes(t, [page[t] EXCEPT !.pc = "decide"]) /\ mishaps' = mishaps
  <2>1. PICK r : r = [page[t] EXCEPT !.pc = "decide"] /\ page' = [page EXCEPT ![t] = r]
    BY <1>3 DEF RD!goes
  <2>2. /\ r \in Screen /\ r.pc = "decide" /\ r.flow = page[t].flow /\ r.vault = page[t].vault
        /\ r.decision = page[t].decision /\ r.approve = page[t].approve
    BY <1>1, <2>1 DEF Screen, InFlow, Decided
  <2>3. ScreenOK(r, txs, mined)
    BY <1>1, <2>2 DEF ScreenOK, InFlow, Decided, Sent, Verdicts
  <2> QED BY <1>3, <2>1, <2>2, <2>3, FurtherKeeps DEF RD!storeReason
<1> QED BY <1>2, <1>3 DEF RD!storeReason

LEMMA ReadKeeps ==
  ASSUME RD!RuleDecisionAssumption, DecisionInv, NEW t \in DecisionTabs, RD!readContracts(t)
  PROVE  DecisionInv'
<1>1. page[t] \in Screen /\ ScreenOK(page[t], txs, mined) /\ page[t].pc = "read"
  BY ScreenOf DEF RD!readContracts, RD!at
<1>2. CASE RD!fails(t)
  BY <1>1, <1>2, FailsKeeps, FaultCounts, RecordStays DEF RD!readContracts
<1>3. CASE ~RD!fails(t)
  <2>0. PICK b \in BOOLEAN, A \in SUBSET RD!Uses :
          RD!goes(t, [page[t] EXCEPT !.pc = "decide", !.need = deposit, !.had = allowance, !.touched = b, !.approve = A])
    BY <1>3 DEF RD!readContracts
  <2>1. PICK r : /\ r = [page[t] EXCEPT !.pc = "decide", !.need = deposit, !.had = allowance,
                                        !.touched = b, !.approve = A]
                 /\ page' = [page EXCEPT ![t] = r]
    BY <2>0 DEF RD!goes
  <2>2. deposit \in Nat /\ allowance \in [RD!Uses -> Nat]
    BY DEF DecisionInv, RD!RuleDecisionAssumption
  <2>3. /\ r \in Screen /\ r.pc = "decide" /\ r.flow = page[t].flow /\ r.vault = page[t].vault
        /\ r.decision = page[t].decision
    BY <1>1, <2>1, <2>2 DEF Screen, InFlow, Decided
  <2>4. ScreenOK(r, txs, mined)
    BY <1>1, <2>3 DEF ScreenOK, InFlow, Decided, Sent, Verdicts
  <2> QED BY <1>3, <2>1, <2>3, <2>4, FurtherKeeps DEF RD!readContracts
<1> QED BY <1>2, <1>3

LEMMA HeardKeeps ==
  ASSUME DecisionInv, NEW t \in DecisionTabs, RD!waitForTransactionReceipt(t)
  PROVE  DecisionInv'
<1>1. /\ page[t] \in Screen /\ ScreenOK(page[t], txs, mined) /\ page[t].pc \in {"approving", "deciding"}
      /\ page[t].tx <= mined
  BY ScreenOf DEF RD!waitForTransactionReceipt
<1>2. CASE RD!fails(t)
  BY <1>1, <1>2, FailsKeeps, FaultCounts, RecordStays DEF RD!waitForTransactionReceipt
<1>3. CASE ~RD!fails(t)
  <2>1. mishaps' = mishaps /\ txs[page[t].tx].ok
    BY <1>1, <1>3, MovesOf DEF RD!waitForTransactionReceipt, Move, ScreenOK, Sent
  <2>2. \A i \in DOMAIN txs : i > mined => txs[i].flow # page[t].flow
    BY <1>1, MovesOf DEF ScreenOK, Sent
  <2>3. CASE page[t].pc = "approving"
    <3>0. PICK A \in SUBSET page[t].approve : RD!goes(t, [page[t] EXCEPT !.pc = "decide", !.approve = A])
      BY <1>3, <2>1, <2>3 DEF RD!waitForTransactionReceipt
    <3>1. PICK r : r = [page[t] EXCEPT !.pc = "decide", !.approve = A] /\ page' = [page EXCEPT ![t] = r]
      BY <3>0 DEF RD!goes
    <3>2. /\ r \in Screen /\ r.pc = "decide" /\ r.flow = page[t].flow /\ r.vault = page[t].vault
          /\ r.decision = page[t].decision /\ r.approve \subseteq page[t].approve
      BY <1>1, <3>1 DEF Screen, InFlow, Decided
    <3>3. ScreenOK(r, txs, mined)
      BY <1>1, <2>2, <2>3, <3>2 DEF ScreenOK, InFlow, Decided, Sent, Verdicts
    <3> QED BY <2>1, <3>1, <3>2, <3>3, FurtherKeeps DEF RD!waitForTransactionReceipt
  <2>4. CASE page[t].pc = "deciding"
    <3>1. PICK r \in {[page[t] EXCEPT !.pc = "register"]} : page' = [page EXCEPT ![t] = r]
      BY <1>3, <2>1, <2>4 DEF RD!waitForTransactionReceipt, RD!goes
    <3>2. /\ r \in Screen /\ r.pc = "register" /\ r.flow = page[t].flow /\ r.vault = page[t].vault /\ r.tx = page[t].tx
          /\ r.decision = page[t].decision /\ r.approve = page[t].approve /\ r.had = page[t].had
      BY <1>1, <3>1 DEF Screen, InFlow, Decided, Sent
    <3>3. SentBy(r, txs[r.tx])
      BY <1>1, <2>4, <3>2 DEF ScreenOK, SentBy, Sent
    <3>4. ScreenOK(r, txs, mined)
      BY <1>1, <2>1, <2>2, <2>4, <3>2, <3>3 DEF ScreenOK, InFlow, Decided, Sent, Verdicts
    <3> QED BY <2>1, <3>1, <3>2, <3>4, FurtherKeeps DEF RD!waitForTransactionReceipt
  <2> QED BY <1>1, <2>3, <2>4
<1> QED BY <1>2, <1>3

(* What a page registers is what the chain has decided. *)
LEMMA RegisteredIsDecided ==
  ASSUME DecisionInv, NEW t \in DecisionTabs, page[t].pc = "register"
  PROVE  /\ page[t].vault \in Vaults /\ RD!registeredStatus(t) \in RD!Statuses
         /\ status[page[t].vault] = RD!registeredStatus(t)
<1>1. page[t] \in Screen /\ ScreenOK(page[t], txs, mined)
  BY ScreenOf
<1>2. /\ page[t].tx \in 1 .. mined /\ txs[page[t].tx].ok /\ txs[page[t].tx].kind = page[t].decision
      /\ txs[page[t].tx].vault = page[t].vault /\ page[t].decision \in Verdicts /\ page[t].vault \in Vaults
  BY <1>1, MovesOf DEF ScreenOK, SentBy, Sent, Decided
<1>3. status[page[t].vault] = Outcome(page[t].decision)
  BY <1>2 DEF DecisionInv
<1> QED BY <1>2, <1>3 DEF Outcome, RD!registeredStatus, RD!Statuses, Verdicts

LEMMA RegisterKeepsDecisions ==
  ASSUME DecisionInv, NEW t \in DecisionTabs, RD!registerVaultTx(t)
  PROVE  DecisionInv'
<1> HIDE DEF RD!Idle
<1> DEFINE v == page[t].vault
<1>1. /\ page[t].pc = "register" /\ v \in Vaults /\ RD!registeredStatus(t) \in RD!Statuses
      /\ status[v] = RD!registeredStatus(t)
  BY RegisteredIsDecided DEF RD!registerVaultTx, RD!at
<1>2. record' \in [Vaults -> RD!Statuses] /\ \A w \in Vaults : record'[w] \in {"review", status[w]}
  BY <1>1 DEF RD!registerVaultTx, DecisionInv
<1>3. UNCHANGED <<RD!chain, decisions>> /\ mishaps' \in Nat /\ decisions \in Nat
  BY FaultCounts DEF RD!registerVaultTx, DecisionInv
<1>4. CASE RD!fails(t)
  BY <1>1, <1>2, <1>3, <1>4, FailsKeeps
<1>5. CASE RD!goes(t, [RD!Idle EXCEPT !.vault = page[t].vault])
  <2>1. PICK r : r = [RD!Idle EXCEPT !.vault = v] /\ page' = [page EXCEPT ![t] = r]
    BY <1>5 DEF RD!goes
  <2>2. r \in Screen /\ r.pc = "loading" /\ r.flow = 0 /\ r.decision = "none" /\ r.approve = {}
    BY <1>1, <2>1, FreshScreens DEF Screen
  <2>3. ScreenOK(r, txs, mined)
    BY <2>2, FreshIsOK
  <2>4. decisions <= decisions' /\ decisions' \in Nat
    BY <1>3
  <2> QED BY <1>2, <1>3, <2>1, <2>2, <2>3, <2>4, ScreenMoves
<1> QED BY <1>4, <1>5 DEF RD!registerVaultTx

(* A transaction is sent, and its page waits for it or has failed. *)
LEMMA MoveSent ==
  ASSUME DecisionInv, NEW t \in DecisionTabs, page[t].pc = "decide", NEW x \in Move, NEW r \in Screen,
         x.flow = page[t].flow, txs' = Append(txs, x), page' = [page EXCEPT ![t] = r],
         UNCHANGED <<status, deposit, allowance, mined, record, decisions>>, mishaps' \in Nat,
         ScreenOK(r, txs', mined), r.flow \in {0, page[t].flow}
  PROVE  DecisionInv'
<1> DEFINE n == Len(txs) + 1
<1>0. Len(txs) \in Nat /\ mined \in Nat /\ mined <= Len(txs) /\ DOMAIN txs = 1 .. Len(txs)
  BY MovesOf
<1>1. txs' \in Seq(Move) /\ Len(txs') = n
  BY AppendProperties DEF DecisionInv
<1>2. txs'[n] = x /\ (\A i \in DOMAIN txs : txs'[i] = txs[i]) /\ DOMAIN txs' = DOMAIN txs \cup {n} /\ n \notin DOMAIN txs
  <2>1. txs'[n] = x /\ \A i \in 1 .. Len(txs) : txs'[i] = txs[i]
    BY AppendProperties DEF DecisionInv
  <2>2. DOMAIN txs' = 1 .. n
    BY <1>1, LenProperties
  <2> QED BY <1>0, <2>1, <2>2
<1>3. page' \in [DecisionTabs -> Screen] /\ \A u \in DecisionTabs : page'[u] = IF u = t THEN r ELSE page[u]
  BY DEF DecisionInv
<1>4. page[t].flow # 0 /\ page[t].flow \in 1 .. decisions
  <2>1. page[t] \in Screen /\ ScreenOK(page[t], txs, mined) /\ page[t].flow <= decisions
    BY DEF DecisionInv
  <2>2. page[t].flow # 0 /\ page[t].flow \in Nat
    BY <2>1 DEF ScreenOK, Screen, InFlow, Decided
  <2> QED BY <2>1, <2>2 DEF DecisionInv
<1>5. \A i \in DOMAIN txs : i > mined => txs[i].flow # page[t].flow
  <2>1. ScreenOK(page[t], txs, mined)
    BY ScreenOf
  <2> QED BY <2>1 DEF ScreenOK, Sent
<1>6. ASSUME NEW u \in DecisionTabs PROVE ScreenOK(page'[u], txs', mined) /\ page'[u].flow <= decisions
  <2>1. CASE u = t
    <3>1. page'[u] = r /\ r.flow <= decisions
      BY <1>3, <1>4, <2>1 DEF DecisionInv
    <3> QED BY <3>1
  <2>2. CASE u # t
    <3>1. page'[u] = page[u] /\ ScreenOK(page[u], txs, mined) /\ page[u].flow <= decisions /\ page[u].flow # page[t].flow
      BY <1>3, <1>4, <2>2 DEF DecisionInv
    <3>2. page[u].pc \in Sent => page[u].tx \in DOMAIN txs /\ txs'[page[u].tx] = txs[page[u].tx] /\ page[u].tx # n
      BY <1>2, <3>1 DEF ScreenOK
    <3>3. page[u].pc = "register" => page[u].pc \in Sent
      BY DEF Sent
    <3>4. \A i \in DOMAIN txs' : i > mined /\ txs'[i].flow = page[u].flow => i \in DOMAIN txs
      BY <1>2, <3>1
    <3>5. ScreenOK(page[u], txs', mined)
      BY <1>2, <3>1, <3>2, <3>3, <3>4 DEF ScreenOK
    <3> QED BY <3>1, <3>5
  <2> QED BY <2>1, <2>2
<1>7. \A u \in DecisionTabs : ScreenOK(page[u], txs, mined)'
  <2>1. mined' = mined
    OBVIOUS
  <2>2. \A u \in DecisionTabs : ScreenOK(page'[u], txs', mined')
    BY <1>6, <2>1
  <2> QED BY <2>2, Zenon DEF ScreenOK, SentBy, RD!amount
<1>8. MovesOK(txs', mined', decisions')
  <2>1. \A i \in DOMAIN txs' : txs'[i].flow \in 1 .. decisions
    BY <1>2, <1>4 DEF DecisionInv, MovesOK
  <2>2. \A i, j \in DOMAIN txs' : i > mined /\ j > mined /\ txs'[i].flow = txs'[j].flow => i = j
    BY <1>2, <1>5 DEF DecisionInv, MovesOK
  <2> QED BY <2>1, <2>2 DEF MovesOK
<1>9. \A u, w \in DecisionTabs : page'[u].flow = page'[w].flow /\ page'[u].flow # 0 => u = w
  BY <1>3 DEF DecisionInv
<1>10. \A i \in 1 .. mined : txs'[i] = txs[i]
  BY <1>0, <1>2
<1>11. mined' \in 0 .. Len(txs')
  BY <1>0, <1>1
<1> QED BY <1>1, <1>3, <1>6, <1>7, <1>8, <1>9, <1>10, <1>11 DEF DecisionInv

LEMMA TransactionOf ==
  ASSUME DecisionInv, NEW t \in DecisionTabs, page[t].pc = "decide", NEW k \in RD!Uses \cup Verdicts, NEW n \in Nat
  PROVE  /\ RD!transaction(t, k, n) \in Move
         /\ RD!transaction(t, k, n).flow = page[t].flow /\ RD!transaction(t, k, n).vault = page[t].vault
         /\ RD!transaction(t, k, n).had = page[t].had /\ RD!transaction(t, k, n).touched = page[t].touched
         /\ RD!transaction(t, k, n).kind = k /\ RD!transaction(t, k, n).amount = n
<1>1. page[t] \in Screen /\ page[t].vault \in Vaults
  BY ScreenOf DEF ScreenOK
<1> QED BY <1>1 DEF RD!transaction, Move, Screen

LEMMA SendKeeps ==
  ASSUME DecisionInv, NEW t \in DecisionTabs, page[t].pc = "decide", NEW x \in Move, x.flow = page[t].flow,
         x.vault = page[t].vault, x.had = page[t].had, NEW k \in {"approving", "deciding"}, RD!send(t, x, k),
         IF k = "approving" THEN x.kind \in page[t].approve /\ x.amount = RD!amount(page[t], x.kind)
         ELSE x.kind = page[t].decision
  PROVE  DecisionInv'
<1> HIDE DEF RD!Idle
<1> DEFINE n == Len(txs) + 1
<1>0. /\ page[t] \in Screen /\ ScreenOK(page[t], txs, mined) /\ Len(txs) \in Nat /\ n \in Nat /\ n > mined
      /\ DOMAIN txs = 1 .. Len(txs)
  BY ScreenOf, MovesOf
<1>1. UNCHANGED <<status, deposit, allowance, blocked, mined, record, decisions, reprices>> /\ mishaps' \in Nat
  BY FaultCounts DEF RD!send
<1>2. CASE RD!fails(t) /\ UNCHANGED <<txs, mishaps>>
  <2>1. UNCHANGED <<RD!chain, decisions>>
    BY <1>1, <1>2 DEF RD!chain
  <2> QED BY <1>1, <1>2, <2>1, FailsKeeps, RecordStays
<1>3. ASSUME txs' = Append(txs, x)
      PROVE  /\ txs'[n] = x /\ Len(txs') = n /\ DOMAIN txs' = 1 .. n
             /\ \A i \in DOMAIN txs : txs'[i] = txs[i]
  <2>1. txs' \in Seq(Move) /\ Len(txs') = n
    BY <1>3, AppendProperties DEF DecisionInv
  <2>2. txs'[n] = x /\ \A i \in 1 .. Len(txs) : txs'[i] = txs[i]
    BY <1>3, AppendProperties DEF DecisionInv
  <2> QED BY <1>0, <2>1, <2>2, LenProperties
<1>4. CASE txs' = Append(txs, x) /\ RD!fails(t)
  <2>1. PICK r : /\ r = [RD!Idle EXCEPT !.pc = "ready", !.vault = page[t].vault, !.seen = page[t].seen]
                 /\ page' = [page EXCEPT ![t] = r]
    BY <1>4 DEF RD!fails, RD!goes
  <2>2. r \in Screen /\ ScreenOK(r, txs, mined) /\ r.flow = 0 /\ r.pc = "ready"
    BY <2>1, Failed
  <2>3. page[t].flow # 0
    BY <1>0 DEF ScreenOK, InFlow, Decided
  <2>4. \A i \in DOMAIN txs' : txs'[i].flow # 0
    BY <1>0, <1>3, <1>4, <2>3 DEF DecisionInv, MovesOK
  <2>5. ScreenOK(r, txs', mined)
    BY <2>2, <2>4 DEF ScreenOK, Sent
  <2> QED BY <1>1, <1>4, <2>1, <2>2, <2>5, MoveSent
<1>5. CASE txs' = Append(txs, x) /\ RD!goes(t, [page[t] EXCEPT !.pc = k, !.tx = Len(txs')])
  <2>1. Len(txs') = n
    BY <1>3, <1>5
  <2>2. PICK r : r = [page[t] EXCEPT !.pc = k, !.tx = n] /\ page' = [page EXCEPT ![t] = r]
    BY <1>5, <2>1 DEF RD!goes
  <2>3. k \in Sent
    BY DEF Sent
  <2>4. /\ r \in Screen /\ r.pc = k /\ r.tx = n /\ r.vault = page[t].vault /\ r.flow = page[t].flow
        /\ r.had = page[t].had /\ r.decision = page[t].decision /\ r.approve = page[t].approve /\ r.need = page[t].need
    <3> HIDE DEF n
    <3> QED BY <1>0, <2>2, <2>3 DEF Screen, InFlow, Decided
  <2>5. SentBy(r, x)
    BY <2>4 DEF SentBy, RD!amount
  <2>6. \A i \in DOMAIN txs : i > mined => txs[i].flow # page[t].flow
    BY <1>0 DEF ScreenOK, Sent
  <2>7. \A i \in DOMAIN txs' : i > mined /\ txs'[i].flow = r.flow => r.pc \in Sent /\ r.tx = i
    BY <1>0, <1>3, <1>5, <2>3, <2>4, <2>6
  <2>8. ScreenOK(r, txs', mined)
    BY <1>0, <1>3, <1>5, <2>4, <2>5, <2>7 DEF ScreenOK, InFlow, Decided, Sent
  <2> QED BY <1>1, <1>5, <2>2, <2>4, <2>8, MoveSent
<1> QED BY <1>2, <1>4, <1>5 DEF RD!send

(* The transactions that a page deciding may send. *)
LEMMA ApprovalSent ==
  ASSUME RD!RuleDecisionAssumption, DecisionInv, NEW t \in DecisionTabs, RD!approve(t)
  PROVE  \E x \in Move :
            /\ x.flow = page[t].flow /\ x.vault = page[t].vault /\ x.had = page[t].had
            /\ x.touched = page[t].touched /\ x.kind \in page[t].approve /\ x.amount = RD!amount(page[t], x.kind)
            /\ page[t].pc = "decide" /\ RD!send(t, x, "approving")
<1> DEFINE u == IF "pov" \in page[t].approve THEN "pov" ELSE "collateral"
           x == RD!transaction(t, u, RD!amount(page[t], u))
<1>1. page[t] \in Screen /\ ScreenOK(page[t], txs, mined) /\ page[t].pc = "decide" /\ page[t].approve # {}
  BY ScreenOf DEF RD!approve, RD!at
<1>2. u \in page[t].approve /\ u \in RD!Uses
  BY <1>1 DEF Screen, RD!Uses
<1>3. RD!amount(page[t], u) \in Nat
  BY <1>1 DEF RD!amount, Screen, ScreenOK, RD!RuleDecisionAssumption
<1>4. RD!send(t, x, "approving")
  BY DEF RD!approve
<1> HIDE DEF u
<1> QED BY <1>1, <1>2, <1>3, <1>4, TransactionOf

LEMMA DecisionSent ==
  ASSUME DecisionInv, NEW t \in DecisionTabs, RD!decideRuleSetOnchain(t)
  PROVE  \E x \in Move :
            /\ x.flow = page[t].flow /\ x.vault = page[t].vault /\ x.had = page[t].had
            /\ x.touched = page[t].touched /\ x.kind = page[t].decision /\ x.amount = page[t].need
            /\ page[t].decision \in Verdicts /\ page[t].pc = "decide" /\ page[t].approve = {}
            /\ RD!send(t, x, "deciding")
<1> DEFINE x == RD!transaction(t, page[t].decision, page[t].need)
<1>1. page[t] \in Screen /\ ScreenOK(page[t], txs, mined) /\ page[t].pc = "decide" /\ page[t].approve = {}
  BY ScreenOf DEF RD!decideRuleSetOnchain, RD!at
<1>2. page[t].decision \in Verdicts /\ page[t].need \in Nat
  BY <1>1 DEF Screen, ScreenOK, Decided
<1>3. RD!send(t, x, "deciding")
  BY DEF RD!decideRuleSetOnchain
<1> QED BY <1>1, <1>2, <1>3, TransactionOf

(* What is mined, or a price, only touches the pages and transactions. *)
LEMMA TouchedPages ==
  ASSUME DecisionInv, NEW f \in Nat, page' = RD!touchPages(f)
  PROVE  /\ page' \in [DecisionTabs -> Screen]
         /\ \A t \in DecisionTabs : LET r == page'[t]  q == page[t] IN
               /\ r.pc = q.pc /\ r.vault = q.vault /\ r.decision = q.decision /\ r.flow = q.flow
               /\ r.need = q.need /\ r.had = q.had /\ r.approve = q.approve /\ r.tx = q.tx
               /\ r.touched = (q.touched \/ q.flow # f)
<1>1. ASSUME NEW q \in Screen, NEW r, r = [q EXCEPT !.touched = @ \/ q.flow # f]
      PROVE  /\ r \in Screen
             /\ r.pc = q.pc /\ r.vault = q.vault /\ r.decision = q.decision /\ r.flow = q.flow
             /\ r.need = q.need /\ r.had = q.had /\ r.approve = q.approve /\ r.tx = q.tx
             /\ r.touched = (q.touched \/ q.flow # f)
  BY <1>1 DEF Screen
<1>2. \A t \in DecisionTabs : page'[t] = [page[t] EXCEPT !.touched = @ \/ page[t].flow # f]
  BY DEF RD!touchPages
<1>3. \A t \in DecisionTabs : page[t] \in Screen
  BY DEF DecisionInv
<1>4. DOMAIN page' = DecisionTabs /\ page' = [t \in DecisionTabs |-> page'[t]]
  BY DEF RD!touchPages
<1> QED BY <1>1, <1>2, <1>3, <1>4

LEMMA TouchedMoves ==
  ASSUME DecisionInv, NEW f \in Nat, NEW k \in Nat, NEW b \in BOOLEAN,
         txs' = RD!touchTxs(f) \/ (k \in DOMAIN txs /\ txs' = [RD!touchTxs(f) EXCEPT ![k].ok = b])
  PROVE  /\ txs' \in Seq(Move) /\ Len(txs') = Len(txs) /\ DOMAIN txs' = DOMAIN txs
         /\ \A i \in DOMAIN txs : LET y == txs'[i]  x == txs[i] IN
               /\ y.vault = x.vault /\ y.kind = x.kind /\ y.amount = x.amount /\ y.had = x.had /\ y.flow = x.flow
               /\ y.touched = (x.touched \/ (i > mined /\ x.flow # f))
               /\ i # k => y.ok = x.ok
               /\ i = k /\ txs' = [RD!touchTxs(f) EXCEPT ![k].ok = b] => y.ok = b
               /\ txs' = RD!touchTxs(f) => y.ok = x.ok
<1>0. DOMAIN txs = 1 .. Len(txs) /\ Len(txs) \in Nat /\ \A i \in DOMAIN txs : txs[i] \in Move
  BY MovesOf
<1>2. ASSUME NEW y \in Move, NEW z, z = [y EXCEPT !.ok = b]
      PROVE  /\ z \in Move /\ z.vault = y.vault /\ z.kind = y.kind /\ z.amount = y.amount /\ z.had = y.had
             /\ z.flow = y.flow /\ z.touched = y.touched /\ z.ok = b
  BY <1>2 DEF Move
<1>3. PICK g : g = RD!touchTxs(f)
  OBVIOUS
<1>4. DOMAIN g = DOMAIN txs /\ g = [i \in DOMAIN txs |-> g[i]]
  BY <1>3 DEF RD!touchTxs
<1>5. \A i \in DOMAIN txs : g[i] = [txs[i] EXCEPT !.touched = @ \/ (i > mined /\ txs[i].flow # f)]
  BY <1>3 DEF RD!touchTxs
<1>6. \A i \in DOMAIN txs :
        /\ g[i] \in Move /\ g[i].vault = txs[i].vault /\ g[i].kind = txs[i].kind /\ g[i].amount = txs[i].amount
        /\ g[i].had = txs[i].had /\ g[i].flow = txs[i].flow
        /\ g[i].touched = (txs[i].touched \/ (i > mined /\ txs[i].flow # f)) /\ g[i].ok = txs[i].ok
  <2> SUFFICES ASSUME NEW i \in DOMAIN txs
               PROVE  /\ g[i] \in Move /\ g[i].vault = txs[i].vault /\ g[i].kind = txs[i].kind
                      /\ g[i].amount = txs[i].amount /\ g[i].had = txs[i].had /\ g[i].flow = txs[i].flow
                      /\ g[i].touched = (txs[i].touched \/ (i > mined /\ txs[i].flow # f)) /\ g[i].ok = txs[i].ok
    OBVIOUS
  <2>1. txs[i] \in Move
    BY <1>0
  <2>2. g[i] = [txs[i] EXCEPT !.touched = @ \/ (i > mined /\ txs[i].flow # f)]
    BY <1>5
  <2> QED BY <2>1, <2>2 DEF Move
<1>7. DOMAIN txs' = DOMAIN txs /\ \A i \in DOMAIN txs : txs'[i] = g[i] \/ (i = k /\ txs'[i] = [g[i] EXCEPT !.ok = b])
  BY <1>3, <1>4
<1>8. k \in DOMAIN txs /\ txs' = [RD!touchTxs(f) EXCEPT ![k].ok = b] => txs'[k] = [g[k] EXCEPT !.ok = b]
  BY <1>3, <1>4
<1>9. \A i \in DOMAIN txs : txs'[i] \in Move
  BY <1>2, <1>6, <1>7
<1>10. txs' = [i \in DOMAIN txs |-> txs'[i]]
  BY <1>3, <1>4
<1>11. txs' \in [1 .. Len(txs) -> Move]
  BY <1>0, <1>9, <1>10
<1>12. txs' \in Seq(Move)
  BY <1>0, <1>11, SeqDef
<1>13. Len(txs') = Len(txs)
  BY <1>0, <1>7, <1>12, LenProperties
<1> QED BY <1>2, <1>3, <1>6, <1>7, <1>8, <1>12, <1>13

LEMMA TouchedScreens ==
  ASSUME DecisionInv, NEW f \in Nat, NEW b \in BOOLEAN, page' = RD!touchPages(f),
         \/ txs' = RD!touchTxs(f) /\ mined' = mined
         \/ /\ mined + 1 \in DOMAIN txs /\ mined' = mined + 1
            /\ txs' = [RD!touchTxs(f) EXCEPT ![mined + 1].ok = b]
  PROVE  /\ txs' \in Seq(Move) /\ mined' \in 0 .. Len(txs') /\ MovesOK(txs', mined', decisions)
         /\ page' \in [DecisionTabs -> Screen]
         /\ \A t \in DecisionTabs : page'[t].flow <= decisions /\ ScreenOK(page[t], txs, mined)'
         /\ \A t, u \in DecisionTabs : page'[t].flow = page'[u].flow /\ page'[t].flow # 0 => t = u
<1>0. DOMAIN txs = 1 .. Len(txs) /\ Len(txs) \in Nat /\ mined \in Nat /\ mined <= Len(txs)
  BY MovesOf
<1>1. PICK k \in Nat : k = mined + 1
  BY <1>0
<1>2. txs' = RD!touchTxs(f) \/ (k \in DOMAIN txs /\ txs' = [RD!touchTxs(f) EXCEPT ![k].ok = b])
  BY <1>1
<1>3. /\ txs' \in Seq(Move) /\ Len(txs') = Len(txs) /\ DOMAIN txs' = DOMAIN txs
      /\ \A i \in DOMAIN txs : LET y == txs'[i]  x == txs[i] IN
            /\ y.vault = x.vault /\ y.kind = x.kind /\ y.amount = x.amount /\ y.had = x.had /\ y.flow = x.flow
            /\ i # k => y.ok = x.ok
  BY <1>2, TouchedMoves
<1>4. mined' \in 0 .. Len(txs') /\ mined' \in Nat /\ mined <= mined'
  BY <1>0, <1>3
<1>5. MovesOK(txs', mined', decisions)
  <2>1. \A i \in DOMAIN txs : i > mined' => i > mined
    BY <1>0, <1>4
  <2>2. MovesOK(txs, mined, decisions)
    BY DEF DecisionInv
  <2>3. \A i \in DOMAIN txs : txs'[i].flow = txs[i].flow
    BY <1>3
  <2> QED BY <1>3, <2>1, <2>2, <2>3 DEF MovesOK
<1>6. /\ page' \in [DecisionTabs -> Screen]
      /\ \A t \in DecisionTabs : LET r == page'[t]  q == page[t] IN
            /\ r.pc = q.pc /\ r.vault = q.vault /\ r.decision = q.decision /\ r.flow = q.flow
            /\ r.need = q.need /\ r.had = q.had /\ r.approve = q.approve /\ r.tx = q.tx
  BY TouchedPages
<1>7. ASSUME NEW t \in DecisionTabs PROVE ScreenOK(page'[t], txs', mined')
  <2>1. ScreenOK(page[t], txs, mined) /\ page[t] \in Screen
    BY ScreenOf
  <2>2. page[t].pc \in Sent => SentBy(page'[t], txs'[page[t].tx])
    BY <1>3, <1>6, <2>1 DEF ScreenOK, SentBy, RD!amount
  <2>3. page[t].pc = "register" => page[t].tx <= mined' /\ txs'[page[t].tx].ok
    <3>1. page[t].pc = "register" => page[t].tx <= mined /\ txs[page[t].tx].ok /\ page[t].tx \in DOMAIN txs
      BY <2>1 DEF ScreenOK, Sent
    <3> QED BY <1>0, <1>1, <1>3, <1>4, <3>1
  <2>4. \A i \in DOMAIN txs : i > mined' => i > mined
    BY <1>0, <1>4
  <2>5. \A i \in DOMAIN txs' : i > mined' /\ txs'[i].flow = page[t].flow => page[t].pc \in Sent /\ page[t].tx = i
    BY <1>3, <2>1, <2>4 DEF ScreenOK
  <2> QED BY <1>3, <1>6, <2>1, <2>2, <2>3, <2>5 DEF ScreenOK
<1>8. \A t \in DecisionTabs : ScreenOK(page[t], txs, mined)'
  BY <1>7, Zenon DEF ScreenOK, SentBy, RD!amount
<1>9. \A t \in DecisionTabs : page'[t].flow <= decisions
  BY <1>6 DEF DecisionInv
<1>10. \A t, u \in DecisionTabs : page'[t].flow = page'[u].flow /\ page'[t].flow # 0 => t = u
  BY <1>6 DEF DecisionInv
<1> QED BY <1>3, <1>4, <1>5, <1>6, <1>8, <1>9, <1>10

LEMMA RepriceKeeps == ASSUME DecisionInv, RD!reprice PROVE DecisionInv'
<1>1. /\ UNCHANGED <<status, allowance, mined, record, decisions, mishaps>> /\ deposit' \in Deposits
      /\ page' = RD!touchPages(0) /\ txs' = RD!touchTxs(0)
  BY DEF RD!reprice
<1>2. /\ txs' \in Seq(Move) /\ mined' \in 0 .. Len(txs') /\ MovesOK(txs', mined', decisions)
      /\ page' \in [DecisionTabs -> Screen]
      /\ \A t \in DecisionTabs : page'[t].flow <= decisions /\ ScreenOK(page[t], txs, mined)'
      /\ \A t, u \in DecisionTabs : page'[t].flow = page'[u].flow /\ page'[t].flow # 0 => t = u
  BY <1>1, TouchedScreens
<1>3. \A i \in 1 .. mined : txs'[i].kind = txs[i].kind /\ txs'[i].vault = txs[i].vault /\ txs'[i].ok = txs[i].ok
  <2>1. \A i \in 1 .. mined : i \in DOMAIN txs
    BY MovesOf
  <2> QED BY <1>1, <2>1, TouchedMoves
<1> QED BY <1>1, <1>2, <1>3 DEF DecisionInv

(* What mining the next transaction does. *)
LEMMA NextMined ==
  ASSUME DecisionInv, RD!mine
  PROVE  /\ mined + 1 \in DOMAIN txs /\ txs[mined + 1] \in Move /\ txs[mined + 1].flow \in Nat
         /\ RD!succeeds(txs[mined + 1]) \in BOOLEAN
         /\ mined' = mined + 1 /\ page' = RD!touchPages(txs[mined + 1].flow)
         /\ txs' = [RD!touchTxs(txs[mined + 1].flow) EXCEPT ![mined + 1].ok = RD!succeeds(txs[mined + 1])]
         /\ UNCHANGED <<deposit, reprices, record, decisions, mishaps>>
<1>1. mined + 1 \in DOMAIN txs
  BY MovesOf DEF RD!mine
<1>2. txs[mined + 1] \in Move
  BY <1>1, MovesOf
<1>3. RD!succeeds(txs[mined + 1]) \in BOOLEAN
  BY <1>2 DEF RD!succeeds, Move, Verdicts
<1> QED BY <1>1, <1>2, <1>3 DEF RD!mine, Move

LEMMA MinedKeeps == ASSUME RD!RuleDecisionAssumption, DecisionInv, RD!mine PROVE DecisionInv'
<1> DEFINE k == mined + 1
           tx == txs[k]
           ok == RD!succeeds(tx)
<1>0. /\ k \in DOMAIN txs /\ tx \in Move /\ tx.flow \in Nat /\ ok \in BOOLEAN
      /\ mined' = k /\ page' = RD!touchPages(tx.flow)
      /\ txs' = [RD!touchTxs(tx.flow) EXCEPT ![k].ok = ok]
      /\ UNCHANGED <<deposit, reprices, record, decisions, mishaps>> /\ mined \in Nat /\ k \in Nat
  BY NextMined, MovesOf
<1>1. /\ txs' \in Seq(Move) /\ mined' \in 0 .. Len(txs') /\ MovesOK(txs', mined', decisions)
      /\ page' \in [DecisionTabs -> Screen]
      /\ \A t \in DecisionTabs : page'[t].flow <= decisions /\ ScreenOK(page[t], txs, mined)'
      /\ \A t, u \in DecisionTabs : page'[t].flow = page'[u].flow /\ page'[t].flow # 0 => t = u
  BY <1>0, TouchedScreens
<1>2. /\ \A i \in DOMAIN txs : txs'[i].kind = txs[i].kind /\ txs'[i].vault = txs[i].vault /\ (i # k => txs'[i].ok = txs[i].ok)
      /\ txs'[k].ok = ok
  <2> HIDE DEF k, ok
  <2> QED BY <1>0, TouchedMoves
<1>3. status' = IF ok /\ tx.kind \notin RD!Uses THEN [status EXCEPT ![tx.vault] = Outcome(tx.kind)] ELSE status
  BY DEF RD!mine, Outcome
<1>4. tx.kind \notin RD!Uses => tx.kind \in Verdicts /\ (ok => status[tx.vault] = "review")
  BY <1>0 DEF RD!succeeds, Move, Verdicts, RD!Uses
<1>5. Outcome(tx.kind) \in RD!Statuses \ {"review"} /\ tx.vault \in Vaults
  BY <1>0 DEF Outcome, RD!Statuses, Move
<1>6. status' \in [Vaults -> RD!Statuses]
  BY <1>3, <1>5 DEF DecisionInv
<1>7. \A v \in Vaults : status[v] # "review" => status'[v] = status[v]
  BY <1>3, <1>4, <1>5 DEF DecisionInv
<1>8. \A v \in Vaults : record'[v] \in {"review", status'[v]}
  BY <1>0, <1>7 DEF DecisionInv
<1>9. ASSUME NEW i \in 1 .. mined', txs'[i].ok, txs'[i].kind \in Verdicts
      PROVE  status'[txs'[i].vault] = Outcome(txs'[i].kind)
  <2>1. CASE i = k
    <3>1. ok /\ tx.kind \in Verdicts
      BY <1>0, <1>2, <1>9, <2>1
    <3>2. tx.kind \notin RD!Uses
      BY <3>1 DEF Verdicts, RD!Uses
    <3>3. status'[tx.vault] = Outcome(tx.kind)
      BY <1>3, <1>5, <3>1, <3>2 DEF DecisionInv
    <3> QED BY <1>0, <1>2, <2>1, <3>3
  <2>2. CASE i # k
    <3>1. i \in 1 .. mined /\ i \in DOMAIN txs
      BY <1>0, <2>2, MovesOf
    <3>2. txs[i].ok /\ txs[i].kind \in Verdicts /\ txs[i].vault \in Vaults
      BY <1>2, <1>9, <2>2, <3>1, MovesOf DEF Move
    <3>3. status[txs[i].vault] = Outcome(txs[i].kind)
      BY <3>1, <3>2 DEF DecisionInv
    <3>4. status[txs[i].vault] # "review"
      BY <3>3 DEF Outcome
    <3> QED BY <1>2, <1>7, <3>1, <3>2, <3>3, <3>4
  <2> QED BY <2>1, <2>2
<1>10. allowance' \in [RD!Uses -> Nat]
  <2>1. CASE ~ok \/ tx.kind = "reject"
    BY <1>0, <2>1 DEF RD!mine, DecisionInv, RD!Uses
  <2>2. CASE ok /\ tx.kind = "accept"
    <3>1. allowance["pov"] >= deposit /\ allowance["collateral"] >= Gross[tx.vault]
      BY <2>2 DEF RD!succeeds, RD!Uses
    <3>2. allowance' = [pov |-> allowance["pov"] - deposit, collateral |-> allowance["collateral"] - Gross[tx.vault]]
      BY <2>2 DEF RD!mine
    <3>3. deposit \in Nat /\ Gross[tx.vault] \in Nat /\ allowance["pov"] \in Nat /\ allowance["collateral"] \in Nat
      BY <1>5 DEF DecisionInv, RD!RuleDecisionAssumption, RD!Uses
    <3>4. allowance["pov"] - deposit \in Nat /\ allowance["collateral"] - Gross[tx.vault] \in Nat
      BY <3>1, <3>3
    <3> QED BY <3>2, <3>4 DEF RD!Uses
  <2>3. CASE ok /\ tx.kind \in RD!Uses
    <3>1. allowance' = [allowance EXCEPT ![tx.kind] = tx.amount]
      BY <2>3 DEF RD!mine, RD!Uses
    <3>2. tx.amount \in Nat
      BY <1>0 DEF Move
    <3> QED BY <3>1, <3>2 DEF DecisionInv
  <2> QED BY <1>0, <2>1, <2>2, <2>3 DEF Move, Verdicts
<1> QED BY <1>0, <1>1, <1>6, <1>8, <1>9, <1>10 DEF DecisionInv

LEMMA DecisionIsKept ==
  ASSUME RD!RuleDecisionAssumption
  PROVE  DecisionInv /\ [RD!Next]_RD!vars => DecisionInv'
<1> SUFFICES ASSUME DecisionInv, [RD!Next]_RD!vars PROVE DecisionInv'
  OBVIOUS
<1>1. CASE UNCHANGED RD!vars
  <2>1. /\ status' = status /\ deposit' = deposit /\ allowance' = allowance /\ txs' = txs /\ mined' = mined
        /\ record' = record /\ page' = page /\ decisions' = decisions /\ mishaps' = mishaps
    BY <1>1 DEF RD!vars, RD!chain
  <2>2. \A t \in DecisionTabs : page'[t].flow <= decisions' /\ ScreenOK(page'[t], txs', mined')
    BY <2>1 DEF DecisionInv
  <2>4. \A t \in DecisionTabs : ScreenOK(page[t], txs, mined)'
    BY <2>2, Zenon DEF ScreenOK, SentBy, RD!amount
  <2>3. MovesOK(txs', mined', decisions')
    BY <2>1 DEF DecisionInv
  <2> QED BY <2>1, <2>2, <2>4, <2>3 DEF DecisionInv
<1>2. CASE RD!mine
  BY <1>2, MinedKeeps
<1>3. CASE RD!reprice
  BY <1>3, RepriceKeeps
<1>4. ASSUME NEW t \in DecisionTabs, RD!handleSetterDecision(t) \/ RD!reload(t) PROVE DecisionInv'
  BY <1>4, DecisionKeeps, ReadsKeep
<1>5. ASSUME NEW t \in DecisionTabs, RD!approve(t) PROVE DecisionInv'
  BY <1>5, ApprovalSent, SendKeeps
<1>6. ASSUME NEW t \in DecisionTabs, RD!decideRuleSetOnchain(t) PROVE DecisionInv'
  BY <1>6, DecisionSent, SendKeeps
<1>7. ASSUME NEW t \in DecisionTabs, RD!step(t) PROVE DecisionInv'
  BY <1>5, <1>6, <1>7, ReadsKeep, ReasonKeeps, ReadKeeps, HeardKeeps, RegisterKeepsDecisions DEF RD!step
<1> QED BY <1>1, <1>2, <1>3, <1>4, <1>7 DEF RD!Next

LEMMA DecisionHolds == ASSUME RD!RuleDecisionAssumption PROVE DecisionSpec => []DecisionInv
<1>1. RD!Init => DecisionInv
  BY DecisionAtFirst
<1> QED BY <1>1, DecisionIsKept, PTL DEF DecisionSpec

-----------------------------------------------------------------------------
(* What is approved and spent. *)
Topped(had, need) == IF had < need THEN need ELSE had
ToApprove(r) == IF r.pc = "approving" /\ r.tx <= mined THEN r.approve \ {txs[r.tx].kind} ELSE r.approve

SpendScreen(r) ==
    r.pc \in {"decide", "approving"} /\ r.decision = "accept" /\ ~r.touched =>
        /\ ~blocked /\ status[r.vault] = "review" /\ r.need = deposit
        /\ \A u \in r.approve : r.had[u] < RD!amount(r, u)
        /\ \A u \in RD!Uses :
              allowance[u] = IF u \in ToApprove(r) THEN r.had[u] ELSE Topped(r.had[u], RD!amount(r, u))

SpendMove(x) ==
    x.kind = "accept" /\ ~x.touched =>
        /\ ~blocked /\ status[x.vault] = "review" /\ x.amount = deposit
        /\ allowance["pov"] = Topped(x.had["pov"], deposit)
        /\ allowance["collateral"] = Topped(x.had["collateral"], Gross[x.vault])

SpendInv ==
    /\ \A t \in DecisionTabs : SpendScreen(page[t])
    /\ \A i \in DOMAIN txs : i > mined => SpendMove(txs[i])
    /\ RD!RevertsHaveACause

LEMMA SpendAtFirst == ASSUME RD!Init PROVE SpendInv
<1>1. txs = <<>> /\ mined = 0 /\ DOMAIN txs = {} /\ \A t \in DecisionTabs : page[t] = RD!Idle
  BY DEF RD!Init
<1>2. \A t \in DecisionTabs : page[t].pc = "loading"
  BY <1>1 DEF RD!Idle
<1> QED BY <1>1, <1>2 DEF SpendInv, SpendScreen, RD!RevertsHaveACause

LEMMA PageSpends ==
  ASSUME DecisionInv, SpendInv, NEW t \in DecisionTabs, NEW r, SpendScreen(r), page' = [page EXCEPT ![t] = r],
         UNCHANGED RD!chain
  PROVE  SpendInv'
<1>1. /\ status' = status /\ deposit' = deposit /\ allowance' = allowance /\ blocked' = blocked
      /\ txs' = txs /\ mined' = mined
  BY DEF RD!chain
<1>2. \A u \in DecisionTabs : page'[u] = IF u = t THEN r ELSE page[u]
  BY DEF DecisionInv
<1>3. \A u \in DecisionTabs : SpendScreen(page'[u])
  BY <1>2 DEF SpendInv
<1>4. \A u \in DecisionTabs : SpendScreen(page[u])'
  BY <1>1, <1>3 DEF SpendScreen, ToApprove, RD!amount
<1>5. \A i \in DOMAIN txs : i > mined => SpendMove(txs[i])'
  BY <1>1 DEF SpendInv, SpendMove
<1>6. RD!RevertsHaveACause'
  BY <1>1 DEF SpendInv, RD!RevertsHaveACause
<1> QED BY <1>1, <1>4, <1>5, <1>6 DEF SpendInv

(* Most of what a page does leaves nothing to be said of allowances. *)
LEMMA QuietSpends ==
  ASSUME DecisionInv, SpendInv, NEW t \in DecisionTabs,
         \/ RD!loadReviewState(t) \/ RD!handleSetterDecision(t) \/ RD!storeReason(t) \/ RD!registerVaultTx(t) \/ RD!reload(t)
         \/ RD!readContracts(t) /\ RD!fails(t)
         \/ RD!waitForTransactionReceipt(t) /\ (RD!fails(t) \/ page[t].pc = "deciding")
  PROVE  SpendInv'
<1> HIDE DEF RD!Idle
<1>0. page[t] \in Screen /\ ScreenOK(page[t], txs, mined) /\ RD!Idle \in Screen /\ RD!Idle.pc = "loading"
  BY ScreenOf, FreshScreens
<1>1. UNCHANGED RD!chain
  BY DEF RD!loadReviewState, RD!handleSetterDecision, RD!storeReason, RD!registerVaultTx, RD!reload,
     RD!readContracts,
         RD!waitForTransactionReceipt
<1>2. ASSUME NEW r, page' = [page EXCEPT ![t] = r], r.pc \notin {"decide", "approving"} \/ r.decision # "accept"
      PROVE  SpendInv'
  BY <1>1, <1>2, PageSpends DEF SpendScreen
<1>3. CASE RD!fails(t)
  <2>1. PICK r : /\ r = [RD!Idle EXCEPT !.pc = "ready", !.vault = page[t].vault, !.seen = page[t].seen]
                 /\ page' = [page EXCEPT ![t] = r]
    BY <1>3 DEF RD!fails, RD!goes
  <2>2. r.pc = "ready"
    BY <1>0, <2>1 DEF Screen
  <2> QED BY <1>2, <2>1, <2>2
<1>4. CASE RD!loadReviewState(t)
  <2>1. PICK v \in Vaults, r \in {RD!Idle} : RD!goes(t, [r EXCEPT !.pc = "ready", !.vault = v, !.seen = record[v]])
    BY <1>4 DEF RD!loadReviewState
  <2>2. PICK e : e = [r EXCEPT !.pc = "ready", !.vault = v, !.seen = record[v]] /\ page' = [page EXCEPT ![t] = e]
    BY <2>1 DEF RD!goes
  <2>3. e.pc = "ready"
    BY <1>0, <2>1, <2>2 DEF Screen
  <2> QED BY <1>2, <2>2, <2>3
<1>5. CASE RD!handleSetterDecision(t)
  <2>1. PICK d \in Verdicts, k \in {"read", "reason"} :
          RD!goes(t, [page[t] EXCEPT !.pc = k, !.decision = d, !.flow = decisions'])
    BY <1>5 DEF RD!handleSetterDecision, Verdicts
  <2>2. PICK e : e = [page[t] EXCEPT !.pc = k, !.decision = d, !.flow = decisions'] /\ page' = [page EXCEPT ![t] = e]
    BY <2>1 DEF RD!goes
  <2>3. e.pc = k
    BY <1>0, <2>2 DEF Screen
  <2>4. e.pc \notin {"decide", "approving"}
    BY <2>3
  <2> QED BY <1>2, <2>2, <2>4
<1>6. CASE RD!goes(t, [page[t] EXCEPT !.pc = "decide"]) /\ page[t].pc = "reason"
  <2>1. PICK e : e = [page[t] EXCEPT !.pc = "decide"] /\ page' = [page EXCEPT ![t] = e]
    BY <1>6 DEF RD!goes
  <2>2. e.decision = "reject"
    BY <1>0, <1>6, <2>1 DEF Screen, ScreenOK
  <2> QED BY <1>2, <2>1, <2>2
<1>7. CASE RD!goes(t, [RD!Idle EXCEPT !.vault = page[t].vault]) \/ RD!goes(t, RD!Idle)
  <2>1. PICK e : (e = [RD!Idle EXCEPT !.vault = page[t].vault] \/ e = RD!Idle) /\ page' = [page EXCEPT ![t] = e]
    BY <1>7 DEF RD!goes
  <2>2. e.pc = "loading"
    BY <1>0, <2>1 DEF Screen
  <2> QED BY <1>2, <2>1, <2>2
<1>8. CASE RD!goes(t, [page[t] EXCEPT !.pc = "register"])
  <2>1. PICK e : e = [page[t] EXCEPT !.pc = "register"] /\ page' = [page EXCEPT ![t] = e]
    BY <1>8 DEF RD!goes
  <2>2. e.pc = "register"
    BY <1>0, <2>1 DEF Screen
  <2> QED BY <1>2, <2>1, <2>2
<1>9. CASE RD!waitForTransactionReceipt(t) /\ page[t].pc = "deciding" /\ ~RD!fails(t)
  <2>1. txs[page[t].tx].ok \in BOOLEAN
    BY <1>0, <1>9, MovesOf DEF ScreenOK, Sent, Move
  <2> QED BY <1>8, <1>9, <2>1 DEF RD!waitForTransactionReceipt
<1>10. CASE RD!storeReason(t)
  BY <1>3, <1>6, <1>10 DEF RD!storeReason, RD!at
<1>11. CASE RD!registerVaultTx(t) \/ RD!reload(t)
  BY <1>3, <1>7, <1>11 DEF RD!registerVaultTx, RD!reload
<1> QED BY <1>3, <1>4, <1>5, <1>9, <1>10, <1>11

(* The contracts are read: what has to be approved is what is missing. *)
LEMMA ReadSpends ==
  ASSUME RD!RuleDecisionAssumption, DecisionInv, SpendInv, NEW t \in DecisionTabs, RD!readContracts(t), ~RD!fails(t)
  PROVE  SpendInv'
<1> DEFINE q == page[t]
           b == (status[q.vault] # "review")
           A == {u \in RD!Uses : allowance[u] < RD!needs(t, u)}
<1>0. q \in Screen /\ ScreenOK(q, txs, mined) /\ q.pc = "read"
  BY ScreenOf DEF RD!readContracts, RD!at
<1>1. PICK r : /\ r = [q EXCEPT !.pc = "decide", !.need = deposit, !.had = allowance, !.touched = b, !.approve = A]
               /\ page' = [page EXCEPT ![t] = r]
  BY DEF RD!readContracts, RD!goes
<1>2. r.pc = "decide" /\ r.need = deposit /\ r.had = allowance /\ r.touched = b /\ r.approve = A /\ r.vault = q.vault
  BY <1>0, <1>1 DEF Screen
<1>3. ~blocked
  BY DEF RD!readContracts, RD!blockedByTreasury
<1>4. \A u \in RD!Uses : RD!needs(t, u) = RD!amount(r, u)
  BY <1>2 DEF RD!needs, RD!amount
<1>5. \A u \in RD!Uses : allowance[u] \in Nat /\ RD!needs(t, u) \in Nat
  <2>1. q.vault \in Vaults
    BY <1>0 DEF ScreenOK
  <2> QED BY <2>1 DEF RD!needs, DecisionInv, RD!RuleDecisionAssumption
<1>6. ToApprove(r) = A
  BY <1>2 DEF ToApprove
<1>7. \A u \in RD!Uses : allowance[u] = IF u \in A THEN allowance[u] ELSE Topped(allowance[u], RD!amount(r, u))
  BY <1>4, <1>5 DEF Topped
<1>8. \A u \in A : allowance[u] < RD!amount(r, u)
  BY <1>4
<1>9. SpendScreen(r)
  <2> HIDE DEF A
  <2> QED BY <1>2, <1>3, <1>6, <1>7, <1>8 DEF SpendScreen
<1> QED BY <1>1, <1>9, PageSpends DEF RD!readContracts

(* An approval is heard of, which was counted when it was mined. *)
LEMMA HeardSpends ==
  ASSUME DecisionInv, SpendInv, NEW t \in DecisionTabs, RD!waitForTransactionReceipt(t), ~RD!fails(t), page[t].pc = "approving"
  PROVE  SpendInv'
<1> DEFINE q == page[t]
           A == q.approve \ {txs[q.tx].kind}
<1>0. q \in Screen /\ ScreenOK(q, txs, mined) /\ q.tx <= mined
  BY ScreenOf DEF RD!waitForTransactionReceipt
<1>1. txs[q.tx].ok \in BOOLEAN
  BY <1>0, MovesOf DEF ScreenOK, Sent, Move
<1>2. PICK r : r = [q EXCEPT !.pc = "decide", !.approve = A] /\ page' = [page EXCEPT ![t] = r]
  BY <1>1 DEF RD!waitForTransactionReceipt, RD!goes
<1>3. /\ r.pc = "decide" /\ r.approve = A /\ r.need = q.need /\ r.had = q.had /\ r.touched = q.touched
      /\ r.vault = q.vault /\ r.decision = q.decision
  BY <1>0, <1>2 DEF Screen
<1>4. ToApprove(q) = A /\ ToApprove(r) = A
  BY <1>0, <1>3 DEF ToApprove
<1>5. \A u : RD!amount(r, u) = RD!amount(q, u)
  BY <1>3 DEF RD!amount
<1>6. SpendScreen(q)
  BY DEF SpendInv
<1>7. A \subseteq q.approve
  OBVIOUS
<1>8. SpendScreen(r)
  <2> HIDE DEF q, A
  <2> USE DEF SpendScreen
  <2> SUFFICES ASSUME r.decision = "accept", ~r.touched PROVE SpendScreen(r)
    OBVIOUS
  <2>1. /\ ~blocked /\ status[q.vault] = "review" /\ q.need = deposit /\ \A u \in q.approve : q.had[u] < RD!amount(q, u)
        /\ \A u \in RD!Uses : allowance[u] = IF u \in ToApprove(q) THEN q.had[u] ELSE Topped(q.had[u], RD!amount(q, u))
    BY <1>3, <1>6 DEF q
  <2> QED BY <1>3, <1>4, <1>5, <1>7, <2>1
<1> QED BY <1>2, <1>8, PageSpends DEF RD!waitForTransactionReceipt

(* A transaction is sent with what its page knows of the allowances. *)
LEMMA SendSpends ==
  ASSUME DecisionInv, SpendInv, NEW t \in DecisionTabs, page[t].pc = "decide", NEW x \in Move, x.flow = page[t].flow,
         x.vault = page[t].vault, x.had = page[t].had, x.touched = page[t].touched,
         NEW k \in {"approving", "deciding"}, RD!send(t, x, k),
         IF k = "approving" THEN x.kind \in page[t].approve
         ELSE x.kind = page[t].decision /\ x.amount = page[t].need /\ page[t].approve = {}
  PROVE  SpendInv'
<1> HIDE DEF RD!Idle
<1> DEFINE n == Len(txs) + 1
           q == page[t]
<1>0. /\ q \in Screen /\ ScreenOK(q, txs, mined) /\ Len(txs) \in Nat /\ n \in Nat /\ n > mined
      /\ DOMAIN txs = 1 .. Len(txs) /\ mined \in Nat /\ RD!Idle \in Screen
  BY ScreenOf, MovesOf, FreshScreens
<1>1. /\ status' = status /\ deposit' = deposit /\ allowance' = allowance /\ blocked' = blocked
      /\ mined' = mined /\ reprices' = reprices
  BY DEF RD!send
<1>2. CASE RD!fails(t) /\ UNCHANGED <<txs, mishaps>>
  <2>1. PICK r : /\ r = [RD!Idle EXCEPT !.pc = "ready", !.vault = page[t].vault, !.seen = page[t].seen]
                 /\ page' = [page EXCEPT ![t] = r]
    BY <1>2 DEF RD!fails, RD!goes
  <2>2. r.pc = "ready"
    BY <1>0, <2>1 DEF Screen
  <2>3. SpendScreen(r)
    BY <2>2 DEF SpendScreen
  <2>4. UNCHANGED RD!chain
    BY <1>1, <1>2 DEF RD!chain
  <2> QED BY <2>1, <2>3, <2>4, PageSpends
<1>3. CASE txs' = Append(txs, x)
  <2>1. txs' \in Seq(Move) /\ Len(txs') = n /\ txs'[n] = x /\ \A i \in 1 .. Len(txs) : txs'[i] = txs[i]
    BY <1>3, AppendProperties DEF DecisionInv
  <2>2. DOMAIN txs' = 1 .. n
    BY <2>1, LenProperties
  <2>3. PICK r : /\ page' = [page EXCEPT ![t] = r]
                 /\ \/ r = [RD!Idle EXCEPT !.pc = "ready", !.vault = page[t].vault, !.seen = page[t].seen]
                    \/ r = [q EXCEPT !.pc = k, !.tx = n]
    BY <1>2, <1>3, <2>1 DEF RD!send, RD!fails, RD!goes
  <2>4. \A u \in DecisionTabs : page'[u] = IF u = t THEN r ELSE page[u]
    BY <2>3 DEF DecisionInv
  <2>5. SpendScreen(q)
    BY DEF SpendInv
  <2>6. SpendScreen(r)'
    <3>1. CASE r.pc = "approving" /\ r.decision = "accept" /\ ~r.touched
      <4>1. r = [q EXCEPT !.pc = k, !.tx = n]
        BY <1>0, <2>3, <3>1 DEF Screen
      <4>2. /\ r.pc = k /\ r.tx = n /\ r.approve = q.approve /\ r.need = q.need /\ r.had = q.had
            /\ r.touched = q.touched /\ r.vault = q.vault /\ r.decision = q.decision
        <5> HIDE DEF n
        <5> QED BY <1>0, <4>1 DEF Screen
      <4>3. ToApprove(r)' = r.approve /\ ToApprove(q) = q.approve
        <5>1. ~(r.tx <= mined')
          BY <1>0, <1>1, <4>2
        <5>2. q.pc # "approving"
          OBVIOUS
        <5> QED BY <5>1, <5>2 DEF ToApprove
      <4>4. \A u : RD!amount(r, u) = RD!amount(q, u)
        BY <4>2 DEF RD!amount
      <4>5. /\ ~blocked /\ status[q.vault] = "review" /\ q.need = deposit /\ \A u \in q.approve : q.had[u] < RD!amount(q, u)
            /\ \A u \in RD!Uses : allowance[u] = IF u \in ToApprove(q) THEN q.had[u] ELSE Topped(q.had[u], RD!amount(q, u))
        BY <2>5, <3>1, <4>2 DEF SpendScreen
      <4> HIDE DEF q
      <4> QED BY <1>1, <4>2, <4>3, <4>4, <4>5 DEF SpendScreen
    <3>2. r.pc # "decide"
      <4>1. CASE r = [RD!Idle EXCEPT !.pc = "ready", !.vault = page[t].vault, !.seen = page[t].seen]
        BY <1>0, <4>1 DEF Screen
      <4>2. CASE r = [q EXCEPT !.pc = k, !.tx = n]
        BY <1>0, <4>2 DEF Screen
      <4> QED BY <2>3, <4>1, <4>2
    <3> QED BY <3>1, <3>2 DEF SpendScreen
  <2>7. ASSUME NEW u \in DecisionTabs, u # t PROVE SpendScreen(page[u])'
    <3>1. page'[u] = page[u] /\ SpendScreen(page[u])
      BY <2>4, <2>7 DEF SpendInv
    <3>2. page[u].pc = "approving" => page[u].tx \in 1 .. Len(txs)
      BY <1>0, ScreenOf DEF ScreenOK, Sent
    <3>3. page[u].pc = "approving" => txs'[page[u].tx] = txs[page[u].tx]
      BY <2>1, <3>2
    <3> QED BY <1>1, <3>1, <3>3 DEF SpendScreen, ToApprove, RD!amount
  <2>8. SpendMove(x)'
    <3> SUFFICES ASSUME x.kind = "accept", ~x.touched PROVE SpendMove(x)'
      BY DEF SpendMove
    <3>1. k # "approving"
      BY <1>0 DEF Screen, RD!Uses
    <3>2. q.decision = "accept" /\ x.amount = q.need /\ q.approve = {} /\ ToApprove(q) = {}
      BY <3>1 DEF ToApprove
    <3>3. /\ ~blocked /\ status[q.vault] = "review" /\ q.need = deposit
          /\ \A u \in RD!Uses : allowance[u] = Topped(q.had[u], RD!amount(q, u))
      BY <2>5, <3>2 DEF SpendScreen
    <3>4. RD!amount(q, "pov") = deposit /\ RD!amount(q, "collateral") = Gross[q.vault]
      BY <3>3 DEF RD!amount
    <3> QED BY <1>1, <3>2, <3>3, <3>4 DEF SpendMove, RD!Uses
  <2>9. \A i \in DOMAIN txs' : i > mined' => SpendMove(txs[i])'
    <3>1. ASSUME NEW i \in 1 .. Len(txs), i > mined PROVE SpendMove(txs[i])'
      <4>1. SpendMove(txs[i])
        BY <1>0, <3>1 DEF SpendInv
      <4>2. txs'[i] = txs[i]
        BY <2>1
      <4> QED BY <1>1, <4>1, <4>2 DEF SpendMove
    <3>2. ASSUME NEW i, i = n PROVE SpendMove(txs[i])'
      <4>1. txs'[i] = x
        BY <2>1, <3>2
      <4> QED BY <2>8, <4>1 DEF SpendMove
    <3>3. \A i \in DOMAIN txs' : i \in 1 .. Len(txs) \/ i = n
      BY <1>0, <2>2
    <3> QED BY <1>1, <3>1, <3>2, <3>3
  <2>10. RD!RevertsHaveACause'
    <3>1. \A i \in 1 .. mined : txs'[i] = txs[i]
      BY <1>0, <2>1, MovesOf
    <3> QED BY <1>1, <3>1 DEF SpendInv, RD!RevertsHaveACause
  <2>11. \A u \in DecisionTabs : SpendScreen(page[u])'
    <3>1. SpendScreen(page[t])'
      <4>1. page'[t] = r
        BY <2>4
      <4> QED BY <2>6, <4>1 DEF SpendScreen, ToApprove, RD!amount
    <3> QED BY <2>7, <3>1
  <2> QED BY <2>9, <2>10, <2>11 DEF SpendInv
<1> QED BY <1>2, <1>3 DEF RD!send

(* Another deposit touches every page and transaction of a decision. *)
LEMMA RepriceSpends == ASSUME DecisionInv, SpendInv, RD!reprice PROVE SpendInv'
<1>0. DOMAIN txs = 1 .. Len(txs) /\ mined \in Nat /\ mined <= Len(txs) /\ Len(txs) \in Nat
  BY MovesOf
<1>1. mined' = mined /\ page' = RD!touchPages(0) /\ txs' = RD!touchTxs(0)
  BY DEF RD!reprice
<1>2. \A t \in DecisionTabs : page'[t].pc = page[t].pc /\ page'[t].touched = (page[t].touched \/ page[t].flow # 0)
  BY <1>1, TouchedPages
<1>3. /\ DOMAIN txs' = DOMAIN txs
      /\ \A i \in DOMAIN txs : /\ txs'[i].kind = txs[i].kind /\ txs'[i].ok = txs[i].ok
                               /\ txs'[i].touched = (txs[i].touched \/ (i > mined /\ txs[i].flow # 0))
  BY <1>1, TouchedMoves
<1>4. \A t \in DecisionTabs : page[t].pc \in {"decide", "approving"} => page[t].flow # 0
  BY ScreenOf DEF ScreenOK, InFlow, Decided, Sent
<1>5. \A i \in DOMAIN txs : txs[i].flow # 0
  BY DEF DecisionInv, MovesOK
<1>6. \A t \in DecisionTabs : SpendScreen(page[t])'
  BY <1>2, <1>4 DEF SpendScreen
<1>7. \A i \in DOMAIN txs' : i > mined' => SpendMove(txs[i])'
  BY <1>1, <1>3, <1>5 DEF SpendMove
<1>8. RD!RevertsHaveACause'
  <2>1. \A i \in 1 .. mined : i \in DOMAIN txs /\ ~(i > mined)
    BY <1>0
  <2>2. \A i \in 1 .. mined :
          txs'[i].kind = txs[i].kind /\ txs'[i].ok = txs[i].ok /\ (txs[i].touched => txs'[i].touched)
    BY <1>3, <2>1
  <2> QED BY <1>1, <2>2 DEF SpendInv, RD!RevertsHaveACause
<1> QED BY <1>6, <1>7, <1>8 DEF SpendInv

(* An acceptance that nothing came between succeeds. *)
LEMMA UntouchedSucceeds ==
  ASSUME RD!RuleDecisionAssumption, DecisionInv, SpendInv, NEW i \in DOMAIN txs, i > mined,
         txs[i].kind = "accept", ~txs[i].touched
  PROVE  RD!succeeds(txs[i])
<1>1. SpendMove(txs[i]) /\ txs[i] \in Move
  BY MovesOf DEF SpendInv
<1>2. /\ ~blocked /\ status[txs[i].vault] = "review"
      /\ allowance["pov"] = Topped(txs[i].had["pov"], deposit)
      /\ allowance["collateral"] = Topped(txs[i].had["collateral"], Gross[txs[i].vault])
  BY <1>1 DEF SpendMove
<1>3. /\ txs[i].had["pov"] \in Nat /\ txs[i].had["collateral"] \in Nat
      /\ deposit \in Nat /\ Gross[txs[i].vault] \in Nat
  BY <1>1 DEF Move, RD!Uses, DecisionInv, RD!RuleDecisionAssumption
<1>4. allowance["pov"] >= deposit /\ allowance["collateral"] >= Gross[txs[i].vault]
  BY <1>2, <1>3 DEF Topped
<1> QED BY <1>2, <1>4 DEF RD!succeeds, RD!Uses

LEMMA MineSpends == ASSUME RD!RuleDecisionAssumption, DecisionInv, SpendInv, RD!mine PROVE SpendInv'
<1> DEFINE k == mined + 1
           tx == txs[k]
           ok == RD!succeeds(tx)
<1>0. /\ k \in DOMAIN txs /\ tx \in Move /\ tx.flow \in Nat /\ ok \in BOOLEAN
      /\ mined' = k /\ page' = RD!touchPages(tx.flow)
      /\ txs' = [RD!touchTxs(tx.flow) EXCEPT ![k].ok = ok]
      /\ UNCHANGED <<deposit, reprices, record, decisions, mishaps>> /\ mined \in Nat /\ k \in Nat
      /\ DOMAIN txs = 1 .. Len(txs) /\ Len(txs) \in Nat
  BY NextMined, MovesOf
<1>1. /\ DOMAIN txs' = DOMAIN txs
      /\ \A i \in DOMAIN txs :
            /\ txs'[i].vault = txs[i].vault /\ txs'[i].kind = txs[i].kind /\ txs'[i].amount = txs[i].amount
            /\ txs'[i].touched = (txs[i].touched \/ (i > mined /\ txs[i].flow # tx.flow))
            /\ i # k => txs'[i].ok = txs[i].ok
      /\ txs'[k].ok = ok
  <2> HIDE DEF k, ok
  <2> QED BY <1>0, TouchedMoves
<1>2. \A t \in DecisionTabs : LET r == page'[t]  q == page[t] IN
         /\ r.pc = q.pc /\ r.vault = q.vault /\ r.decision = q.decision /\ r.flow = q.flow
         /\ r.need = q.need /\ r.had = q.had /\ r.approve = q.approve /\ r.tx = q.tx
         /\ r.touched = (q.touched \/ q.flow # tx.flow)
  <2> HIDE DEF k, ok
  <2> QED BY <1>0, TouchedPages
<1>3. ASSUME NEW t \in DecisionTabs, page'[t].pc \in {"decide", "approving"}, page'[t].decision = "accept", ~page'[t].touched
      PROVE  LET r == page'[t] IN
             /\ ~blocked' /\ status'[r.vault] = "review" /\ r.need = deposit'
             /\ \A u \in r.approve : r.had[u] < RD!amount(r, u)
             /\ \A u \in RD!Uses :
                   allowance'[u] = IF u \in ToApprove(page[t])' THEN r.had[u] ELSE Topped(r.had[u], RD!amount(r, u))
    <2> DEFINE q == page[t]
    <2>1. /\ q.pc \in {"decide", "approving"} /\ q.decision = "accept" /\ ~q.touched /\ q.flow = tx.flow
          /\ q \in Screen /\ ScreenOK(q, txs, mined) /\ SpendScreen(q)
      BY <1>2, <1>3, ScreenOf DEF SpendInv
    <2>2. q.pc = "approving" /\ q.tx = k /\ SentBy(q, tx)
      BY <1>0, <2>1 DEF ScreenOK, Sent
    <2>3. tx.kind \in q.approve /\ tx.amount = RD!amount(q, tx.kind) /\ tx.kind \in RD!Uses
      BY <2>1, <2>2 DEF SentBy, Screen
    <2>4. ok /\ blocked' = blocked /\ status' = status /\ allowance' = [allowance EXCEPT ![tx.kind] = tx.amount] /\ deposit' = deposit
      BY <1>0, <2>3 DEF RD!mine, RD!succeeds, RD!Uses
    <2>5. ToApprove(q) = q.approve /\ ToApprove(page[t])' = q.approve \ {tx.kind}
      <3>1. q.tx > mined /\ q.tx <= mined' /\ ~(q.tx <= mined)
        BY <1>0, <2>2
      <3>2. txs'[k].kind = tx.kind /\ page'[t].tx = k /\ page'[t].approve = q.approve /\ page'[t].pc = "approving"
        BY <1>0, <1>1, <1>2, <2>2
      <3>3. ToApprove(q) = q.approve
        BY <2>2, <3>1 DEF ToApprove
      <3> QED BY <1>0, <3>2, <3>3 DEF ToApprove
    <2>6. /\ ~blocked /\ status[q.vault] = "review" /\ q.need = deposit /\ \A u \in q.approve : q.had[u] < RD!amount(q, u)
          /\ \A u \in RD!Uses : allowance[u] = IF u \in q.approve THEN q.had[u] ELSE Topped(q.had[u], RD!amount(q, u))
      BY <2>1, <2>5 DEF SpendScreen
    <2>7. /\ page'[t].vault = q.vault /\ page'[t].need = q.need /\ page'[t].had = q.had /\ page'[t].approve = q.approve
          /\ \A u : RD!amount(page'[t], u) = RD!amount(q, u)
      BY <1>2 DEF RD!amount
    <2>8. ASSUME NEW u \in RD!Uses
          PROVE  allowance'[u] = IF u \in q.approve \ {tx.kind} THEN q.had[u] ELSE Topped(q.had[u], RD!amount(q, u))
      <3>1. allowance'[u] = IF u = tx.kind THEN tx.amount ELSE allowance[u]
        BY <2>4 DEF DecisionInv
      <3>2. CASE u = tx.kind
        BY <2>3, <2>6, <3>1, <3>2 DEF Topped
      <3>3. CASE u # tx.kind
        BY <2>6, <3>1, <3>3
      <3> QED BY <3>2, <3>3
    <2> HIDE DEF q
    <2> QED BY <2>4, <2>5, <2>6, <2>7, <2>8
<1>4. \A t \in DecisionTabs : SpendScreen(page[t])'
  BY <1>3 DEF SpendScreen, RD!amount
<1>5. ASSUME NEW i \in DOMAIN txs', i > mined' PROVE SpendMove(txs[i])'
  <2>1. i \in DOMAIN txs /\ i > mined /\ i # k
    BY <1>0, <1>1, <1>5
  <2>2. txs[i].flow # tx.flow
    BY <1>0, <2>1 DEF DecisionInv, MovesOK
  <2>3. txs'[i].touched
    BY <1>1, <2>1, <2>2
  <2> QED BY <2>3 DEF SpendMove
<1>6. RD!RevertsHaveACause'
  <2>1. ASSUME NEW i \in 1 .. mined', txs'[i].kind = "accept", ~txs'[i].ok PROVE txs'[i].touched
    <3>1. CASE i = k
      <4>1. ~ok /\ tx.kind = "accept"
        BY <1>0, <1>1, <2>1, <3>1
      <4>2. tx.touched
        BY <1>0, <4>1, UntouchedSucceeds
      <4> QED BY <1>0, <1>1, <3>1, <4>2
    <3>2. CASE i # k
      <4>1. i \in 1 .. mined /\ i \in DOMAIN txs
        BY <1>0, <3>2, MovesOf
      <4> QED BY <1>1, <2>1, <3>2, <4>1 DEF SpendInv, RD!RevertsHaveACause
    <3> QED BY <3>1, <3>2
  <2> QED BY <2>1 DEF RD!RevertsHaveACause
<1> QED BY <1>4, <1>5, <1>6 DEF SpendInv

LEMMA SpendIsKept ==
  ASSUME RD!RuleDecisionAssumption
  PROVE  DecisionInv /\ SpendInv /\ [RD!Next]_RD!vars => SpendInv'
<1> SUFFICES ASSUME DecisionInv, SpendInv, [RD!Next]_RD!vars PROVE SpendInv'
  OBVIOUS
<1>1. CASE UNCHANGED RD!vars
  <2>1. /\ status' = status /\ deposit' = deposit /\ allowance' = allowance /\ txs' = txs /\ mined' = mined
        /\ page' = page /\ blocked' = blocked
    BY <1>1 DEF RD!vars, RD!chain
  <2>2. \A t \in DecisionTabs : SpendScreen(page[t])'
    BY <2>1 DEF SpendInv, SpendScreen, ToApprove, RD!amount
  <2>3. \A i \in DOMAIN txs' : i > mined' => SpendMove(txs[i])'
    BY <2>1 DEF SpendInv, SpendMove
  <2>4. RD!RevertsHaveACause'
    BY <2>1 DEF SpendInv, RD!RevertsHaveACause
  <2> QED BY <2>2, <2>3, <2>4 DEF SpendInv
<1>2. CASE RD!mine \/ RD!reprice
  BY <1>2, MineSpends, RepriceSpends
<1>3. ASSUME NEW t \in DecisionTabs, RD!approve(t) PROVE SpendInv'
  <2>1. PICK x \in Move :
          /\ x.flow = page[t].flow /\ x.vault = page[t].vault /\ x.had = page[t].had
          /\ x.touched = page[t].touched /\ x.kind \in page[t].approve /\ x.amount = RD!amount(page[t], x.kind)
          /\ page[t].pc = "decide" /\ RD!send(t, x, "approving")
    BY <1>3, ApprovalSent
  <2> QED BY <2>1, SendSpends
<1>4. ASSUME NEW t \in DecisionTabs, RD!decideRuleSetOnchain(t) PROVE SpendInv'
  <2>1. PICK x \in Move :
          /\ x.flow = page[t].flow /\ x.vault = page[t].vault /\ x.had = page[t].had
          /\ x.touched = page[t].touched /\ x.kind = page[t].decision /\ x.amount = page[t].need
          /\ page[t].decision \in Verdicts /\ page[t].pc = "decide" /\ page[t].approve = {}
          /\ RD!send(t, x, "deciding")
    BY <1>4, DecisionSent
  <2> QED BY <2>1, SendSpends
<1>5. ASSUME NEW t \in DecisionTabs, RD!readContracts(t) \/ RD!waitForTransactionReceipt(t) PROVE SpendInv'
  <2>1. RD!waitForTransactionReceipt(t) => page[t].pc \in {"approving", "deciding"}
    BY DEF RD!waitForTransactionReceipt
  <2> QED BY <1>5, <2>1, ReadSpends, HeardSpends, QuietSpends
<1>6. ASSUME NEW t \in DecisionTabs, RD!handleSetterDecision(t) \/ RD!step(t) \/ RD!reload(t) PROVE SpendInv'
  BY <1>3, <1>4, <1>5, <1>6, QuietSpends DEF RD!step
<1> QED BY <1>1, <1>2, <1>6 DEF RD!Next

LEMMA SpendHolds == ASSUME RD!RuleDecisionAssumption PROVE DecisionSpec => [](DecisionInv /\ SpendInv)
<1>1. RD!Init => DecisionInv /\ SpendInv
  BY DecisionAtFirst, SpendAtFirst
<1>2. (DecisionInv /\ SpendInv) /\ [RD!Next]_RD!vars => (DecisionInv /\ SpendInv)'
  BY DecisionIsKept, SpendIsKept
<1> QED BY <1>1, <1>2, PTL DEF DecisionSpec

(* An acceptance reverts only because something happened after the page    *)
(* read the contracts, or the vault had been decided before: what the page *)
(* found and approved was enough, and no treasury's setter gets that far.  *)
(* [proofOfVault.ts, decideRuleSetOnchain] *)
THEOREM RevertsAlwaysCaused == ASSUME RD!RuleDecisionAssumption PROVE DecisionSpec => []RD!RevertsHaveACause
<1>1. SpendInv => RD!RevertsHaveACause
  BY DEF SpendInv
<1> QED BY <1>1, SpendHolds, PTL

(* An acceptance that nothing came between uses up what was approved for   *)
(* it, and of an allowance that was enough before it leaves the rest.      *)
(* [proofOfVault.ts, decideRuleSetOnchain] *)
THEOREM AlwaysSpendsApprovals == ASSUME RD!RuleDecisionAssumption PROVE DecisionSpec => [][RD!SpendsItsApprovals]_RD!vars
<1>1. ASSUME DecisionInv, SpendInv, [RD!Next]_RD!vars, mined' # mined PROVE RD!mine
  BY <1>1 DEF RD!Next, RD!vars, RD!chain, RD!reprice, RD!handleSetterDecision, RD!step, RD!reload,
     RD!loadReviewState, RD!storeReason,
              RD!readContracts, RD!approve, RD!decideRuleSetOnchain, RD!send, RD!waitForTransactionReceipt, RD!registerVaultTx
<1>2. ASSUME DecisionInv, SpendInv, RD!mine PROVE RD!SpendsItsApprovals
  <2> DEFINE k == mined + 1
             tx == txs[k]
             ok == RD!succeeds(tx)
             y == txs'[mined']
  <2>0. /\ k \in DOMAIN txs /\ tx \in Move /\ tx.flow \in Nat /\ ok \in BOOLEAN
        /\ mined' = k /\ txs' = [RD!touchTxs(tx.flow) EXCEPT ![k].ok = ok] /\ mined \in Nat /\ k \in Nat /\ k > mined
    BY <1>2, NextMined, MovesOf
  <2>1. /\ y.vault = tx.vault /\ y.kind = tx.kind /\ y.amount = tx.amount /\ y.had = tx.had /\ y.ok = ok
        /\ (y.touched <=> tx.touched)
    <3>1. LET z == txs'[k] IN
            /\ z.vault = tx.vault /\ z.kind = tx.kind /\ z.amount = tx.amount /\ z.had = tx.had /\ z.ok = ok
            /\ z.touched = (tx.touched \/ (k > mined /\ tx.flow # tx.flow))
      <4> HIDE DEF k, ok
      <4> QED BY <1>2, <2>0, TouchedMoves
    <3>2. y = txs'[k]
      BY <2>0
    <3> HIDE DEF k, ok, y, tx
    <3> QED BY <3>1, <3>2
  <2>2. SUFFICES ASSUME tx.kind = "accept", ok, ~tx.touched
        PROVE  /\ allowance'["pov"] = IF tx.had["pov"] < tx.amount THEN 0 ELSE tx.had["pov"] - tx.amount
               /\ allowance'["collateral"] = IF tx.had["collateral"] < Gross[tx.vault] THEN 0
                                             ELSE tx.had["collateral"] - Gross[tx.vault]
    <3> HIDE DEF ok, y, tx
    <3> QED BY <2>1 DEF RD!SpendsItsApprovals, RD!Uses, y
  <2>3. /\ tx.amount = deposit /\ allowance["pov"] = Topped(tx.had["pov"], deposit)
        /\ allowance["collateral"] = Topped(tx.had["collateral"], Gross[tx.vault])
    BY <1>2, <2>0, <2>2 DEF SpendInv, SpendMove
  <2>4. /\ allowance'["pov"] = allowance["pov"] - deposit
        /\ allowance'["collateral"] = allowance["collateral"] - Gross[tx.vault]
    BY <1>2, <2>2 DEF RD!mine
  <2>5. tx.had["pov"] \in Nat /\ tx.had["collateral"] \in Nat /\ deposit \in Nat /\ Gross[tx.vault] \in Nat
    BY <1>2, <2>0 DEF Move, RD!Uses, DecisionInv, RD!RuleDecisionAssumption
  <2> QED BY <2>3, <2>4, <2>5 DEF Topped
<1>3. (DecisionInv /\ SpendInv) /\ [RD!Next]_RD!vars => [RD!SpendsItsApprovals]_RD!vars
  <2>1. mined' = mined => RD!SpendsItsApprovals
    BY DEF RD!SpendsItsApprovals
  <2> QED BY <1>1, <1>2, <2>1
<1> QED BY <1>3, SpendHolds, PTL DEF DecisionSpec

-----------------------------------------------------------------------------
(* What the API hears of. *)
Deciding == {t \in DecisionTabs : page[t].pc \in {"deciding", "register"}}
AwaitedDecisions == {page[t].tx : t \in Deciding}
NotRegistered ==
    {i \in DOMAIN txs : /\ txs[i].kind \in Verdicts /\ record[txs[i].vault] = "review"
                        /\ i <= mined => txs[i].ok}
Unheard == NotRegistered \ AwaitedDecisions

HeardInv ==
    /\ Cardinality(Unheard) <= mishaps
    /\ \A v \in Vaults : status[v] # "review" =>
          \E i \in 1 .. mined : txs[i].ok /\ txs[i].kind \in Verdicts /\ txs[i].vault = v

LEMMA UnheardAreFinite == ASSUME DecisionInv PROVE IsFiniteSet(DOMAIN txs) /\ IsFiniteSet(Unheard)
<1>1. IsFiniteSet(DOMAIN txs)
  BY MovesOf, FS_Interval
<1> QED BY <1>1, FS_Subset DEF Unheard, NotRegistered

(* A step takes decisions from those unheard of, or a fault adds one. *)
LEMMA OneMoreDecision ==
  ASSUME DecisionInv, DecisionInv', HeardInv,
         \/ mishaps' = mishaps /\ Unheard' \subseteq Unheard
         \/ mishaps' = mishaps + 1 /\ \E x : Unheard' \subseteq Unheard \cup {x}
  PROVE  Cardinality(Unheard)' <= mishaps'
<1> DEFINE L == Unheard
           M == Unheard'
<1>1. IsFiniteSet(L) /\ Cardinality(L) \in Nat /\ mishaps \in Nat /\ Cardinality(L) <= mishaps
  BY UnheardAreFinite, FS_CardinalityType DEF DecisionInv, HeardInv
<1> HIDE DEF L, M
<1>2. CASE mishaps' = mishaps /\ M \subseteq L
  <2>1. Cardinality(M) <= Cardinality(L) /\ Cardinality(M) \in Nat
    BY <1>1, <1>2, FS_Subset, FS_CardinalityType
  <2> QED BY <1>1, <1>2, <2>1 DEF M
<1>3. CASE mishaps' = mishaps + 1 /\ \E x : M \subseteq L \cup {x}
  <2>1. PICK x : M \subseteq L \cup {x}
    BY <1>3
  <2>2. Cardinality(M) \in Nat /\ Cardinality(M) <= Cardinality(L) + 1
    BY <1>1, <2>1, OneMore
  <2>3. Cardinality(M) <= mishaps'
    BY <1>1, <1>3, <2>2
  <2> QED BY <2>3 DEF M
<1> QED BY <1>2, <1>3 DEF L, M

LEMMA HeardAtFirst == ASSUME RD!Init PROVE HeardInv
<1>1. DOMAIN txs = {} /\ mishaps = 0 /\ \A v \in Vaults : status[v] = "review"
  BY DEF RD!Init
<1>2. Unheard = {}
  BY <1>1 DEF Unheard, NotRegistered
<1> QED BY <1>1, <1>2, FS_EmptySet DEF HeardInv

(* A page stops waiting: its decision is unheard of unless the API was     *)
(* told of it, or it was refused. *)
LEMMA DecisionStops ==
  ASSUME DecisionInv, DecisionInv', HeardInv, NEW t \in DecisionTabs, NEW e, page' = [page EXCEPT ![t] = e], UNCHANGED RD!chain,
         \A v \in Vaults : record'[v] = "review" => record[v] = "review",
         \/ mishaps' = mishaps + 1
         \/ /\ mishaps' = mishaps
            /\ \/ page[t].pc \notin {"deciding", "register"}
               \/ e.pc \in {"deciding", "register"} /\ e.tx = page[t].tx
               \/ page[t].tx \notin NotRegistered'
  PROVE  HeardInv'
<1>1. status' = status /\ txs' = txs /\ mined' = mined
  BY DEF RD!chain
<1>2. \A u \in DecisionTabs : page'[u] = IF u = t THEN e ELSE page[u]
  BY DEF DecisionInv
<1>3. NotRegistered' \subseteq NotRegistered
  <2>1. \A i \in DOMAIN txs : txs[i].vault \in Vaults
    BY MovesOf DEF Move
  <2> QED BY <1>1, <2>1 DEF NotRegistered
<1>4. \A u \in Deciding : u # t => page[u].tx \in AwaitedDecisions'
  <2>1. \A u \in Deciding : u # t => u \in Deciding' /\ page'[u] = page[u]
    BY <1>2 DEF Deciding
  <2> QED BY <2>1 DEF AwaitedDecisions
<1>5. Unheard' \subseteq Unheard \cup {page[t].tx}
  BY <1>3, <1>4 DEF Unheard, AwaitedDecisions
<1>6. ASSUME mishaps' = mishaps PROVE Cardinality(Unheard)' <= mishaps'
  <2>1. CASE page[t].pc \notin {"deciding", "register"}
    <3>1. t \notin Deciding
      BY <2>1 DEF Deciding
    <3>2. Unheard' \subseteq Unheard
      BY <1>3, <1>4, <3>1 DEF Unheard, AwaitedDecisions
    <3> QED BY <1>6, <3>2, OneMoreDecision
  <2>2. CASE e.pc \in {"deciding", "register"} /\ e.tx = page[t].tx
    <3>1. t \in Deciding' /\ page'[t].tx = page[t].tx
      BY <1>2, <2>2 DEF Deciding
    <3>2. page[t].tx \in AwaitedDecisions'
      BY <3>1 DEF AwaitedDecisions
    <3>3. Unheard' \subseteq Unheard
      BY <1>5, <3>2 DEF Unheard
    <3> QED BY <1>6, <3>3, OneMoreDecision
  <2>3. CASE page[t].tx \notin NotRegistered'
    <3>1. Unheard' \subseteq Unheard
      BY <1>5, <2>3 DEF Unheard
    <3> QED BY <1>6, <3>1, OneMoreDecision
  <2>4. mishaps' # mishaps + 1
    BY <1>6 DEF DecisionInv
  <2> QED BY <2>1, <2>2, <2>3, <2>4
<1>7. Cardinality(Unheard)' <= mishaps'
  <2>1. mishaps' = mishaps + 1 => Cardinality(Unheard)' <= mishaps'
    BY <1>5, OneMoreDecision
  <2> QED BY <1>6, <2>1
<1> QED BY <1>1, <1>7 DEF HeardInv

LEMMA FaultsAreCounted ==
  ASSUME DecisionInv, NEW t \in DecisionTabs,
         \/ RD!loadReviewState(t) \/ RD!handleSetterDecision(t) \/ RD!storeReason(t) \/ RD!readContracts(t)
         \/ RD!waitForTransactionReceipt(t) \/ RD!registerVaultTx(t) \/ RD!reload(t)
  PROVE  UNCHANGED RD!chain /\ mishaps' \in {mishaps, mishaps + 1}
  BY DEF RD!loadReviewState, RD!handleSetterDecision, RD!storeReason, RD!registerVaultTx, RD!reload,
     RD!readContracts,
         RD!waitForTransactionReceipt, RD!fault

LEMMA PageStepHeard ==
  ASSUME DecisionInv, DecisionInv', HeardInv, NEW t \in DecisionTabs,
         \/ RD!loadReviewState(t) \/ RD!handleSetterDecision(t) \/ RD!storeReason(t) \/ RD!readContracts(t) \/ RD!reload(t)
  PROVE  HeardInv'
<1>1. UNCHANGED RD!chain /\ mishaps' \in {mishaps, mishaps + 1} /\ record' = record
  BY FaultsAreCounted DEF RD!loadReviewState, RD!handleSetterDecision, RD!storeReason,
     RD!readContracts, RD!reload
<1>2. \E e : page' = [page EXCEPT ![t] = e]
  BY DEF RD!loadReviewState, RD!handleSetterDecision, RD!storeReason, RD!readContracts, RD!reload,
     RD!goes, RD!fails
<1>3. mishaps' = mishaps => page[t].pc \notin {"deciding", "register"}
  <2>1. RD!reload(t) => mishaps' # mishaps
    BY DEF RD!reload, RD!fault, DecisionInv
  <2> QED BY <2>1 DEF RD!loadReviewState, RD!handleSetterDecision, RD!storeReason, RD!readContracts,
     RD!at
<1> QED BY <1>1, <1>2, <1>3, DecisionStops

LEMMA ReceiptHeard ==
  ASSUME DecisionInv, DecisionInv', HeardInv, NEW t \in DecisionTabs, RD!waitForTransactionReceipt(t) PROVE HeardInv'
<1>0. /\ page[t] \in Screen /\ ScreenOK(page[t], txs, mined) /\ page[t].pc \in {"approving", "deciding"}
      /\ page[t].tx <= mined /\ page[t].tx \in DOMAIN txs /\ txs[page[t].tx].ok \in BOOLEAN
  BY ScreenOf, MovesOf DEF RD!waitForTransactionReceipt, ScreenOK, Sent, Move
<1>1. UNCHANGED RD!chain /\ mishaps' \in {mishaps, mishaps + 1} /\ record' = record
  BY FaultsAreCounted DEF RD!waitForTransactionReceipt
<1>2. CASE mishaps' = mishaps + 1
  <2>1. \E e : page' = [page EXCEPT ![t] = e]
    BY <1>0 DEF RD!waitForTransactionReceipt, RD!goes, RD!fails
  <2> QED BY <1>1, <1>2, <2>1, DecisionStops
<1>3. CASE mishaps' = mishaps /\ ~txs[page[t].tx].ok
  <2>1. \E e : page' = [page EXCEPT ![t] = e]
    BY <1>0 DEF RD!waitForTransactionReceipt, RD!goes, RD!fails
  <2>2. page[t].tx \notin NotRegistered'
    BY <1>0, <1>1, <1>3 DEF NotRegistered, RD!chain
  <2> QED BY <1>1, <1>3, <2>1, <2>2, DecisionStops
<1>4. CASE mishaps' = mishaps /\ txs[page[t].tx].ok /\ page[t].pc = "deciding"
  <2>1. ~RD!fault
    BY <1>4 DEF RD!fault, DecisionInv
  <2>2. PICK e : e = [page[t] EXCEPT !.pc = "register"] /\ page' = [page EXCEPT ![t] = e]
    BY <1>4, <2>1 DEF RD!waitForTransactionReceipt, RD!goes
  <2>3. e.pc = "register" /\ e.tx = page[t].tx
    BY <1>0, <2>2 DEF Screen
  <2> QED BY <1>1, <1>4, <2>2, <2>3, DecisionStops
<1>5. CASE mishaps' = mishaps /\ page[t].pc = "approving"
  <2>1. \E e : page' = [page EXCEPT ![t] = e]
    BY <1>0 DEF RD!waitForTransactionReceipt, RD!goes, RD!fails
  <2>2. page[t].pc \notin {"deciding", "register"}
    BY <1>5
  <2> QED BY <1>1, <1>5, <2>1, <2>2, DecisionStops
<1> QED BY <1>0, <1>1, <1>2, <1>3, <1>4, <1>5

LEMMA RegisterHeard ==
  ASSUME DecisionInv, DecisionInv', HeardInv, NEW t \in DecisionTabs, RD!registerVaultTx(t) PROVE HeardInv'
<1>1. UNCHANGED RD!chain /\ mishaps' \in {mishaps, mishaps + 1}
  BY FaultsAreCounted
<1>2. \E e : page' = [page EXCEPT ![t] = e]
  BY DEF RD!registerVaultTx, RD!goes, RD!fails
<1>3. page[t].vault \in Vaults /\ RD!registeredStatus(t) # "review" /\ page[t].pc = "register"
  BY RegisteredIsDecided DEF RD!registerVaultTx, RD!at, RD!registeredStatus
<1>4. \A v \in Vaults : record'[v] = "review" => record[v] = "review"
  BY <1>3 DEF RD!registerVaultTx, DecisionInv
<1>5. CASE mishaps' = mishaps
  <2>1. ~RD!fault
    BY <1>5 DEF RD!fault, DecisionInv
  <2>2. record'[page[t].vault] # "review"
    BY <1>3, <2>1 DEF RD!registerVaultTx, DecisionInv
  <2>3. txs'[page[t].tx].vault = page[t].vault
    BY <1>1, <1>3, ScreenOf DEF ScreenOK, SentBy, Sent, RD!chain
  <2>4. page[t].tx \notin NotRegistered'
    BY <2>2, <2>3 DEF NotRegistered
  <2> QED BY <1>1, <1>2, <1>4, <1>5, <2>4, DecisionStops
<1>6. CASE mishaps' = mishaps + 1
  BY <1>1, <1>2, <1>4, <1>6, DecisionStops
<1> QED BY <1>1, <1>5, <1>6

LEMMA SendHeard ==
  ASSUME DecisionInv, DecisionInv', HeardInv, NEW t \in DecisionTabs, page[t].pc = "decide", NEW x \in Move,
         NEW k \in {"approving", "deciding"}, RD!send(t, x, k), k = "approving" => x.kind \in RD!Uses
  PROVE  HeardInv'
<1> HIDE DEF RD!Idle
<1> DEFINE n == Len(txs) + 1
           q == page[t]
<1>0. q \in Screen /\ Len(txs) \in Nat /\ n \in Nat /\ DOMAIN txs = 1 .. Len(txs) /\ mined \in Nat /\ mined <= Len(txs)
  BY ScreenOf, MovesOf
<1>1. UNCHANGED <<status, deposit, allowance, blocked, mined, reprices, record>>
  BY DEF RD!send
<1>2. CASE RD!fails(t) /\ UNCHANGED <<txs, mishaps>>
  <2>1. \E e : page' = [page EXCEPT ![t] = e]
    BY <1>2 DEF RD!fails, RD!goes
  <2>2. UNCHANGED RD!chain
    BY <1>1, <1>2 DEF RD!chain
  <2>3. page[t].pc \notin {"deciding", "register"}
    OBVIOUS
  <2> QED BY <1>1, <1>2, <2>1, <2>2, <2>3, DecisionStops
<1>3. CASE txs' = Append(txs, x)
  <2>1. txs' \in Seq(Move) /\ Len(txs') = n /\ txs'[n] = x /\ \A i \in 1 .. Len(txs) : txs'[i] = txs[i]
    BY <1>3, AppendProperties DEF DecisionInv
  <2>2. DOMAIN txs' = 1 .. n
    BY <2>1, LenProperties
  <2>3. PICK e : /\ page' = [page EXCEPT ![t] = e]
                 /\ \/ mishaps' = mishaps + 1
                    \/ mishaps' = mishaps /\ e = [q EXCEPT !.pc = k, !.tx = n]
    <3>1. txs' # txs
      BY <1>0, <2>1
    <3> QED BY <2>1, <3>1 DEF RD!send, RD!fails, RD!goes, RD!fault
  <2>4. \A u \in DecisionTabs : page'[u] = IF u = t THEN e ELSE page[u]
    BY <2>3 DEF DecisionInv
  <2>5. t \notin Deciding
    BY DEF Deciding
  <2>6. AwaitedDecisions \subseteq AwaitedDecisions'
    <3>1. \A u \in Deciding : u \in Deciding' /\ page'[u] = page[u]
      BY <2>4, <2>5 DEF Deciding
    <3> QED BY <3>1 DEF AwaitedDecisions
  <2>7. NotRegistered' \subseteq NotRegistered \cup {n}
    <3>1. \A i \in DOMAIN txs' : i \in DOMAIN txs \/ i = n
      BY <1>0, <2>2
    <3>2. \A i \in DOMAIN txs : txs'[i] = txs[i]
      BY <1>0, <2>1
    <3> QED BY <1>1, <3>1, <3>2 DEF NotRegistered
  <2>8. Unheard' \subseteq Unheard \cup {n}
    BY <2>6, <2>7 DEF Unheard
  <2>9. CASE mishaps' = mishaps + 1
    <3>1. Cardinality(Unheard)' <= mishaps'
      BY <2>8, <2>9, OneMoreDecision
    <3> QED BY <1>0, <1>1, <2>1, <3>1 DEF HeardInv
  <2>10. CASE mishaps' = mishaps /\ e = [q EXCEPT !.pc = k, !.tx = n]
    <3>1. e.pc = k /\ e.tx = n
      <4> HIDE DEF n
      <4> QED BY <1>0, <2>10 DEF Screen
    <3>2. Unheard' \subseteq Unheard
      <4>1. CASE k = "approving"
        <5>1. x.kind \notin Verdicts
          BY <4>1 DEF RD!Uses, Verdicts
        <5>2. n \notin NotRegistered'
          BY <2>1, <5>1 DEF NotRegistered
        <5> QED BY <2>8, <5>2 DEF Unheard
      <4>2. CASE k = "deciding"
        <5>1. t \in Deciding' /\ page'[t].tx = n
          BY <2>4, <3>1, <4>2 DEF Deciding
        <5>2. n \in AwaitedDecisions'
          BY <5>1 DEF AwaitedDecisions
        <5> QED BY <2>8, <5>2 DEF Unheard
      <4> QED BY <4>1, <4>2
    <3>3. Cardinality(Unheard)' <= mishaps'
      BY <2>10, <3>2, OneMoreDecision
    <3> QED BY <1>0, <1>1, <2>1, <3>3 DEF HeardInv
  <2> QED BY <2>3, <2>9, <2>10
<1> QED BY <1>2, <1>3 DEF RD!send

LEMMA ChainHeard ==
  ASSUME RD!RuleDecisionAssumption, DecisionInv, DecisionInv', HeardInv, RD!mine \/ RD!reprice PROVE HeardInv'
<1> DEFINE k == mined + 1
           tx == txs[k]
           ok == RD!succeeds(tx)
<1>0. /\ k \in Nat /\ mined \in Nat /\ mined <= Len(txs) /\ Len(txs) \in Nat /\ DOMAIN txs = 1 .. Len(txs)
      /\ \A i \in DOMAIN txs : txs[i] \in Move
  BY MovesOf
<1>1. record' = record /\ mishaps' = mishaps
  BY DEF RD!mine, RD!reprice
<1>2. \A t \in DecisionTabs : page'[t].pc = page[t].pc /\ page'[t].tx = page[t].tx
  <2>1. CASE RD!mine
    BY <2>1, NextMined, TouchedPages
  <2>2. CASE RD!reprice
    BY <2>2, TouchedPages DEF RD!reprice
  <2> QED BY <2>1, <2>2
<1>3. AwaitedDecisions' = AwaitedDecisions
  BY <1>2 DEF AwaitedDecisions, Deciding
<1>4. CASE RD!reprice
  <2>1. mined' = mined /\ status' = status /\ txs' = RD!touchTxs(0)
    BY <1>4 DEF RD!reprice
  <2>2. /\ DOMAIN txs' = DOMAIN txs
        /\ \A i \in DOMAIN txs : txs'[i].kind = txs[i].kind /\ txs'[i].vault = txs[i].vault /\ txs'[i].ok = txs[i].ok
    BY <2>1, TouchedMoves
  <2>3. Unheard' \subseteq Unheard
    BY <1>1, <1>3, <2>1, <2>2 DEF Unheard, NotRegistered
  <2>4. \A i \in 1 .. mined : i \in DOMAIN txs
    BY <1>0
  <2>5. Cardinality(Unheard)' <= mishaps'
    BY <1>1, <2>3, OneMoreDecision
  <2>6. ASSUME NEW v \in Vaults, status'[v] # "review"
        PROVE  \E i \in 1 .. mined' : txs'[i].ok /\ txs'[i].kind \in Verdicts /\ txs'[i].vault = v
    <3>1. PICK i \in 1 .. mined : txs[i].ok /\ txs[i].kind \in Verdicts /\ txs[i].vault = v
      BY <2>1, <2>6 DEF HeardInv
    <3> QED BY <2>1, <2>2, <2>4, <3>1
  <2> QED BY <2>5, <2>6 DEF HeardInv
<1>5. CASE RD!mine
  <2>0. /\ k \in DOMAIN txs /\ tx \in Move /\ tx.flow \in Nat /\ ok \in BOOLEAN /\ mined' = k
        /\ txs' = [RD!touchTxs(tx.flow) EXCEPT ![k].ok = ok]
    BY <1>5, NextMined
  <2>1. /\ DOMAIN txs' = DOMAIN txs /\ txs'[k].ok = ok
        /\ \A i \in DOMAIN txs : /\ txs'[i].kind = txs[i].kind /\ txs'[i].vault = txs[i].vault
                                 /\ i # k => txs'[i].ok = txs[i].ok
    <3> HIDE DEF k, ok
    <3> QED BY <1>0, <2>0, TouchedMoves
  <2>2. \A i \in DOMAIN txs : (i <= mined <=> (i <= mined' /\ i # k))
    BY <1>0, <2>0
  <2>3. NotRegistered' \subseteq NotRegistered
    BY <1>1, <2>1, <2>2 DEF NotRegistered
  <2>4. Cardinality(Unheard)' <= mishaps'
    <3>1. Unheard' \subseteq Unheard
      BY <1>3, <2>3 DEF Unheard
    <3> QED BY <1>1, <3>1, OneMoreDecision
  <2>5. ASSUME NEW v \in Vaults, status'[v] # "review"
        PROVE  \E i \in 1 .. mined' : txs'[i].ok /\ txs'[i].kind \in Verdicts /\ txs'[i].vault = v
    <3>1. CASE status[v] # "review"
      <4>1. PICK i \in 1 .. mined : txs[i].ok /\ txs[i].kind \in Verdicts /\ txs[i].vault = v
        BY <3>1 DEF HeardInv
      <4>2. i \in DOMAIN txs /\ i # k /\ i \in 1 .. mined'
        BY <1>0, <2>0
      <4> QED BY <2>1, <4>1, <4>2
    <3>2. CASE status[v] = "review"
      <4>1. ok /\ tx.kind \notin RD!Uses /\ v = tx.vault
        BY <1>5, <2>5, <3>2 DEF RD!mine, DecisionInv
      <4>2. k \in 1 .. mined'
        BY <1>0, <2>0
      <4>3. tx.kind \in Verdicts
        BY <2>0, <4>1 DEF Move
      <4> QED BY <2>0, <2>1, <4>1, <4>2, <4>3
    <3> QED BY <3>1, <3>2
  <2> QED BY <2>4, <2>5 DEF HeardInv
<1> QED BY <1>4, <1>5

LEMMA HeardIsKept ==
  ASSUME RD!RuleDecisionAssumption PROVE DecisionInv /\ DecisionInv' /\ HeardInv /\ [RD!Next]_RD!vars => HeardInv'
<1> SUFFICES ASSUME DecisionInv, DecisionInv', HeardInv, [RD!Next]_RD!vars PROVE HeardInv'
  OBVIOUS
<1>1. CASE UNCHANGED RD!vars
  BY <1>1 DEF RD!vars, RD!chain, HeardInv, Unheard, NotRegistered, AwaitedDecisions, Deciding
<1>2. CASE RD!mine \/ RD!reprice
  BY <1>2, ChainHeard
<1>3. ASSUME NEW t \in DecisionTabs, RD!approve(t) PROVE HeardInv'
  <2>1. \E x \in Move : x.kind \in RD!Uses /\ page[t].pc = "decide" /\ RD!send(t, x, "approving")
    BY <1>3, ApprovalSent, ScreenOf DEF Screen
  <2> QED BY <2>1, SendHeard
<1>4. ASSUME NEW t \in DecisionTabs, RD!decideRuleSetOnchain(t) PROVE HeardInv'
  <2>1. \E x \in Move : page[t].pc = "decide" /\ RD!send(t, x, "deciding")
    BY <1>4, DecisionSent
  <2> QED BY <2>1, SendHeard
<1>5. ASSUME NEW t \in DecisionTabs, RD!handleSetterDecision(t) \/ RD!step(t) \/ RD!reload(t) PROVE HeardInv'
  BY <1>3, <1>4, <1>5, PageStepHeard, ReceiptHeard, RegisterHeard DEF RD!step
<1> QED BY <1>1, <1>2, <1>5 DEF RD!Next

(* A decision on-chain that the API does not know of is one whose receipt, *)
(* registration or tab was lost, once for each loss, or that a page still  *)
(* waits for; and the API never knows of another one.                      *)
(* [review/page.tsx, handleSetterDecision] *)
THEOREM DecisionsAreRegistered ==
  ASSUME RD!RuleDecisionAssumption PROVE DecisionSpec => []RD!DecisionIsRegistered
<1>1. RD!Init => DecisionInv /\ HeardInv
  BY DecisionAtFirst, HeardAtFirst
<1>2. (DecisionInv /\ HeardInv) /\ [RD!Next]_RD!vars => (DecisionInv /\ HeardInv)'
  BY DecisionIsKept, HeardIsKept
<1>3. DecisionInv /\ HeardInv => RD!DecisionIsRegistered
  <2> SUFFICES ASSUME DecisionInv, HeardInv PROVE RD!DecisionIsRegistered
    OBVIOUS
  <2> DEFINE Behind == {v \in Vaults : status[v] # record[v]}
             All == Unheard \cup AwaitedDecisions
             of == [v \in Behind |-> CHOOSE i \in 1 .. mined : txs[i].ok /\ txs[i].kind \in Verdicts /\ txs[i].vault = v]
  <2>1. IsFiniteSet(Unheard) /\ IsFiniteSet(Deciding)
    <3>1. IsFiniteSet(DecisionTabs)
      BY DEF RD!RuleDecisionAssumption, RD!IsFiniteSet, IsFiniteSet
    <3>2. Deciding \subseteq DecisionTabs
      BY DEF Deciding
    <3> QED BY <3>1, <3>2, UnheardAreFinite, FS_Subset
  <2>2. IsFiniteSet(AwaitedDecisions) /\ Cardinality(AwaitedDecisions) <= Cardinality(Deciding)
    <3> DEFINE f == [t \in Deciding |-> page[t].tx]
    <3>1. f \in Surjection(Deciding, AwaitedDecisions)
      BY DEF Surjection, AwaitedDecisions
    <3> HIDE DEF f
    <3> QED BY <2>1, <3>1, FS_Surjection
  <2>3. IsFiniteSet(All) /\ Cardinality(All) <= Cardinality(Unheard) + Cardinality(AwaitedDecisions)
    <3>1. Cardinality(Unheard \cap AwaitedDecisions) \in Nat
      BY <2>1, FS_Subset, FS_CardinalityType
    <3>2. /\ IsFiniteSet(All)
          /\ Cardinality(All) = Cardinality(Unheard) + Cardinality(AwaitedDecisions)
                                   - Cardinality(Unheard \cap AwaitedDecisions)
      BY <2>1, <2>2, FS_Union
    <3>3. Cardinality(Unheard) \in Nat /\ Cardinality(AwaitedDecisions) \in Nat
      BY <2>1, <2>2, FS_CardinalityType
    <3> QED BY <3>1, <3>2, <3>3
  <2>4. of \in Injection(Behind, All)
    <3>1. ASSUME NEW v \in Behind
          PROVE  of[v] \in 1 .. mined /\ txs[of[v]].ok /\ txs[of[v]].kind \in Verdicts /\ txs[of[v]].vault = v
      <4>1. status[v] # "review"
        BY DEF DecisionInv
      <4>2. \E i \in 1 .. mined : txs[i].ok /\ txs[i].kind \in Verdicts /\ txs[i].vault = v
        BY <4>1 DEF HeardInv
      <4> QED BY <4>2
    <3>2. ASSUME NEW v \in Behind PROVE of[v] \in All
      <4>1. record[v] = "review"
        BY DEF DecisionInv
      <4> HIDE DEF of
      <4>2. of[v] \in DOMAIN txs
        BY <3>1, MovesOf
      <4>3. of[v] \in NotRegistered
        BY <3>1, <4>1, <4>2 DEF NotRegistered
      <4> QED BY <4>3 DEF Unheard
    <3>3. of \in [Behind -> All]
      BY <3>2
    <3> HIDE DEF of
    <3> QED BY <3>1, <3>3 DEF Injection, IsInjective
  <2> HIDE DEF of, All
  <2>5. IsFiniteSet(Behind) /\ Cardinality(Behind) <= Cardinality(All)
    BY <2>3, <2>4, FS_Injection
  <2>6. /\ Cardinality(Behind) \in Nat /\ Cardinality(All) \in Nat /\ Cardinality(Unheard) \in Nat
        /\ Cardinality(AwaitedDecisions) \in Nat /\ Cardinality(Deciding) \in Nat /\ mishaps \in Nat
    BY <2>1, <2>2, <2>3, <2>5, FS_CardinalityType DEF DecisionInv
  <2> HIDE DEF Behind
  <2>7. Cardinality(Behind) <= mishaps + Cardinality(Deciding)
    BY <2>2, <2>3, <2>5, <2>6 DEF HeardInv
  <2>8. \A v \in Vaults : record[v] \in {"review", status[v]}
    BY DEF DecisionInv
  <2> QED BY <2>7, <2>8 DEF RD!DecisionIsRegistered, Behind, Deciding, RD!Cardinality, Cardinality
<1> QED BY <1>1, <1>2, <1>3, PTL DEF DecisionSpec

-----------------------------------------------------------------------------
(* What is counted is bounded, and what is numbered exists. *)
Bounded ==
    /\ blocked \in BOOLEAN /\ decisions \in 0 .. MaxDecisions /\ reprices \in 0 .. MaxReprices /\ mishaps \in 0 .. MaxMishaps
Listed == \A t \in DecisionTabs : page[t].tx <= Len(txs)

LEMMA BoundsAreKept == ASSUME RD!RuleDecisionAssumption, Bounded, [RD!Next]_RD!vars PROVE Bounded'
<1>0. {MaxDecisions, MaxReprices, MaxMishaps} \subseteq Nat
  BY DEF RD!RuleDecisionAssumption
<1>1. RD!fault => mishaps' \in 0 .. MaxMishaps
  BY <1>0 DEF RD!fault, Bounded
<1>2. CASE RD!mine
  BY <1>2 DEF RD!mine, Bounded
<1>3. CASE RD!reprice
  BY <1>0, <1>3 DEF RD!reprice, Bounded
<1>4. ASSUME NEW t \in DecisionTabs, RD!handleSetterDecision(t) PROVE Bounded'
  BY <1>0, <1>4 DEF RD!handleSetterDecision, RD!chain, Bounded
<1>5. ASSUME NEW t \in DecisionTabs, RD!step(t) \/ RD!reload(t) PROVE Bounded'
  <2>1. UNCHANGED <<blocked, decisions, reprices>> /\ (RD!fault \/ mishaps' = mishaps)
    BY <1>5 DEF RD!step, RD!reload, RD!loadReviewState, RD!storeReason, RD!readContracts, RD!approve,
       RD!decideRuleSetOnchain, RD!send,
                RD!waitForTransactionReceipt, RD!registerVaultTx, RD!chain
  <2> QED BY <1>1, <2>1 DEF Bounded
<1>6. CASE UNCHANGED RD!vars
  BY <1>6 DEF RD!vars, RD!chain, Bounded
<1> QED BY <1>2, <1>3, <1>4, <1>5, <1>6 DEF RD!Next

LEMMA ListIsKept == ASSUME DecisionInv, DecisionInv', Listed, [RD!Next]_RD!vars PROVE Listed'
<1> HIDE DEF RD!Idle
<1>0. /\ RD!Idle \in Screen /\ RD!Idle.tx = 0 /\ Len(txs) \in Nat /\ Len(txs') \in Nat /\ \A t \in DecisionTabs : page[t] \in Screen
  BY FreshScreens, ScreenOf, LenProperties DEF RD!Idle, DecisionInv
<1>1. ASSUME NEW t \in DecisionTabs, NEW e, page' = [page EXCEPT ![t] = e], Len(txs) <= Len(txs'),
             e.tx \in {0, page[t].tx, Len(txs')}
      PROVE  Listed'
  <2>1. \A u \in DecisionTabs : page'[u] = IF u = t THEN e ELSE page[u]
    BY <1>1 DEF DecisionInv
  <2>2. \A u \in DecisionTabs : page[u].tx \in Nat /\ page[u].tx <= Len(txs)
    BY <1>0 DEF Screen, Listed
  <2> QED BY <1>0, <1>1, <2>1, <2>2 DEF Listed
<1>2. ASSUME NEW t \in DecisionTabs, RD!fails(t), Len(txs) <= Len(txs') PROVE Listed'
  <2>1. PICK e : /\ e = [RD!Idle EXCEPT !.pc = "ready", !.vault = page[t].vault, !.seen = page[t].seen]
                 /\ page' = [page EXCEPT ![t] = e]
    BY <1>2 DEF RD!fails, RD!goes
  <2>2. e.tx = 0
    BY <1>0, <2>1 DEF Screen
  <2> QED BY <1>1, <1>2, <2>1, <2>2
<1>3. txs' = txs => Len(txs) <= Len(txs')
  BY <1>0
<1>4. ASSUME NEW t \in DecisionTabs, RD!loadReviewState(t) PROVE Listed'
  <2>1. PICK v \in Vaults : RD!goes(t, [RD!Idle EXCEPT !.pc = "ready", !.vault = v, !.seen = record[v]])
    BY <1>4 DEF RD!loadReviewState
  <2>2. PICK e : e = [RD!Idle EXCEPT !.pc = "ready", !.vault = v, !.seen = record[v]] /\ page' = [page EXCEPT ![t] = e]
    BY <2>1 DEF RD!goes
  <2>3. e.tx = 0
    BY <1>0, <2>2 DEF Screen
  <2> QED BY <1>1, <1>3, <1>4, <2>2, <2>3 DEF RD!loadReviewState, RD!chain
<1>5. ASSUME NEW t \in DecisionTabs, RD!handleSetterDecision(t) PROVE Listed'
  <2>1. PICK k \in {"read", "reason"}, d \in Verdicts : RD!goes(t, [page[t] EXCEPT !.pc = k, !.decision = d, !.flow = decisions'])
    BY <1>5 DEF RD!handleSetterDecision, Verdicts
  <2>2. PICK n, e : /\ n = decisions' /\ e = [page[t] EXCEPT !.pc = k, !.decision = d, !.flow = n]
                    /\ page' = [page EXCEPT ![t] = e]
    BY <2>1 DEF RD!goes
  <2>3. e.tx = page[t].tx
    BY <1>0, <2>2 DEF Screen
  <2> QED BY <1>1, <1>3, <1>5, <2>2, <2>3 DEF RD!handleSetterDecision, RD!chain
<1>6. ASSUME NEW t \in DecisionTabs, NEW k, NEW x, txs' = txs, RD!goes(t, [page[t] EXCEPT !.pc = k, !.approve = x]) PROVE Listed'
  <2>1. PICK e : e = [page[t] EXCEPT !.pc = k, !.approve = x] /\ page' = [page EXCEPT ![t] = e]
    BY <1>6 DEF RD!goes
  <2>2. e.tx = page[t].tx
    BY <1>0, <2>1 DEF Screen
  <2> QED BY <1>1, <1>3, <1>6, <2>1, <2>2
<1>7. ASSUME NEW t \in DecisionTabs, NEW k, txs' = txs, RD!goes(t, [page[t] EXCEPT !.pc = k]) PROVE Listed'
  <2>1. PICK e : e = [page[t] EXCEPT !.pc = k] /\ page' = [page EXCEPT ![t] = e]
    BY <1>7 DEF RD!goes
  <2>2. e.tx = page[t].tx
    BY <1>0, <2>1 DEF Screen
  <2> QED BY <1>1, <1>3, <1>7, <2>1, <2>2
<1>8. ASSUME NEW t \in DecisionTabs, RD!storeReason(t) PROVE Listed'
  <2>1. txs' = txs /\ (RD!fails(t) \/ RD!goes(t, [page[t] EXCEPT !.pc = "decide"]))
    BY <1>8 DEF RD!storeReason, RD!chain
  <2> QED BY <1>2, <1>3, <1>7, <2>1
<1>9. ASSUME NEW t \in DecisionTabs, RD!readContracts(t) PROVE Listed'
  <2>1. txs' = txs
    BY <1>9 DEF RD!readContracts, RD!chain
  <2>2. CASE ~RD!fails(t)
    <3>1. PICK d, h, b, A : RD!goes(t, [page[t] EXCEPT !.pc = "decide", !.need = d, !.had = h, !.touched = b, !.approve = A])
      BY <1>9, <2>2 DEF RD!readContracts
    <3>2. PICK e : /\ e = [page[t] EXCEPT !.pc = "decide", !.need = d, !.had = h, !.touched = b, !.approve = A]
                   /\ page' = [page EXCEPT ![t] = e]
      BY <3>1 DEF RD!goes
    <3>3. e.tx = page[t].tx
      BY <1>0, <3>2 DEF Screen
    <3> QED BY <1>1, <1>3, <2>1, <3>2, <3>3
  <2> QED BY <1>2, <1>3, <2>1, <2>2
<1>10. ASSUME NEW t \in DecisionTabs, NEW x, NEW k, RD!send(t, x, k) PROVE Listed'
  <2>1. CASE txs' = txs
    <3>1. RD!fails(t) \/ RD!goes(t, [page[t] EXCEPT !.pc = k, !.tx = Len(txs')])
      BY <1>10 DEF RD!send
    <3>2. CASE RD!goes(t, [page[t] EXCEPT !.pc = k, !.tx = Len(txs')])
      <4>1. PICK n, e : n = Len(txs') /\ e = [page[t] EXCEPT !.pc = k, !.tx = n] /\ page' = [page EXCEPT ![t] = e]
        BY <3>2 DEF RD!goes
      <4>2. e.tx = n
        BY <1>0, <4>1 DEF Screen
      <4> QED BY <1>1, <1>3, <2>1, <4>1, <4>2
    <3> QED BY <1>2, <1>3, <2>1, <3>1, <3>2
  <2>2. CASE txs' = Append(txs, x)
    <3>1. Len(txs) <= Len(txs')
      BY <1>0, <2>2 DEF DecisionInv
    <3>2. CASE RD!goes(t, [page[t] EXCEPT !.pc = k, !.tx = Len(txs')])
      <4>1. PICK n, e : n = Len(txs') /\ e = [page[t] EXCEPT !.pc = k, !.tx = n] /\ page' = [page EXCEPT ![t] = e]
        BY <3>2 DEF RD!goes
      <4>2. e.tx = n
        BY <1>0, <4>1 DEF Screen
      <4> QED BY <1>1, <3>1, <4>1, <4>2
    <3> QED BY <1>2, <1>10, <3>1, <3>2 DEF RD!send
  <2> QED BY <1>10, <2>1, <2>2 DEF RD!send
<1>11. ASSUME NEW t \in DecisionTabs, RD!approve(t) \/ RD!decideRuleSetOnchain(t) PROVE Listed'
  BY <1>10, <1>11 DEF RD!approve, RD!decideRuleSetOnchain
<1>12. ASSUME NEW t \in DecisionTabs, RD!waitForTransactionReceipt(t) PROVE Listed'
  <2>1. txs' = txs
    BY <1>12 DEF RD!waitForTransactionReceipt, RD!chain
  <2>2. CASE ~RD!fails(t)
    <3>1. txs[page[t].tx].ok \in BOOLEAN
      <4>1. page[t].tx \in DOMAIN txs
        BY <1>12, ScreenOf DEF RD!waitForTransactionReceipt, ScreenOK, Sent
      <4> QED BY <4>1, MovesOf DEF Move
    <3>2. \/ \E x : RD!goes(t, [page[t] EXCEPT !.pc = "decide", !.approve = x])
          \/ RD!goes(t, [page[t] EXCEPT !.pc = "register"])
      BY <1>12, <2>2, <3>1 DEF RD!waitForTransactionReceipt
    <3> QED BY <1>6, <1>7, <2>1, <3>2
  <2> QED BY <1>2, <1>3, <2>1, <2>2
<1>13. ASSUME NEW t \in DecisionTabs, RD!registerVaultTx(t) PROVE Listed'
  <2>1. txs' = txs /\ (RD!fails(t) \/ RD!goes(t, [RD!Idle EXCEPT !.vault = page[t].vault]))
    BY <1>13 DEF RD!registerVaultTx, RD!chain
  <2>2. CASE RD!goes(t, [RD!Idle EXCEPT !.vault = page[t].vault])
    <3>1. PICK e : e = [RD!Idle EXCEPT !.vault = page[t].vault] /\ page' = [page EXCEPT ![t] = e]
      BY <2>2 DEF RD!goes
    <3>2. e.tx = 0
      BY <1>0, <3>1 DEF Screen
    <3> QED BY <1>1, <1>3, <2>1, <3>1, <3>2
  <2> QED BY <1>2, <1>3, <2>1, <2>2
<1>14. ASSUME NEW t \in DecisionTabs, RD!reload(t) PROVE Listed'
  BY <1>0, <1>1, <1>3, <1>14 DEF RD!reload, RD!goes, RD!chain
<1>15. ASSUME NEW f \in Nat, page' = RD!touchPages(f), Len(txs') = Len(txs) PROVE Listed'
  BY <1>15, TouchedPages DEF Listed
<1>16. CASE RD!mine
  <2>1. /\ txs[mined + 1].flow \in Nat /\ page' = RD!touchPages(txs[mined + 1].flow) /\ mined + 1 \in Nat
        /\ mined + 1 \in DOMAIN txs /\ RD!succeeds(txs[mined + 1]) \in BOOLEAN
        /\ txs' = [RD!touchTxs(txs[mined + 1].flow) EXCEPT ![mined + 1].ok = RD!succeeds(txs[mined + 1])]
    BY <1>16, NextMined, MovesOf
  <2>2. Len(txs') = Len(txs)
    BY <2>1, TouchedMoves
  <2> QED BY <1>15, <2>1, <2>2
<1>17. CASE RD!reprice
  <2>1. page' = RD!touchPages(0) /\ txs' = RD!touchTxs(0)
    BY <1>17 DEF RD!reprice
  <2>2. Len(txs') = Len(txs)
    BY <2>1, TouchedMoves
  <2> QED BY <1>15, <2>1, <2>2
<1>18. CASE UNCHANGED RD!vars
  BY <1>18 DEF RD!vars, RD!chain, Listed
<1> QED BY <1>4, <1>5, <1>8, <1>9, <1>11, <1>12, <1>13, <1>14, <1>16, <1>17, <1>18 DEF RD!Next, RD!step

(* What a tab or a transaction names exists. *)
THEOREM DecisionIsTyped == ASSUME RD!RuleDecisionAssumption PROVE DecisionSpec => []RD!TypeOK
<1>1. RD!Init => Bounded /\ Listed
  <2> SUFFICES ASSUME RD!Init PROVE Bounded /\ Listed
    OBVIOUS
  <2>1. txs = <<>> /\ \A t \in DecisionTabs : page[t] = RD!Idle
    BY DEF RD!Init
  <2>2. Len(txs) = 0 /\ RD!Idle.tx = 0
    BY <2>1 DEF RD!Idle
  <2>3. Listed
    <3> HIDE DEF RD!Idle
    <3> QED BY <2>1, <2>2 DEF Listed
  <2> QED BY <2>3 DEF RD!Init, Bounded, RD!RuleDecisionAssumption
<1>2. Bounded /\ [RD!Next]_RD!vars => Bounded'
  BY BoundsAreKept
<1>3. DecisionInv /\ DecisionInv' /\ Listed /\ [RD!Next]_RD!vars => Listed'
  BY ListIsKept
<1>4. DecisionInv /\ Bounded /\ Listed => RD!TypeOK
  <2> SUFFICES ASSUME DecisionInv, Bounded, Listed PROVE RD!TypeOK
    OBVIOUS
  <2>1. \A i \in DOMAIN txs : txs[i].vault \in Vaults /\ txs[i].kind \in RD!Uses \cup {"accept", "reject"}
    BY MovesOf DEF Move, Verdicts
  <2>2. ASSUME NEW t \in DecisionTabs PROVE page[t].vault \in Vaults \cup {RD!NoVault} /\ page[t].tx \in 0 .. Len(txs)
    <3>1. page[t] \in Screen
      BY ScreenOf
    <3>2. page[t].tx <= Len(txs) /\ Len(txs) \in Nat
      BY MovesOf DEF Listed
    <3> QED BY <3>1, <3>2 DEF Screen
  <2> QED BY <2>1, <2>2 DEF RD!TypeOK, Bounded, DecisionInv
<1> QED BY <1>1, <1>2, <1>3, <1>4, DecisionHolds, PTL DEF DecisionSpec

-----------------------------------------------------------------------------
(* The wallet that is shown.  The page listens to the best provider, and   *)
(* is told of all that it would answer: unless a notice is on its way, the *)
(* call that began last has heard no more than what still holds, and so    *)
(* what it writes is what the provider would answer now.                   *)
Asking == {"accounts", "chain", "balance"}
Notice == [provider : Providers, kind : {"accounts", "chain"}, account : Accounts \cup {NoAccount}]
Answers == [account : Accounts \cup {NoAccount}, chain : Chains]
Shown == [address : Accounts \cup {NoAccount}, chainId : Chains \cup {0}, isConnected : BOOLEAN, isConnecting : BOOLEAN]

(* A finite set of providers has a best one. *)
LEMMA BestOf ==
  ASSUME CW!ConnectedWalletAssumption, NEW F \in SUBSET Providers, F # {}
  PROVE  /\ CW!getInjectedEthereumProvider(F) \in F
         /\ \A q \in F : providerScore[q] <= providerScore[CW!getInjectedEthereumProvider(F)]
<1> DEFINE Better(p) == {q \in F : providerScore[q] > providerScore[p]}
           Sets == {Better(p) : p \in F}
<1>1. \A p \in F : providerScore[p] \in Nat
  BY DEF CW!ConnectedWalletAssumption
<1>2. IsFiniteSet(F)
  BY FS_Subset DEF CW!ConnectedWalletAssumption, CW!IsFiniteSet, IsFiniteSet
<1>3. \A p \in F : IsFiniteSet(Better(p)) /\ Better(p) \subseteq F
  BY <1>2, FS_Subset
<1>4. Sets \subseteq FiniteSubsetsOf(F) /\ Sets # {}
  BY <1>3 DEF FiniteSubsetsOf
<1>5. PICK S \in Sets : \A T \in Sets : ~(<<T, S>> \in StrictSubsetOrdering(F))
  <2> HIDE DEF Sets
  <2> QED BY <1>4, FS_StrictSubsetOrderingWellFounded, WFMin
<1>6. PICK p \in F : S = Better(p)
  OBVIOUS
<1>7. ASSUME NEW q \in F, providerScore[q] > providerScore[p] PROVE FALSE
  <2>1. Better(q) \subseteq Better(p) /\ q \in Better(p) /\ q \notin Better(q)
    BY <1>1, <1>7
  <2>2. Better(q) \in Sets /\ Better(p) \in Sets /\ Better(p) \subseteq F /\ Better(q) \subseteq F /\ Better(q) # Better(p)
    BY <2>1
  <2>3. <<Better(q), Better(p)>> \in StrictSubsetOrdering(F)
    BY <2>1, <2>2 DEF StrictSubsetOrdering
  <2> QED BY <2>2, <2>3, <1>5, <1>6
<1>8. p \in F /\ \A q \in F : providerScore[q] <= providerScore[p]
  BY <1>1, <1>7
<1>9. CW!getInjectedEthereumProvider(F) = CHOOSE r \in F : \A q \in F : providerScore[q] <= providerScore[r]
  BY DEF CW!getInjectedEthereumProvider
<1> HIDE DEF Better, Sets
<1> QED BY <1>8, <1>9

(* A provider that none beats is the best: scores have no ties. *)
LEMMA BestIs ==
  ASSUME CW!ConnectedWalletAssumption, NEW F \in SUBSET Providers,
         NEW p \in F, \A q \in F : providerScore[q] <= providerScore[p]
  PROVE  CW!getInjectedEthereumProvider(F) = p
<1> DEFINE b == CW!getInjectedEthereumProvider(F)
<1>1. b \in F /\ providerScore[p] <= providerScore[b] /\ providerScore[b] <= providerScore[p]
  BY BestOf
<1>2. providerScore[p] = providerScore[b] /\ b \in Providers /\ p \in Providers
  BY <1>1 DEF CW!ConnectedWalletAssumption
<1> QED BY <1>2 DEF CW!ConnectedWalletAssumption

LEMMA NoneIsBest == CW!getInjectedEthereumProvider({}) = NoProvider
  BY DEF CW!getInjectedEthereumProvider

-----------------------------------------------------------------------------
ListenInv ==
    /\ silent \subseteq Providers /\ present \subseteq Providers
    /\ attached \in present \cup {NoProvider}
    /\ attached = NoProvider => present \subseteq silent
    /\ listening = {attached} \ {NoProvider}
    /\ \A p \in present \ silent : providerScore[p] <= providerScore[attached]
    /\ silent = {} => attached = CW!getInjectedEthereumProvider(present)

LEMMA ListenAtFirst ==
  ASSUME CW!ConnectedWalletAssumption, CW!Init PROVE ListenInv
<1>1. present \subseteq silent /\ silent \subseteq Providers /\ present \subseteq Providers
  BY DEF CW!Init, CW!ConnectedWalletAssumption
<1>2. attached = CW!getInjectedEthereumProvider(present) /\ listening = {attached} \ {NoProvider}
  BY DEF CW!Init
<1>3. attached \in present \cup {NoProvider}
  <2>1. CASE present = {}
    BY <2>1, <1>2, NoneIsBest
  <2>2. CASE present # {}
    BY <2>2, <1>1, <1>2, BestOf
  <2> QED BY <2>1, <2>2
<1> QED BY <1>1, <1>2, <1>3 DEF ListenInv

(* Which providers announce themselves is never changed. *)
LEMMA SilentStays == ASSUME [CW!Next]_CW!vars PROVE silent' = silent
<1>1. ASSUME NEW i \in DOMAIN asked, CW!step(i) PROVE silent' = silent
  BY <1>1 DEF CW!step, CW!waitForInjectedEthereumProvider, CW!answerAccounts, CW!answerChain,
     CW!answerBalance, CW!fail, CW!world
<1> QED BY <1>1 DEF CW!Next, CW!announceProvider, CW!inject, CW!switchNetwork,
   CW!handleAccountsChanged, CW!connect, CW!vars

(* What announces itself is heard of, and the best one known is attached. *)
LEMMA BestIsAttached ==
  ASSUME CW!ConnectedWalletAssumption, ListenInv, NEW p \in Providers, CW!announceProvider(p)
  PROVE  /\ p \notin present /\ present' = present \cup {p} /\ present' \subseteq Providers
         /\ attached' = CW!getInjectedEthereumProvider(present') /\ attached' \in present' /\ attached' # NoProvider
         /\ listening' = {attached'}
         /\ \A q \in present' : providerScore[q] <= providerScore[attached']
         /\ IF attached' = attached THEN asked' = asked
            ELSE asked' = Append(asked, CW!newCall("fetch", "accounts", attached'))
<1> DEFINE b == CW!getInjectedEthereumProvider(present')
<1>1. p \notin present /\ present' = present \cup {p} /\ present' \subseteq Providers /\ present' # {}
  BY DEF CW!announceProvider, ListenInv
<1>2. b \in present' /\ \A q \in present' : providerScore[q] <= providerScore[b]
  BY <1>1, BestOf
<1>3. b # NoProvider
  BY <1>1, <1>2 DEF CW!ConnectedWalletAssumption
<1>4. CW!handleProvider(p) = b
  BY <1>1 DEF CW!handleProvider
<1>5. CW!attachProvider(b, present')
  BY <1>4 DEF CW!announceProvider
<1>6. listening = {attached} \ {NoProvider}
  BY DEF ListenInv
<1>7. CASE b = attached
  <2>1. attached' = attached /\ listening' = listening /\ asked' = asked
    BY <1>5, <1>7 DEF CW!attachProvider
  <2> QED BY <1>1, <1>2, <1>3, <1>6, <1>7, <2>1
<1>8. CASE b # attached
  <2>1. attached' = b /\ listening' = CW!detachProvider(listening) \cup {b} /\ asked' = CW!fetchAccountInfo(present')
    BY <1>5, <1>8, <1>3 DEF CW!attachProvider
  <2>2. listening' = {b}
    BY <2>1, <1>6 DEF CW!detachProvider
  <2>3. asked' = Append(asked, CW!newCall("fetch", "accounts", b))
    BY <2>1 DEF CW!fetchAccountInfo
  <2> QED BY <1>1, <1>2, <1>3, <1>8, <2>1, <2>2, <2>3
<1> QED BY <1>7, <1>8

LEMMA ListenIsKept ==
  ASSUME CW!ConnectedWalletAssumption, ListenInv, [CW!Next]_CW!vars PROVE ListenInv'
<1>0. silent' = silent
  BY SilentStays
<1>1. ASSUME present' = present, attached' = attached, listening' = listening PROVE ListenInv'
  BY <1>0, <1>1 DEF ListenInv
<1>2. ASSUME NEW p \in Providers, CW!announceProvider(p) PROVE ListenInv'
  <2>1. /\ present' \subseteq Providers /\ attached' = CW!getInjectedEthereumProvider(present')
        /\ attached' \in present' /\ attached' # NoProvider /\ listening' = {attached'}
        /\ \A q \in present' : providerScore[q] <= providerScore[attached']
    BY <1>2, BestIsAttached
  <2> QED BY <1>0, <2>1 DEF ListenInv
<1>3. ASSUME NEW p \in Providers, CW!inject(p) PROVE ListenInv'
  <2>1. /\ p \in silent /\ present' = present \cup {p} /\ attached' = attached /\ listening' = listening
        /\ silent # {} /\ silent \subseteq Providers
    BY <1>3 DEF CW!inject, ListenInv
  <2>2. present' \ silent = present \ silent
    BY <2>1
  <2> QED BY <1>0, <2>1, <2>2 DEF ListenInv
<1>4. ASSUME NEW p \in Providers, CW!switchNetwork(p) PROVE ListenInv'
  BY <1>1, <1>4 DEF CW!switchNetwork
<1>5. ASSUME CW!handleAccountsChanged PROVE ListenInv'
  BY <1>1, <1>5 DEF CW!handleAccountsChanged
<1>6. ASSUME CW!connect PROVE ListenInv'
  BY <1>1, <1>6 DEF CW!connect
<1>7. ASSUME NEW i \in DOMAIN asked, CW!step(i) PROVE ListenInv'
  <2>1. present' = present /\ attached' = attached /\ listening' = listening
    BY <1>7 DEF CW!step, CW!waitForInjectedEthereumProvider, CW!answerAccounts, CW!answerChain,
       CW!answerBalance, CW!fail, CW!world
  <2> QED BY <2>1, <1>1
<1>8. ASSUME UNCHANGED CW!vars PROVE ListenInv'
  BY <1>1, <1>8 DEF CW!vars
<1> QED BY <1>2, <1>3, <1>4, <1>5, <1>6, <1>7, <1>8 DEF CW!Next

(* The page listens to one provider at a time, the best of those that have *)
(* announced themselves, whatever their number and the order they turn up  *)
(* in.  [Wallet.tsx, attachProvider; injected.ts,                          *)
(* subscribeToInjectedWalletProviders] *)
THEOREM AlwaysListensToTheBest ==
  ASSUME CW!ConnectedWalletAssumption PROVE WalletSpec => []CW!ListensToTheBest
<1>1. CW!Init => ListenInv
  BY ListenAtFirst
<1>2. ListenInv /\ [CW!Next]_CW!vars => ListenInv'
  BY ListenIsKept
<1>3. ListenInv => CW!ListensToTheBest
  BY DEF ListenInv, CW!ListensToTheBest, CW!best
<1> QED BY <1>1, <1>2, <1>3, PTL DEF WalletSpec

-----------------------------------------------------------------------------
(* A request is made of a provider that is there, a notice comes from one. *)
CallOK(c, P) ==
    /\ c.pc \in Asking => c.provider \in P
    /\ c.pc = "balance" => c.account # NoAccount

WalletInv ==
    /\ CW!TypeOK
    /\ \A i \in DOMAIN asked : CallOK(asked[i], present)
    /\ \A k \in DOMAIN notices : notices[k].provider \in present

LEMMA CallsOf ==
  ASSUME WalletInv
  PROVE  /\ asked \in Seq(CW!Call) /\ Len(asked) \in Nat /\ DOMAIN asked = 1 .. Len(asked)
         /\ applied \in Nat /\ applied <= Len(asked)
         /\ \A i \in DOMAIN asked : asked[i] \in CW!Call
<1>1. asked \in Seq(CW!Call)
  BY DEF WalletInv, CW!TypeOK
<1>2. Len(asked) \in Nat /\ DOMAIN asked = 1 .. Len(asked)
  BY <1>1, LenProperties
<1>3. \A i \in DOMAIN asked : asked[i] \in CW!Call
  BY <1>1, <1>2, ElementOfSeq
<1> QED BY <1>1, <1>2, <1>3 DEF WalletInv, CW!TypeOK

LEMMA EventsOf ==
  ASSUME WalletInv
  PROVE  /\ notices \in Seq(Notice) /\ Len(notices) \in Nat /\ DOMAIN notices = 1 .. Len(notices)
         /\ \A k \in DOMAIN notices : notices[k] \in Notice
<1>1. notices \in Seq(Notice)
  BY DEF WalletInv, CW!TypeOK, Notice
<1>2. Len(notices) \in Nat /\ DOMAIN notices = 1 .. Len(notices)
  BY <1>1, LenProperties
<1> QED BY <1>1, <1>2, ElementOfSeq

LEMMA NewCallIs ==
  ASSUME NEW k \in {"fetch", "connect", "disconnect"}, NEW pc \in {"find", "accounts", "chain", "balance", "done"},
         NEW p \in Providers \cup {NoProvider}
  PROVE  /\ CW!newCall(k, pc, p) \in CW!Call /\ CW!newCall(k, pc, p).pc = pc /\ CW!newCall(k, pc, p).provider = p
         /\ CW!newCall(k, pc, p).kind = k
  BY DEF CW!newCall, CW!Call

(* A call begins, or one goes on. *)
LEMMA CallBegins ==
  ASSUME WalletInv, NEW c \in CW!Call, asked' = Append(asked, c), CallOK(c, present'), present \subseteq present'
  PROVE  /\ asked' \in Seq(CW!Call) /\ Len(asked') = Len(asked) + 1 /\ DOMAIN asked' = 1 .. Len(asked) + 1
         /\ asked'[Len(asked')] = c /\ \A i \in DOMAIN asked : asked'[i] = asked[i]
         /\ \A i \in DOMAIN asked' : CallOK(asked'[i], present')
<1>1. asked \in Seq(CW!Call) /\ Len(asked) \in Nat /\ DOMAIN asked = 1 .. Len(asked)
  BY CallsOf
<1>2. /\ asked' \in Seq(CW!Call) /\ Len(asked') = Len(asked) + 1
      /\ (\A i \in 1 .. Len(asked) : asked'[i] = asked[i]) /\ asked'[Len(asked) + 1] = c
  BY <1>1, AppendProperties
<1>3. DOMAIN asked' = 1 .. Len(asked')
  BY <1>2, LenProperties
<1>4. ASSUME NEW i \in DOMAIN asked' PROVE CallOK(asked'[i], present')
  <2>1. CASE i \in DOMAIN asked
    <3>1. asked'[i] = asked[i] /\ CallOK(asked[i], present)
      BY <2>1, <1>1, <1>2 DEF WalletInv
    <3> QED BY <3>1 DEF CallOK
  <2>2. CASE i \notin DOMAIN asked
    <3>1. i = Len(asked) + 1
      BY <2>2, <1>1, <1>2, <1>3
    <3> QED BY <3>1, <1>2
  <2> QED BY <2>1, <2>2
<1> QED BY <1>1, <1>2, <1>3, <1>4

LEMMA RequestGoesOn ==
  ASSUME WalletInv, NEW i \in DOMAIN asked, NEW c \in CW!Call, CW!goes(i, c), CallOK(c, present), present' = present
  PROVE  /\ asked' \in Seq(CW!Call) /\ Len(asked') = Len(asked) /\ DOMAIN asked' = DOMAIN asked
         /\ asked'[i] = c /\ \A j \in DOMAIN asked : j # i => asked'[j] = asked[j]
         /\ \A j \in DOMAIN asked' : CallOK(asked'[j], present')
<1>1. asked \in Seq(CW!Call) /\ Len(asked) \in Nat /\ DOMAIN asked = 1 .. Len(asked)
  BY CallsOf
<1>2. /\ asked' \in Seq(CW!Call) /\ Len(asked') = Len(asked)
      /\ \A j \in 1 .. Len(asked) : asked'[j] = IF j = i THEN c ELSE asked[j]
  BY <1>1, ExceptSeq DEF CW!goes
<1>3. DOMAIN asked' = DOMAIN asked
  BY <1>1, <1>2, LenProperties
<1>4. \A j \in DOMAIN asked : CallOK(asked[j], present)
  BY DEF WalletInv
<1>5. \A j \in DOMAIN asked' : CallOK(asked'[j], present')
  BY <1>1, <1>2, <1>3, <1>4
<1> QED BY <1>1, <1>2, <1>3, <1>5

(* What a provider would answer changes; the page is told if it listens. *)
LEMMA WalletChanges ==
  ASSUME WalletInv, ListenInv, NEW p \in Providers, NEW w \in Answers, NEW k \in {"accounts", "chain"},
         CW!changes_(p, w, k), present' = present
  PROVE  /\ wallet' \in [Providers -> Answers] /\ wallet'[p] = w
         /\ \A q \in Providers : q # p => wallet'[q] = wallet[q]
         /\ notices' \in Seq(Notice) /\ \A n \in DOMAIN notices' : notices'[n].provider \in present'
         /\ \/ notices' = notices /\ (p \in listening => w = wallet[p])
            \/ /\ p \in listening /\ Len(notices') = Len(notices) + 1 /\ DOMAIN notices' = 1 .. Len(notices) + 1
               /\ notices'[Len(notices) + 1].provider = p /\ notices'[Len(notices) + 1].account = w.account
               /\ \A n \in DOMAIN notices : notices'[n] = notices[n]
<1>1. wallet \in [Providers -> Answers]
  BY DEF WalletInv, CW!TypeOK, Answers
<1>2. /\ wallet' \in [Providers -> Answers] /\ wallet'[p] = w
      /\ \A q \in Providers : q # p => wallet'[q] = wallet[q]
  BY <1>1 DEF CW!changes_
<1>3. /\ notices \in Seq(Notice) /\ Len(notices) \in Nat /\ DOMAIN notices = 1 .. Len(notices)
      /\ \A n \in DOMAIN notices : notices[n].provider \in present
  BY EventsOf DEF WalletInv
<1>4. CASE p \in listening /\ w # wallet[p]
  <2>1. PICK e : e = [provider |-> p, kind |-> k, account |-> w.account] /\ notices' = Append(notices, e)
    BY <1>4 DEF CW!changes_
  <2>2. e \in Notice /\ e.provider = p /\ e.account = w.account
    BY <2>1 DEF Notice, Answers
  <2>3. /\ notices' \in Seq(Notice) /\ Len(notices') = Len(notices) + 1
        /\ (\A n \in 1 .. Len(notices) : notices'[n] = notices[n]) /\ notices'[Len(notices) + 1] = e
    BY <1>3, <2>1, <2>2, AppendProperties
  <2>4. DOMAIN notices' = 1 .. Len(notices) + 1
    BY <2>3, LenProperties
  <2>5. p \in present
    <3>1. p = attached /\ p # NoProvider
      BY <1>4 DEF ListenInv
    <3> QED BY <3>1 DEF ListenInv
  <2>6. ASSUME NEW n \in DOMAIN notices' PROVE notices'[n].provider \in present'
    <3>1. CASE n \in DOMAIN notices
      BY <3>1, <1>3, <2>3
    <3>2. CASE n \notin DOMAIN notices
      <4>1. n = Len(notices) + 1
        BY <3>2, <1>3, <2>4
      <4> QED BY <4>1, <2>2, <2>3, <2>5
    <3> QED BY <3>1, <3>2
  <2> QED BY <1>2, <1>3, <1>4, <2>2, <2>3, <2>4, <2>6
<1>5. CASE ~(p \in listening /\ w # wallet[p])
  <2>1. notices' = notices
    BY <1>5 DEF CW!changes_
  <2> QED BY <1>2, <1>3, <1>5, <2>1
<1> QED BY <1>4, <1>5

LEMMA DoneIs ==
  ASSUME WalletInv, NEW i \in DOMAIN asked, CW!ends(i)
  PROVE  \E d \in CW!Call : CW!goes(i, d) /\ d.pc = "done" /\ CallOK(d, present)
<1>1. asked[i].kind \in {"fetch", "connect", "disconnect"}
  BY CallsOf DEF CW!Call
<1>2. PICK d : d = CW!newCall(asked[i].kind, "done", NoProvider)
  OBVIOUS
<1>3. d \in CW!Call /\ d.pc = "done"
  BY <1>1, <1>2, NewCallIs
<1>4. CW!goes(i, d) /\ CallOK(d, present)
  BY <1>2, <1>3 DEF CW!ends, CallOK, Asking
<1> QED BY <1>3, <1>4

(* What a step of a call does to the call and to what is shown. *)
LEMMA CallSteps ==
  ASSUME CW!ConnectedWalletAssumption, WalletInv, ListenInv, NEW i \in DOMAIN asked, CW!step(i)
  PROVE  /\ UNCHANGED <<present, attached, listening, changes, connects>>
         /\ shown' \in Shown
         /\ \/ UNCHANGED <<wallet, notices>>
            \/ \E w \in Answers : CW!changes_(asked[i].provider, w, "accounts") /\ asked[i].provider \in Providers
         /\ \E d \in CW!Call :
               /\ CW!goes(i, d) /\ CallOK(d, present)
               /\ \/ /\ d.pc = "done" /\ applied' = applied /\ shown' \in {shown, [shown EXCEPT !.isConnecting = FALSE]}
                     /\ asked[i].pc \in Asking
                  \/ d.pc = "done" /\ applied' = i /\ present = {} /\ asked[i].pc = "find"
                  \/ /\ d.pc = "accounts" /\ d.provider = CW!getInjectedEthereumProvider(present) /\ applied' = applied
                     /\ asked[i].pc = "find"
                  \/ /\ asked[i].pc = "accounts" /\ d.pc = "chain" /\ d.provider = asked[i].provider
                     /\ d.account = wallet'[d.provider].account /\ applied' = applied
                  \/ /\ asked[i].pc = "chain" /\ d.pc = "balance" /\ d.provider = asked[i].provider
                     /\ d.account = asked[i].account /\ d.chain = wallet[d.provider].chain /\ applied' = applied
                  \/ /\ asked[i].pc = "chain" /\ d.pc = "done" /\ applied' = i /\ asked[i].account = NoAccount
                     /\ shown'.address = NoAccount /\ shown'.isConnected = FALSE
                  \/ /\ asked[i].pc = "balance" /\ d.pc = "done" /\ applied' = i /\ asked[i].account # NoAccount
                     /\ shown'.address = asked[i].account /\ shown'.chainId = asked[i].chain
                     /\ shown'.isConnected = TRUE
<1> DEFINE c == asked[i]
<1>1. c \in CW!Call /\ CallOK(c, present) /\ shown \in Shown /\ wallet \in [Providers -> Answers] /\ present \subseteq Providers
  BY CallsOf DEF WalletInv, CW!TypeOK, Shown, Answers
<1>2. [shown EXCEPT !.isConnecting = FALSE] \in Shown /\ [shown EXCEPT !.isConnecting = TRUE] \in Shown
  BY <1>1 DEF Shown
<1>3. c.pc \in Asking => c.provider \in present /\ c.provider \in Providers
  BY <1>1 DEF CallOK
<1>4. CASE CW!waitForInjectedEthereumProvider(i)
  <2> DEFINE p == CW!getInjectedEthereumProvider(present)
  <2>1. c.pc = "find" /\ UNCHANGED CW!world
    BY <1>4 DEF CW!waitForInjectedEthereumProvider
  <2>2. CASE present = {}
    <3>1. p = NoProvider
      BY <2>2, NoneIsBest
    <3>2. CW!ends(i) /\ shown' = [shown EXCEPT !.isConnecting = FALSE] /\ applied' = i
      BY <1>4, <3>1 DEF CW!waitForInjectedEthereumProvider, CW!writes
    <3>3. PICK d \in CW!Call : CW!goes(i, d) /\ d.pc = "done" /\ CallOK(d, present)
      BY <3>2, DoneIs
    <3> QED BY <2>1, <2>2, <3>2, <3>3, <1>2 DEF CW!world
  <2>3. CASE present # {}
    <3>1. p \in present /\ p \in Providers /\ p # NoProvider
      BY <2>3, <1>1, BestOf DEF CW!ConnectedWalletAssumption
    <3>2. PICK d : d = [c EXCEPT !.pc = "accounts", !.provider = p]
      OBVIOUS
    <3>3. CW!goes(i, d) /\ shown' = [shown EXCEPT !.isConnecting = TRUE] /\ applied' = applied
      BY <1>4, <3>1, <3>2 DEF CW!waitForInjectedEthereumProvider
    <3>4. d \in CW!Call /\ d.pc = "accounts" /\ d.provider = p
      BY <3>1, <3>2, <1>1 DEF CW!Call
    <3>5. CallOK(d, present)
      BY <3>1, <3>4 DEF CallOK
    <3> HIDE DEF p
    <3>6. d.provider = CW!getInjectedEthereumProvider(present)
      BY <3>4 DEF p
    <3> QED BY <2>1, <3>3, <3>4, <3>5, <3>6, <1>2 DEF CW!world
  <2> QED BY <2>2, <2>3
<1>5. CASE CW!answerAccounts(i)
  <2> DEFINE w == wallet[c.provider]
  <2>1. /\ c.pc = "accounts" /\ UNCHANGED <<present, attached, listening, shown, applied, changes, connects>>
        /\ c.provider \in Providers /\ c.provider \in present /\ w \in Answers
    BY <1>5, <1>1, <1>3 DEF CW!answerAccounts, Asking
  <2>2. ASSUME NEW a \in Accounts \cup {NoAccount}, NEW d, d = [c EXCEPT !.pc = "chain", !.account = a]
        PROVE  d \in CW!Call /\ d.pc = "chain" /\ d.provider = c.provider /\ d.account = a /\ CallOK(d, present)
    <3>1. d \in CW!Call /\ d.pc = "chain" /\ d.provider = c.provider /\ d.account = a
      BY <2>2, <1>1 DEF CW!Call
    <3> QED BY <3>1, <2>1 DEF CallOK
  <2>3. CASE c.kind = "connect" /\ w.account = NoAccount
    <3>1. PICK a \in Accounts : /\ CW!changes_(c.provider, [w EXCEPT !.account = a], "accounts")
                                /\ CW!goes(i, [c EXCEPT !.pc = "chain", !.account = a])
      BY <1>5, <2>3 DEF CW!answerAccounts
    <3>2. PICK x : x = [w EXCEPT !.account = a]
      OBVIOUS
    <3>3. x \in Answers /\ x.account = a
      BY <3>2, <2>1 DEF Answers
    <3>4. PICK d : d = [c EXCEPT !.pc = "chain", !.account = a]
      OBVIOUS
    <3>5. d \in CW!Call /\ d.pc = "chain" /\ d.provider = c.provider /\ d.account = a /\ CallOK(d, present)
      BY <2>2, <3>4
    <3>6. CW!goes(i, d) /\ CW!changes_(c.provider, x, "accounts")
      BY <3>1, <3>2, <3>4
    <3>7. wallet'[c.provider] = x
      BY <3>6, <1>1, <2>1 DEF CW!changes_
    <3> HIDE DEF w
    <3> QED BY <2>1, <3>3, <3>5, <3>6, <3>7, <1>1
  <2>4. CASE ~(c.kind = "connect" /\ w.account = NoAccount)
    <3>1. CW!goes(i, [c EXCEPT !.pc = "chain", !.account = w.account]) /\ UNCHANGED <<wallet, notices>>
      BY <1>5, <2>4 DEF CW!answerAccounts
    <3>2. PICK d : d = [c EXCEPT !.pc = "chain", !.account = w.account]
      OBVIOUS
    <3>3. w.account \in Accounts \cup {NoAccount}
      BY <2>1 DEF Answers
    <3>4. d \in CW!Call /\ d.pc = "chain" /\ d.provider = c.provider /\ d.account = w.account /\ CallOK(d, present)
      BY <2>2, <3>2, <3>3
    <3>5. CW!goes(i, d) /\ d.account = wallet'[d.provider].account
      BY <3>1, <3>2, <3>4
    <3> HIDE DEF w
    <3> QED BY <2>1, <3>1, <3>4, <3>5, <1>1
  <2> QED BY <2>3, <2>4
<1>6. CASE CW!answerChain(i)
  <2> DEFINE chain == wallet[c.provider].chain
  <2>1. /\ c.pc = "chain" /\ UNCHANGED CW!world
        /\ c.provider \in Providers /\ c.provider \in present /\ chain \in Chains
    BY <1>6, <1>1, <1>3 DEF CW!answerChain, Asking, Answers
  <2>2. CASE c.account = NoAccount
    <3>1. CW!ends(i) /\ shown' = [CW!defaultState EXCEPT !.chainId = chain] /\ applied' = i
      BY <1>6, <2>2 DEF CW!answerChain, CW!writes
    <3>2. shown' \in Shown /\ shown'.address = NoAccount /\ shown'.isConnected = FALSE
      BY <3>1, <2>1 DEF Shown, CW!defaultState
    <3>3. PICK d \in CW!Call : CW!goes(i, d) /\ d.pc = "done" /\ CallOK(d, present)
      BY <3>1, DoneIs
    <3> QED BY <2>1, <2>2, <3>1, <3>2, <3>3 DEF CW!world
  <2>3. CASE c.account # NoAccount
    <3>1. CW!goes(i, [c EXCEPT !.pc = "balance", !.chain = chain]) /\ UNCHANGED <<shown, applied>>
      BY <1>6, <2>3 DEF CW!answerChain
    <3>2. PICK d : d = [c EXCEPT !.pc = "balance", !.chain = chain]
      OBVIOUS
    <3>3. d \in CW!Call /\ d.pc = "balance" /\ d.provider = c.provider /\ d.account = c.account /\ d.chain = chain
      BY <3>2, <2>1, <1>1 DEF CW!Call
    <3>4. CallOK(d, present) /\ CW!goes(i, d) /\ d.chain = wallet[d.provider].chain
      BY <3>1, <3>2, <3>3, <2>1, <2>3 DEF CallOK
    <3> HIDE DEF chain
    <3> QED BY <2>1, <3>1, <3>3, <3>4, <1>1 DEF CW!world
  <2> QED BY <2>2, <2>3
<1>7. CASE CW!answerBalance(i)
  <2>1. c.pc = "balance" /\ CW!ends(i) /\ applied' = i /\ UNCHANGED CW!world
    BY <1>7 DEF CW!answerBalance, CW!writes
  <2>2. shown' = [address |-> c.account, chainId |-> c.chain, isConnected |-> TRUE, isConnecting |-> FALSE]
    BY <1>7 DEF CW!answerBalance, CW!writes
  <2>3. shown' \in Shown /\ shown'.address = c.account /\ shown'.chainId = c.chain /\ shown'.isConnected = TRUE
    BY <2>2, <1>1 DEF Shown, CW!Call
  <2>4. c.account # NoAccount
    BY <2>1, <1>1 DEF CallOK
  <2>5. PICK d \in CW!Call : CW!goes(i, d) /\ d.pc = "done" /\ CallOK(d, present)
    BY <2>1, DoneIs
  <2> QED BY <2>1, <2>3, <2>4, <2>5 DEF CW!world
<1>8. CASE CW!fail(i)
  <2>1. c.pc \in Asking /\ CW!ends(i) /\ shown' = CW!catch(c) /\ UNCHANGED CW!world /\ applied' = applied
    BY <1>8 DEF CW!fail, Asking
  <2>2. shown' \in {shown, [shown EXCEPT !.isConnecting = FALSE]}
    BY <2>1 DEF CW!catch
  <2>3. PICK d \in CW!Call : CW!goes(i, d) /\ d.pc = "done" /\ CallOK(d, present)
    BY <2>1, DoneIs
  <2> QED BY <2>1, <2>2, <2>3, <1>1, <1>2 DEF CW!world
<1> QED BY <1>4, <1>5, <1>6, <1>7, <1>8 DEF CW!step

(* What a notice that is heard does. *)
LEMMA NoticeHeard ==
  ASSUME CW!ConnectedWalletAssumption, WalletInv, ListenInv, CW!handleAccountsChanged
  PROVE  /\ UNCHANGED <<present, wallet, attached, listening, changes, connects>>
         /\ Len(notices) # 0 /\ notices' \in Seq(Notice) /\ Len(notices') = Len(notices) - 1 /\ DOMAIN notices' = 1 .. Len(notices) - 1
         /\ \A n \in DOMAIN notices' : notices'[n] = notices[n + 1]
         /\ \/ notices[1].provider \notin listening /\ UNCHANGED <<asked, shown, applied>>
            \/ /\ notices[1].provider \in listening /\ notices[1].account = NoAccount
               /\ \E c \in CW!Call : c.pc = "done" /\ asked' = Append(asked, c)
               /\ shown' = CW!defaultState /\ applied' = Len(asked')
            \/ /\ notices[1].provider \in listening /\ UNCHANGED <<shown, applied>>
               /\ CW!getInjectedEthereumProvider(present) \in present
               /\ asked' = Append(asked, CW!newCall("fetch", "accounts", CW!getInjectedEthereumProvider(present)))
<1>1. notices # <<>> /\ notices' = Tail(notices) /\ UNCHANGED <<present, wallet, attached, listening, changes, connects>>
  BY DEF CW!handleAccountsChanged
<1>2. notices \in Seq(Notice) /\ Len(notices) \in Nat
  BY EventsOf
<1>3. /\ notices' \in Seq(Notice) /\ Len(notices') = Len(notices) - 1
      /\ \A n \in 1 .. Len(notices') : notices'[n] = notices[n + 1]
  BY <1>1, <1>2, HeadTailProperties
<1>4. DOMAIN notices' = 1 .. Len(notices) - 1
  BY <1>3, LenProperties
<1>5. Len(notices) # 0
  BY <1>1, <1>2, EmptySeq
<1>6. PICK e : e = Head(notices)
  OBVIOUS
<1>7. e = notices[1]
  BY <1>6, <1>1, <1>2
<1>8. CASE e.provider \notin listening
  <2>1. UNCHANGED <<asked, shown, applied>>
    BY <1>6, <1>8 DEF CW!handleAccountsChanged
  <2> QED BY <1>1, <1>3, <1>4, <1>5, <1>7, <1>8, <2>1
<1>9. CASE e.provider \in listening /\ e.kind = "accounts" /\ e.account = NoAccount
  <2>1. CW!disconnect
    BY <1>6, <1>9 DEF CW!handleAccountsChanged
  <2>2. PICK c : c = CW!newCall("disconnect", "done", NoProvider)
    OBVIOUS
  <2>3. c \in CW!Call /\ c.pc = "done"
    BY <2>2, NewCallIs
  <2>4. asked' = Append(asked, c) /\ shown' = CW!defaultState /\ applied' = Len(asked')
    BY <2>1, <2>2 DEF CW!disconnect
  <2> QED BY <1>1, <1>3, <1>4, <1>5, <1>7, <1>9, <2>3, <2>4
<1>10. CASE e.provider \in listening /\ ~(e.kind = "accounts" /\ e.account = NoAccount)
  <2>1. CW!handleChainChanged
    BY <1>6, <1>10 DEF CW!handleAccountsChanged
  <2>2. /\ asked' = Append(asked, CW!newCall("fetch", "accounts", CW!getInjectedEthereumProvider(present)))
        /\ UNCHANGED <<shown, applied>>
    BY <2>1 DEF CW!handleChainChanged, CW!fetchAccountInfo
  <2>3. present # {} /\ present \in SUBSET Providers
    <3>1. e.provider = attached /\ e.provider # NoProvider
      BY <1>10 DEF ListenInv
    <3> QED BY <3>1 DEF ListenInv
  <2>4. CW!getInjectedEthereumProvider(present) \in present
    BY <2>3, BestOf
  <2> QED BY <1>1, <1>3, <1>4, <1>5, <1>7, <1>10, <2>2, <2>4
<1> QED BY <1>8, <1>9, <1>10

LEMMA WalletAtFirst ==
  ASSUME CW!ConnectedWalletAssumption, CW!Init PROVE WalletInv
<1>1. present \subseteq Providers /\ attached \in present \cup {NoProvider} /\ listening \subseteq Providers
  BY ListenAtFirst DEF ListenInv
<1>2. attached \in Providers \cup {NoProvider} /\ wallet \in [Providers -> [account : Accounts \cup {NoAccount}, chain : Chains]]
  BY <1>1 DEF CW!Init
<1>3. notices = <<>> /\ notices \in Seq(Notice) /\ DOMAIN notices = {}
  <2>1. notices = <<>>
    BY DEF CW!Init
  <2>2. notices \in Seq(Notice) /\ Len(notices) = 0
    BY <2>1, EmptySeq
  <2> QED BY <2>1, <2>2, LenProperties
<1>4. PICK c : c = CW!newCall("fetch", "accounts", attached)
  OBVIOUS
<1>5. c \in CW!Call /\ c.pc = "accounts" /\ c.provider = attached
  BY <1>2, <1>4, NewCallIs
<1>6. /\ asked \in Seq(CW!Call) /\ Len(asked) \in Nat
      /\ \A i \in DOMAIN asked : CallOK(asked[i], present)
  <2>1. CASE present = {}
    <3>1. asked = <<>>
      BY <2>1 DEF CW!Init
    <3>2. asked \in Seq(CW!Call) /\ Len(asked) = 0
      BY <3>1, EmptySeq
    <3>3. DOMAIN asked = {}
      BY <3>2, LenProperties
    <3> QED BY <3>2, <3>3
  <2>2. CASE present # {}
    <3>1. asked = <<c>>
      BY <2>2, <1>4 DEF CW!Init
    <3>2. asked \in Seq(CW!Call) /\ Len(asked) = 1 /\ DOMAIN asked = {1} /\ asked[1] = c
      BY <3>1, <1>5
    <3>3. attached \in present
      BY <2>2, <1>1, BestOf DEF CW!Init
    <3> QED BY <3>2, <3>3, <1>5 DEF CallOK
  <2> QED BY <2>1, <2>2
<1>7. applied = 0 /\ changes = 0 /\ connects = 0 /\ shown = CW!defaultState
  BY DEF CW!Init
<1>8. shown \in Shown
  BY <1>7 DEF Shown, CW!defaultState
<1>9. applied \in 0 .. Len(asked) /\ changes \in 0 .. MaxChanges /\ connects \in 0 .. MaxConnects
  BY <1>6, <1>7 DEF CW!ConnectedWalletAssumption
<1>10. CW!TypeOK
  <2>1. silent \subseteq Providers
    BY DEF CW!Init
  <2> QED BY <1>1, <1>2, <1>3, <1>6, <1>8, <1>9, <2>1 DEF CW!TypeOK, Notice, Shown
<1> QED BY <1>3, <1>6, <1>10 DEF WalletInv

LEMMA WalletIsKept ==
  ASSUME CW!ConnectedWalletAssumption, WalletInv, ListenInv, ListenInv', [CW!Next]_CW!vars
  PROVE  WalletInv'
<1>0. /\ present \subseteq Providers /\ present' \subseteq Providers /\ listening' \subseteq Providers
      /\ attached' \in Providers \cup {NoProvider} /\ silent' \subseteq Providers
  BY DEF ListenInv
<1>1. /\ wallet \in [Providers -> Answers] /\ notices \in Seq(Notice) /\ shown \in Shown
      /\ changes \in 0 .. MaxChanges /\ connects \in 0 .. MaxConnects
  BY DEF WalletInv, CW!TypeOK, Answers, Notice, Shown
<1>2. /\ asked \in Seq(CW!Call) /\ Len(asked) \in Nat /\ applied \in Nat /\ applied <= Len(asked)
      /\ (\A i \in DOMAIN asked : CallOK(asked[i], present)) /\ \A k \in DOMAIN notices : notices[k].provider \in present
  BY CallsOf DEF WalletInv
<1> DEFINE Right == /\ wallet' \in [Providers -> Answers] /\ notices' \in Seq(Notice) /\ shown' \in Shown
                    /\ asked' \in Seq(CW!Call) /\ applied' \in 0 .. Len(asked')
                    /\ changes' \in 0 .. MaxChanges /\ connects' \in 0 .. MaxConnects
                    /\ \A i \in DOMAIN asked' : CallOK(asked'[i], present')
                    /\ \A k \in DOMAIN notices' : notices'[k].provider \in present'
<1> SUFFICES Right
  BY <1>0 DEF WalletInv, CW!TypeOK, Answers, Notice, Shown
<1>3. ASSUME NEW p \in Providers, CW!announceProvider(p) PROVE Right
  <2>1. UNCHANGED <<wallet, notices, shown, applied, changes, connects>>
    BY <1>3 DEF CW!announceProvider
  <2>2. /\ present' = present \cup {p} /\ attached' \in present'
        /\ IF attached' = attached THEN asked' = asked
           ELSE asked' = Append(asked, CW!newCall("fetch", "accounts", attached'))
    BY <1>3, BestIsAttached
  <2>3. \A k \in DOMAIN notices' : notices'[k].provider \in present'
    BY <2>1, <2>2, <1>2
  <2>4. CASE asked' = asked
    <3>1. \A i \in DOMAIN asked' : CallOK(asked'[i], present')
      BY <2>2, <2>4, <1>2 DEF CallOK
    <3> QED BY <2>1, <2>3, <2>4, <3>1, <1>1, <1>2
  <2>5. CASE asked' # asked
    <3>1. PICK c : c = CW!newCall("fetch", "accounts", attached') /\ asked' = Append(asked, c)
      BY <2>2, <2>5
    <3>2. c \in CW!Call /\ c.pc = "accounts" /\ c.provider = attached'
      BY <3>1, <1>0, NewCallIs
    <3>3. CallOK(c, present') /\ present \subseteq present'
      BY <3>2, <2>2 DEF CallOK
    <3>4. asked' \in Seq(CW!Call) /\ Len(asked') = Len(asked) + 1 /\ \A i \in DOMAIN asked' : CallOK(asked'[i], present')
      BY <3>1, <3>2, <3>3, CallBegins
    <3> QED BY <2>1, <2>3, <3>4, <1>1, <1>2
  <2> QED BY <2>4, <2>5
<1>4. ASSUME NEW p \in Providers, CW!inject(p) PROVE Right
  <2>1. UNCHANGED <<wallet, notices, asked, shown, applied, changes, connects>> /\ present \subseteq present'
    BY <1>4 DEF CW!inject
  <2>2. (\A i \in DOMAIN asked' : CallOK(asked'[i], present')) /\ \A k \in DOMAIN notices' : notices'[k].provider \in present'
    BY <2>1, <1>2 DEF CallOK
  <2> QED BY <2>1, <2>2, <1>1, <1>2
<1>5. ASSUME NEW p \in Providers, CW!switchNetwork(p) PROVE Right
  <2>1. /\ UNCHANGED <<present, asked, shown, applied, connects>> /\ changes < MaxChanges /\ changes' = changes + 1
    BY <1>5 DEF CW!switchNetwork
  <2>2. PICK w \in Answers, k \in {"accounts", "chain"} : CW!changes_(p, w, k)
    <3>1. ASSUME NEW c \in Chains, CW!changes_(p, [wallet[p] EXCEPT !.chain = c], "chain")
          PROVE  \E w \in Answers, k \in {"accounts", "chain"} : CW!changes_(p, w, k)
      <4>1. [wallet[p] EXCEPT !.chain = c] \in Answers
        BY <1>1 DEF Answers
      <4> QED BY <3>1, <4>1
    <3>2. ASSUME NEW a \in Accounts \cup {NoAccount}, CW!changes_(p, [wallet[p] EXCEPT !.account = a], "accounts")
          PROVE  \E w \in Answers, k \in {"accounts", "chain"} : CW!changes_(p, w, k)
      <4>1. [wallet[p] EXCEPT !.account = a] \in Answers
        BY <1>1 DEF Answers
      <4> QED BY <3>2, <4>1
    <3> QED BY <1>5, <3>1, <3>2 DEF CW!switchNetwork
  <2>3. /\ wallet' \in [Providers -> Answers] /\ notices' \in Seq(Notice)
        /\ \A n \in DOMAIN notices' : notices'[n].provider \in present'
    BY <2>1, <2>2, WalletChanges
  <2>4. changes' \in 0 .. MaxChanges
    BY <2>1, <1>1 DEF CW!ConnectedWalletAssumption
  <2> QED BY <2>1, <2>3, <2>4, <1>1, <1>2
<1>6. ASSUME CW!handleAccountsChanged PROVE Right
  <2>1. /\ UNCHANGED <<present, wallet, attached, listening, changes, connects>>
        /\ notices' \in Seq(Notice) /\ DOMAIN notices' = 1 .. Len(notices) - 1
        /\ \A n \in DOMAIN notices' : notices'[n] = notices[n + 1]
    BY <1>6, NoticeHeard
  <2>2. Len(notices) \in Nat /\ DOMAIN notices = 1 .. Len(notices)
    BY EventsOf
  <2>3. \A n \in DOMAIN notices' : notices'[n].provider \in present'
    BY <2>1, <2>2, <1>2
  <2>4. \/ UNCHANGED <<asked, shown, applied>>
        \/ \E c \in CW!Call : CallOK(c, present') /\ asked' = Append(asked, c) /\ shown' \in Shown /\ applied' \in {applied, Len(asked')}
    <3>1. CW!defaultState \in Shown
      BY DEF Shown, CW!defaultState
    <3>2. ASSUME NEW c \in CW!Call, c.pc = "done", asked' = Append(asked, c), shown' = CW!defaultState, applied' = Len(asked')
          PROVE  \E d \in CW!Call : CallOK(d, present') /\ asked' = Append(asked, d) /\ shown' \in Shown /\ applied' \in {applied, Len(asked')}
      BY <3>1, <3>2 DEF CallOK, Asking
    <3>3. ASSUME CW!getInjectedEthereumProvider(present) \in present, UNCHANGED <<shown, applied>>,
                 asked' = Append(asked, CW!newCall("fetch", "accounts", CW!getInjectedEthereumProvider(present)))
          PROVE  \E d \in CW!Call : CallOK(d, present') /\ asked' = Append(asked, d) /\ shown' \in Shown /\ applied' \in {applied, Len(asked')}
      <4>1. PICK d : d = CW!newCall("fetch", "accounts", CW!getInjectedEthereumProvider(present))
        OBVIOUS
      <4>2. d \in CW!Call /\ d.pc = "accounts" /\ d.provider \in present
        BY <3>3, <4>1, <1>0, NewCallIs
      <4>3. CallOK(d, present')
        BY <4>2, <2>1 DEF CallOK
      <4> QED BY <3>3, <4>1, <4>2, <4>3, <1>1
    <3> QED BY <3>2, <3>3, <1>6, NoticeHeard
  <2>5. CASE UNCHANGED <<asked, shown, applied>>
    BY <2>1, <2>3, <2>5, <1>1, <1>2
  <2>6. CASE \E c \in CW!Call : CallOK(c, present') /\ asked' = Append(asked, c) /\ shown' \in Shown /\ applied' \in {applied, Len(asked')}
    <3>1. PICK c \in CW!Call : CallOK(c, present') /\ asked' = Append(asked, c) /\ shown' \in Shown /\ applied' \in {applied, Len(asked')}
      BY <2>6
    <3>2. asked' \in Seq(CW!Call) /\ Len(asked') = Len(asked) + 1 /\ \A i \in DOMAIN asked' : CallOK(asked'[i], present')
      BY <3>1, <2>1, CallBegins
    <3> QED BY <2>1, <2>3, <3>1, <3>2, <1>1, <1>2
  <2> QED BY <2>4, <2>5, <2>6
<1>7. ASSUME CW!connect PROVE Right
  <2>1. /\ UNCHANGED <<present, wallet, notices, attached, listening, shown, applied, changes>>
        /\ connects < MaxConnects /\ connects' = connects + 1
    BY <1>7 DEF CW!connect
  <2>2. PICK c : c = CW!newCall("connect", "find", NoProvider) /\ asked' = Append(asked, c)
    BY <1>7 DEF CW!connect
  <2>3. c \in CW!Call /\ c.pc = "find"
    BY <2>2, NewCallIs
  <2>4. CallOK(c, present')
    BY <2>3 DEF CallOK, Asking
  <2>5. asked' \in Seq(CW!Call) /\ Len(asked') = Len(asked) + 1 /\ \A i \in DOMAIN asked' : CallOK(asked'[i], present')
    BY <2>1, <2>2, <2>3, <2>4, CallBegins
  <2>6. connects' \in 0 .. MaxConnects
    BY <2>1, <1>1 DEF CW!ConnectedWalletAssumption
  <2> QED BY <2>1, <2>5, <2>6, <1>1, <1>2
<1>8. ASSUME NEW i \in DOMAIN asked, CW!step(i) PROVE Right
  <2>1. UNCHANGED <<present, attached, listening, changes, connects>> /\ shown' \in Shown
    BY <1>8, CallSteps
  <2>2. /\ wallet' \in [Providers -> Answers] /\ notices' \in Seq(Notice)
        /\ \A n \in DOMAIN notices' : notices'[n].provider \in present'
    <3>1. CASE UNCHANGED <<wallet, notices>>
      BY <3>1, <2>1, <1>1, <1>2
    <3>2. CASE \E w \in Answers : CW!changes_(asked[i].provider, w, "accounts") /\ asked[i].provider \in Providers
      BY <3>2, <2>1, WalletChanges
    <3> QED BY <3>1, <3>2, <1>8, CallSteps
  <2>3. PICK d \in CW!Call : CW!goes(i, d) /\ CallOK(d, present) /\ applied' \in {applied, i}
    BY <1>8, CallSteps
  <2>4. asked' \in Seq(CW!Call) /\ Len(asked') = Len(asked) /\ \A j \in DOMAIN asked' : CallOK(asked'[j], present')
    BY <2>1, <2>3, RequestGoesOn
  <2>5. i \in 1 .. Len(asked)
    BY CallsOf
  <2> QED BY <2>1, <2>2, <2>3, <2>4, <2>5, <1>1, <1>2
<1>9. ASSUME UNCHANGED CW!vars PROVE Right
  BY <1>9, <1>1, <1>2 DEF CW!vars
<1> QED BY <1>3, <1>4, <1>5, <1>6, <1>7, <1>8, <1>9 DEF CW!Next

-----------------------------------------------------------------------------
Told == \E k \in DOMAIN notices : notices[k].provider = attached
LastTold ==
    \A k \in DOMAIN notices : notices[k].provider = attached =>
        \/ \E j \in DOMAIN notices : j > k /\ notices[j].provider = attached
        \/ notices[k].account = wallet[attached].account

(* Of a provider p that would answer w, the call c has heard no more than  *)
(* that, and what it has written, if it has, is that.                      *)
Heard(c, p, w, written, s) ==
    /\ c.pc \in Asking => c.provider = p
    /\ c.pc \in {"chain", "balance"} => c.account = w.account
    /\ c.pc = "balance" => c.chain = w.chain
    /\ c.pc = "done" /\ written =>
          /\ s.address = w.account
          /\ s.isConnected <=> w.account # NoAccount
          /\ s.isConnected => s.chainId = w.chain

CurrentInv ==
    /\ LastTold
    /\ applied # 0 => asked[applied].pc = "done"
    /\ attached # NoProvider =>
          /\ Len(asked) # 0
          /\ Told \/ Heard(asked[Len(asked)], attached, wallet[attached], applied = Len(asked), shown)

(* A call that writes nothing leaves what is shown, but for connecting. *)
LEMMA ShownStays ==
  ASSUME WalletInv, NEW i \in DOMAIN asked, CW!step(i)
  PROVE  \/ applied' = i
         \/ /\ applied' = applied /\ shown'.address = shown.address
            /\ shown'.chainId = shown.chainId /\ shown'.isConnected = shown.isConnected
<1>1. shown \in Shown
  BY DEF WalletInv, CW!TypeOK, Shown
<1>2. \A b : LET s == [shown EXCEPT !.isConnecting = b] IN
             s.address = shown.address /\ s.chainId = shown.chainId /\ s.isConnected = shown.isConnected
  BY <1>1 DEF Shown
<1>3. \/ applied' = i
      \/ applied' = applied /\ (shown' = shown \/ \E b : shown' = [shown EXCEPT !.isConnecting = b])
  <2>1. CASE CW!waitForInjectedEthereumProvider(i)
    BY <2>1 DEF CW!waitForInjectedEthereumProvider, CW!writes
  <2>2. CASE CW!answerAccounts(i)
    BY <2>2 DEF CW!answerAccounts
  <2>3. CASE CW!answerChain(i)
    BY <2>3 DEF CW!answerChain, CW!writes
  <2>4. CASE CW!answerBalance(i)
    BY <2>4 DEF CW!answerBalance, CW!writes
  <2>5. CASE CW!fail(i)
    BY <2>5 DEF CW!fail, CW!catch
  <2> QED BY <2>1, <2>2, <2>3, <2>4, <2>5 DEF CW!step
<1> QED BY <1>2, <1>3

(* The page is told of a change of what its provider would answer. *)
LEMMA ChangeIsTold ==
  ASSUME CW!ConnectedWalletAssumption, WalletInv, ListenInv, CurrentInv, attached # NoProvider,
         UNCHANGED <<present, attached>>,
         \/ UNCHANGED <<wallet, notices>>
         \/ \E p \in Providers, w \in Answers, k \in {"accounts", "chain"} : CW!changes_(p, w, k)
  PROVE  /\ LastTold'
         /\ Told => Told'
         /\ Told' \/ wallet'[attached] = wallet[attached]
<1>1. CASE UNCHANGED <<wallet, notices>>
  BY <1>1 DEF CurrentInv, LastTold, Told
<1>2. CASE \E p \in Providers, w \in Answers, k \in {"accounts", "chain"} : CW!changes_(p, w, k)
  <2>1. PICK p \in Providers, w \in Answers, k \in {"accounts", "chain"} : CW!changes_(p, w, k)
    BY <1>2
  <2>2. /\ wallet'[p] = w /\ \A q \in Providers : q # p => wallet'[q] = wallet[q]
        /\ \/ notices' = notices /\ (p \in listening => w = wallet[p])
           \/ /\ p \in listening /\ Len(notices') = Len(notices) + 1 /\ DOMAIN notices' = 1 .. Len(notices) + 1
              /\ notices'[Len(notices) + 1].provider = p /\ notices'[Len(notices) + 1].account = w.account
              /\ \A n \in DOMAIN notices : notices'[n] = notices[n]
    BY <2>1, WalletChanges
  <2>3. listening = {attached} /\ attached \in Providers
    BY DEF ListenInv
  <2>4. Len(notices) \in Nat /\ DOMAIN notices = 1 .. Len(notices)
    BY EventsOf
  <2>5. CASE notices' = notices /\ (p \in listening => w = wallet[p])
    <3>1. wallet'[attached] = wallet[attached]
      BY <2>2, <2>3, <2>5
    <3> QED BY <3>1, <2>5 DEF CurrentInv, LastTold, Told
  <2>6. CASE /\ p \in listening /\ DOMAIN notices' = 1 .. Len(notices) + 1
             /\ notices'[Len(notices) + 1].provider = p /\ notices'[Len(notices) + 1].account = w.account
             /\ \A n \in DOMAIN notices : notices'[n] = notices[n]
    <3>1. p = attached /\ Len(notices) + 1 \in DOMAIN notices'
      BY <2>3, <2>4, <2>6
    <3>2. Told'
      BY <3>1, <2>6 DEF Told
    <3>3. \A n \in DOMAIN notices' : n = Len(notices) + 1 \/ Len(notices) + 1 > n
      BY <2>4, <2>6
    <3>4. LastTold'
      BY <3>1, <3>3, <2>2, <2>6 DEF LastTold
    <3> QED BY <3>2, <3>4
  <2> QED BY <2>2, <2>5, <2>6
<1> QED BY <1>1, <1>2

LEMMA CurrentAtFirst ==
  ASSUME CW!ConnectedWalletAssumption, silent = {}, CW!Init PROVE CurrentInv
<1>1. present = {} /\ notices = <<>> /\ applied = 0
  BY DEF CW!Init
<1>2. attached = NoProvider
  BY <1>1, NoneIsBest DEF CW!Init
<1> QED BY <1>1, <1>2 DEF CurrentInv, LastTold

(* A call that has asked nothing yet has heard nothing. *)
LEMMA BeginsHeard ==
  ASSUME NEW c, NEW p, NEW w, NEW b, NEW s, c.pc = "find" \/ (c.pc = "accounts" /\ c.provider = p)
  PROVE  Heard(c, p, w, b, s)
  BY DEF Heard, Asking

LEMMA BeginKeepsCurrent ==
  ASSUME WalletInv, CurrentInv, NEW c \in CW!Call, asked' = Append(asked, c), CallOK(c, present'), present \subseteq present',
         LastTold', applied' = applied \/ (applied' = Len(asked') /\ c.pc = "done"),
         attached' # NoProvider => Told' \/ Heard(c, attached', wallet'[attached'], applied' = Len(asked'), shown')
  PROVE  CurrentInv'
<1>1. /\ Len(asked') = Len(asked) + 1 /\ asked'[Len(asked')] = c
      /\ \A i \in DOMAIN asked : asked'[i] = asked[i]
  BY CallBegins
<1>2. Len(asked) \in Nat /\ DOMAIN asked = 1 .. Len(asked) /\ applied \in Nat /\ applied <= Len(asked)
  BY CallsOf
<1>3. applied # 0 => applied \in DOMAIN asked /\ asked[applied].pc = "done"
  <2>1. applied # 0 => asked[applied].pc = "done"
    BY DEF CurrentInv
  <2>2. applied # 0 => applied \in DOMAIN asked
    BY <1>2
  <2> QED BY <2>1, <2>2
<1>4. applied' # 0 => asked'[applied'].pc = "done"
  <2>1. CASE applied' = applied
    BY <1>1, <1>3, <2>1
  <2>2. CASE applied' = Len(asked') /\ c.pc = "done"
    BY <1>1, <2>2
  <2> QED BY <2>1, <2>2
<1>5. Len(asked') # 0
  BY <1>1, <1>2
<1>6. attached' # NoProvider =>
          Told' \/ Heard(asked'[Len(asked')], attached', wallet'[attached'], applied' = Len(asked'), shown')
  BY <1>1, Zenon
<1> QED BY <1>4, <1>5, <1>6 DEF CurrentInv

LEMMA AnnounceKeepsCurrent ==
  ASSUME CW!ConnectedWalletAssumption, silent = {}, WalletInv, ListenInv, CurrentInv,
         NEW p \in Providers, CW!announceProvider(p)
  PROVE  CurrentInv'
<1>1. UNCHANGED <<wallet, notices, shown, applied, changes, connects>>
  BY DEF CW!announceProvider
<1>2. /\ p \notin present /\ present' = present \cup {p} /\ attached' \in present' /\ attached' # NoProvider
      /\ present' \subseteq Providers
      /\ IF attached' = attached THEN asked' = asked
         ELSE asked' = Append(asked, CW!newCall("fetch", "accounts", attached'))
      /\ \A q \in present' : providerScore[q] <= providerScore[attached']
  BY BestIsAttached
<1>3. \A k \in DOMAIN notices : notices[k].provider \in present
  BY DEF WalletInv
<1>4. CASE attached' = attached
  BY <1>1, <1>2, <1>4 DEF CurrentInv, LastTold, Told
<1>5. CASE attached' # attached
  <2>1. ASSUME attached' \in present PROVE FALSE
    <3>1. present \in SUBSET Providers /\ \A q \in present : providerScore[q] <= providerScore[attached']
      BY <1>2
    <3>2. CW!getInjectedEthereumProvider(present) = attached'
      BY <2>1, <3>1, BestIs
    <3> QED BY <3>2, <1>5 DEF ListenInv
  <2>2. LastTold'
    BY <2>1, <1>1, <1>3 DEF LastTold
  <2>3. PICK c : c = CW!newCall("fetch", "accounts", attached') /\ asked' = Append(asked, c)
    BY <1>2, <1>5
  <2>4. c \in CW!Call /\ c.pc = "accounts" /\ c.provider = attached'
    BY <1>2, <2>3, NewCallIs
  <2>5. CallOK(c, present') /\ Heard(c, attached', wallet'[attached'], applied' = Len(asked'), shown')
    BY <1>2, <2>4, BeginsHeard DEF CallOK
  <2> QED BY <1>1, <1>2, <2>2, <2>3, <2>4, <2>5, BeginKeepsCurrent
<1> QED BY <1>4, <1>5

LEMMA NoticeKeepsCurrent ==
  ASSUME CW!ConnectedWalletAssumption, silent = {}, WalletInv, ListenInv, CurrentInv, CW!handleAccountsChanged
  PROVE  CurrentInv'
<1>1. /\ UNCHANGED <<present, wallet, attached, listening, changes, connects>>
      /\ Len(notices) # 0 /\ DOMAIN notices' = 1 .. Len(notices) - 1
      /\ \A n \in DOMAIN notices' : notices'[n] = notices[n + 1]
  BY NoticeHeard
<1>2. Len(notices) \in Nat /\ DOMAIN notices = 1 .. Len(notices) /\ 1 \in DOMAIN notices
  BY <1>1, EventsOf
<1>3. /\ \A n \in DOMAIN notices' : n + 1 \in DOMAIN notices
      /\ \A n \in DOMAIN notices : n = 1 \/ (n - 1 \in DOMAIN notices' /\ notices'[n - 1] = notices[n])
  BY <1>1, <1>2
<1>4. LastTold'
  <2> SUFFICES ASSUME NEW k \in DOMAIN notices', notices'[k].provider = attached
               PROVE  \/ \E j \in DOMAIN notices' : j > k /\ notices'[j].provider = attached
                      \/ notices'[k].account = wallet[attached].account
    BY <1>1 DEF LastTold
  <2>1. k + 1 \in DOMAIN notices /\ notices[k + 1].provider = attached /\ notices'[k] = notices[k + 1] /\ k \in Nat
    BY <1>1, <1>2, <1>3
  <2>2. CASE \E j \in DOMAIN notices : j > k + 1 /\ notices[j].provider = attached
    <3>1. PICK j \in DOMAIN notices : j > k + 1 /\ notices[j].provider = attached
      BY <2>2
    <3>2. j - 1 \in DOMAIN notices' /\ notices'[j - 1] = notices[j] /\ j - 1 > k
      BY <3>1, <2>1, <1>1, <1>2, <1>3
    <3> QED BY <3>1, <3>2
  <2>3. CASE notices[k + 1].account = wallet[attached].account
    BY <2>1, <2>3
  <2> QED BY <2>1, <2>2, <2>3 DEF CurrentInv, LastTold
<1>5. Told => Told' \/ notices[1].provider = attached
  BY <1>1, <1>2, <1>3 DEF Told
<1>6. attached \notin listening => attached = NoProvider
  BY DEF ListenInv
<1>7. CASE notices[1].provider \notin listening /\ UNCHANGED <<asked, shown, applied>>
  BY <1>1, <1>4, <1>5, <1>6, <1>7 DEF CurrentInv
<1>8. CASE /\ notices[1].provider \in listening /\ notices[1].account = NoAccount
           /\ \E c \in CW!Call : c.pc = "done" /\ asked' = Append(asked, c)
           /\ shown' = CW!defaultState /\ applied' = Len(asked')
  <2>1. PICK c \in CW!Call : c.pc = "done" /\ asked' = Append(asked, c)
    BY <1>8
  <2>2. CallOK(c, present')
    BY <2>1 DEF CallOK, Asking
  <2>3. notices[1].provider = attached
    BY <1>8 DEF ListenInv
  <2>4. Told' \/ wallet[attached].account = NoAccount
    <3>1. \/ \E j \in DOMAIN notices : j > 1 /\ notices[j].provider = attached
          \/ notices[1].account = wallet[attached].account
      BY <2>3, <1>2 DEF CurrentInv, LastTold
    <3>2. ASSUME NEW j \in DOMAIN notices, j > 1, notices[j].provider = attached PROVE Told'
      <4>1. j - 1 \in DOMAIN notices' /\ notices'[j - 1] = notices[j]
        BY <3>2, <1>2, <1>3
      <4> QED BY <4>1, <3>2, <1>1 DEF Told
    <3> QED BY <3>1, <3>2, <1>8
  <2>5. Told' \/ Heard(c, attached', wallet'[attached'], applied' = Len(asked'), shown')
    BY <2>1, <2>4, <1>1, <1>8 DEF Heard, Asking, CW!defaultState
  <2> QED BY <1>1, <1>4, <1>8, <2>1, <2>2, <2>5, BeginKeepsCurrent
<1>9. CASE /\ notices[1].provider \in listening /\ UNCHANGED <<shown, applied>>
           /\ CW!getInjectedEthereumProvider(present) \in present
           /\ asked' = Append(asked, CW!newCall("fetch", "accounts", CW!getInjectedEthereumProvider(present)))
  <2>1. attached = CW!getInjectedEthereumProvider(present) /\ present \subseteq Providers
    BY DEF ListenInv
  <2>2. PICK c : c = CW!newCall("fetch", "accounts", attached) /\ asked' = Append(asked, c)
    BY <1>9, <2>1
  <2>3. c \in CW!Call /\ c.pc = "accounts" /\ c.provider = attached
    BY <1>9, <2>1, <2>2, NewCallIs
  <2>4. CallOK(c, present') /\ Heard(c, attached', wallet'[attached'], applied' = Len(asked'), shown')
    BY <1>1, <1>9, <2>1, <2>3, BeginsHeard DEF CallOK
  <2> QED BY <1>1, <1>4, <1>9, <2>2, <2>3, <2>4, BeginKeepsCurrent
<1> QED BY <1>7, <1>8, <1>9, NoticeHeard

LEMMA StepKeepsCurrent ==
  ASSUME CW!ConnectedWalletAssumption, silent = {}, WalletInv, ListenInv, CurrentInv,
         NEW i \in DOMAIN asked, CW!step(i)
  PROVE  CurrentInv'
<1>1. UNCHANGED <<present, attached, listening>>
  BY CallSteps
<1>2. /\ asked \in Seq(CW!Call) /\ Len(asked) \in Nat /\ DOMAIN asked = 1 .. Len(asked)
      /\ applied \in Nat /\ applied <= Len(asked)
  BY CallsOf
<1>3. CASE attached = NoProvider
  <2>1. LastTold'
    <3>1. (notices[1] = notices[1]) /\ \A k \in DOMAIN notices' : notices'[k].provider # NoProvider
      <4>1. \A k \in DOMAIN notices' : notices'[k].provider \in present'
        <5>1. CASE UNCHANGED <<wallet, notices>>
          BY <5>1, <1>1 DEF WalletInv
        <5>2. CASE \E w \in Answers : CW!changes_(asked[i].provider, w, "accounts") /\ asked[i].provider \in Providers
          BY <5>2, <1>1, WalletChanges
        <5> QED BY <5>1, <5>2, CallSteps
      <4> QED BY <4>1, <1>1 DEF ListenInv, CW!ConnectedWalletAssumption
    <3> QED BY <3>1, <1>1, <1>3 DEF LastTold
  <2>2. PICK d \in CW!Call : /\ CW!goes(i, d) /\ CallOK(d, present)
                             /\ \/ d.pc = "done" /\ applied' \in {applied, i}
                                \/ asked[i].pc # "done" /\ applied' = applied
    BY CallSteps DEF Asking
  <2>3. asked'[i] = d /\ \A j \in DOMAIN asked : j # i => asked'[j] = asked[j]
    BY <2>2, <1>1, RequestGoesOn
  <2>4. applied' # 0 => asked'[applied'].pc = "done"
    <3>1. applied # 0 => asked[applied].pc = "done"
      BY DEF CurrentInv
    <3> QED BY <1>2, <2>2, <2>3, <3>1
  <2> QED BY <1>1, <1>3, <2>1, <2>4 DEF CurrentInv
<1>4. CASE attached # NoProvider
  <2>1. \/ UNCHANGED <<wallet, notices>>
        \/ \E p \in Providers, w \in Answers, k \in {"accounts", "chain"} : CW!changes_(p, w, k)
    BY CallSteps
  <2>2. LastTold' /\ (Told => Told') /\ (Told' \/ wallet'[attached] = wallet[attached])
    BY <1>1, <1>4, <2>1, ChangeIsTold
  <2>3. Len(asked) # 0 /\ (Told \/ Heard(asked[Len(asked)], attached, wallet[attached], applied = Len(asked), shown))
    BY <1>4 DEF CurrentInv
  <2>4. applied # 0 => asked[applied].pc = "done"
    BY DEF CurrentInv
  <2>5. present # {} /\ attached = CW!getInjectedEthereumProvider(present)
    BY <1>4 DEF ListenInv
  <2>6. PICK d \in CW!Call :
           /\ CW!goes(i, d) /\ CallOK(d, present)
           /\ \/ /\ d.pc = "done" /\ applied' = applied /\ asked[i].pc \in Asking
              \/ /\ d.pc = "accounts" /\ d.provider = attached /\ applied' = applied
                 /\ asked[i].pc = "find"
              \/ /\ asked[i].pc = "accounts" /\ d.pc = "chain" /\ d.provider = asked[i].provider
                 /\ d.account = wallet'[d.provider].account /\ applied' = applied
              \/ /\ asked[i].pc = "chain" /\ d.pc = "balance" /\ d.provider = asked[i].provider
                 /\ d.account = asked[i].account /\ d.chain = wallet[d.provider].chain /\ applied' = applied
              \/ /\ asked[i].pc = "chain" /\ d.pc = "done" /\ applied' = i /\ asked[i].account = NoAccount
                 /\ shown'.address = NoAccount /\ shown'.isConnected = FALSE
              \/ /\ asked[i].pc = "balance" /\ d.pc = "done" /\ applied' = i /\ asked[i].account # NoAccount
                 /\ shown'.address = asked[i].account /\ shown'.chainId = asked[i].chain
                 /\ shown'.isConnected = TRUE
    BY <2>5, CallSteps
  <2>7. /\ Len(asked') = Len(asked) /\ asked'[i] = d
        /\ \A j \in DOMAIN asked : j # i => asked'[j] = asked[j]
    BY <2>6, <1>1, RequestGoesOn
  <2>8. asked[i].pc # "done" /\ applied # i
    <3>1. asked[i].pc # "done"
      BY <2>6 DEF Asking
    <3> QED BY <3>1, <2>4, <1>2
  <2>9. applied' # 0 => asked'[applied'].pc = "done"
    BY <1>2, <2>4, <2>6, <2>7, <2>8
  <2>10. ASSUME ~Told' PROVE Heard(asked'[Len(asked)], attached, wallet[attached], applied' = Len(asked), shown')
    <3>1. Heard(asked[Len(asked)], attached, wallet[attached], applied = Len(asked), shown) /\ wallet'[attached] = wallet[attached]
      BY <2>2, <2>3, <2>10
    <3>2. CASE i # Len(asked)
      <4>1. asked'[Len(asked)] = asked[Len(asked)]
        BY <3>2, <2>3, <2>7, <1>2
      <4>2. CASE applied' = i
        BY <4>1, <4>2, <3>1, <3>2 DEF Heard
      <4>3. CASE /\ applied' = applied /\ shown'.address = shown.address
                 /\ shown'.chainId = shown.chainId /\ shown'.isConnected = shown.isConnected
        BY <4>1, <4>3, <3>1 DEF Heard
      <4> QED BY <4>2, <4>3, ShownStays
    <3>3. CASE i = Len(asked)
      <4>1. Heard(asked[i], attached, wallet[attached], FALSE, shown) /\ applied # Len(asked)
        BY <3>1, <3>3, <2>8
      <4> QED BY <4>1, <3>1, <3>3, <2>6, <2>7 DEF Heard, Asking
    <3> QED BY <3>2, <3>3
  <2> QED BY <1>1, <1>4, <2>2, <2>3, <2>7, <2>9, <2>10 DEF CurrentInv
<1> QED BY <1>3, <1>4

LEMMA SwitchKeepsCurrent ==
  ASSUME CW!ConnectedWalletAssumption, WalletInv, ListenInv, CurrentInv, NEW p \in Providers, CW!switchNetwork(p)
  PROVE  CurrentInv'
<1>1. UNCHANGED <<present, attached, listening, asked, shown, applied, connects>>
  BY DEF CW!switchNetwork
<1>2. wallet \in [Providers -> Answers] /\ \A k \in DOMAIN notices : notices[k].provider \in present
  BY DEF WalletInv, CW!TypeOK, Answers
<1>3. PICK w \in Answers, k \in {"accounts", "chain"} : CW!changes_(p, w, k)
  <2>1. ASSUME NEW c \in Chains, CW!changes_(p, [wallet[p] EXCEPT !.chain = c], "chain")
        PROVE  \E w \in Answers, k \in {"accounts", "chain"} : CW!changes_(p, w, k)
    <3>1. [wallet[p] EXCEPT !.chain = c] \in Answers
      BY <1>2 DEF Answers
    <3> QED BY <2>1, <3>1
  <2>2. ASSUME NEW a \in Accounts \cup {NoAccount}, CW!changes_(p, [wallet[p] EXCEPT !.account = a], "accounts")
        PROVE  \E w \in Answers, k \in {"accounts", "chain"} : CW!changes_(p, w, k)
    <3>1. [wallet[p] EXCEPT !.account = a] \in Answers
      BY <1>2 DEF Answers
    <3> QED BY <2>2, <3>1
  <2> QED BY <2>1, <2>2 DEF CW!switchNetwork
<1>4. CASE attached = NoProvider
  <2>1. \A n \in DOMAIN notices' : notices'[n].provider \in present'
    BY <1>1, <1>3, WalletChanges
  <2>2. attached' = NoProvider /\ NoProvider \notin present'
    BY <1>1, <1>4 DEF ListenInv, CW!ConnectedWalletAssumption
  <2>3. LastTold'
    BY <2>1, <2>2 DEF LastTold
  <2> QED BY <1>1, <2>2, <2>3 DEF CurrentInv
<1>5. CASE attached # NoProvider
  <2>1. LastTold' /\ (Told => Told') /\ (Told' \/ wallet'[attached] = wallet[attached])
    BY <1>1, <1>3, <1>5, ChangeIsTold
  <2>2. /\ applied # 0 => asked[applied].pc = "done"
        /\ Len(asked) # 0 /\ (Told \/ Heard(asked[Len(asked)], attached, wallet[attached], applied = Len(asked), shown))
    BY <1>5 DEF CurrentInv
  <2>3. Told' \/ Heard(asked'[Len(asked')], attached', wallet'[attached'], applied' = Len(asked'), shown')
    BY <1>1, <2>1, <2>2
  <2>4. (applied' # 0 => asked'[applied'].pc = "done") /\ Len(asked') # 0
    BY <1>1, <2>2
  <2> QED BY <2>1, <2>3, <2>4 DEF CurrentInv
<1> QED BY <1>4, <1>5

LEMMA CurrentIsKept ==
  ASSUME CW!ConnectedWalletAssumption, silent = {}, WalletInv, ListenInv, CurrentInv, [CW!Next]_CW!vars
  PROVE  CurrentInv'
<1>1. ASSUME NEW p \in Providers, CW!announceProvider(p) PROVE CurrentInv'
  BY <1>1, AnnounceKeepsCurrent
<1>2. ASSUME NEW p \in Providers, CW!inject(p) PROVE CurrentInv'
  BY <1>2 DEF CW!inject
<1>3. ASSUME NEW p \in Providers, CW!switchNetwork(p) PROVE CurrentInv'
  BY <1>3, SwitchKeepsCurrent
<1>4. ASSUME CW!handleAccountsChanged PROVE CurrentInv'
  BY <1>4, NoticeKeepsCurrent
<1>5. ASSUME CW!connect PROVE CurrentInv'
  <2>1. UNCHANGED <<present, wallet, notices, attached, listening, shown, applied, changes>>
    BY <1>5 DEF CW!connect
  <2>2. PICK c : c = CW!newCall("connect", "find", NoProvider) /\ asked' = Append(asked, c)
    BY <1>5 DEF CW!connect
  <2>3. c \in CW!Call /\ c.pc = "find"
    BY <2>2, NewCallIs
  <2>4. CallOK(c, present') /\ Heard(c, attached', wallet'[attached'], applied' = Len(asked'), shown')
    BY <2>3, BeginsHeard DEF CallOK, Asking
  <2>5. LastTold'
    BY <2>1 DEF CurrentInv, LastTold
  <2> QED BY <2>1, <2>2, <2>3, <2>4, <2>5, BeginKeepsCurrent
<1>6. ASSUME NEW i \in DOMAIN asked, CW!step(i) PROVE CurrentInv'
  BY <1>6, StepKeepsCurrent
<1>7. ASSUME UNCHANGED CW!vars PROVE CurrentInv'
  BY <1>7 DEF CW!vars, CurrentInv, LastTold, Told
<1> QED BY <1>1, <1>2, <1>3, <1>4, <1>5, <1>6, <1>7 DEF CW!Next

LEMMA WalletIsTyped ==
  ASSUME CW!ConnectedWalletAssumption PROVE WalletSpec => [](WalletInv /\ ListenInv)
<1>1. CW!Init => WalletInv /\ ListenInv
  BY WalletAtFirst, ListenAtFirst
<1>2. WalletInv /\ ListenInv /\ [CW!Next]_CW!vars => (WalletInv /\ ListenInv)'
  BY WalletIsKept, ListenIsKept
<1> QED BY <1>1, <1>2, PTL DEF WalletSpec

(* Once everything is answered the page shows the account and the chain of *)
(* the best provider, if the call that began last is the one that wrote    *)
(* last, for any number of wallets, switches and calls.                    *)
(* [Wallet.tsx, handleAccountsChanged, handleChainChanged, fetchAccountInfo] *)
THEOREM NoChangeGoesUnnoticed ==
  ASSUME CW!ConnectedWalletAssumption PROVE WalletSpec => []CW!ShownIsCurrent
<1> DEFINE Heeded == silent = {} => CurrentInv
<1>1. CW!Init => Heeded
  BY CurrentAtFirst
<1>2. WalletInv /\ ListenInv /\ Heeded /\ [CW!Next]_CW!vars => Heeded'
  BY CurrentIsKept, SilentStays
<1>3. WalletInv /\ ListenInv /\ Heeded => CW!ShownIsCurrent
  <2> SUFFICES ASSUME WalletInv, ListenInv, CurrentInv, CW!quiet, silent = {}, applied = Len(asked), CW!best # NoProvider
               PROVE  /\ shown.address = wallet[CW!best].account
                      /\ shown.isConnected = (wallet[CW!best].account # NoAccount)
                      /\ shown.isConnected => shown.chainId = wallet[CW!best].chain
    BY DEF CW!ShownIsCurrent
  <2>1. attached = CW!best
    BY DEF ListenInv, CW!best
  <2>2. notices = <<>> /\ \A i \in DOMAIN asked : asked[i].pc = "done"
    BY DEF CW!quiet
  <2>3. ~Told
    BY <2>2 DEF Told
  <2>4. Len(asked) # 0 /\ Heard(asked[Len(asked)], CW!best, wallet[CW!best], applied = Len(asked), shown)
    BY <2>1, <2>3 DEF CurrentInv
  <2>5. asked[Len(asked)].pc = "done"
    BY <2>2, <2>4, CallsOf
  <2>6. shown.isConnected \in BOOLEAN
    BY DEF WalletInv, CW!TypeOK
  <2> QED BY <2>4, <2>5, <2>6 DEF Heard
<1> QED BY <1>1, <1>2, <1>3, WalletIsTyped, PTL DEF WalletSpec

-----------------------------------------------------------------------------
(* The application's steps are steps of its pages, or leave them alone.    *)
LEMMA PagesMoveAlone ==
  ASSUME [WebNext]_webVars
  PROVE  [Next]_vars /\ [CW!Next]_(CW!vars) /\ [VC!Next]_(VC!vars) /\ [RD!Next]_(RD!vars)
<1> USE DEF CW!vars, VC!vars, VC!outside, VC!chain, RD!vars, RD!chain, walletVars, creationVars, decisionVars
<1>1. CASE ValidatorMoves
  BY <1>1 DEF ValidatorMoves
<1>2. CASE WalletMoves
  BY <1>2 DEF WalletMoves
<1>3. CASE CreationMoves
  BY <1>3 DEF CreationMoves
<1>4. CASE DecisionMoves
  BY <1>4 DEF DecisionMoves
<1>5. CASE UNCHANGED webVars
  BY <1>5 DEF webVars
<1> QED BY <1>1, <1>2, <1>3, <1>4, <1>5 DEF WebNext

LEMMA PagesBehave == WebSpec => ValidatorSpec /\ WalletSpec /\ CreationSpec /\ DecisionSpec
<1>1. WebInit => Init /\ CW!Init /\ VC!Init /\ RD!Init
  BY DEF WebInit
<1>2. [WebNext]_webVars => [Next]_vars /\ [CW!Next]_(CW!vars) /\ [VC!Next]_(VC!vars) /\ [RD!Next]_(RD!vars)
  BY PagesMoveAlone
<1> QED BY <1>1, <1>2, PTL DEF WebSpec, ValidatorSpec, WalletSpec, CreationSpec, DecisionSpec

(* The page shows what the best provider would answer, to which alone it   *)
(* listens.  [Wallet.tsx, fetchAccountInfo, attachProvider]                *)
THEOREM WalletStaysCurrent == WebSpec => []ShownIsCurrent
<1>1. CW!ConnectedWalletAssumption
  BY WebAssumption
<1>2. WalletInv => CW!TypeOK
  BY DEF WalletInv
<1>3. WalletSpec => [](CW!TypeOK /\ CW!ShownIsCurrent /\ CW!ListensToTheBest)
  BY <1>1, <1>2, WalletIsTyped, NoChangeGoesUnnoticed, AlwaysListensToTheBest, PTL
<1> QED BY <1>3, PagesBehave, PTL DEF ShownIsCurrent

(* Metadata, chain and record name one setter, a deposit is paid for an    *)
(* unregistered vault only when something was lost, and every vault is     *)
(* within the cap, if the settings list a token with no fewer decimals     *)
(* than it has, and of a setter who can fund it, but one whom the owner    *)
(* named the treasury after the page had read who it is, however many      *)
(* tabs, changes and losses.  [create/page.tsx, handleSubmit;              *)
(* proofOfVault.ts, createVaultRequestOnchain]                             *)
THEOREM CreationStaysSound == ASSUME Unit <= ListedUnit PROVE WebSpec => []CreationSound
<1>1. VC!VaultCreationAssumption
  BY WebAssumption
<1>2. CreationSpec => [](VC!TypeOK /\ VC!SetterAgrees /\ VC!PaidIsRegistered /\ VC!FundableVault)
  BY <1>1, CreationIsTyped, SetterAlwaysAgrees, PaidStaysRegistered, VaultsAreFundable, PTL
<1> QED BY <1>2, PagesBehave, PTL DEF CreationSound

(* An acceptance reverts only because something came in between, one that  *)
(* succeeds uses up what was approved for it, and a decision that the API  *)
(* does not know of is one whose answer was lost.                          *)
(* [review/page.tsx, handleSetterDecision; proofOfVault.ts,                *)
(* decideRuleSetOnchain]                                                   *)
THEOREM DecisionStaysSound == WebSpec => DecisionSound
<1>1. RD!RuleDecisionAssumption
  BY WebAssumption
<1>2. DecisionSpec => [](RD!TypeOK /\ RD!RevertsHaveACause /\ RD!DecisionIsRegistered)
  BY <1>1, DecisionIsTyped, RevertsAlwaysCaused, DecisionsAreRegistered, PTL
<1>3. DecisionSpec => [][RD!SpendsItsApprovals]_(RD!vars)
  BY <1>1, AlwaysSpendsApprovals
<1> QED BY <1>2, <1>3, PagesBehave, PTL DEF DecisionSound
================================================================================
