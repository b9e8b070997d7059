----------------------------- MODULE ValidatorPage -----------------------------
(***************************************************************************)
(* The pages on which committee members work: a validator commits to a     *)
(* result and later reveals it, a verifier raises an issue about a rule    *)
(* draft.  A submission takes a session of the agent's, an upload of its   *)
(* payload and a post.  What a commit hides, the salt and the hash, is     *)
(* kept by the tab that made it and nowhere else.                          *)
(*                                                                         *)
(* The API takes what belongs to the current round, once for each agent    *)
(* and kind (Submissions has the rest of it); rounds are those of the      *)
(* phase, opened by others.  A hash is the record it is taken of.          *)
(***************************************************************************)
EXTENDS Integers, Sequences, FiniteSets

CONSTANTS
    Tabs, Agents,
    Members,        \* of [1 .. MaxRounds -> SUBSET Agents], the round's committee
    Contents,       \* a result with its reasoning and proof
    NoAgent, NoContent,
    MaxRounds, MaxCalls, MaxSwitches, MaxFaults   \* bounds

ASSUME ValidatorPageAssumption ==
    /\ MaxRounds \in Nat \ {0} /\ Members \in [1 .. MaxRounds -> SUBSET Agents]
    /\ NoAgent \notin Agents /\ NoContent \notin Contents

VARIABLES
    round, account,     \* the API's round, the wallet's account
    subs,               \* what the API has stored
    tab, session,       \* the pages, and each one's sessionStorage
    salts, calls, switches, faults

world == <<round, account>>
vars == <<world, subs, tab, session, salts, calls, switches, faults>>

NoSession == [wallet |-> NoAgent, fresh |-> FALSE]
NoDraft == [agent |-> NoAgent, content |-> NoContent, hash |-> <<>>, salt |-> 0]
NoCall == [pc |-> "idle", kind |-> "none", agent |-> NoAgent, round |-> 0, content |-> NoContent, hash |-> <<>>, salt |-> 0]
NewPage == [seen |-> 0, content |-> NoContent, commitTx |-> FALSE, revealTx |-> FALSE, draft |-> NoDraft, call |-> NoCall]

Init ==
    /\ round = 1 /\ account \in Agents /\ subs = {}
    /\ tab = [t \in Tabs |-> NewPage] /\ session = [t \in Tabs |-> NoSession]
    /\ salts = 0 /\ calls = 0 /\ switches = 0 /\ faults = 0

-----------------------------------------------------------------------------
becomes(t, p) == tab' = [tab EXCEPT ![t] = p]
goes(t, pc) == becomes(t, [tab[t] EXCEPT !.call.pc = pc])
fails(t) == becomes(t, [tab[t] EXCEPT !.call = NoCall])
at(t, pc) == tab[t].call.pc = pc
fault == faults < MaxFaults /\ faults' = faults + 1

(* Rounds are reopened, accounts switched, sessions expire. *)
switch ==
    /\ switches < MaxSwitches /\ switches' = switches + 1
    /\ \/ round < MaxRounds /\ round' = round + 1 /\ UNCHANGED <<account, session>>
       \/ account' \in Agents \ {account} /\ UNCHANGED <<round, session>>
       \/ \E t \in Tabs : session' = [session EXCEPT ![t].fresh = FALSE] /\ UNCHANGED world
    /\ UNCHANGED <<subs, tab, salts, calls, faults>>

(* A load that fails leaves the page as it is. *)
loadVault(t) ==
    /\ tab[t].seen = 0 \/ at(t, "load")
    /\ \/ becomes(t, [tab[t] EXCEPT !.seen = round, !.call = NoCall]) /\ UNCHANGED faults
       \/ tab[t].seen # 0 /\ fault /\ fails(t)
    /\ UNCHANGED <<world, subs, session, salts, calls, switches>>

(* The text can be changed while a commit is on its way. *)
edit(t) ==
    /\ ~tab[t].commitTx /\ calls < MaxCalls
    /\ \E c \in Contents : c # tab[t].content /\ becomes(t, [tab[t] EXCEPT !.content = c])
    /\ UNCHANGED <<world, subs, session, salts, calls, switches, faults>>

validators(t) == IF tab[t].seen = 0 THEN {} ELSE Members[tab[t].seen]
begins(t) == tab[t].seen # 0 /\ at(t, "idle") /\ calls < MaxCalls /\ calls' = calls + 1

createResolutionProofHash(a, r, c) == <<a, r, c>>

handleCommit(t) ==
    LET p == tab[t] IN
    /\ begins(t) /\ account \in validators(t) /\ p.content # NoContent /\ ~p.commitTx
    /\ salts' = salts + 1
    /\ becomes(t, [p EXCEPT !.call =
            [pc |-> "session", kind |-> "commit", agent |-> account, round |-> p.seen, content |-> p.content,
             hash |-> createResolutionProofHash(account, p.seen, p.content), salt |-> salts']])
    /\ UNCHANGED <<world, subs, session, switches, faults>>

snapshot_Form(p) == p.content
snapshot(p) == p.draft.content

(* What was committed is revealed, in the round that the page has. *)
handleReveal(t) ==
    LET p == tab[t] IN
    /\ begins(t) /\ account \in validators(t) /\ p.commitTx /\ ~p.revealTx /\ account = p.draft.agent
    /\ becomes(t, [p EXCEPT !.call =
            [pc |-> "session", kind |-> "reveal", agent |-> account, round |-> p.seen, content |-> snapshot(p),
             hash |-> p.draft.hash, salt |-> p.draft.salt]])
    /\ UNCHANGED <<world, subs, session, salts, switches, faults>>

(* An issue's round and committee are fetched for it. *)
handleSubmitChallenge(t) ==
    /\ begins(t) /\ account \in validators(t)
    /\ becomes(t, [tab[t] EXCEPT !.call = [NoCall EXCEPT !.pc = "fetch", !.kind = "issue", !.agent = account]])
    /\ UNCHANGED <<world, subs, session, salts, switches, faults>>

issueRound(t) == round
getWorkflowVault == Members[round]

submitRuleChallenge(t) ==
    /\ at(t, "fetch")
    /\ IF tab[t].call.agent \in getWorkflowVault
       THEN becomes(t, [tab[t] EXCEPT !.call.pc = "session", !.call.round = issueRound(t)]) /\ UNCHANGED faults
       ELSE fails(t) /\ UNCHANGED faults
    /\ UNCHANGED <<world, subs, session, salts, calls, switches>>

stored_Any(t, a) == session[t].fresh
stored(t, a) == session[t].fresh /\ session[t].wallet = a

(* A session of the agent's that has not run out is used again; otherwise  *)
(* a challenge is signed for another. *)
ensureAgentSession(t) ==
    LET a == tab[t].call.agent IN
    /\ at(t, "session")
    /\ \/ stored(t, a) /\ goes(t, "upload") /\ UNCHANGED <<session, faults>>
       \/ ~stored(t, a) /\ session' = [session EXCEPT ![t] = [wallet |-> a, fresh |-> TRUE]] /\ goes(t, "upload") /\ UNCHANGED faults
       \/ ~stored(t, a) /\ fault /\ fails(t) /\ UNCHANGED session
    /\ UNCHANGED <<world, subs, salts, calls, switches>>

(* A payload that cannot be stored ends the call. *)
resolvePayloadUri(t) ==
    /\ at(t, "upload")
    /\ IF session[t].fresh THEN goes(t, "post") /\ UNCHANGED faults ELSE fails(t) /\ UNCHANGED faults
    /\ UNCHANGED <<world, subs, session, salts, calls, switches>>

submission(t) == LET c == tab[t].call IN
    [kind |-> c.kind, agent |-> c.agent, round |-> c.round, content |-> c.content, hash |-> c.hash, salt |-> c.salt]

accepts(t) ==
    LET c == tab[t].call IN
    /\ session[t].fresh /\ session[t].wallet = c.agent
    /\ c.round = round /\ c.agent \in Members[round]
    /\ ~\E s \in subs : s.kind = c.kind /\ s.agent = c.agent /\ s.round = c.round

keptSalt(t) == tab[t].call.salt

answered(t) ==
    LET p == tab[t]  c == p.call IN
    CASE c.kind = "commit" ->
            [p EXCEPT !.call.pc = "load", !.commitTx = TRUE,
                !.draft = [agent |-> c.agent, content |-> c.content, hash |-> c.hash, salt |-> keptSalt(t)]]
      [] c.kind = "reveal" -> [p EXCEPT !.call.pc = "load", !.revealTx = TRUE]
      [] c.kind = "issue" -> [p EXCEPT !.call.pc = "load"]

(* The post is refused or lost, or its answer is. *)
submitResolution(t) ==
    /\ at(t, "post")
    /\ IF accepts(t)
       THEN \/ subs' = subs \cup {submission(t)} /\ becomes(t, answered(t)) /\ UNCHANGED faults
            \/ fault /\ fails(t) /\ subs' \in {subs, subs \cup {submission(t)}}
       ELSE fails(t) /\ UNCHANGED <<subs, faults>>
    /\ UNCHANGED <<world, session, salts, calls, switches>>

(* A reload forgets all but the session. *)
reload(t) ==
    /\ fault /\ becomes(t, NewPage)
    /\ UNCHANGED <<world, subs, session, salts, calls, switches>>

step(t) ==
    \/ at(t, "load") /\ loadVault(t)
    \/ submitRuleChallenge(t) \/ ensureAgentSession(t) \/ resolvePayloadUri(t) \/ submitResolution(t)
Next ==
    \/ switch
    \/ \E t \in Tabs :
        \/ loadVault(t) \/ edit(t) \/ handleCommit(t) \/ handleReveal(t) \/ handleSubmitChallenge(t)
        \/ step(t) \/ reload(t)

(* The wallet and the API answer. *)
Fairness == \A t \in Tabs : WF_vars(step(t))
Spec == Init /\ [][Next]_vars /\ Fairness

-----------------------------------------------------------------------------
Submission == [kind : {"commit", "reveal", "issue"}, agent : Agents, round : 1 .. MaxRounds,
               content : Contents \cup {NoContent}, hash : {<<>>} \cup (Agents \X (1 .. MaxRounds) \X Contents), salt : 0 .. MaxCalls]
TypeOK ==
    /\ round \in 1 .. MaxRounds /\ account \in Agents /\ subs \subseteq Submission
    /\ \A t \in Tabs : tab[t].seen \in 0 .. MaxRounds /\ tab[t].commitTx = (tab[t].draft # NoDraft)
    /\ session \in [Tabs -> [wallet : Agents \cup {NoAgent}, fresh : BOOLEAN]]
    /\ salts \in 0 .. MaxCalls /\ calls \in 0 .. MaxCalls /\ faults \in 0 .. MaxFaults

commits == {s \in subs : s.kind = "commit"}
reveals == {s \in subs : s.kind = "reveal"}

(* What is revealed is what its author committed to, with the same salt    *)
(* and hash, though the form was edited and the wallet switched meanwhile. *)
(* [submit/page.tsx, handleReveal] *)
RevealsTheCommit ==
    \A r \in reveals : \E c \in commits :
        /\ c.agent = r.agent /\ c.content = r.content /\ c.salt = r.salt /\ c.hash = r.hash
        /\ r.hash = createResolutionProofHash(r.agent, c.round, r.content)

(* A commit can be revealed by the tab that made it: its salt is lost only *)
(* with an answer or a reload, one for each.                               *)
(* [submit/page.tsx, handleCommit, committedDraft] *)
SaltsAreKept ==
    Cardinality({c \in commits : \A t \in Tabs : tab[t].draft.salt # c.salt}) <= faults

(* A session is only used for the agent it was opened for, whatever the    *)
(* account is by then, and an issue is of the round in which its author    *)
(* was found among the verifiers.                                          *)
(* [agent-session.ts, ensureAgentSession; submission.ts,                   *)
(* submitRuleChallenge] *)
SessionIsTheAgents ==
    \A t \in Tabs : LET c == tab[t].call IN
        c.pc \in {"upload", "post"} => /\ session[t].wallet = c.agent
                                       /\ c.agent \in Members[c.round]

(* What a validator commits to can be revealed: by the tab that has the    *)
(* salt, and in the name of the agent who committed. *)
(* [submit/page.tsx; agent-session.ts] *)
CommitsAreUsable == SaltsAreKept /\ SessionIsTheAgents

(* A submission ends, stored, refused or failed. *)
(* [submit/page.tsx, handleCommit, handleReveal] *)
SubmissionEnds == \A t \in Tabs : ~at(t, "idle") ~> at(t, "idle")
=============================================================================
