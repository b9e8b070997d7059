---------------------------- MODULE Registration ----------------------------
(***************************************************************************)
(* Registration, login and judge-list admission of agents.                 *)
(*                                                                         *)
(* An agent asks for a challenge, signs it, and the API verifies the       *)
(* signature before it writes.  Verification is an await: a request is a   *)
(* step up to it (lock, checks, reads) and one from it on (writes).  With  *)
(* the Postgres store the two share a transaction that locks the           *)
(* challenge's row and rolls back on an error; the in-memory store locks   *)
(* nothing, and what was written before an error stays.                    *)
(*                                                                         *)
(* A nonce and a registration id are positions in the sequences of what    *)
(* was issued so far (both are random UUIDs, never reused).  A request     *)
(* whose wallet, chain or address does not match what it names changes     *)
(* nothing and is left out.  Creating a challenge is one step: it saves a  *)
(* fresh row, so its check might as well have come right before.           *)
(***************************************************************************)
EXTENDS Integers, Sequences, FiniteSets

CONSTANTS
    Requests,       \* concurrent HTTP requests
    Wallets,        \* wallets whose owner can sign
    DemoWallets,    \* the base agents of the demo mode, which nobody signs for
    Postgres,       \* which store: Postgres or in memory
    FixedSecret,    \* whether PROOF_OF_VAULT_AUTH_SECRET is configured
    MaxChallenges,  \* bound: challenges issued
    MaxAsked,       \* bound: the part of them that agents may ask for themselves
    MaxRestarts,    \* bound: restarts of the API
    MayExpire       \* whether challenges and sessions run out

RegistrationAssumption ==
    /\ Wallets \cap DemoWallets = {}
    /\ Postgres \in BOOLEAN /\ FixedSecret \in BOOLEAN /\ MayExpire \in BOOLEAN
    /\ MaxChallenges \in Nat /\ MaxAsked \in 0 .. MaxChallenges /\ MaxRestarts \in Nat

VARIABLES
    challenges,  \* auth_challenges: kind, wallet, consumed, expired
    regs,        \* agent_registrations: wallet and status
    regIndex,    \* the registration found by wallet
    judgeList,   \* ids of the registrations with a judge-list entry
    judgeIndex,  \* the entry found by wallet, by its registration
    agents,      \* wallets with an agent profile
    sessions,    \* tokens issued: wallet, the nonce they were issued for, secret
    secret,      \* which secret signs tokens now
    request,     \* the requests' positions and locals
    registered,  \* history: nonces a register request succeeded with
    joined,      \* history: wallets whose admission to the judge list succeeded
    restarts

tables == <<challenges, regs, regIndex, judgeList, judgeIndex, agents>>
auth == <<sessions, secret>>
history == <<registered, joined>>
vars == <<tables, auth, request, history, restarts>>

None == 0
AllWallets == Wallets \cup DemoWallets
Challenge(kind, wallet) == [kind |-> kind, wallet |-> wallet, consumed |-> FALSE, expired |-> FALSE]
Registration(wallet, status) == [wallet |-> wallet, status |-> status]
Idle == [pc |-> "idle", op |-> "none", nonce |-> None, id |-> None,
         seen |-> [wallet |-> None, status |-> "none"]]

Init ==
    /\ challenges = <<>> /\ regs = <<>> /\ sessions = <<>>
    /\ regIndex = [w \in AllWallets |-> None]
    /\ judgeIndex = [w \in AllWallets |-> None]
    /\ judgeList = {} /\ agents = {} /\ joined = {}
    /\ registered = <<>>
    /\ secret = 0 /\ restarts = 0
    /\ request = [r \in Requests |-> Idle]

-----------------------------------------------------------------------------
(* The store. *)
getRegistrationByWallet(w) == regIndex[w]
getJudgeListEntryByWallet(w) == judgeIndex[w]
judgeListed(id) == id \in judgeList /\ regs[id].status = "judge_listed"

isJudgeListed(w) ==
    LET id == getJudgeListEntryByWallet(w) IN id # None /\ regs[id].status = "judge_listed"

listJudgeListAgents == {regs[id].wallet : id \in {i \in judgeList : judgeListed(i)}} \cap agents

(* The columns agent_registrations.wallet_address and                      *)
(* judge_list_entries.wallet_address are unique: an insertion under a      *)
(* second id fails.                                                        *)
UniqueWallet(index, w, id) == Postgres => index[w] \in {None, id}

(* saveRegistration inserts a registration or overwrites it whole. *)
saveRegistration(id, registration) ==
    /\ regs' = IF id \in DOMAIN regs THEN [regs EXCEPT ![id] = registration]
                                     ELSE Append(regs, registration)
    /\ regIndex' = [regIndex EXCEPT ![registration.wallet] = id]

saveJudgeListEntry(id, w) ==
    /\ judgeList' = judgeList \cup {id}
    /\ judgeIndex' = [judgeIndex EXCEPT ![w] = id]

saveAgent(w) == agents' = agents \cup {w}

(* The rows other requests' transactions hold: Postgres only. *)
HeldByOther(r, nonce) ==
    Postgres /\ \E q \in Requests \ {r} : request[q].pc # "idle" /\ request[q].nonce = nonce

lockChallenge(r, kind, nonce) ==
    /\ ~HeldByOther(r, nonce)
    /\ challenges[nonce].kind = kind
    /\ ~challenges[nonce].consumed

assertChallengeUsable(nonce) == ~challenges[nonce].expired
consumeChallenge_Kept(nonce) == UNCHANGED challenges
consumeChallenge(nonce) == challenges' = [challenges EXCEPT ![nonce].consumed = TRUE]

-----------------------------------------------------------------------------
Goto(r, locals) == request' = [request EXCEPT ![r] = locals]
Finish(r) == Goto(r, Idle)

Issue(kind, w, bound) ==
    /\ Len(challenges) < bound
    /\ challenges' = Append(challenges, Challenge(kind, w))
    /\ UNCHANGED <<regs, regIndex, judgeList, judgeIndex, agents, auth, history, restarts>>

createPreRegistrationChallenge(w) ==
    /\ getRegistrationByWallet(w) = None
    /\ Issue("pre_registration", w, MaxAsked)
    /\ UNCHANGED request

createLoginChallenge(w) ==
    /\ getRegistrationByWallet(w) # None
    /\ Issue("login", w, MaxAsked)
    /\ UNCHANGED request

(* register, up to the verification of the signature.  An operator's       *)
(* bootstrap registers the wallet it provisioned the same way.             *)
register(r, nonce, op) ==
    /\ lockChallenge(r, "pre_registration", nonce)
    /\ assertChallengeUsable(nonce)
    /\ getRegistrationByWallet(challenges[nonce].wallet) = None
    /\ Goto(r, [Idle EXCEPT !.pc = "verify", !.op = op, !.nonce = nonce])
    /\ UNCHANGED <<tables, auth, history, restarts>>

startRegister(r, nonce) == request[r].pc = "idle" /\ register(r, nonce, "register")

(* The signature was wrong: nothing was written yet.  An operator's wallet *)
(* provider signs for the wallet it provisioned.                           *)
signatureInvalid(r) ==
    /\ request[r].pc = "verify" /\ request[r].op # "bootstrap"
    /\ Finish(r)
    /\ UNCHANGED <<tables, auth, history, restarts>>

(* From the verified signature to the end of the transaction.  In memory   *)
(* the registration is there before the challenge is consumed, and stays   *)
(* when another request consumed it first.                                 *)
registrationSaved(r) ==
    LET nonce == request[r].nonce
        w == challenges[nonce].wallet
        id == Len(regs) + 1
        consumed == ~challenges[nonce].consumed
    IN  /\ UniqueWallet(regIndex, w, id)
        /\ saveRegistration(id, Registration(w, "pre_registered"))
        /\ saveAgent(w)
        /\ consumeChallenge(nonce)
        /\ registered' = IF consumed THEN Append(registered, nonce) ELSE registered
        /\ Goto(r, IF consumed /\ request[r].op = "bootstrap"
                   THEN [Idle EXCEPT !.pc = "list", !.id = id] ELSE Idle)
        /\ UNCHANGED <<judgeList, judgeIndex, auth, joined, restarts>>

finishRegister(r) ==
    /\ request[r].pc = "verify" /\ request[r].op \in {"register", "bootstrap"}
    /\ registrationSaved(r)

(* The wallet was registered meanwhile: the insertion fails and the        *)
(* transaction rolls back, leaving the challenge usable.                   *)
registerConflict(r) ==
    /\ request[r].pc = "verify" /\ request[r].op \in {"register", "bootstrap"}
    /\ ~UniqueWallet(regIndex, challenges[request[r].nonce].wallet, Len(regs) + 1)
    /\ Finish(r)
    /\ UNCHANGED <<tables, auth, history, restarts>>

-----------------------------------------------------------------------------
(* login reads the registration, waits for the verification, and saves     *)
(* what it read with a new lastLoginAt (left out here).                    *)
login(r, nonce) ==
    /\ request[r].pc = "idle"
    /\ lockChallenge(r, "login", nonce)
    /\ assertChallengeUsable(nonce)
    /\ LET id == getRegistrationByWallet(challenges[nonce].wallet)
       IN  /\ id # None
           /\ Goto(r, [pc |-> "verify", op |-> "login", nonce |-> nonce, id |-> id,
                       seen |-> regs[id]])
    /\ UNCHANGED <<tables, auth, history, restarts>>

issue(w, nonce) == sessions' = Append(sessions, [wallet |-> w, nonce |-> nonce,
                                                 secret |-> secret, expired |-> FALSE])

finishLogin(r) ==
    LET l == request[r] IN
    /\ l.pc = "verify" /\ l.op = "login"
    /\ saveRegistration(l.id, l.seen)
    /\ IF challenges[l.nonce].consumed THEN UNCHANGED sessions
                                       ELSE issue(l.seen.wallet, l.nonce)
    /\ consumeChallenge(l.nonce)
    /\ Finish(r)
    /\ UNCHANGED <<judgeList, judgeIndex, agents, secret, history, restarts>>

(* AgentSessionService.verify, behind requireAgentSession. *)
verify(token, w) == token.secret = secret /\ ~token.expired /\ token.wallet = w

-----------------------------------------------------------------------------
(* joinJudgeList reads the registration and writes it back in a            *)
(* transaction that does not lock it.                                      *)
joinJudgeList(r, id) ==
    /\ request[r].pc \in {"idle", "list"}
    /\ Goto(r, [Idle EXCEPT !.pc = "join", !.id = id, !.seen = regs[id]])
    /\ UNCHANGED <<tables, auth, history, restarts>>

startJoin(r, id) == request[r].pc = "idle" /\ joinJudgeList(r, id)

admit(r) ==
    LET l == request[r] IN
    /\ l.id \notin judgeList
    /\ l.seen.status = "pre_registered"
    /\ UniqueWallet(judgeIndex, l.seen.wallet, l.id)
    /\ saveRegistration(l.id, [l.seen EXCEPT !.status = "judge_listed"])
    /\ saveAgent(l.seen.wallet)
    /\ saveJudgeListEntry(l.id, l.seen.wallet)
    /\ joined' = joined \cup {l.seen.wallet}
    /\ UNCHANGED challenges

(* An entry that is there already is the answer, whatever the              *)
(* registration's status.                                                  *)
alreadyAdmitted(r) ==
    LET l == request[r] IN
    /\ \/ l.id \in judgeList /\ joined' = joined \cup {l.seen.wallet}
       \/ l.id \notin judgeList /\ l.seen.status # "pre_registered" /\ UNCHANGED joined
    /\ UNCHANGED tables

finishJoin(r) ==
    /\ request[r].pc = "join"
    /\ admit(r) \/ alreadyAdmitted(r)
    /\ Finish(r)
    /\ UNCHANGED <<auth, registered, restarts>>

-----------------------------------------------------------------------------
(* OperatorWalletBootstrapService.bootstrap, once the wallet is            *)
(* provisioned: it registers the wallet unless it is, saves the agent, and *)
(* refreshes its entry or admits it.                                       *)
createRegistration(r, w) ==
    /\ request[r].pc = "idle"
    /\ getRegistrationByWallet(w) = None
    /\ Issue("pre_registration", w, MaxChallenges)
    /\ Goto(r, [Idle EXCEPT !.pc = "sign", !.op = "bootstrap", !.nonce = Len(challenges) + 1])

signedRegistration(r) ==
    /\ request[r].pc = "sign"
    /\ \/ register(r, request[r].nonce, "bootstrap")
       \/ /\ \/ challenges[request[r].nonce].expired
             \/ getRegistrationByWallet(challenges[request[r].nonce].wallet) # None
          /\ Finish(r)
          /\ UNCHANGED <<tables, auth, history, restarts>>

bootstrapRegistered_NotAdmitted(r, w) == getRegistrationByWallet(w) # None /\ UNCHANGED vars
bootstrapRegistered(r, w) ==
    /\ request[r].pc = "idle"
    /\ getRegistrationByWallet(w) # None
    /\ Goto(r, [Idle EXCEPT !.pc = "list", !.id = getRegistrationByWallet(w)])
    /\ UNCHANGED <<tables, auth, history, restarts>>

bootstrap(r) ==
    LET w == regs[request[r].id].wallet
        entry == getJudgeListEntryByWallet(w)
    IN  /\ request[r].pc = "list"
        /\ \/ /\ entry = None
              /\ joinJudgeList(r, request[r].id)
           \/ /\ entry # None
              /\ saveAgent(w)
              /\ saveJudgeListEntry(entry, w)
              /\ joined' = joined \cup {w}
              /\ Finish(r)
              /\ UNCHANGED <<challenges, regs, regIndex, auth, registered, restarts>>

(* seedJudgeListedAgent, for the base agents of the demo mode: the two     *)
(* stores differ only for an agent that registered by itself.              *)
seedJudgeListedAgent(w) ==
    LET id == IF regIndex[w] = None THEN Len(regs) + 1 ELSE regIndex[w] IN
    /\ w \notin agents \/ ~isJudgeListed(w)
    /\ saveRegistration(id, Registration(w, "judge_listed"))
    /\ saveJudgeListEntry(id, w)
    /\ saveAgent(w)
    /\ joined' = joined \cup {w}
    /\ UNCHANGED <<challenges, auth, request, registered, restarts>>

-----------------------------------------------------------------------------
expire ==
    /\ MayExpire
    /\ \/ \E n \in DOMAIN challenges :
             /\ ~challenges[n].expired
             /\ challenges' = [challenges EXCEPT ![n].expired = TRUE]
             /\ UNCHANGED sessions
       \/ \E s \in DOMAIN sessions :
             /\ ~sessions[s].expired
             /\ sessions' = [sessions EXCEPT ![s].expired = TRUE]
             /\ UNCHANGED challenges
    /\ UNCHANGED <<regs, regIndex, judgeList, judgeIndex, agents, secret, request, history, restarts>>

(* The API restarts: open transactions roll back, the in-memory store is   *)
(* empty again, and an unconfigured session secret is drawn anew.          *)
restart ==
    /\ restarts < MaxRestarts
    /\ restarts' = restarts + 1
    /\ request' = [r \in Requests |-> Idle]
    /\ secret' = IF FixedSecret THEN secret ELSE secret + 1
    /\ IF Postgres
       THEN UNCHANGED <<tables, sessions, history>>
       ELSE /\ challenges' = <<>> /\ regs' = <<>>
            /\ sessions' = [s \in DOMAIN sessions |-> [sessions[s] EXCEPT !.nonce = None]]
            /\ regIndex' = [w \in AllWallets |-> None]
            /\ judgeIndex' = [w \in AllWallets |-> None]
            /\ judgeList' = {} /\ agents' = {} /\ joined' = {} /\ registered' = <<>>

Handler(r) ==
    \/ finishRegister(r) \/ registerConflict(r) \/ finishLogin(r) \/ finishJoin(r)
    \/ signedRegistration(r) \/ bootstrap(r)

Next ==
    \/ \E w \in Wallets : createPreRegistrationChallenge(w) \/ createLoginChallenge(w)
    \/ \E w \in DemoWallets : seedJudgeListedAgent(w)
    \/ \E r \in Requests :
          \/ \E n \in DOMAIN challenges : startRegister(r, n) \/ login(r, n)
          \/ \E id \in DOMAIN regs : startJoin(r, id)
          \/ \E w \in Wallets : createRegistration(r, w) \/ bootstrapRegistered(r, w)
          \/ signatureInvalid(r)
          \/ Handler(r)
    \/ expire
    \/ restart

Spec == Init /\ [][Next]_vars

(* An operator bootstraps the wallet until it is listed; its wallet signs  *)
(* correctly, and the server finishes what it started.                     *)
FairSpec ==
    /\ Spec
    /\ \A r \in Requests : WF_vars(Handler(r))
    /\ \A r \in Requests, w \in Wallets :
          SF_vars(~isJudgeListed(w) /\ (createRegistration(r, w) \/ bootstrapRegistered(r, w)))

-----------------------------------------------------------------------------
Locals == [pc : {"idle", "verify", "join", "sign", "list"},
           op : {"none", "register", "bootstrap", "login"},
           nonce : 0 .. MaxChallenges, id : 0 .. Len(regs),
           seen : [wallet : AllWallets \cup {None}, status : {"none", "pre_registered", "judge_listed"}]]

(* Indices and locals name rows that exist, and nobody waits for the       *)
(* verification of a challenge it does not name.                           *)
TypeOK ==
    /\ request \in [Requests -> Locals]
    /\ \A r \in Requests : request[r].pc = "verify" => request[r].nonce \in DOMAIN challenges
    /\ \A i \in DOMAIN regs : regs[i].status \in {"pre_registered", "judge_listed"}
    /\ \A w \in AllWallets : regIndex[w] \in 0 .. Len(regs) /\ judgeIndex[w] \in judgeList \cup {None}

(* A challenge is good for one successful registration and one session,    *)
(* whichever requests race with it: register and login.                    *)
OneUsePerChallenge ==
    \A n \in DOMAIN challenges :
       /\ Cardinality({i \in DOMAIN registered : registered[i] = n}) <= 1
       /\ Cardinality({s \in DOMAIN sessions : sessions[s].nonce = n}) <= 1

(* A wallet has one registration, whatever requests for it overlap: the    *)
(* unique column behind register's check.                                  *)
OneRegistrationPerWallet ==
    \A i, j \in DOMAIN regs : regs[i].wallet = regs[j].wallet => i = j

(* What isJudgeListed says of a wallet, asked when a committee is chosen,  *)
(* is what listJudgeListAgents, asked when one is picked, says of it.      *)
ListsAgree == \A w \in AllWallets : isJudgeListed(w) <=> w \in listJudgeListAgents

(* An agent admitted to the judge list is judge-listed, until the          *)
(* in-memory store is gone: joinJudgeList.                                 *)
JoinedIsListed == \A w \in joined : isJudgeListed(w)

(* A token that verify accepts was issued for a challenge of that wallet,  *)
(* consumed by the login: no session outlives the challenge unspent.       *)
SessionsAreEarned ==
    \A s \in DOMAIN sessions, w \in AllWallets : verify(sessions[s], w) =>
       /\ challenges[sessions[s].nonce].wallet = w
       /\ challenges[sessions[s].nonce].consumed

(* What the registrations are good for, in either store and with Postgres: *)
(* the unique columns and the locked rows are only there.  An admission    *)
(* stays good where requests do not overlap: login saves a registration    *)
(* that it read before.                                                    *)
(* [agent-registration-service.ts, register, login, joinJudgeList] *)
OneAtATime == \A q, r \in Requests : q = r
RegistrationSound ==
    /\ TypeOK /\ OneUsePerChallenge
    /\ Postgres => OneRegistrationPerWallet /\ ListsAgree /\ SessionsAreEarned
    /\ OneAtATime => JoinedIsListed

(* An operator that keeps bootstrapping a wallet gets it listed.           *)
EventuallyListed == \A w \in Wallets : <>isJudgeListed(w)
=============================================================================
