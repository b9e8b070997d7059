---------------------------- MODULE ConnectedWallet ----------------------------
(***************************************************************************)
(* The wallet of the web application: injected providers that turn up when *)
(* they like, the best of which is listened to, and the shown account,     *)
(* written by every call that comes back.  A call is three requests, each  *)
(* answered in its own time, so that calls overtake one another.           *)
(*                                                                         *)
(* Balances, error texts and the watched chain's warning are left out.     *)
(***************************************************************************)
EXTENDS Integers, Sequences, FiniteSets

CONSTANTS
    Providers,
    providerScore,          \* of [Providers -> Nat], without ties
    Accounts, Chains,
    NoAccount, NoProvider,
    MaxChanges, MaxConnects \* bounds

ConnectedWalletAssumption ==
    /\ providerScore \in [Providers -> Nat]
    /\ \A p, q \in Providers : providerScore[p] = providerScore[q] => p = q
    /\ IsFiniteSet(Providers) /\ NoAccount \notin Accounts /\ NoProvider \notin Providers
    /\ {MaxChanges, MaxConnects} \subseteq Nat

VARIABLES
    silent,     \* providers that are injected and never announce themselves
    present,    \* providers that the page can find
    wallet,     \* what each provider would answer
    events,     \* the providers' notifications on their way to the page
    attached,   \* currentProvider
    listening,  \* providers that have the page's listeners
    calls,      \* fetchAccountInfo, connect and disconnect, in the order they began
    shown,      \* the state that useWallet returns
    applied,    \* the call that wrote it last
    changes, connects

vars == <<silent, present, wallet, events, attached, listening, calls, shown, applied, changes, connects>>
world == <<silent, present, wallet, events, attached, listening, changes, connects>>

Call == [kind : {"fetch", "connect", "disconnect"}, pc : {"find", "accounts", "chain", "balance", "done"},
         provider : Providers \cup {NoProvider}, account : Accounts \cup {NoAccount}, chain : Chains \cup {0}]
defaultState == [address |-> NoAccount, chainId |-> 0, isConnected |-> FALSE, isConnecting |-> FALSE]

getInjectedEthereumProvider(found) ==
    IF found = {} THEN NoProvider
    ELSE CHOOSE p \in found : \A q \in found : providerScore[q] <= providerScore[p]

newCall(kind, pc, p) == [kind |-> kind, pc |-> pc, provider |-> p, account |-> NoAccount, chain |-> 0]

(* The page is mounted after wallets that do not announce themselves have  *)
(* been injected, or before. *)
Init ==
    /\ silent \in SUBSET Providers /\ present \in SUBSET silent /\ events = <<>>
    /\ attached = getInjectedEthereumProvider(present) /\ listening = {attached} \ {NoProvider}
    /\ wallet \in [Providers -> [account : Accounts \cup {NoAccount}, chain : Chains]]
    /\ calls = IF present = {} THEN <<>> ELSE <<newCall("fetch", "accounts", attached)>>
    /\ shown = defaultState /\ applied = 0 /\ changes = 0 /\ connects = 0

-----------------------------------------------------------------------------
fetchAccountInfo(found) == Append(calls, newCall("fetch", "accounts", getInjectedEthereumProvider(found)))

detachProvider(l) == l \ {attached}

attachProvider(p, found) ==
    IF p \in {NoProvider, attached} THEN UNCHANGED <<attached, listening, calls>>
    ELSE /\ attached' = p /\ listening' = detachProvider(listening) \cup {p}
         /\ calls' = fetchAccountInfo(found)

handleProvider_First(p) == IF attached = NoProvider THEN p ELSE attached
handleProvider(p) == getInjectedEthereumProvider(present \cup {p})

(* A provider that announces itself is remembered and the best is attached. *)
announceProvider(p) ==
    /\ p \notin present \cup silent /\ present' = present \cup {p}
    /\ attachProvider(handleProvider(p), present')
    /\ UNCHANGED <<silent, wallet, events, shown, applied, changes, connects>>

inject(p) ==
    /\ p \in silent \ present /\ present' = present \cup {p}
    /\ UNCHANGED <<silent, wallet, events, attached, listening, calls, shown, applied, changes, connects>>

(* The user picks another account or none, or another chain, in the        *)
(* extension or by the page's request. *)
changes_(p, w, kind) ==
    /\ wallet' = [wallet EXCEPT ![p] = w]
    /\ events' = IF p \in listening /\ w # wallet[p] THEN Append(events, [provider |-> p, kind |-> kind, account |-> w.account])
                 ELSE events

switchNetwork(p) ==
    /\ changes < MaxChanges /\ changes' = changes + 1
    /\ \/ \E c \in Chains : changes_(p, [wallet[p] EXCEPT !.chain = c], "chain")
       \/ \E a \in Accounts \cup {NoAccount} : changes_(p, [wallet[p] EXCEPT !.account = a], "accounts")
    /\ UNCHANGED <<silent, present, attached, listening, calls, shown, applied, connects>>

disconnect ==
    /\ calls' = Append(calls, newCall("disconnect", "done", NoProvider))
    /\ shown' = defaultState /\ applied' = Len(calls')

handleChainChanged == calls' = fetchAccountInfo(present) /\ UNCHANGED <<shown, applied>>

handleAccountsChanged ==
    LET e == Head(events) IN
    /\ events # <<>> /\ events' = Tail(events)
    /\ CASE e.provider \notin listening -> UNCHANGED <<calls, shown, applied>>
         [] e.provider \in listening /\ e.kind = "accounts" /\ e.account = NoAccount -> disconnect
         [] OTHER -> handleChainChanged
    /\ UNCHANGED <<silent, present, wallet, attached, listening, changes, connects>>

connect ==
    /\ connects < MaxConnects /\ connects' = connects + 1
    /\ calls' = Append(calls, newCall("connect", "find", NoProvider))
    /\ UNCHANGED <<silent, present, wallet, events, attached, listening, shown, applied, changes>>

-----------------------------------------------------------------------------
goes(i, c) == calls' = [calls EXCEPT ![i] = c]
writes(i, s) == shown' = s /\ applied' = i
ends(i) == goes(i, newCall(calls[i].kind, "done", NoProvider))

(* The provider that is there, or none when the half second is over. *)
waitForInjectedEthereumProvider(i) ==
    LET p == getInjectedEthereumProvider(present) IN
    /\ calls[i].pc = "find"
    /\ IF p = NoProvider THEN ends(i) /\ writes(i, [shown EXCEPT !.isConnecting = FALSE])
       ELSE /\ goes(i, [calls[i] EXCEPT !.pc = "accounts", !.provider = p])
            /\ shown' = [shown EXCEPT !.isConnecting = TRUE] /\ UNCHANGED applied
    /\ UNCHANGED world

(* Asked to connect, the wallet lets the user pick an account. *)
answerAccounts(i) ==
    LET c == calls[i]  w == wallet[c.provider] IN
    /\ c.pc = "accounts"
    /\ IF c.kind = "connect" /\ w.account = NoAccount
       THEN \E a \in Accounts : changes_(c.provider, [w EXCEPT !.account = a], "accounts")
                                /\ goes(i, [c EXCEPT !.pc = "chain", !.account = a])
       ELSE goes(i, [c EXCEPT !.pc = "chain", !.account = w.account]) /\ UNCHANGED <<wallet, events>>
    /\ UNCHANGED <<silent, present, attached, listening, shown, applied, changes, connects>>

answerChain(i) ==
    LET c == calls[i]  chain == wallet[c.provider].chain IN
    /\ c.pc = "chain"
    /\ IF c.account = NoAccount
       THEN ends(i) /\ writes(i, [defaultState EXCEPT !.chainId = chain])
       ELSE goes(i, [c EXCEPT !.pc = "balance", !.chain = chain]) /\ UNCHANGED <<shown, applied>>
    /\ UNCHANGED world

answerBalance(i) ==
    LET c == calls[i] IN
    /\ c.pc = "balance" /\ ends(i)
    /\ writes(i, [address |-> c.account, chainId |-> c.chain, isConnected |-> TRUE, isConnecting |-> FALSE])
    /\ UNCHANGED world

(* A request fails: connecting is over, what a fetch would show is not. *)
catch(c) == IF c.kind = "connect" THEN [shown EXCEPT !.isConnecting = FALSE] ELSE shown
fail(i) ==
    /\ calls[i].pc \in {"accounts", "chain", "balance"} /\ ends(i)
    /\ shown' = catch(calls[i]) /\ UNCHANGED <<world, applied>>

step(i) ==
    \/ waitForInjectedEthereumProvider(i) \/ answerAccounts(i)
    \/ answerChain(i) \/ answerBalance(i) \/ fail(i)

Next ==
    \/ \E p \in Providers : announceProvider(p) \/ inject(p) \/ switchNetwork(p)
    \/ handleAccountsChanged \/ connect
    \/ \E i \in DOMAIN calls : step(i)

(* Providers answer what they are asked, or fail. *)
Fairness == WF_vars(\E i \in DOMAIN calls : step(i))
Spec == Init /\ [][Next]_vars /\ Fairness

-----------------------------------------------------------------------------
TypeOK ==
    /\ silent \subseteq Providers /\ present \subseteq Providers /\ listening \subseteq Providers
    /\ attached \in Providers \cup {NoProvider}
    /\ wallet \in [Providers -> [account : Accounts \cup {NoAccount}, chain : Chains]]
    /\ events \in Seq([provider : Providers, kind : {"accounts", "chain"}, account : Accounts \cup {NoAccount}])
    /\ calls \in Seq(Call) /\ applied \in 0 .. Len(calls)
    /\ shown \in [address : Accounts \cup {NoAccount}, chainId : Chains \cup {0}, isConnected : BOOLEAN, isConnecting : BOOLEAN]
    /\ changes \in 0 .. MaxChanges /\ connects \in 0 .. MaxConnects

quiet == events = <<>> /\ \A i \in DOMAIN calls : calls[i].pc = "done"
best == getInjectedEthereumProvider(present)

(* Once everything is answered the page shows the account and the chain of *)
(* the best provider, whatever was switched meanwhile, if the call that    *)
(* began last is also the one that wrote last: no change goes unnoticed.   *)
(* [Wallet.tsx, handleAccountsChanged, handleChainChanged, fetchAccountInfo] *)
ShownIsCurrent ==
    quiet /\ silent = {} /\ applied = Len(calls) /\ best # NoProvider =>
        /\ shown.address = wallet[best].account
        /\ shown.isConnected = (wallet[best].account # NoAccount)
        /\ shown.isConnected => shown.chainId = wallet[best].chain

(* The page listens to one provider at a time, the best of those that have *)
(* announced themselves.  [Wallet.tsx, attachProvider; injected.ts,        *)
(* subscribeToInjectedWalletProviders] *)
ListensToTheBest ==
    LET announced == present \ silent IN
    /\ listening = {attached} \ {NoProvider}
    /\ silent = {} => attached = best
    /\ announced # {} => \A p \in announced : providerScore[p] <= providerScore[attached]

(* Connecting comes to an end, with an account or an error, when no wallet *)
(* is there, when it fails and when other calls come in between.           *)
(* [Wallet.tsx, connect] *)
ConnectingEnds == shown.isConnecting ~> ~shown.isConnecting
=============================================================================
