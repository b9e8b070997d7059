---------------------------- MODULE PayloadUpload -----------------------------
(***************************************************************************)
(* POST /payloads.  A body is authorized by a session, the operator's      *)
(* token or the wallet's signature over the payload's hash; a session's    *)
(* payload is normalized to the vault's round; what is to be stored is     *)
(* pinned, read back through gateways until one of them serves it, and     *)
(* recorded under its hash.                                                *)
(*                                                                         *)
(* A payload is the record its hash is taken of, and a CID is the payload  *)
(* it addresses.  What bootstrapping does besides opening the round is     *)
(* Committees', and what stored payloads are for is Submissions'.          *)
(***************************************************************************)
EXTENDS Integers, Sequences, FiniteSets

CONSTANTS
    Requests, Wallets, Contents,
    Kinds,        \* of {"phase", "other"}: a phase's kinds have its round
    Gateways,
    Configured,   \* the gateway of the settings
    Defaults,     \* a sequence of gateways, the pinning service's own first
    Pinata,       \* the pinning service is the one that own gateway belongs to
    Steady,       \* gateways that serve what is pinned, at once and always
    Provider,     \* "ipfs" or "local"
    Production,
    MaxRounds, MaxSigned, MaxCalls   \* bounds

PayloadUploadAssumption ==
    /\ Kinds \subseteq {"phase", "other"} /\ Provider \in {"ipfs", "local"}
    /\ {Pinata, Production} \subseteq BOOLEAN /\ "none" \notin Contents
    /\ Configured \in Gateways /\ Defaults \in Seq(Gateways) /\ Defaults # <<>>
    /\ MaxRounds \in Nat \ {0} /\ MaxSigned \in Nat

VARIABLES
    round,      \* of the vault's phase; a committee exists when it is positive
    signed,     \* messages that wallets have signed
    request,
    stored,     \* records of uploads, one for each payload
    calls

vars == <<round, signed, request, stored, calls>>

IPFS_VERIFICATION_MAX_ATTEMPTS == 3
Payload == [content : Contents, kind : Kinds, round : 0 .. MaxRounds]
NoPayload == [content |-> "none", kind |-> "other", round |-> 0]
NoMessage == [wallet |-> "none", payload |-> NoPayload, vault |-> "none"]

(* What a record keeps, and, for the properties, how the upload was        *)
(* authorized, what was sent, and in which round. *)
NoUpload == [payload |-> NoPayload, vault |-> "none", uri |-> NoPayload,
             by |-> "none", wallet |-> "none", sent |-> NoPayload, at |-> 0]
Idle == [pc |-> "idle", message |-> NoMessage, session |-> FALSE, token |-> FALSE,
         upload |-> NoUpload, attempt |-> 0, gateway |-> 1]

Init ==
    /\ round = 0 /\ signed = {} /\ stored = {} /\ calls = 0
    /\ request = [r \in Requests |-> Idle]

-----------------------------------------------------------------------------
buildPayloadUploadMessage(w, p, v) == [wallet |-> w, payload |-> p, vault |-> v]

sign(w) ==
    /\ Cardinality(signed) < MaxSigned
    /\ \E p \in Payload, v \in {"none", "vault"} :
          signed' = signed \cup {buildPayloadUploadMessage(w, p, v)}
    /\ UNCHANGED <<round, request, stored, calls>>

(* A body may carry any message that was signed, and credentials or none. *)
post(r) ==
    /\ request[r].pc \in {"idle", "unverified"} /\ calls < MaxCalls /\ calls' = calls + 1
    /\ \E p \in Payload, v \in {"none", "vault"}, w \in Wallets \cup {"none"},
          msg \in signed \cup {NoMessage}, s, t \in BOOLEAN :
        request' = [request EXCEPT ![r] =
            [Idle EXCEPT !.pc = "authorize", !.message = msg, !.session = s /\ w # "none", !.token = t,
               !.upload = [NoUpload EXCEPT !.payload = p, !.sent = p, !.vault = v, !.wallet = w]]]
    /\ UNCHANGED <<round, signed, stored>>

goes(r, q) == request' = [request EXCEPT ![r] = q]
refused(r) == goes(r, Idle)

matches(q) == q.message = buildPayloadUploadMessage(q.upload.wallet, q.upload.payload, q.upload.vault)

authorizedBy(q) ==
    CASE q.session -> "session"
      [] ~q.session /\ ~Production -> "nobody"
      [] ~q.session /\ Production /\ q.token -> "operator"
      [] ~q.session /\ Production /\ ~q.token /\ q.upload.wallet # "none" /\ q.message # NoMessage ->
            IF matches(q) /\ q.message \in signed THEN "signature" ELSE "none"
      [] OTHER -> "none"

authorize(r) ==
    LET q == request[r]  by == authorizedBy(q) IN
    /\ q.pc = "authorize"
    /\ IF by = "none" THEN refused(r)
       ELSE goes(r, [q EXCEPT !.upload.by = by, !.pc = IF by = "session" THEN "normalize" ELSE "store"])
    /\ UNCHANGED <<round, signed, stored, calls>>

(* The round of a vault's payload is set when it is left open; a phase     *)
(* without a committee has one seated first, or the upload fails.          *)
normalizePayloadRound(p, current) ==
    IF p.kind = "phase" THEN [p EXCEPT !.round = current] ELSE p

normalizePayloadUploadInput(r) ==
    LET q == request[r]  p == q.upload.payload
        current == IF p.kind = "phase" /\ round = 0 THEN 1 ELSE round
        done == [q EXCEPT !.pc = "store", !.upload.at = current,
                          !.upload.payload = normalizePayloadRound(p, current)]
    IN  /\ q.pc = "normalize"
        /\ CASE q.upload.vault = "none" -> goes(r, [q EXCEPT !.pc = "store"]) /\ UNCHANGED round
             [] q.upload.vault # "none" /\ p.kind = "phase" /\ p.round \notin {0, current} ->
                    refused(r) /\ UNCHANGED round
             [] OTHER -> \/ goes(r, done) /\ round' = IF p.kind = "phase" THEN current ELSE round
                         \/ p.kind = "phase" /\ round = 0 /\ refused(r) /\ UNCHANGED round
        /\ UNCHANGED <<signed, stored, calls>>

nextRound == round \in 1 .. MaxRounds - 1 /\ round' = round + 1 /\ UNCHANGED <<signed, request, stored, calls>>

-----------------------------------------------------------------------------
put_Added(kept, u) == kept \cup {u}
put(kept, u) == {k \in kept : k.payload # u.payload} \cup {u}

(* Without IPFS the record's address is made of the hash, and that is not  *)
(* good enough for production. *)
storePayload(r) ==
    /\ request[r].pc = "store"
    /\ IF Provider = "ipfs" THEN goes(r, [request[r] EXCEPT !.pc = "pin"]) /\ UNCHANGED stored
       ELSE /\ stored' = IF Production THEN stored ELSE put(stored, request[r].upload)
            /\ refused(r)
    /\ UNCHANGED <<round, signed, calls>>

(* The pinning service fails, answers without a CID, or with one, which    *)
(* may be of something else. *)
pinToIpfs(r) ==
    /\ request[r].pc = "pin"
    /\ \/ refused(r)
       \/ \E uri \in {request[r].upload.payload, NoPayload} :
            goes(r, [request[r] EXCEPT !.pc = "verify", !.upload.uri = uri])
    /\ UNCHANGED <<round, signed, stored, calls>>

gateways ==
    (IF Pinata THEN <<Defaults[1]>> ELSE <<>>) \o <<Configured>> \o Defaults

(* The places where a gateway comes first: a JavaScript set keeps the      *)
(* order in which its members came. *)
resolveVerificationGateways ==
    {i \in DOMAIN gateways : \A j \in DOMAIN gateways : j < i => gateways[j] # gateways[i]}
after(i) == {j \in resolveVerificationGateways : i < j}

(* After a failure the next gateway is asked, after the last one the first *)
(* again, three times over. *)
fails(q) ==
    IF after(q.gateway) # {}
    THEN [q EXCEPT !.gateway = CHOOSE i \in after(@) : \A j \in after(@) : i <= j]
    ELSE IF q.attempt + 1 < IPFS_VERIFICATION_MAX_ATTEMPTS
      THEN [q EXCEPT !.attempt = @ + 1, !.gateway = 1]
      ELSE [q EXCEPT !.pc = "unverified"]

(* A gateway serves the CID's content, or something else, or does not.     *)
fetchPinnedPayload(g, uri) ==
    IF g \in Steady THEN {[ok |-> TRUE, payload |-> uri]}
    ELSE {[ok |-> TRUE, payload |-> uri], [ok |-> TRUE, payload |-> NoPayload], [ok |-> FALSE, payload |-> NoPayload]}

verified_Served(result, u) == result.ok
verified(result, u) == result.ok /\ result.payload = u.payload

verifyPinnedPayload(r) ==
    LET q == request[r] IN
    /\ q.pc = "verify"
    /\ \E result \in fetchPinnedPayload(gateways[q.gateway], q.upload.uri) :
        IF verified(result, q.upload) THEN stored' = put(stored, q.upload) /\ goes(r, Idle)
        ELSE goes(r, fails(q)) /\ UNCHANGED stored
    /\ UNCHANGED <<round, signed, calls>>

progress(r) ==
    authorize(r) \/ normalizePayloadUploadInput(r) \/ storePayload(r) \/ pinToIpfs(r) \/ verifyPinnedPayload(r)

Next == nextRound \/ (\E w \in Wallets : sign(w)) \/ \E r \in Requests : post(r) \/ progress(r)

(* A gateway has eight seconds, the pinning service fetch's own limit. *)
Spec == Init /\ [][Next]_vars /\ \A r \in Requests : WF_vars(progress(r))

-----------------------------------------------------------------------------
(* Records keep their shape, one for each payload, and requests stay       *)
(* within the attempts and gateways there are. *)
TypeOK ==
    /\ round \in 0 .. MaxRounds /\ Cardinality(signed) <= MaxSigned
    /\ \A u \in stored : u.payload \in Payload /\ u.vault \in {"none", "vault"}
    /\ \A u, v \in stored : u.payload = v.payload => u = v
    /\ \A r \in Requests :
        /\ request[r].attempt \in 0 .. IPFS_VERIFICATION_MAX_ATTEMPTS - 1
        /\ request[r].gateway \in resolveVerificationGateways

(* A signature authorizes the payload, vault and wallet it was made for:   *)
(* what is stored on its account is what was signed (registerPayloadRoutes). *)
SignedAsStored ==
    \A u \in stored : u.by = "signature" =>
        buildPayloadUploadMessage(u.wallet, u.payload, u.vault) \in signed

(* What a production record's address names is the payload the record is   *)
(* kept under, whatever the pinning service answered (verifyPinnedPayload). *)
StoredIsPinned == Production => \A u \in stored : u.uri = u.payload

(* What a session uploaded for a vault is found again when it is submitted *)
(* as it was sent, until the round moves on: uploading and submitting      *)
(* normalize alike (normalizePayloadUploadInput, normalizeAgentSubmissionInput). *)
UploadIsFound ==
    \A u \in stored : u.by = "session" /\ u.vault # "none" /\ u.at = round =>
        \E v \in stored : v.payload = IF u.sent.kind = "phase" THEN [u.sent EXCEPT !.round = round] ELSE u.sent

(* An upload is not given up as unverified while some gateway serves what  *)
(* was pinned (test "falls back to the Pinata gateway when the configured  *)
(* gateway returns 504"). *)
ServedIsVerified ==
    \A r \in Requests : request[r].pc = "unverified" /\ request[r].upload.uri = request[r].upload.payload =>
        \A i \in resolveVerificationGateways : gateways[i] \notin Steady

(* An upload is stored or refused, whatever the gateways do (verifyPinnedPayload). *)
UploadEnds == \A r \in Requests : request[r].pc # "idle" ~> request[r].pc \in {"idle", "unverified"}
=============================================================================
