----------------------------- MODULE KeyRelease -----------------------------
(***************************************************************************)
(* Who is given a private key.  The endpoints key, unwrapKey and            *)
(* unwrapKeyGcp bring the other modules together: Authentication decides on *)
(* the caller's token, KeyReleasePolicy on the attested claims, KeyLifecycle *)
(* on the key, all by the maps of the node that answers.  A released key is *)
(* encrypted under the wrapping key of the request, which its owner alone   *)
(* can undo; the wrapping key is bound to the attestation by its hash in    *)
(* the report data, or to the token by its hash in eat_nonce.               *)
(*                                                                         *)
(* Governance edits the policies on the primary while the nodes answer from *)
(* the prefix of the ledger they have applied.  Requests that are refused   *)
(* change nothing.  Receipts are asked for but never waited for (see        *)
(* KeyLifecycle) and are left out, as is the format of the answer.          *)
(*                                                                         *)
(* A definition marked "Mutant" is a plausible slip in one after it.        *)
(***************************************************************************)
EXTENDS CcfLedger, FiniteSets

CONSTANTS
  KeyPairs, Nodes, Rotations, NoExpiry, NoKey, MsPerSecond, OhttpIds,
  OhttpBase, MaxTime,                     \* as in KeyLifecycle
  AllClaims, Claims, Values, Edits, Missing, Deleted, Failed, NoEdit,
                                          \* as in KeyReleasePolicy
  Issuers, TokenClaims, Strings, Others, JwtPolicies, Payloads, Null,
                                          \* as in Authentication
  Undefined,      \* the JavaScript value undefined, or a field left out
  Unset,          \* there is no policy
  Clients,        \* who owns wrapping keys
  Nobody,         \* an answer that holds no key
  NotPem,         \* a wrapping key that is not in PEM
  Evidence,       \* attestations that clients present
  Callers,        \* tokens that clients present
  Workloads,      \* the requests of clients that keep asking unwrapKey ...
  TokenWorkloads, \* ... and unwrapKeyGcp
  SetUp           \* the maps of the service once it has been set up

Providers == {"azure", "gcp"}

\* A wrapping key as a PEM string, with newlines or with \n in their place.
WrappingKey == [owner : Clients, form : {"pem", "escaped"}]

\* calculateHexHash: two strings have two hashes.
Hash(string) == [hashed |-> string]

Hashes == [hashed : WrappingKey]

\* genuine: CCF's verifySnpAttestation accepts it.  nonce is the claim eat_nonce:
\* one hash or an array.
Attestation == [claims : [AllClaims -> Values \cup {Undefined}],
                reportData : Hashes, genuine : BOOLEAN]
Caller == [policy : {"jwt"}, iss : Issuers \cup {Undefined}, payload : Payloads,
           nonce : Seq(Hashes) \cup {Undefined}]

ASSUME ReleaseAssumption ==
  /\ Evidence \subseteq Attestation
  /\ \A c \in Callers : /\ c.policy = "jwt"
                        /\ c.iss \in Issuers \cup {Undefined}
                        /\ c.payload \in Payloads
                        /\ c.nonce = Undefined \/ c.nonce \in Seq(Hashes)
  /\ Workloads \subseteq [caller : Callers, attestation : Evidence,
                         provider : {"azure"}, wrappingKey : WrappingKey,
                         kid : KeyPairs \X Nat]
  /\ TokenWorkloads \subseteq [caller : Callers, wrappingKey : WrappingKey]
  /\ Undefined \notin Evidence \cup WrappingKey \cup (KeyPairs \X Nat)
  /\ Undefined \notin Seq(Hashes)
  /\ NotPem \notin WrappingKey \cup {Undefined}
  /\ Nobody \notin Clients

VARIABLES
  now,            \* the clock
  used,           \* every key pair generated so far
  applied,        \* how much of the ledger each node has applied
  answer          \* the last answer 200: which key, encrypted to whom, and
                  \* what it was released for

vars == <<ledger, commit, now, used, applied, answer>>

Keys == INSTANCE KeyLifecycle WITH
  Policies <- Rotations, NoPolicy <- Unset, NoClaims <- Unset,
  Handles <- {1}, HandleOf <- [pair \in KeyPairs |-> 1],
  NoRequest <- Unset, Pending <- Undefined,
  RefreshGap <- 0, MaxDelay <- 0, MaxSkew <- 0,
  historical <- <<>>, published <- {}

Policy == INSTANCE KeyReleasePolicy

Auth == INSTANCE Authentication WITH
  Claims <- TokenClaims, Proposed <- JwtPolicies, Tokens <- Payloads,
  Ids <- {}, NoAction <- Unset

Kid == Keys!Kid

ASSUME PartsAssumption ==
  /\ Keys!ConstantsAssumption
  /\ Policy!PolicyAssumption
  /\ Auth!AuthenticationAssumption

\* The maps in an entry of the ledger.  Those of keys agree (see KeyLifecycle),
\* and policies are such as the actions of governance can leave behind.
KvOK(kv) ==
  /\ DOMAIN kv = {"ids", "keys", "rotation", "release", "jwt"}
  /\ IsFiniteSet(DOMAIN kv.ids)
  /\ kv.ids \in [DOMAIN kv.ids -> Kid]
  /\ Keys!KvConsistent(kv)
  /\ kv.rotation \in Rotations \cup {Unset}
  /\ Policy!PolicyTypeOK(kv.release)
  /\ kv.jwt \in [Issuers -> JwtPolicies \cup {Unset, Null}]

ASSUME SetUpAssumption == KvOK(SetUp)

Answer == [to : Clients \cup {Nobody}, kid : Kid \cup {NoKey},
           by : Providers \cup {"token", "key"}]

NoAnswer == [to |-> Nobody, kid |-> NoKey, by |-> "key"]

Init ==
  /\ ledger = <<SetUp>>
  /\ commit = 1
  /\ now = 0
  /\ used = {SetUp.ids[id][1] : id \in DOMAIN SetUp.ids}
  /\ applied = [n \in Nodes |-> 1]
  /\ answer = NoAnswer

NodeKv(n) == ledger[applied[n]]

-----------------------------------------------------------------------------
(***************************************************************************)
(* The writes of the primary: refresh and governance.                       *)
(***************************************************************************)

WriteOnly(kv) == Write(kv) /\ UNCHANGED <<now, applied, answer>>

Refresh(pair) ==
  LET id == Keys!NextId(Latest)
      kid == <<pair, id>>
      item == Keys!GeneratedKeyItem((id % OhttpIds) + OhttpBase,
                                    Keys!ExpiryTime(Latest, now), now)
  IN  /\ pair \notin used
      /\ WriteOnly([Latest EXCEPT !.ids = Keys!Put(@, id, kid),
                                  !.keys = Keys!Put(@, kid, item)])
      /\ used' = used \cup {pair}

SetKeyRotationPolicy(rotation) ==
  /\ WriteOnly([Latest EXCEPT !.rotation = rotation])
  /\ UNCHANGED used

SetKeyReleasePolicy(edit) ==
  LET release == Policy!Apply(edit, Latest.release)
  IN  /\ Failed \notin {release.claims, release.gte, release.gt}
      /\ WriteOnly([Latest EXCEPT !.release = release])
      /\ UNCHANGED used

SetJwtValidationPolicy(issuer, policy) ==
  /\ Auth!ValidPolicy(policy)
  /\ WriteOnly([Latest EXCEPT !.jwt = Auth!Replaced(@, issuer, policy)])
  /\ UNCHANGED used

-----------------------------------------------------------------------------
(***************************************************************************)
(* The checks of the endpoints, in their order, on the maps kv.             *)
(***************************************************************************)

IsPem(wrappingKey) == wrappingKey \notin {Undefined, NotPem}

\* Mutant: the policy is read once, when the service starts.
ReleasePolicyAtStart(kv) == SetUp.release

ReleasePolicy(kv) == kv.release

\* validateAttestation.
AttestationStatus(kv, attestation, provider) ==
  IF ~ attestation.genuine THEN 500
  ELSE IF provider = "gcp" THEN Policy!GcpStatus(attestation.claims)
  ELSE Policy!AzureStatus(ReleasePolicy(kv), attestation.claims)

\* Mutant: the policies for tokens are read once, when the service starts.
CallerStatusAtStart(kv, caller) == Auth!IsAuthenticated(SetUp, caller)

\* isAuthenticated.
CallerStatus(kv, caller) == Auth!IsAuthenticated(kv, caller)

\* Mutant: only attestations from Azure have report data to compare.
BoundOnAzure(request) ==
  request.provider = "azure" =>
    request.attestation.reportData = Hash(request.wrappingKey)

\* The report data begin with the hash of the wrapping key as it was sent.
Bound(request) == request.attestation.reportData = Hash(request.wrappingKey)

\* CCF encrypts under a PEM with newlines only.
WrapStatus(wrappingKey) == IF wrappingKey.form = "pem" THEN 200 ELSE 500

\* unwrapKey.
UnwrapKeyStatus(kv, request, t) ==
  LET caller == CallerStatus(kv, request.caller)
      attested == AttestationStatus(kv, request.attestation, request.provider)
  IN  IF request.attestation = Undefined THEN 400
      ELSE IF caller # 200 THEN caller
      ELSE IF request.kid = Undefined \/ ~ IsPem(request.wrappingKey) THEN 400
      ELSE IF attested # 200 THEN attested
      ELSE IF ~ Bound(request) THEN 400
      ELSE IF request.kid \notin DOMAIN kv.keys THEN 404
      ELSE IF Keys!IsExpired(kv, request.kid, t) THEN 410
      ELSE WrapStatus(request.wrappingKey)

\* Mutant: the wrapping key is hashed and used as it was sent.
NormalizedNot(wrappingKey) == wrappingKey

\* wrappingKeyNormalized: every \n becomes a newline.
Normalized(wrappingKey) == [wrappingKey EXCEPT !.form = "pem"]

\* The first nonce counts; an empty array makes the comparison throw.
NonceStatus(nonce, wrappingKey) ==
  CASE nonce = Undefined -> 400
    [] nonce = <<>> -> 500
    [] OTHER -> IF Head(nonce) = Hash(Normalized(wrappingKey)) THEN 200
                                                               ELSE 400

\* unwrapKeyGcp: always the newest key, expired or not, and no attestation.
UnwrapKeyGcpStatus(kv, request) ==
  LET caller == CallerStatus(kv, request.caller)
      bound == NonceStatus(request.caller.nonce, request.wrappingKey)
      kid == Keys!LatestItem(kv)
  IN  IF caller # 200 THEN caller
      ELSE IF ~ IsPem(request.wrappingKey) THEN 400
      ELSE IF bound # 200 THEN bound
      ELSE IF kid = NoKey THEN 400
      ELSE IF kid \notin DOMAIN kv.keys THEN 404
      ELSE WrapStatus(Normalized(request.wrappingKey))

\* key: the kid of the query or the newest.
KeyKid(kv, request) ==
  IF request.kid = Undefined THEN Keys!LatestItem(kv) ELSE request.kid

KeyStatus(kv, request) ==
  LET caller == CallerStatus(kv, request.caller)
      attested == AttestationStatus(kv, request.attestation, request.provider)
      kid == KeyKid(kv, request)
  IN  IF request.attestation = Undefined THEN 400
      ELSE IF caller # 200 THEN caller
      ELSE IF kid = NoKey THEN 400
      ELSE IF attested # 200 THEN attested
      ELSE IF kid \notin DOMAIN kv.keys THEN 404 ELSE 200

-----------------------------------------------------------------------------
(***************************************************************************)
(* The endpoints.                                                           *)
(***************************************************************************)

\* The requests to node n: bodies with or without a wrapping key, and the kids
\* that could be found.
AnyWrappingKey == WrappingKey \cup {Undefined, NotPem}

KnownKids(n) == DOMAIN NodeKv(n).keys

UnwrapRequest(n) ==
  [caller : Callers, attestation : Evidence \cup {Undefined},
   provider : Providers, wrappingKey : AnyWrappingKey,
   kid : KnownKids(n) \cup {Undefined}]

TokenRequest == [caller : Callers, wrappingKey : AnyWrappingKey]

Answered(to, kid, by) ==
  /\ answer' = [to |-> to, kid |-> kid, by |-> by]
  /\ UNCHANGED <<ledger, commit, now, used, applied>>

UnwrapKey(n, request) ==
  /\ UnwrapKeyStatus(NodeKv(n), request, now) = 200
  /\ Answered(request.wrappingKey.owner, request.kid, request.provider)

UnwrapKeyGcp(n, request) ==
  /\ UnwrapKeyGcpStatus(NodeKv(n), request) = 200
  /\ Answered(request.wrappingKey.owner, Keys!LatestItem(NodeKv(n)), "token")

\* KeyWrapper puts an empty string, or zeros, in the place of a key that there
\* is no wrapping key for, and key never has one.
Key(n, request) ==
  /\ KeyStatus(NodeKv(n), request) = 200
  /\ Answered(Nobody, KeyKid(NodeKv(n), request), "key")

-----------------------------------------------------------------------------
(***************************************************************************)
(* The environment: the clock, and CCF's replication.                       *)
(***************************************************************************)

Tick ==
  /\ now < MaxTime
  /\ now' = now + 1
  /\ UNCHANGED <<ledger, commit, used, applied, answer>>

Commit ==
  /\ \E v \in 1 .. MaxLedger : GloballyCommit(v)
  /\ UNCHANGED <<now, used, applied, answer>>

Replicate(n) ==
  /\ \E v \in applied[n] + 1 .. Len(ledger) :
       applied' = [applied EXCEPT ![n] = v]
  /\ UNCHANGED <<ledger, commit, now, used, answer>>

NewPrimary(v) ==
  /\ Rollback(v)
  /\ applied' = [n \in Nodes |-> IF applied[n] > v THEN v ELSE applied[n]]
  /\ UNCHANGED <<now, used, answer>>

-----------------------------------------------------------------------------

Writes ==
  \/ \E pair \in KeyPairs : Refresh(pair)
  \/ \E rotation \in Rotations : SetKeyRotationPolicy(rotation)
  \/ \E edit \in Edits : SetKeyReleasePolicy(edit)
  \/ \E issuer \in Issuers, policy \in JwtPolicies :
       SetJwtValidationPolicy(issuer, policy)

Reads ==
  \/ \E n \in Nodes : \E request \in UnwrapRequest(n) : UnwrapKey(n, request)
  \/ \E n \in Nodes, request \in TokenRequest : UnwrapKeyGcp(n, request)
  \/ \E n \in Nodes : \E request \in UnwrapRequest(n) : Key(n, request)

Service ==
  \/ Tick
  \/ Commit
  \/ \E n \in Nodes : Replicate(n)
  \/ \E v \in 1 .. MaxLedger : NewPrimary(v)

Next == Writes \/ Reads \/ Service

Spec == Init /\ [][Next]_vars

\* CCF brings every node up to date.
ReplicatedSpec == Spec /\ \A n \in Nodes : WF_vars(Replicate(n))

-----------------------------------------------------------------------------
(***************************************************************************)
(* Properties.                                                              *)
(***************************************************************************)

TypeOK ==
  /\ LedgerTypeOK
  /\ \A i \in 1 .. Len(ledger) : KvOK(ledger[i])
  /\ now \in 0 .. MaxTime
  /\ used \subseteq KeyPairs
  /\ applied \in [Nodes -> 1 .. Len(ledger)]
  /\ answer \in Answer

\* The claims of a token are what the policy of its issuer asks for.
Trusted(kv, caller) ==
  /\ caller.iss # Undefined
  /\ kv.jwt[caller.iss] \notin {Unset, Null}
  /\ \A c \in DOMAIN kv.jwt[caller.iss] :
       caller.payload[c] \in kv.jwt[caller.iss][c].values

\* Of a policy with both operators only gt is in force (see OperatorsBothChecked
\* in KeyReleasePolicy).
InForce(policy) ==
  IF Policy!BothOperators(policy)
  THEN [claims |-> policy.claims, gte |-> Missing, gt |-> policy.gt]
  ELSE policy

\* The workload of an attestation may have the keys in kv.
Entitled(kv, attestation) ==
  /\ attestation.genuine
  /\ Policy!Accepts(InForce(kv.release), attestation.claims)

\* Answering from kv, why may the owner of key be given the private key kid?
Justified(kv, key, kid, by) ==
  /\ key.form = "pem"
  /\ kid \in DOMAIN kv.keys
  /\ \/ /\ by = "token"
        /\ \A other \in DOMAIN kv.keys : other[2] <= kid[2]
        /\ \E caller \in Callers :
             /\ Trusted(kv, caller)
             /\ caller.nonce \notin {Undefined, <<>>}
             /\ Head(caller.nonce) = Hash(key)
     \/ /\ by \in Providers
        /\ ~ Keys!IsExpired(kv, kid, now)
        /\ \E caller \in Callers : Trusted(kv, caller)
        /\ \E attestation \in Evidence :
             /\ attestation.genuine
             /\ attestation.reportData = Hash(key)
             /\ by = "azure" => Entitled(kv, attestation)

\* A private key reaches nobody but the one who owns the wrapping key that an
\* attestation, or the token, vouches for, and then only what the policies on
\* the answering node grant: with an attestation (for Azure, one that the
\* release policy accepts) any key that has not expired, with a token alone the
\* newest.  Whatever wrapping keys, tokens and attestations are combined in a
\* request, nobody receives a key on another's credentials; key, which takes no
\* wrapping key, gives none away.
ReleasedToBound ==
  [][ \/ answer' = answer
      \/ answer'.to = Nobody
      \/ \E n \in Nodes, key \in WrappingKey :
           /\ key.owner = answer'.to
           /\ Justified(NodeKv(n), key, answer'.kid, answer'.by) ]_vars

\* Node n answers 200 to some request with an attestation presented as that of
\* a provider, or by a caller.
AnswersAttested(n, attestation, provider) ==
  \E request \in UnwrapRequest(n) :
    /\ request.attestation = attestation
    /\ request.provider = provider
    /\ \/ UnwrapKeyStatus(NodeKv(n), request, now) = 200
       \/ KeyStatus(NodeKv(n), request) = 200

AnswersCaller(n, caller) ==
  \/ \E request \in UnwrapRequest(n) :
       /\ request.caller = caller
       /\ \/ UnwrapKeyStatus(NodeKv(n), request, now) = 200
          \/ KeyStatus(NodeKv(n), request) = 200
  \/ \E request \in TokenRequest :
       /\ request.caller = caller
       /\ UnwrapKeyGcpStatus(NodeKv(n), request) = 200

\* Once governance has settled on release policies that refuse a workload,
\* whatever else it goes on to change and whatever primaries fail, the time
\* comes after which no node answers a request that presents its attestation as
\* one of Azure.  This says nothing of the same attestation presented as one of
\* gcp: the requester chooses attestationType, no release policy is consulted
\* for gcp, and the request goes on being answered (GcpSkipsReleasePolicy in
\* KeyReleaseProofs).  Revoking a workload for good takes DistrustTakesEffect.
RevocationTakesEffect ==
  \A attestation \in Evidence :
    <>[](~ Entitled(Latest, attestation))
      => <>[](\A n \in Nodes : ~ AnswersAttested(n, attestation, "azure"))

\* Once governance has settled on token policies that refuse a caller, the time
\* comes after which no node answers that caller any request, by whatever
\* endpoint and with whatever attestation, provider or wrapping key.
DistrustTakesEffect ==
  \A caller \in Callers :
    <>[](~ Trusted(Latest, caller))
      => <>[](\A n \in Nodes : ~ AnswersCaller(n, caller))

\* What unwrapKey and unwrapKeyGcp promise to a request.
Deserves(kv, request) ==
  /\ request.wrappingKey.form = "pem"
  /\ Trusted(kv, request.caller)
  /\ request.attestation.reportData = Hash(request.wrappingKey)
  /\ Entitled(kv, request.attestation)
  /\ request.kid \in DOMAIN kv.keys
  /\ ~ Keys!IsExpired(kv, request.kid, now)

DeservesByToken(kv, request) ==
  /\ Trusted(kv, request.caller)
  /\ request.caller.nonce \notin {Undefined, <<>>}
  /\ Head(request.caller.nonce) = Hash([request.wrappingKey EXCEPT !.form = "pem"])
  /\ DOMAIN kv.keys # {}

\* A workload that governance lets have a key, from some time on and for good,
\* is given it by every node from some time on: token, attestation and key
\* become valid everywhere, and nothing else stands in the way.
EntitledServed ==
  /\ \A request \in Workloads :
       <>[]Deserves(Latest, request)
         => <>[](\A n \in Nodes :
                   UnwrapKeyStatus(NodeKv(n), request, now) = 200)
  /\ \A request \in TokenWorkloads :
       <>[]DeservesByToken(Latest, request)
         => <>[](\A n \in Nodes : UnwrapKeyGcpStatus(NodeKv(n), request) = 200)
=============================================================================
