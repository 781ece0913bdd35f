-------------------------- MODULE KeyReleaseProofs --------------------------
(***************************************************************************)
(* Private keys reach only those who are entitled to them: for any number   *)
(* of clients, nodes, keys and issuers, any evidence and tokens, any service *)
(* that was set up properly and whatever governance makes of it afterwards. *)
(*                                                                         *)
(* What edits do to release policies, and that the validation of claims     *)
(* answers as a policy says, is taken from KeyReleasePolicyProofs.          *)
(***************************************************************************)
EXTENDS KeyRelease, CcfLedgerProofs, FiniteSetTheorems

Edited == INSTANCE KeyReleasePolicyProofs

-----------------------------------------------------------------------------
(***************************************************************************)
(* What the parts contribute.                                               *)
(***************************************************************************)

LEMMA EditedAssumption == Edited!LedgerAssumption /\ Edited!PolicyAssumption
BY LedgerAssumption, PartsAssumption
   DEF Edited!LedgerAssumption, Policy!PolicyAssumption, Edited!PolicyAssumption, Policy!IsEdit,
       Edited!IsEdit, Policy!IsMap, Edited!IsMap

\* KeyReleasePolicy and its proofs are instances of their own here: their edits
\* are the same.
LEMMA SameValues ==
  /\ \A list, item : Policy!AddValues(list, item) = Edited!AddValues(list, item)
  /\ \A list, item :
       Policy!RemoveValues(list, item) = Edited!RemoveValues(list, item)
<1>1. \A list, item : Policy!AddValues(list, item) = Edited!AddValues(list, item)
  BY DEF Policy!AddValues, Edited!AddValues, Policy!AddValue, Edited!AddValue,
         Policy!Contains, Edited!Contains, Policy!FoldLeft, Edited!FoldLeft,
         Policy!MapThenFoldSet, Edited!MapThenFoldSet, Policy!Max, Edited!Max
<1>2. \A list, item :
        Policy!RemoveValues(list, item) = Edited!RemoveValues(list, item)
  BY DEF Policy!RemoveValues, Edited!RemoveValues, Policy!RemoveValue,
         Edited!RemoveValue, Policy!Without, Edited!Without, Policy!FoldLeft,
         Edited!FoldLeft, Policy!MapThenFoldSet, Edited!MapThenFoldSet,
         Policy!Max, Edited!Max
<1> QED
  BY <1>1, <1>2

LEMMA SameEdits ==
  ASSUME NEW edit, NEW policy
  PROVE  Policy!Apply(edit, policy) = Edited!Apply(edit, policy)
<1>1. Policy!AddClaims(policy.claims, edit.claims)
        = Edited!AddClaims(policy.claims, edit.claims)
  BY SameValues DEF Policy!AddClaims, Edited!AddClaims, Policy!OrEmpty,
                    Edited!OrEmpty
<1>2. Policy!RemoveClaims(policy.claims, edit.claims)
        = Edited!RemoveClaims(policy.claims, edit.claims)
  BY SameValues DEF Policy!RemoveClaims, Edited!RemoveClaims
<1>3. \A part, bounds : /\ Policy!AddOperator(part, bounds)
                             = Edited!AddOperator(part, bounds)
                        /\ Policy!RemoveOperator(part, bounds)
                             = Edited!RemoveOperator(part, bounds)
  BY DEF Policy!AddOperator, Edited!AddOperator, Policy!RemoveOperator,
         Edited!RemoveOperator, Policy!OrEmpty, Edited!OrEmpty
<1> QED
  BY <1>1, <1>2, <1>3 DEF Policy!Apply, Edited!Apply

LEMMA SameTypes ==
  ASSUME NEW policy
  PROVE  Policy!PolicyTypeOK(policy) <=> Edited!PolicyTypeOK(policy)
BY DEF Policy!PolicyTypeOK, Edited!PolicyTypeOK, Policy!IsMap, Edited!IsMap,
       Policy!Operators, Edited!Operators, Policy!IsInjective,
       Edited!IsInjective

\* An edit that does not throw leaves a well-formed policy behind.
LEMMA EditKeepsPolicy ==
  ASSUME NEW edit \in Edits, NEW old, Policy!PolicyTypeOK(old),
         NEW new, new = Policy!Apply(edit, old),
         Failed \notin {new.claims, new.gte, new.gt}
  PROVE  Policy!PolicyTypeOK(new)
<1>1. Edited!PolicyOK(old) /\ new = Edited!Apply(edit, old)
  BY EditedAssumption, SameTypes, SameEdits, Edited!PolicyTyped
<1>2. Edited!PolicyOK(new)
  BY <1>1, EditedAssumption, Edited!ApplyEffect
<1> QED
  BY <1>2, EditedAssumption, SameTypes, Edited!PolicyTyped

\* Whom the release policy in force accepts, and nobody else, passes.
LEMMA AzureFacts ==
  ASSUME NEW policy, Policy!PolicyTypeOK(policy),
         NEW claims \in [AllClaims -> Values \cup {Undefined}]
  PROVE  Policy!AzureStatus(policy, claims) = 200
           <=> Policy!Accepts(InForce(policy), claims)
<1> DEFINE force == InForce(policy)
<1>1. /\ force.claims = policy.claims
      /\ force.gt = policy.gt
      /\ force.gte = Missing \/ force.gte = policy.gte
      /\ force.gt # Missing \/ force.gte = policy.gte
      /\ ~ Edited!BothOperators(force)
  BY DEF InForce, Policy!BothOperators, Edited!BothOperators
<1> HIDE DEF force
<1>2. Edited!PolicyOK(force)
  <2>1. Edited!PolicyOK(policy)
    BY EditedAssumption, SameTypes, Edited!PolicyTyped
  <2> QED
    BY <1>1, <2>1 DEF Edited!PolicyOK, Edited!BoundsOK, Edited!Operators
<1>3. Edited!AzureStatus(force, claims) = 200 <=> Edited!Accepts(force, claims)
  BY <1>1, <1>2, EditedAssumption, Edited!StatusFacts DEF Edited!Attestations
<1>4. Edited!Accepts(force, claims) <=> Policy!Accepts(force, claims)
  BY DEF Edited!Accepts, Policy!Accepts, Edited!FailsAt, Policy!FailsAt,
         Edited!OrEmpty, Policy!OrEmpty, Edited!ToSet, Policy!ToSet
<1>5. Edited!AzureStatus(force, claims) = Edited!AzureStatus(policy, claims)
  BY <1>1 DEF Edited!AzureStatus, Edited!Readable, Edited!PolicyStatus
<1>6. Edited!AzureStatus(policy, claims) = Policy!AzureStatus(policy, claims)
  BY DEF Edited!AzureStatus, Policy!AzureStatus, Edited!Readable,
         Policy!Readable, Edited!PolicyStatus, Policy!PolicyStatus,
         Edited!ClaimsStatus, Policy!ClaimsStatus, Edited!OperatorsStatus,
         Policy!OperatorsStatus, Edited!ToSet, Policy!ToSet
<1> QED
  BY <1>3, <1>4, <1>5, <1>6 DEF force


-----------------------------------------------------------------------------
(***************************************************************************)
(* Types.                                                                   *)
(***************************************************************************)

\* The key pairs in the ledger have been generated: refresh draws another.
PairsUsed ==
  \A i \in 1 .. Len(ledger) :
    \A id \in DOMAIN ledger[i].ids : ledger[i].ids[id][1] \in used

MapsInv == TypeOK /\ PairsUsed

LEMMA LatestFacts ==
  ASSUME MapsInv
  PROVE  /\ KvOK(Latest)
         /\ \A id \in DOMAIN Latest.ids : Latest.ids[id][1] \in used
BY DEF MapsInv, TypeOK, LedgerTypeOK, PairsUsed, Latest

LEMMA NodeFacts ==
  ASSUME TypeOK, NEW n \in Nodes
  PROVE  KvOK(NodeKv(n))
BY DEF TypeOK, NodeKv

LEMMA SameSize ==
  ASSUME NEW kv
  PROVE  Keys!Size(kv) = Cardinality(DOMAIN kv.ids)
BY DEF Keys!Size, Keys!Cardinality, Cardinality, Keys!IsFiniteSet, IsFiniteSet

\* Ids and kids in consistent maps.
LEMMA KvFacts ==
  ASSUME NEW kv, KvOK(kv)
  PROVE  /\ Keys!Size(kv) \in Nat
         /\ DOMAIN kv.ids = 1 .. Keys!Size(kv)
         /\ DOMAIN kv.keys \subseteq Kid
         /\ \A kid \in DOMAIN kv.keys : kid[2] \in 1 .. Keys!Size(kv)
         /\ Keys!LatestItem(kv) # NoKey
              => \A kid \in DOMAIN kv.keys : kid[2] <= Keys!LatestItem(kv)[2]
<1>1. Keys!Size(kv) \in Nat
  BY SameSize, FS_CardinalityType DEF KvOK
<1>2. /\ DOMAIN kv.ids = 1 .. Keys!Size(kv)
      /\ kv.ids \in [DOMAIN kv.ids -> Kid]
      /\ \A id \in DOMAIN kv.ids : kv.ids[id][2] = id
      /\ DOMAIN kv.keys = {kv.ids[id] : id \in DOMAIN kv.ids}
  BY DEF KvOK, Keys!KvConsistent
<1>3. DOMAIN kv.keys \subseteq Kid
  BY <1>2
<1>4. \A kid \in DOMAIN kv.keys : kid[2] \in 1 .. Keys!Size(kv)
  BY <1>2
<1>5. Keys!LatestItem(kv) # NoKey
        => Keys!LatestItem(kv)[2] = Keys!Size(kv)
  BY <1>2 DEF Keys!LatestItem
<1> QED
  BY <1>1, <1>2, <1>3, <1>4, <1>5

\* A transaction keeps the invariant if what it writes is well formed and its
\* key pairs have been drawn.
LEMMA WriteMaps ==
  ASSUME MapsInv, NEW kv, KvOK(kv), WriteOnly(kv),
         used \subseteq used', used' \subseteq KeyPairs,
         \A id \in DOMAIN kv.ids : kv.ids[id][1] \in used'
  PROVE  MapsInv'
<1>1. /\ LedgerTypeOK
      /\ Write(kv)
      /\ now' = now /\ applied' = applied /\ answer' = answer
  BY DEF MapsInv, TypeOK, WriteOnly
<1>2. /\ LedgerTypeOK'
      /\ Len(ledger') = Len(ledger) + 1
      /\ ledger'[Len(ledger) + 1] = kv
      /\ \A i \in 1 .. Len(ledger) : ledger'[i] = ledger[i]
  BY <1>1, WriteStep
<1>3. Len(ledger) \in Nat
  BY <1>1 DEF LedgerTypeOK
<1>4. \A i \in 1 .. Len(ledger') : i \in 1 .. Len(ledger) \/ i = Len(ledger) + 1
  BY <1>2, <1>3
<1>5. \A i \in 1 .. Len(ledger') : KvOK(ledger'[i])
  BY <1>2, <1>4 DEF MapsInv, TypeOK
<1>6. applied' \in [Nodes -> 1 .. Len(ledger')]
  BY <1>1, <1>2, <1>3 DEF MapsInv, TypeOK
<1>7. TypeOK'
  BY <1>1, <1>2, <1>5, <1>6 DEF MapsInv, TypeOK
<1>8. PairsUsed'
  BY <1>2, <1>4 DEF MapsInv, PairsUsed
<1> QED
  BY <1>7, <1>8 DEF MapsInv

LEMMA RefreshMaps ==
  ASSUME MapsInv, NEW pair \in KeyPairs, Refresh(pair)
  PROVE  MapsInv'
<1> DEFINE size == Keys!Size(Latest)
           kid == <<pair, size + 1>>
           item == Keys!GeneratedKeyItem(((size + 1) % OhttpIds) + OhttpBase,
                                         Keys!ExpiryTime(Latest, now), now)
           kv == [Latest EXCEPT !.ids = Keys!Put(@, size + 1, kid),
                                !.keys = Keys!Put(@, kid, item)]
<1>1. /\ KvOK(Latest)
      /\ \A id \in DOMAIN Latest.ids : Latest.ids[id][1] \in used
      /\ used \subseteq KeyPairs
  BY LatestFacts DEF MapsInv, TypeOK
<1>2. /\ pair \notin used
      /\ WriteOnly(kv)
      /\ used' = used \cup {pair}
  BY DEF Refresh, Keys!NextId
<1>3. /\ size \in Nat
      /\ DOMAIN Latest.ids = 1 .. size
      /\ Latest.ids \in [DOMAIN Latest.ids -> Kid]
      /\ \A id \in DOMAIN Latest.ids : Latest.ids[id][2] = id
      /\ \A a, b \in DOMAIN Latest.ids :
           Latest.ids[a][1] = Latest.ids[b][1] => a = b
      /\ DOMAIN Latest.keys = {Latest.ids[id] : id \in DOMAIN Latest.ids}
      /\ DOMAIN Latest = {"ids", "keys", "rotation", "release", "jwt"}
  BY <1>1, KvFacts DEF KvOK, Keys!KvConsistent
<1> HIDE DEF size, item
<1>4. /\ DOMAIN kv = DOMAIN Latest
      /\ kv.ids = Keys!Put(Latest.ids, size + 1, kid)
      /\ kv.keys = Keys!Put(Latest.keys, kid, item)
      /\ kv.rotation = Latest.rotation
      /\ kv.release = Latest.release
      /\ kv.jwt = Latest.jwt
  BY <1>3
<1> HIDE DEF kid, kv
<1>5. /\ DOMAIN kv.ids = 1 .. (size + 1)
      /\ kv.ids[size + 1] = kid
      /\ \A id \in DOMAIN Latest.ids : kv.ids[id] = Latest.ids[id]
  <2>1. DOMAIN kv.ids = (1 .. size) \cup {size + 1}
    BY <1>3, <1>4 DEF Keys!Put
  <2>2. 1 .. (size + 1) = (1 .. size) \cup {size + 1} /\ size + 1 \notin 1 .. size
    BY <1>3
  <2> QED
    BY <1>3, <1>4, <2>1, <2>2 DEF Keys!Put
<1>6. /\ IsFiniteSet(DOMAIN kv.ids)
      /\ Keys!Size(kv) = size + 1
  BY <1>3, <1>5, SameSize, FS_Interval
<1>7. /\ \A id \in DOMAIN kv.ids : id \in DOMAIN Latest.ids \/ id = size + 1
      /\ DOMAIN Latest.ids \subseteq DOMAIN kv.ids
      /\ size + 1 \in DOMAIN kv.ids
  BY <1>3, <1>5
<1>8. kid \in Kid /\ kid[1] = pair /\ kid[2] = size + 1
  BY <1>3 DEF kid, Kid, Keys!Kid
<1>9. kv.ids \in [DOMAIN kv.ids -> Kid]
  <2>1. kv.ids = [id \in DOMAIN kv.ids |-> kv.ids[id]]
    BY <1>4 DEF Keys!Put
  <2>2. \A id \in DOMAIN kv.ids : kv.ids[id] \in Kid
    BY <1>3, <1>5, <1>7, <1>8
  <2> QED
    BY <2>1, <2>2
<1>10. \A id \in DOMAIN kv.ids : kv.ids[id][1] \in used'
  BY <1>1, <1>2, <1>5, <1>7, <1>8
<1>11. Keys!KvConsistent(kv)
  <2>1. \A id \in DOMAIN kv.ids : kv.ids[id][2] = id
    BY <1>3, <1>5, <1>7, <1>8
  <2>2. \A a, b \in DOMAIN kv.ids : kv.ids[a][1] = kv.ids[b][1] => a = b
    BY <1>1, <1>2, <1>3, <1>5, <1>7, <1>8
  <2>3. DOMAIN kv.keys = DOMAIN Latest.keys \cup {kid}
    BY <1>4 DEF Keys!Put
  <2>4. DOMAIN kv.keys \subseteq {kv.ids[id] : id \in DOMAIN kv.ids}
    BY <1>3, <1>5, <1>7, <2>3
  <2>5. {kv.ids[id] : id \in DOMAIN kv.ids} \subseteq DOMAIN kv.keys
    BY <1>3, <1>5, <1>7, <2>3
  <2> QED
    BY <1>5, <1>6, <2>1, <2>2, <2>4, <2>5 DEF Keys!KvConsistent
<1>12. KvOK(kv)
  BY <1>1, <1>3, <1>4, <1>6, <1>9, <1>11 DEF KvOK
<1> QED
  BY <1>1, <1>2, <1>10, <1>12, WriteMaps DEF kv, kid, item

\* Governance leaves the keys as they are.
LEMMA GovernanceMaps ==
  ASSUME MapsInv, NEW kv, WriteOnly(kv), used' = used,
         DOMAIN kv = DOMAIN Latest, kv.ids = Latest.ids, kv.keys = Latest.keys,
         kv.rotation \in Rotations \cup {Unset},
         Policy!PolicyTypeOK(kv.release),
         kv.jwt \in [Issuers -> JwtPolicies \cup {Unset, Null}]
  PROVE  MapsInv'
<1>1. /\ KvOK(Latest)
      /\ \A id \in DOMAIN Latest.ids : Latest.ids[id][1] \in used
      /\ used \subseteq KeyPairs
  BY LatestFacts DEF MapsInv, TypeOK
<1>2. Keys!KvConsistent(kv)
  <2>1. Keys!KvConsistent(Latest)
    BY <1>1 DEF KvOK
  <2> QED
    BY <2>1 DEF Keys!KvConsistent, Keys!Size
<1>3. KvOK(kv)
  BY <1>1, <1>2 DEF KvOK
<1> QED
  BY <1>1, <1>3, WriteMaps

LEMMA WritesMaps ==
  ASSUME MapsInv, Writes
  PROVE  MapsInv'
<1>1. KvOK(Latest)
  BY LatestFacts
<1>2. /\ DOMAIN Latest = {"ids", "keys", "rotation", "release", "jwt"}
      /\ Latest.rotation \in Rotations \cup {Unset}
      /\ Policy!PolicyTypeOK(Latest.release)
      /\ Latest.jwt \in [Issuers -> JwtPolicies \cup {Unset, Null}]
  BY <1>1 DEF KvOK
<1>3. ASSUME NEW pair \in KeyPairs, Refresh(pair)
      PROVE  MapsInv'
  BY <1>3, RefreshMaps
<1>4. ASSUME NEW rotation \in Rotations, SetKeyRotationPolicy(rotation)
      PROVE  MapsInv'
  <2> DEFINE kv == [Latest EXCEPT !.rotation = rotation]
  <2>1. WriteOnly(kv) /\ used' = used
    BY <1>4 DEF SetKeyRotationPolicy
  <2>2. /\ DOMAIN kv = DOMAIN Latest
        /\ kv.ids = Latest.ids /\ kv.keys = Latest.keys
        /\ kv.rotation = rotation
        /\ kv.release = Latest.release /\ kv.jwt = Latest.jwt
    BY <1>2
  <2> HIDE DEF kv
  <2> QED
    BY <1>2, <2>1, <2>2, GovernanceMaps
<1>5. ASSUME NEW edit \in Edits, SetKeyReleasePolicy(edit)
      PROVE  MapsInv'
  <2> DEFINE release == Policy!Apply(edit, Latest.release)
             kv == [Latest EXCEPT !.release = release]
  <2>1. /\ Failed \notin {release.claims, release.gte, release.gt}
        /\ WriteOnly(kv) /\ used' = used
    BY <1>5 DEF SetKeyReleasePolicy
  <2>2. Policy!PolicyTypeOK(release)
    BY <1>2, <2>1, EditKeepsPolicy
  <2> HIDE DEF release
  <2>3. /\ DOMAIN kv = DOMAIN Latest
        /\ kv.ids = Latest.ids /\ kv.keys = Latest.keys
        /\ kv.release = release
        /\ kv.rotation = Latest.rotation /\ kv.jwt = Latest.jwt
    BY <1>2
  <2> HIDE DEF kv
  <2> QED
    BY <1>2, <2>1, <2>2, <2>3, GovernanceMaps
<1>6. ASSUME NEW issuer \in Issuers, NEW policy \in JwtPolicies,
             SetJwtValidationPolicy(issuer, policy)
      PROVE  MapsInv'
  <2> DEFINE jwt == Auth!Replaced(Latest.jwt, issuer, policy)
             kv == [Latest EXCEPT !.jwt = jwt]
  <2>1. WriteOnly(kv) /\ used' = used
    BY <1>6 DEF SetJwtValidationPolicy
  <2>2. jwt \in [Issuers -> JwtPolicies \cup {Unset, Null}]
    BY <1>2 DEF Auth!Replaced
  <2> HIDE DEF jwt
  <2>3. /\ DOMAIN kv = DOMAIN Latest
        /\ kv.ids = Latest.ids /\ kv.keys = Latest.keys
        /\ kv.jwt = jwt
        /\ kv.rotation = Latest.rotation /\ kv.release = Latest.release
    BY <1>2
  <2> HIDE DEF kv
  <2> QED
    BY <1>2, <2>1, <2>2, <2>3, GovernanceMaps
<1> QED
  BY <1>3, <1>4, <1>5, <1>6 DEF Writes

\* What a request must come with to be answered 200.
LEMMA UnwrapKeyPasses ==
  ASSUME NEW n, NEW request \in UnwrapRequest(n),
         UnwrapKeyStatus(NodeKv(n), request, now) = 200
  PROVE  /\ request.attestation \in Evidence
         /\ request.wrappingKey \in WrappingKey
         /\ request.wrappingKey.form = "pem"
         /\ request.kid \in DOMAIN NodeKv(n).keys
         /\ request.provider \in Providers
         /\ request.caller \in Callers
         /\ Auth!IsAuthenticated(NodeKv(n), request.caller) = 200
         /\ AttestationStatus(NodeKv(n), request.attestation,
                              request.provider) = 200
         /\ Bound(request)
         /\ ~ Keys!IsExpired(NodeKv(n), request.kid, now)
<1>1. /\ request.attestation \in Evidence \cup {Undefined}
      /\ request.wrappingKey \in WrappingKey \cup {Undefined, NotPem}
      /\ request.provider \in Providers
      /\ request.caller \in Callers
  BY DEF UnwrapRequest, AnyWrappingKey
<1> DEFINE caller == Auth!IsAuthenticated(NodeKv(n), request.caller)
           attested == AttestationStatus(NodeKv(n), request.attestation,
                                         request.provider)
<1>2. /\ request.attestation # Undefined
      /\ caller = 200
      /\ IsPem(request.wrappingKey)
      /\ attested = 200
      /\ Bound(request)
      /\ request.kid \in DOMAIN NodeKv(n).keys
      /\ ~ Keys!IsExpired(NodeKv(n), request.kid, now)
      /\ WrapStatus(request.wrappingKey) = 200
  <2> HIDE DEF caller, attested
  <2>1. UnwrapKeyStatus(NodeKv(n), request, now)
          = IF request.attestation = Undefined THEN 400
            ELSE IF caller # 200 THEN caller
            ELSE IF request.kid = Undefined \/ ~ IsPem(request.wrappingKey)
            THEN 400
            ELSE IF attested # 200 THEN attested
            ELSE IF ~ Bound(request) THEN 400
            ELSE IF request.kid \notin DOMAIN NodeKv(n).keys THEN 404
            ELSE IF Keys!IsExpired(NodeKv(n), request.kid, now) THEN 410
            ELSE WrapStatus(request.wrappingKey)
    BY DEF UnwrapKeyStatus, CallerStatus, caller, attested
  <2> QED
    BY <2>1
<1> QED
  BY <1>1, <1>2 DEF IsPem, WrapStatus

LEMMA UnwrapKeyGcpPasses ==
  ASSUME NEW n, NEW request \in TokenRequest,
         UnwrapKeyGcpStatus(NodeKv(n), request) = 200
  PROVE  LET kid == Keys!LatestItem(NodeKv(n))
         IN  /\ request.wrappingKey \in WrappingKey
             /\ request.caller \in Callers
             /\ Auth!IsAuthenticated(NodeKv(n), request.caller) = 200
             /\ request.caller.nonce \notin {Undefined, <<>>}
             /\ Head(request.caller.nonce) = Hash(Normalized(request.wrappingKey))
             /\ kid # NoKey
             /\ kid \in DOMAIN NodeKv(n).keys
<1> DEFINE caller == Auth!IsAuthenticated(NodeKv(n), request.caller)
           nonce == request.caller.nonce
           bound == NonceStatus(nonce, request.wrappingKey)
           kid == Keys!LatestItem(NodeKv(n))
<1>1. /\ request.wrappingKey \in WrappingKey \cup {Undefined, NotPem}
      /\ request.caller \in Callers
  BY DEF TokenRequest, AnyWrappingKey
<1>2. /\ caller = 200
      /\ IsPem(request.wrappingKey)
      /\ bound = 200
      /\ kid # NoKey
      /\ kid \in DOMAIN NodeKv(n).keys
  <2> HIDE DEF caller, bound, kid
  <2>1. UnwrapKeyGcpStatus(NodeKv(n), request)
          = IF caller # 200 THEN caller
            ELSE IF ~ IsPem(request.wrappingKey) THEN 400
            ELSE IF bound # 200 THEN bound
            ELSE IF kid = NoKey THEN 400
            ELSE IF kid \notin DOMAIN NodeKv(n).keys THEN 404
            ELSE WrapStatus(Normalized(request.wrappingKey))
    BY DEF UnwrapKeyGcpStatus, CallerStatus, caller, bound, kid
  <2> QED
    BY <2>1
<1>3. /\ nonce \notin {Undefined, <<>>}
      /\ Head(nonce) = Hash(Normalized(request.wrappingKey))
  <2> HIDE DEF nonce
  <2>1. nonce # Undefined
    BY <1>2 DEF NonceStatus
  <2>2. nonce # <<>>
    BY <1>2, <2>1 DEF NonceStatus
  <2> QED
    BY <1>2, <2>1, <2>2 DEF NonceStatus
<1> QED
  BY <1>1, <1>2, <1>3 DEF IsPem

LEMMA KeyPasses ==
  ASSUME NEW n, NEW request, KeyStatus(NodeKv(n), request) = 200
  PROVE  /\ KeyKid(NodeKv(n), request) \in DOMAIN NodeKv(n).keys
         /\ Auth!IsAuthenticated(NodeKv(n), request.caller) = 200
         /\ AttestationStatus(NodeKv(n), request.attestation,
                              request.provider) = 200
<1> DEFINE caller == Auth!IsAuthenticated(NodeKv(n), request.caller)
           attested == AttestationStatus(NodeKv(n), request.attestation,
                                         request.provider)
           kid == KeyKid(NodeKv(n), request)
<1> HIDE DEF caller, attested, kid
<1>1. KeyStatus(NodeKv(n), request)
        = IF request.attestation = Undefined THEN 400
          ELSE IF caller # 200 THEN caller
          ELSE IF kid = NoKey THEN 400
          ELSE IF attested # 200 THEN attested
          ELSE IF kid \notin DOMAIN NodeKv(n).keys THEN 404 ELSE 200
  BY DEF KeyStatus, CallerStatus, caller, attested, kid
<1> QED
  BY <1>1 DEF caller, attested, kid

\* What an answer of one of the endpoints holds.
LEMMA AnswerType ==
  ASSUME TypeOK, NEW n \in Nodes, NEW to \in Clients \cup {Nobody},
         NEW kid \in DOMAIN NodeKv(n).keys,
         NEW by \in Providers \cup {"token", "key"},
         Answered(to, kid, by)
  PROVE  answer' \in Answer
<1>1. kid \in Kid
  BY NodeFacts, KvFacts
<1> QED
  BY <1>1 DEF Answered, Answer

LEMMA ReadsMaps ==
  ASSUME MapsInv, Reads
  PROVE  MapsInv'
<1>1. TypeOK
  BY DEF MapsInv
<1>2. answer' \in Answer /\ UNCHANGED <<ledger, commit, now, used, applied>>
  <2>1. ASSUME NEW n \in Nodes, NEW request \in UnwrapRequest(n),
               UnwrapKey(n, request)
        PROVE  answer' \in Answer /\ UNCHANGED <<ledger, commit, now, used, applied>>
    <3>1. /\ UnwrapKeyStatus(NodeKv(n), request, now) = 200
          /\ Answered(request.wrappingKey.owner, request.kid, request.provider)
      BY <2>1 DEF UnwrapKey
    <3>2. /\ request.wrappingKey.owner \in Clients
          /\ request.kid \in DOMAIN NodeKv(n).keys
          /\ request.provider \in Providers
      BY <3>1, UnwrapKeyPasses DEF WrappingKey
    <3> QED
      BY <1>1, <3>1, <3>2, AnswerType DEF Answered
  <2>2. ASSUME NEW n \in Nodes, NEW request \in TokenRequest,
               UnwrapKeyGcp(n, request)
        PROVE  answer' \in Answer /\ UNCHANGED <<ledger, commit, now, used, applied>>
    <3>1. /\ UnwrapKeyGcpStatus(NodeKv(n), request) = 200
          /\ Answered(request.wrappingKey.owner, Keys!LatestItem(NodeKv(n)), "token")
      BY <2>2 DEF UnwrapKeyGcp
    <3>2. /\ request.wrappingKey.owner \in Clients
          /\ Keys!LatestItem(NodeKv(n)) \in DOMAIN NodeKv(n).keys
      BY <3>1, UnwrapKeyGcpPasses DEF WrappingKey
    <3> QED
      BY <1>1, <3>1, <3>2, AnswerType DEF Answered
  <2>3. ASSUME NEW n \in Nodes, NEW request \in UnwrapRequest(n), Key(n, request)
        PROVE  answer' \in Answer /\ UNCHANGED <<ledger, commit, now, used, applied>>
    <3>1. /\ KeyStatus(NodeKv(n), request) = 200
          /\ Answered(Nobody, KeyKid(NodeKv(n), request), "key")
      BY <2>3 DEF Key
    <3>2. KeyKid(NodeKv(n), request) \in DOMAIN NodeKv(n).keys
      BY <3>1, KeyPasses
    <3> QED
      BY <1>1, <3>1, <3>2, AnswerType DEF Answered
  <2> QED
    BY <2>1, <2>2, <2>3 DEF Reads
<1> QED
  BY <1>1, <1>2 DEF MapsInv, TypeOK, LedgerTypeOK, Entries, PairsUsed

LEMMA ServiceMaps ==
  ASSUME MapsInv, Service
  PROVE  MapsInv'
<1>1. /\ LedgerTypeOK
      /\ applied \in [Nodes -> 1 .. Len(ledger)]
      /\ Len(ledger) \in Nat
  BY DEF MapsInv, TypeOK, LedgerTypeOK
<1>2. CASE Tick
  <2>1. now' \in 0 .. MaxTime
    BY <1>2, PartsAssumption DEF Tick, MapsInv, TypeOK, Keys!ConstantsAssumption
  <2> QED
    BY <1>2, <2>1 DEF Tick, MapsInv, TypeOK, LedgerTypeOK, Entries, PairsUsed
<1>3. CASE Commit
  <2>1. PICK v \in 1 .. MaxLedger : GloballyCommit(v)
    BY <1>3 DEF Commit
  <2>2. LedgerTypeOK' /\ ledger' = ledger
    BY <1>1, <2>1, GloballyCommitStep
  <2> QED
    BY <1>3, <2>2 DEF Commit, MapsInv, TypeOK, PairsUsed
<1>4. ASSUME NEW n \in Nodes, Replicate(n)
      PROVE  MapsInv'
  <2>1. PICK v \in applied[n] + 1 .. Len(ledger) :
          applied' = [applied EXCEPT ![n] = v]
    BY <1>4 DEF Replicate
  <2>2. applied[n] \in 1 .. Len(ledger)
    BY <1>1
  <2>3. v \in 1 .. Len(ledger)
    BY <1>1, <2>1, <2>2
  <2>4. applied' \in [Nodes -> 1 .. Len(ledger)]
    BY <1>1, <2>1, <2>3
  <2> QED
    BY <1>4, <2>4 DEF Replicate, MapsInv, TypeOK, LedgerTypeOK, Entries, PairsUsed
<1>5. ASSUME NEW v \in 1 .. MaxLedger, NewPrimary(v)
      PROVE  MapsInv'
  <2>1. /\ Rollback(v)
        /\ applied' = [n \in Nodes |-> IF applied[n] > v THEN v ELSE applied[n]]
        /\ now' = now /\ used' = used /\ answer' = answer
    BY <1>5 DEF NewPrimary
  <2>2. /\ LedgerTypeOK'
        /\ v \in commit .. Len(ledger)
        /\ Len(ledger') = v
        /\ \A i \in 1 .. v : ledger'[i] = ledger[i]
    BY <1>1, <2>1, RollbackStep
  <2>3. \A i \in 1 .. Len(ledger') : i \in 1 .. Len(ledger)
    BY <1>1, <2>2 DEF LedgerTypeOK
  <2>4. applied' \in [Nodes -> 1 .. Len(ledger')]
    <3>1. ASSUME NEW n \in Nodes
          PROVE  (IF applied[n] > v THEN v ELSE applied[n]) \in 1 .. v
      <4>1. applied[n] \in 1 .. Len(ledger)
        BY <1>1
      <4> QED
        BY <1>1, <4>1
    <3> QED
      BY <2>1, <2>2, <3>1
  <2>5. TypeOK'
    BY <2>1, <2>2, <2>3, <2>4 DEF MapsInv, TypeOK
  <2>6. PairsUsed'
    BY <2>1, <2>2, <2>3 DEF MapsInv, PairsUsed
  <2> QED
    BY <2>5, <2>6 DEF MapsInv
<1> QED
  BY <1>2, <1>3, <1>4, <1>5 DEF Service

LEMMA MapsInit == Init => MapsInv
<1> SUFFICES ASSUME Init PROVE MapsInv
  OBVIOUS
<1>1. /\ Len(ledger) = 1
      /\ ledger[1] = SetUp
      /\ ledger \in Seq({SetUp})
  BY DEF Init
<1>2. LedgerTypeOK
  <2>1. Entries = {SetUp}
    BY <1>1 DEF Entries
  <2> QED
    BY <1>1, <2>1 DEF LedgerTypeOK, Init
<1>3. used \subseteq KeyPairs
  <2>1. \A id \in DOMAIN SetUp.ids : SetUp.ids[id][1] \in KeyPairs
    BY SetUpAssumption DEF KvOK, Kid, Keys!Kid
  <2> QED
    BY <2>1 DEF Init
<1>4. now \in 0 .. MaxTime
  BY PartsAssumption DEF Init, Keys!ConstantsAssumption
<1>5. answer \in Answer
  BY DEF Init, NoAnswer, Answer
<1>6. TypeOK
  BY <1>1, <1>2, <1>3, <1>4, <1>5, SetUpAssumption DEF Init, TypeOK
<1>7. PairsUsed
  BY <1>1 DEF Init, PairsUsed
<1> QED
  BY <1>6, <1>7 DEF MapsInv

LEMMA MapsStep == MapsInv /\ [Next]_vars => MapsInv'
<1> SUFFICES ASSUME MapsInv, [Next]_vars PROVE MapsInv'
  OBVIOUS
<1>1. CASE UNCHANGED vars
  BY <1>1 DEF vars, MapsInv, TypeOK, LedgerTypeOK, Entries, PairsUsed
<1> QED
  BY <1>1, WritesMaps, ReadsMaps, ServiceMaps DEF Next

LEMMA MapsInvariant == Spec => []MapsInv
<1> QED
  BY MapsInit, MapsStep, PTL DEF Spec

\* Whatever refresh and governance do to the maps of a service that was set up
\* properly, and whatever primaries fail, keys and policies stay well formed,
\* and endpoints answer with keys there are.
THEOREM ReleaseTypeCorrect == Spec => []TypeOK
<1>1. MapsInv => TypeOK
  BY DEF MapsInv
<1> QED
  BY <1>1, MapsInvariant, PTL


-----------------------------------------------------------------------------
(***************************************************************************)
(* Private keys go to whom they may go to.                                  *)
(***************************************************************************)

\* A token that is answered 200 satisfies the policy of its issuer.
LEMMA TokenTrusted ==
  ASSUME NEW kv, NEW caller \in Callers, Auth!IsAuthenticated(kv, caller) = 200
  PROVE  Trusted(kv, caller)
<1> DEFINE policy == kv.jwt[caller.iss]
<1>1. Auth!JwtStatus(kv, caller) = 200
  <2>1. caller.policy = "jwt"
    BY ReleaseAssumption
  <2> QED
    BY <2>1 DEF Auth!IsAuthenticated
<1>2. caller.iss # Undefined
  BY <1>1 DEF Auth!JwtStatus
<1>3. (CASE policy = Unset -> 500
         [] policy = Null -> 400
         [] OTHER -> IF Auth!Compliant(policy, caller.payload)
                     THEN 200 ELSE 401) = 200
  BY <1>1, <1>2 DEF Auth!JwtStatus, Auth!ReadPolicy
<1> HIDE DEF policy
<1>4. policy # Unset
  BY <1>3
<1>5. policy # Null
  BY <1>3, <1>4
<1>6. Auth!Compliant(policy, caller.payload)
  BY <1>3, <1>4, <1>5
<1> QED
  BY <1>2, <1>4, <1>5, <1>6 DEF policy, Trusted, Auth!Compliant

\* An attestation that passes is genuine, and one from Azure is accepted by the
\* release policy in force.
LEMMA AttestationAccepted ==
  ASSUME NEW kv, KvOK(kv), NEW attestation \in Evidence,
         NEW provider \in Providers,
         AttestationStatus(kv, attestation, provider) = 200
  PROVE  /\ attestation.genuine
         /\ provider = "azure" => Entitled(kv, attestation)
<1>1. attestation.genuine
  BY DEF AttestationStatus
<1>2. ASSUME provider = "azure" PROVE Entitled(kv, attestation)
  <2>1. Policy!AzureStatus(kv.release, attestation.claims) = 200
    BY <1>1, <1>2 DEF AttestationStatus, ReleasePolicy
  <2>2. attestation.claims \in [AllClaims -> Values \cup {Undefined}]
    BY ReleaseAssumption DEF Attestation
  <2>3. Policy!Accepts(InForce(kv.release), attestation.claims)
    BY <2>1, <2>2, AzureFacts DEF KvOK
  <2> QED
    BY <1>1, <2>3 DEF Entitled
<1> QED
  BY <1>1, <1>2

LEMMA UnwrapKeyJustified ==
  ASSUME TypeOK, NEW n \in Nodes, NEW request \in UnwrapRequest(n),
         UnwrapKey(n, request)
  PROVE  \E key \in WrappingKey :
           /\ key.owner = answer'.to
           /\ Justified(NodeKv(n), key, answer'.kid, answer'.by)
<1> DEFINE kv == NodeKv(n)
           key == request.wrappingKey
<1>1. /\ UnwrapKeyStatus(kv, request, now) = 200
      /\ answer'.to = key.owner
      /\ answer'.kid = request.kid
      /\ answer'.by = request.provider
  BY DEF UnwrapKey, Answered
<1>2. /\ request.attestation \in Evidence
      /\ key \in WrappingKey
      /\ key.form = "pem"
      /\ request.kid \in DOMAIN kv.keys
      /\ request.provider \in Providers
      /\ request.caller \in Callers
      /\ Auth!IsAuthenticated(kv, request.caller) = 200
      /\ AttestationStatus(kv, request.attestation, request.provider) = 200
      /\ request.attestation.reportData = Hash(key)
      /\ ~ Keys!IsExpired(kv, request.kid, now)
  BY <1>1, UnwrapKeyPasses DEF Bound
<1>3. Trusted(kv, request.caller)
  BY <1>2, TokenTrusted
<1>4. /\ request.attestation.genuine
      /\ request.provider = "azure" => Entitled(kv, request.attestation)
  BY <1>2, NodeFacts, AttestationAccepted
<1>5. Justified(kv, key, request.kid, request.provider)
  BY <1>2, <1>3, <1>4 DEF Justified
<1> QED
  BY <1>1, <1>2, <1>5

LEMMA UnwrapKeyGcpJustified ==
  ASSUME TypeOK, NEW n \in Nodes, NEW request \in TokenRequest,
         UnwrapKeyGcp(n, request)
  PROVE  \E key \in WrappingKey :
           /\ key.owner = answer'.to
           /\ Justified(NodeKv(n), key, answer'.kid, answer'.by)
<1> DEFINE kv == NodeKv(n)
           key == Normalized(request.wrappingKey)
           kid == Keys!LatestItem(kv)
<1>1. /\ UnwrapKeyGcpStatus(kv, request) = 200
      /\ answer'.to = request.wrappingKey.owner
      /\ answer'.kid = kid
      /\ answer'.by = "token"
  BY DEF UnwrapKeyGcp, Answered
<1>2. /\ request.wrappingKey \in WrappingKey
      /\ request.caller \in Callers
      /\ Auth!IsAuthenticated(kv, request.caller) = 200
      /\ request.caller.nonce \notin {Undefined, <<>>}
      /\ Head(request.caller.nonce) = Hash(key)
      /\ kid # NoKey
      /\ kid \in DOMAIN kv.keys
  BY <1>1, UnwrapKeyGcpPasses
<1>3. key \in WrappingKey /\ key.form = "pem" /\ key.owner = answer'.to
  BY <1>1, <1>2 DEF Normalized, WrappingKey
<1>4. Trusted(kv, request.caller)
  BY <1>2, TokenTrusted
<1>5. \A other \in DOMAIN kv.keys : other[2] <= kid[2]
  BY <1>2, NodeFacts, KvFacts
<1> HIDE DEF kid, key
<1>6. Justified(kv, key, kid, "token")
  BY <1>2, <1>3, <1>4, <1>5 DEF Justified
<1> QED
  BY <1>1, <1>3, <1>6

\* A private key is released only under a wrapping key that an attestation or a
\* token vouches for, to its owner, and only as the policies and the keys of
\* the node that answers allow: however requests combine wrapping keys, tokens
\* and attestations, nobody gets a key on somebody else's credentials.
THEOREM KeysReleasedToBound == Spec => ReleasedToBound
<1> DEFINE Granted ==
             \/ answer' = answer
             \/ answer'.to = Nobody
             \/ \E n \in Nodes, key \in WrappingKey :
                  /\ key.owner = answer'.to
                  /\ Justified(NodeKv(n), key, answer'.kid, answer'.by)
<1>1. ASSUME TypeOK, [Next]_vars PROVE Granted
  <2>1. CASE UNCHANGED vars
    BY <2>1 DEF vars
  <2>2. CASE Writes
    BY <2>2 DEF Writes, Refresh, SetKeyRotationPolicy, SetKeyReleasePolicy,
                SetJwtValidationPolicy, WriteOnly
  <2>3. CASE Service
    BY <2>3 DEF Service, Tick, Commit, Replicate, NewPrimary
  <2>4. CASE Reads
    <3>1. ASSUME NEW n \in Nodes, NEW request \in UnwrapRequest(n),
                 UnwrapKey(n, request)
          PROVE  Granted
      BY <1>1, <3>1, UnwrapKeyJustified
    <3>2. ASSUME NEW n \in Nodes, NEW request \in TokenRequest,
                 UnwrapKeyGcp(n, request)
          PROVE  Granted
      BY <1>1, <3>2, UnwrapKeyGcpJustified
    <3>3. ASSUME NEW n \in Nodes, NEW request \in UnwrapRequest(n),
                 Key(n, request)
          PROVE  Granted
      BY <3>3 DEF Key, Answered
    <3> QED
      BY <2>4, <3>1, <3>2, <3>3 DEF Reads
  <2> QED
    BY <1>1, <2>1, <2>2, <2>3, <2>4 DEF Next
<1>2. Spec => [][TypeOK /\ Next]_vars
  BY ReleaseTypeCorrect, PTL DEF Spec
<1>3. ASSUME [TypeOK /\ Next]_vars PROVE [Granted]_vars
  BY <1>1, <1>3
<1> QED
  BY <1>2, <1>3, PTL DEF ReleasedToBound


-----------------------------------------------------------------------------
(***************************************************************************)
(* What RevocationTakesEffect and EntitledServed say of a node that is up   *)
(* to date.                                                                 *)
(***************************************************************************)

\* A token that satisfies the policy of its issuer is answered 200.
LEMMA TrustedAuthenticated ==
  ASSUME NEW kv, NEW caller \in Callers, Trusted(kv, caller)
  PROVE  Auth!IsAuthenticated(kv, caller) = 200
<1> DEFINE policy == kv.jwt[caller.iss]
<1>1. /\ caller.policy = "jwt"
      /\ caller.iss # Undefined
      /\ policy # Unset
      /\ policy # Null
      /\ Auth!Compliant(policy, caller.payload)
  BY ReleaseAssumption DEF Trusted, Auth!Compliant
<1>2. Auth!JwtStatus(kv, caller)
        = CASE policy = Unset -> 500
            [] policy = Null -> 400
            [] OTHER -> IF Auth!Compliant(policy, caller.payload) THEN 200 ELSE 401
  BY <1>1 DEF Auth!JwtStatus, Auth!ReadPolicy
<1> HIDE DEF policy
<1>3. Auth!JwtStatus(kv, caller) = 200
  BY <1>1, <1>2
<1> QED
  BY <1>1, <1>3 DEF Auth!IsAuthenticated

LEMMA WorkloadServed ==
  ASSUME NEW kv, KvOK(kv), NEW request \in Workloads, Deserves(kv, request)
  PROVE  UnwrapKeyStatus(kv, request, now) = 200
<1>1. /\ request.caller \in Callers
      /\ request.attestation \in Evidence
      /\ request.provider = "azure"
      /\ request.wrappingKey \in WrappingKey
      /\ request.kid \in KeyPairs \X Nat
  BY ReleaseAssumption
<1>2. /\ request.attestation # Undefined
      /\ request.kid # Undefined
      /\ IsPem(request.wrappingKey)
  BY <1>1, ReleaseAssumption DEF IsPem
<1>3. Auth!IsAuthenticated(kv, request.caller) = 200
  BY <1>1, TrustedAuthenticated DEF Deserves
<1>4. AttestationStatus(kv, request.attestation, request.provider) = 200
  <2>1. request.attestation.claims \in [AllClaims -> Values \cup {Undefined}]
    BY <1>1, ReleaseAssumption DEF Attestation
  <2>2. Policy!AzureStatus(kv.release, request.attestation.claims) = 200
    BY <2>1, AzureFacts DEF KvOK, Deserves, Entitled
  <2> QED
    BY <1>1, <2>2 DEF AttestationStatus, ReleasePolicy, Deserves, Entitled
<1>5. /\ Bound(request)
      /\ request.kid \in DOMAIN kv.keys
      /\ ~ Keys!IsExpired(kv, request.kid, now)
      /\ WrapStatus(request.wrappingKey) = 200
  BY DEF Deserves, Bound, WrapStatus
<1> QED
  BY <1>2, <1>3, <1>4, <1>5 DEF UnwrapKeyStatus, CallerStatus

LEMMA TokenWorkloadServed ==
  ASSUME NEW kv, KvOK(kv), NEW request \in TokenWorkloads,
         DeservesByToken(kv, request)
  PROVE  UnwrapKeyGcpStatus(kv, request) = 200
<1>1. request.caller \in Callers /\ request.wrappingKey \in WrappingKey
  BY ReleaseAssumption
<1>2. IsPem(request.wrappingKey)
  BY <1>1, ReleaseAssumption DEF IsPem
<1>3. Auth!IsAuthenticated(kv, request.caller) = 200
  BY <1>1, TrustedAuthenticated DEF DeservesByToken
<1>4. NonceStatus(request.caller.nonce, request.wrappingKey) = 200
  BY DEF DeservesByToken, NonceStatus, Normalized
<1>5. Keys!LatestItem(kv) \in DOMAIN kv.keys /\ Keys!LatestItem(kv) # NoKey
  <2>1. PICK kid \in DOMAIN kv.keys : kid[2] \in 1 .. Keys!Size(kv)
    BY KvFacts DEF DeservesByToken
  <2>2. Keys!Size(kv) \in DOMAIN kv.ids
    BY <2>1, KvFacts
  <2>3. Keys!LatestItem(kv) \in DOMAIN kv.keys
    BY <2>2 DEF Keys!LatestItem, KvOK, Keys!KvConsistent
  <2>4. Keys!LatestItem(kv) \in KeyPairs \X Nat
    BY <2>3, KvFacts DEF Kid, Keys!Kid
  <2> QED
    BY <2>3, <2>4, PartsAssumption DEF Keys!ConstantsAssumption
<1>6. WrapStatus(Normalized(request.wrappingKey)) = 200
  BY <1>1 DEF WrapStatus, Normalized, WrappingKey
<1> QED
  BY <1>2, <1>3, <1>4, <1>5, <1>6 DEF UnwrapKeyGcpStatus, CallerStatus

\* At any time a node goes by the policies and keys in its own maps: it answers
\* no request with an attestation presented as one of Azure that they do not
\* accept, and none at all of a caller that they do not trust, and unwrapKey and
\* unwrapKeyGcp answer every workload that they entitle.  (That the node gets to
\* know what governance has settled on is liveness.)
THEOREM NodeServesEntitled ==
  Spec => [](\A n \in Nodes :
               /\ \A attestation \in Evidence :
                    AnswersAttested(n, attestation, "azure")
                      => Entitled(NodeKv(n), attestation)
               /\ \A caller \in Callers :
                    AnswersCaller(n, caller) => Trusted(NodeKv(n), caller)
               /\ \A request \in Workloads :
                    Deserves(NodeKv(n), request)
                      => UnwrapKeyStatus(NodeKv(n), request, now) = 200
               /\ \A request \in TokenWorkloads :
                    DeservesByToken(NodeKv(n), request)
                      => UnwrapKeyGcpStatus(NodeKv(n), request) = 200)
<1> DEFINE Serves(n) ==
             /\ \A attestation \in Evidence :
                  AnswersAttested(n, attestation, "azure")
                    => Entitled(NodeKv(n), attestation)
             /\ \A caller \in Callers :
                  AnswersCaller(n, caller) => Trusted(NodeKv(n), caller)
             /\ \A request \in Workloads :
                  Deserves(NodeKv(n), request)
                    => UnwrapKeyStatus(NodeKv(n), request, now) = 200
             /\ \A request \in TokenWorkloads :
                  DeservesByToken(NodeKv(n), request)
                    => UnwrapKeyGcpStatus(NodeKv(n), request) = 200
<1>1. ASSUME TypeOK, NEW n \in Nodes PROVE Serves(n)
  <2>1. KvOK(NodeKv(n))
    BY <1>1, NodeFacts
  <2>2. ASSUME NEW attestation \in Evidence,
               AnswersAttested(n, attestation, "azure")
        PROVE  Entitled(NodeKv(n), attestation)
    <3>1. PICK request \in UnwrapRequest(n) :
            /\ request.attestation = attestation
            /\ request.provider = "azure"
            /\ \/ UnwrapKeyStatus(NodeKv(n), request, now) = 200
               \/ KeyStatus(NodeKv(n), request) = 200
      BY <2>2 DEF AnswersAttested
    <3>2. AttestationStatus(NodeKv(n), attestation, "azure") = 200
      BY <3>1, UnwrapKeyPasses, KeyPasses
    <3> QED
      BY <2>1, <3>2, AttestationAccepted DEF Providers
  <2>3. ASSUME NEW caller \in Callers, AnswersCaller(n, caller)
        PROVE  Trusted(NodeKv(n), caller)
    <3>1. ASSUME NEW request \in UnwrapRequest(n), request.caller = caller,
                 \/ UnwrapKeyStatus(NodeKv(n), request, now) = 200
                 \/ KeyStatus(NodeKv(n), request) = 200
          PROVE  Auth!IsAuthenticated(NodeKv(n), caller) = 200
      BY <3>1, UnwrapKeyPasses, KeyPasses
    <3>2. ASSUME NEW request \in TokenRequest, request.caller = caller,
                 UnwrapKeyGcpStatus(NodeKv(n), request) = 200
          PROVE  Auth!IsAuthenticated(NodeKv(n), caller) = 200
      BY <3>2, UnwrapKeyGcpPasses
    <3> QED
      BY <2>3, <3>1, <3>2, TokenTrusted DEF AnswersCaller
  <2> QED
    BY <2>1, <2>2, <2>3, WorkloadServed, TokenWorkloadServed
<1>2. TypeOK => \A n \in Nodes : Serves(n)
  BY <1>1
<1> QED
  BY <1>2, ReleaseTypeCorrect, PTL

\* No release policy stands between an attestation and the keys if the request
\* says that it is one of gcp: whatever unwrapKey answers 200 with attestationType
\* azure, it answers 200 with attestationType gcp as well, also after the release
\* policy has been changed to any other, or deleted.  (The documentation of the
\* gcp attestation has a release policy of its own that would be compared.)
THEOREM GcpSkipsReleasePolicy ==
  ASSUME NEW kv, NEW t, NEW request, request.caller \in Callers,
         request.provider = "azure", UnwrapKeyStatus(kv, request, t) = 200,
         NEW changed, NEW again,
         changed.keys = kv.keys, changed.rotation = kv.rotation,
         changed.jwt = kv.jwt,
         again.provider = "gcp", again.caller = request.caller,
         again.attestation = request.attestation, again.kid = request.kid,
         again.wrappingKey = request.wrappingKey
  PROVE  UnwrapKeyStatus(changed, again, t) = 200
<1> DEFINE caller(maps) == Auth!IsAuthenticated(maps, request.caller)
           attested(maps, by) == AttestationStatus(maps, request.attestation, by)
<1>1. /\ request.attestation # Undefined
      /\ caller(kv) = 200
      /\ request.kid # Undefined
      /\ IsPem(request.wrappingKey)
      /\ attested(kv, "azure") = 200
      /\ Bound(request)
      /\ request.kid \in DOMAIN kv.keys
      /\ ~ Keys!IsExpired(kv, request.kid, t)
      /\ WrapStatus(request.wrappingKey) = 200
  <2> HIDE DEF caller, attested
  <2>1. UnwrapKeyStatus(kv, request, t)
          = IF request.attestation = Undefined THEN 400
            ELSE IF caller(kv) # 200 THEN caller(kv)
            ELSE IF request.kid = Undefined \/ ~ IsPem(request.wrappingKey)
            THEN 400
            ELSE IF attested(kv, "azure") # 200 THEN attested(kv, "azure")
            ELSE IF ~ Bound(request) THEN 400
            ELSE IF request.kid \notin DOMAIN kv.keys THEN 404
            ELSE IF Keys!IsExpired(kv, request.kid, t) THEN 410
            ELSE WrapStatus(request.wrappingKey)
    BY DEF UnwrapKeyStatus, CallerStatus, caller, attested
  <2> QED
    BY <2>1
<1>2. caller(changed) = 200
  <2>1. request.caller.policy = "jwt"
    BY ReleaseAssumption
  <2>2. Auth!JwtStatus(changed, request.caller) = Auth!JwtStatus(kv, request.caller)
    BY DEF Auth!JwtStatus, Auth!ReadPolicy
  <2> QED
    BY <1>1, <2>1, <2>2 DEF Auth!IsAuthenticated
<1>3. attested(changed, "gcp") = 200
  BY <1>1 DEF AttestationStatus, Policy!GcpStatus
<1>4. ~ Keys!IsExpired(changed, request.kid, t)
  BY <1>1 DEF Keys!IsExpired, Keys!ExpiryTime
<1>5. Bound(again)
  BY <1>1 DEF Bound
<1> HIDE DEF caller, attested
<1>6. UnwrapKeyStatus(changed, again, t)
        = IF request.attestation = Undefined THEN 400
          ELSE IF caller(changed) # 200 THEN caller(changed)
          ELSE IF request.kid = Undefined \/ ~ IsPem(request.wrappingKey)
          THEN 400
          ELSE IF attested(changed, "gcp") # 200 THEN attested(changed, "gcp")
          ELSE IF ~ Bound(again) THEN 400
          ELSE IF request.kid \notin DOMAIN kv.keys THEN 404
          ELSE IF Keys!IsExpired(changed, request.kid, t) THEN 410
          ELSE WrapStatus(request.wrappingKey)
  BY DEF UnwrapKeyStatus, CallerStatus, caller, attested
<1> QED
  BY <1>1, <1>2, <1>3, <1>4, <1>5, <1>6
=============================================================================
