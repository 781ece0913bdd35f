---------------------------- MODULE KeyLifecycle ----------------------------
(***************************************************************************)
(* The life of an HPKE key pair: generated by refresh, kept in the maps     *)
(* hpkeKeyIdMap and hpkeKeysMap, exposed to public-key clients by pubkey    *)
(* and listpubkeys, released to private-key clients by key, unwrapKey and   *)
(* unwrapKeyGcp, and expired by the key rotation policy.  The service runs  *)
(* on CCF: refresh executes on the primary, the other handlers on any node, *)
(* from the prefix of the ledger that node has applied.                     *)
(*                                                                         *)
(* Each handler first checks its caller and its arguments.  A request that *)
(* fails there is answered 4xx or 5xx and changes nothing, so it is a      *)
(* stuttering step; the actions below are the requests that pass.           *)
(*                                                                         *)
(* A definition marked "Mutant" is a plausible slip in the definition after *)
(* it.  No action uses it: putting it in that definition's place shows that *)
(* the properties notice.                                                   *)
(***************************************************************************)
EXTENDS CcfLedger, FiniteSets

CONSTANTS
  KeyPairs,       \* the key pairs the generator can draw
  Nodes,          \* nodes that answer requests
  Handles,        \* values of calcVersion
  HandleOf,       \* the handle calcVersion computes from a key pair's hash
  Policies,       \* key rotation policies governance may set
  NoPolicy,       \* keyRotationPolicyMap holds nothing
  NoExpiry,       \* expiry of a key made while there was no policy
  NoKey,          \* the JavaScript value undefined, as a kid
  NoClaims,       \* a transaction sets no claims digest
  NoRequest,      \* a historical-query handle nobody uses
  Pending,        \* the receipt of an entry CCF has not fetched yet
  MsPerSecond,    \* 1000 in the code
  OhttpIds,       \* 90 in the code: how many OHTTP identifiers there are
  OhttpBase,      \* 10 in the code: the first of them
  RefreshGap,     \* the operator refreshes at least this often (ms)
  MaxDelay,       \* bound on the time one refresh takes (ms)
  MaxSkew,        \* bound on how far the next primary's clock is behind (ms)
  MaxTime         \* bound on the clock (ms)

ASSUME ConstantsAssumption ==
  /\ HandleOf \in [KeyPairs -> Handles]
  /\ Policies \subseteq [rotation_interval_seconds : Int,
                         grace_period_seconds : Int]
  /\ NoPolicy \notin Policies
  /\ NoExpiry \notin Int
  /\ NoKey \notin KeyPairs \X Nat
  /\ NoClaims \notin KeyPairs
  /\ Pending \notin KeyPairs \cup {NoClaims}
  /\ NoRequest \notin [version : Nat \ {0},
                       receipt : KeyPairs \cup {NoClaims, Pending}]
  /\ MsPerSecond \in Nat \ {0}
  /\ OhttpIds \in Nat \ {0}
  /\ OhttpBase \in Nat
  /\ RefreshGap \in Nat
  /\ MaxDelay \in Nat
  /\ MaxSkew \in Nat
  /\ MaxTime \in Nat

VARIABLES
  now,            \* the clock of the node's host, as Date.now reads it
  used,           \* every key pair generated so far, lost ones included
  applied,        \* how much of the ledger each node has applied
  historical,     \* each node's historical queries, by handle
  published       \* kids that pubkey has answered 200 for

vars == <<ledger, commit, now, used, applied, historical, published>>

Kid == KeyPairs \X (Nat \ {0})

KeyItem == [id : Nat, timestamp : Nat, expiry : Int \cup {NoExpiry},
            version : Nat \ {0}]

Request == [version : Nat \ {0}, receipt : KeyPairs \cup {NoClaims, Pending}]

\* The state of the service's maps: hpkeKeyIdMap, hpkeKeysMap and
\* keyRotationPolicyMap; claims is the claims digest of the transaction that
\* wrote the entry, into which refresh puts the new public key.
EmptyMaps == [ids |-> <<>>, keys |-> <<>>, rotation |-> NoPolicy,
              claims |-> NoClaims]

\* f with k mapped to v: the set operation of a map of the key-value store.
Put(f, k, v) == [x \in DOMAIN f \cup {k} |-> IF x = k THEN v ELSE f[x]]

Init ==
  /\ ledger = <<EmptyMaps>>
  /\ commit = 1
  /\ now = 0
  /\ used = {}
  /\ applied = [n \in Nodes |-> 1]
  /\ historical = [n \in Nodes |-> [h \in Handles |-> NoRequest]]
  /\ published = {}

-----------------------------------------------------------------------------
(***************************************************************************)
(* What the handlers compute from one state kv of the maps at a time t.     *)
(***************************************************************************)

\* LastestItemStore.size, of hpkeKeyIdMap.
Size(kv) == Cardinality(DOMAIN kv.ids)

\* LastestItemStore.latestItem: the map's size is taken for the newest id.
LatestItem(kv) ==
  IF Size(kv) \in DOMAIN kv.ids THEN kv.ids[Size(kv)] ELSE NoKey

\* Mutant: ids come from a counter of generated keys, not from the map.
NextIdCounting(kv) == Cardinality(used) + 1

\* Mutant: ids start at 0.
NextIdZeroBased(kv) == Size(kv)

\* The id of the next key.
NextId(kv) == Size(kv) + 1

\* KeyRotationPolicy.getKeyItemExpiryTime, for a key created at time t.
ExpiryTime(kv, t) ==
  IF kv.rotation = NoPolicy THEN NoExpiry
  ELSE t + kv.rotation.rotation_interval_seconds * MsPerSecond

\* Mutant: the last millisecond of the interval counts as expired.
IsExpiredAtOnce(kv, kid, t) ==
  /\ kv.rotation # NoPolicy
  /\ t >= ExpiryTime(kv, kv.keys[kid].timestamp)

\* KeyRotationPolicy.isExpired decides by the policy in force now, not by the
\* expiry stored with the key.
IsExpired(kv, kid, t) ==
  /\ kv.rotation # NoPolicy
  /\ t > ExpiryTime(kv, kv.keys[kid].timestamp)

\* How long a new key is kept from public-key clients.
ExposureDelay(kv) ==
  IF kv.rotation = NoPolicy THEN 0
  ELSE kv.rotation.grace_period_seconds * MsPerSecond

\* Mutant: the comparison of age and delay turned round.
ExposableIdsYoung(kv, t) ==
  {id \in DOMAIN kv.ids \cap 1 .. Size(kv) :
     \/ kv.ids[id] \notin DOMAIN kv.keys
     \/ ExposureDelay(kv) <= 0
     \/ t - kv.keys[kv.ids[id]].timestamp <= ExposureDelay(kv)}

\* The ids at which the loop of getLatestExposableKey would stop.
ExposableIds(kv, t) ==
  {id \in DOMAIN kv.ids \cap 1 .. Size(kv) :
     \/ kv.ids[id] \notin DOMAIN kv.keys
     \/ ExposureDelay(kv) <= 0
     \/ t - kv.keys[kv.ids[id]].timestamp >= ExposureDelay(kv)}

\* Mutant: the loop runs from id 1 up.
OldestExposableKey(kv, t) ==
  LET ids == ExposableIds(kv, t)
  IN  IF ids = {} THEN NoKey
      ELSE kv.ids[CHOOSE id \in ids : \A other \in ids : id <= other]

\* KeyRotationPolicy.getLatestExposableKey: the loop runs from the newest id
\* down and returns at the first that qualifies.
LatestExposableKey(kv, t) ==
  LET ids == ExposableIds(kv, t)
  IN  IF ids = {} THEN NoKey
      ELSE kv.ids[CHOOSE id \in ids : \A other \in ids : other <= id]

\* The kid listpubkeys and pubkey answer with when none is asked for: the
\* latest exposable key or, if there is none, the newest key.
PublicKid(kv, t) ==
  IF LatestExposableKey(kv, t) # NoKey THEN LatestExposableKey(kv, t)
  ELSE LatestItem(kv)

\* What node n reads.
NodeKv(n) == ledger[applied[n]]

-----------------------------------------------------------------------------
(***************************************************************************)
(* Receipts.  KeyStore.receipt asks CCF for the ledger entry that wrote the *)
(* key, through the node's historical-query handle calcVersion(kid), a      *)
(* function of the first eight characters of kid, hence of the key pair.    *)
(***************************************************************************)

\* Mutant: the kid does not enter into the handle.
SharedHandle(kid) == CHOOSE h \in Handles : TRUE

Handle(kid) == HandleOf[kid[1]]

\* Mutant: any entry fetched under the handle will do.
ReceiptReadyUnchecked(n, kid) ==
  /\ historical[n][Handle(kid)] # NoRequest
  /\ historical[n][Handle(kid)].receipt # Pending

\* The receipt is there: the node has fetched exactly that entry.
ReceiptReady(n, kid) ==
  LET request == historical[n][Handle(kid)]
  IN  /\ request # NoRequest
      /\ request.version = NodeKv(n).keys[kid].version
      /\ request.receipt # Pending

\* getStateRange: a request for another entry under the same handle replaces
\* the one that was there; asking for the same entry again leaves it alone.
AskReceipt(n, kid) ==
  LET request == historical[n][Handle(kid)]
      version == NodeKv(n).keys[kid].version
  IN  IF request # NoRequest /\ request.version = version
      THEN UNCHANGED historical
      ELSE historical' = [historical EXCEPT ![n][Handle(kid)] =
                            [version |-> version, receipt |-> Pending]]

\* Only committed entries that the node has got have receipts.
Fetchable(n, version) == version <= commit /\ version <= applied[n]

\* CCF has fetched the entry a handle asks for and built its receipt, which
\* carries the entry's claims.
HistoricalFetch(n, h) ==
  LET request == historical[n][h]
  IN  /\ request # NoRequest
      /\ request.receipt = Pending
      /\ Fetchable(n, request.version)
      /\ historical' = [historical EXCEPT ![n][h].receipt =
                          ledger[request.version].claims]
      /\ UNCHANGED <<ledger, commit, now, used, applied, published>>

\* Nobody asked again within the 1800 seconds the request asked for.
HistoricalExpire(n, h) ==
  /\ historical[n][h] # NoRequest
  /\ historical' = [historical EXCEPT ![n][h] = NoRequest]
  /\ UNCHANGED <<ledger, commit, now, used, applied, published>>

\* Mutant: pubkey does not wait for a receipt, as unwrapKey does not.
PubkeyStatusUngated(n, kid) ==
  IF kid \notin DOMAIN NodeKv(n).keys THEN 404 ELSE 200

\* The status of the answers: pubkey for kid, unwrapKey for kid at the present
\* time.  In unwrapKey a missing receipt is replaced by the empty string, so
\* the test for undefined that would answer 202 never succeeds.
PubkeyStatus(n, kid) ==
  IF kid \notin DOMAIN NodeKv(n).keys THEN 404
  ELSE IF ReceiptReady(n, kid) THEN 200 ELSE 202

UnwrapKeyStatus(n, kid) ==
  IF kid \notin DOMAIN NodeKv(n).keys THEN 404
  ELSE IF IsExpired(NodeKv(n), kid, now) THEN 410 ELSE 200

-----------------------------------------------------------------------------
(***************************************************************************)
(* The handlers.                                                            *)
(***************************************************************************)

\* KeyGeneration.generateKeyItem, which has the next transaction for a version
\* once it is stored.
GeneratedKeyItem(id, expiry, t) ==
  [id |-> id, timestamp |-> t, expiry |-> expiry, version |-> Len(ledger) + 1]

\* refresh draws a key pair and stores it as the newest key.  It reads the
\* clock twice: for the expiry and, delay milliseconds later, for the
\* timestamp of the key.
Refresh(pair, delay) ==
  LET id == NextId(Latest)
      kid == <<pair, id>>
      item == GeneratedKeyItem((id % OhttpIds) + OhttpBase,
                               ExpiryTime(Latest, now), now + delay)
  IN  /\ pair \notin used
      /\ now + delay <= MaxTime
      /\ Write([ids |-> Put(Latest.ids, id, kid),
                keys |-> Put(Latest.keys, kid, item),
                rotation |-> Latest.rotation,
                claims |-> pair])
      /\ used' = used \cup {pair}
      /\ now' = now + delay
      /\ UNCHANGED <<applied, historical, published>>

\* The action set_key_rotation_policy of an accepted proposal.
SetKeyRotationPolicy(policy) ==
  /\ Write([ids |-> Latest.ids, keys |-> Latest.keys, rotation |-> policy,
            claims |-> NoClaims])
  /\ UNCHANGED <<now, used, applied, historical, published>>

\* pubkey: for the kid in the query, or for the one PublicKid picks.  Without
\* a receipt the answer is 202, without a key 400 or 404.
Pubkey(n, kid) ==
  /\ kid \in DOMAIN NodeKv(n).keys
  /\ AskReceipt(n, kid)
  /\ published' = IF PubkeyStatus(n, kid) = 200 THEN published \cup {kid}
                                                 ELSE published
  /\ UNCHANGED <<ledger, commit, now, used, applied>>

\* key: as pubkey, but a missing receipt is left empty; any key in the query,
\* or the newest one.  No expiry check.
Key(n, kid) ==
  /\ kid \in DOMAIN NodeKv(n).keys
  /\ AskReceipt(n, kid)
  /\ UNCHANGED <<ledger, commit, now, used, applied, published>>

\* unwrapKey: 410 for an expired key, before the receipt is asked for.
UnwrapKey(n, kid) ==
  /\ kid \in DOMAIN NodeKv(n).keys
  /\ UnwrapKeyStatus(n, kid) = 200
  /\ AskReceipt(n, kid)
  /\ UNCHANGED <<ledger, commit, now, used, applied, published>>

\* unwrapKeyGcp: always the newest key, expired or not.
UnwrapKeyGcp(n) ==
  /\ LatestItem(NodeKv(n)) \in DOMAIN NodeKv(n).keys
  /\ AskReceipt(n, LatestItem(NodeKv(n)))
  /\ UNCHANGED <<ledger, commit, now, used, applied, published>>

-----------------------------------------------------------------------------
(***************************************************************************)
(* The environment: the clock, and CCF's replication.                       *)
(***************************************************************************)

Tick ==
  /\ now < MaxTime
  /\ now' = now + 1
  /\ UNCHANGED <<ledger, commit, used, applied, historical, published>>

Commit ==
  /\ \E v \in 1 .. MaxLedger : GloballyCommit(v)
  /\ UNCHANGED <<now, used, applied, historical, published>>

Replicate(n) ==
  /\ \E v \in applied[n] + 1 .. Len(ledger) :
       applied' = [applied EXCEPT ![n] = v]
  /\ UNCHANGED <<ledger, commit, now, used, historical, published>>

\* The ledger of the new primary may miss uncommitted entries; every node
\* follows it.  The clock of its host may be behind.
NewPrimary(v, skew) ==
  /\ Rollback(v)
  /\ applied' = [n \in Nodes |-> IF applied[n] > v THEN v ELSE applied[n]]
  /\ skew <= now
  /\ now' = now - skew
  /\ UNCHANGED <<used, historical, published>>

-----------------------------------------------------------------------------

\* Every kid the maps of node n hold.
KnownKids(n) == DOMAIN NodeKv(n).keys

Writes ==
  \/ \E pair \in KeyPairs, delay \in 0 .. MaxDelay : Refresh(pair, delay)
  \/ \E policy \in Policies : SetKeyRotationPolicy(policy)

Reads ==
  \/ \E n \in Nodes : \E kid \in KnownKids(n) : Pubkey(n, kid)
  \/ \E n \in Nodes : \E kid \in KnownKids(n) : Key(n, kid)
  \/ \E n \in Nodes : \E kid \in KnownKids(n) : UnwrapKey(n, kid)
  \/ \E n \in Nodes : UnwrapKeyGcp(n)

Service ==
  \/ Tick
  \/ Commit
  \/ \E n \in Nodes : Replicate(n)
  \/ \E v \in 1 .. MaxLedger, skew \in 0 .. MaxSkew : NewPrimary(v, skew)

Fetches == \E n \in Nodes, h \in Handles : HistoricalFetch(n, h)

Expiries == \E n \in Nodes, h \in Handles : HistoricalExpire(n, h)

Next == Writes \/ Reads \/ Service \/ Fetches \/ Expiries

Spec == Init /\ [][Next]_vars

\* The behaviours in which clients keep asking: the historical requests of a
\* kid that is polled do not expire, the service commits what it has executed,
\* replicates it, and fetches the entries it is asked for.
AnyKid == KeyPairs \X (1 .. MaxLedger)

Fairness ==
  /\ WF_vars(Commit)
  /\ \A n \in Nodes :
       /\ WF_vars(Replicate(n))
       /\ \A h \in Handles : WF_vars(HistoricalFetch(n, h))
       /\ \A kid \in AnyKid : WF_vars(kid \in KnownKids(n) /\ Pubkey(n, kid))

PolledSpec == Init /\ [][Writes \/ Reads \/ Service \/ Fetches]_vars /\ Fairness

\* The behaviours without receipts, for what only depends on maps and clock:
\* the reads left out change nothing but historical and published.
StoreSpec == Init /\ [][Writes \/ Service]_vars

-----------------------------------------------------------------------------
(***************************************************************************)
(* Properties.                                                              *)
(***************************************************************************)

KvTypeOK(kv) ==
  /\ IsFiniteSet(DOMAIN kv.ids)
  /\ kv.ids \in [DOMAIN kv.ids -> Kid]
  /\ DOMAIN kv.keys \subseteq Kid
  /\ kv.keys \in [DOMAIN kv.keys -> KeyItem]
  /\ kv.rotation \in Policies \cup {NoPolicy}
  /\ kv.claims \in KeyPairs \cup {NoClaims}

TypeOK ==
  /\ LedgerTypeOK
  /\ \A i \in 1 .. Len(ledger) : KvTypeOK(ledger[i])
  /\ now \in Nat
  /\ used \subseteq KeyPairs
  /\ applied \in [Nodes -> 1 .. Len(ledger)]
  /\ historical \in [Nodes -> [Handles -> Request \cup {NoRequest}]]
  /\ published \subseteq Kid

\* The two maps fit together in every state of the ledger.  Ids are handed
\* out by map size: they are 1, 2, ... without a gap, each names a key of its
\* own and carries its number in the kid, and every stored key has an id.
\* (hpkeKeyIdMap.size is used as "the id of the newest key" all over the code.)
KvConsistent(kv) ==
  /\ DOMAIN kv.ids = 1 .. Size(kv)
  /\ \A id \in DOMAIN kv.ids : kv.ids[id][2] = id
  /\ \A a, b \in DOMAIN kv.ids : kv.ids[a][1] = kv.ids[b][1] => a = b
  /\ DOMAIN kv.keys = {kv.ids[id] : id \in DOMAIN kv.ids}

StoreConsistent == \A i \in 1 .. Len(ledger) : KvConsistent(ledger[i])

\* A key that pubkey has handed out (answer 200, with a receipt) is never lost
\* or altered, whatever primaries fail: every ledger that can still come about
\* holds it unchanged.
PublishedDurable ==
  \A kid \in published :
    \A i \in commit .. Len(ledger) :
      /\ kid \in DOMAIN ledger[i].keys
      /\ ledger[i].keys[kid] = ledger[commit].keys[kid]

\* A receipt delivered with a key vouches for that very key: the claims it
\* carries are those of the transaction that stored the key, also when several
\* kids share a historical-query handle and when the entry was asked for
\* before a rollback put another transaction in its place.
ReceiptMatchesKey ==
  \A n \in Nodes : \A kid \in KnownKids(n) :
    ReceiptReady(n, kid) => historical[n][Handle(kid)].receipt = kid[1]

\* If keys are refreshed every RefreshGap or sooner, none of the surviving
\* keys missing, ...
RefreshedOnTime(kv, t) ==
  LET Timestamp(id) == kv.keys[kv.ids[id]].timestamp
  IN  /\ Size(kv) > 0
      /\ t - Timestamp(Size(kv)) <= RefreshGap
      /\ \A id \in 1 .. Size(kv) - 1 : Timestamp(id + 1) - Timestamp(id) <= RefreshGap

\* ... and the rotation interval covers that gap and the exposure delay, ...
PolicyCoversGap(policy) ==
  \/ policy = NoPolicy
  \/ LET rotation == policy.rotation_interval_seconds * MsPerSecond
         grace == policy.grace_period_seconds * MsPerSecond
     IN  RefreshGap <= rotation /\ RefreshGap + grace <= rotation

\* ... then the key that pubkey and listpubkeys give to public-key clients is
\* one that unwrapKey still releases on the same node.
PublicKeyUsable ==
  \A n \in Nodes :
    RefreshedOnTime(NodeKv(n), now) /\ PolicyCoversGap(NodeKv(n).rotation)
      => UnwrapKeyStatus(n, PublicKid(NodeKv(n), now)) = 200

\* The expiry stored with a key and shown to its clients is honoured by every
\* node, however far behind, unless the policy in force there has a shorter
\* interval than the one the key was made under: until then unwrapKey does not
\* take the key for expired, although it computes the expiry again from the
\* timestamp and the policy in force.  (A policy that shortens the interval
\* expires keys before the time their clients were told.)
AdvertisedExpiryHonoured ==
  \A n \in Nodes : \A kid \in KnownKids(n) :
    LET kv == NodeKv(n)
        item == kv.keys[kid]
        made == ledger[item.version]
    IN  /\ item.expiry # NoExpiry
        /\ now <= item.expiry
        /\ kv.rotation # NoPolicy
             => kv.rotation.rotation_interval_seconds
                  >= made.rotation.rotation_interval_seconds
        => ~ IsExpired(kv, kid, now)

\* Once a node has exposed some key, public-key clients that ask again get the
\* same key or a newer one, from that node or any other, across refreshes,
\* commits and changes of the policy.  Excepted are nodes that have applied
\* less of the ledger than the first had, because they lag behind or follow a
\* new primary, a longer exposure delay, and a clock that went back; nothing
\* in the code keeps those from answering with an older key.
PublicKeyNeverRegresses ==
  [][ \A n \in Nodes : ExposableIds(NodeKv(n), now) # {} =>
        \A m \in Nodes :
          /\ applied'[m] >= applied[n]
          /\ now' >= now
          /\ ExposureDelay(NodeKv(m)') <= ExposureDelay(NodeKv(n))
          => PublicKid(NodeKv(m)', now')[2] >= PublicKid(NodeKv(n), now)[2] ]_vars

\* The OHTTP identifier in a client's message tells the usable keys apart: as
\* long as no more keys are unexpired at a time than there are identifiers, and
\* no clock went back between two keys, no two of them have the same one.
UsableKeysToldApart ==
  LET usable == {kid \in DOMAIN Latest.keys : ~ IsExpired(Latest, kid, now)}
      Older(a, b) == Latest.keys[a].timestamp < Latest.keys[b].timestamp
  IN  /\ Cardinality(usable) <= OhttpIds
      /\ \A a, b \in DOMAIN Latest.keys : Older(a, b) => a[2] < b[2]
      => \A a, b \in usable :
           Latest.keys[a].id = Latest.keys[b].id => a = b

\* A client that keeps asking pubkey for a key is answered 200 in the end,
\* unless the key is lost before it is committed.
PubkeyAnswered ==
  \A n \in Nodes, kid \in AnyKid :
    kid \in KnownKids(n) ~> \/ PubkeyStatus(n, kid) = 200
                            \/ kid \notin DOMAIN Latest.keys

\* The key store is a durable, append-only registry (see KeyRegistry).
Registry == INSTANCE KeyRegistry WITH
  keys <- [id \in 1 .. Size(Latest) |-> Latest.ids[id][1]],
  generated <- used,
  durable <- Size(ledger[commit])

ImplementsRegistry == Registry!Spec

-----------------------------------------------------------------------------
(***************************************************************************)
(* Why they hold: the inductive invariant.                                  *)
(***************************************************************************)

\* No stored key pair can be drawn again.
FreshKeys ==
  \A i \in 1 .. Len(ledger) :
    \A id \in DOMAIN ledger[i].ids : ledger[i].ids[id][1] \in used

\* A later entry holds the keys of an earlier one, unchanged.
AppendOnly ==
  \A i, j \in 1 .. Len(ledger) :
    i <= j => \A kid \in DOMAIN ledger[i].keys :
                /\ kid \in DOMAIN ledger[j].keys
                /\ ledger[j].keys[kid] = ledger[i].keys[kid]

\* The version of a key is the ledger entry that stored it, whose claims are
\* the key's.
StoredAtVersion ==
  \A i \in 1 .. Len(ledger) : \A kid \in DOMAIN ledger[i].keys :
    LET version == ledger[i].keys[kid].version
    IN  /\ version \in 1 .. i
        /\ kid \in DOMAIN ledger[version].keys
        /\ ledger[version].claims = kid[1]

\* A receipt is that of a committed entry.
ReceiptsCommitted ==
  \A n \in Nodes, h \in Handles :
    LET request == historical[n][h]
    IN  request # NoRequest /\ request.receipt # Pending
          => /\ request.version \in 1 .. commit
             /\ request.receipt = ledger[request.version].claims

PublishedCommitted == published \subseteq DOMAIN ledger[commit].keys

\* A key's expiry was computed by the policy in force when it was made, which
\* for the key's timestamp gives no earlier one.
ExpiryAsMade ==
  \A i \in 1 .. Len(ledger) : \A kid \in DOMAIN ledger[i].keys :
    LET item == ledger[i].keys[kid]
        made == ledger[item.version]
    IN  item.expiry # NoExpiry
          => /\ made.rotation # NoPolicy
             /\ item.expiry <= ExpiryTime(made, item.timestamp)

\* The OHTTP identifier of a key is its number, modulo the number of them.
OhttpIdAsMade ==
  \A i \in 1 .. Len(ledger) : \A kid \in DOMAIN ledger[i].keys :
    ledger[i].keys[kid].id = (kid[2] % OhttpIds) + OhttpBase

\* The state of the service can always be accounted for: no key pair comes
\* twice, the key maps only grow along the ledger, a stored version points to
\* the transaction that made the key, what clients hold as a receipt or as a
\* published key is committed.
StoreInv ==
  /\ TypeOK
  /\ StoreConsistent
  /\ FreshKeys
  /\ AppendOnly
  /\ StoredAtVersion
  /\ ReceiptsCommitted
  /\ PublishedCommitted
=============================================================================
