------------------------- MODULE KeyLifecycleProofs -------------------------
(***************************************************************************)
(* Proofs about KeyLifecycle for all values of its constants: any number of *)
(* keys, nodes and handles, any policies, ledgers and clocks without bound. *)
(* First what holds in the store, then what its clients can rely on: it is   *)
(* the registry KeyRegistry promises, the key given to public-key clients   *)
(* never regresses and is one that private-key clients still get, and OHTTP *)
(* identifiers tell the usable keys apart.                                  *)
(***************************************************************************)
EXTENDS KeyLifecycle, CcfLedgerProofs, FiniteSetTheorems

-----------------------------------------------------------------------------
(***************************************************************************)
(* Types.                                                                   *)
(***************************************************************************)

\* What the primary reads is well typed.
LEMMA LatestType ==
  ASSUME TypeOK
  PROVE  /\ Len(ledger) \in Nat \ {0}
         /\ Latest = ledger[Len(ledger)]
         /\ KvTypeOK(Latest)
         /\ Size(Latest) \in Nat
<1>1. Len(ledger) \in Nat \ {0} /\ Latest = ledger[Len(ledger)]
  BY DEF TypeOK, LedgerTypeOK, Latest
<1>2. KvTypeOK(Latest)
  BY <1>1 DEF TypeOK
<1> QED
  BY <1>1, <1>2, FS_CardinalityType DEF KvTypeOK, Size

\* So is what any node reads.
LEMMA NodeType ==
  ASSUME TypeOK, NEW n \in Nodes, NEW kid \in KnownKids(n)
  PROVE  /\ applied[n] \in 1 .. Len(ledger)
         /\ KvTypeOK(NodeKv(n))
         /\ kid \in Kid
         /\ NodeKv(n).keys[kid] \in KeyItem
         /\ NodeKv(n).keys[kid].version \in Nat \ {0}
<1>1. applied[n] \in 1 .. Len(ledger) /\ KvTypeOK(NodeKv(n))
  BY DEF TypeOK, NodeKv
<1> QED
  BY <1>1 DEF KnownKids, KvTypeOK, KeyItem

\* The expiry of a new key.
LEMMA ExpiryType ==
  ASSUME NEW kv, KvTypeOK(kv), NEW t \in Nat
  PROVE  ExpiryTime(kv, t) \in Int \cup {NoExpiry}
<1>1. CASE kv.rotation = NoPolicy
  BY <1>1 DEF ExpiryTime
<1>2. CASE kv.rotation # NoPolicy
  <2>1. kv.rotation \in [rotation_interval_seconds : Int,
                         grace_period_seconds : Int]
    BY <1>2, ConstantsAssumption DEF KvTypeOK
  <2>2. kv.rotation.rotation_interval_seconds \in Int
    BY <2>1
  <2>3. kv.rotation.rotation_interval_seconds * MsPerSecond \in Int
    BY <2>2, ConstantsAssumption
  <2> QED
    BY <1>2, <2>3 DEF ExpiryTime
<1> QED
  BY <1>1, <1>2

\* A request for a receipt leaves every other request alone; its own becomes
\* pending unless it was there already.
LEMMA AskReceiptStep ==
  ASSUME TypeOK, NEW n \in Nodes, NEW kid \in KnownKids(n), AskReceipt(n, kid)
  PROVE  /\ historical' \in [Nodes -> [Handles -> Request \cup {NoRequest}]]
         /\ \A m \in Nodes, h \in Handles :
              \/ historical'[m][h] = historical[m][h]
              \/ /\ historical'[m][h] \in Request
                 /\ historical'[m][h].receipt = Pending
<1> DEFINE version == NodeKv(n).keys[kid].version
           new == [version |-> version, receipt |-> Pending]
<1>1. historical \in [Nodes -> [Handles -> Request \cup {NoRequest}]]
  BY DEF TypeOK
<1>2. new \in Request
  BY NodeType DEF Request
<1>3. \/ historical' = historical
      \/ historical' = [historical EXCEPT ![n][Handle(kid)] = new]
  BY DEF AskReceipt
<1> HIDE DEF new
<1>4. new.receipt = Pending
  BY DEF new
<1>5. CASE historical' = historical
  BY <1>1, <1>5
<1>6. CASE historical' = [historical EXCEPT ![n][Handle(kid)] = new]
  BY <1>1, <1>2, <1>4, <1>6
<1> QED
  BY <1>3, <1>5, <1>6

\* A transaction that writes well-typed maps keeps the ledger well typed.
LEMMA WriteType ==
  ASSUME TypeOK, NEW kv, KvTypeOK(kv), Write(kv)
  PROVE  /\ LedgerTypeOK'
         /\ \A i \in 1 .. Len(ledger') : KvTypeOK(ledger'[i])
         /\ Len(ledger') = Len(ledger) + 1
         /\ applied \in [Nodes -> 1 .. Len(ledger')]
<1>1. /\ LedgerTypeOK'
      /\ Len(ledger') = Len(ledger) + 1
      /\ ledger'[Len(ledger) + 1] = kv
      /\ \A i \in 1 .. Len(ledger) : ledger'[i] = ledger[i]
  BY WriteStep DEF TypeOK
<1>2. Len(ledger) \in Nat \ {0}
  BY LatestType
<1>3. ASSUME NEW i \in 1 .. Len(ledger') PROVE KvTypeOK(ledger'[i])
  <2>1. i \in 1 .. Len(ledger) \/ i = Len(ledger) + 1
    BY <1>1, <1>2
  <2> QED
    BY <2>1, <1>1 DEF TypeOK
<1>4. applied \in [Nodes -> 1 .. Len(ledger')]
  <2>1. \A n \in Nodes : applied[n] \in 1 .. Len(ledger')
    BY <1>1, <1>2 DEF TypeOK
  <2> QED
    BY <2>1 DEF TypeOK
<1> QED
  BY <1>1, <1>3, <1>4

\* The new key that refresh stores.
LEMMA RefreshType ==
  ASSUME TypeOK, NEW pair \in KeyPairs, NEW delay \in Nat, Refresh(pair, delay)
  PROVE  TypeOK'
<1> DEFINE id == NextId(Latest)
           kid == <<pair, id>>
           item == [id |-> (id % OhttpIds) + OhttpBase,
                    timestamp |-> now + delay,
                    expiry |-> ExpiryTime(Latest, now),
                    version |-> Len(ledger) + 1]
           kv == [ids |-> Put(Latest.ids, id, kid),
                  keys |-> Put(Latest.keys, kid, item),
                  rotation |-> Latest.rotation,
                  claims |-> pair]
<1>1. /\ Write(kv)
      /\ used' = used \cup {pair}
      /\ now' = now + delay
      /\ UNCHANGED <<applied, historical, published>>
  BY DEF Refresh, GeneratedKeyItem
<1>2. /\ id \in Nat \ {0}
      /\ kid \in Kid
      /\ KvTypeOK(Latest)
      /\ now \in Nat
      /\ Len(ledger) \in Nat
  BY LatestType DEF Kid, TypeOK, NextId
<1>3. item \in KeyItem
  <2>1. (id % OhttpIds) + OhttpBase \in Nat
    BY <1>2, ConstantsAssumption
  <2>2. ExpiryTime(Latest, now) \in Int \cup {NoExpiry}
    BY <1>2, ExpiryType
  <2> QED
    BY <1>2, <2>1, <2>2 DEF KeyItem
<1>4. KvTypeOK(kv)
  <2> DEFINE I == DOMAIN Latest.ids
             K == DOMAIN Latest.keys
  <2>a. /\ kv.ids = Put(Latest.ids, id, kid)
        /\ kv.keys = Put(Latest.keys, kid, item)
        /\ kv.rotation = Latest.rotation
        /\ kv.claims = pair
    OBVIOUS
  <2>b. /\ Latest.ids \in [I -> Kid]
        /\ Latest.keys \in [K -> KeyItem]
        /\ K \subseteq Kid
    BY <1>2 DEF KvTypeOK
  <2>e. DOMAIN Latest.ids = I /\ DOMAIN Latest.keys = K
    OBVIOUS
  <2> HIDE DEF id, kid, item, kv, I, K
  <2>c. /\ Put(Latest.ids, id, kid) \in [I \cup {id} -> Kid]
        /\ DOMAIN Put(Latest.ids, id, kid) = I \cup {id}
    BY <1>2, <2>b, <2>e DEF Put
  <2>d. /\ Put(Latest.keys, kid, item) \in [K \cup {kid} -> KeyItem]
        /\ DOMAIN Put(Latest.keys, kid, item) = K \cup {kid}
    BY <1>3, <2>b, <2>e DEF Put
  <2>1. /\ kv.ids \in [I \cup {id} -> Kid]
        /\ DOMAIN kv.ids = I \cup {id}
    BY <2>a, <2>c
  <2>2. /\ kv.keys \in [K \cup {kid} -> KeyItem]
        /\ DOMAIN kv.keys = K \cup {kid}
    BY <2>a, <2>d
  <2>3. IsFiniteSet(DOMAIN kv.ids)
    BY <1>2, <2>1, FS_AddElement DEF KvTypeOK, I
  <2> QED
    BY <1>2, <2>a, <2>b, <2>1, <2>2, <2>3 DEF KvTypeOK
<1> HIDE DEF id, kid, item, kv
<1>5. /\ LedgerTypeOK'
      /\ \A i \in 1 .. Len(ledger') : KvTypeOK(ledger'[i])
      /\ applied \in [Nodes -> 1 .. Len(ledger')]
  BY <1>1, <1>4, WriteType
<1> QED
  BY <1>1, <1>2, <1>5 DEF TypeOK

LEMMA TypeInit == Init => TypeOK
<1> SUFFICES ASSUME Init PROVE TypeOK
  OBVIOUS
<1>1. /\ Len(ledger) = 1
      /\ ledger[1] = EmptyMaps
      /\ ledger \in Seq({ledger[1]})
      /\ Entries = {ledger[1]}
      /\ commit = 1
  BY DEF Init, Entries
<1>2. KvTypeOK(EmptyMaps)
  <2>1. DOMAIN EmptyMaps.ids = {} /\ DOMAIN EmptyMaps.keys = {}
    BY DEF EmptyMaps
  <2>2. /\ EmptyMaps.ids \in [DOMAIN EmptyMaps.ids -> Kid]
        /\ EmptyMaps.keys \in [DOMAIN EmptyMaps.keys -> KeyItem]
    BY DEF EmptyMaps
  <2> QED
    BY <2>1, <2>2, FS_EmptySet DEF KvTypeOK, EmptyMaps
<1>3. LedgerTypeOK
  BY <1>1 DEF LedgerTypeOK
<1> QED
  BY <1>1, <1>2, <1>3 DEF Init, TypeOK

LEMMA TypeStep == TypeOK /\ [Next]_vars => TypeOK'
<1> SUFFICES ASSUME TypeOK, [Next]_vars PROVE TypeOK'
  OBVIOUS
<1>1. ASSUME NEW pair \in KeyPairs, NEW delay \in 0 .. MaxDelay,
             Refresh(pair, delay)
      PROVE  TypeOK'
  BY <1>1, RefreshType, ConstantsAssumption
<1>2. ASSUME NEW policy \in Policies, SetKeyRotationPolicy(policy) PROVE TypeOK'
  <2> DEFINE kv == [ids |-> Latest.ids, keys |-> Latest.keys,
                    rotation |-> policy, claims |-> NoClaims]
  <2>1. Write(kv) /\ UNCHANGED <<now, used, applied, historical, published>>
    BY <1>2 DEF SetKeyRotationPolicy
  <2>2. KvTypeOK(kv)
    BY LatestType DEF KvTypeOK
  <2> HIDE DEF kv
  <2>3. /\ LedgerTypeOK'
        /\ \A i \in 1 .. Len(ledger') : KvTypeOK(ledger'[i])
        /\ applied \in [Nodes -> 1 .. Len(ledger')]
    BY <2>1, <2>2, WriteType
  <2> QED
    BY <2>1, <2>3 DEF TypeOK
<1>3. ASSUME NEW n \in Nodes, NEW kid \in KnownKids(n), Pubkey(n, kid)
      PROVE  TypeOK'
  <2>1. /\ historical' \in [Nodes -> [Handles -> Request \cup {NoRequest}]]
        /\ kid \in Kid
    BY <1>3, AskReceiptStep, NodeType DEF Pubkey
  <2>2. published' \subseteq Kid
    BY <1>3, <2>1 DEF Pubkey, TypeOK
  <2> QED
    BY <1>3, <2>1, <2>2 DEF Pubkey, TypeOK, LedgerTypeOK, Entries
<1>4. ASSUME NEW n \in Nodes, NEW kid \in KnownKids(n), Key(n, kid)
      PROVE  TypeOK'
  <2>1. historical' \in [Nodes -> [Handles -> Request \cup {NoRequest}]]
    BY <1>4, AskReceiptStep DEF Key
  <2> QED
    BY <1>4, <2>1 DEF Key, TypeOK, LedgerTypeOK, Entries
<1>4a. ASSUME NEW n \in Nodes, NEW kid \in KnownKids(n), UnwrapKey(n, kid)
       PROVE  TypeOK'
  <2>1. historical' \in [Nodes -> [Handles -> Request \cup {NoRequest}]]
    BY <1>4a, AskReceiptStep DEF UnwrapKey
  <2> QED
    BY <1>4a, <2>1 DEF UnwrapKey, TypeOK, LedgerTypeOK, Entries
<1>5. ASSUME NEW n \in Nodes, UnwrapKeyGcp(n) PROVE TypeOK'
  <2>1. historical' \in [Nodes -> [Handles -> Request \cup {NoRequest}]]
    BY <1>5, AskReceiptStep DEF UnwrapKeyGcp, KnownKids
  <2> QED
    BY <1>5, <2>1 DEF UnwrapKeyGcp, TypeOK, LedgerTypeOK, Entries
<1>6. CASE Tick
  BY <1>6 DEF Tick, TypeOK, LedgerTypeOK, Entries
<1>7. CASE Commit
  <2>1. LedgerTypeOK' /\ ledger' = ledger
    BY <1>7, GloballyCommitStep DEF Commit, TypeOK
  <2> QED
    BY <1>7, <2>1 DEF Commit, TypeOK
<1>8. ASSUME NEW n \in Nodes, Replicate(n) PROVE TypeOK'
  <2>1. applied' \in [Nodes -> 1 .. Len(ledger)]
    BY <1>8 DEF Replicate, TypeOK, LedgerTypeOK
  <2> QED
    BY <1>8, <2>1 DEF Replicate, TypeOK, LedgerTypeOK, Entries
<1>9. ASSUME NEW v \in 1 .. MaxLedger, NEW skew \in 0 .. MaxSkew,
             NewPrimary(v, skew)
      PROVE  TypeOK'
  <2>1. /\ LedgerTypeOK'
        /\ v \in commit .. Len(ledger)
        /\ Len(ledger') = v
        /\ \A i \in 1 .. v : ledger'[i] = ledger[i]
    BY <1>9, RollbackStep DEF NewPrimary, TypeOK
  <2>2. v \in 1 .. Len(ledger)
    BY <2>1 DEF TypeOK, LedgerTypeOK
  <2>3. \A i \in 1 .. Len(ledger') : KvTypeOK(ledger'[i])
    <3>1. \A i \in 1 .. v : i \in 1 .. Len(ledger)
      BY <2>2
    <3> QED
      BY <2>1, <3>1 DEF TypeOK
  <2>4. applied' \in [Nodes -> 1 .. Len(ledger')]
    <3>1. \A n \in Nodes : (IF applied[n] > v THEN v ELSE applied[n]) \in 1 .. v
      BY <2>2 DEF TypeOK
    <3> QED
      BY <1>9, <2>1, <3>1 DEF NewPrimary
  <2>5. now' \in Nat
    BY <1>9, ConstantsAssumption DEF NewPrimary, TypeOK
  <2> QED
    BY <1>9, <2>1, <2>3, <2>4, <2>5 DEF NewPrimary, TypeOK
<1>10. ASSUME NEW n \in Nodes, NEW h \in Handles, HistoricalFetch(n, h)
       PROVE  TypeOK'
  <2> DEFINE request == historical[n][h]
             fetched == [request EXCEPT !.receipt = ledger[request.version].claims]
  <2>1. request \in Request /\ request.version \in 1 .. Len(ledger)
    BY <1>10 DEF HistoricalFetch, Fetchable, TypeOK, LedgerTypeOK, Request
  <2>2. ledger[request.version].claims \in KeyPairs \cup {NoClaims}
    BY <2>1 DEF TypeOK, KvTypeOK
  <2>3. fetched \in Request
    BY <2>1, <2>2 DEF Request
  <2>4. historical' = [historical EXCEPT ![n][h] = fetched]
    BY <1>10 DEF HistoricalFetch
  <2> HIDE DEF fetched
  <2>5. historical' \in [Nodes -> [Handles -> Request \cup {NoRequest}]]
    BY <2>3, <2>4 DEF TypeOK
  <2> QED
    BY <1>10, <2>5 DEF HistoricalFetch, TypeOK, LedgerTypeOK, Entries
<1>11. ASSUME NEW n \in Nodes, NEW h \in Handles, HistoricalExpire(n, h)
       PROVE  TypeOK'
  BY <1>11 DEF HistoricalExpire, TypeOK, LedgerTypeOK, Entries
<1>12. CASE UNCHANGED vars
  BY <1>12 DEF vars, TypeOK, LedgerTypeOK, Entries
<1> QED
  BY <1>1, <1>2, <1>3, <1>4, <1>4a, <1>5, <1>6, <1>7, <1>8, <1>9, <1>10, <1>11, <1>12
     DEF Next, Writes, Reads, Service, Fetches, Expiries

\* The maps, the clock and the historical queries keep their types.
THEOREM TypeCorrect == Spec => []TypeOK
BY TypeInit, TypeStep, PTL DEF Spec

-----------------------------------------------------------------------------
(***************************************************************************)
(* The inductive invariant StoreInv.                                        *)
(***************************************************************************)

\* A new key pair under the next id keeps the two maps consistent.
LEMMA NewKeyConsistent ==
  ASSUME NEW old, KvTypeOK(old), KvConsistent(old),
         NEW pair, \A id \in DOMAIN old.ids : old.ids[id][1] # pair,
         NEW item, NEW kv,
         kv.ids = Put(old.ids, NextId(old), <<pair, NextId(old)>>),
         kv.keys = Put(old.keys, <<pair, NextId(old)>>, item)
  PROVE  /\ KvConsistent(kv)
         /\ <<pair, NextId(old)>> \notin DOMAIN old.keys
<1> DEFINE size == Size(old)
           kid == <<pair, size + 1>>
<1>1. /\ size \in Nat
      /\ NextId(old) = size + 1
      /\ DOMAIN old.ids = 1 .. size
  BY FS_CardinalityType DEF KvTypeOK, KvConsistent, Size, NextId
<1> HIDE DEF size
<1>2. size + 1 \notin DOMAIN old.ids
  BY <1>1
<1>3. DOMAIN kv.ids = 1 .. (size + 1)
  <2>1. DOMAIN kv.ids = (1 .. size) \cup {size + 1}
    BY <1>1 DEF Put
  <2>2. 1 .. (size + 1) = (1 .. size) \cup {size + 1}
    BY <1>1
  <2> QED
    BY <2>1, <2>2
<1>4. Size(kv) = size + 1
  BY <1>1, <1>3, FS_Interval DEF Size
<1>5. /\ kv.ids[size + 1] = kid
      /\ \A id \in DOMAIN old.ids : kv.ids[id] = old.ids[id]
  <2> HIDE DEF kid
  <2>1. kv.ids = Put(old.ids, size + 1, kid)
    BY <1>1 DEF kid
  <2> QED
    BY <1>2, <2>1 DEF Put
<1>6. \A id \in DOMAIN kv.ids : id \in DOMAIN old.ids \/ id = size + 1
  BY <1>1, <1>3
<1>7. \A id \in DOMAIN kv.ids : kv.ids[id][2] = id
  BY <1>5, <1>6 DEF KvConsistent
<1>8. \A a, b \in DOMAIN kv.ids : kv.ids[a][1] = kv.ids[b][1] => a = b
  BY <1>5, <1>6 DEF KvConsistent
<1>9. DOMAIN kv.keys = {kv.ids[id] : id \in DOMAIN kv.ids}
  <2>1. DOMAIN kv.keys = DOMAIN old.keys \cup {kid}
    BY <1>1 DEF Put
  <2>2. DOMAIN old.keys = {old.ids[id] : id \in DOMAIN old.ids}
    BY DEF KvConsistent
  <2>3. size + 1 \in DOMAIN kv.ids /\ DOMAIN old.ids \subseteq DOMAIN kv.ids
    BY <1>1, <1>3
  <2> HIDE DEF kid
  <2>4. DOMAIN kv.keys \subseteq {kv.ids[id] : id \in DOMAIN kv.ids}
    BY <1>5, <2>1, <2>2, <2>3
  <2>5. {kv.ids[id] : id \in DOMAIN kv.ids} \subseteq DOMAIN kv.keys
    BY <1>5, <1>6, <2>1, <2>2
  <2> QED
    BY <2>4, <2>5
<1>10. kid \notin DOMAIN old.keys
  BY <1>2, <1>5 DEF KvConsistent
<1> QED
  BY <1>1, <1>3, <1>4, <1>7, <1>8, <1>9, <1>10 DEF KvConsistent

\* A transaction keeps StoreInv if it keeps every stored key, and if the keys
\* it adds are fresh and carry its own version and claims.
LEMMA WriteInv ==
  ASSUME StoreInv, TypeOK', NEW kv, Write(kv), KvConsistent(kv),
         used \subseteq used',
         \A id \in DOMAIN kv.ids : kv.ids[id][1] \in used',
         \A kid \in DOMAIN Latest.keys :
           kid \in DOMAIN kv.keys /\ kv.keys[kid] = Latest.keys[kid],
         \A kid \in DOMAIN kv.keys \ DOMAIN Latest.keys :
           kv.keys[kid].version = Len(ledger) + 1 /\ kv.claims = kid[1],
         UNCHANGED <<historical, published>>
  PROVE  StoreInv'
<1> DEFINE len == Len(ledger)
<1>1. /\ Len(ledger') = len + 1
      /\ ledger'[len + 1] = kv
      /\ \A i \in 1 .. len : ledger'[i] = ledger[i]
      /\ commit' = commit
  BY WriteStep DEF StoreInv, TypeOK, Write
<1>2. /\ len \in Nat \ {0}
      /\ Latest = ledger[len]
      /\ commit \in 1 .. len
  BY LatestType DEF StoreInv, TypeOK, LedgerTypeOK
<1> HIDE DEF len
<1>3. 1 .. Len(ledger') = (1 .. len) \cup {len + 1}
  BY <1>1, <1>2
<1>4. StoreConsistent'
  BY <1>1, <1>3 DEF StoreInv, StoreConsistent, len
<1>5. FreshKeys'
  BY <1>1, <1>3 DEF StoreInv, FreshKeys, len
<1>6. AppendOnly'
  <2> SUFFICES ASSUME NEW i \in 1 .. Len(ledger'), NEW j \in 1 .. Len(ledger'),
                      i <= j, NEW kid \in DOMAIN ledger'[i].keys
               PROVE  /\ kid \in DOMAIN ledger'[j].keys
                      /\ ledger'[j].keys[kid] = ledger'[i].keys[kid]
    BY DEF AppendOnly
  <2>1. CASE j \in 1 .. len
    <3>1. i \in 1 .. len
      BY <1>2, <1>3, <2>1
    <3> QED
      BY <1>1, <2>1, <3>1 DEF StoreInv, AppendOnly, len
  <2>2. CASE j = len + 1 /\ i \in 1 .. len
    <3>1. kid \in DOMAIN Latest.keys /\ Latest.keys[kid] = ledger[i].keys[kid]
      <4>1. len \in 1 .. len /\ i <= len
        BY <1>2, <2>2
      <4> QED
        BY <1>1, <1>2, <2>2, <4>1 DEF StoreInv, AppendOnly, len
    <3> QED
      BY <1>1, <2>2, <3>1
  <2>3. CASE j = len + 1 /\ i = len + 1
    BY <2>3
  <2> QED
    BY <1>3, <2>1, <2>2, <2>3
<1>7. StoredAtVersion'
  <2> SUFFICES ASSUME NEW i \in 1 .. Len(ledger'), NEW kid \in DOMAIN ledger'[i].keys,
                      NEW version, version = ledger'[i].keys[kid].version
               PROVE  /\ version \in 1 .. i
                      /\ kid \in DOMAIN ledger'[version].keys
                      /\ ledger'[version].claims = kid[1]
    BY DEF StoredAtVersion
  <2>1. ASSUME NEW k \in 1 .. len, kid \in DOMAIN ledger[k].keys,
               version = ledger[k].keys[kid].version
        PROVE  /\ version \in 1 .. k
               /\ kid \in DOMAIN ledger'[version].keys
               /\ ledger'[version].claims = kid[1]
    <3>1. /\ version \in 1 .. k
          /\ kid \in DOMAIN ledger[version].keys
          /\ ledger[version].claims = kid[1]
      BY <2>1 DEF StoreInv, StoredAtVersion, len
    <3>2. version \in 1 .. len
      BY <1>2, <3>1
    <3> QED
      BY <1>1, <3>1, <3>2
  <2>2. CASE i \in 1 .. len
    BY <1>1, <2>1, <2>2
  <2>3. CASE i = len + 1 /\ kid \in DOMAIN Latest.keys
    <3>1. /\ len \in 1 .. len
          /\ kid \in DOMAIN ledger[len].keys
          /\ version = ledger[len].keys[kid].version
      BY <1>1, <1>2, <2>3
    <3>2. /\ version \in 1 .. len
          /\ kid \in DOMAIN ledger'[version].keys
          /\ ledger'[version].claims = kid[1]
      BY <2>1, <3>1
    <3> QED
      BY <1>2, <2>3, <3>2
  <2>4. CASE i = len + 1 /\ kid \notin DOMAIN Latest.keys
    BY <1>1, <1>2, <2>4 DEF len
  <2> QED
    BY <1>3, <2>2, <2>3, <2>4
<1>8. ReceiptsCommitted'
  <2> SUFFICES ASSUME NEW n \in Nodes, NEW h \in Handles,
                      historical[n][h] # NoRequest,
                      historical[n][h].receipt # Pending
               PROVE  /\ historical[n][h].version \in 1 .. commit
                      /\ historical[n][h].receipt =
                           ledger'[historical[n][h].version].claims
    BY <1>1 DEF ReceiptsCommitted
  <2>1. /\ historical[n][h].version \in 1 .. commit
        /\ historical[n][h].receipt = ledger[historical[n][h].version].claims
    BY DEF StoreInv, ReceiptsCommitted
  <2>2. historical[n][h].version \in 1 .. len
    BY <1>2, <2>1
  <2> QED
    BY <1>1, <2>1, <2>2
<1>9. PublishedCommitted'
  BY <1>1, <1>2 DEF StoreInv, PublishedCommitted
<1> QED
  BY <1>4, <1>5, <1>6, <1>7, <1>8, <1>9 DEF StoreInv

LEMMA RefreshInv ==
  ASSUME StoreInv, TypeOK', NEW pair \in KeyPairs, NEW delay \in Nat,
         Refresh(pair, delay)
  PROVE  StoreInv'
<1> DEFINE id == NextId(Latest)
           kid == <<pair, id>>
           item == [id |-> (id % OhttpIds) + OhttpBase,
                    timestamp |-> now + delay,
                    expiry |-> ExpiryTime(Latest, now),
                    version |-> Len(ledger) + 1]
           kv == [ids |-> Put(Latest.ids, id, kid),
                  keys |-> Put(Latest.keys, kid, item),
                  rotation |-> Latest.rotation,
                  claims |-> pair]
<1>1. /\ Write(kv)
      /\ pair \notin used
      /\ used' = used \cup {pair}
      /\ UNCHANGED <<historical, published>>
  BY DEF Refresh, GeneratedKeyItem
<1>2. /\ kv.ids = Put(Latest.ids, id, kid)
      /\ kv.keys = Put(Latest.keys, kid, item)
      /\ kv.claims = pair
      /\ kid[1] = pair
      /\ item.version = Len(ledger) + 1
  OBVIOUS
<1>3. /\ KvTypeOK(Latest)
      /\ Len(ledger) \in 1 .. Len(ledger)
      /\ Latest = ledger[Len(ledger)]
  BY LatestType DEF StoreInv
<1>4. /\ KvConsistent(Latest)
      /\ \A i \in DOMAIN Latest.ids : Latest.ids[i][1] \in used
  BY <1>3 DEF StoreInv, StoreConsistent, FreshKeys
<1> HIDE DEF item, kv
<1>5. KvConsistent(kv) /\ kid \notin DOMAIN Latest.keys
  BY <1>1, <1>2, <1>3, <1>4, NewKeyConsistent
<1> HIDE DEF kid
<1>6. \A i \in DOMAIN kv.ids : kv.ids[i][1] \in used'
  BY <1>1, <1>2, <1>4 DEF Put
<1>7. \A k \in DOMAIN Latest.keys :
        k \in DOMAIN kv.keys /\ kv.keys[k] = Latest.keys[k]
  BY <1>2, <1>5 DEF Put
<1>8. \A k \in DOMAIN kv.keys \ DOMAIN Latest.keys :
        kv.keys[k].version = Len(ledger) + 1 /\ kv.claims = k[1]
  BY <1>2 DEF Put
<1> QED
  BY <1>1, <1>5, <1>6, <1>7, <1>8, WriteInv

LEMMA PolicyInv ==
  ASSUME StoreInv, TypeOK', NEW policy \in Policies, SetKeyRotationPolicy(policy)
  PROVE  StoreInv'
<1> DEFINE kv == [ids |-> Latest.ids, keys |-> Latest.keys,
                  rotation |-> policy, claims |-> NoClaims]
<1>1. Write(kv) /\ UNCHANGED <<used, historical, published>>
  BY DEF SetKeyRotationPolicy
<1>2. kv.ids = Latest.ids /\ kv.keys = Latest.keys
  OBVIOUS
<1> HIDE DEF kv
<1>3. Len(ledger) \in 1 .. Len(ledger) /\ Latest = ledger[Len(ledger)]
  BY LatestType DEF StoreInv
<1>4. /\ KvConsistent(Latest)
      /\ \A i \in DOMAIN Latest.ids : Latest.ids[i][1] \in used
  BY <1>3 DEF StoreInv, StoreConsistent, FreshKeys
<1>5. KvConsistent(kv)
  BY <1>2, <1>4 DEF KvConsistent, Size
<1> QED
  BY <1>1, <1>2, <1>4, <1>5, WriteInv

\* Steps that leave ledger and generator alone only have to account for what
\* they hand out.
LEMMA QuietInv ==
  ASSUME StoreInv, TypeOK', UNCHANGED <<ledger, commit, used>>,
         ReceiptsCommitted', PublishedCommitted'
  PROVE  StoreInv'
BY DEF StoreInv, StoreConsistent, FreshKeys, AppendOnly, StoredAtVersion

\* Asking for a receipt delivers none.
LEMMA AskReceiptInv ==
  ASSUME StoreInv, NEW n \in Nodes, NEW kid \in KnownKids(n), AskReceipt(n, kid),
         UNCHANGED <<ledger, commit>>
  PROVE  ReceiptsCommitted'
<1>1. \A m \in Nodes, h \in Handles :
        \/ historical'[m][h] = historical[m][h]
        \/ historical'[m][h].receipt = Pending
  BY AskReceiptStep DEF StoreInv
<1> QED
  BY <1>1 DEF StoreInv, ReceiptsCommitted

\* A key whose receipt is there is committed, and the receipt is its own.
LEMMA ReceiptReadyCommitted ==
  ASSUME StoreInv, NEW n \in Nodes, NEW kid \in KnownKids(n), ReceiptReady(n, kid)
  PROVE  /\ kid \in DOMAIN ledger[commit].keys
         /\ historical[n][Handle(kid)].receipt = kid[1]
<1> DEFINE version == NodeKv(n).keys[kid].version
           request == historical[n][Handle(kid)]
<1>1. /\ request # NoRequest
      /\ request.version = version
      /\ request.receipt # Pending
  BY DEF ReceiptReady
<1>2. /\ applied[n] \in 1 .. Len(ledger)
      /\ NodeKv(n) = ledger[applied[n]]
      /\ kid \in Kid
      /\ kid \in DOMAIN NodeKv(n).keys
  BY NodeType DEF StoreInv, NodeKv, KnownKids
<1>3. Handle(kid) \in Handles
  BY <1>2, ConstantsAssumption DEF Handle, Kid
<1>4. /\ version \in 1 .. commit
      /\ request.receipt = ledger[version].claims
  BY <1>1, <1>3 DEF StoreInv, ReceiptsCommitted
<1>5. /\ kid \in DOMAIN ledger[version].keys
      /\ ledger[version].claims = kid[1]
  BY <1>2 DEF StoreInv, StoredAtVersion
<1>6. commit \in 1 .. Len(ledger) /\ version \in 1 .. Len(ledger) /\ version <= commit
  BY <1>4 DEF StoreInv, TypeOK, LedgerTypeOK
<1> HIDE DEF version, request
<1>7. kid \in DOMAIN ledger[commit].keys
  BY <1>5, <1>6 DEF StoreInv, AppendOnly
<1> QED
  BY <1>4, <1>5, <1>7 DEF request

LEMMA PubkeyInv ==
  ASSUME StoreInv, TypeOK', NEW n \in Nodes, NEW kid \in KnownKids(n),
         Pubkey(n, kid)
  PROVE  StoreInv'
<1>1. ReceiptsCommitted'
  BY AskReceiptInv DEF Pubkey
<1>2. \/ published' = published
      \/ /\ ReceiptReady(n, kid)
         /\ published' = published \cup {kid}
  BY DEF Pubkey, PubkeyStatus, KnownKids
<1>3. published' \subseteq DOMAIN ledger[commit].keys
  BY <1>2, ReceiptReadyCommitted DEF StoreInv, PublishedCommitted
<1>4. UNCHANGED <<ledger, commit, used>>
  BY DEF Pubkey
<1>5. PublishedCommitted'
  BY <1>3, <1>4 DEF PublishedCommitted
<1> QED
  BY <1>1, <1>4, <1>5, QuietInv

\* Committed entries do not change when more are committed or others lost.
LEMMA CommitInv ==
  ASSUME StoreInv, TypeOK', Commit
  PROVE  StoreInv'
<1>1. /\ ledger' = ledger
      /\ commit' \in 1 .. Len(ledger)
      /\ commit \in 1 .. commit'
      /\ UNCHANGED <<used, historical, published>>
  BY DEF Commit, GloballyCommit, StoreInv, TypeOK, LedgerTypeOK
<1>2. ReceiptsCommitted'
  BY <1>1 DEF StoreInv, ReceiptsCommitted, TypeOK, LedgerTypeOK
<1>3. PublishedCommitted'
  BY <1>1 DEF StoreInv, PublishedCommitted, AppendOnly, TypeOK, LedgerTypeOK
<1> QED
  BY <1>1, <1>2, <1>3
     DEF StoreInv, StoreConsistent, FreshKeys, AppendOnly, StoredAtVersion

LEMMA NewPrimaryInv ==
  ASSUME StoreInv, TypeOK', NEW v \in 1 .. MaxLedger, NEW skew \in Nat,
         NewPrimary(v, skew)
  PROVE  StoreInv'
<1>1. /\ v \in commit .. Len(ledger)
      /\ Len(ledger') = v
      /\ \A i \in 1 .. v : ledger'[i] = ledger[i]
      /\ UNCHANGED <<commit, used, historical, published>>
  BY RollbackStep DEF NewPrimary, Rollback, StoreInv, TypeOK
<1>2. commit \in 1 .. v /\ v \in 1 .. Len(ledger)
  BY <1>1 DEF StoreInv, TypeOK, LedgerTypeOK
<1>3. \A i \in 1 .. v : i \in 1 .. Len(ledger)
  BY <1>2
<1>4. StoreConsistent' /\ FreshKeys' /\ AppendOnly'
  BY <1>1, <1>3 DEF StoreInv, StoreConsistent, FreshKeys, AppendOnly
<1>5. StoredAtVersion'
  <2> SUFFICES ASSUME NEW i \in 1 .. v, NEW kid \in DOMAIN ledger[i].keys,
                      NEW version, version = ledger[i].keys[kid].version
               PROVE  /\ version \in 1 .. i
                      /\ kid \in DOMAIN ledger'[version].keys
                      /\ ledger'[version].claims = kid[1]
    BY <1>1 DEF StoredAtVersion
  <2>1. /\ version \in 1 .. i
        /\ kid \in DOMAIN ledger[version].keys
        /\ ledger[version].claims = kid[1]
    BY <1>3 DEF StoreInv, StoredAtVersion
  <2>2. version \in 1 .. v
    BY <1>2, <2>1
  <2> QED
    BY <1>1, <2>1, <2>2
<1>6. \A k \in 1 .. commit : ledger'[k] = ledger[k]
  BY <1>1, <1>2
<1>7. ReceiptsCommitted'
  BY <1>1, <1>6 DEF StoreInv, ReceiptsCommitted
<1>8. PublishedCommitted'
  BY <1>1, <1>2, <1>6 DEF StoreInv, PublishedCommitted
<1> QED
  BY <1>4, <1>5, <1>7, <1>8 DEF StoreInv

LEMMA HistoricalFetchInv ==
  ASSUME StoreInv, TypeOK', NEW n \in Nodes, NEW h \in Handles,
         HistoricalFetch(n, h)
  PROVE  StoreInv'
<1> DEFINE request == historical[n][h]
           fetched == [request EXCEPT !.receipt = ledger[request.version].claims]
<1>1. /\ request \in Request
      /\ request.version \in 1 .. commit
      /\ historical' = [historical EXCEPT ![n][h] = fetched]
      /\ UNCHANGED <<ledger, commit, used, published>>
  BY DEF HistoricalFetch, Fetchable, StoreInv, TypeOK, LedgerTypeOK, Request
<1>2. /\ fetched.version = request.version
      /\ fetched.receipt = ledger[request.version].claims
  BY <1>1 DEF Request
<1> HIDE DEF fetched
<1>3. \A m \in Nodes, g \in Handles :
        \/ historical'[m][g] = historical[m][g]
        \/ historical'[m][g] = fetched
  BY <1>1 DEF StoreInv, TypeOK
<1>4. ReceiptsCommitted'
  BY <1>1, <1>2, <1>3 DEF StoreInv, ReceiptsCommitted
<1>5. PublishedCommitted'
  BY <1>1 DEF StoreInv, PublishedCommitted
<1> QED
  BY <1>1, <1>4, <1>5, QuietInv

LEMMA StoreInit == Init => StoreInv
<1> SUFFICES ASSUME Init PROVE StoreInv
  OBVIOUS
<1>1. TypeOK
  BY TypeInit
<1>2. /\ 1 .. Len(ledger) = {1}
      /\ ledger[1] = EmptyMaps
      /\ commit = 1
      /\ published = {}
  BY DEF Init
<1>3. /\ DOMAIN EmptyMaps.ids = {}
      /\ DOMAIN EmptyMaps.keys = {}
  BY DEF EmptyMaps
<1>4. KvConsistent(EmptyMaps)
  <2>1. Size(EmptyMaps) = 0
    BY <1>3, FS_EmptySet DEF Size
  <2> QED
    BY <1>3, <2>1 DEF KvConsistent
<1>5. ReceiptsCommitted
  BY DEF Init, ReceiptsCommitted
<1> QED
  BY <1>1, <1>2, <1>3, <1>4, <1>5
     DEF StoreInv, StoreConsistent, FreshKeys, AppendOnly, StoredAtVersion,
         PublishedCommitted

LEMMA StoreStep == StoreInv /\ [Next]_vars => StoreInv'
<1> SUFFICES ASSUME StoreInv, [Next]_vars PROVE StoreInv'
  OBVIOUS
<1>0. TypeOK'
  BY TypeStep DEF StoreInv
<1>1. ASSUME NEW pair \in KeyPairs, NEW delay \in 0 .. MaxDelay,
             Refresh(pair, delay)
      PROVE  StoreInv'
  BY <1>0, <1>1, RefreshInv, ConstantsAssumption
<1>2. ASSUME NEW policy \in Policies, SetKeyRotationPolicy(policy) PROVE StoreInv'
  BY <1>0, <1>2, PolicyInv
<1>3. ASSUME NEW n \in Nodes, NEW kid \in KnownKids(n), Pubkey(n, kid)
      PROVE  StoreInv'
  BY <1>0, <1>3, PubkeyInv
<1>4. ASSUME NEW n \in Nodes, NEW kid \in KnownKids(n), AskReceipt(n, kid),
             UNCHANGED <<ledger, commit, used, published>>
      PROVE  StoreInv'
  <2>1. PublishedCommitted'
    BY <1>4 DEF StoreInv, PublishedCommitted
  <2> QED
    BY <1>0, <1>4, <2>1, AskReceiptInv, QuietInv
<1>5. ASSUME NEW n \in Nodes, NEW kid \in KnownKids(n),
             Key(n, kid) \/ UnwrapKey(n, kid)
      PROVE  StoreInv'
  BY <1>4, <1>5 DEF Key, UnwrapKey
<1>6. ASSUME NEW n \in Nodes, UnwrapKeyGcp(n) PROVE StoreInv'
  BY <1>4, <1>6 DEF UnwrapKeyGcp, KnownKids
<1>7. ASSUME UNCHANGED <<ledger, commit, used, historical, published>>
      PROVE  StoreInv'
  <2>1. ReceiptsCommitted' /\ PublishedCommitted'
    BY <1>7 DEF StoreInv, ReceiptsCommitted, PublishedCommitted
  <2> QED
    BY <1>0, <1>7, <2>1, QuietInv
<1>8. CASE Tick \/ (\E n \in Nodes : Replicate(n)) \/ UNCHANGED vars
  BY <1>7, <1>8 DEF Tick, Replicate, vars
<1>9. CASE Commit
  BY <1>0, <1>9, CommitInv
<1>10. ASSUME NEW v \in 1 .. MaxLedger, NEW skew \in 0 .. MaxSkew,
              NewPrimary(v, skew)
       PROVE  StoreInv'
  BY <1>0, <1>10, NewPrimaryInv, ConstantsAssumption
<1>11. ASSUME NEW n \in Nodes, NEW h \in Handles, HistoricalFetch(n, h)
       PROVE  StoreInv'
  BY <1>0, <1>11, HistoricalFetchInv
<1>12. ASSUME NEW n \in Nodes, NEW h \in Handles, HistoricalExpire(n, h)
       PROVE  StoreInv'
  <2>1. \A m \in Nodes, g \in Handles :
          historical'[m][g] = historical[m][g] \/ historical'[m][g] = NoRequest
    BY <1>12 DEF HistoricalExpire, StoreInv, TypeOK
  <2>2. UNCHANGED <<ledger, commit, used, published>>
    BY <1>12 DEF HistoricalExpire
  <2>3. ReceiptsCommitted' /\ PublishedCommitted'
    BY <2>1, <2>2 DEF StoreInv, ReceiptsCommitted, PublishedCommitted
  <2> QED
    BY <1>0, <2>2, <2>3, QuietInv
<1> QED
  BY <1>1, <1>2, <1>3, <1>5, <1>6, <1>8, <1>9, <1>10, <1>11, <1>12
     DEF Next, Writes, Reads, Service, Fetches, Expiries

-----------------------------------------------------------------------------
(***************************************************************************)
(* What follows.                                                            *)
(***************************************************************************)

\* The state of the service can always be accounted for.
THEOREM StoreCorrect == Spec => []StoreInv
BY StoreInit, StoreStep, PTL DEF Spec

\* The two key maps fit together in every state refresh ever leaves behind.
THEOREM MapsConsistent == Spec => []StoreConsistent
<1>1. StoreInv => StoreConsistent
  BY DEF StoreInv
<1> QED
  BY <1>1, StoreCorrect, PTL

\* A key that pubkey has handed out with a receipt is never lost or altered,
\* whatever primaries fail.
THEOREM PublishedKeysDurable == Spec => []PublishedDurable
<1>1. StoreInv => PublishedDurable
  <2> SUFFICES ASSUME StoreInv, NEW kid \in published,
                      NEW i \in commit .. Len(ledger)
               PROVE  /\ kid \in DOMAIN ledger[i].keys
                      /\ ledger[i].keys[kid] = ledger[commit].keys[kid]
    BY DEF PublishedDurable
  <2>1. kid \in DOMAIN ledger[commit].keys
    BY DEF StoreInv, PublishedCommitted
  <2>2. commit \in 1 .. Len(ledger) /\ i \in 1 .. Len(ledger) /\ commit <= i
    BY DEF StoreInv, TypeOK, LedgerTypeOK
  <2> QED
    BY <2>1, <2>2 DEF StoreInv, AppendOnly
<1> QED
  BY <1>1, StoreCorrect, PTL

\* A receipt delivered with a key vouches for that key, also when kids collide
\* on a historical-query handle and primaries change in between.
THEOREM ReceiptsMatchKeys == Spec => []ReceiptMatchesKey
<1>1. StoreInv => ReceiptMatchesKey
  BY ReceiptReadyCommitted DEF ReceiptMatchesKey
<1> QED
  BY <1>1, StoreCorrect, PTL

-----------------------------------------------------------------------------
(***************************************************************************)
(* Expiries.                                                                *)
(***************************************************************************)

\* A transaction that alters no key keeps the old expiries right, if that of
\* the key it may add is.
LEMMA ExpiryWrite ==
  ASSUME StoreInv, ExpiryAsMade, NEW kv, Write(kv),
         \A kid \in DOMAIN Latest.keys :
           kid \in DOMAIN kv.keys => kv.keys[kid] = Latest.keys[kid],
         \A kid \in DOMAIN kv.keys \ DOMAIN Latest.keys :
           /\ kv.keys[kid].version = Len(ledger) + 1
           /\ kv.keys[kid].expiry # NoExpiry
                => /\ kv.rotation # NoPolicy
                   /\ kv.keys[kid].expiry
                        <= ExpiryTime(kv, kv.keys[kid].timestamp)
  PROVE  ExpiryAsMade'
<1> DEFINE len == Len(ledger)
<1>1. /\ Len(ledger') = len + 1
      /\ ledger'[len + 1] = kv
      /\ \A i \in 1 .. len : ledger'[i] = ledger[i]
  BY WriteStep DEF StoreInv, TypeOK
<1>2. len \in Nat \ {0} /\ Latest = ledger[len]
  BY LatestType DEF StoreInv
<1> SUFFICES ASSUME NEW i \in 1 .. Len(ledger'),
                    NEW kid \in DOMAIN ledger'[i].keys,
                    NEW item, item = ledger'[i].keys[kid],
                    item.expiry # NoExpiry
             PROVE  /\ ledger'[item.version].rotation # NoPolicy
                    /\ item.expiry
                         <= ExpiryTime(ledger'[item.version], item.timestamp)
  BY DEF ExpiryAsMade, ExpiryTime
<1>3. ASSUME NEW k \in 1 .. len, kid \in DOMAIN ledger[k].keys,
             item = ledger[k].keys[kid]
      PROVE  /\ ledger'[item.version].rotation # NoPolicy
             /\ item.expiry <= ExpiryTime(ledger'[item.version], item.timestamp)
  <2>1. item.version \in 1 .. k
    BY <1>3 DEF StoreInv, StoredAtVersion
  <2>2. ledger'[item.version] = ledger[item.version]
    BY <1>1, <1>2, <2>1
  <2> QED
    BY <1>3, <2>2 DEF ExpiryAsMade
<1>4. CASE i \in 1 .. len
  BY <1>1, <1>3, <1>4
<1>5. CASE i = len + 1 /\ kid \in DOMAIN Latest.keys
  <2>1. len \in 1 .. len /\ item = ledger[len].keys[kid]
    BY <1>1, <1>2, <1>5
  <2> QED
    BY <1>2, <1>3, <1>5, <2>1
<1>6. CASE i = len + 1 /\ kid \notin DOMAIN Latest.keys
  BY <1>1, <1>6
<1> QED
  BY <1>1, <1>2, <1>4, <1>5, <1>6

\* refresh reads the clock for the expiry before it does for the timestamp.
LEMMA ExpiryRefresh ==
  ASSUME StoreInv, ExpiryAsMade, NEW pair \in KeyPairs, NEW delay \in Nat,
         Refresh(pair, delay)
  PROVE  ExpiryAsMade'
<1> DEFINE id == NextId(Latest)
           kid == <<pair, id>>
           item == GeneratedKeyItem((id % OhttpIds) + OhttpBase,
                                    ExpiryTime(Latest, now), now + delay)
           kv == [ids |-> Put(Latest.ids, id, kid),
                  keys |-> Put(Latest.keys, kid, item),
                  rotation |-> Latest.rotation,
                  claims |-> pair]
<1>1. Write(kv) /\ pair \notin used
  BY DEF Refresh
<1>2. /\ kv.ids = Put(Latest.ids, id, kid)
      /\ kv.keys = Put(Latest.keys, kid, item)
      /\ kv.rotation = Latest.rotation
  OBVIOUS
<1>3. /\ item.version = Len(ledger) + 1
      /\ item.expiry = ExpiryTime(Latest, now)
      /\ item.timestamp = now + delay
  BY DEF GeneratedKeyItem
<1>4. /\ KvTypeOK(Latest)
      /\ KvConsistent(Latest)
      /\ \A i \in DOMAIN Latest.ids : Latest.ids[i][1] # pair
  <2>1. Len(ledger) \in 1 .. Len(ledger) /\ Latest = ledger[Len(ledger)]
    BY LatestType DEF StoreInv
  <2> QED
    BY <1>1, <2>1, LatestType DEF StoreInv, StoreConsistent, FreshKeys
<1> HIDE DEF kv, item
<1>5. kid \notin DOMAIN Latest.keys
  BY <1>2, <1>4, NewKeyConsistent
<1> HIDE DEF kid
<1>6. /\ DOMAIN kv.keys \ DOMAIN Latest.keys = {kid}
      /\ kv.keys[kid] = item
      /\ \A k \in DOMAIN Latest.keys : kv.keys[k] = Latest.keys[k]
  BY <1>2, <1>5 DEF Put
<1>7. ASSUME item.expiry # NoExpiry
      PROVE  /\ kv.rotation # NoPolicy
             /\ item.expiry <= ExpiryTime(kv, item.timestamp)
  <2>1. Latest.rotation # NoPolicy
    BY <1>3, <1>7 DEF ExpiryTime
  <2>2. Latest.rotation.rotation_interval_seconds \in Int
    BY <1>4, <2>1, ConstantsAssumption DEF KvTypeOK
  <2>3. Latest.rotation.rotation_interval_seconds * MsPerSecond \in Int
    BY <2>2, ConstantsAssumption
  <2>4. now \in Nat
    BY DEF StoreInv, TypeOK
  <2> QED
    BY <1>2, <1>3, <2>1, <2>3, <2>4 DEF ExpiryTime
<1> QED
  BY <1>1, <1>3, <1>6, <1>7, ExpiryWrite

LEMMA ExpiryStep == StoreInv /\ ExpiryAsMade /\ [Next]_vars => ExpiryAsMade'
<1> SUFFICES ASSUME StoreInv, ExpiryAsMade, [Next]_vars PROVE ExpiryAsMade'
  OBVIOUS
<1>1. ASSUME NEW pair \in KeyPairs, NEW delay \in 0 .. MaxDelay,
             Refresh(pair, delay)
      PROVE  ExpiryAsMade'
  BY <1>1, ExpiryRefresh, ConstantsAssumption
<1>2. ASSUME NEW policy \in Policies, SetKeyRotationPolicy(policy)
      PROVE  ExpiryAsMade'
  <2> DEFINE kv == [ids |-> Latest.ids, keys |-> Latest.keys,
                    rotation |-> policy, claims |-> NoClaims]
  <2>1. Write(kv)
    BY <1>2 DEF SetKeyRotationPolicy
  <2>2. kv.keys = Latest.keys
    OBVIOUS
  <2> HIDE DEF kv
  <2> QED
    BY <2>1, <2>2, ExpiryWrite
<1>3. ASSUME NEW v \in 1 .. MaxLedger, NEW skew \in 0 .. MaxSkew,
             NewPrimary(v, skew)
      PROVE  ExpiryAsMade'
  <2>1. /\ v \in 1 .. Len(ledger)
        /\ Len(ledger') = v
        /\ \A i \in 1 .. v : ledger'[i] = ledger[i]
    BY <1>3, RollbackStep DEF NewPrimary, StoreInv, TypeOK, LedgerTypeOK
  <2> SUFFICES ASSUME NEW i \in 1 .. v, NEW kid \in DOMAIN ledger[i].keys,
                      NEW item, item = ledger[i].keys[kid],
                      item.expiry # NoExpiry
               PROVE  /\ ledger'[item.version].rotation # NoPolicy
                      /\ item.expiry
                           <= ExpiryTime(ledger'[item.version], item.timestamp)
    BY <2>1 DEF ExpiryAsMade, ExpiryTime
  <2>2. i \in 1 .. Len(ledger) /\ item.version \in 1 .. i
    BY <2>1 DEF StoreInv, StoredAtVersion
  <2>3. ledger'[item.version] = ledger[item.version]
    BY <2>1, <2>2
  <2> QED
    BY <2>2, <2>3 DEF ExpiryAsMade
<1>4. CASE UNCHANGED ledger
  BY <1>4 DEF ExpiryAsMade, ExpiryTime
<1>5. ASSUME NEW n \in Nodes, NEW kid \in KnownKids(n),
             Pubkey(n, kid) \/ Key(n, kid) \/ UnwrapKey(n, kid)
      PROVE  ExpiryAsMade'
  BY <1>4, <1>5 DEF Pubkey, Key, UnwrapKey
<1>6. CASE \/ \E n \in Nodes : UnwrapKeyGcp(n) \/ Replicate(n)
           \/ Tick \/ Commit \/ Fetches \/ Expiries \/ UNCHANGED vars
  BY <1>4, <1>6 DEF UnwrapKeyGcp, Replicate, Tick, Commit, GloballyCommit,
     Fetches, HistoricalFetch, Expiries, HistoricalExpire, vars
<1> QED
  BY <1>1, <1>2, <1>3, <1>5, <1>6 DEF Next, Writes, Reads, Service

\* More seconds are no fewer milliseconds.
LEMMA LongerTimes ==
  ASSUME NEW a \in Int, NEW b \in Int, a <= b, NEW m \in Nat
  PROVE  a * m <= b * m
<1>1. PICK d \in Nat : b = a + d
  BY b - a \in Nat /\ b = a + (b - a)
<1>2. b * m = a * m + d * m
  BY <1>1
<1>3. d * m \in Nat /\ a * m \in Int
  BY <1>1
<1> QED
  BY <1>2, <1>3

\* The expiry stored with a key and shown to its clients is honoured by every
\* node, whatever prefix of the ledger it has applied: until then unwrapKey
\* does not take the key for expired, under the policy the key was made under
\* or any later one with an interval as long.
THEOREM ExpiriesHonoured == Spec => []AdvertisedExpiryHonoured
<1>1. Init => ExpiryAsMade
  BY DEF Init, EmptyMaps, ExpiryAsMade
<1>2. ASSUME StoreInv, ExpiryAsMade PROVE AdvertisedExpiryHonoured
  <2> SUFFICES ASSUME NEW n \in Nodes, NEW kid \in KnownKids(n),
                      NEW kv, kv = NodeKv(n),
                      NEW item, item = kv.keys[kid],
                      NEW made, made = ledger[item.version],
                      item.expiry # NoExpiry,
                      now <= item.expiry,
                      kv.rotation # NoPolicy,
                      kv.rotation.rotation_interval_seconds
                        >= made.rotation.rotation_interval_seconds
               PROVE  ~ now > ExpiryTime(kv, item.timestamp)
    BY DEF AdvertisedExpiryHonoured, IsExpired
  <2> DEFINE interval == kv.rotation.rotation_interval_seconds
             madeInterval == made.rotation.rotation_interval_seconds
  <2>1. /\ applied[n] \in 1 .. Len(ledger)
        /\ kv = ledger[applied[n]]
        /\ KvTypeOK(kv)
        /\ kid \in DOMAIN kv.keys
    BY <1>2, NodeType DEF StoreInv, NodeKv, KnownKids
  <2>2. /\ made.rotation # NoPolicy
        /\ item.expiry <= ExpiryTime(made, item.timestamp)
    BY <1>2, <2>1 DEF ExpiryAsMade
  <2>3. KvTypeOK(made)
    <3>1. item.version \in 1 .. applied[n]
      BY <1>2, <2>1 DEF StoreInv, StoredAtVersion
    <3>2. item.version \in 1 .. Len(ledger)
      BY <1>2, <2>1, <3>1 DEF StoreInv, TypeOK, LedgerTypeOK
    <3> QED
      BY <1>2, <3>2 DEF StoreInv, TypeOK
  <2>4. now \in Nat /\ item.timestamp \in Nat /\ item.expiry \in Int
    BY <1>2, <2>1 DEF StoreInv, TypeOK, KvTypeOK, KeyItem
  <2>5. interval \in Int /\ madeInterval \in Int /\ madeInterval <= interval
    BY <2>1, <2>2, <2>3, ConstantsAssumption DEF KvTypeOK
  <2>6. /\ ExpiryTime(made, item.timestamp) = item.timestamp + madeInterval * MsPerSecond
        /\ ExpiryTime(kv, item.timestamp) = item.timestamp + interval * MsPerSecond
    BY <2>2 DEF ExpiryTime
  <2> HIDE DEF interval, madeInterval
  <2>7. madeInterval * MsPerSecond <= interval * MsPerSecond
    BY <2>5, LongerTimes, ConstantsAssumption
  <2>8. /\ madeInterval * MsPerSecond \in Int
        /\ interval * MsPerSecond \in Int
    BY <2>5, ConstantsAssumption
  <2> QED
    BY <2>2, <2>4, <2>6, <2>7, <2>8
<1> QED
  BY <1>1, <1>2, StoreInit, StoreStep, ExpiryStep, PTL DEF Spec

-----------------------------------------------------------------------------
(***************************************************************************)
(* States of the maps along the ledger.                                     *)
(***************************************************************************)

\* The size of consistent maps, and what each id and each kid stands for.
LEMMA ConsistentFacts ==
  ASSUME NEW kv, KvTypeOK(kv), KvConsistent(kv)
  PROVE  /\ Size(kv) \in Nat
         /\ DOMAIN kv.ids = 1 .. Size(kv)
         /\ \A id \in 1 .. Size(kv) : /\ kv.ids[id] \in DOMAIN kv.keys
                                      /\ kv.ids[id] \in Kid
                                      /\ kv.ids[id][2] = id
         /\ \A kid \in DOMAIN kv.keys : /\ kid[2] \in 1 .. Size(kv)
                                        /\ kv.ids[kid[2]] = kid
                                        /\ kv.keys[kid].timestamp \in Nat
<1>1. Size(kv) \in Nat
  BY FS_CardinalityType DEF KvTypeOK, Size
<1>2. \A kid \in DOMAIN kv.keys : kv.keys[kid].timestamp \in Nat
  BY DEF KvTypeOK, KeyItem
<1> QED
  BY <1>1, <1>2 DEF KvTypeOK, KvConsistent

\* If b holds the keys of a, then the ids of a are the first of b.
LEMMA IdsPrefix ==
  ASSUME NEW a, KvTypeOK(a), KvConsistent(a),
         NEW b, KvTypeOK(b), KvConsistent(b),
         DOMAIN a.keys \subseteq DOMAIN b.keys
  PROVE  /\ Size(a) <= Size(b)
         /\ \A id \in 1 .. Size(a) : id \in 1 .. Size(b) /\ b.ids[id] = a.ids[id]
<1>1. ASSUME NEW id \in 1 .. Size(a)
      PROVE  id \in 1 .. Size(b) /\ b.ids[id] = a.ids[id]
  <2>1. a.ids[id] \in DOMAIN b.keys /\ a.ids[id][2] = id
    BY ConsistentFacts
  <2> QED
    BY <2>1, ConsistentFacts
<1>2. Size(a) \in Nat /\ Size(b) \in Nat
  BY ConsistentFacts
<1>3. Size(a) <= Size(b)
  <2>1. CASE Size(a) = 0
    BY <1>2, <2>1
  <2>2. CASE Size(a) # 0
    <3>1. Size(a) \in 1 .. Size(a)
      BY <1>2, <2>2
    <3>2. Size(a) \in 1 .. Size(b)
      BY <1>1, <3>1
    <3> QED
      BY <1>2, <3>2
  <2> QED
    BY <2>1, <2>2
<1> QED
  BY <1>1, <1>3

\* What StoreInv says of the maps the primary reads, before and after a step.
LEMMA LatestFacts ==
  ASSUME StoreInv
  PROVE  /\ Len(ledger) \in Nat \ {0}
         /\ Latest = ledger[Len(ledger)]
         /\ KvTypeOK(Latest)
         /\ KvConsistent(Latest)
<1>1. Len(ledger) \in Nat \ {0} /\ Latest = ledger[Len(ledger)] /\ KvTypeOK(Latest)
  BY LatestType DEF StoreInv
<1> QED
  BY <1>1 DEF StoreInv, StoreConsistent

\* What it says of those that a node reads: the primary has their keys too.
LEMMA NodeFacts ==
  ASSUME StoreInv, NEW n \in Nodes
  PROVE  /\ KvTypeOK(NodeKv(n))
         /\ KvConsistent(NodeKv(n))
         /\ \A kid \in DOMAIN NodeKv(n).keys :
              /\ kid \in DOMAIN Latest.keys
              /\ Latest.keys[kid] = NodeKv(n).keys[kid]
              /\ kid[1] \in used
<1>1. /\ applied[n] \in 1 .. Len(ledger)
      /\ Len(ledger) \in 1 .. Len(ledger)
      /\ applied[n] <= Len(ledger)
      /\ Latest = ledger[Len(ledger)]
  BY LatestFacts DEF StoreInv, TypeOK
<1>2. KvTypeOK(NodeKv(n)) /\ KvConsistent(NodeKv(n))
  BY <1>1 DEF StoreInv, TypeOK, StoreConsistent, NodeKv
<1>3. \A kid \in DOMAIN NodeKv(n).keys :
        kid \in DOMAIN Latest.keys /\ Latest.keys[kid] = NodeKv(n).keys[kid]
  BY <1>1 DEF StoreInv, AppendOnly, NodeKv
<1>4. \A kid \in DOMAIN NodeKv(n).keys : kid[1] \in used
  BY <1>1, <1>2 DEF StoreInv, FreshKeys, KvConsistent, NodeKv
<1> QED
  BY <1>2, <1>3, <1>4

\* What refresh writes.
LEMMA RefreshLatest ==
  ASSUME StoreInv, StoreInv', NEW pair \in KeyPairs, NEW delay \in Nat,
         Refresh(pair, delay)
  PROVE  LET kid == <<pair, Size(Latest) + 1>>
         IN  /\ DOMAIN Latest'.keys = DOMAIN Latest.keys \cup {kid}
             /\ Latest'.keys[kid].timestamp = now + delay
             /\ \A other \in DOMAIN Latest.keys :
                  Latest'.keys[other] = Latest.keys[other]
             /\ Size(Latest)' = Size(Latest) + 1
             /\ \A other \in 1 .. Size(Latest) :
                  Latest'.ids[other] = Latest.ids[other]
             /\ Latest'.ids[Size(Latest) + 1] = kid
             /\ Latest'.rotation = Latest.rotation
             /\ pair \notin used /\ used' = used \cup {pair}
             /\ now' = now + delay
<1> DEFINE id == NextId(Latest)
           kid == <<pair, id>>
           item == GeneratedKeyItem((id % OhttpIds) + OhttpBase,
                                    ExpiryTime(Latest, now), now + delay)
           kv == [ids |-> Put(Latest.ids, id, kid),
                  keys |-> Put(Latest.keys, kid, item),
                  rotation |-> Latest.rotation,
                  claims |-> pair]
<1>1. /\ Write(kv)
      /\ pair \notin used /\ used' = used \cup {pair}
      /\ now' = now + delay
  BY DEF Refresh
<1>2. /\ kv.ids = Put(Latest.ids, id, kid)
      /\ kv.keys = Put(Latest.keys, kid, item)
      /\ kv.rotation = Latest.rotation
  OBVIOUS
<1>3. item.timestamp = now + delay
  BY DEF GeneratedKeyItem
<1>4. /\ KvTypeOK(Latest)
      /\ KvConsistent(Latest)
      /\ \A i \in DOMAIN Latest.ids : Latest.ids[i][1] # pair
  BY <1>1, LatestFacts DEF StoreInv, FreshKeys
<1>5. id = Size(Latest) + 1
  BY DEF NextId
<1> HIDE DEF kv, item
<1>6. kid \notin DOMAIN Latest.keys
  BY <1>2, <1>4, NewKeyConsistent
<1>7. Latest' = kv
  <2>1. Len(ledger') = Len(ledger) + 1 /\ ledger'[Len(ledger) + 1] = kv
    BY <1>1, WriteStep DEF StoreInv, TypeOK
  <2> QED
    BY <2>1 DEF Latest
<1> HIDE DEF id
<1>8. DOMAIN kv.keys = DOMAIN Latest.keys \cup {kid}
  BY <1>2 DEF Put
<1>9. kv.keys[kid] = item
  BY <1>2 DEF Put
<1>10. \A other \in DOMAIN Latest.keys : kv.keys[other] = Latest.keys[other]
  BY <1>2, <1>6 DEF Put
<1>11. Cardinality(DOMAIN kv.ids) = Size(Latest) + 1
  <2>1. Size(Latest) \in Nat /\ DOMAIN Latest.ids = 1 .. Size(Latest)
    BY <1>4, ConsistentFacts
  <2>2. DOMAIN kv.ids = 1 .. Size(Latest) + 1
    BY <1>2, <1>5, <2>1 DEF Put
  <2> QED
    BY <2>1, <2>2, FS_Interval
<1>12. /\ \A other \in 1 .. Size(Latest) : kv.ids[other] = Latest.ids[other]
       /\ kv.ids[id] = kid
  <2>1. Size(Latest) \in Nat /\ DOMAIN Latest.ids = 1 .. Size(Latest)
    BY <1>4, ConsistentFacts
  <2> HIDE DEF kid
  <2> QED
    BY <1>2, <1>5, <2>1 DEF Put
<1> QED
  BY <1>1, <1>2, <1>3, <1>5, <1>7, <1>8, <1>9, <1>10, <1>11, <1>12 DEF Size

\* The exposure delay is a number of milliseconds.
LEMMA DelayType ==
  ASSUME NEW kv, KvTypeOK(kv)
  PROVE  ExposureDelay(kv) \in Int
<1>1. CASE kv.rotation = NoPolicy
  BY <1>1 DEF ExposureDelay
<1>2. CASE kv.rotation # NoPolicy
  <2>1. kv.rotation.grace_period_seconds \in Int
    BY <1>2, ConstantsAssumption DEF KvTypeOK
  <2>2. kv.rotation.grace_period_seconds * MsPerSecond \in Int
    BY <2>1, ConstantsAssumption
  <2> QED
    BY <1>2, <2>2 DEF ExposureDelay
<1> QED
  BY <1>1, <1>2

-----------------------------------------------------------------------------
(***************************************************************************)
(* The key store implements KeyRegistry.                                    *)
(***************************************************************************)

\* The key pairs of maps in the order of their ids: what the registry keeps.
Pairs(kv) == [id \in 1 .. Size(kv) |-> kv.ids[id][1]]

\* They are a sequence.
LEMMA PairsType ==
  ASSUME NEW kv, KvTypeOK(kv), KvConsistent(kv)
  PROVE  /\ Pairs(kv) \in Seq(KeyPairs)
         /\ Len(Pairs(kv)) = Size(kv)
<1>1. Size(kv) \in Nat
  BY ConsistentFacts
<1>2. \A id \in 1 .. Size(kv) : kv.ids[id][1] \in KeyPairs
  BY ConsistentFacts DEF Kid
<1>3. Pairs(kv) \in [1 .. Size(kv) -> KeyPairs]
  BY <1>2 DEF Pairs
<1> QED
  BY <1>1, <1>3

\* A sequence that is one longer is the shorter one with an element appended.
LEMMA OneLonger ==
  ASSUME NEW S, NEW s \in Seq(S), NEW t \in Seq(S), Len(t) = Len(s) + 1,
         \A i \in 1 .. Len(s) : t[i] = s[i]
  PROVE  t = Append(s, t[Len(t)])
<1> DEFINE x == t[Len(t)]
           a == Append(s, x)
<1>1. Len(s) \in Nat /\ x \in S
  OBVIOUS
<1>2. a \in Seq(S) /\ Len(a) = Len(s) + 1
  BY <1>1
<1>3. ASSUME NEW i \in 1 .. Len(s) + 1 PROVE t[i] = a[i]
  BY <1>1, <1>3
<1>4. /\ t = [i \in 1 .. Len(s) + 1 |-> t[i]]
      /\ a = [i \in 1 .. Len(s) + 1 |-> a[i]]
  <2> HIDE DEF a, x
  <2> QED
    BY <1>2
<1> QED
  BY <1>3, <1>4

\* A sequence that agrees with the beginning of another is a prefix of it.
LEMMA NotLonger ==
  ASSUME NEW S, NEW s \in Seq(S), NEW t \in Seq(S), Len(t) <= Len(s),
         \A i \in 1 .. Len(t) : t[i] = s[i]
  PROVE  t = SubSeq(s, 1, Len(t))
<1>1. /\ t = [i \in 1 .. Len(t) |-> t[i]]
      /\ SubSeq(s, 1, Len(t)) = [i \in 1 .. Len(t) |-> s[i]]
  OBVIOUS
<1> QED
  BY <1>1

\* An earlier entry of the ledger registers the first keys of a later one.
LEMMA EntryPrefix ==
  ASSUME StoreInv, NEW i \in 1 .. Len(ledger), NEW j \in 1 .. Len(ledger), i <= j
  PROVE  /\ KvTypeOK(ledger[i]) /\ KvConsistent(ledger[i])
         /\ KvTypeOK(ledger[j]) /\ KvConsistent(ledger[j])
         /\ Size(ledger[i]) \in Nat
         /\ Size(ledger[j]) \in Nat
         /\ Size(ledger[i]) <= Size(ledger[j])
         /\ \A id \in 1 .. Size(ledger[i]) :
              id \in 1 .. Size(ledger[j]) /\ ledger[j].ids[id] = ledger[i].ids[id]
<1>1. /\ KvTypeOK(ledger[i]) /\ KvConsistent(ledger[i])
      /\ KvTypeOK(ledger[j]) /\ KvConsistent(ledger[j])
  BY DEF StoreInv, TypeOK, StoreConsistent
<1>2. DOMAIN ledger[i].keys \subseteq DOMAIN ledger[j].keys
  BY DEF StoreInv, AppendOnly
<1> QED
  BY <1>1, <1>2, IdsPrefix, ConsistentFacts

\* The state of the registry, before and after a step.
LEMMA RegistryState ==
  ASSUME StoreInv
  PROVE  /\ KvTypeOK(Latest) /\ KvConsistent(Latest)
         /\ Size(Latest) \in Nat
         /\ Pairs(Latest) \in Seq(KeyPairs)
         /\ Len(Pairs(Latest)) = Size(Latest)
         /\ commit \in 1 .. Len(ledger)
         /\ Size(ledger[commit]) \in 0 .. Size(Latest)
         /\ \A id \in 1 .. Size(ledger[commit]) :
              ledger[commit].ids[id] = Latest.ids[id]
<1>1. commit \in 1 .. Len(ledger) /\ Len(ledger) \in 1 .. Len(ledger)
  BY LatestFacts DEF StoreInv, TypeOK, LedgerTypeOK
<1>2. commit <= Len(ledger)
  BY <1>1
<1> QED
  BY <1>1, <1>2, LatestFacts, EntryPrefix, PairsType

\* refresh registers the pair it draws.
LEMMA RefreshAdds ==
  ASSUME StoreInv, StoreInv', NEW pair \in KeyPairs, NEW delay \in Nat,
         Refresh(pair, delay)
  PROVE  Registry!Add
<1>1. /\ \A id \in 1 .. Size(Latest) : Latest'.ids[id] = Latest.ids[id]
      /\ Latest'.ids[Size(Latest) + 1] = <<pair, Size(Latest) + 1>>
      /\ Size(Latest') = Size(Latest) + 1
      /\ pair \in KeyPairs \ used
      /\ used' = used \cup {pair}
  BY RefreshLatest DEF Size
<1>2. /\ Pairs(Latest) \in Seq(KeyPairs) /\ Len(Pairs(Latest)) = Size(Latest)
      /\ Pairs(Latest') \in Seq(KeyPairs) /\ Len(Pairs(Latest')) = Size(Latest')
      /\ Size(Latest) \in Nat
  <2>1. (KvTypeOK(Latest) /\ KvConsistent(Latest))'
    BY LatestFacts, PTL
  <2>2. KvTypeOK(Latest') /\ KvConsistent(Latest')
    BY <2>1 DEF KvTypeOK, KvConsistent, Size
  <2> QED
    BY <2>2, RegistryState, PairsType
<1>3. Pairs(Latest') = Append(Pairs(Latest), pair)
  <2>1. \A id \in 1 .. Size(Latest) : Pairs(Latest')[id] = Pairs(Latest)[id]
    BY <1>1, <1>2 DEF Pairs
  <2>2. Pairs(Latest')[Size(Latest) + 1] = pair
    BY <1>1, <1>2 DEF Pairs
  <2> QED
    BY <1>1, <1>2, <2>1, <2>2, OneLonger
<1>4. commit' = commit /\ ledger'[commit] = ledger[commit] /\ published' = published
  BY WriteStep, RegistryState DEF Refresh, StoreInv, TypeOK
<1>5. Size(ledger[commit])' = Size(ledger[commit])
  BY <1>4 DEF Size
<1> QED
  BY <1>1, <1>3, <1>4, <1>5 DEF Registry!Add, Pairs, Size

\* A change of policy registers nothing.
LEMMA PolicyStutters ==
  ASSUME StoreInv, StoreInv', NEW policy, SetKeyRotationPolicy(policy)
  PROVE  UNCHANGED Registry!vars
<1> DEFINE kv == [ids |-> Latest.ids, keys |-> Latest.keys,
                  rotation |-> policy, claims |-> NoClaims]
<1>1. Write(kv) /\ UNCHANGED <<used, published>>
  BY DEF SetKeyRotationPolicy
<1>2. kv.ids = Latest.ids
  OBVIOUS
<1> HIDE DEF kv
<1>3. /\ Latest' = kv
      /\ commit' = commit /\ ledger'[commit] = ledger[commit]
  BY <1>1, WriteStep, RegistryState DEF StoreInv, TypeOK, Latest
<1> QED
  BY <1>1, <1>2, <1>3 DEF Registry!vars, Size

\* Global commit makes the keys of the entries it reaches durable.
LEMMA CommitHardens ==
  ASSUME StoreInv, StoreInv', Commit
  PROVE  Registry!Harden \/ UNCHANGED Registry!vars
<1>1. /\ ledger' = ledger /\ Latest' = Latest
      /\ commit \in 1 .. Len(ledger)
      /\ commit' \in 1 .. Len(ledger)
      /\ commit <= commit'
      /\ UNCHANGED <<used, published>>
  BY DEF Commit, GloballyCommit, StoreInv, TypeOK, LedgerTypeOK, Latest
<1>2. /\ Size(ledger[commit]) \in Nat
      /\ Size(ledger[commit']) \in Nat
      /\ Size(ledger[commit]) <= Size(ledger[commit'])
  BY <1>1, EntryPrefix
<1>3. Size(ledger[commit']) <= Size(Latest)
  <2>1. Len(ledger) \in 1 .. Len(ledger) /\ commit' <= Len(ledger)
    BY <1>1
  <2> QED
    BY <1>1, <2>1, EntryPrefix, LatestFacts
<1>4. /\ Size(Latest) \in Nat
      /\ Len(Pairs(Latest)) = Size(Latest)
  BY RegistryState
<1>5. Size(ledger[commit])' = Size(ledger[commit'])
  BY <1>1 DEF Size
<1>6. CASE Size(ledger[commit']) = Size(ledger[commit])
  BY <1>1, <1>5, <1>6 DEF Registry!vars, Size
<1>7. CASE Size(ledger[commit']) # Size(ledger[commit])
  <2>1. Size(ledger[commit']) \in Size(ledger[commit]) + 1 .. Len(Pairs(Latest))
    BY <1>2, <1>3, <1>4, <1>7
  <2> QED
    BY <1>1, <1>5, <2>1 DEF Registry!Harden, Pairs, Size
<1> QED
  BY <1>6, <1>7

\* A new primary loses keys behind the durable ones, if any.
LEMMA PrimaryLoses ==
  ASSUME StoreInv, StoreInv', NEW v, NEW skew, NewPrimary(v, skew)
  PROVE  Registry!Lose
<1>1. /\ v \in commit .. Len(ledger)
      /\ Len(ledger') = v
      /\ \A i \in 1 .. v : ledger'[i] = ledger[i]
      /\ commit' = commit
      /\ UNCHANGED <<used, published>>
  BY RollbackStep DEF NewPrimary, StoreInv, TypeOK
<1>2. /\ v \in 1 .. Len(ledger) /\ commit <= v /\ v <= Len(ledger)
      /\ commit \in 1 .. Len(ledger)
      /\ Len(ledger) \in 1 .. Len(ledger)
      /\ Latest = ledger[Len(ledger)]
  BY <1>1, LatestFacts DEF StoreInv, TypeOK, LedgerTypeOK
<1>3. Latest' = ledger[v] /\ ledger'[commit] = ledger[commit]
  BY <1>1, <1>2 DEF Latest
<1>4. /\ Size(ledger[commit]) \in Nat
      /\ Size(ledger[v]) \in Nat
      /\ Size(ledger[commit]) <= Size(ledger[v])
  BY <1>2, EntryPrefix
<1>5. /\ Size(ledger[v]) <= Size(Latest)
      /\ \A id \in 1 .. Size(ledger[v]) : Latest.ids[id] = ledger[v].ids[id]
      /\ KvTypeOK(ledger[v]) /\ KvConsistent(ledger[v])
  BY <1>2, EntryPrefix
<1>6. /\ Pairs(Latest) \in Seq(KeyPairs) /\ Len(Pairs(Latest)) = Size(Latest)
      /\ Pairs(ledger[v]) \in Seq(KeyPairs)
      /\ Len(Pairs(ledger[v])) = Size(ledger[v])
      /\ Size(Latest) \in Nat
  BY <1>5, PairsType, RegistryState
<1>7. Pairs(ledger[v]) = SubSeq(Pairs(Latest), 1, Size(ledger[v]))
  <2>1. \A id \in 1 .. Size(ledger[v]) : Pairs(ledger[v])[id] = Pairs(Latest)[id]
    BY <1>4, <1>5, <1>6 DEF Pairs
  <2> QED
    BY <1>5, <1>6, <2>1, NotLonger
<1>8. Size(ledger[v]) \in Size(ledger[commit]) .. Len(Pairs(Latest))
  <2>1. Size(ledger[v]) <= Len(Pairs(Latest))
    BY <1>5, <1>6
  <2> QED
    BY <1>4, <1>6, <2>1
<1>9. Size(ledger[commit])' = Size(ledger[commit])
  BY <1>1, <1>3 DEF Size
<1> QED
  BY <1>1, <1>3, <1>7, <1>8, <1>9 DEF Registry!Lose, Pairs, Size

\* pubkey publishes a durable key, under its number, or nothing.
LEMMA PubkeyPublishes ==
  ASSUME StoreInv, StoreInv', NEW n \in Nodes, NEW kid \in KnownKids(n),
         Pubkey(n, kid)
  PROVE  Registry!Publish \/ UNCHANGED Registry!vars
<1>1. UNCHANGED <<ledger, commit, used, Latest, Size(ledger[commit])>>
  BY DEF Pubkey, Latest, Size
<1>2. CASE published' = published
  BY <1>1, <1>2 DEF Registry!vars, Size
<1>3. CASE published' # published
  <2>1. ReceiptReady(n, kid) /\ published' = published \cup {kid}
    BY <1>3 DEF Pubkey, PubkeyStatus, KnownKids
  <2>2. kid \in DOMAIN ledger[commit].keys /\ kid \in Kid
    BY <2>1, ReceiptReadyCommitted, NodeType DEF StoreInv
  <2>3. KvTypeOK(ledger[commit]) /\ KvConsistent(ledger[commit])
    BY RegistryState DEF StoreInv, TypeOK, StoreConsistent
  <2>4. /\ kid[2] \in 1 .. Size(ledger[commit])
        /\ ledger[commit].ids[kid[2]] = kid
    BY <2>2, <2>3, ConsistentFacts
  <2>5. Pairs(Latest)[kid[2]] = kid[1]
    BY <2>4, RegistryState DEF Pairs
  <2>6. kid = <<Pairs(Latest)[kid[2]], kid[2]>>
    BY <2>2, <2>5 DEF Kid
  <2>7. \E i \in 1 .. Size(ledger[commit]) :
          published' = published \cup {<<Pairs(Latest)[i], i>>}
    BY <2>1, <2>4, <2>6
  <2> QED
    BY <1>1, <2>7 DEF Registry!Publish, Pairs, Size
<1> QED
  BY <1>2, <1>3

\* At the start nothing is registered.
LEMMA RegistryStarts == Init => Registry!Init
<1> SUFFICES ASSUME Init PROVE Registry!Init
  OBVIOUS
<1>1. Latest = EmptyMaps /\ ledger[commit] = EmptyMaps /\ used = {} /\ published = {}
  BY DEF Init, Latest
<1>2. Size(EmptyMaps) = 0
  <2>1. DOMAIN EmptyMaps.ids = {}
    BY DEF EmptyMaps
  <2> QED
    BY <2>1, FS_EmptySet DEF Size
<1>3. [id \in 1 .. Size(Latest) |-> Latest.ids[id][1]] = <<>>
  BY <1>1, <1>2
<1> QED
  BY <1>1, <1>2, <1>3 DEF Registry!Init

\* Every step of the service is one of the registry or leaves it alone.
LEMMA RegistryStep ==
  StoreInv /\ StoreInv' /\ [Next]_vars => [Registry!Next]_(Registry!vars)
<1> SUFFICES ASSUME StoreInv, StoreInv', [Next]_vars
             PROVE  Registry!Next \/ UNCHANGED Registry!vars
  OBVIOUS
<1>1. ASSUME NEW pair \in KeyPairs, NEW delay \in 0 .. MaxDelay,
             Refresh(pair, delay)
      PROVE  Registry!Next
  BY <1>1, RefreshAdds, ConstantsAssumption DEF Registry!Next
<1>2. ASSUME NEW policy \in Policies, SetKeyRotationPolicy(policy)
      PROVE  UNCHANGED Registry!vars
  BY <1>2, PolicyStutters
<1>3. ASSUME NEW n \in Nodes, NEW kid \in KnownKids(n), Pubkey(n, kid)
      PROVE  Registry!Next \/ UNCHANGED Registry!vars
  BY <1>3, PubkeyPublishes DEF Registry!Next
<1>4. CASE Commit
  BY <1>4, CommitHardens DEF Registry!Next
<1>5. ASSUME NEW v \in 1 .. MaxLedger, NEW skew \in 0 .. MaxSkew,
             NewPrimary(v, skew)
      PROVE  Registry!Next
  BY <1>5, PrimaryLoses DEF Registry!Next
<1>6. ASSUME UNCHANGED <<ledger, commit, used, published>>
      PROVE  UNCHANGED Registry!vars
  BY <1>6 DEF Registry!vars, Size, Latest
<1>7. ASSUME NEW n \in Nodes, NEW kid \in KnownKids(n),
             Key(n, kid) \/ UnwrapKey(n, kid)
      PROVE  UNCHANGED Registry!vars
  BY <1>6, <1>7 DEF Key, UnwrapKey
<1>8. CASE \/ \E n \in Nodes : UnwrapKeyGcp(n) \/ Replicate(n)
           \/ Tick \/ UNCHANGED vars
  <2>1. UNCHANGED <<ledger, commit, used, published>>
    BY <1>8 DEF UnwrapKeyGcp, Replicate, Tick, vars
  <2> QED
    BY <1>6, <2>1
<1>9. ASSUME NEW n \in Nodes, NEW h \in Handles,
             HistoricalFetch(n, h) \/ HistoricalExpire(n, h)
      PROVE  UNCHANGED Registry!vars
  <2>1. UNCHANGED <<ledger, commit, used, published>>
    BY <1>9 DEF HistoricalFetch, HistoricalExpire
  <2> QED
    BY <1>6, <2>1
<1> QED
  BY <1>1, <1>2, <1>3, <1>4, <1>5, <1>7, <1>8, <1>9
     DEF Next, Writes, Reads, Service, Fetches, Expiries

\* The key store, with its ledger, maps, handles and changes of primary, is an
\* append-only registry of which a durable prefix is never lost and in which
\* only durable keys are handed out with a receipt.
THEOREM StoreImplementsRegistry == Spec => ImplementsRegistry
<1>1. Spec => Registry!Spec
  BY RegistryStarts, RegistryStep, StoreInit, StoreStep, PTL
     DEF Spec, Registry!Spec
<1> QED
  BY <1>1 DEF ImplementsRegistry

\* What the registry promises its clients the service keeps: a key that was
\* handed out with a receipt stays, under its number, among those that cannot be
\* lost, and no key pair has two numbers.
THEOREM RegistryPromisesKept ==
  Spec => [](Registry!TypeOK /\ Registry!PublishedKept /\ Registry!NoKeyTwice)
<1> DEFINE durable == Size(ledger[commit])
<1>1. ASSUME StoreInv
      PROVE  Registry!TypeOK /\ Registry!PublishedKept /\ Registry!NoKeyTwice
  <2>1. /\ KvTypeOK(Latest) /\ KvConsistent(Latest)
        /\ Pairs(Latest) \in Seq(KeyPairs)
        /\ Len(Pairs(Latest)) = Size(Latest)
        /\ Size(Latest) \in Nat
        /\ commit \in 1 .. Len(ledger)
        /\ durable \in 0 .. Size(Latest)
        /\ \A id \in 1 .. durable : ledger[commit].ids[id] = Latest.ids[id]
    BY <1>1, RegistryState
  <2>2. KvTypeOK(ledger[commit]) /\ KvConsistent(ledger[commit])
    BY <1>1, <2>1 DEF StoreInv, TypeOK, StoreConsistent
  <2>3. \A kid \in published : /\ kid[2] \in 1 .. durable
                               /\ ledger[commit].ids[kid[2]] = kid
    BY <1>1, <2>2, ConsistentFacts DEF StoreInv, PublishedCommitted
  <2> HIDE DEF durable
  <2>4. \A kid \in published : kid[2] \in 1 .. durable
                              /\ Pairs(Latest)[kid[2]] = kid[1]
    <3>1. \A id \in 1 .. durable : id \in 1 .. Size(Latest)
      BY <2>1
    <3> QED
      BY <2>1, <2>3, <3>1 DEF Pairs
  <2>5. \A i, j \in 1 .. Size(Latest) :
          Pairs(Latest)[i] = Pairs(Latest)[j] => i = j
    BY <2>1, ConsistentFacts DEF KvConsistent, Pairs
  <2>6. Registry!TypeOK
    <3>1. used \subseteq KeyPairs /\ published \subseteq KeyPairs \X Nat
      BY <1>1 DEF StoreInv, TypeOK, Kid
    <3> QED
      BY <2>1, <3>1 DEF Registry!TypeOK, Pairs, durable
  <2>7. Registry!PublishedKept
    BY <2>4 DEF Registry!PublishedKept, Pairs, durable
  <2>8. Registry!NoKeyTwice
    BY <2>1, <2>5 DEF Registry!NoKeyTwice, Pairs
  <2> QED
    BY <2>6, <2>7, <2>8
<1> QED
  BY <1>1, StoreCorrect, PTL

-----------------------------------------------------------------------------
(***************************************************************************)
(* The key given to public-key clients.                                     *)
(***************************************************************************)

\* Consistent maps store every key they have an id for, so an id is exposable
\* by its key's age, or if there is no delay.
LEMMA ExposableByAge ==
  ASSUME NEW kv, KvTypeOK(kv), KvConsistent(kv), NEW t
  PROVE  ExposableIds(kv, t) =
           {id \in 1 .. Size(kv) :
              \/ ExposureDelay(kv) <= 0
              \/ t - kv.keys[kv.ids[id]].timestamp >= ExposureDelay(kv)}
BY ConsistentFacts DEF ExposableIds

\* If some id is exposable, clients get the key of the greatest one.
LEMMA GreatestExposed ==
  ASSUME NEW kv, KvTypeOK(kv), KvConsistent(kv), NEW t,
         ExposableIds(kv, t) # {}
  PROVE  \E id \in ExposableIds(kv, t) :
           /\ PublicKid(kv, t) = kv.ids[id]
           /\ id \in 1 .. Size(kv)
           /\ \A other \in ExposableIds(kv, t) : other <= id
<1> DEFINE ids == ExposableIds(kv, t)
           id == CHOOSE i \in ids : \A other \in ids : other <= i
<1>1. ids # {} /\ LatestExposableKey(kv, t) = kv.ids[id]
  BY DEF LatestExposableKey
<1>2. ids \subseteq 1 .. Size(kv) /\ Size(kv) \in Nat
  BY ConsistentFacts DEF ExposableIds
<1>3. \E i \in ids : \A other \in ids : other <= i
  <2> HIDE DEF ids
  <2> QED
    BY <1>1, <1>2, GreatestExists
<1>4. id \in ids /\ \A other \in ids : other <= id
  BY <1>3
<1>5. kv.ids[id] # NoKey
  <2>1. kv.ids[id] \in KeyPairs \X Nat
    BY <1>2, <1>4, ConsistentFacts DEF Kid
  <2> QED
    BY <2>1, ConstantsAssumption
<1> QED
  BY <1>1, <1>2, <1>4, <1>5 DEF PublicKid

\* If none is, they get the newest key, if there is one.
LEMMA NoneExposed ==
  ASSUME NEW kv, KvTypeOK(kv), KvConsistent(kv), NEW t,
         ExposableIds(kv, t) = {}
  PROVE  PublicKid(kv, t) = IF Size(kv) > 0 THEN kv.ids[Size(kv)] ELSE NoKey
<1>1. Size(kv) \in Nat /\ DOMAIN kv.ids = 1 .. Size(kv)
  BY ConsistentFacts
<1>2. Size(kv) \in DOMAIN kv.ids <=> Size(kv) > 0
  BY <1>1
<1> QED
  BY <1>2 DEF PublicKid, LatestExposableKey, LatestItem

\* With time and new keys, what was exposable stays so: as long as the delay is
\* no longer, public-key clients get the same key or a newer one.
LEMMA NewerExposed ==
  ASSUME NEW a, KvTypeOK(a), KvConsistent(a),
         NEW b, KvTypeOK(b), KvConsistent(b),
         \A kid \in DOMAIN a.keys : /\ kid \in DOMAIN b.keys
                                    /\ b.keys[kid] = a.keys[kid],
         ExposureDelay(b) <= ExposureDelay(a),
         NEW t \in Nat, NEW u \in Nat, t <= u,
         ExposableIds(a, t) # {}
  PROVE  PublicKid(b, u)[2] >= PublicKid(a, t)[2]
<1>1. PICK i \in ExposableIds(a, t) : PublicKid(a, t) = a.ids[i] /\ i \in 1 .. Size(a)
  BY GreatestExposed
<1>2. i \in 1 .. Size(b) /\ b.ids[i] = a.ids[i]
  BY <1>1, IdsPrefix
<1>3. /\ b.keys[b.ids[i]] = a.keys[a.ids[i]]
      /\ a.keys[a.ids[i]].timestamp \in Nat
      /\ a.ids[i][2] = i
  BY <1>1, <1>2, ConsistentFacts
<1>4. /\ ExposureDelay(a) \in Int /\ ExposureDelay(b) \in Int
      /\ ExposureDelay(b) <= ExposureDelay(a)
  BY DelayType
<1>5. i \in ExposableIds(b, u)
  BY <1>1, <1>2, <1>3, <1>4, ExposableByAge
<1>6. PICK j \in ExposableIds(b, u) :
        /\ PublicKid(b, u) = b.ids[j]
        /\ j \in 1 .. Size(b)
        /\ i <= j
  BY <1>5, GreatestExposed
<1>7. b.ids[j][2] = j
  BY <1>6, ConsistentFacts
<1> QED
  BY <1>1, <1>3, <1>6, <1>7

\* Whatever entries a step leaves in the ledger, it leaves as they are.
LEMMA EntriesKept ==
  ASSUME StoreInv, [Next]_vars,
         NEW i \in 1 .. Len(ledger), i \in 1 .. Len(ledger')
  PROVE  ledger'[i] = ledger[i]
<1>1. ASSUME NEW kv, Write(kv) PROVE ledger'[i] = ledger[i]
  BY <1>1, WriteStep DEF StoreInv, TypeOK
<1>2. ASSUME NEW pair \in KeyPairs, NEW delay \in 0 .. MaxDelay,
             Refresh(pair, delay)
      PROVE  ledger'[i] = ledger[i]
  BY <1>1, <1>2 DEF Refresh
<1>3. ASSUME NEW policy \in Policies, SetKeyRotationPolicy(policy)
      PROVE  ledger'[i] = ledger[i]
  BY <1>1, <1>3 DEF SetKeyRotationPolicy
<1>4. ASSUME NEW v, NEW skew, NewPrimary(v, skew)
      PROVE  ledger'[i] = ledger[i]
  BY <1>4, RollbackStep DEF NewPrimary, StoreInv, TypeOK
<1>5. ASSUME NEW n \in Nodes, NEW kid \in KnownKids(n),
             Pubkey(n, kid) \/ Key(n, kid) \/ UnwrapKey(n, kid)
      PROVE  ledger' = ledger
  BY <1>5 DEF Pubkey, Key, UnwrapKey
<1>6. CASE \/ \E n \in Nodes : UnwrapKeyGcp(n) \/ Replicate(n)
           \/ Tick \/ Commit \/ UNCHANGED vars
  BY <1>6 DEF UnwrapKeyGcp, Replicate, Tick, Commit, GloballyCommit, vars
<1>7. ASSUME NEW n \in Nodes, NEW h \in Handles,
             HistoricalFetch(n, h) \/ HistoricalExpire(n, h)
      PROVE  ledger' = ledger
  BY <1>7 DEF HistoricalFetch, HistoricalExpire
<1> QED
  BY <1>2, <1>3, <1>4, <1>5, <1>6, <1>7
     DEF Next, Writes, Reads, Service, Fetches, Expiries

\* A node that has applied as much of the ledger as another had holds the keys
\* that one had, unchanged.
LEMMA KeysKept ==
  ASSUME StoreInv, StoreInv', [Next]_vars, NEW n \in Nodes, NEW m \in Nodes,
         applied'[m] >= applied[n]
  PROVE  /\ KvTypeOK(NodeKv(n)) /\ KvConsistent(NodeKv(n))
         /\ KvTypeOK(NodeKv(m)') /\ KvConsistent(NodeKv(m)')
         /\ \A kid \in DOMAIN NodeKv(n).keys :
              /\ kid \in DOMAIN NodeKv(m)'.keys
              /\ NodeKv(m)'.keys[kid] = NodeKv(n).keys[kid]
<1>1. KvTypeOK(NodeKv(n)) /\ KvConsistent(NodeKv(n))
  BY NodeFacts
<1>2. applied[n] \in 1 .. Len(ledger) /\ applied'[m] \in 1 .. Len(ledger')
  BY DEF StoreInv, TypeOK
<1>3. Len(ledger) \in Nat /\ Len(ledger') \in Nat
  BY DEF StoreInv, TypeOK, LedgerTypeOK
<1>4. applied[n] \in 1 .. Len(ledger') /\ applied[n] <= applied'[m]
  BY <1>2, <1>3
<1>5. ledger'[applied[n]] = NodeKv(n)
  BY <1>2, <1>4, EntriesKept DEF NodeKv
<1>6. NodeKv(m)' = ledger'[applied'[m]]
  BY DEF NodeKv
<1>7. KvTypeOK(ledger'[applied'[m]]) /\ KvConsistent(ledger'[applied'[m]])
  <2>1. /\ \A i \in 1 .. Len(ledger') : KvTypeOK(ledger'[i])
        /\ \A i \in 1 .. Len(ledger') : KvConsistent(ledger'[i])
    BY DEF StoreInv, TypeOK, StoreConsistent, KvTypeOK, KvConsistent, Size
  <2> QED
    BY <1>2, <2>1
<1>8. \A kid \in DOMAIN ledger'[applied[n]].keys :
        /\ kid \in DOMAIN ledger'[applied'[m]].keys
        /\ ledger'[applied'[m]].keys[kid] = ledger'[applied[n]].keys[kid]
  BY <1>2, <1>4 DEF StoreInv, AppendOnly
<1> QED
  BY <1>1, <1>5, <1>6, <1>7, <1>8

\* Once a node has exposed some key, that node and every other that has applied
\* as much of the ledger give public-key clients the same key or a newer one,
\* across refreshes, commits, replication, changes of primary and of the
\* policy, unless the clock went back or the exposure delay got longer.
THEOREM PublicKeyMonotone == Spec => PublicKeyNeverRegresses
<1>1. ASSUME StoreInv, StoreInv', [Next]_vars, NEW n \in Nodes, NEW m \in Nodes,
             ExposableIds(NodeKv(n), now) # {},
             applied'[m] >= applied[n], now' >= now,
             ExposureDelay(NodeKv(m)') <= ExposureDelay(NodeKv(n))
      PROVE  PublicKid(NodeKv(m)', now')[2] >= PublicKid(NodeKv(n), now)[2]
  <2>1. now \in Nat /\ now' \in Nat /\ now <= now'
    BY <1>1 DEF StoreInv, TypeOK
  <2> QED
    BY <1>1, <2>1, KeysKept, NewerExposed
<1>2. StoreInv /\ StoreInv' /\ [Next]_vars
        => [\A n \in Nodes : ExposableIds(NodeKv(n), now) # {} =>
              \A m \in Nodes :
                /\ applied'[m] >= applied[n]
                /\ now' >= now
                /\ ExposureDelay(NodeKv(m)') <= ExposureDelay(NodeKv(n))
                => PublicKid(NodeKv(m)', now')[2]
                     >= PublicKid(NodeKv(n), now)[2]]_vars
  BY <1>1
<1> QED
  BY <1>2, StoreInit, StoreStep, PTL DEF Spec, PublicKeyNeverRegresses

-----------------------------------------------------------------------------
(***************************************************************************)
(* The key given to public-key clients can be used.                         *)
(***************************************************************************)

\* A key that is younger than the rotation interval has not expired.
LEMMA YoungUnexpired ==
  ASSUME NEW kv, KvTypeOK(kv), KvConsistent(kv), NEW kid \in DOMAIN kv.keys,
         NEW t \in Nat,
         kv.rotation # NoPolicy
           => t - kv.keys[kid].timestamp
                <= kv.rotation.rotation_interval_seconds * MsPerSecond
  PROVE  ~ IsExpired(kv, kid, t)
<1> SUFFICES ASSUME kv.rotation # NoPolicy
             PROVE  ~ t > ExpiryTime(kv, kv.keys[kid].timestamp)
  BY DEF IsExpired
<1> DEFINE rotation == kv.rotation.rotation_interval_seconds * MsPerSecond
<1>1. rotation \in Int
  <2>1. kv.rotation.rotation_interval_seconds \in Int
    BY ConstantsAssumption DEF KvTypeOK
  <2> QED
    BY <2>1, ConstantsAssumption
<1>2. kv.keys[kid].timestamp \in Nat
  BY ConsistentFacts
<1>3. ExpiryTime(kv, kv.keys[kid].timestamp) = kv.keys[kid].timestamp + rotation
  BY DEF ExpiryTime
<1> HIDE DEF rotation
<1>4. t - kv.keys[kid].timestamp <= rotation
  BY DEF rotation
<1> QED
  BY <1>1, <1>2, <1>3, <1>4

\* If keys are refreshed on time and the rotation interval covers the gap
\* between them and the exposure delay, the key clients get is stored and
\* young: the key after it, if there is one, is younger than the delay.
LEMMA PublicKidYoung ==
  ASSUME NEW kv, KvTypeOK(kv), KvConsistent(kv), NEW t \in Nat,
         RefreshedOnTime(kv, t), PolicyCoversGap(kv.rotation)
  PROVE  /\ PublicKid(kv, t) \in DOMAIN kv.keys
         /\ kv.rotation # NoPolicy
              => t - kv.keys[PublicKid(kv, t)].timestamp
                   <= kv.rotation.rotation_interval_seconds * MsPerSecond
<1> DEFINE size == Size(kv)
           Timestamp(id) == kv.keys[kv.ids[id]].timestamp
           delay == ExposureDelay(kv)
           rotation == kv.rotation.rotation_interval_seconds * MsPerSecond
<1>1. /\ size \in Nat /\ size > 0
      /\ t - Timestamp(size) <= RefreshGap
      /\ \A id \in 1 .. size - 1 : Timestamp(id + 1) - Timestamp(id) <= RefreshGap
  BY ConsistentFacts DEF RefreshedOnTime
<1>2. \A id \in 1 .. size : Timestamp(id) \in Nat /\ kv.ids[id] \in DOMAIN kv.keys
  BY ConsistentFacts
<1>3. delay \in Int /\ RefreshGap \in Nat
  BY DelayType, ConstantsAssumption
<1>4. kv.rotation # NoPolicy
        => rotation \in Int /\ RefreshGap <= rotation /\ RefreshGap + delay <= rotation
  <2> SUFFICES ASSUME kv.rotation # NoPolicy
               PROVE  /\ rotation \in Int
                      /\ RefreshGap <= rotation /\ RefreshGap + delay <= rotation
    OBVIOUS
  <2>1. kv.rotation.rotation_interval_seconds \in Int
    BY ConstantsAssumption DEF KvTypeOK
  <2>2. rotation \in Int
    BY <2>1, ConstantsAssumption
  <2>3. RefreshGap <= rotation /\ RefreshGap + delay <= rotation
    BY DEF PolicyCoversGap, ExposureDelay
  <2> QED
    BY <2>2, <2>3
<1>5. kv.rotation = NoPolicy => delay = 0
  BY DEF ExposureDelay
<1>6. CASE ExposableIds(kv, t) = {}
  <2>1. PublicKid(kv, t) = kv.ids[size]
    BY <1>1, <1>6, NoneExposed
  <2>2. size \in 1 .. size
    BY <1>1
  <2> QED
    BY <1>1, <1>2, <1>3, <1>4, <2>1, <2>2
<1>7. CASE ExposableIds(kv, t) # {}
  <2>1. PICK id \in ExposableIds(kv, t) :
          /\ PublicKid(kv, t) = kv.ids[id]
          /\ id \in 1 .. size
          /\ \A other \in ExposableIds(kv, t) : other <= id
    BY <1>7, GreatestExposed
  <2>2. CASE id = size
    BY <1>1, <1>2, <1>3, <1>4, <2>1, <2>2
  <2>3. CASE id # size
    <3>1. id \in 1 .. size - 1 /\ id + 1 \in 1 .. size /\ ~ id + 1 <= id
      BY <1>1, <2>1, <2>3
    <3>2. id + 1 \notin ExposableIds(kv, t)
      BY <2>1, <3>1
    <3>3. ~ delay <= 0 /\ ~ t - Timestamp(id + 1) >= delay
      BY <3>1, <3>2, ExposableByAge
    <3>4. /\ Timestamp(id + 1) - Timestamp(id) <= RefreshGap
          /\ Timestamp(id + 1) \in Nat /\ Timestamp(id) \in Nat
      BY <1>1, <1>2, <3>1
    <3> HIDE DEF Timestamp, delay, rotation
    <3>5. t - Timestamp(id) < RefreshGap + delay
      BY <1>3, <3>3, <3>4
    <3>6. kv.rotation # NoPolicy => t - Timestamp(id) <= rotation
      BY <1>3, <1>4, <3>4, <3>5
    <3> QED
      BY <1>2, <2>1, <3>6 DEF Timestamp, rotation
  <2> QED
    BY <2>2, <2>3
<1> QED
  BY <1>6, <1>7

\* If keys are refreshed in time and the rotation interval covers the gap and
\* the exposure delay, the key that pubkey and listpubkeys give to public-key
\* clients is one that unwrapKey still releases on the same node.
THEOREM PublicKeysUsable == Spec => []PublicKeyUsable
<1>1. StoreInv => PublicKeyUsable
  <2> SUFFICES ASSUME StoreInv, NEW n \in Nodes,
                      RefreshedOnTime(NodeKv(n), now),
                      PolicyCoversGap(NodeKv(n).rotation)
               PROVE  UnwrapKeyStatus(n, PublicKid(NodeKv(n), now)) = 200
    BY DEF PublicKeyUsable
  <2>1. KvTypeOK(NodeKv(n)) /\ KvConsistent(NodeKv(n)) /\ now \in Nat
    BY NodeFacts DEF StoreInv, TypeOK
  <2>2. /\ PublicKid(NodeKv(n), now) \in DOMAIN NodeKv(n).keys
        /\ ~ IsExpired(NodeKv(n), PublicKid(NodeKv(n), now), now)
    BY <2>1, PublicKidYoung, YoungUnexpired
  <2> QED
    BY <2>2 DEF UnwrapKeyStatus
<1> QED
  BY <1>1, StoreCorrect, PTL

-----------------------------------------------------------------------------
(***************************************************************************)
(* The OHTTP identifiers of the usable keys.                                *)
(***************************************************************************)

\* Two numbers with the same remainder are apart by the modulus at least.
LEMMA SameRemainder ==
  ASSUME NEW m \in Nat \ {0}, NEW a \in Nat, NEW b \in Nat, a < b,
         a % m = b % m
  PROVE  b - a >= m
<1> DEFINE qa == a \div m
           qb == b \div m
           r == a % m
<1>1. qa \in Int /\ qb \in Int /\ r \in Int
  OBVIOUS
<1>2. a = m * qa + r /\ b = m * qb + r
  OBVIOUS
<1> HIDE DEF qa, qb, r
<1>3. b - a = m * (qb - qa)
  BY <1>1, <1>2
<1>4. qb - qa >= 1
  <2>1. SUFFICES ASSUME qb - qa <= 0 PROVE FALSE
    BY <1>1
  <2>2. m * (qb - qa) <= 0
    BY <1>1, <2>1
  <2> QED
    BY <1>3, <2>2
<1>5. m * (qb - qa) >= m
  BY <1>1, <1>4
<1> QED
  BY <1>3, <1>5

\* A transaction keeps the identifiers right if it alters no key and gives the
\* one it may add the identifier of its number.
LEMMA OhttpIdWrite ==
  ASSUME StoreInv, OhttpIdAsMade, NEW kv, Write(kv),
         \A kid \in DOMAIN kv.keys :
           \/ kid \in DOMAIN Latest.keys /\ kv.keys[kid] = Latest.keys[kid]
           \/ kv.keys[kid].id = (kid[2] % OhttpIds) + OhttpBase
  PROVE  OhttpIdAsMade'
<1>1. /\ Len(ledger') = Len(ledger) + 1
      /\ ledger'[Len(ledger) + 1] = kv
      /\ \A i \in 1 .. Len(ledger) : ledger'[i] = ledger[i]
  BY WriteStep DEF StoreInv, TypeOK
<1>2. /\ Len(ledger) \in Nat /\ Len(ledger) \in 1 .. Len(ledger)
      /\ Latest = ledger[Len(ledger)]
  BY LatestFacts
<1>3. \A kid \in DOMAIN kv.keys : kv.keys[kid].id = (kid[2] % OhttpIds) + OhttpBase
  BY <1>2 DEF OhttpIdAsMade
<1>4. \A i \in 1 .. Len(ledger') : i \in 1 .. Len(ledger) \/ ledger'[i] = kv
  BY <1>1, <1>2
<1> QED
  BY <1>1, <1>3, <1>4 DEF OhttpIdAsMade

LEMMA OhttpIdRefresh ==
  ASSUME StoreInv, OhttpIdAsMade, NEW pair \in KeyPairs, NEW delay \in Nat,
         Refresh(pair, delay)
  PROVE  OhttpIdAsMade'
<1> DEFINE id == NextId(Latest)
           kid == <<pair, id>>
           item == GeneratedKeyItem((id % OhttpIds) + OhttpBase,
                                    ExpiryTime(Latest, now), now + delay)
           kv == [ids |-> Put(Latest.ids, id, kid),
                  keys |-> Put(Latest.keys, kid, item),
                  rotation |-> Latest.rotation,
                  claims |-> pair]
<1>1. Write(kv)
  BY DEF Refresh
<1>2. /\ kv.keys = Put(Latest.keys, kid, item)
      /\ kid[2] = id
  OBVIOUS
<1>3. item.id = (id % OhttpIds) + OhttpBase
  BY DEF GeneratedKeyItem
<1> HIDE DEF kv, item, kid, id
<1>4. \A k \in DOMAIN kv.keys :
        \/ k \in DOMAIN Latest.keys /\ kv.keys[k] = Latest.keys[k]
        \/ k = kid /\ kv.keys[k] = item
  BY <1>2 DEF Put
<1>5. \A k \in DOMAIN kv.keys :
        \/ k \in DOMAIN Latest.keys /\ kv.keys[k] = Latest.keys[k]
        \/ kv.keys[k].id = (k[2] % OhttpIds) + OhttpBase
  BY <1>2, <1>3, <1>4
<1> QED
  BY <1>1, <1>5, OhttpIdWrite

LEMMA OhttpIdStep == StoreInv /\ OhttpIdAsMade /\ [Next]_vars => OhttpIdAsMade'
<1> SUFFICES ASSUME StoreInv, OhttpIdAsMade, [Next]_vars PROVE OhttpIdAsMade'
  OBVIOUS
<1>1. ASSUME NEW pair \in KeyPairs, NEW delay \in 0 .. MaxDelay,
             Refresh(pair, delay)
      PROVE  OhttpIdAsMade'
  BY <1>1, OhttpIdRefresh, ConstantsAssumption
<1>2. ASSUME NEW policy \in Policies, SetKeyRotationPolicy(policy)
      PROVE  OhttpIdAsMade'
  <2> DEFINE kv == [ids |-> Latest.ids, keys |-> Latest.keys,
                    rotation |-> policy, claims |-> NoClaims]
  <2>1. Write(kv) /\ kv.keys = Latest.keys
    BY <1>2 DEF SetKeyRotationPolicy
  <2> HIDE DEF kv
  <2> QED
    BY <2>1, OhttpIdWrite
<1>3. ASSUME NEW v, NEW skew, NewPrimary(v, skew)
      PROVE  OhttpIdAsMade'
  <2>1. /\ v \in 1 .. Len(ledger)
        /\ Len(ledger') = v
        /\ \A i \in 1 .. v : ledger'[i] = ledger[i]
    BY <1>3, RollbackStep DEF NewPrimary, StoreInv, TypeOK, LedgerTypeOK
  <2>2. \A i \in 1 .. v : i \in 1 .. Len(ledger)
    BY <2>1
  <2> QED
    BY <2>1, <2>2 DEF OhttpIdAsMade
<1>4. ASSUME ledger' = ledger PROVE OhttpIdAsMade'
  BY <1>4 DEF OhttpIdAsMade
<1>5. ASSUME NEW n \in Nodes, NEW kid \in KnownKids(n),
             Pubkey(n, kid) \/ Key(n, kid) \/ UnwrapKey(n, kid)
      PROVE  OhttpIdAsMade'
  BY <1>4, <1>5 DEF Pubkey, Key, UnwrapKey
<1>6. CASE \/ \E n \in Nodes : UnwrapKeyGcp(n) \/ Replicate(n)
           \/ Tick \/ Commit \/ UNCHANGED vars
  <2>1. ledger' = ledger
    BY <1>6 DEF UnwrapKeyGcp, Replicate, Tick, Commit, GloballyCommit, vars
  <2> QED
    BY <1>4, <2>1
<1>7. ASSUME NEW n \in Nodes, NEW h \in Handles,
             HistoricalFetch(n, h) \/ HistoricalExpire(n, h)
      PROVE  OhttpIdAsMade'
  BY <1>4, <1>7 DEF HistoricalFetch, HistoricalExpire
<1> QED
  BY <1>1, <1>2, <1>3, <1>5, <1>6, <1>7
     DEF Next, Writes, Reads, Service, Fetches, Expiries

\* A key at least as young as one that has not expired has not either.
LEMMA YoungerUnexpired ==
  ASSUME NEW kv, KvTypeOK(kv), KvConsistent(kv), NEW t \in Nat,
         NEW a \in DOMAIN kv.keys, NEW b \in DOMAIN kv.keys,
         ~ IsExpired(kv, a, t),
         kv.keys[a].timestamp <= kv.keys[b].timestamp
  PROVE  ~ IsExpired(kv, b, t)
<1> SUFFICES ASSUME kv.rotation # NoPolicy
             PROVE  ~ t > ExpiryTime(kv, kv.keys[b].timestamp)
  BY DEF IsExpired
<1> DEFINE rotation == kv.rotation.rotation_interval_seconds * MsPerSecond
<1>1. rotation \in Int
  <2>1. kv.rotation.rotation_interval_seconds \in Int
    BY ConstantsAssumption DEF KvTypeOK
  <2> QED
    BY <2>1, ConstantsAssumption
<1>2. kv.keys[a].timestamp \in Nat /\ kv.keys[b].timestamp \in Nat
  BY ConsistentFacts
<1>3. /\ ExpiryTime(kv, kv.keys[a].timestamp) = kv.keys[a].timestamp + rotation
      /\ ExpiryTime(kv, kv.keys[b].timestamp) = kv.keys[b].timestamp + rotation
  BY DEF ExpiryTime
<1>4. ~ t > ExpiryTime(kv, kv.keys[a].timestamp)
  BY DEF IsExpired
<1> HIDE DEF rotation
<1> QED
  BY <1>1, <1>2, <1>3, <1>4

\* Of keys with one identifier, the usable ones would have all those made in
\* between usable as well: more than there are identifiers.
LEMMA TooManyUsable ==
  ASSUME NEW kv, KvTypeOK(kv), KvConsistent(kv), NEW t \in Nat,
         \A x, y \in DOMAIN kv.keys :
           kv.keys[x].timestamp < kv.keys[y].timestamp => x[2] < y[2],
         NEW usable, usable = {kid \in DOMAIN kv.keys : ~ IsExpired(kv, kid, t)},
         NEW a \in usable, NEW b \in usable, a[2] < b[2],
         a[2] % OhttpIds = b[2] % OhttpIds
  PROVE  ~ Cardinality(usable) <= OhttpIds
<1> DEFINE between == a[2] .. b[2]
           kidOf == [id \in between |-> kv.ids[id]]
<1>1. /\ a[2] \in 1 .. Size(kv) /\ b[2] \in 1 .. Size(kv)
      /\ Size(kv) \in Nat
      /\ a \in DOMAIN kv.keys /\ b \in DOMAIN kv.keys
  BY ConsistentFacts
<1>2. b[2] - a[2] >= OhttpIds
  BY <1>1, SameRemainder, ConstantsAssumption
<1>3. ASSUME NEW id \in between
      PROVE  kv.ids[id] \in usable /\ kv.ids[id][2] = id
  <2>1. id \in 1 .. Size(kv) /\ ~ id < a[2]
    BY <1>1
  <2>2. kv.ids[id] \in DOMAIN kv.keys /\ kv.ids[id][2] = id
    BY <2>1, ConsistentFacts
  <2>3. ~ kv.keys[kv.ids[id]].timestamp < kv.keys[a].timestamp
    BY <1>1, <2>1, <2>2
  <2>4. kv.keys[a].timestamp <= kv.keys[kv.ids[id]].timestamp
    <3>1. /\ kv.keys[a].timestamp \in Nat
          /\ kv.keys[kv.ids[id]].timestamp \in Nat
      BY <1>1, <2>2, ConsistentFacts
    <3> QED
      BY <2>3, <3>1
  <2>5. ~ IsExpired(kv, kv.ids[id], t)
    BY <1>1, <2>2, <2>4, YoungerUnexpired
  <2> QED
    BY <2>2, <2>5
<1>4. kidOf \in Injection(between, usable)
  <2>1. kidOf \in [between -> usable]
    BY <1>3
  <2>2. \A x, y \in between : kidOf[x] = kidOf[y] => x = y
    <3>1. \A x \in between : kidOf[x][2] = x
      BY <1>3
    <3> HIDE DEF kidOf, between
    <3> QED
      BY <3>1
  <2> QED
    BY <2>1, <2>2 DEF Injection, IsInjective
<1>5. IsFiniteSet(usable)
  <2>1. IsFiniteSet(DOMAIN kv.ids) /\ DOMAIN kv.ids = 1 .. Size(kv)
    BY ConsistentFacts DEF KvTypeOK
  <2>2. kv.ids \in Surjection(DOMAIN kv.ids, DOMAIN kv.keys)
    <3>1. kv.ids \in [DOMAIN kv.ids -> DOMAIN kv.keys]
      BY <2>1, ConsistentFacts DEF KvTypeOK
    <3>2. \A kid \in DOMAIN kv.keys : \E id \in DOMAIN kv.ids : kv.ids[id] = kid
      BY <2>1, ConsistentFacts
    <3> QED
      BY <3>1, <3>2 DEF Surjection
  <2>3. IsFiniteSet(DOMAIN kv.keys)
    BY <2>1, <2>2, FS_Surjection
  <2> QED
    BY <2>3, FS_Subset
<1> HIDE DEF kidOf
<1>6. Cardinality(between) <= Cardinality(usable)
  BY <1>4, <1>5, FS_Injection
<1>7. Cardinality(between) = b[2] - a[2] + 1
  <2>1. ASSUME NEW low \in Int, NEW high \in Int, low <= high
        PROVE  Cardinality(low .. high) = high - low + 1
    BY <2>1, FS_Interval
  <2>2. a[2] \in Int /\ b[2] \in Int /\ a[2] <= b[2]
    BY <1>1
  <2> QED
    BY <2>1, <2>2
<1>8. Cardinality(usable) \in Nat
  BY <1>5, FS_CardinalityType
<1> QED
  BY <1>1, <1>2, <1>6, <1>7, <1>8, ConstantsAssumption

\* The OHTTP identifier in a client's message tells the usable keys apart, as
\* long as no more keys are usable than there are identifiers and no clock
\* went back between two keys.
THEOREM KeysToldApart == Spec => []UsableKeysToldApart
<1>1. Init => OhttpIdAsMade
  BY DEF Init, EmptyMaps, OhttpIdAsMade
<1>2. ASSUME StoreInv, OhttpIdAsMade PROVE UsableKeysToldApart
  <2> DEFINE usable == {kid \in DOMAIN Latest.keys : ~ IsExpired(Latest, kid, now)}
  <2> SUFFICES ASSUME Cardinality(usable) <= OhttpIds,
                      \A x, y \in DOMAIN Latest.keys :
                        Latest.keys[x].timestamp < Latest.keys[y].timestamp
                          => x[2] < y[2],
                      NEW a \in usable, NEW b \in usable,
                      Latest.keys[a].id = Latest.keys[b].id
               PROVE  a = b
    BY DEF UsableKeysToldApart
  <2>1. /\ KvTypeOK(Latest) /\ KvConsistent(Latest)
        /\ Len(ledger) \in 1 .. Len(ledger) /\ Latest = ledger[Len(ledger)]
        /\ now \in Nat
    BY <1>2, LatestFacts DEF StoreInv, TypeOK
  <2>2. /\ Latest.keys[a].id = (a[2] % OhttpIds) + OhttpBase
        /\ Latest.keys[b].id = (b[2] % OhttpIds) + OhttpBase
    BY <1>2, <2>1 DEF OhttpIdAsMade
  <2>3. /\ a[2] \in Nat /\ b[2] \in Nat
        /\ Latest.ids[a[2]] = a /\ Latest.ids[b[2]] = b
    BY <2>1, ConsistentFacts
  <2>4. a[2] % OhttpIds = b[2] % OhttpIds
    <3>1. a[2] % OhttpIds \in Int /\ b[2] % OhttpIds \in Int
      BY <2>3, ConstantsAssumption
    <3>2. ASSUME NEW x \in Int, NEW y \in Int, x + OhttpBase = y + OhttpBase
          PROVE  x = y
      BY <3>2, ConstantsAssumption
    <3>3. (a[2] % OhttpIds) + OhttpBase = (b[2] % OhttpIds) + OhttpBase
      BY <2>2
    <3> QED
      BY <3>1, <3>2, <3>3
  <2> HIDE DEF usable
  <2>5. ~ a[2] < b[2] /\ ~ b[2] < a[2]
    BY <2>1, <2>4, TooManyUsable DEF usable
  <2> QED
    BY <2>3, <2>5
<1> QED
  BY <1>1, <1>2, StoreInit, StoreStep, OhttpIdStep, PTL DEF Spec
=============================================================================
