-------------------------- MODULE KeyRolloutProofs --------------------------
(***************************************************************************)
(* Proofs about KeyRollout for all values of its constants: however many    *)
(* keys and nodes, whatever the policies and the polling interval.          *)
(***************************************************************************)
EXTENDS KeyRollout, KeyLifecycleProofs

-----------------------------------------------------------------------------
(***************************************************************************)
(* States of the maps along the ledger.                                     *)
(***************************************************************************)

\* If the keys of b are apart, so are those of a, which are among them.
LEMMA ApartPrefix ==
  ASSUME NEW a, KvTypeOK(a), KvConsistent(a),
         NEW b, KvTypeOK(b), KvConsistent(b),
         \A kid \in DOMAIN a.keys : /\ kid \in DOMAIN b.keys
                                    /\ b.keys[kid] = a.keys[kid],
         Apart(b)
  PROVE  Apart(a)
<1> SUFFICES ASSUME NEW id \in 1 .. Size(a) - 1
             PROVE  a.keys[a.ids[id + 1]].timestamp
                      > a.keys[a.ids[id]].timestamp + PollGap
  BY DEF Apart
<1>1. Size(a) \in Nat /\ Size(b) \in Nat /\ Size(a) <= Size(b)
  BY IdsPrefix, ConsistentFacts
<1>2. id \in 1 .. Size(a) /\ id + 1 \in 1 .. Size(a)
  BY <1>1
<1>3. id \in 1 .. Size(b) - 1
  BY <1>1
<1>4. /\ b.ids[id] = a.ids[id]
      /\ b.ids[id + 1] = a.ids[id + 1]
  BY <1>2, IdsPrefix
<1>5. /\ a.ids[id] \in DOMAIN a.keys
      /\ a.ids[id + 1] \in DOMAIN a.keys
  BY <1>2, ConsistentFacts
<1> QED
  BY <1>3, <1>4, <1>5 DEF Apart

\* If no key of b is missing in a, the keys of b are apart as those of a are.
LEMMA ApartSame ==
  ASSUME NEW a, KvTypeOK(a), KvConsistent(a),
         NEW b, KvTypeOK(b), KvConsistent(b),
         \A kid \in DOMAIN a.keys : /\ kid \in DOMAIN b.keys
                                    /\ b.keys[kid] = a.keys[kid],
         Size(a) = Size(b), Apart(a)
  PROVE  Apart(b)
<1> SUFFICES ASSUME NEW id \in 1 .. Size(b) - 1
             PROVE  b.keys[b.ids[id + 1]].timestamp
                      > b.keys[b.ids[id]].timestamp + PollGap
  BY DEF Apart
<1>1. id \in 1 .. Size(a) /\ id + 1 \in 1 .. Size(a) /\ id \in 1 .. Size(a) - 1
  BY ConsistentFacts
<1>2. /\ b.ids[id] = a.ids[id]
      /\ b.ids[id + 1] = a.ids[id + 1]
  BY <1>1, IdsPrefix
<1>3. /\ a.ids[id] \in DOMAIN a.keys
      /\ a.ids[id + 1] \in DOMAIN a.keys
  BY <1>1, ConsistentFacts
<1> QED
  BY <1>1, <1>2, <1>3 DEF Apart

-----------------------------------------------------------------------------
(***************************************************************************)
(* The steps of the service, while the client does not ask.                 *)
(***************************************************************************)

\* The step of the service in a step with the client.
LEMMA ServiceStep == [RolloutNext]_rolloutVars => [Next]_vars
<1>1. ASSUME NEW n \in Nodes, Poll(n) PROVE Next
  BY <1>1 DEF Poll, Next, Reads
<1>2. ASSUME NEW n \in Nodes, PollInVain(n) PROVE UNCHANGED vars
  BY <1>2 DEF PollInVain
<1>3. CASE Unasked
  BY <1>3 DEF Unasked, Next
<1>4. CASE UNCHANGED rolloutVars
  BY <1>4 DEF rolloutVars, vars
<1> QED
  BY <1>1, <1>2, <1>3, <1>4 DEF RolloutNext

\* What a step that adds no key and alters none preserves.
LEMMA NoNewKey ==
  ASSUME RolloutInv, StoreInv', UNCHANGED <<used, cached, polled>>,
         regular' => regular /\ now' >= now,
         \A kid \in DOMAIN Latest'.keys :
           kid \in DOMAIN Latest.keys /\ Latest'.keys[kid] = Latest.keys[kid]
  PROVE  TimestampsPast' /\ KeysCounted' /\ PolledCached'
<1> DEFINE old == Latest
           new == Latest'
<1>1. /\ KvTypeOK(old) /\ KvConsistent(old)
      /\ KvTypeOK(new) /\ KvConsistent(new)
  <2>1. KvTypeOK(Latest)' /\ KvConsistent(Latest)'
    BY LatestFacts, PTL
  <2> QED
    BY <2>1, LatestFacts DEF RolloutInv, KvTypeOK, KvConsistent, Size
<1>2. \A kid \in DOMAIN new.keys :
        /\ kid \in DOMAIN old.keys
        /\ new.keys[kid] = old.keys[kid]
        /\ new.keys[kid].timestamp \in Nat
  BY <1>1, ConsistentFacts
<1>3. now \in Nat /\ now' \in Nat
  BY DEF RolloutInv, StoreInv, TypeOK
<1>4. TimestampsPast'
  BY <1>2, <1>3 DEF RolloutInv, TimestampsPast
<1>5. Size(new) \in Nat /\ Size(old) \in Nat /\ Size(new) <= Size(old)
  BY <1>1, <1>2, ConsistentFacts, IdsPrefix
<1>6. /\ IsFiniteSet(used)
      /\ Size(old) <= Cardinality(used)
      /\ Cardinality(used) \in Nat
  BY FS_CardinalityType DEF RolloutInv, KeysCounted
<1>7. KeysCounted'
  BY <1>5, <1>6 DEF KeysCounted, Size
<1>8. PolledCached'
  <2> SUFFICES ASSUME regular', Spaced(Latest)', NEW kid \in DOMAIN new.keys,
                      new.keys[kid].timestamp < polled
               PROVE  kid \in cached
    BY DEF PolledCached
  <2>1. Cardinality(used) = Size(new) /\ Apart(new)
    BY DEF Spaced, Apart, Size
  <2>2. Size(new) = Size(old)
    BY <1>5, <1>6, <2>1
  <2>3. Apart(old)
    BY <1>1, <1>2, <2>1, <2>2, ApartSame
  <2>4. Spaced(old)
    BY <2>1, <2>2, <2>3 DEF Spaced
  <2> QED
    BY <1>2, <2>4 DEF RolloutInv, PolledCached
<1> QED
  BY <1>4, <1>7, <1>8

\* A new key is as young as the clock, so no poll has had to give it yet.
LEMMA RefreshRollout ==
  ASSUME RolloutInv, StoreInv', RolloutTypeOK',
         NEW pair \in KeyPairs, NEW delay \in Nat, Refresh(pair, delay),
         UNCHANGED <<cached, polled>>, regular' => regular
  PROVE  TimestampsPast' /\ KeysCounted' /\ PolledCached'
<1> DEFINE old == Latest
           new == Latest'
           kid == <<pair, Size(old) + 1>>
<1>1. /\ DOMAIN new.keys = DOMAIN old.keys \cup {kid}
      /\ new.keys[kid].timestamp = now + delay
      /\ \A other \in DOMAIN old.keys : new.keys[other] = old.keys[other]
      /\ Size(Latest)' = Size(old) + 1
      /\ pair \notin used /\ used' = used \cup {pair}
      /\ now' = now + delay
  BY RefreshLatest DEF RolloutInv
<1>2. /\ KvTypeOK(old) /\ KvConsistent(old)
      /\ KvTypeOK(new) /\ KvConsistent(new)
  <2>1. KvTypeOK(Latest)' /\ KvConsistent(Latest)'
    BY LatestFacts, PTL
  <2> QED
    BY <2>1, LatestFacts DEF RolloutInv, KvTypeOK, KvConsistent, Size
<1>3. /\ now \in Nat
      /\ \A other \in DOMAIN old.keys : old.keys[other].timestamp \in Nat
      /\ Size(old) \in Nat
  BY <1>2, ConsistentFacts DEF RolloutInv, StoreInv, TypeOK
<1> HIDE DEF kid
<1>4. TimestampsPast'
  BY <1>1, <1>3 DEF RolloutInv, TimestampsPast
<1>5. /\ IsFiniteSet(used) /\ IsFiniteSet(used')
      /\ Cardinality(used) \in Nat
      /\ Cardinality(used') = Cardinality(used) + 1
  BY <1>1, FS_AddElement, FS_CardinalityType DEF RolloutInv, KeysCounted
<1>6. KeysCounted'
  BY <1>1, <1>3, <1>5 DEF RolloutInv, KeysCounted
<1>7. PolledCached'
  <2> SUFFICES ASSUME regular', Spaced(Latest)', NEW k \in DOMAIN new.keys,
                      new.keys[k].timestamp < polled
               PROVE  k \in cached
    BY DEF PolledCached
  <2>1. Cardinality(used) = Size(old)
    BY <1>1, <1>3, <1>5 DEF Spaced
  <2>2. Apart(old)
    <3>1. Apart(new)
      BY DEF Spaced, Apart, Size
    <3> QED
      BY <1>1, <1>2, <3>1, ApartPrefix
  <2>3. CASE k \in DOMAIN old.keys
    BY <1>1, <2>1, <2>2, <2>3 DEF RolloutInv, PolledCached, Spaced
  <2>4. CASE k = kid
    <3>1. polled' \in Nat /\ polled' <= now'
      BY Zenon DEF RolloutTypeOK
    <3>2. new.keys[k].timestamp = now'
      BY <1>1, <2>4
    <3>3. new.keys[k].timestamp \in Nat
      BY <1>1, <1>3, <2>4
    <3>4. new.keys[k].timestamp < polled'
      OBVIOUS
    <3> QED
      BY <3>1, <3>2, <3>3, <3>4
  <2> QED
    BY <1>1, <2>3, <2>4
<1> QED
  BY <1>4, <1>6, <1>7

LEMMA UnaskedType ==
  ASSUME RolloutInv, StoreInv', Unasked
  PROVE  RolloutTypeOK'
<1>1. used \subseteq used'
  BY DEF Unasked, Writes, Service, Refresh, SetKeyRotationPolicy, Tick, Commit,
         Replicate, NewPrimary
<1>2. cached' \subseteq {kid \in Kid : kid[1] \in used'}
  BY <1>1 DEF Unasked, RolloutInv, RolloutTypeOK
<1>3. regular' \in BOOLEAN
  BY DEF Unasked
<1>4. now \in Nat /\ now' \in Nat /\ polled \in Nat /\ polled' = polled
  BY DEF Unasked, RolloutInv, RolloutTypeOK, StoreInv, TypeOK
<1>5. ASSUME regular'
      PROVE  polled' <= now' /\ now' <= polled' + PollGap
  <2>1. regular /\ now' >= now /\ now' <= polled + PollGap
    BY <1>5, Zenon DEF Unasked
  <2>2. polled <= now
    BY <2>1, Zenon DEF RolloutInv, RolloutTypeOK
  <2>3. polled' <= now'
    BY <1>4, <2>1, <2>2
  <2> QED
    BY <1>4, <2>1, <2>3
<1> QED
  BY <1>2, <1>3, <1>4, <1>5 DEF RolloutTypeOK, StoreInv

LEMMA UnaskedStep ==
  ASSUME RolloutInv, StoreInv', Unasked
  PROVE  RolloutInv'
<1>1. RolloutTypeOK'
  BY UnaskedType
<1>2. /\ UNCHANGED <<cached, polled>>
      /\ regular' => regular /\ now' >= now
      /\ StoreInv
  BY DEF Unasked, RolloutInv
<1>3. ASSUME NEW pair \in KeyPairs, NEW delay \in 0 .. MaxDelay,
             Refresh(pair, delay)
      PROVE  TimestampsPast' /\ KeysCounted' /\ PolledCached'
  BY <1>1, <1>2, <1>3, RefreshRollout, ConstantsAssumption
<1>4. ASSUME NEW policy \in Policies, SetKeyRotationPolicy(policy)
      PROVE  TimestampsPast' /\ KeysCounted' /\ PolledCached'
  <2> DEFINE kv == [ids |-> Latest.ids, keys |-> Latest.keys,
                    rotation |-> policy, claims |-> NoClaims]
  <2>1. Write(kv) /\ UNCHANGED used
    BY <1>4 DEF SetKeyRotationPolicy
  <2>2. kv.keys = Latest.keys
    OBVIOUS
  <2> HIDE DEF kv
  <2>3. Latest' = kv
    <3>1. Len(ledger') = Len(ledger) + 1 /\ ledger'[Len(ledger) + 1] = kv
      BY <1>2, <2>1, WriteStep DEF StoreInv, TypeOK
    <3> QED
      BY <3>1 DEF Latest
  <2> QED
    BY <1>2, <2>1, <2>2, <2>3, NoNewKey
<1>5. ASSUME Tick \/ Commit \/ \E n \in Nodes : Replicate(n)
      PROVE  TimestampsPast' /\ KeysCounted' /\ PolledCached'
  <2>1. ledger' = ledger /\ used' = used
    BY <1>5 DEF Tick, Commit, GloballyCommit, Replicate
  <2>2. Latest' = Latest
    BY <2>1 DEF Latest
  <2>3. \A kid \in DOMAIN Latest'.keys :
          kid \in DOMAIN Latest.keys /\ Latest'.keys[kid] = Latest.keys[kid]
    BY <2>2
  <2> QED
    BY <1>2, <2>1, <2>3, NoNewKey
<1>6. ASSUME NEW v \in 1 .. MaxLedger, NEW skew \in 0 .. MaxSkew,
             NewPrimary(v, skew)
      PROVE  TimestampsPast' /\ KeysCounted' /\ PolledCached'
  <2>1. /\ v \in commit .. Len(ledger)
        /\ Len(ledger') = v
        /\ \A i \in 1 .. v : ledger'[i] = ledger[i]
        /\ used' = used
    BY <1>2, <1>6, RollbackStep DEF NewPrimary, StoreInv, TypeOK
  <2>2. v \in 1 .. Len(ledger) /\ Len(ledger) \in 1 .. Len(ledger)
        /\ v <= Len(ledger) /\ v \in 1 .. v
    BY <1>2, <2>1 DEF StoreInv, TypeOK, LedgerTypeOK
  <2>3. Latest' = ledger[v]
    BY <2>1, <2>2 DEF Latest
  <2>4. \A kid \in DOMAIN ledger[v].keys :
          kid \in DOMAIN Latest.keys /\ ledger[v].keys[kid] = Latest.keys[kid]
    BY <1>2, <2>2 DEF StoreInv, AppendOnly, Latest
  <2> QED
    BY <1>2, <2>1, <2>3, <2>4, NoNewKey
<1>7. TimestampsPast' /\ KeysCounted' /\ PolledCached'
  <2>1. CASE Writes
    BY <1>3, <1>4, <2>1 DEF Writes
  <2>2. CASE Service
    BY <1>5, <1>6, <2>2 DEF Service
  <2> QED
    BY <2>1, <2>2 DEF Unasked
<1> QED
  BY <1>1, <1>7 DEF RolloutInv

-----------------------------------------------------------------------------
(***************************************************************************)
(* The polls of the client.                                                 *)
(***************************************************************************)

\* After a poll the client has every key that is older than the poll: those
\* older than the poll before it had already, and of the others only the
\* newest can be as old as that, for two are more than PollGap apart.
LEMMA PollCatchesUp ==
  ASSUME RolloutInv, regular, Spaced(Latest), NEW kid \in DOMAIN Latest.keys,
         Latest.keys[kid].timestamp < now
  PROVE  kid \in cached \cup {LatestItem(Latest)}
<1> DEFINE size == Size(Latest)
           id == kid[2]
<1>1. KvTypeOK(Latest) /\ KvConsistent(Latest)
  BY LatestFacts DEF RolloutInv
<1>2. /\ size \in Nat /\ id \in 1 .. size
      /\ DOMAIN Latest.ids = 1 .. size
      /\ Latest.ids[id] = kid
      /\ Latest.keys[kid].timestamp \in Nat
  BY <1>1, ConsistentFacts
<1>3. now \in Nat /\ polled \in Nat /\ now <= polled + PollGap
  BY DEF RolloutInv, RolloutTypeOK, StoreInv, TypeOK
<1>4. CASE id = size
  BY <1>2, <1>4 DEF LatestItem
<1>5. CASE id # size
  <2> DEFINE next == Latest.ids[id + 1]
  <2>1. id \in 1 .. size - 1 /\ id + 1 \in 1 .. size
    BY <1>2, <1>5
  <2>2. /\ next \in DOMAIN Latest.keys
        /\ Latest.keys[next].timestamp \in Nat
        /\ Latest.keys[next].timestamp <= now
    BY <1>1, <2>1, ConsistentFacts DEF RolloutInv, TimestampsPast
  <2>3. Latest.keys[next].timestamp > Latest.keys[kid].timestamp + PollGap
    BY <1>2, <2>1 DEF Spaced, Apart
  <2> HIDE DEF next
  <2>4. Latest.keys[kid].timestamp < polled
    <3>1. PollGap \in Nat
      BY RolloutAssumption
    <3> QED
      BY <1>2, <1>3, <2>2, <2>3, <3>1
  <2> QED
    BY <2>4 DEF RolloutInv, PolledCached
<1> QED
  BY <1>4, <1>5


\* What a poll leaves as it was, and what it gives the client.
LEMMA PollFacts ==
  ASSUME RolloutInv, NEW n \in Nodes, Poll(n) \/ PollInVain(n)
  PROVE  /\ UNCHANGED <<ledger, now, used, regular, Latest>>
         /\ cached \subseteq cached'
         /\ cached' \subseteq {kid \in Kid : kid[1] \in used}
         /\ \/ polled' = polled
            \/ /\ polled' = now
               /\ \A kid \in DOMAIN Latest.keys :
                    kid = LatestItem(Latest) => kid \in cached'
<1> DEFINE newest == LatestItem(NodeKv(n))
<1>1. UNCHANGED <<ledger, now, used, regular>>
  BY DEF Poll, PollInVain, UnwrapKeyGcp, Polled, vars
<1>2. Latest' = Latest
  BY <1>1 DEF Latest
<1>3. cached \subseteq {kid \in Kid : kid[1] \in used}
  BY DEF RolloutInv, RolloutTypeOK
<1>4. CASE Poll(n)
  <2>1. cached' = cached \cup {newest} /\ newest \in DOMAIN NodeKv(n).keys
    BY <1>4 DEF Poll, PrivateKid, UnwrapKeyGcp
  <2>2. newest \in Kid /\ newest[1] \in used
    BY <2>1, NodeFacts DEF RolloutInv, KvTypeOK
  <2>3. \/ polled' = polled
        \/ polled' = now /\ applied[n] = Len(ledger)
    BY <1>4 DEF Poll, Polled
  <2>4. applied[n] = Len(ledger) => newest = LatestItem(Latest)
    BY LatestFacts DEF RolloutInv, NodeKv
  <2> HIDE DEF newest
  <2> QED
    BY <1>1, <1>2, <1>3, <2>1, <2>2, <2>3, <2>4
<1>5. CASE PollInVain(n)
  <2>1. cached' = cached /\ newest = NoKey
    BY <1>5 DEF PollInVain
  <2>2. \/ polled' = polled
        \/ polled' = now /\ applied[n] = Len(ledger)
    BY <1>5 DEF PollInVain, Polled
  <2>3. ASSUME applied[n] = Len(ledger), NEW kid \in DOMAIN Latest.keys
        PROVE  kid # LatestItem(Latest)
    <3>1. LatestItem(Latest) = NoKey
      BY <2>1, <2>3, LatestFacts DEF RolloutInv, NodeKv
    <3>2. kid \in KeyPairs \X Nat
      BY LatestFacts DEF RolloutInv, KvTypeOK, Kid
    <3> QED
      BY <3>1, <3>2, ConstantsAssumption
  <2> QED
    BY <1>1, <1>2, <1>3, <2>1, <2>2, <2>3
<1> QED
  BY <1>4, <1>5

LEMMA PollStep ==
  ASSUME RolloutInv, StoreInv', NEW n \in Nodes, Poll(n) \/ PollInVain(n)
  PROVE  RolloutInv'
<1>1. /\ UNCHANGED <<ledger, now, used, regular, Latest>>
      /\ cached \subseteq cached'
      /\ cached' \subseteq {kid \in Kid : kid[1] \in used}
      /\ \/ polled' = polled
         \/ /\ polled' = now
            /\ \A kid \in DOMAIN Latest.keys :
                 kid = LatestItem(Latest) => kid \in cached'
  BY PollFacts
<1>2. /\ now \in Nat /\ polled \in Nat /\ regular \in BOOLEAN
      /\ regular => polled <= now /\ now <= polled + PollGap
  BY DEF RolloutInv, RolloutTypeOK, StoreInv, TypeOK
<1>3. RolloutTypeOK'
  <2>1. polled' \in Nat /\ regular' \in BOOLEAN
    BY <1>1, <1>2
  <2>2. cached' \subseteq {kid \in Kid : kid[1] \in used'}
    BY <1>1
  <2>3. ASSUME regular' PROVE polled' <= now' /\ now' <= polled' + PollGap
    <3>1. polled <= now /\ now <= polled + PollGap
      BY <1>1, <1>2, <2>3
    <3> QED
      BY <1>1, <1>2, <3>1, RolloutAssumption
  <2> QED
    BY <2>1, <2>2, <2>3 DEF RolloutTypeOK, StoreInv
<1>4. TimestampsPast'
  BY <1>1 DEF RolloutInv, TimestampsPast
<1>5. KeysCounted'
  BY <1>1 DEF RolloutInv, KeysCounted, Size
<1>6. PolledCached'
  <2> SUFFICES ASSUME regular', Spaced(Latest)', NEW kid \in DOMAIN Latest'.keys,
                      Latest'.keys[kid].timestamp < polled'
               PROVE  kid \in cached'
    BY DEF PolledCached
  <2>1. regular /\ Spaced(Latest) /\ kid \in DOMAIN Latest.keys
    BY <1>1 DEF Spaced, Apart, Size
  <2>2. CASE polled' = polled
    BY <1>1, <2>1, <2>2 DEF RolloutInv, PolledCached
  <2>3. CASE /\ polled' = now
             /\ kid = LatestItem(Latest) => kid \in cached'
    <3>1. Latest.keys[kid].timestamp < now
      BY <1>1, <2>3
    <3>2. kid \in cached \cup {LatestItem(Latest)}
      BY <2>1, <3>1, PollCatchesUp
    <3> QED
      BY <1>1, <2>3, <3>2
  <2> QED
    BY <1>1, <2>1, <2>2, <2>3
<1> QED
  BY <1>3, <1>4, <1>5, <1>6 DEF RolloutInv

-----------------------------------------------------------------------------
(***************************************************************************)
(* RolloutInv holds throughout.                                             *)
(***************************************************************************)

LEMMA RolloutStarts == RolloutInit => RolloutInv
<1> SUFFICES ASSUME RolloutInit PROVE RolloutInv
  OBVIOUS
<1>1. StoreInv
  BY StoreInit DEF RolloutInit
<1>2. /\ now = 0 /\ polled = 0 /\ regular = TRUE
      /\ cached = {} /\ used = {}
      /\ Latest = EmptyMaps
  BY DEF RolloutInit, Init, Latest
<1>3. RolloutTypeOK
  BY <1>1, <1>2, RolloutAssumption DEF RolloutTypeOK, StoreInv
<1>4. DOMAIN Latest.keys = {} /\ DOMAIN Latest.ids = {}
  BY <1>2 DEF EmptyMaps
<1>5. TimestampsPast /\ PolledCached
  BY <1>4 DEF TimestampsPast, PolledCached
<1>6. KeysCounted
  BY <1>2, <1>4, FS_EmptySet DEF KeysCounted, Size
<1> QED
  BY <1>1, <1>3, <1>5, <1>6 DEF RolloutInv

LEMMA RolloutStep == RolloutInv /\ [RolloutNext]_rolloutVars => RolloutInv'
<1> SUFFICES ASSUME RolloutInv, [RolloutNext]_rolloutVars PROVE RolloutInv'
  OBVIOUS
<1>1. StoreInv'
  BY ServiceStep, StoreStep DEF RolloutInv
<1>2. ASSUME NEW n \in Nodes, Poll(n) \/ PollInVain(n) PROVE RolloutInv'
  BY <1>1, <1>2, PollStep
<1>3. CASE Unasked
  BY <1>1, <1>3, UnaskedStep
<1>4. CASE UNCHANGED rolloutVars
  BY <1>1, <1>4
  DEF RolloutInv, RolloutTypeOK, StoreInv, TimestampsPast, KeysCounted,
      PolledCached, Spaced, Apart, Size, Latest, rolloutVars
<1> QED
  BY <1>2, <1>3, <1>4 DEF RolloutNext

\* RolloutInv is an invariant: in particular the client has no key that the
\* service did not generate, and TypeOK holds.
THEOREM RolloutTyped == RolloutSpec => []RolloutTypeOK
<1>1. RolloutInv => RolloutTypeOK
  BY DEF RolloutInv
<1> QED
  BY <1>1, RolloutStarts, RolloutStep, PTL DEF RolloutSpec

-----------------------------------------------------------------------------
(***************************************************************************)
(* A client that polls often enough has a key before the public sees it.    *)
(***************************************************************************)

\* What getLatestExposableKey picks is old enough.
LEMMA ExposedIsOld ==
  ASSUME NEW kv, KvTypeOK(kv), KvConsistent(kv), NEW t \in Nat,
         LatestExposableKey(kv, t) # NoKey, ExposureDelay(kv) > 0
  PROVE  /\ LatestExposableKey(kv, t) \in DOMAIN kv.keys
         /\ t - kv.keys[LatestExposableKey(kv, t)].timestamp >= ExposureDelay(kv)
<1> DEFINE ids == ExposableIds(kv, t)
           id == CHOOSE i \in ids : \A other \in ids : other <= i
<1>1. ids # {} /\ LatestExposableKey(kv, t) = kv.ids[id]
  BY DEF LatestExposableKey
<1>2. ids \subseteq 1 .. Size(kv) /\ Size(kv) \in Nat
  BY ConsistentFacts DEF ExposableIds
<1>3. \E i \in ids : \A other \in ids : other <= i
  <2> HIDE DEF ids
  <2> QED
    BY <1>1, <1>2, GreatestExists
<1>4. id \in ids
  BY <1>3
<1>5. /\ kv.ids[id] \in DOMAIN kv.keys
      /\ ~ ExposureDelay(kv) <= 0
  <2>1. ExposureDelay(kv) \in Int
    BY DelayType
  <2> QED
    BY <1>2, <1>4, <2>1, ConsistentFacts
<1>6. t - kv.keys[kv.ids[id]].timestamp >= ExposureDelay(kv)
  BY <1>4, <1>5 DEF ExposableIds
<1> QED
  BY <1>1, <1>5, <1>6

\* Inv => ExposedKeyCached in every state.
LEMMA ExposedCached == RolloutInv => ExposedKeyCached
<1> SUFFICES ASSUME RolloutInv, NEW n \in Nodes, regular, Spaced(Latest),
                    NodeKv(n).rotation # NoPolicy,
                    NodeKv(n).rotation.grace_period_seconds * MsPerSecond > PollGap,
                    LatestExposableKey(NodeKv(n), now) # NoKey
             PROVE  LatestExposableKey(NodeKv(n), now) \in cached
  BY DEF ExposedKeyCached
<1> DEFINE kv == NodeKv(n)
           kid == LatestExposableKey(kv, now)
<1>1. KvTypeOK(kv) /\ KvConsistent(kv)
  BY NodeFacts DEF RolloutInv
<1>2. now \in Nat /\ polled \in Nat /\ now <= polled + PollGap
  BY DEF RolloutInv, RolloutTypeOK, StoreInv, TypeOK
<1>3. ExposureDelay(kv) \in Int /\ ExposureDelay(kv) > PollGap
  BY <1>1, DelayType DEF ExposureDelay
<1>4. /\ kid \in DOMAIN kv.keys
      /\ now - kv.keys[kid].timestamp >= ExposureDelay(kv)
  <2>1. ExposureDelay(kv) > 0
    BY <1>3, RolloutAssumption
  <2> QED
    BY <1>1, <1>2, <2>1, ExposedIsOld
<1>5. /\ kid \in DOMAIN Latest.keys
      /\ Latest.keys[kid] = kv.keys[kid]
      /\ kv.keys[kid].timestamp \in Nat
  BY <1>1, <1>4, NodeFacts, ConsistentFacts DEF RolloutInv
<1> HIDE DEF kid, kv
<1>6. kv.keys[kid].timestamp < polled
  BY <1>2, <1>3, <1>4, <1>5, RolloutAssumption
<1>7. kid \in cached
  BY <1>5, <1>6 DEF RolloutInv, PolledCached
<1> QED
  BY <1>7 DEF kid, kv

\* A client that polls more often than the grace period is long has every key
\* that listpubkeys or pubkey show by their age, whichever node they ask.
THEOREM ExposedKeysCached == RolloutSpec => []ExposedKeyCached
BY ExposedCached, RolloutStarts, RolloutStep, PTL DEF RolloutSpec
=============================================================================
