----------------------------- MODULE KeyRollout -----------------------------
(***************************************************************************)
(* A new key reaches two kinds of clients at different times.  Private-key  *)
(* clients poll unwrapKeyGcp, which gives them the newest key at once, and  *)
(* cache what they get.  Public-key clients are kept from a key until it is *)
(* grace_period_seconds old, "so public key clients only see a key after    *)
(* private key clients have had time to fetch and cache it"                 *)
(* (KeyRotationPolicy.ts).  This module adds such a private-key client to   *)
(* the service of KeyLifecycle and asks how often it has to poll for that.  *)
(***************************************************************************)
EXTENDS KeyLifecycle

CONSTANT PollGap        \* the client is expected to poll this often (ms)

ASSUME RolloutAssumption == PollGap \in Nat

VARIABLES
  cached,               \* kids whose private key the client has
  polled,               \* when a poll last told the client what is newest
  regular               \* no two such polls were more than PollGap apart

client == <<cached, polled, regular>>

rolloutVars == <<ledger, commit, now, used, applied, historical, published,
                 cached, polled, regular>>

RolloutInit ==
  /\ Init
  /\ cached = {}
  /\ polled = 0
  /\ regular = TRUE

-----------------------------------------------------------------------------

\* Mutant: private-key clients are given what public-key clients are shown.
PrivateKidExposable(n) == PublicKid(NodeKv(n), now)

\* The kid that unwrapKeyGcp gives: the newest, however young.
PrivateKid(n) == LatestItem(NodeKv(n))

\* A node that is behind gives an old key; that is not what the client needs.
Polled(n) ==
  /\ polled' = IF applied[n] = Len(ledger) THEN now ELSE polled
  /\ UNCHANGED regular

\* The client asks node n, which has a key.
Poll(n) ==
  /\ UnwrapKeyGcp(n)
  /\ cached' = cached \cup {PrivateKid(n)}
  /\ Polled(n)

\* The client asks node n, which has no key yet: 400.
PollInVain(n) ==
  /\ LatestItem(NodeKv(n)) = NoKey
  /\ Polled(n)
  /\ UNCHANGED <<vars, cached>>

\* Whatever else the service does.  Time may pass in it, and not backwards if
\* the client is to rely on it.
Unasked ==
  /\ Writes \/ Service
  /\ regular' = (regular /\ now' >= now /\ now' <= polled + PollGap)
  /\ UNCHANGED <<cached, polled>>

RolloutNext ==
  \/ \E n \in Nodes : Poll(n)
  \/ \E n \in Nodes : PollInVain(n)
  \/ Unasked

RolloutSpec == RolloutInit /\ [][RolloutNext]_rolloutVars

-----------------------------------------------------------------------------
(***************************************************************************)
(* Properties.                                                              *)
(***************************************************************************)

\* The client has no keys but the service's, and its polls are in the past
\* unless the clock went back.
RolloutTypeOK ==
  /\ TypeOK
  /\ cached \subseteq {kid \in Kid : kid[1] \in used}
  /\ polled \in Nat
  /\ regular \in BOOLEAN
  /\ regular => polled <= now /\ now <= polled + PollGap

\* Each key was the newest for longer than the client waits between polls.
Apart(kv) ==
  \A id \in 1 .. Size(kv) - 1 :
    kv.keys[kv.ids[id + 1]].timestamp > kv.keys[kv.ids[id]].timestamp + PollGap

\* Besides, no key was lost.
Spaced(kv) == Cardinality(used) = Size(kv) /\ Apart(kv)

\* Where a key can be held back for longer than the client's polling interval,
\* a public-key client is shown no key by its age that the polling client has
\* not got: whichever node is asked, however far behind, whatever the policy
\* was before, and if the first key is being rolled out or a later one.
\* (If no key is old enough, listpubkeys and pubkey fall back on the newest
\* key, which the client may not have got.)
ExposedKeyCached ==
  \A n \in Nodes :
    LET kv == NodeKv(n)
        kid == LatestExposableKey(kv, now)
    IN  /\ regular
        /\ Spaced(Latest)
        /\ kv.rotation # NoPolicy
        /\ kv.rotation.grace_period_seconds * MsPerSecond > PollGap
        /\ kid # NoKey
        => kid \in cached

-----------------------------------------------------------------------------
(***************************************************************************)
(* Why they hold: the inductive invariant.                                  *)
(***************************************************************************)

\* No key of the service is younger than the clock says, unless it went back.
TimestampsPast ==
  regular => \A kid \in DOMAIN Latest.keys : Latest.keys[kid].timestamp <= now

\* At least as many keys were generated as there are.
KeysCounted == IsFiniteSet(used) /\ Size(Latest) <= Cardinality(used)

\* The client has every key that was there before its last poll.
PolledCached ==
  regular /\ Spaced(Latest)
    => \A kid \in DOMAIN Latest.keys :
         Latest.keys[kid].timestamp < polled => kid \in cached

RolloutInv ==
  /\ StoreInv
  /\ RolloutTypeOK
  /\ TimestampsPast
  /\ KeysCounted
  /\ PolledCached
=============================================================================
