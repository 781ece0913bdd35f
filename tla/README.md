# A TLA+ model of the key management service

This directory holds TLA+ specifications of the key management service (KMS) in
this repository, configurations that check them with TLC, and proofs checked by
TLAPS. The service is a TypeScript application on
[CCF](https://microsoft.github.io/CCF/): it generates HPKE key pairs, gives the
public keys to anybody and the private keys to attested services, and is
governed by signed proposals. Paths below are relative to the repository.

## 1. The system

### Components, state and operations

| Component | State | Operations | Modelled in |
| --- | --- | --- | --- |
| CCF (external) | key-value store, ledger, commit point, each node's applied prefix, historical queries | execute a handler as a transaction, commit, replicate, change primary, fetch a ledger entry | `CcfLedger`, `KeyLifecycle` |
| Key maps (`src/repositories`) | `hpkeKeyIdMap` (number to kid), `hpkeKeysMap` (kid to key) | `storeItem`, `latestItem`, `size`, `receipt` | `KeyLifecycle` |
| Refresh (`endpoints/refreshEndpoint.ts`, `KeyGeneration.ts`) | writes both key maps | `refresh` | `KeyLifecycle` |
| Public keys (`endpoints/publickeyEndpoint.ts`) | – | `pubkey`, `listpubkeys` | `KeyLifecycle` |
| Private keys (`endpoints/keyEndpoint.ts`) | – | `key`, `unwrapKey`, `unwrapKeyGcp` | `KeyLifecycle` (keys, receipts), `KeyRelease` (who gets them), `KeyRollout` (a client) |
| Rotation policy (`policies/KeyRotationPolicy.ts`, `actions/set_key_rotation_policy.js`) | `keyRotationPolicyMap` | expiry, `isExpired`, `getLatestExposableKey` | `KeyLifecycle` |
| Governance (`endpoints/proposals.ts`, `src/actions`) | `proposalsPolicyMap`, all policy maps | `postProposals`, `getProposals`, five actions | `Proposals`, `KeyReleasePolicy` |
| Release policy (`policies/KeyReleasePolicy.ts`, two actions) | `keyReleasePolicyMap`, `gcpKeyReleasePolicyMap` | add, remove, validate | `KeyReleasePolicy` |
| Attestation (`src/attestation`) | – | `validateAttestation` | its verdict, in `KeyReleasePolicy`; provider and report data, in `KeyRelease` |
| Authentication (`src/authorization`, `actions/set_jwt_validation_policy.js`) | JWT validation policies; CCF's maps of users and members | `isAuthenticated` with its four validators, the actions that change the maps | `Authentication` |
| Requests and settings (`utils/ServiceRequest.ts`, `policies/Settings.ts`) | settings, which only decide on log levels | parse a request | not modelled |
| Wrapping and formats (`KeyWrapper.ts`, `TinkKey.ts`, `proto/gen`) | – | serialisation, cryptography | what an answer is encrypted under, in `KeyRelease` |
| Read endpoints, heartbeat, logging, utilities | – | stateless | not modelled |
| `actions/default_ccf.js` (CCF's constitution) | CCF's governance tables, open proposals | some 40 actions | `Constitution`, `Authentication`; some not, see section 5 |
| Scripts, containers | – | deployment | not modelled |

### How they interact

Handlers share nothing but the maps of `ccf.kv`. A handler runs as one
transaction: all of its writes happen or (for an answer of 400 and above, or an
exception) none. Handlers that write run on the primary; those that read run on
any node, on the prefix of the ledger that node has applied, which may be old and
may still be rolled back. A key's receipt is not in the maps: it is fetched by
CCF from the ledger under a *handle* chosen by the application, asynchronously,
and only for committed entries; until it is there `pubkey` answers 202 and the
client polls. The endpoints for private keys read the maps of three other
components at once: the policy for the caller's token, the release policy for its
attestation, the rotation policy for the key. Governance changes the policies under which keys made earlier are
expired, exposed and released.

### What is hard

- **Loss.** An answer is given before the transaction is committed. A change of
  primary discards the uncommitted end of the ledger, with keys that clients may
  hold and with proposals that were answered 200; new keys take over the ids.
- **Asynchrony.** Requests for receipts outlive the state they were made in, are
  replaced by requests for other keys under the same handle, and expire.
- **Time.** Expiry and exposure are computed from a timestamp, the policy *now*
  and the clock of whichever node answers; clocks go back when the primary moves.
- **Two representations.** The size of one map stands for the newest id; kid, id
  and key lie in two maps.
- **Replay and eviction.** Old proposals are kept off by comparing with the few
  proposals still stored, and these are evicted by creation time.
- **Edits.** Release policies are edited value by value; many legal edits lead to
  a policy, and an edit may fail half way.
- **Lookups.** Who is let in is looked up in maps that several actions write and
  delete, some of it in two maps at once, on a node that may lag.
- **Binding.** The key that an answer is encrypted under comes with the request;
  token, report data and wrapping key of different origin can be combined.
- **Two audiences.** A new key should reach those who decrypt before those who
  encrypt. Neither waits for the other: one polls, the other is held back for a time.
- **Delayed decisions.** A proposal to CCF is checked when it is made and carried
  out when it has been accepted, after others have changed what it was about.

`PROJECT.json` lists these as hazards, at their lines, with the properties that
cover each or the reason that none does.

## 2. The modules

| Module | What it is |
| --- | --- |
| `CcfLedger` | The ledger as a sequence of states of the maps, and the commit point: `Write`, `GloballyCommit`, `Rollback`. The components below except `Constitution` EXTEND it. |
| `KeyLifecycle` | Keys, rotation policy, clock, nodes and receipts. |
| `KeyRegistry` | Abstract specification of the key store: an append-only list of distinct keys with a durable prefix, from which keys are published. |
| `Proposals` | `postProposals`: replay check, actions, eviction. |
| `KeyReleasePolicy` | The actions that edit the release policies, and validation. |
| `Authentication` | Who is let in: the validators, and the governance of what they look up. |
| `KeyRelease` | Composition: the endpoints for private keys over the policies of the other modules, with lagging nodes. |
| `KeyRollout` | Composition: `KeyLifecycle` and a private-key client that polls and caches. |
| `Constitution` | The constitution's actions on recovery, nodes, code, issuers and application, and their proposals. |
| `CalcVersion` | `calcVersion` as arithmetic, and what it comes to. |
| `MC*` | Instances for TLC. |
| `CcfLedgerProofs` | Lemmas about the ledger's steps, and induction over numbers, for the modules below. |
| `KeyLifecycleProofs`, `KeyRolloutProofs`, `ProposalsProofs`, `AuthenticationProofs`, `KeyReleasePolicyProofs`, `KeyReleaseProofs`, `ConstitutionProofs` | Theorems about the module of that name. `KeyRolloutProofs` EXTENDS `KeyLifecycleProofs`; `KeyReleaseProofs` takes `KeyReleasePolicyProofs` by INSTANCE. |

### Correspondence with the code

**Ledger.** An entry of `ledger` is the state of the component's maps after a
transaction, so "read the maps" is `Latest` on the primary and `NodeKv(n)` on
node *n*. A request that a handler refuses leaves no entry and is a stuttering
step; this is how checks of the caller and of arguments appear. Clients therefore
need no variable: any request may come at any time, more than once.

**KeyLifecycle.** `Refresh(pair, delay)` is the whole of `refresh`: the id from
the map's size, the kid `<<pair, id>>`, the OHTTP identifier, the expiry from a
first reading of the clock and the timestamp from a second one `delay` later,
both maps and the claims digest. A key pair is drawn fresh (`used`).
`SetKeyRotationPolicy` is the governance action. `Pubkey`, `Key`, `UnwrapKey`
and `UnwrapKeyGcp` are the reading handlers: they differ in the kids they accept
and in the checks before the receipt, and change only the node's historical
queries (`AskReceipt`) and, for `pubkey`, the set of kids handed out with a
receipt (`published`, a history variable). `listpubkeys` changes nothing: its
choice is `PublicKid`. `Commit`, `Replicate`, `NewPrimary`, `HistoricalFetch`,
`HistoricalExpire` and `Tick` are CCF and the clock, taken from how the code uses
them. Receipts are represented by the claims digest of their entry, which is the
key pair. `CalcVersion` computes the handle of a kid; `MCKeyLifecycle` uses it to
show that the handles of its instances are those of actual kids.

**KeyRelease.** An entry holds the maps of keys and the three policies; what the
handlers compute from them is taken from `KeyLifecycle`, `KeyReleasePolicy` and
`Authentication` by INSTANCE. `UnwrapKeyStatus`, `UnwrapKeyGcpStatus` and
`KeyStatus` are the checks of the endpoints in their order, with the statuses of
their early returns. A request is any combination of a token, an attestation, a
provider, a wrapping key (two forms of PEM, something else, or none) and a kid.
`answer` is the last answer 200: which key, and who can decrypt it. For `key` that
is nobody: it has no wrapping key, and `KeyWrapper` puts an empty string or zeros in
place of the key. Receipts are left out.

**KeyRollout.** It EXTENDS `KeyLifecycle` by a client: `Poll` is an answer of
`unwrapKeyGcp`, `PollInVain` its 400 while there is no key, and `Unasked` any other
step of the service. `regular` records that the client, when asking a node that is
up to date, was never later than `PollGap`, and the clock never went back.

**Constitution.** `kv` holds CCF's governance tables. An action's `validate` is
`Valid` (and `WellFormed`, the checks of form), its `apply` an operator from the
tables to the tables or to `Failed`; an exception changes nothing, which for
`transition_node_to_trusted` and the actions on all nodes undoes what they had
written. `Propose`, `Accept` and `Fail` are a proposal's life: the terms on which it
was made are a history variable of it. A proposal has one action: CCF's may have several,
applied in order, all or none. `shares` are the members given a share at the last
issue, and `holders` those with a share of the present ledger key, of whatever issue:
a refresh of shares (`SharesRefreshed`) splits the same key again and adds holders, a
rekey (`Rekeyed`) takes a new key and leaves no others. Actions that do
the same to different tables are one operator. `Activate`, `Recover`,
`SubmitShares` and `Join` are CCF's and its operators'. A behaviour keeps to one
agenda, a set of actions on one topic, since topics share no tables.

**Proposals.** A proposal is its creation time and its actions. Actions that
replace a policy are `set`, those that edit a list are `add` and `remove`, and
`unknown` and `invalid` stand for actions that do not exist or throw.
`PerformAll` is the loop, which fails as a whole. `Evictions` gives the sets
the handler may delete: it looks proposals up by creation time in a map with one
proposal for each time, so of several with one time an arbitrary one goes.

**KeyReleasePolicy.** `Apply` is the body of both actions, `AddClaims`,
`RemoveClaims`, `AddOperator` and `RemoveOperator` their local functions, with
their ways to throw, among them the one in which a list becomes empty before all
values to remove have been dealt with. `Status` is `validateAttestation` after
CCF has verified the report.

**Authentication.** An entry holds the JWT validation policies, the identities in
the certificate maps of users and members and the members' status; `action`, a
history variable, is what governance did last. `set_jwt_validation_policy` refuses a
policy by its shape (`ValidPolicy`); `null` passes, being an object in
JavaScript. The four validators are operators from the maps and a caller to a
status, and `IsAuthenticated` the dispatch between them, with the exceptions it
turns into 400. What CCF checks before (tokens, certificates, signatures) is not
modelled: a caller is what CCF passes on. Activation of a member is CCF's.

Definitions commented "Mutant" are plausible slips in the definition after them.
No specification uses one; each is there to show that a property notices it.

## 3. What the runs check

### Runs that pass

| Run | Specification | Bounds | Properties |
| --- | --- | --- | --- |
| `key_safety` | `Spec` | 3 keys, 2 nodes, 1 handle for all keys, 1 policy, 4 ledger entries, clock 0..1 that may go back by 1 | `TypeOK`, `StoreConsistent`, `PublishedDurable`, `ReceiptMatchesKey`, `StoreInv`, `ImplementsRegistry` |
| `key_exposure` | `StoreSpec` | 3 keys, 2 nodes, 2 policies, 5 entries, clock 0..3 that may go back by 1, 1 ms to the second, 2 OHTTP identifiers | `UsableKeysToldApart`, `PublicKeyNeverRegresses` |
| `key_liveness` | `PolledSpec` | 2 keys with a handle each, 1 node, 4 entries | `PubkeyAnswered` |
| `proposals_order` | `Spec` | 4 creation times, 6 scripts, 2 proposals kept, 5 entries | `TypeOK`, `AcceptedInOrder`, `NewestSignedWins`, `RecentProposalsKept` |
| `policy_edits` | `Spec` | 2 known claims and an unknown one, 2 values, 12 edits, 5 entries | `TypeOK`, `LastEditWins`, `StatusAsConfigured`, `EditsAdmitWhatTheyName` |
| `auth_policies` | `Spec` | 2 issuers, 2 claims, 6 policies, 5 tokens, 1 identity for users and members, 5 entries | `TypeOK`, `TokensByLastPolicy`, `HoldersByLastAction` |
| `key_release` | `ReplicatedSpec` | 2 keys (1 at the start), 1 node, 2 owners of wrapping keys, 4 attestations, 5 tokens, 3 edits, 2 JWT policies, 1 rotation policy, 3 entries, clock 0..1 | `TypeOK`, `ReleasedToBound`, `RevocationTakesEffect`, `DistrustTakesEffect`, `EntitledServed` |
| `key_rollout` | `RolloutSpec` | 2 keys, 1 node, 2 policies, 4 entries, clock 0..5 that may go back by 1, 2 ms to the second, up to 1 ms between the two readings, `PollGap` 1 ms, `RefreshGap` 2 ms | `RolloutTypeOK`, `ExposedKeyCached`, `PublicKeyUsable`, `AdvertisedExpiryHonoured` |
| `constitution` | `Spec` | 6 agendas of up to 21 actions, 3 members, 2 nodes, 2 open proposals | `TypeOK`, `EnoughRecoveryMembers`, `NoShareForFormerMembers`, `TrustedNodesEndorsed`, `RetiredForGood`, `DecidedOnKnownTerms`, `SigningKeysOfIssuers`, `AppConsistent` |

*Why the bounds are enough.* Four entries after which the primary may change give
a key that is lost and another one with its id, twice; with a policy entry in
between, keys made before and after it. The single handle makes every pair of
keys collide. Two nodes are enough for one that lags, since nodes interact only
through the ledger. In `key_exposure` the clock passes creation, exposure and
expiry of each of three keys, two identifiers make the numbering wrap, and five
entries are enough for three keys, a policy and another one, of which the two nodes
have applied any numbers. Four
times and two kept proposals make evictions happen before and after ties. In
`policy_edits` four edits suffice to add two values, remove one and restore it,
or to empty a policy and fill it again; claims do not interact except in the
three tests of the whole policy. The policies of `auth_policies` cover one value,
a list, a boolean inside and outside of a list, two claims, none, and null; four
actions suffice to set a member, activate, remove and set again, and identities
do not interact. In `key_release` one node is enough, since a request is answered
by one; with three entries a policy is changed and changed back, or a key added and
a policy changed, on a primary that may fail while the node lags. The attestations
are a good one, one of a version that has to be admitted first, a forged one and
one bound to an escaped key, and each owner has a wrapping key in either form, so
that every check of the endpoints decides alone on some request; one edit sets a
bound for both operators. In `key_rollout`
the clock passes both grace periods with time to spare, and of the two policies one
holds keys back for longer than the client's interval and one does not; both cover
the refresh gap, and two milliseconds to the second tell the units apart, with
another between the readings.
In `constitution` two open proposals suffice for one to be overtaken by
another, which can then be followed by any further one; each agenda has every
action of its topic with arguments for success and failure. `key_exposure` uses
`StoreSpec`, without the handlers that read: they change only `historical` and
`published`, which its properties do not mention.

*What they say.*

- `StoreConsistent`: ids are 1, 2, … without gaps, name distinct keys, and both
  maps hold the same kids, in every state of the ledger.
- `PublishedDurable`: a key answered 200 by `pubkey` is never lost or altered.
- `ReceiptMatchesKey`: a receipt delivered with a key is that of the transaction
  that stored it, whatever was replaced, rolled back or asked for in between.
- `StoreInv`: the inductive invariant (section 4), checked as an invariant.
- `ImplementsRegistry`: the detailed system refines `KeyRegistry`, with
  `keys` the key pairs in the order of their ids in the latest state, `durable`
  the number of them in the committed state.
- `PublicKeyUsable`: if refreshes come often enough for the policy, the key given
  to public-key clients is still released by `unwrapKey` on the same node.
- `AdvertisedExpiryHonoured`: until the expiry stored with a key no node treats the
  key as expired, whatever it has applied of the ledger and whatever the policy there
  is, as long as its interval is no shorter than the one the key was made under. A
  shorter interval does bring expiry forward.
- `UsableKeysToldApart`: the OHTTP identifiers of unexpired keys differ as long as
  there are no more of them than identifiers.
- `PublicKeyNeverRegresses`: after one node has exposed a key, clients that ask this
  or any other node are shown the same key or a newer one. Excepted are nodes that have
  applied less of the ledger than the first had, a longer exposure delay there, and a
  clock that went back: `pubkey` and `listpubkeys` are readonly, any node answers them,
  and nothing keeps those from showing an older key.
- `PubkeyAnswered`: who keeps asking is answered 200, or the key was lost.
- `AcceptedInOrder`, `NewestSignedWins`: proposals take effect in the order of
  their signatures, all or nothing, and the newest signed decides on a policy.
- `RecentProposalsKept`: the audit trail holds the recent accepted proposals. That it
  holds no more is not said: with equal creation times it does.
- `LastEditWins`, `StatusAsConfigured`, `EditsAdmitWhatTheyName`: the policy is
  what the last edits say, validation accepts what the policy says, and an edit
  opens the policy for nothing that it does not name.
- `TokensByLastPolicy`: on whatever state of the ledger, a token is let in exactly
  if the last accepted policy of its issuer asks for it, and with no or a null
  policy nobody is.
- `HoldersByLastAction`: users and members are let in as the last action about
  them says, members only while activated; certificates and status never disagree.
- `ReleasedToBound`: whatever is combined in a request, a private key can be
  decrypted only by the owner of the wrapping key that an attestation or token
  vouches for, and it is one that the policies on the answering node grant; of a
  release policy with both operators only `gt` counts (`InForce`).
- `RevocationTakesEffect`: once release policies keep refusing a workload, there comes a
  time after which no node answers a request that presents its attestation as Azure's.
  The same attestation presented as gcp's goes on being answered (see below).
- `DistrustTakesEffect`: once token policies keep refusing a caller, there comes a time
  after which no node answers that caller anything, with whatever attestation,
  provider, wrapping key and endpoint.
- `EntitledServed`: who is entitled for good is served by every node in the end.
- `ExposedKeyCached`: where the grace period is longer than the interval at which
  a client polls, and keys are further apart than that, a key that public-key
  clients are shown by its age is one the client has; on any node, across changes of
  policy. The fallback for a store with young keys only is outside of this.
- `EnoughRecoveryMembers`: no order of accepted proposals makes an open service
  unrecoverable, except `set_member` on an active recovery member, which checks nothing
  (`SetAgainUnchecked`).
- `NoShareForFormerMembers`: who stops being an active recovery member in any other
  way holds no share of the ledger's present key any more. A member that was set again
  keeps its share, even if it is then removed (see below).
- `TrustedNodesEndorsed`, `RetiredForGood`: certificates go to nodes that are or
  were trusted and never exceed the allowed validity; a retired node stays so.
- `DecidedOnKnownTerms`: proposals that are carried out were made under the same
  constitution, with no code able to join that was not when they were made.
- `SigningKeysOfIssuers`, `AppConsistent`: removed issuers leave no signing keys;
  endpoints, modules and bytecode belong to one application.

*Fairness.* `PolledSpec` assumes what CCF does by itself (commit what was
executed, replicate it, fetch what was asked for) and one client for each kid
that keeps polling, as `test/system-test/test_pubkey.py` does. Under polling a
historical request does not reach its 1800 seconds, so `HistoricalExpire` is left
out. Nothing is assumed of refreshes, policies or primaries. `ReplicatedSpec`
assumes that CCF brings every node up to date (`Replicate`), and nothing of requests
or governance: `RevocationTakesEffect`, `DistrustTakesEffect` and `EntitledServed` speak
of what a node would answer.

### Runs that show a disagreement

| Run | What the text says | What the code does |
| --- | --- | --- |
| `key_collision` | tests poll `pubkey` until it is not 202 | two keys with the same handle keep cancelling each other's request. The handle is the 8th character of the kid alone (64 values), `KeyStore.ts:36-47` |
| `proposals_replay` | `proposals.ts:25-26`, "more recently" | an equal creation time is accepted, so the last proposal can be posted again |
| `policy_operators` | `KeyReleasePolicy.ts:224`, "Check operators gte and gt" | `gt` overrides `gte` |

`key_collision` is the same property and specification as `key_liveness`, with
one handle in place of two.

More are plain in the code and have no run. The first two limit a property that
passes, and are theorems:

- `docs/gcp_attestation_changes.md:168` says that GCP claims are validated against
  `gcpKeyReleasePolicyMap`, which `GcpAttestationValidation.ts:117` deliberately
  does not (`GcpStatus`). Since the requester chooses `attestationType`
  (`keyEndpoint.ts:313`), whatever `unwrapKey` answers as azure it answers as gcp too,
  also after the release policy has been changed to refuse it
  (`GcpSkipsReleasePolicy`). `RevocationTakesEffect` therefore speaks of one provider.
- `default_ccf.js:468-470` says that a retired recovery member should not have access
  to the private ledger going forward. A member that `set_member` sets again (line
  394) is "Accepted" and not active when it is removed, so that there is no rekey
  (line 466) and it keeps its share of the present key (`SetAgainKeepsShare`), which
  `NoShareForFormerMembers` excepts.
- `keyEndpoint.ts:413` says of a key without receipt "otherwise return accepted";
  `|| ""` in line 411 makes it 200 with an empty receipt (`UnwrapKeyStatus`).
- `set_key_rotation_policy.js:27` says that expired keys may be used for the grace
  period; `isExpired` answers 410 at the end of the interval (`IsExpired`).
- `proposals.ts:28-29` speaks of the last `proposalsToKeep` proposals; with equal
  creation times more are kept (`ExcessTimes`).
- `set_jwt_validation_policy.js:35` refuses the repository's own
  `governance/jwt/set_jwt_gcp_validation_policy_proposal.json`, whose `secboot` is a
  boolean outside of a list (`ValidPolicy`).

The properties that pass are stated next to these: `StatusAsConfigured` leaves out
policies with both operators, the properties of `KeyRelease` take of such a policy
what the code enforces, and `PublicKeyUsable` demands no grace after expiry.

## 4. What is proved

For all values of the constants that satisfy the named assumptions
(`LedgerAssumption`, `ConstantsAssumption`, `RolloutAssumption`,
`ProposalsAssumption`, `AuthenticationAssumption`, `PolicyAssumption`,
`ConstitutionAssumption`, and in `KeyRelease` `ReleaseAssumption`,
`PartsAssumption`, which is those of the modules it is made of, and
`SetUpAssumption`: the service starts with well-formed maps, `KvOK`; `Constitution`
has one of the same name):

| Theorem | Statement |
| --- | --- |
| `KeyLifecycleProofs!TypeCorrect` | `Spec => []TypeOK` |
| `KeyLifecycleProofs!StoreCorrect` | `Spec => []StoreInv` |
| `KeyLifecycleProofs!MapsConsistent` | `Spec => []StoreConsistent` |
| `KeyLifecycleProofs!PublishedKeysDurable` | `Spec => []PublishedDurable` |
| `KeyLifecycleProofs!ReceiptsMatchKeys` | `Spec => []ReceiptMatchesKey` |
| `KeyLifecycleProofs!ExpiriesHonoured` | `Spec => []AdvertisedExpiryHonoured` |
| `KeyLifecycleProofs!StoreImplementsRegistry` | `Spec => ImplementsRegistry`, that is, `Registry!Spec` |
| `KeyLifecycleProofs!RegistryPromisesKept` | `Spec => [](Registry!TypeOK /\ Registry!PublishedKept /\ Registry!NoKeyTwice)` |
| `KeyLifecycleProofs!PublicKeyMonotone` | `Spec => PublicKeyNeverRegresses` |
| `KeyLifecycleProofs!PublicKeysUsable` | `Spec => []PublicKeyUsable` |
| `KeyLifecycleProofs!KeysToldApart` | `Spec => []UsableKeysToldApart` |
| `KeyRolloutProofs!RolloutTyped` | `RolloutSpec => []RolloutTypeOK` |
| `KeyRolloutProofs!ExposedKeysCached` | `RolloutSpec => []ExposedKeyCached` |
| `ProposalsProofs!ProposalsInOrder` | `Spec => []AcceptedInOrder` |
| `ProposalsProofs!ProposalsTypeCorrect` | `Spec => []TypeOK` |
| `ProposalsProofs!NewestSignedDecides` | `Spec => []NewestSignedWins` |
| `ProposalsProofs!AuditTrailKept` | `Spec => []RecentProposalsKept` |
| `AuthenticationProofs!MapsTyped` | `Spec => []TypeOK` |
| `AuthenticationProofs!TokensJudgedByLastPolicy` | `Spec => []TokensByLastPolicy` |
| `AuthenticationProofs!HoldersJudgedByLastAction` | `Spec => []HoldersByLastAction` |
| `KeyReleasePolicyProofs!PolicyTypeCorrect` | `Spec => []TypeOK` |
| `KeyReleasePolicyProofs!LastEditDecides` | `Spec => []LastEditWins` |
| `KeyReleasePolicyProofs!StatusCorrect` | `Spec => []StatusAsConfigured` |
| `KeyReleasePolicyProofs!EditsOpenNothingElse` | `Spec => EditsAdmitWhatTheyName` |
| `KeyReleaseProofs!ReleaseTypeCorrect` | `Spec => []TypeOK` |
| `KeyReleaseProofs!KeysReleasedToBound` | `Spec => ReleasedToBound` |
| `KeyReleaseProofs!NodeServesEntitled` | on every node always: `AnswersAttested` for azure implies `Entitled`, `AnswersCaller` implies `Trusted`, `Deserves` implies an answer 200, and so does `DeservesByToken` |
| `KeyReleaseProofs!GcpSkipsReleasePolicy` | a request answered 200 for azure is answered 200 for gcp, under any release policy |
| `ConstitutionProofs!ConstitutionTyped` | `Spec => []TypeOK` |
| `ConstitutionProofs!CertificatesEndorsed` | `Spec => []TrustedNodesEndorsed` |
| `ConstitutionProofs!IssuersKeys` | `Spec => []SigningKeysOfIssuers` |
| `ConstitutionProofs!AppComplete` | `Spec => []AppConsistent` |
| `ConstitutionProofs!StillRecoverable` | `Spec => EnoughRecoveryMembers` |
| `ConstitutionProofs!SharesRevoked` | `Spec => NoShareForFormerMembers` |
| `ConstitutionProofs!SetAgainUnchecked` | `SetMember` on an active recovery member takes it from `ActiveRecovery`, with the threshold unchanged |
| `ConstitutionProofs!SetAgainKeepsShare` | such a member, then removed, is not in `members` and still in `holders` |
| `ConstitutionProofs!NodesRetired` | `Spec => RetiredForGood` |
| `ConstitutionProofs!TermsKnown` | `Spec => DecidedOnKnownTerms` |

**Key store.** `PublishedDurable` and `ReceiptMatchesKey` are not inductive: they
need to know that an entry behind the commit point extends the committed one, and
that the version stored with a key leads to the transaction that made it.
`StoreInv` adds this: key pairs in the ledger have been used (`FreshKeys`), the
key map only grows along the ledger (`AppendOnly`), the version of a key is an
entry that holds the key and has its claims (`StoredAtVersion`), fetched receipts
belong to committed entries (`ReceiptsCommitted`) and so do published keys
(`PublishedCommitted`). Only `Refresh` and `NewPrimary` touch the first three:
the former appends an entry, and the conjuncts carry over because the new pair and
the new kid are fresh; the latter truncates, and each conjunct speaks about
entries in a way that is closed under prefixes. Committed entries are never
truncated, which is all the last two need. `CcfLedgerProofs` has the facts about
`Write` and `Rollback` that every component needs.

**Registry.** The refinement maps `keys` to the key pairs of the latest entry in the
order of their ids, `durable` to the number of ids in the committed entry. `refresh`
is `Add`, a commit `Harden` and a change of primary `Lose`, since by `AppendOnly` an
earlier entry holds the first ids of a later one (`EntryPrefix`); an answer of
`pubkey` is `Publish` if it comes with a receipt, since a receipt is that of a
committed entry. All other steps leave the registry alone.

**Exposure.** `PublicKeyNeverRegresses` is a fact about one step from a state in
`StoreInv`, and about two nodes: what a node has applied that has applied as much as
another, before or after the step, holds all the keys of the other (`EntriesKept`,
`KeysKept`), and a key that has been old enough once stays so under a delay that is no
longer, so that the key shown is at least as new (`NewerExposed`). `PublicKeyUsable`
follows from `StoreInv` alone: the newest key that is held back for long enough has a
successor that is not, so it is younger than the refresh gap and the delay together,
which the policy covers. `UsableKeysToldApart` needs `OhttpIdAsMade`, that an
identifier is the kid's number modulo `OhttpIds`: two keys with one identifier are at
least that many ids apart and, where timestamps follow ids, all keys from the older
on are unexpired with it, so there are more of them than identifiers.

**Expiry.** `AdvertisedExpiryHonoured` compares what is stored with what is
recomputed from the timestamp. `ExpiryAsMade` is what is needed in between: in every
entry of the ledger the expiry stored with a key is no later than its timestamp plus
the interval of the policy in the entry that the key's version names. That holds of the
entry a node is at as of any other, and a longer interval there gives a later expiry
(`LongerTimes`).

**Rollout.** `ExposedKeyCached` is not inductive either. `RolloutInv` adds to
`StoreInv` that keys are no younger than the clock says while it does not go back
(`TimestampsPast`), that a store with as many keys as were ever generated has lost
none (`KeysCounted`), and that the client has every key that was there before its
last poll (`PolledCached`). The last one holds because a poll of a node that is up
to date gives the newest key, and keys that are more than `PollGap` apart cannot both
fall between two polls: when the next is stored, the client has asked since the one
before. A key that is shown by its age is more than a grace period old, thus older
than the last poll. The lagging node that shows it knows a prefix of the ledger,
whose keys are those of the primary (`AppendOnly`).

**Proposals.** `AcceptedInOrder` needs that what the handler compares with, the
newest creation time in the table, is the newest one ever accepted along the
ledger: evictions take only times that have newer ones in the table.
`NewestSignedWins` and `RecentProposalsKept` speak of the last entry and are proved for
every entry (`EffectInv`, `TrailInv`), so that a lost primary cannot break them. The
loop over actions is a recursive function: `RunEffect` says what its result holds for a
slot, the value of the last action about it or the old one, by induction over the
number of actions done. Since accepted proposals are in order, the last one that
sets a slot is also the most recently signed.

**Authentication.** `PolicyInv` says of every entry that each issuer's policy is
the one the last action up to this entry set. It speaks of prefixes only, so a
lost primary cannot break it, and an action changes it for one issuer. The verdict
follows by cases on the policy: none, null, or a function over claims. `StandingInv`
says the same of users and members: who is in `users` or has a status is who the last
action on that identity put there, on every entry.

**Release policies.** `WinsInv` states for every entry and both providers what
`LastEditWins` states for the last: a value is listed, or a bound set, exactly if the
last edit up to the entry that names it adds it. It is inductive with well-formedness
(`LedgerOK`), given what one edit does (`ApplyEffect`): it adds or removes what it
names, leaves everything else, and keeps lists free of duplicates. That in turn rests on the loops over the
values of an edit, which are folds: `FoldExists` shows that the recursive function
behind a fold exists, and what it returns is proved by induction over the prefixes of
the list (`AddValuesRun`, `WithoutRun`, `RemoveValuesRun`). Filtering one value out of a
list is a fold, too (`Without`), because the provers cannot expand `SelectSeq`.
`StatusAsConfigured` and `EditsAdmitWhatTheyName` follow from well-formedness and the
cases of `PolicyStatus` (`StatusFacts`).

**Release of keys.** `TypeOK` of `KeyRelease` becomes inductive with `PairsUsed`, that
key pairs in the ledger have been drawn. `refresh` keeps the maps of keys consistent as
in `KeyLifecycle`; edits keep policies well formed by `ApplyEffect`. `ReleasedToBound`
is then a matter of one step: an answer 200 means that every check in front of it
passed (`UnwrapKeyPasses`, `UnwrapKeyGcpPasses`), each check grants its part of
`Justified`, and in consistent maps the key that `unwrapKeyGcp` takes by the map's
size is the newest. `NodeServesEntitled` is the converse, and what is left of
`RevocationTakesEffect`, `DistrustTakesEffect` and `EntitledServed` without time: a node
goes by its own maps.
The instances of `KeyReleasePolicy` and of its proofs are made of
the same definitions, which `SameValues`, `SameEdits` and `SameTypes` say.

**Constitution.** `ConstitutionInv` adds to the state properties two facts about
open proposals: applications that were proposed are complete, though validation took
place earlier (`ProposedComplete`), and neither has the constitution changed nor has
code become able to join since a proposal was made (`TermsKept`), since whatever does
this drops the other proposals. The proof goes through the actions by the tables each
of them touches; the action properties follow from the invariant and one step. For
`NoShareForFormerMembers` it matters that a removal rekeys, since after a refresh the
removed member would still hold a share (`IssuedFacts`).

Where an argument goes by induction over a list or a loop, it is on a set of numbers,
by a least counterexample (`LeastExists`, `UpToInduction` in `CcfLedgerProofs`), since
the provers cannot instantiate an induction theorem that takes an operator.

*Only model-checked:* liveness under fairness (`PubkeyAnswered`,
`RevocationTakesEffect`, `DistrustTakesEffect`, `EntitledServed`), which is out of the
provers' reach: it needs ENABLED; of the last three the part about a single state is proved. `CalcVersion` is evaluated by TLC. Every other property of a passing run is a
theorem.

## 5. Not modelled

- Optimistic concurrency of CCF: a handler is one step, since CCF repeats a
  transaction whose reads another has overwritten. Nothing in the code deals with
  conflicts. Reconfiguration of nodes, voting, and what CCF does with its tables.
- Of the constitution: data attached to users, members and nodes, the options of the
  JavaScript runtime, the flag by which a change of the application flushes reused
  interpreters (`default_ccf.js:772-775`, 807), proposals of several actions, triggers of CCF's housekeeping (ledger chunks, snapshots, ACME)
  and the window for recent COSE proposals: nothing else in it reads them. The form of
  arguments (PEM, hex, URLs) beyond what `WellFormed` names.
- Cryptography and formats: Tink and protobuf output, attestation decoding. A
  verified report is a function from claims to values, a hash is injective, and what
  is encrypted under a wrapping key is told by the key's owner.
- Strings and numbers in claims: values are integers, on which the code's string
  and number comparisons agree.
- Proposals without `ccf.gov.msg.created_at`: the comparison would be one with NaN,
  which is false (`proposals.ts:163-165`), and the replay check off. Creation times are
  numbers in `Proposals`.
- The lag of the node that the private-key client of `KeyRollout` asks: its polls count
  as regular only on nodes that are up to date.
- Stateless endpoints, logging, settings (they decide on log levels only).
- Verification of tokens, certificates and signatures by CCF.
- The removal of a member by the constitution's check on the threshold is in
  `Constitution` only; in `Authentication` removing a member never fails.

## 6. Plan

Modelled first, because everything rests on it, were the ledger and the key maps,
then governance and authentication, then their composition in `KeyRelease` and
`KeyRollout`, and the constitution; then the proofs, from the key store to the
composition. What is left:

1. Theorems about `KeyRegistry` on its own, from which `RegistryPromisesKept` follows
   by the refinement alone.
2. What lagging nodes preserve: a node's maps are an earlier state of the primary's,
   in `KeyRelease` as in `KeyLifecycle`.
3. The hazards in `PROJECT.json` that no property covers, where one can be stated.

## 7. Running

In this directory, `tlc -workers 2 -config KeyLifecycle_safety.cfg
MCKeyLifecycle.tla` runs a check (each takes at most about three minutes), `tlapm
KeyLifecycleProofs.tla` checks proofs. `PROJECT.json` lists the runs, the mutants
with the properties that catch them, the lines of source each definition stands
for, hazards and theorems.
