---------------------------- MODULE Constitution ----------------------------
(***************************************************************************)
(* The actions of the constitution (default_ccf.js) that govern the CCF     *)
(* service under the key management service: its recovery members, nodes,  *)
(* allowed code, token issuers and application.  Each action validates its  *)
(* arguments when it is proposed and is applied when the proposal has been *)
(* accepted, maybe much later and after others; an action that throws then  *)
(* changes nothing, for CCF drops the transaction.  A proposal has one action *)
(* here; in CCF it may have several, applied in a row in one transaction.    *)
(* Voting, recovery and joining are CCF's.                                  *)
(*                                                                         *)
(* Users, the certificates of members and their activation are in           *)
(* Authentication.  Data attached to members, users and nodes, options of   *)
(* the JavaScript runtime and triggers of CCF's own housekeeping, which no  *)
(* other action reads, and the flag that has the interpreters of JavaScript *)
(* flushed, are left out.                                                   *)
(*                                                                         *)
(* Actions on different topics touch different maps, and only proposals     *)
(* bring them together: a behaviour of the model sticks to one agenda.      *)
(*                                                                         *)
(* A definition marked "Mutant" is a plausible slip in one after it.        *)
(***************************************************************************)
EXTENDS Integers, FiniteSets

CONSTANTS
  Members,        \* who is or may become a member
  Nodes,          \* nodes that may join
  Agendas,        \* sets of actions, with arguments, that are proposed together
  Failed,         \* the action threw
  Undefined,      \* an argument left out, or a table without value
  MaxDays,        \* the longest validity of certificates (365 by default)
  MaxOpen,        \* bound on the number of open proposals
  SetUp           \* the maps of the service at the start

\* The tables of CCF that the actions read and write.
Tables == {"constitution", "status", "identity", "reconfiguration", "threshold",
           "members", "shares", "holders", "nodes", "certs", "allowed", "uvm", "bundles",
           "issuers", "signers", "modules", "endpoints", "bytecode"}

\* The actions, by what they are about.
RecoveryActions ==
  {"set_member", "remove_member", "set_recovery_threshold",
   "set_service_configuration", "trigger_recovery_shares_refresh",
   "trigger_ledger_rekey", "transition_service_to_open"}

NodeActions ==
  {"transition_node_to_trusted", "remove_node", "set_node_certificate_validity",
   "set_all_nodes_certificate_validity"}

CodeActions ==
  {"set_constitution", "set_service_certificate_validity",
   "assert_service_identity", "add_node_code", "remove_node_code",
   "add_snp_measurement", "remove_snp_measurement", "add_snp_host_data",
   "remove_snp_host_data", "add_executor_node_code",
   "remove_executor_node_code", "add_snp_uvm_endorsement",
   "remove_snp_uvm_endorsement", "set_ca_cert_bundle", "remove_ca_cert_bundle"}

IssuerActions ==
  {"set_jwt_issuer", "set_jwt_public_signing_keys", "remove_jwt_issuer"}

AppActions ==
  {"set_js_app", "remove_js_app", "refresh_js_app_bytecode_cache"}

ActionNames ==
  RecoveryActions \cup NodeActions \cup CodeActions \cup IssuerActions
    \cup AppActions

\* The forms that validate lets through, of the arguments that matter here.
WellFormed(a) ==
  /\ a.name \in ActionNames
  /\ a.name = "set_member" => a.member \in Members /\ a.recovery \in BOOLEAN
  /\ a.name \in {"set_recovery_threshold", "set_service_configuration"}
       => a.threshold \in Nat \cup {Undefined}
  /\ a.name \in NodeActions \ {"remove_node"} => a.days \in Int \cup {Undefined}

ASSUME ConstitutionAssumption ==
  /\ IsFiniteSet(Members)
  /\ MaxDays \in Nat
  /\ MaxOpen \in Nat
  /\ Undefined \notin Int
  /\ \A actions \in Agendas : \A a \in actions : WellFormed(a)

VARIABLES
  kv,             \* the tables that the actions read and write
  open,           \* open proposals: an action, and the terms it was made on
  agenda          \* the actions that are proposed in this behaviour

vars == <<kv, open, agenda>>

\* Mutant: of the allowed code only measurements count.
InvalidatingSome == {"set_constitution", "add_snp_measurement"}

\* The actions that call invalidateOtherOpenProposals.
Invalidating == {"set_constitution", "add_node_code", "add_snp_measurement",
                 "add_snp_uvm_endorsement", "add_snp_host_data"}

Init ==
  /\ kv = SetUp
  /\ open = {}
  /\ agenda \in Agendas

\* f with k mapped to v, and without the keys in ks.
Put(f, k, v) == [x \in DOMAIN f \cup {k} |-> IF x = k THEN v ELSE f[x]]
Without(f, ks) == [x \in DOMAIN f \ ks |-> f[x]]

-----------------------------------------------------------------------------
(***************************************************************************)
(* Members and recovery.  An operator takes the tables and yields them      *)
(* changed, or Failed.                                                      *)
(***************************************************************************)

\* Active members with an encryption key; getActiveRecoveryMembersCount counts
\* them.
ActiveRecovery(db) ==
  {m \in DOMAIN db.members :
     db.members[m].recovery /\ db.members[m].status = "Active"}

\* Shares of the present key of the ledger: shares, who was given one at the
\* last issue, and holders, who holds one of any issue.

\* triggerRecoverySharesRefresh splits the key once more for the active recovery
\* members.  The key is the same, so that earlier shares of it still tell it.
SharesRefreshed(db) ==
  [db EXCEPT !.shares = ActiveRecovery(db),
             !.holders = @ \cup ActiveRecovery(db)]

\* triggerLedgerRekey has what follows in the ledger encrypted under a new key,
\* of which only the active recovery members are given shares.
Rekeyed(db) ==
  [db EXCEPT !.shares = ActiveRecovery(db), !.holders = ActiveRecovery(db)]

\* A member set again is as one set for the first time.
SetMember(db, a) ==
  [db EXCEPT !.members = Put(@, a.member, [status |-> "Accepted",
                                          recovery |-> a.recovery])]

\* Mutant: the member that goes is counted too.
TooFewWithout(db, m) ==
  m \in ActiveRecovery(db) /\ Cardinality(ActiveRecovery(db)) < db.threshold

\* Without m, fewer members would be left than the threshold.
TooFew(db, m) ==
  m \in ActiveRecovery(db) /\ Cardinality(ActiveRecovery(db)) - 1 < db.threshold

\* Mutant: the shares are only refreshed.
RemoveMemberRefreshing(db, a) ==
  LET removed == [db EXCEPT !.members = Without(@, {a.member})]
  IN  IF TooFew(db, a.member) THEN Failed
      ELSE IF a.member \in ActiveRecovery(db) THEN SharesRefreshed(removed)
      ELSE removed

\* remove_member rekeys only if the member was active.
RemoveMember(db, a) ==
  LET removed == [db EXCEPT !.members = Without(@, {a.member})]
  IN  IF TooFew(db, a.member) THEN Failed
      ELSE IF a.member \in ActiveRecovery(db) THEN Rekeyed(removed)
      ELSE removed

\* checkRecoveryThreshold, where the threshold changes.
ThresholdAllowed(db, threshold) ==
  /\ db.status # "WaitingForRecoveryShares"
  /\ db.status = "Open" => threshold <= Cardinality(ActiveRecovery(db))

\* checkReconfigurationType: the only change is to TwoTransaction.
ReconfigurationAllowed(db, type) ==
  type \in {db.reconfiguration, Undefined} \/ type = "TwoTransaction"

\* updateServiceConfig, with its checks before its updates.
UpdateServiceConfig(db, a) ==
  LET changed == a.threshold \notin {db.threshold, Undefined}
      typed == [db EXCEPT !.reconfiguration =
                  IF a.reconfiguration = Undefined THEN @ ELSE a.reconfiguration]
  IN  IF ~ ReconfigurationAllowed(db, a.reconfiguration) THEN Failed
      ELSE IF ~ changed THEN typed
      ELSE IF ~ ThresholdAllowed(db, a.threshold) THEN Failed
      ELSE SharesRefreshed([typed EXCEPT !.threshold = a.threshold])

\* Opening a service that recovers needs its previous identity, and is over
\* when the shares have been submitted.  A service that is open stays so.
TransitionServiceToOpen(db, a) ==
  IF db.status = "Recovering" /\ a.previous = Undefined THEN Failed
  ELSE IF db.status = "Recovering"
       THEN [db EXCEPT !.status = "WaitingForRecoveryShares"]
  ELSE db

-----------------------------------------------------------------------------
(***************************************************************************)
(* Nodes.                                                                   *)
(***************************************************************************)

Trusted(db) == {n \in DOMAIN db.nodes : db.nodes[n].status = "Trusted"}

\* The validity of a certificate: the one asked for, or the longest.
Days(a) == IF a.days = Undefined THEN MaxDays ELSE a.days

TooLong(a) == Days(a) > MaxDays

Endorsed(db, n, a) == [db EXCEPT !.certs = Put(@, n, Days(a))]

\* Mutant: every node that is not yet trusted gets trusted.
MayBeTrustedAll(db, n) == db.nodes[n].status # "Trusted"

MayBeTrusted(db, n) == db.nodes[n].status = "Pending"

\* transition_node_to_trusted.  The new status is written before the validity
\* is checked, and dropped with everything else if that throws.
TransitionNodeToTrusted(db, a) ==
  IF a.node \notin DOMAIN db.nodes THEN Failed
  ELSE IF ~ MayBeTrusted(db, a.node) THEN db
  ELSE IF db.nodes[a.node].csr /\ TooLong(a) THEN Failed
  ELSE LET trusted == [db EXCEPT !.nodes[a.node].status = "Trusted"]
       IN  IF db.nodes[a.node].csr THEN Endorsed(trusted, a.node, a)
           ELSE trusted

RemoveNode(db, a) ==
  IF a.node \notin DOMAIN db.nodes THEN db
  ELSE IF db.nodes[a.node].status = "Pending"
       THEN [db EXCEPT !.nodes = Without(@, {a.node})]
  ELSE [db EXCEPT !.nodes[a.node].status = "Retired"]

\* Mutant: nobody looks at the status.
SetNodeCertificateValidityAny(db, a) ==
  IF a.node \notin DOMAIN db.nodes \/ TooLong(a) THEN Failed
  ELSE Endorsed(db, a.node, a)

SetNodeCertificateValidity(db, a) ==
  IF a.node \notin Trusted(db) \/ ~ db.nodes[a.node].csr \/ TooLong(a)
  THEN Failed
  ELSE Endorsed(db, a.node, a)

\* All trusted nodes or, if it throws at one of them, none.
SetAllNodesCertificateValidity(db, a) ==
  IF \E n \in Trusted(db) : ~ db.nodes[n].csr \/ TooLong(a) THEN Failed
  ELSE [db EXCEPT !.certs = [n \in DOMAIN @ \cup Trusted(db) |->
                               IF n \in Trusted(db) THEN Days(a) ELSE @[n]]]

\* The certificate of the service, its identity, is told by its validity here.
SetServiceCertificateValidity(db, a) ==
  IF TooLong(a) THEN Failed ELSE [db EXCEPT !.identity = Days(a)]

-----------------------------------------------------------------------------
(***************************************************************************)
(* What code may join: code ids, measurements and host data by kind, and    *)
(* UVM endorsements by DID and feed.                                        *)
(***************************************************************************)

Allow(db, kind, id) == [db EXCEPT !.allowed = @ \cup {[kind |-> kind, id |-> id]}]

Disallow(db, kind, id) ==
  [db EXCEPT !.allowed = @ \ {[kind |-> kind, id |-> id]}]

FeedsOf(db, did) == IF did \in DOMAIN db.uvm THEN db.uvm[did] ELSE <<>>

\* A feed has one SVN, the last that was added.
AddSnpUvmEndorsement(db, a) ==
  [db EXCEPT !.uvm = Put(@, a.did, Put(FeedsOf(db, a.did), a.feed, a.svn))]

\* Mutant: a DID without feeds stays.
RemoveSnpUvmEndorsementFeed(db, a) ==
  [db EXCEPT !.uvm = Put(@, a.did, Without(FeedsOf(db, a.did), {a.feed}))]

\* A DID goes with its last feed.
RemoveSnpUvmEndorsement(db, a) ==
  LET feeds == Without(FeedsOf(db, a.did), {a.feed})
  IN  [db EXCEPT !.uvm = IF DOMAIN feeds = {} THEN Without(@, {a.did})
                         ELSE Put(@, a.did, feeds)]

-----------------------------------------------------------------------------
(***************************************************************************)
(* Token issuers, and the application.                                      *)
(***************************************************************************)

\* An issuer whose keys are fetched needs its CA bundle at this time.  Keys that
\* come with the issuer replace those it had; without, it keeps them.
SetJwtIssuer(db, a) ==
  IF a.bundle # Undefined /\ a.bundle \notin db.bundles THEN Failed
  ELSE [db EXCEPT !.issuers = @ \cup {a.issuer},
                  !.signers = IF a.jwks = Undefined THEN @
                              ELSE Put(@, a.issuer, a.jwks)]

SetJwtPublicSigningKeys(db, a) ==
  IF a.issuer \notin db.issuers THEN Failed
  ELSE [db EXCEPT !.signers = Put(@, a.issuer, a.jwks)]

\* Mutant: the keys stay.
RemoveJwtIssuerOnly(db, a) == [db EXCEPT !.issuers = @ \ {a.issuer}]

RemoveJwtIssuer(db, a) ==
  IF a.issuer \notin db.issuers THEN db
  ELSE [db EXCEPT !.issuers = @ \ {a.issuer},
                  !.signers = Without(@, {a.issuer})]

\* Mutant: with the cache disabled, the old bytecode stays.
BytecodeKept(db, a) ==
  IF a.disable_bytecode_cache THEN db.bytecode ELSE a.modules

\* The cache is compiled from the modules, unless it is disabled.
Bytecode(db, a) == IF a.disable_bytecode_cache THEN Undefined ELSE a.modules

\* The application before is cleared away.
SetJsApp(db, a) ==
  [db EXCEPT !.modules = a.modules, !.endpoints = a.endpoints,
             !.bytecode = Bytecode(db, a)]

RemoveJsApp(db) ==
  [db EXCEPT !.modules = <<>>, !.endpoints = <<>>, !.bytecode = Undefined]

RefreshJsAppBytecodeCache(db) == [db EXCEPT !.bytecode = db.modules]

-----------------------------------------------------------------------------
(***************************************************************************)
(* Proposals.                                                               *)
(***************************************************************************)

\* validate, where it depends on more than the form of the arguments.
Valid(db, a) ==
  CASE a.name = "set_js_app" ->
         \A url \in DOMAIN a.endpoints : a.endpoints[url] \in DOMAIN a.modules
    [] a.name = "assert_service_identity" -> db.identity = a.identity
    [] OTHER -> TRUE

\* apply.
Apply(db, a) ==
  CASE a.name = "set_constitution" -> [db EXCEPT !.constitution = a.text]
    [] a.name = "set_member" -> SetMember(db, a)
    [] a.name = "remove_member" -> RemoveMember(db, a)
    [] a.name \in {"set_recovery_threshold", "set_service_configuration"} ->
         UpdateServiceConfig(db, a)
    [] a.name = "trigger_recovery_shares_refresh" -> SharesRefreshed(db)
    [] a.name = "trigger_ledger_rekey" -> Rekeyed(db)
    [] a.name = "transition_service_to_open" -> TransitionServiceToOpen(db, a)
    [] a.name = "transition_node_to_trusted" -> TransitionNodeToTrusted(db, a)
    [] a.name = "remove_node" -> RemoveNode(db, a)
    [] a.name = "set_node_certificate_validity" ->
         SetNodeCertificateValidity(db, a)
    [] a.name = "set_all_nodes_certificate_validity" ->
         SetAllNodesCertificateValidity(db, a)
    [] a.name = "set_service_certificate_validity" ->
         SetServiceCertificateValidity(db, a)
    [] a.name \in {"add_node_code", "add_snp_measurement", "add_snp_host_data",
                   "add_executor_node_code"} -> Allow(db, a.name, a.id)
    [] a.name = "remove_node_code" -> Disallow(db, "add_node_code", a.id)
    [] a.name = "remove_snp_measurement" ->
         Disallow(db, "add_snp_measurement", a.id)
    [] a.name = "remove_snp_host_data" -> Disallow(db, "add_snp_host_data", a.id)
    [] a.name = "remove_executor_node_code" ->
         Disallow(db, "add_executor_node_code", a.id)
    [] a.name = "add_snp_uvm_endorsement" -> AddSnpUvmEndorsement(db, a)
    [] a.name = "remove_snp_uvm_endorsement" -> RemoveSnpUvmEndorsement(db, a)
    [] a.name = "set_ca_cert_bundle" ->
         [db EXCEPT !.bundles = @ \cup {a.bundle}]
    [] a.name = "remove_ca_cert_bundle" -> [db EXCEPT !.bundles = @ \ {a.bundle}]
    [] a.name = "set_jwt_issuer" -> SetJwtIssuer(db, a)
    [] a.name = "set_jwt_public_signing_keys" -> SetJwtPublicSigningKeys(db, a)
    [] a.name = "remove_jwt_issuer" -> RemoveJwtIssuer(db, a)
    [] a.name = "set_js_app" -> SetJsApp(db, a)
    [] a.name = "remove_js_app" -> RemoveJsApp(db)
    [] a.name = "refresh_js_app_bytecode_cache" -> RefreshJsAppBytecodeCache(db)
    [] a.name = "assert_service_identity" -> db

\* What members vote on: the constitution and the code that may join.
Endorsements(db) ==
  UNION {{<<did, feed, db.uvm[did][feed]>> : feed \in DOMAIN db.uvm[did]} :
           did \in DOMAIN db.uvm}

Joining(db) ==
  {code \in db.allowed : code.kind # "add_executor_node_code"}
    \cup Endorsements(db)

Terms(db) == [constitution |-> db.constitution, joining |-> Joining(db)]

Propose(a) ==
  /\ Cardinality(open) < MaxOpen
  /\ Valid(kv, a)
  /\ open' = open \cup {[action |-> a, terms |-> Terms(kv)]}
  /\ UNCHANGED <<kv, agenda>>

\* invalidateOtherOpenProposals drops the other open proposals.
StillOpen(p) == IF p.action.name \in Invalidating THEN {} ELSE open \ {p}

Accept(p) ==
  /\ Apply(kv, p.action) # Failed
  /\ kv' = Apply(kv, p.action)
  /\ open' = StillOpen(p)
  /\ UNCHANGED agenda

\* The proposal is accepted too, but its action throws.
Fail(p) ==
  /\ Apply(kv, p.action) = Failed
  /\ open' = open \ {p}
  /\ UNCHANGED <<kv, agenda>>

-----------------------------------------------------------------------------
(***************************************************************************)
(* What CCF and its operators do.                                           *)
(***************************************************************************)

\* A member acknowledges the state of the service; if it is a recovery member,
\* CCF refreshes the shares, so that it gets one.
Activate(m) ==
  /\ m \in DOMAIN kv.members
  /\ kv.members[m].status = "Accepted"
  /\ kv' = LET active == [kv EXCEPT !.members[m].status = "Active"]
           IN  IF kv.members[m].recovery THEN SharesRefreshed(active)
              ELSE active
  /\ UNCHANGED <<open, agenda>>

\* All nodes have crashed and the service is started again from its ledger.
Recover ==
  /\ kv.status = "Open"
  /\ kv' = [kv EXCEPT !.status = "Recovering"]
  /\ UNCHANGED <<open, agenda>>

\* Enough members have submitted the shares of the last issue.
SubmitShares ==
  /\ kv.status = "WaitingForRecoveryShares"
  /\ Cardinality(kv.shares \cap ActiveRecovery(kv)) >= kv.threshold
  /\ kv' = [kv EXCEPT !.status = "Open"]
  /\ UNCHANGED <<open, agenda>>

\* A node that may join asks to; old versions send no signing request.
Join(n, csr) ==
  /\ n \notin DOMAIN kv.nodes
  /\ kv' = [kv EXCEPT !.nodes = Put(@, n, [status |-> "Pending", csr |-> csr])]
  /\ UNCHANGED <<open, agenda>>

Proposals ==
  \/ \E a \in agenda : Propose(a)
  \/ \E p \in open : Accept(p)
  \/ \E p \in open : Fail(p)

\* A behaviour only goes into what its agenda is about.
About(names) == \E a \in agenda : a.name \in names

Service ==
  \/ About({"remove_member"}) /\ \E m \in Members : Activate(m)
  \/ About({"transition_service_to_open"}) /\ Recover
  \/ SubmitShares
  \/ /\ About({"transition_node_to_trusted"})
     /\ \E n \in Nodes, csr \in BOOLEAN : Join(n, csr)

Next == Proposals \/ Service

Spec == Init /\ [][Next]_vars

-----------------------------------------------------------------------------
(***************************************************************************)
(* Properties.                                                              *)
(***************************************************************************)

DbTypeOK(db) ==
  /\ DOMAIN db = Tables
  /\ db.status \in {"Open", "Recovering", "WaitingForRecoveryShares"}
  /\ db.threshold \in Nat
  /\ db.members \in [DOMAIN db.members -> [status : {"Accepted", "Active"},
                                          recovery : BOOLEAN]]
  /\ DOMAIN db.members \cup db.shares \cup db.holders \subseteq Members
  /\ db.nodes \in [DOMAIN db.nodes ->
                     [status : {"Pending", "Trusted", "Retired"}, csr : BOOLEAN]]
  /\ \A did \in DOMAIN db.uvm : DOMAIN db.uvm[did] # {}

TypeOK ==
  /\ agenda \in Agendas
  /\ \A p \in open : p.action \in agenda
  /\ IsFiniteSet(open) /\ Cardinality(open) <= MaxOpen
  /\ DbTypeOK(kv)

\* p is carried out in this step.
CarriedOut(p) == p \in open /\ kv' = Apply(kv, p.action) /\ open' = StillOpen(p)

\* The proposal that sets m again is carried out in this step.
SetAgain(m) ==
  \E p \in open :
    p.action.name = "set_member" /\ p.action.member = m /\ CarriedOut(p)

Enough(db) == db.threshold <= Cardinality(db.shares \cap ActiveRecovery(db))

StaysRecoverable ==
  kv.status = "Open" /\ Enough(kv) /\ ~ Enough(kv')
    => \E m \in ActiveRecovery(kv) : SetAgain(m)

\* An open service that could be recovered from a crash does not stop being
\* recoverable by a proposal: whatever members are removed and thresholds set,
\* in whatever order the proposals are accepted, as many active recovery
\* members remain, with shares of the last issue, as the threshold asks for.
\* (Except that set_member on an active recovery member takes it back to
\* "Accepted", with no check: SetAgainUnchecked in ConstitutionProofs.)
EnoughRecoveryMembers == [][StaysRecoverable]_vars

NoNewFormerHolder ==
  \A m \in kv'.holders \ ActiveRecovery(kv') :
    m \in kv.holders \ ActiveRecovery(kv) \/ SetAgain(m)

\* An active recovery member who is removed loses access to what is written from
\* then on: nobody who has not been set again comes to hold a share of the
\* present key of the ledger without being an active recovery member.  Set
\* again, though, with set_member, an active recovery member keeps its share
\* until the next rekey, and keeps it if it is then removed, for remove_member
\* does not find it active and does not rekey (SetAgainKeepsShare in
\* ConstitutionProofs).  That is not what the comment in remove_member has in
\* mind, "A retired recovery member should not have access to the private ledger
\* going forward".
NoShareForFormerMembers == [][NoNewFormerHolder]_vars

\* The certificates that the service has endorsed are those of its trusted
\* nodes and of nodes that were trusted, and none is valid for longer than the
\* configuration allows; a trusted node has one if it has asked for one.
Certified(db) ==
  /\ \A n \in Trusted(db) : db.nodes[n].csr => n \in DOMAIN db.certs
  /\ \A n \in DOMAIN db.certs :
       /\ n \in DOMAIN db.nodes
       /\ db.nodes[n].status # "Pending" /\ db.nodes[n].csr
       /\ db.certs[n] <= MaxDays

TrustedNodesEndorsed == Certified(kv)

RetiredStay ==
  \A n \in DOMAIN kv.nodes :
    kv.nodes[n].status = "Retired"
      => n \in DOMAIN kv'.nodes /\ kv'.nodes[n].status = "Retired"

\* A node that was trusted and then removed is never trusted again, whatever
\* proposals about it are still open.
RetiredForGood == [][RetiredStay]_vars

OnKnownTerms ==
  \A p \in open :
    CarriedOut(p) => /\ kv.constitution = p.terms.constitution
                     /\ Joining(kv) \subseteq p.terms.joining

\* "Changing the constitution changes the semantics of any other open
\* proposals", and so does allowing new code: a proposal is carried out under
\* the constitution it was made under, with no code able to join that was not
\* able to join then, or not at all.  (Executor code does not count.)
DecidedOnKnownTerms == [][OnKnownTerms]_vars

\* Tokens are checked with the signing keys of issuers that governance has
\* registered and not removed since, whatever was proposed in the meantime.
KeysRegistered(db) == DOMAIN db.signers \subseteq db.issuers

SigningKeysOfIssuers == KeysRegistered(kv)

\* What runs is the application as it was last set: the endpoints lead to
\* modules of it, and cached bytecode was compiled from its modules.
Complete(db) ==
  /\ \A url \in DOMAIN db.endpoints : db.endpoints[url] \in DOMAIN db.modules
  /\ db.bytecode \in {Undefined, db.modules}

AppConsistent == Complete(kv)

-----------------------------------------------------------------------------
(***************************************************************************)
(* Why they hold: the inductive invariant.                                  *)
(***************************************************************************)

\* The service starts as a service may be.
ASSUME SetUpAssumption ==
  DbTypeOK(SetUp) /\ Certified(SetUp) /\ KeysRegistered(SetUp) /\ Complete(SetUp)

\* The endpoints of a proposed application lead to its modules.
ProposedComplete ==
  \A p \in open :
    p.action.name = "set_js_app" =>
      \A url \in DOMAIN p.action.endpoints :
        p.action.endpoints[url] \in DOMAIN p.action.modules

\* Since an open proposal was made, neither the constitution has changed nor
\* has code become able to join.
TermsKept ==
  \A p \in open : /\ kv.constitution = p.terms.constitution
                  /\ Joining(kv) \subseteq p.terms.joining

ConstitutionInv ==
  /\ TypeOK
  /\ Certified(kv)
  /\ KeysRegistered(kv)
  /\ Complete(kv)
  /\ ProposedComplete
  /\ TermsKept
=============================================================================
