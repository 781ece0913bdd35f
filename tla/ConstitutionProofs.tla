------------------------- MODULE ConstitutionProofs -------------------------
(***************************************************************************)
(* Proofs about Constitution for all values of its constants: whatever      *)
(* members, nodes and agendas there are, and however many proposals are     *)
(* open at a time.                                                          *)
(***************************************************************************)
EXTENDS Constitution, FiniteSetTheorems, TLAPS

-----------------------------------------------------------------------------
(***************************************************************************)
(* Which tables an action touches.                                          *)
(***************************************************************************)

\* new is db except for the tables in changed.
Alike(db, new, changed) ==
  DOMAIN new = Tables /\ \A t \in Tables \ changed : new[t] = db[t]

RecoveryTables ==
  {"status", "reconfiguration", "threshold", "members", "shares", "holders"}

LEMMA IssuedAlike ==
  ASSUME NEW db, DOMAIN db = Tables
  PROVE  /\ Alike(db, SharesRefreshed(db), {"shares", "holders"})
         /\ Alike(db, Rekeyed(db), {"shares", "holders"})
BY DEF SharesRefreshed, Rekeyed, Alike, Tables

LEMMA RecoveryAlike ==
  ASSUME NEW db, DOMAIN db = Tables, NEW a, a.name \in RecoveryActions,
         Apply(db, a) # Failed
  PROVE  Alike(db, Apply(db, a), RecoveryTables)
<1> USE DEF RecoveryTables
<1>1. CASE a.name = "set_member"
  BY <1>1 DEF Apply, SetMember, Alike, Tables
<1>2. CASE a.name = "remove_member"
  BY <1>2 DEF Apply, RemoveMember, Rekeyed, Alike, Tables
<1>3. CASE a.name \in {"set_recovery_threshold", "set_service_configuration"}
  BY <1>3 DEF Apply, UpdateServiceConfig, SharesRefreshed, Alike, Tables
<1>4. CASE a.name \in {"trigger_recovery_shares_refresh", "trigger_ledger_rekey"}
  BY <1>4, IssuedAlike DEF Apply, Alike
<1>5. CASE a.name = "transition_service_to_open"
  BY <1>5 DEF Apply, TransitionServiceToOpen, Alike, Tables
<1> QED
  BY <1>1, <1>2, <1>3, <1>4, <1>5 DEF RecoveryActions

LEMMA NodeAlike ==
  ASSUME NEW db, DOMAIN db = Tables, NEW a, a.name \in NodeActions,
         Apply(db, a) # Failed
  PROVE  Alike(db, Apply(db, a), {"nodes", "certs"})
<1>1. CASE a.name = "transition_node_to_trusted"
  BY <1>1 DEF Apply, TransitionNodeToTrusted, Endorsed, Alike, Tables
<1>2. CASE a.name = "remove_node"
  BY <1>2 DEF Apply, RemoveNode, Alike, Tables
<1>3. CASE a.name = "set_node_certificate_validity"
  BY <1>3 DEF Apply, SetNodeCertificateValidity, Endorsed, Alike, Tables
<1>4. CASE a.name = "set_all_nodes_certificate_validity"
  BY <1>4 DEF Apply, SetAllNodesCertificateValidity, Alike, Tables
<1> QED
  BY <1>1, <1>2, <1>3, <1>4 DEF NodeActions

LEMMA CodeAlike ==
  ASSUME NEW db, DOMAIN db = Tables, NEW a, a.name \in CodeActions,
         Apply(db, a) # Failed
  PROVE  Alike(db, Apply(db, a),
               {"constitution", "identity", "allowed", "uvm", "bundles"})
<1>1. CASE a.name \in {"set_constitution", "assert_service_identity",
                       "set_ca_cert_bundle", "remove_ca_cert_bundle"}
  BY <1>1 DEF Apply, Alike, Tables
<1>2. CASE a.name \in {"add_node_code", "add_snp_measurement",
                       "add_snp_host_data", "add_executor_node_code"}
  BY <1>2 DEF Apply, Allow, Alike, Tables
<1>3. CASE a.name \in {"remove_node_code", "remove_snp_measurement",
                       "remove_snp_host_data", "remove_executor_node_code"}
  BY <1>3 DEF Apply, Disallow, Alike, Tables
<1>4. CASE a.name = "add_snp_uvm_endorsement"
  BY <1>4 DEF Apply, AddSnpUvmEndorsement, Alike, Tables
<1>5. CASE a.name = "remove_snp_uvm_endorsement"
  BY <1>5 DEF Apply, RemoveSnpUvmEndorsement, Alike, Tables
<1>6. CASE a.name = "set_service_certificate_validity"
  BY <1>6 DEF Apply, SetServiceCertificateValidity, Alike, Tables
<1> QED
  BY <1>1, <1>2, <1>3, <1>4, <1>5, <1>6 DEF CodeActions

LEMMA IssuerAlike ==
  ASSUME NEW db, DOMAIN db = Tables, NEW a, a.name \in IssuerActions,
         Apply(db, a) # Failed
  PROVE  Alike(db, Apply(db, a), {"issuers", "signers"})
<1>1. CASE a.name = "set_jwt_issuer"
  BY <1>1 DEF Apply, SetJwtIssuer, Alike, Tables
<1>2. CASE a.name = "set_jwt_public_signing_keys"
  BY <1>2 DEF Apply, SetJwtPublicSigningKeys, Alike, Tables
<1>3. CASE a.name = "remove_jwt_issuer"
  BY <1>3 DEF Apply, RemoveJwtIssuer, Alike, Tables
<1> QED
  BY <1>1, <1>2, <1>3 DEF IssuerActions

LEMMA AppAlike ==
  ASSUME NEW db, DOMAIN db = Tables, NEW a, a.name \in AppActions,
         Apply(db, a) # Failed
  PROVE  Alike(db, Apply(db, a), {"modules", "endpoints", "bytecode"})
<1>1. CASE a.name = "set_js_app"
  BY <1>1 DEF Apply, SetJsApp, Alike, Tables
<1>2. CASE a.name = "remove_js_app"
  BY <1>2 DEF Apply, RemoveJsApp, Alike, Tables
<1>3. CASE a.name = "refresh_js_app_bytecode_cache"
  BY <1>3 DEF Apply, RefreshJsAppBytecodeCache, Alike, Tables
<1> QED
  BY <1>1, <1>2, <1>3 DEF AppActions

-----------------------------------------------------------------------------
(***************************************************************************)
(* What an action leaves true.                                              *)
(***************************************************************************)

LEMMA KeysApply ==
  ASSUME NEW db, DOMAIN db = Tables, NEW a, a.name \in ActionNames,
         Apply(db, a) # Failed, KeysRegistered(db)
  PROVE  KeysRegistered(Apply(db, a))
<1> DEFINE new == Apply(db, a)
<1>1. CASE a.name \notin IssuerActions
  <2>1. new.issuers = db.issuers /\ new.signers = db.signers
    BY <1>1, RecoveryAlike, NodeAlike, CodeAlike, AppAlike
       DEF ActionNames, Alike, Tables, RecoveryTables
  <2> QED
    BY <2>1 DEF KeysRegistered
<1>2. CASE a.name = "set_jwt_issuer"
  BY <1>2 DEF Apply, SetJwtIssuer, KeysRegistered, Put, Tables
<1>3. CASE a.name = "set_jwt_public_signing_keys"
  BY <1>3 DEF Apply, SetJwtPublicSigningKeys, KeysRegistered, Put, Tables
<1>4. CASE a.name = "remove_jwt_issuer"
  BY <1>4 DEF Apply, RemoveJwtIssuer, KeysRegistered, Without, Tables
<1> QED
  BY <1>1, <1>2, <1>3, <1>4 DEF IssuerActions

LEMMA CompleteApply ==
  ASSUME NEW db, DOMAIN db = Tables, NEW a, a.name \in ActionNames,
         Apply(db, a) # Failed, Complete(db),
         a.name = "set_js_app" =>
           \A url \in DOMAIN a.endpoints : a.endpoints[url] \in DOMAIN a.modules
  PROVE  Complete(Apply(db, a))
<1> DEFINE new == Apply(db, a)
<1>1. CASE a.name \notin AppActions
  <2>1. /\ new.modules = db.modules
        /\ new.endpoints = db.endpoints
        /\ new.bytecode = db.bytecode
    BY <1>1, RecoveryAlike, NodeAlike, CodeAlike, IssuerAlike
       DEF ActionNames, Alike, Tables, RecoveryTables
  <2> QED
    BY <2>1 DEF Complete
<1>2. CASE a.name = "set_js_app"
  BY <1>2 DEF Apply, SetJsApp, Bytecode, Complete, Tables
<1>3. CASE a.name = "remove_js_app"
  <2>1. new.endpoints = <<>> /\ new.bytecode = Undefined
    BY <1>3 DEF Apply, RemoveJsApp, Tables
  <2> QED
    BY <2>1 DEF Complete
<1>4. CASE a.name = "refresh_js_app_bytecode_cache"
  BY <1>4 DEF Apply, RefreshJsAppBytecodeCache, Complete, Tables
<1> QED
  BY <1>1, <1>2, <1>3, <1>4 DEF AppActions

\* A validity that is not too long.
LEMMA DaysBound ==
  ASSUME NEW a, a.days \in Int \cup {Undefined}, ~ TooLong(a)
  PROVE  Days(a) <= MaxDays
<1>1. Days(a) \in Int /\ MaxDays \in Int
  BY ConstitutionAssumption DEF Days
<1> QED
  BY <1>1 DEF TooLong

LEMMA NodesApply ==
  ASSUME NEW db, DbTypeOK(db), NEW a, WellFormed(a), Apply(db, a) # Failed,
         Certified(db)
  PROVE  LET new == Apply(db, a)
         IN  /\ new.nodes \in [DOMAIN new.nodes ->
                                 [status : {"Pending", "Trusted", "Retired"},
                                  csr : BOOLEAN]]
             /\ Certified(new)
             /\ \A n \in DOMAIN db.nodes :
                  db.nodes[n].status = "Retired"
                    => n \in DOMAIN new.nodes /\ new.nodes[n].status = "Retired"
<1> DEFINE new == Apply(db, a)
           Node == [status : {"Pending", "Trusted", "Retired"}, csr : BOOLEAN]
<1>1. /\ db.nodes \in [DOMAIN db.nodes -> Node]
      /\ DOMAIN db = Tables
      /\ "nodes" \in Tables /\ "certs" \in Tables
  BY DEF DbTypeOK, Tables
<1>2. CASE new.nodes = db.nodes /\ new.certs = db.certs
  BY <1>1, <1>2 DEF Certified, Trusted
<1>3. CASE a.name \notin NodeActions
  <2>1. new.nodes = db.nodes /\ new.certs = db.certs
    BY <1>1, <1>3, RecoveryAlike, CodeAlike, IssuerAlike, AppAlike
       DEF ActionNames, Alike, Tables, RecoveryTables, WellFormed
  <2> QED
    BY <1>2, <2>1
<1>4. CASE a.name = "transition_node_to_trusted"
  <2> DEFINE node == a.node
             trusted == [db EXCEPT !.nodes[node].status = "Trusted"]
  <2>1. new = TransitionNodeToTrusted(db, a) /\ node \in DOMAIN db.nodes
    BY <1>4 DEF Apply, TransitionNodeToTrusted
  <2>2. CASE ~ MayBeTrusted(db, node)
    <3>1. new = db
      BY <2>1, <2>2 DEF TransitionNodeToTrusted
    <3> QED
      BY <1>2, <3>1
  <2>3. CASE MayBeTrusted(db, node)
    <3>1. db.nodes[node] \in Node /\ db.nodes[node].status = "Pending"
      BY <1>1, <2>1, <2>3 DEF MayBeTrusted
    <3>2. /\ trusted.nodes = [db.nodes EXCEPT ![node].status = "Trusted"]
          /\ trusted.certs = db.certs
          /\ DOMAIN trusted = Tables
      BY <1>1
    <3>3. /\ trusted.nodes \in [DOMAIN db.nodes -> Node]
          /\ DOMAIN trusted.nodes = DOMAIN db.nodes
          /\ trusted.nodes[node].status = "Trusted"
          /\ trusted.nodes[node].csr = db.nodes[node].csr
          /\ \A n \in DOMAIN db.nodes \ {node} : trusted.nodes[n] = db.nodes[n]
      BY <1>1, <2>1, <3>1, <3>2
    <3> HIDE DEF trusted
    <3>4. CASE ~ db.nodes[node].csr
      <4>1. new = trusted
        BY <2>1, <2>3, <3>4 DEF TransitionNodeToTrusted, trusted
      <4> QED
        BY <1>1, <3>1, <3>2, <3>3, <3>4, <4>1 DEF Certified, Trusted
    <3>5. CASE db.nodes[node].csr
      <4>1. new = Endorsed(trusted, node, a) /\ ~ TooLong(a)
        BY <2>1, <2>3, <3>5 DEF TransitionNodeToTrusted, trusted
      <4>2. Days(a) <= MaxDays
        BY <1>4, <4>1, DaysBound DEF WellFormed, NodeActions
      <4>3. new.nodes = trusted.nodes /\ new.certs = Put(db.certs, node, Days(a))
        BY <1>1, <3>2, <4>1 DEF Endorsed
      <4>4. /\ DOMAIN new.certs = DOMAIN db.certs \cup {node}
            /\ new.certs[node] = Days(a)
            /\ \A n \in DOMAIN db.certs \ {node} : new.certs[n] = db.certs[n]
        BY <4>3 DEF Put
      <4>5. DOMAIN new.nodes = DOMAIN db.nodes /\ new.nodes[node].csr
        BY <3>3, <3>5, <4>3
      <4>6. Certified(new)
        <5>1. ASSUME NEW n \in Trusted(new), new.nodes[n].csr
              PROVE  n \in DOMAIN new.certs
          BY <3>3, <4>3, <4>4, <5>1 DEF Certified, Trusted
        <5>2. ASSUME NEW n \in DOMAIN new.certs
              PROVE  /\ n \in DOMAIN new.nodes
                     /\ new.nodes[n].status # "Pending" /\ new.nodes[n].csr
                     /\ new.certs[n] <= MaxDays
          <6>1. CASE n = node
            BY <2>1, <3>3, <4>2, <4>3, <4>4, <4>5, <6>1
          <6>2. CASE n # node
            BY <3>3, <4>3, <4>4, <6>2 DEF Certified
          <6> QED
            BY <6>1, <6>2
        <5> QED
          BY <5>1, <5>2 DEF Certified
      <4> QED
        BY <3>1, <3>3, <4>3, <4>6
    <3> QED
      BY <3>4, <3>5
  <2> QED
    BY <2>2, <2>3
<1>5. CASE a.name = "remove_node"
  <2>1. new = RemoveNode(db, a)
    BY <1>5 DEF Apply
  <2>2. CASE a.node \notin DOMAIN db.nodes
    BY <1>2, <2>1, <2>2 DEF RemoveNode
  <2>3. CASE a.node \in DOMAIN db.nodes /\ db.nodes[a.node].status = "Pending"
    <3>1. new.nodes = Without(db.nodes, {a.node}) /\ new.certs = db.certs
      BY <1>1, <2>1, <2>3 DEF RemoveNode
    <3> QED
      BY <1>1, <2>3, <3>1 DEF Certified, Trusted, Without
  <2>4. CASE a.node \in DOMAIN db.nodes /\ db.nodes[a.node].status # "Pending"
    <3>1. /\ new.nodes = [db.nodes EXCEPT ![a.node].status = "Retired"]
          /\ new.certs = db.certs
      BY <1>1, <2>1, <2>4 DEF RemoveNode
    <3>2. /\ new.nodes \in [DOMAIN db.nodes -> Node]
          /\ DOMAIN new.nodes = DOMAIN db.nodes
          /\ new.nodes[a.node].status = "Retired"
          /\ new.nodes[a.node].csr = db.nodes[a.node].csr
          /\ \A n \in DOMAIN db.nodes \ {a.node} : new.nodes[n] = db.nodes[n]
      BY <1>1, <2>4, <3>1
    <3> QED
      BY <1>1, <2>4, <3>1, <3>2 DEF Certified, Trusted
  <2> QED
    BY <2>2, <2>3, <2>4
<1>6. CASE a.name = "set_node_certificate_validity"
  <2>1. /\ new = Endorsed(db, a.node, a) /\ ~ TooLong(a)
        /\ a.node \in Trusted(db) /\ db.nodes[a.node].csr
    BY <1>6 DEF Apply, SetNodeCertificateValidity
  <2>2. Days(a) <= MaxDays
    BY <1>6, <2>1, DaysBound DEF WellFormed, NodeActions
  <2>3. new.nodes = db.nodes /\ new.certs = Put(db.certs, a.node, Days(a))
    BY <1>1, <2>1 DEF Endorsed
  <2> QED
    BY <1>1, <2>1, <2>2, <2>3 DEF Certified, Trusted, Put
<1>7. CASE a.name = "set_all_nodes_certificate_validity"
  <2> DEFINE certs == [n \in DOMAIN db.certs \cup Trusted(db) |->
                         IF n \in Trusted(db) THEN Days(a) ELSE db.certs[n]]
  <2>1. /\ new = [db EXCEPT !.certs = certs]
        /\ \A n \in Trusted(db) : db.nodes[n].csr /\ ~ TooLong(a)
    BY <1>7 DEF Apply, SetAllNodesCertificateValidity
  <2>2. \A n \in Trusted(db) : Days(a) <= MaxDays
    BY <1>7, <2>1, DaysBound DEF WellFormed, NodeActions
  <2>3. new.nodes = db.nodes /\ new.certs = certs
    BY <1>1, <2>1
  <2> QED
    BY <1>1, <2>1, <2>2, <2>3 DEF Certified, Trusted
<1> QED
  BY <1>3, <1>4, <1>5, <1>6, <1>7 DEF NodeActions

\* The members' part of DbTypeOK.
MembersTypeOK(db) ==
  /\ db.status \in {"Open", "Recovering", "WaitingForRecoveryShares"}
  /\ db.threshold \in Nat
  /\ db.members \in [DOMAIN db.members -> [status : {"Accepted", "Active"},
                                          recovery : BOOLEAN]]
  /\ DOMAIN db.members \cup db.shares \cup db.holders \subseteq Members

\* Enough compares numbers.
LEMMA EnoughFacts ==
  ASSUME NEW db, MembersTypeOK(db)
  PROVE  /\ ActiveRecovery(db) \subseteq Members
         /\ IsFiniteSet(ActiveRecovery(db))
         /\ Cardinality(ActiveRecovery(db)) \in Nat
         /\ IsFiniteSet(db.shares \cap ActiveRecovery(db))
         /\ Cardinality(db.shares \cap ActiveRecovery(db)) \in Nat
         /\ db.shares = ActiveRecovery(db)
              => db.shares \cap ActiveRecovery(db) = ActiveRecovery(db)
<1>1. ActiveRecovery(db) \subseteq Members
  BY DEF ActiveRecovery, MembersTypeOK
<1>2. db.shares \cap ActiveRecovery(db) \subseteq Members
  BY <1>1
<1> QED
  BY <1>1, <1>2, FS_Subset, FS_CardinalityType, ConstitutionAssumption

\* Members with shares who come on top do no harm.
LEMMA EnoughMore ==
  ASSUME NEW db, MembersTypeOK(db), NEW new, MembersTypeOK(new),
         new.threshold = db.threshold, Enough(db),
         db.shares \cap ActiveRecovery(db) \subseteq new.shares \cap ActiveRecovery(new)
  PROVE  Enough(new)
<1> DEFINE before == db.shares \cap ActiveRecovery(db)
           after == new.shares \cap ActiveRecovery(new)
<1>1. /\ IsFiniteSet(after)
      /\ Cardinality(after) \in Nat /\ Cardinality(before) \in Nat
  BY EnoughFacts
<1>2. db.threshold \in Nat /\ db.threshold <= Cardinality(before)
  BY DEF MembersTypeOK, Enough
<1>3. before \subseteq after
  OBVIOUS
<1> HIDE DEF before, after
<1>4. Cardinality(before) <= Cardinality(after)
  BY <1>1, <1>3, FS_Subset
<1>5. db.threshold <= Cardinality(after)
  BY <1>1, <1>2, <1>4
<1> QED
  BY <1>5 DEF after, Enough

\* Issuing shares gives them to the active recovery members; only a rekey
\* leaves no other holders.
LEMMA IssuedFacts ==
  ASSUME NEW db, DOMAIN db = Tables, NEW new,
         new \in {SharesRefreshed(db), Rekeyed(db)}
  PROVE  /\ new.status = db.status
         /\ new.threshold = db.threshold
         /\ new.members = db.members
         /\ new.shares = ActiveRecovery(db)
         /\ new.holders \in {ActiveRecovery(db), db.holders \cup ActiveRecovery(db)}
         /\ new = Rekeyed(db) => new.holders = ActiveRecovery(db)
         /\ ActiveRecovery(new) = ActiveRecovery(db)
<1>1. {"status", "threshold", "members", "shares", "holders"} \subseteq DOMAIN db
  BY DEF Tables
<1>2. CASE new = Rekeyed(db)
  <2>1. /\ new.status = db.status /\ new.threshold = db.threshold
        /\ new.members = db.members
        /\ new.shares = ActiveRecovery(db) /\ new.holders = ActiveRecovery(db)
    BY <1>1, <1>2 DEF Rekeyed
  <2> QED
    BY <2>1 DEF ActiveRecovery
<1>3. CASE new = SharesRefreshed(db)
  <2>1. /\ new.status = db.status /\ new.threshold = db.threshold
        /\ new.members = db.members
        /\ new.shares = ActiveRecovery(db)
        /\ new.holders = db.holders \cup ActiveRecovery(db)
    BY <1>1, <1>3 DEF SharesRefreshed
  <2>2. new = Rekeyed(db) => new.holders = ActiveRecovery(db)
    BY <1>1 DEF Rekeyed
  <2> QED
    BY <2>1, <2>2 DEF ActiveRecovery
<1> QED
  BY <1>2, <1>3

LEMMA MembersApply ==
  ASSUME NEW db, DbTypeOK(db), NEW a, WellFormed(a), Apply(db, a) # Failed
  PROVE  LET new == Apply(db, a)
         IN  /\ MembersTypeOK(new)
             /\ \A m \in new.holders \ ActiveRecovery(new) :
                  \/ m \in db.holders \ ActiveRecovery(db)
                  \/ a.name = "set_member" /\ a.member = m
             /\ db.status = "Open" /\ Enough(db) /\ ~ Enough(new)
                  => a.name = "set_member" /\ a.member \in ActiveRecovery(db)
<1> DEFINE new == Apply(db, a)
           Member == [status : {"Accepted", "Active"}, recovery : BOOLEAN]
<1>1. /\ MembersTypeOK(db)
      /\ DOMAIN db = Tables
      /\ {"status", "threshold", "members", "shares", "holders", "reconfiguration"}
           \subseteq Tables
      /\ ActiveRecovery(db) \subseteq Members
  BY EnoughFacts DEF DbTypeOK, MembersTypeOK, Tables
<1>2. CASE /\ new.threshold = db.threshold
           /\ new.status \in {"Open", "Recovering", "WaitingForRecoveryShares"}
           /\ new.members = db.members
           /\ new.shares \in {db.shares, ActiveRecovery(db)}
           /\ new.holders \in {db.holders, ActiveRecovery(db),
                               db.holders \cup ActiveRecovery(db)}
  <2>1. ActiveRecovery(new) = ActiveRecovery(db)
    BY <1>2 DEF ActiveRecovery
  <2>2. MembersTypeOK(new)
    BY <1>1, <1>2 DEF MembersTypeOK
  <2>3. Enough(db) => Enough(new)
    BY <1>1, <1>2, <2>1, <2>2, EnoughMore
  <2> QED
    BY <1>2, <2>1, <2>2, <2>3
<1>3. CASE a.name \notin RecoveryActions
  <2>1. /\ new.threshold = db.threshold /\ new.status = db.status
        /\ new.members = db.members
        /\ new.shares = db.shares /\ new.holders = db.holders
    BY <1>1, <1>3, NodeAlike, CodeAlike, IssuerAlike, AppAlike
       DEF ActionNames, Alike, Tables, WellFormed
  <2> QED
    BY <1>1, <1>2, <2>1 DEF MembersTypeOK
<1>4. CASE a.name = "set_member"
  <2> DEFINE member == [status |-> "Accepted", recovery |-> a.recovery]
  <2>1. a.member \in Members /\ member \in Member
    BY <1>4 DEF WellFormed
  <2>2. /\ new.threshold = db.threshold /\ new.status = db.status
        /\ new.members = Put(db.members, a.member, member)
        /\ new.shares = db.shares /\ new.holders = db.holders
    BY <1>1, <1>4 DEF Apply, SetMember
  <2>3. /\ DOMAIN new.members = DOMAIN db.members \cup {a.member}
        /\ new.members[a.member] = member
        /\ \A m \in DOMAIN db.members \ {a.member} : new.members[m] = db.members[m]
        /\ new.members = [m \in DOMAIN new.members |-> new.members[m]]
    BY <2>2 DEF Put
  <2>4. member.status = "Accepted"
    OBVIOUS
  <2> HIDE DEF member
  <2>5. MembersTypeOK(new)
    BY <1>1, <2>1, <2>2, <2>3 DEF MembersTypeOK
  <2>6. ActiveRecovery(new) = ActiveRecovery(db) \ {a.member}
    BY <2>3, <2>4 DEF ActiveRecovery
  <2>7. a.member \notin ActiveRecovery(db) => ActiveRecovery(new) = ActiveRecovery(db)
    BY <2>6
  <2> QED
    BY <1>4, <2>2, <2>5, <2>6, <2>7 DEF Enough
<1>5. CASE a.name = "remove_member"
  <2> DEFINE m == a.member
             removed == [db EXCEPT !.members = Without(@, {m})]
  <2>1. /\ ~ TooFew(db, m)
        /\ new = IF m \in ActiveRecovery(db) THEN Rekeyed(removed) ELSE removed
    BY <1>5 DEF Apply, RemoveMember
  <2>2. /\ DOMAIN removed = Tables
        /\ removed.threshold = db.threshold /\ removed.status = db.status
        /\ removed.members = Without(db.members, {m})
        /\ removed.shares = db.shares /\ removed.holders = db.holders
    BY <1>1
  <2> HIDE DEF removed
  <2>3. /\ DOMAIN removed.members = DOMAIN db.members \ {m}
        /\ \A other \in DOMAIN db.members \ {m} :
             removed.members[other] = db.members[other]
        /\ removed.members = [other \in DOMAIN removed.members |->
                                removed.members[other]]
    BY <2>2 DEF Without
  <2>4. ActiveRecovery(removed) = ActiveRecovery(db) \ {m}
    BY <2>3 DEF ActiveRecovery
  <2>5. MembersTypeOK(removed)
    <3>1. removed.members \in [DOMAIN removed.members -> Member]
      <4>1. \A other \in DOMAIN removed.members : removed.members[other] \in Member
        BY <1>1, <2>3 DEF MembersTypeOK
      <4> QED
        BY <2>3, <4>1
    <3>2. DOMAIN removed.members \cup removed.shares \cup removed.holders
            \subseteq Members
      BY <1>1, <2>2, <2>3 DEF MembersTypeOK
    <3> QED
      BY <1>1, <2>2, <3>1, <3>2 DEF MembersTypeOK
  <2>6. CASE m \in ActiveRecovery(db)
    <3>1. new = Rekeyed(removed)
      BY <2>1, <2>6
    <3>2. /\ new.status = db.status /\ new.threshold = db.threshold
          /\ new.members = removed.members
          /\ new.shares = ActiveRecovery(removed)
          /\ new.holders = ActiveRecovery(removed)
          /\ ActiveRecovery(new) = ActiveRecovery(removed)
      BY <2>2, <3>1, IssuedFacts
    <3>3. MembersTypeOK(new)
      BY <2>2, <2>4, <2>5, <1>1, <3>2 DEF MembersTypeOK
    <3>4. Cardinality(ActiveRecovery(new)) = Cardinality(ActiveRecovery(db)) - 1
      <4>1. ActiveRecovery(new) = ActiveRecovery(db) \ {m}
        BY <2>4, <3>2
      <4>2. IsFiniteSet(ActiveRecovery(db))
        BY <1>1, EnoughFacts
      <4>3. Cardinality(ActiveRecovery(db) \ {m})
              = Cardinality(ActiveRecovery(db)) - 1
        BY <2>6, <4>2, FS_RemoveElement
      <4> QED
        BY <4>1, <4>3
    <3>5. Enough(new)
      <4>1. new.shares \cap ActiveRecovery(new) = ActiveRecovery(new)
        BY <3>2
      <4>2. db.threshold \in Nat /\ Cardinality(ActiveRecovery(db)) \in Nat
        BY <1>1, EnoughFacts DEF MembersTypeOK
      <4>3. ~ (Cardinality(ActiveRecovery(db)) - 1 < db.threshold)
        BY <2>1, <2>6 DEF TooFew
      <4>4. db.threshold <= Cardinality(ActiveRecovery(new))
        BY <3>4, <4>2, <4>3
      <4> QED
        BY <2>2, <3>2, <4>1, <4>4 DEF Enough
    <3> QED
      BY <3>2, <3>3, <3>5
  <2>7. CASE m \notin ActiveRecovery(db)
    <3>1. new = removed /\ ActiveRecovery(removed) = ActiveRecovery(db)
      BY <2>1, <2>4, <2>7
    <3> QED
      BY <2>2, <2>5, <3>1 DEF Enough
  <2> QED
    BY <2>6, <2>7
<1>6. CASE a.name \in {"set_recovery_threshold", "set_service_configuration"}
  <2> DEFINE typed == [db EXCEPT !.reconfiguration =
                         IF a.reconfiguration = Undefined THEN @
                         ELSE a.reconfiguration]
             raised == [typed EXCEPT !.threshold = a.threshold]
  <2>1. new = UpdateServiceConfig(db, a)
    BY <1>6 DEF Apply
  <2>2. /\ DOMAIN typed = Tables
        /\ typed.threshold = db.threshold /\ typed.status = db.status
        /\ typed.members = db.members
        /\ typed.shares = db.shares /\ typed.holders = db.holders
    BY <1>1
  <2>3. CASE a.threshold \in {db.threshold, Undefined}
    <3>1. new = typed
      BY <2>1, <2>3 DEF UpdateServiceConfig
    <3> HIDE DEF typed
    <3> QED
      BY <1>1, <1>2, <2>2, <3>1 DEF MembersTypeOK
  <2>4. CASE a.threshold \notin {db.threshold, Undefined}
    <3>1. new = SharesRefreshed(raised) /\ ThresholdAllowed(db, a.threshold)
      BY <2>1, <2>4 DEF UpdateServiceConfig
    <3> HIDE DEF typed
    <3>2. /\ DOMAIN raised = Tables
          /\ raised.threshold = a.threshold /\ raised.status = db.status
          /\ raised.members = db.members /\ raised.holders = db.holders
      BY <1>1, <2>2
    <3> HIDE DEF raised
    <3>3. ActiveRecovery(raised) = ActiveRecovery(db)
      BY <3>2 DEF ActiveRecovery
    <3>4. /\ new.status = db.status /\ new.threshold = a.threshold
          /\ new.members = db.members
          /\ new.shares = ActiveRecovery(db)
          /\ new.holders \in {ActiveRecovery(db), db.holders \cup ActiveRecovery(db)}
          /\ ActiveRecovery(new) = ActiveRecovery(db)
      BY <3>1, <3>2, <3>3, IssuedFacts
    <3>5. a.threshold \in Nat
      BY <1>6, <2>4 DEF WellFormed
    <3>6. MembersTypeOK(new)
      BY <1>1, <3>4, <3>5 DEF MembersTypeOK
    <3>7. db.status = "Open" => Enough(new)
      <4>1. new.shares \cap ActiveRecovery(new) = ActiveRecovery(db)
        BY <3>4
      <4> QED
        BY <3>1, <3>4, <4>1 DEF ThresholdAllowed, Enough
    <3> QED
      BY <3>4, <3>6, <3>7
  <2> QED
    BY <2>3, <2>4
<1>7. CASE a.name \in {"trigger_recovery_shares_refresh", "trigger_ledger_rekey"}
  <2>1. new \in {SharesRefreshed(db), Rekeyed(db)}
    BY <1>7 DEF Apply
  <2> QED
    BY <1>1, <1>2, <2>1, IssuedFacts DEF MembersTypeOK
<1>8. CASE a.name = "transition_service_to_open"
  <2>1. new \in {db, [db EXCEPT !.status = "WaitingForRecoveryShares"]}
    BY <1>8 DEF Apply, TransitionServiceToOpen
  <2>2. /\ new.threshold = db.threshold
        /\ new.status \in {"Open", "Recovering", "WaitingForRecoveryShares"}
        /\ new.members = db.members
        /\ new.shares = db.shares /\ new.holders = db.holders
    BY <1>1, <2>1 DEF MembersTypeOK
  <2> QED
    BY <1>2, <2>2
<1> QED
  BY <1>3, <1>4, <1>5, <1>6, <1>7, <1>8 DEF RecoveryActions

\* Unless it invalidates the other proposals, an action leaves the constitution
\* alone and lets no more code join.
LEMMA TermsApply ==
  ASSUME NEW db, DbTypeOK(db), NEW a, WellFormed(a), Apply(db, a) # Failed,
         a.name \notin Invalidating
  PROVE  LET new == Apply(db, a)
         IN  /\ new.constitution = db.constitution
             /\ Joining(new) \subseteq Joining(db)
<1> DEFINE new == Apply(db, a)
<1>1. /\ DOMAIN db = Tables
      /\ {"constitution", "allowed", "uvm"} \subseteq Tables
  BY DEF DbTypeOK, Tables
<1>2. CASE /\ new.constitution = db.constitution
           /\ new.uvm = db.uvm
           /\ {code \in new.allowed : code.kind # "add_executor_node_code"}
                \subseteq db.allowed
  BY <1>2 DEF Joining, Endorsements
<1>3. CASE a.name \notin CodeActions
  <2>1. /\ new.constitution = db.constitution
        /\ new.uvm = db.uvm /\ new.allowed = db.allowed
    BY <1>1, <1>3, RecoveryAlike, NodeAlike, IssuerAlike, AppAlike
       DEF ActionNames, Alike, Tables, RecoveryTables, WellFormed
  <2> QED
    BY <1>2, <2>1
<1>4. CASE a.name \in {"set_service_certificate_validity",
                       "assert_service_identity", "set_ca_cert_bundle",
                       "remove_ca_cert_bundle"}
  <2>1. /\ new.constitution = db.constitution
        /\ new.uvm = db.uvm /\ new.allowed = db.allowed
    BY <1>1, <1>4 DEF Apply, SetServiceCertificateValidity
  <2> QED
    BY <1>2, <2>1
<1>5. CASE a.name = "add_executor_node_code"
  <2>1. /\ new.constitution = db.constitution
        /\ new.uvm = db.uvm
        /\ new.allowed = db.allowed
             \cup {[kind |-> "add_executor_node_code", id |-> a.id]}
    BY <1>1, <1>5 DEF Apply, Allow
  <2> QED
    BY <1>2, <2>1
<1>6. CASE a.name \in {"remove_node_code", "remove_snp_measurement",
                       "remove_snp_host_data", "remove_executor_node_code"}
  <2>1. /\ new.constitution = db.constitution
        /\ new.uvm = db.uvm /\ new.allowed \subseteq db.allowed
    BY <1>1, <1>6 DEF Apply, Disallow
  <2> QED
    BY <1>2, <2>1
<1>7. CASE a.name = "remove_snp_uvm_endorsement"
  <2> DEFINE feeds == Without(FeedsOf(db, a.did), {a.feed})
  <2>1. /\ new.constitution = db.constitution
        /\ new.allowed = db.allowed
        /\ new.uvm = IF DOMAIN feeds = {} THEN Without(db.uvm, {a.did})
                     ELSE Put(db.uvm, a.did, feeds)
    BY <1>1, <1>7 DEF Apply, RemoveSnpUvmEndorsement
  <2>2. \A feed \in DOMAIN feeds :
          feed \in DOMAIN FeedsOf(db, a.did) /\ feeds[feed] = FeedsOf(db, a.did)[feed]
    BY DEF Without
  <2>3. ASSUME NEW did \in DOMAIN new.uvm, NEW feed \in DOMAIN new.uvm[did]
        PROVE  /\ did \in DOMAIN db.uvm
               /\ feed \in DOMAIN db.uvm[did]
               /\ new.uvm[did][feed] = db.uvm[did][feed]
    <3>1. CASE DOMAIN feeds = {}
      BY <2>1, <3>1 DEF Without
    <3>2. CASE DOMAIN feeds # {}
      <4>1. a.did \in DOMAIN db.uvm /\ FeedsOf(db, a.did) = db.uvm[a.did]
        <5>1. DOMAIN <<>> = {}
          OBVIOUS
        <5> QED
          BY <2>2, <3>2, <5>1 DEF FeedsOf
      <4>2. new.uvm = Put(db.uvm, a.did, feeds)
        BY <2>1, <3>2
      <4> HIDE DEF feeds
      <4> QED
        BY <2>2, <4>1, <4>2 DEF Put
    <3> QED
      BY <3>1, <3>2
  <2>4. Endorsements(new) \subseteq Endorsements(db)
    <3> SUFFICES ASSUME NEW did \in DOMAIN new.uvm,
                        NEW feed \in DOMAIN new.uvm[did]
                 PROVE  <<did, feed, new.uvm[did][feed]>> \in Endorsements(db)
      BY DEF Endorsements
    <3> QED
      BY <2>3 DEF Endorsements
  <2> QED
    BY <2>1, <2>4 DEF Joining
<1> QED
  BY <1>3, <1>4, <1>5, <1>6, <1>7 DEF CodeActions, Invalidating

\* No DID without feeds is left.
LEMMA FeedsApply ==
  ASSUME NEW db, DbTypeOK(db), NEW a, WellFormed(a), Apply(db, a) # Failed,
         NEW did \in DOMAIN Apply(db, a).uvm
  PROVE  DOMAIN Apply(db, a).uvm[did] # {}
<1> DEFINE new == Apply(db, a)
<1>1. /\ DOMAIN db = Tables
      /\ {"uvm"} \subseteq Tables
      /\ \A d \in DOMAIN db.uvm : DOMAIN db.uvm[d] # {}
  BY DEF DbTypeOK, Tables
<1>2. CASE new.uvm = db.uvm
  BY <1>1, <1>2
<1>3. CASE a.name \notin CodeActions
  <2>1. new.uvm = db.uvm
    BY <1>1, <1>3, RecoveryAlike, NodeAlike, IssuerAlike, AppAlike
       DEF ActionNames, Alike, Tables, RecoveryTables, WellFormed
  <2> QED
    BY <1>2, <2>1
<1>4. CASE a.name \in CodeActions \ {"add_snp_uvm_endorsement",
                                     "remove_snp_uvm_endorsement"}
  <2>1. new.uvm = db.uvm
    BY <1>1, <1>4
       DEF Apply, Allow, Disallow, SetServiceCertificateValidity, CodeActions
  <2> QED
    BY <1>2, <2>1
<1>5. CASE a.name = "add_snp_uvm_endorsement"
  <2> DEFINE feeds == Put(FeedsOf(db, a.did), a.feed, a.svn)
  <2>1. new.uvm = Put(db.uvm, a.did, feeds)
    BY <1>1, <1>5 DEF Apply, AddSnpUvmEndorsement
  <2>2. a.feed \in DOMAIN feeds
    BY DEF Put
  <2> HIDE DEF feeds
  <2> QED
    BY <1>1, <2>1, <2>2 DEF Put
<1>6. CASE a.name = "remove_snp_uvm_endorsement"
  <2> DEFINE feeds == Without(FeedsOf(db, a.did), {a.feed})
  <2>1. new.uvm = IF DOMAIN feeds = {} THEN Without(db.uvm, {a.did})
                  ELSE Put(db.uvm, a.did, feeds)
    BY <1>1, <1>6 DEF Apply, RemoveSnpUvmEndorsement
  <2> HIDE DEF feeds
  <2> QED
    BY <1>1, <2>1 DEF Put, Without
<1> QED
  BY <1>3, <1>4, <1>5, <1>6

LEMMA DbApply ==
  ASSUME NEW db, DbTypeOK(db), Certified(db), NEW a, WellFormed(a),
         Apply(db, a) # Failed
  PROVE  DbTypeOK(Apply(db, a))
<1>1. DOMAIN Apply(db, a) = Tables
  BY RecoveryAlike, NodeAlike, CodeAlike, IssuerAlike, AppAlike
     DEF ActionNames, Alike, WellFormed, DbTypeOK
<1>2. MembersTypeOK(Apply(db, a))
  BY MembersApply
<1>3. Apply(db, a).nodes \in
        [DOMAIN Apply(db, a).nodes ->
           [status : {"Pending", "Trusted", "Retired"}, csr : BOOLEAN]]
  BY NodesApply
<1>4. \A did \in DOMAIN Apply(db, a).uvm : DOMAIN Apply(db, a).uvm[did] # {}
  BY FeedsApply
<1> QED
  BY <1>1, <1>2, <1>3, <1>4 DEF DbTypeOK, MembersTypeOK

-----------------------------------------------------------------------------
(***************************************************************************)
(* The steps.                                                               *)
(***************************************************************************)

\* The form of open proposals, and of the one being made.
LEMMA OpenWellFormed ==
  ASSUME TypeOK
  PROVE  /\ \A p \in open : WellFormed(p.action)
         /\ \A a \in agenda : WellFormed(a)
BY ConstitutionAssumption DEF TypeOK

LEMMA ProposeStep ==
  ASSUME ConstitutionInv, NEW a \in agenda, Propose(a)
  PROVE  ConstitutionInv'
<1> DEFINE p == [action |-> a, terms |-> Terms(kv)]
<1>1. /\ open' = open \cup {p} /\ UNCHANGED <<kv, agenda>>
      /\ Valid(kv, a)
      /\ Cardinality(open) < MaxOpen
  BY DEF Propose
<1>2. /\ p.action = a
      /\ p.terms.constitution = kv.constitution
      /\ p.terms.joining = Joining(kv)
  BY DEF Terms
<1> HIDE DEF p
<1>3. IsFiniteSet(open') /\ Cardinality(open') <= MaxOpen
  <2>1. /\ IsFiniteSet(open) /\ Cardinality(open) \in Nat
        /\ IsFiniteSet(open')
        /\ Cardinality(open') \in {Cardinality(open), Cardinality(open) + 1}
    BY <1>1, FS_AddElement, FS_CardinalityType DEF ConstitutionInv, TypeOK
  <2> QED
    BY <1>1, <2>1, ConstitutionAssumption
<1>4. TypeOK'
  BY <1>1, <1>2, <1>3 DEF ConstitutionInv, TypeOK
<1>5. ProposedComplete'
  <2>1. a.name = "set_js_app" =>
          \A url \in DOMAIN a.endpoints : a.endpoints[url] \in DOMAIN a.modules
    BY <1>1 DEF Valid
  <2> QED
    BY <1>1, <1>2, <2>1 DEF ConstitutionInv, ProposedComplete
<1>6. TermsKept'
  BY <1>1, <1>2 DEF ConstitutionInv, TermsKept
<1> QED
  BY <1>1, <1>4, <1>5, <1>6 DEF ConstitutionInv

\* What keeps fewer proposals open keeps what is true of them.
LEMMA FewerOpen ==
  ASSUME ConstitutionInv, open' \subseteq open, agenda' = agenda
  PROVE  /\ \A p \in open' : p.action \in agenda'
         /\ IsFiniteSet(open') /\ Cardinality(open') <= MaxOpen
         /\ ProposedComplete'
<1>1. /\ IsFiniteSet(open') /\ Cardinality(open') <= Cardinality(open)
      /\ Cardinality(open) \in Nat /\ Cardinality(open') \in Nat
  BY FS_Subset, FS_CardinalityType DEF ConstitutionInv, TypeOK
<1> QED
  BY <1>1, ConstitutionAssumption
     DEF ConstitutionInv, TypeOK, ProposedComplete

LEMMA AcceptStep ==
  ASSUME ConstitutionInv, NEW p \in open, Accept(p)
  PROVE  ConstitutionInv'
<1>1. /\ Apply(kv, p.action) # Failed /\ kv' = Apply(kv, p.action)
      /\ open' = StillOpen(p) /\ agenda' = agenda
  BY DEF Accept
<1>2. /\ DbTypeOK(kv) /\ Certified(kv) /\ KeysRegistered(kv) /\ Complete(kv)
      /\ DOMAIN kv = Tables
      /\ WellFormed(p.action) /\ p.action.name \in ActionNames
  BY OpenWellFormed DEF ConstitutionInv, TypeOK, DbTypeOK, WellFormed
<1>3. open' \subseteq open
  BY <1>1 DEF StillOpen
<1>4. DbTypeOK(kv') /\ Certified(kv')
  BY <1>1, <1>2, DbApply, NodesApply
<1>5. KeysRegistered(kv')
  BY <1>1, <1>2, KeysApply
<1>6. Complete(kv')
  BY <1>1, <1>2, CompleteApply DEF ConstitutionInv, ProposedComplete
<1>7. TermsKept'
  <2>1. CASE p.action.name \in Invalidating
    BY <1>1, <2>1 DEF StillOpen, TermsKept
  <2>2. CASE p.action.name \notin Invalidating
    <3>1. kv'.constitution = kv.constitution /\ Joining(kv') \subseteq Joining(kv)
      BY <1>1, <1>2, <2>2, TermsApply
    <3> QED
      BY <1>3, <3>1 DEF ConstitutionInv, TermsKept
  <2> QED
    BY <2>1, <2>2
<1>8. TypeOK'
  BY <1>1, <1>3, <1>4, FewerOpen DEF ConstitutionInv, TypeOK
<1> QED
  BY <1>1, <1>3, <1>4, <1>5, <1>6, <1>7, <1>8, FewerOpen DEF ConstitutionInv

\* The steps of CCF touch members and their shares, the status of the service
\* or the nodes, and no proposals.
LEMMA ServiceTables ==
  ASSUME ConstitutionInv, UNCHANGED <<open, agenda>>,
         Alike(kv, kv', {"status", "members", "shares", "holders", "nodes"}),
         MembersTypeOK(kv'),
         kv'.nodes \in [DOMAIN kv'.nodes ->
                          [status : {"Pending", "Trusted", "Retired"},
                           csr : BOOLEAN]],
         Certified(kv')
  PROVE  ConstitutionInv'
<1>1. /\ DOMAIN kv' = Tables
      /\ kv'.constitution = kv.constitution
      /\ kv'.uvm = kv.uvm /\ kv'.allowed = kv.allowed
      /\ kv'.signers = kv.signers /\ kv'.issuers = kv.issuers
      /\ kv'.modules = kv.modules /\ kv'.endpoints = kv.endpoints
      /\ kv'.bytecode = kv.bytecode
  BY DEF Alike, Tables
<1>2. DbTypeOK(kv')
  BY <1>1 DEF ConstitutionInv, TypeOK, DbTypeOK, MembersTypeOK
<1>3. Joining(kv') = Joining(kv)
  BY <1>1 DEF Joining, Endorsements
<1> QED
  BY <1>1, <1>2, <1>3 DEF ConstitutionInv, TypeOK, KeysRegistered, Complete,
     ProposedComplete, TermsKept

\* A member who becomes active makes the service no less recoverable.
LEMMA ActivateFacts ==
  ASSUME ConstitutionInv, NEW m \in Members, Activate(m)
  PROVE  /\ Alike(kv, kv', {"members", "shares", "holders"})
         /\ MembersTypeOK(kv')
         /\ Enough(kv) => Enough(kv')
         /\ \A h \in kv'.holders \ ActiveRecovery(kv') :
              h \in kv.holders \ ActiveRecovery(kv)
<1> DEFINE Member == [status : {"Accepted", "Active"}, recovery : BOOLEAN]
           active == [kv EXCEPT !.members[m].status = "Active"]
<1>1. /\ m \in DOMAIN kv.members /\ kv.members[m].status = "Accepted"
      /\ kv' = IF kv.members[m].recovery THEN SharesRefreshed(active) ELSE active
  BY DEF Activate
<1>2. /\ DOMAIN kv = Tables
      /\ MembersTypeOK(kv)
      /\ kv.members \in [DOMAIN kv.members -> Member]
  BY DEF ConstitutionInv, TypeOK, DbTypeOK, MembersTypeOK
<1>3. /\ Alike(kv, active, {"members"})
      /\ active.members = [kv.members EXCEPT ![m].status = "Active"]
  BY <1>2 DEF Alike, Tables
<1> HIDE DEF active
<1>4. /\ active.members \in [DOMAIN kv.members -> Member]
      /\ DOMAIN active.members = DOMAIN kv.members
      /\ active.members[m].status = "Active"
      /\ active.members[m].recovery = kv.members[m].recovery
      /\ \A n \in DOMAIN kv.members \ {m} : active.members[n] = kv.members[n]
  BY <1>1, <1>2, <1>3
<1>5. /\ DOMAIN active = Tables /\ active.status = kv.status
      /\ active.threshold = kv.threshold
      /\ active.shares = kv.shares /\ active.holders = kv.holders
  BY <1>3 DEF Alike, Tables
<1>6. MembersTypeOK(active)
  BY <1>2, <1>4, <1>5 DEF MembersTypeOK
<1>7. /\ ActiveRecovery(kv) \subseteq ActiveRecovery(active)
      /\ ~ kv.members[m].recovery => ActiveRecovery(active) = ActiveRecovery(kv)
  BY <1>1, <1>4 DEF ActiveRecovery
<1>8. Enough(kv) => Enough(active)
  BY <1>2, <1>5, <1>6, <1>7, EnoughMore
<1>9. CASE kv.members[m].recovery
  <2>1. /\ kv' = SharesRefreshed(active)
        /\ kv'.status = active.status /\ kv'.threshold = active.threshold
        /\ kv'.members = active.members
        /\ kv'.shares = ActiveRecovery(active)
        /\ kv'.holders \in {ActiveRecovery(active),
                            active.holders \cup ActiveRecovery(active)}
        /\ ActiveRecovery(kv') = ActiveRecovery(active)
    BY <1>1, <1>5, <1>9, IssuedFacts
  <2>2. Alike(kv, kv', {"members", "shares", "holders"})
    BY <1>3, <1>5, <2>1, IssuedAlike DEF Alike
  <2>3. MembersTypeOK(kv')
    BY <1>6, <2>1, EnoughFacts DEF MembersTypeOK
  <2>4. Enough(active) => Enough(kv')
    BY <1>6, <2>1, <2>3, EnoughMore
  <2> QED
    BY <1>5, <1>7, <1>8, <2>1, <2>2, <2>3, <2>4
<1>10. CASE ~ kv.members[m].recovery
  <2>1. kv' = active
    BY <1>1, <1>10
  <2> QED
    BY <1>3, <1>5, <1>6, <1>7, <1>8, <1>10, <2>1 DEF Alike
<1> QED
  BY <1>9, <1>10

LEMMA ServiceStep ==
  ASSUME ConstitutionInv, Service
  PROVE  ConstitutionInv'
<1>1. /\ DOMAIN kv = Tables /\ MembersTypeOK(kv) /\ Certified(kv)
      /\ kv.nodes \in [DOMAIN kv.nodes ->
                         [status : {"Pending", "Trusted", "Retired"},
                          csr : BOOLEAN]]
      /\ DbTypeOK(kv)
  BY DEF ConstitutionInv, TypeOK, DbTypeOK, MembersTypeOK
<1>2. ASSUME NEW m \in Members, Activate(m) PROVE ConstitutionInv'
  <2>1. Alike(kv, kv', {"members", "shares", "holders"}) /\ MembersTypeOK(kv')
    BY <1>2, ActivateFacts
  <2>2. kv'.nodes = kv.nodes /\ kv'.certs = kv.certs
    BY <2>1 DEF Alike, Tables
  <2>3. Certified(kv')
    BY <1>1, <2>2 DEF Certified, Trusted
  <2>4. Alike(kv, kv', {"status", "members", "shares", "holders", "nodes"})
    BY <2>1 DEF Alike
  <2>5. UNCHANGED <<open, agenda>>
    BY <1>2 DEF Activate
  <2> QED
    BY <1>1, <2>1, <2>2, <2>3, <2>4, <2>5, ServiceTables
<1>3. ASSUME Recover \/ SubmitShares PROVE ConstitutionInv'
  <2>1. PICK status \in {"Open", "Recovering"} :
          kv' = [kv EXCEPT !.status = status]
    BY <1>3 DEF Recover, SubmitShares
  <2>2. /\ Alike(kv, kv', {"status"})
        /\ kv'.status \in {"Open", "Recovering", "WaitingForRecoveryShares"}
    BY <1>1, <2>1 DEF Alike, Tables
  <2>3. /\ kv'.nodes = kv.nodes /\ kv'.certs = kv.certs
        /\ kv'.members = kv.members
        /\ kv'.shares = kv.shares /\ kv'.holders = kv.holders
        /\ kv'.threshold = kv.threshold
    BY <2>2 DEF Alike, Tables
  <2>4. Certified(kv') /\ MembersTypeOK(kv')
    BY <1>1, <2>2, <2>3 DEF Certified, Trusted, MembersTypeOK
  <2>5. Alike(kv, kv', {"status", "members", "shares", "holders", "nodes"})
    BY <2>2 DEF Alike
  <2>6. UNCHANGED <<open, agenda>>
    BY <1>3 DEF Recover, SubmitShares
  <2> QED
    BY <1>1, <2>3, <2>4, <2>5, <2>6, ServiceTables
<1>4. ASSUME NEW n \in Nodes, NEW csr \in BOOLEAN, Join(n, csr)
      PROVE  ConstitutionInv'
  <2> DEFINE node == [status |-> "Pending", csr |-> csr]
             Node == [status : {"Pending", "Trusted", "Retired"}, csr : BOOLEAN]
  <2>1. /\ n \notin DOMAIN kv.nodes
        /\ kv' = [kv EXCEPT !.nodes = Put(kv.nodes, n, node)]
    BY <1>4 DEF Join
  <2>2. node \in Node /\ node.status = "Pending"
    OBVIOUS
  <2> HIDE DEF node
  <2>3. /\ Alike(kv, kv', {"nodes"})
        /\ kv'.nodes = Put(kv.nodes, n, node)
    BY <1>1, <2>1 DEF Alike, Tables
  <2>4. /\ kv'.certs = kv.certs /\ kv'.status = kv.status
        /\ kv'.members = kv.members
        /\ kv'.shares = kv.shares /\ kv'.holders = kv.holders
        /\ kv'.threshold = kv.threshold
    BY <2>3 DEF Alike, Tables
  <2>5. /\ DOMAIN kv'.nodes = DOMAIN kv.nodes \cup {n}
        /\ kv'.nodes[n] = node
        /\ \A other \in DOMAIN kv.nodes : kv'.nodes[other] = kv.nodes[other]
        /\ kv'.nodes \in [DOMAIN kv'.nodes -> Node]
    BY <1>1, <2>1, <2>2, <2>3 DEF Put
  <2>6. Certified(kv')
    BY <1>1, <2>2, <2>4, <2>5 DEF Certified, Trusted
  <2>7. MembersTypeOK(kv')
    BY <1>1, <2>4 DEF MembersTypeOK
  <2>8. Alike(kv, kv', {"status", "members", "shares", "holders", "nodes"})
    BY <2>3 DEF Alike
  <2>9. UNCHANGED <<open, agenda>>
    BY <1>4 DEF Join
  <2> QED
    BY <2>5, <2>6, <2>7, <2>8, <2>9, ServiceTables
<1> QED
  BY <1>2, <1>3, <1>4 DEF Service

LEMMA ConstitutionStarts == Init => ConstitutionInv
<1> SUFFICES ASSUME Init PROVE ConstitutionInv
  OBVIOUS
<1>1. open = {} /\ kv = SetUp /\ agenda \in Agendas
  BY DEF Init
<1>2. IsFiniteSet(open) /\ Cardinality(open) <= MaxOpen
  BY <1>1, FS_EmptySet, ConstitutionAssumption
<1> QED
  BY <1>1, <1>2, SetUpAssumption
     DEF ConstitutionInv, TypeOK, ProposedComplete, TermsKept

LEMMA ConstitutionStep == ConstitutionInv /\ [Next]_vars => ConstitutionInv'
<1> SUFFICES ASSUME ConstitutionInv, [Next]_vars PROVE ConstitutionInv'
  OBVIOUS
<1>1. ASSUME NEW p \in open, Fail(p) PROVE ConstitutionInv'
  <2>1. open' \subseteq open /\ UNCHANGED <<kv, agenda>>
    BY <1>1 DEF Fail
  <2> QED
    BY <2>1, FewerOpen DEF ConstitutionInv, TypeOK, TermsKept
<1>2. CASE UNCHANGED vars
  BY <1>2 DEF vars, ConstitutionInv, TypeOK, ProposedComplete, TermsKept
<1> QED
  BY <1>1, <1>2, ProposeStep, AcceptStep, ServiceStep DEF Next, Proposals

\* Type correctness.
THEOREM ConstitutionTyped == Spec => []TypeOK
<1>1. ConstitutionInv => TypeOK
  BY DEF ConstitutionInv
<1> QED
  BY <1>1, ConstitutionStarts, ConstitutionStep, PTL DEF Spec

\* Whoever is trusted has the certificate asked for, valid as long as allowed.
THEOREM CertificatesEndorsed == Spec => []TrustedNodesEndorsed
<1>1. ConstitutionInv => TrustedNodesEndorsed
  BY DEF ConstitutionInv, TrustedNodesEndorsed
<1> QED
  BY <1>1, ConstitutionStarts, ConstitutionStep, PTL DEF Spec

\* No issuer that governance removed can sign tokens.
THEOREM IssuersKeys == Spec => []SigningKeysOfIssuers
<1>1. ConstitutionInv => SigningKeysOfIssuers
  BY DEF ConstitutionInv, SigningKeysOfIssuers
<1> QED
  BY <1>1, ConstitutionStarts, ConstitutionStep, PTL DEF Spec

\* The application is never left in pieces of two.
THEOREM AppComplete == Spec => []AppConsistent
<1>1. ConstitutionInv => AppConsistent
  BY DEF ConstitutionInv, AppConsistent
<1> QED
  BY <1>1, ConstitutionStarts, ConstitutionStep, PTL DEF Spec

-----------------------------------------------------------------------------
(***************************************************************************)
(* What no step may do.                                                     *)
(***************************************************************************)

LEMMA RecoverySafe ==
  ConstitutionInv /\ [Next]_vars => StaysRecoverable /\ NoNewFormerHolder
<1> SUFFICES ASSUME ConstitutionInv, [Next]_vars
             PROVE  StaysRecoverable /\ NoNewFormerHolder
  OBVIOUS
<1>1. CASE /\ kv'.members = kv.members
           /\ kv'.shares = kv.shares /\ kv'.holders = kv.holders
           /\ kv'.threshold = kv.threshold
  BY <1>1 DEF StaysRecoverable, NoNewFormerHolder, Enough, ActiveRecovery
<1>2. ASSUME NEW p \in open, Accept(p)
      PROVE  StaysRecoverable /\ NoNewFormerHolder
  <2> DEFINE a == p.action
  <2>1. /\ Apply(kv, a) # Failed /\ kv' = Apply(kv, a)
        /\ CarriedOut(p)
    BY <1>2 DEF Accept, CarriedOut
  <2>2. DbTypeOK(kv) /\ WellFormed(a)
    BY OpenWellFormed DEF ConstitutionInv, TypeOK
  <2>3. \A m : a.name = "set_member" /\ a.member = m => SetAgain(m)
    BY <2>1 DEF SetAgain
  <2>4. /\ \A m \in kv'.holders \ ActiveRecovery(kv') :
             \/ m \in kv.holders \ ActiveRecovery(kv)
             \/ a.name = "set_member" /\ a.member = m
        /\ kv.status = "Open" /\ Enough(kv) /\ ~ Enough(kv')
             => a.name = "set_member" /\ a.member \in ActiveRecovery(kv)
    BY <2>1, <2>2, MembersApply
  <2> QED
    BY <2>3, <2>4 DEF StaysRecoverable, NoNewFormerHolder
<1>3. ASSUME NEW m \in Members, Activate(m)
      PROVE  StaysRecoverable /\ NoNewFormerHolder
  BY <1>3, ActivateFacts DEF StaysRecoverable, NoNewFormerHolder
<1>4. DOMAIN kv = Tables /\ {"members", "shares", "holders", "threshold"} \subseteq Tables
  BY DEF ConstitutionInv, TypeOK, DbTypeOK, Tables
<1>5. ASSUME NEW n \in Nodes, NEW csr \in BOOLEAN, Join(n, csr)
      PROVE  StaysRecoverable /\ NoNewFormerHolder
  BY <1>1, <1>4, <1>5 DEF Join
<1>6. CASE Recover \/ SubmitShares
  BY <1>1, <1>4, <1>6 DEF Recover, SubmitShares
<1>7. CASE \/ \E a \in agenda : Propose(a)
           \/ \E p \in open : Fail(p)
           \/ UNCHANGED vars
  BY <1>1, <1>7 DEF Propose, Fail, vars
<1> QED
  BY <1>2, <1>3, <1>5, <1>6, <1>7 DEF Next, Proposals, Service

LEMMA RetiredSafe == ConstitutionInv /\ [Next]_vars => RetiredStay
<1> SUFFICES ASSUME ConstitutionInv, [Next]_vars PROVE RetiredStay
  OBVIOUS
<1>1. CASE kv'.nodes = kv.nodes
  BY <1>1 DEF RetiredStay
<1>2. ASSUME NEW p \in open, Accept(p) PROVE RetiredStay
  BY <1>2, OpenWellFormed, NodesApply
     DEF Accept, ConstitutionInv, TypeOK, RetiredStay
<1>3. DOMAIN kv = Tables /\ "nodes" \in Tables
  BY DEF ConstitutionInv, TypeOK, DbTypeOK, Tables
<1>4. ASSUME NEW m \in Members, Activate(m) PROVE RetiredStay
  <2>1. Alike(kv, kv', {"members", "shares", "holders"})
    BY <1>4, ActivateFacts
  <2> QED
    BY <1>1, <2>1 DEF Alike, Tables
<1>5. ASSUME NEW n \in Nodes, NEW csr \in BOOLEAN, Join(n, csr)
      PROVE  RetiredStay
  BY <1>3, <1>5 DEF Join, Put, RetiredStay
<1>6. CASE Recover \/ SubmitShares
  BY <1>1, <1>3, <1>6 DEF Recover, SubmitShares
<1>7. CASE \/ \E a \in agenda : Propose(a)
           \/ \E p \in open : Fail(p)
           \/ UNCHANGED vars
  BY <1>1, <1>7 DEF Propose, Fail, vars
<1> QED
  BY <1>2, <1>4, <1>5, <1>6, <1>7 DEF Next, Proposals, Service

\* No proposal, in whatever order it is accepted, takes from an open service
\* the members it could be recovered with.
THEOREM StillRecoverable == Spec => EnoughRecoveryMembers
BY RecoverySafe, ConstitutionStarts, ConstitutionStep, PTL
   DEF Spec, EnoughRecoveryMembers

\* Nobody is left with a share of the ledger's key by being removed as an active
\* recovery member: who holds one and is none has been set again while holding
\* it.
THEOREM SharesRevoked == Spec => NoShareForFormerMembers
BY RecoverySafe, ConstitutionStarts, ConstitutionStep, PTL
   DEF Spec, NoShareForFormerMembers

\* Setting an active recovery member again takes it out of those who can
\* recover the service, whatever the threshold: set_member checks nothing.
THEOREM SetAgainUnchecked ==
  ASSUME NEW db, DbTypeOK(db), NEW m \in ActiveRecovery(db),
         NEW set, WellFormed(set), set.name = "set_member", set.member = m
  PROVE  /\ ActiveRecovery(SetMember(db, set)) = ActiveRecovery(db) \ {m}
         /\ SetMember(db, set).threshold = db.threshold
         /\ SetMember(db, set).status = db.status
<1> DEFINE member == [status |-> "Accepted", recovery |-> set.recovery]
           new == SetMember(db, set)
<1>1. /\ new.members = Put(db.members, m, member)
      /\ new.threshold = db.threshold /\ new.status = db.status
  BY DEF SetMember, DbTypeOK, Tables
<1>2. member.status = "Accepted"
  OBVIOUS
<1> HIDE DEF member, new
<1>3. ActiveRecovery(new) = ActiveRecovery(db) \ {m}
  BY <1>1, <1>2 DEF ActiveRecovery, Put
<1> QED
  BY <1>1, <1>3 DEF new

\* A recovery member who is set again and then removed is no member any more but
\* keeps its share of the ledger's key: remove_member does not rekey, since the
\* member is not active.  The comment in remove_member says of retired recovery
\* members that they should not have access to what is written from then on.
THEOREM SetAgainKeepsShare ==
  ASSUME NEW db, DbTypeOK(db), NEW m \in ActiveRecovery(db), m \in db.holders,
         NEW set, WellFormed(set), set.name = "set_member", set.member = m,
         NEW remove, WellFormed(remove), remove.name = "remove_member",
         remove.member = m
  PROVE  LET left == Apply(Apply(db, set), remove)
         IN  \/ left = Failed
             \/ /\ m \notin DOMAIN left.members
                /\ m \in left.holders
                /\ left.shares = db.shares
<1> DEFINE again == Apply(db, set)
           left == Apply(again, remove)
<1>1. again = SetMember(db, set) /\ left = RemoveMember(again, remove)
  BY DEF Apply
<1>2. m \notin ActiveRecovery(again)
  BY <1>1, SetAgainUnchecked
<1>3. /\ DOMAIN again = Tables
      /\ again.holders = db.holders /\ again.shares = db.shares
  BY <1>1 DEF SetMember, DbTypeOK, Tables
<1> HIDE DEF again
<1>4. left = [again EXCEPT !.members = Without(@, {m})]
  BY <1>1, <1>2 DEF RemoveMember, TooFew
<1>5. /\ left.members = Without(again.members, {m})
      /\ left.holders = again.holders /\ left.shares = again.shares
  BY <1>3, <1>4 DEF Tables
<1> QED
  BY <1>3, <1>5 DEF Without, again

\* A node that was removed stays so.
THEOREM NodesRetired == Spec => RetiredForGood
BY RetiredSafe, ConstitutionStarts, ConstitutionStep, PTL
   DEF Spec, RetiredForGood

\* No proposal is carried out under a constitution, or with code able to join,
\* that was not known when it was made.
THEOREM TermsKnown == Spec => DecidedOnKnownTerms
<1>1. ConstitutionInv => OnKnownTerms
  BY DEF ConstitutionInv, TermsKept, OnKnownTerms
<1> QED
  BY <1>1, ConstitutionStarts, ConstitutionStep, PTL
     DEF Spec, DecidedOnKnownTerms
=============================================================================
