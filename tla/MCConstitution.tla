--------------------------- MODULE MCConstitution ---------------------------
(***************************************************************************)
(* Instances of Constitution for TLC.                                       *)
(***************************************************************************)
EXTENDS Constitution

CONSTANTS m1, m2, m3, n1, n2, code1, code2, did, feed1, feed2, ca, google,
          keys1, keys2, modA, modB, url, cert

Named(name) == [name |-> name]

\* Three recovery members, one of whom may be set without encryption key.
RecoveryAgenda ==
  [name : {"set_member"}, member : {m1, m2, m3}, recovery : {TRUE}]
  \cup [name : {"set_member"}, member : {m1}, recovery : {FALSE}]
  \cup [name : {"remove_member"}, member : {m1, m2, m3}]
  \cup [name : {"set_recovery_threshold"}, threshold : {1, 2},
        reconfiguration : {Undefined}]
  \cup [name : {"set_service_configuration"}, threshold : {Undefined},
        reconfiguration : {"OneTransaction", "TwoTransaction"}]
  \cup [name : {"transition_service_to_open"}, previous : {cert, Undefined}]
  \cup {Named("trigger_recovery_shares_refresh"), Named("trigger_ledger_rekey")}

\* Validities that are allowed, too long, and left out.
Validities == {1, MaxDays + 1, Undefined}

NodeAgenda ==
  [name : {"transition_node_to_trusted", "set_node_certificate_validity"},
   node : {n1, n2}, days : Validities]
  \cup [name : {"remove_node"}, node : {n1, n2}]
  \cup [name : {"set_all_nodes_certificate_validity",
                "set_service_certificate_validity"}, days : Validities]
  \cup [name : {"assert_service_identity"}, identity : {MaxDays}]

CodeAgenda ==
  [name : {"add_node_code", "remove_node_code", "add_snp_measurement",
           "remove_snp_measurement"}, id : {code1}]
  \cup [name : {"add_snp_host_data", "remove_snp_host_data",
                "add_executor_node_code", "remove_executor_node_code"},
        id : {code2}]
  \cup [name : {"set_constitution"}, text : {1, 2}]

EndorsementAgenda ==
  [name : {"add_snp_uvm_endorsement"}, did : {did}, feed : {feed1, feed2},
   svn : {1, 2}]
  \cup [name : {"remove_snp_uvm_endorsement"}, did : {did},
        feed : {feed1, feed2}]

IssuerAgenda ==
  [name : {"set_ca_cert_bundle", "remove_ca_cert_bundle"}, bundle : {ca}]
  \cup [name : {"set_jwt_issuer"}, issuer : {google}, bundle : {ca, Undefined},
        jwks : {keys1, Undefined}]
  \cup [name : {"set_jwt_public_signing_keys"}, issuer : {google},
        jwks : {keys1, keys2}]
  \cup [name : {"remove_jwt_issuer"}, issuer : {google}]

\* Two applications, and one with an endpoint to a module that is not in it.
Code(modules) == [m \in modules |-> 1]
Leading(modules) == [u \in {url} |-> CHOOSE m \in modules : TRUE]

AppAgenda ==
  [name : {"set_js_app"},
   modules : {Code({modA}), [Code({modA}) EXCEPT ![modA] = 2],
              Code({modA, modB})},
   endpoints : {Leading({modA}), Leading({modB})},
   disable_bytecode_cache : BOOLEAN]
  \cup {Named("remove_js_app"), Named("refresh_js_app_bytecode_cache")}

AllAgendas == {RecoveryAgenda, NodeAgenda, CodeAgenda, EndorsementAgenda,
               IssuerAgenda, AppAgenda}

\* An open service with two recovery members and nothing else.
Started ==
  [constitution |-> 1, status |-> "Open", identity |-> MaxDays,
   reconfiguration |-> "OneTransaction", threshold |-> 1,
   members |-> [m \in {m1, m2} |-> [status |-> "Active", recovery |-> TRUE]],
   shares |-> {m1, m2}, holders |-> {m1, m2}, nodes |-> <<>>,
   certs |-> <<>>, allowed |-> {},
   uvm |-> <<>>, bundles |-> {}, issuers |-> {}, signers |-> <<>>,
   modules |-> <<>>, endpoints |-> <<>>, bytecode |-> Undefined]
=============================================================================
