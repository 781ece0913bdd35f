--------------------------- MODULE Authentication ---------------------------
(***************************************************************************)
(* Who is let in.  CCF verifies a token, certificate or signature and hands *)
(* the handler a caller; AuthenticationService then asks the validator for  *)
(* that kind of caller, which looks the caller up in maps that governance   *)
(* edits: the JWT validation policy of the token's issuer, the users, the   *)
(* members.  The verdict depends on the state of the maps on the node that  *)
(* answers, which is that of some entry of the ledger.                      *)
(*                                                                         *)
(* A definition marked "Mutant" is a plausible slip in one after it.        *)
(***************************************************************************)
EXTENDS CcfLedger

CONSTANTS
  Issuers,        \* token issuers, as named in the claim iss
  Claims,         \* names of claims
  Strings,        \* values of claims that are strings
  Others,         \* values of claims that are not: booleans, numbers, ...
  Proposed,       \* validation policies that proposals contain
  Tokens,         \* claims of the tokens that callers present
  Ids,            \* identities of users and members
  Unset,          \* there is no policy, or no member
  Null,           \* the JSON value null, as a policy
  Undefined,      \* a claim the token does not have
  NoAction        \* the entry of the ledger is not an action below

Scalars == Strings \cup Others

\* A policy says for some claims what they must be: one value, or one of a list.
Requirement == [list : BOOLEAN, values : SUBSET Scalars]

IsPolicy(policy) ==
  /\ DOMAIN policy \subseteq Claims
  /\ policy \in [DOMAIN policy -> Requirement]

\* The actions of governance, as history.
Action == [name : {"set_jwt_validation_policy"}, issuer : Issuers,
           policy : Proposed]
          \cup [name : {"set_user", "remove_user", "set_member",
                        "activate_member", "remove_member"}, id : Ids]

ASSUME AuthenticationAssumption ==
  /\ Strings \cap Others = {}
  /\ \A policy \in Proposed : policy # Null => IsPolicy(policy)
  /\ Unset \notin Proposed \cup {Null}
  /\ Tokens \subseteq [Claims -> Scalars \cup {Undefined}]
  /\ Undefined \notin Scalars \cup Issuers
  /\ Unset \notin {"Accepted", "Active"}
  /\ NoAction \notin Action

vars == <<ledger, commit>>

Statuses == {"Accepted", "Active", Unset}

\* What CCF tells a handler of a caller: the claims of a token, the identity of
\* who holds a certificate, who has signed a request and if the signed content
\* is there.  Endpoints without authentication have anonymous callers.
Token == [policy : {"jwt"}, iss : Issuers \cup {Undefined}, payload : Tokens]
Holder == [policy : {"user_cert", "member_cert"}, id : Ids]
Signer == [policy : {"user_cose_sign1"}, id : Ids, signedNothing : BOOLEAN]
Other == [policy : {"none", "user_signature", "member_signature"}]

\* members is public:ccf.gov.members.info, users and certs hold the identities
\* in the certificate maps of users and members.
Entry(jwt, users, certs, members, action) ==
  [jwt |-> jwt, users |-> users, certs |-> certs, members |-> members,
   action |-> action]

Init ==
  /\ ledger = <<Entry([i \in Issuers |-> Unset], {}, {},
                     [id \in Ids |-> Unset], NoAction)>>
  /\ commit = 1

-----------------------------------------------------------------------------
(***************************************************************************)
(* Governance.                                                              *)
(***************************************************************************)

\* validate of set_jwt_validation_policy: null is an object, and a value that
\* is not in a list has to be a string.
ValidPolicy(policy) ==
  policy # Null => \A c \in DOMAIN policy :
                     policy[c].list \/ policy[c].values \subseteq Strings

\* Mutant: the policies of the other issuers go too.
ReplacedAll(jwt, issuer, policy) ==
  [i \in Issuers |-> IF i = issuer THEN policy ELSE Unset]

\* The issuer's old policy is deleted and the new one put in its place.
Replaced(jwt, issuer, policy) == [jwt EXCEPT ![issuer] = policy]

SetJwtValidationPolicy(issuer, policy) ==
  /\ ValidPolicy(policy)
  /\ Write(Entry(Replaced(Latest.jwt, issuer, policy), Latest.users,
                 Latest.certs, Latest.members,
                 [name |-> "set_jwt_validation_policy", issuer |-> issuer,
                  policy |-> policy]))

WriteUsers(users, action) ==
  Write(Entry(Latest.jwt, users, Latest.certs, Latest.members, action))

SetUser(id) ==
  WriteUsers(Latest.users \cup {id}, [name |-> "set_user", id |-> id])

RemoveUser(id) ==
  WriteUsers(Latest.users \ {id}, [name |-> "remove_user", id |-> id])

WriteMember(id, certs, status, action) ==
  Write(Entry(Latest.jwt, Latest.users, certs,
              [Latest.members EXCEPT ![id] = status], action))

\* A member set again has to be activated again.
SetMember(id) ==
  WriteMember(id, Latest.certs \cup {id}, "Accepted",
              [name |-> "set_member", id |-> id])

\* The member has acknowledged the state of the service.
ActivateMember(id) ==
  /\ Latest.members[id] # Unset
  /\ WriteMember(id, Latest.certs, "Active",
                 [name |-> "activate_member", id |-> id])

\* Mutant: the certificate stays.
RemoveMemberKeepingCert(id) ==
  WriteMember(id, Latest.certs, Unset, [name |-> "remove_member", id |-> id])

\* Who is no member is left alone.  Members have no recovery shares here:
\* removing one never fails.
RemoveMember(id) ==
  WriteMember(id,
              IF Latest.members[id] = Unset THEN Latest.certs
                                            ELSE Latest.certs \ {id},
              Unset, [name |-> "remove_member", id |-> id])

Commit == \E v \in 1 .. MaxLedger : GloballyCommit(v)

NewPrimary == \E v \in 1 .. MaxLedger : Rollback(v)

Governance ==
  \/ \E issuer \in Issuers, policy \in Proposed :
       SetJwtValidationPolicy(issuer, policy)
  \/ \E id \in Ids : SetUser(id)
  \/ \E id \in Ids : RemoveUser(id)
  \/ \E id \in Ids : SetMember(id)
  \/ \E id \in Ids : ActivateMember(id)
  \/ \E id \in Ids : RemoveMember(id)

Next == Governance \/ Commit \/ NewPrimary

Spec == Init /\ [][Next]_vars

-----------------------------------------------------------------------------
(***************************************************************************)
(* The validators: the status of their results on the maps kv.              *)
(***************************************************************************)

\* The policy of an issuer; undefined if there is none.
ReadPolicy(kv, issuer) == kv.jwt[issuer]

\* The loop over the claims that the policy names.
Compliant(policy, payload) ==
  \A c \in DOMAIN policy : payload[c] \in policy[c].values

\* JwtValidator.  A policy that is null makes it throw; the exception is
\* answered 400 by isAuthenticated.
JwtStatus(kv, caller) ==
  IF caller.iss = Undefined THEN 400
  ELSE LET policy == ReadPolicy(kv, caller.iss)
       IN  CASE policy = Unset -> 500
             [] policy = Null -> 400
             [] OTHER -> IF Compliant(policy, caller.payload) THEN 200 ELSE 401

UserCertStatus(kv, caller) == IF caller.id \in kv.users THEN 200 ELSE 400

\* Mutant: whoever has a member certificate counts as a member.
MemberCertStatusByCert(kv, caller) ==
  IF caller.id \in kv.certs THEN 200 ELSE 400

MemberCertStatus(kv, caller) ==
  IF kv.members[caller.id] = "Active" /\ caller.id \in kv.certs THEN 200 ELSE 400

\* UserCoseValidator looks the user up too, but not at the result: it relies on
\* CCF, which accepts no signature other than a user's.
UserCoseStatus(caller) == IF caller.signedNothing THEN 401 ELSE 200

\* AuthenticationService.isAuthenticated.  A kind without validator makes it
\* throw, for it compares the negation of the validator with undefined.
IsAuthenticated(kv, caller) ==
  CASE caller.policy = "none" -> 200
    [] caller.policy = "jwt" -> JwtStatus(kv, caller)
    [] caller.policy = "user_cert" -> UserCertStatus(kv, caller)
    [] caller.policy = "member_cert" -> MemberCertStatus(kv, caller)
    [] caller.policy = "user_cose_sign1" -> UserCoseStatus(caller)
    [] OTHER -> 400

-----------------------------------------------------------------------------
(***************************************************************************)
(* Properties.                                                              *)
(***************************************************************************)

Maps == [jwt : [Issuers -> Proposed \cup {Unset}],
         users : SUBSET Ids, certs : SUBSET Ids, members : [Ids -> Statuses],
         action : Action \cup {NoAction}]

\* The ledger is well formed, and the maps of member certificates and member
\* information, which the validator both asks, name the same members.
TypeOK ==
  /\ LedgerTypeOK
  /\ \A i \in 1 .. Len(ledger) :
       /\ ledger[i] \in Maps
       /\ ledger[i].certs = {id \in Ids : ledger[i].members[id] # Unset}

\* i is the last of a set of entries of the ledger.
LastIn(entries, i) == i \in entries /\ \A j \in entries : j <= i

\* The entries up to n that set the policy of an issuer.
PolicyEntries(n, issuer) ==
  {i \in 1 .. n : /\ ledger[i].action # NoAction
                  /\ ledger[i].action.name = "set_jwt_validation_policy"
                  /\ ledger[i].action.issuer = issuer}

\* A token is let in exactly if it is what the last accepted policy of its
\* issuer asks for, claim by claim.  Without a policy, or with null for one,
\* nobody is; no policy of another issuer and no lost proposal has a say.
TokensByLastPolicy ==
  \A n \in 1 .. Len(ledger), caller \in Token :
    IsAuthenticated(ledger[n], caller) = 200
    <=> \E i \in PolicyEntries(n, caller.iss) :
          /\ LastIn(PolicyEntries(n, caller.iss), i)
          /\ ledger[i].action.policy # Null
          /\ LET policy == ledger[i].action.policy
             IN  \A c \in DOMAIN policy : caller.payload[c] \in policy[c].values

\* The entries up to n that decide whether id holds a certificate of a kind.
StandingEntries(n, kind, id) ==
  {i \in 1 .. n :
     /\ ledger[i].action # NoAction
     /\ ledger[i].action.name \in
          IF kind = "user_cert" THEN {"set_user", "remove_user"}
          ELSE {"set_member", "activate_member", "remove_member"}
     /\ ledger[i].action.id = id}

\* A user is let in from set_user to remove_user; a member from the
\* activation that follows set_member until removal, or until the member is
\* set again.
HoldersByLastAction ==
  \A n \in 1 .. Len(ledger), caller \in Holder :
    LET entries == StandingEntries(n, caller.policy, caller.id)
    IN  IsAuthenticated(ledger[n], caller) = 200
        <=> \E i \in entries :
              /\ LastIn(entries, i)
              /\ ledger[i].action.name \in {"set_user", "activate_member"}
=============================================================================
