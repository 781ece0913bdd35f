------------------------ MODULE AuthenticationProofs ------------------------
(***************************************************************************)
(* Tokens are judged by the last accepted policy of their issuer, users and *)
(* members by the last action on them, for any issuers, claims, policies,   *)
(* tokens and identities, and ledgers of any length.                        *)
(*                                                                         *)
(* The invariants say where the content of the maps comes from: in every    *)
(* state of the ledger, each issuer's policy is the one of the last entry   *)
(* that set it, and who is a user or an active member was made one by the   *)
(* last action on him.  What isAuthenticated makes of it follows.           *)
(***************************************************************************)
EXTENDS Authentication, CcfLedgerProofs

\* At entry n the policy of issuer is that of the last entry that set it.
PolicyFromLast(n, issuer) ==
  \/ PolicyEntries(n, issuer) = {} /\ ledger[n].jwt[issuer] = Unset
  \/ \E i \in PolicyEntries(n, issuer) :
       /\ LastIn(PolicyEntries(n, issuer), i)
       /\ ledger[n].jwt[issuer] = ledger[i].action.policy

PolicyInv ==
  /\ TypeOK
  /\ \A n \in 1 .. Len(ledger), issuer \in Issuers : PolicyFromLast(n, issuer)

\* NoAction is a value of its own or, if not, still no wrong action: every
\* action that sets a policy says for whom and which.
LEMMA PolicyAction ==
  ASSUME TypeOK, NEW n \in 1 .. Len(ledger), NEW issuer,
         NEW i \in PolicyEntries(n, issuer)
  PROVE  /\ i \in 1 .. n
         /\ i \in 1 .. Len(ledger)
         /\ ledger[i].action.issuer = issuer
         /\ issuer \in Issuers
         /\ ledger[i].action.policy \in Proposed
<1>1. /\ i \in 1 .. n
      /\ ledger[i].action # NoAction
      /\ ledger[i].action.name = "set_jwt_validation_policy"
      /\ ledger[i].action.issuer = issuer
  BY DEF PolicyEntries
<1>2. Len(ledger) \in Nat
  BY DEF TypeOK, LedgerTypeOK
<1>3. i \in 1 .. Len(ledger)
  BY <1>1, <1>2
<1>4. ledger[i].action \in Action
  BY <1>1, <1>3 DEF TypeOK, Maps
<1>5. ledger[i].action \in [name : {"set_jwt_validation_policy"},
                            issuer : Issuers, policy : Proposed]
  BY <1>1, <1>4 DEF Action
<1> QED
  BY <1>1, <1>3, <1>5

LEMMA AuthInit == Init => PolicyInv
<1> SUFFICES ASSUME Init PROVE PolicyInv
  OBVIOUS
<1> DEFINE kv == Entry([i \in Issuers |-> Unset], {}, {}, [id \in Ids |-> Unset],
                       NoAction)
<1>1. ledger = <<kv>> /\ commit = 1
  BY DEF Init
<1>2. kv.action = NoAction /\ kv.jwt = [i \in Issuers |-> Unset]
  BY DEF Entry
<1>3. kv \in Maps
  BY DEF Maps, Entry, Statuses
<1>4. kv.certs = {id \in Ids : kv.members[id] # Unset}
  BY DEF Entry
<1> HIDE DEF kv
<1>5. /\ Len(ledger) = 1
      /\ \A i \in 1 .. Len(ledger) : i = 1 /\ ledger[i] = kv
  BY <1>1
<1>6. LedgerTypeOK
  <2>1. kv \in Entries
    BY <1>5 DEF Entries
  <2> QED
    BY <1>1, <1>5, <2>1 DEF LedgerTypeOK
<1>7. TypeOK
  BY <1>3, <1>4, <1>5, <1>6 DEF TypeOK
<1>8. ASSUME NEW issuer \in Issuers PROVE PolicyFromLast(1, issuer)
  <2>1. PolicyEntries(1, issuer) = {}
    BY <1>2, <1>5 DEF PolicyEntries
  <2> QED
    BY <1>2, <1>5, <2>1 DEF PolicyFromLast
<1> QED
  BY <1>5, <1>7, <1>8 DEF PolicyInv

\* What an entry says of the policies depends on the entries up to it only.
LEMMA PrefixUnchanged ==
  ASSUME NEW n \in Nat, NEW issuer, PolicyFromLast(n, issuer),
         n > 0, \A i \in 1 .. n : ledger'[i] = ledger[i]
  PROVE  PolicyFromLast(n, issuer)'
<1>1. PolicyEntries(n, issuer)' = PolicyEntries(n, issuer)
  BY DEF PolicyEntries
<1>2. n \in 1 .. n
  OBVIOUS
<1>3. \A i \in PolicyEntries(n, issuer) : ledger'[i] = ledger[i]
  BY DEF PolicyEntries
<1> QED
  BY <1>1, <1>2, <1>3 DEF PolicyFromLast, LastIn

\* An entry that governance writes: well formed, and with the policies of the
\* one before unless the action sets one.
GoodEntry(kv) ==
  /\ kv \in Maps
  /\ kv.certs = {id \in Ids : kv.members[id] # Unset}
  /\ \/ \E issuer \in Issuers, policy \in Proposed :
          /\ kv.action = [name |-> "set_jwt_validation_policy",
                          issuer |-> issuer, policy |-> policy]
          /\ kv.jwt = [Latest.jwt EXCEPT ![issuer] = policy]
     \/ /\ kv.jwt = Latest.jwt
        /\ kv.action.name # "set_jwt_validation_policy"

\* Actions on users and members write good entries.
LEMMA HolderEntry ==
  ASSUME NEW users \in SUBSET Ids, NEW certs \in SUBSET Ids,
         NEW members \in [Ids -> Statuses],
         Latest.jwt \in [Issuers -> Proposed \cup {Unset}],
         certs = {x \in Ids : members[x] # Unset},
         NEW name \in {"set_user", "remove_user", "set_member",
                       "activate_member", "remove_member"},
         NEW id \in Ids
  PROVE  GoodEntry(Entry(Latest.jwt, users, certs, members,
                         [name |-> name, id |-> id]))
<1> DEFINE kv == Entry(Latest.jwt, users, certs, members,
                       [name |-> name, id |-> id])
<1>1. kv \in Maps
  BY DEF Maps, Entry, Action
<1>2. /\ kv.certs = certs /\ kv.members = members /\ kv.jwt = Latest.jwt
      /\ kv.action.name # "set_jwt_validation_policy"
  BY DEF Entry
<1> QED
  BY <1>1, <1>2 DEF GoodEntry

LEMMA GovernanceEntry ==
  ASSUME TypeOK, Governance
  PROVE  \E kv : Write(kv) /\ GoodEntry(kv)
<1>1. /\ Latest \in Maps
      /\ Latest.certs = {id \in Ids : Latest.members[id] # Unset}
  BY DEF TypeOK, LedgerTypeOK, Latest
<1>2. /\ Latest.jwt \in [Issuers -> Proposed \cup {Unset}]
      /\ Latest.users \in SUBSET Ids
      /\ Latest.certs \in SUBSET Ids
      /\ Latest.members \in [Ids -> Statuses]
  BY <1>1 DEF Maps
<1>3. ASSUME NEW issuer \in Issuers, NEW policy \in Proposed,
             SetJwtValidationPolicy(issuer, policy)
      PROVE  \E kv : Write(kv) /\ GoodEntry(kv)
  <2> DEFINE action == [name |-> "set_jwt_validation_policy",
                        issuer |-> issuer, policy |-> policy]
             jwt == [Latest.jwt EXCEPT ![issuer] = policy]
             kv == Entry(jwt, Latest.users, Latest.certs, Latest.members, action)
  <2>1. Write(kv)
    BY <1>3 DEF SetJwtValidationPolicy, Replaced
  <2>2. kv \in Maps
    BY <1>2 DEF Maps, Entry, Action
  <2>3. /\ kv.certs = Latest.certs /\ kv.members = Latest.members
        /\ kv.jwt = jwt /\ kv.action = action
    BY DEF Entry
  <2>4. GoodEntry(kv)
    BY <1>1, <2>2, <2>3 DEF GoodEntry
  <2> QED
    BY <2>1, <2>4
<1>4. ASSUME NEW id \in Ids, SetUser(id) \/ RemoveUser(id)
      PROVE  \E kv : Write(kv) /\ GoodEntry(kv)
  BY <1>1, <1>2, <1>4, HolderEntry DEF SetUser, RemoveUser, WriteUsers
<1>5. ASSUME NEW id \in Ids,
             SetMember(id) \/ ActivateMember(id) \/ RemoveMember(id)
      PROVE  \E kv : Write(kv) /\ GoodEntry(kv)
  <2> DEFINE With(status) == [Latest.members EXCEPT ![id] = status]
  <2>1. With("Accepted") \in [Ids -> Statuses]
        /\ With("Active") \in [Ids -> Statuses]
        /\ With(Unset) \in [Ids -> Statuses]
    BY <1>2 DEF Statuses
  <2>2. CASE SetMember(id)
    <3>1. Latest.certs \cup {id} = {x \in Ids : With("Accepted")[x] # Unset}
      BY <1>1, <1>2, AuthenticationAssumption
    <3> QED
      BY <1>2, <2>1, <2>2, <3>1, HolderEntry DEF SetMember, WriteMember
  <2>3. CASE ActivateMember(id)
    <3>1. Latest.certs = {x \in Ids : With("Active")[x] # Unset}
      BY <1>1, <1>2, <2>3, AuthenticationAssumption DEF ActivateMember
    <3> QED
      BY <1>2, <2>1, <2>3, <3>1, HolderEntry DEF ActivateMember, WriteMember
  <2>4. CASE RemoveMember(id)
    <3>1. (IF Latest.members[id] = Unset THEN Latest.certs
                                        ELSE Latest.certs \ {id})
            = {x \in Ids : With(Unset)[x] # Unset}
      BY <1>1, <1>2
    <3> QED
      BY <1>2, <2>1, <2>4, <3>1, HolderEntry DEF RemoveMember, WriteMember
  <2> QED
    BY <1>5, <2>2, <2>3, <2>4
<1> QED
  BY <1>3, <1>4, <1>5 DEF Governance

LEMMA AuthStep == PolicyInv /\ [Next]_vars => PolicyInv'
<1> SUFFICES ASSUME PolicyInv, [Next]_vars PROVE PolicyInv'
  OBVIOUS
<1> USE DEF PolicyInv
<1>0. Len(ledger) \in Nat \ {0} /\ LedgerTypeOK
  BY DEF TypeOK, LedgerTypeOK
<1>1. CASE Governance
  <2> SUFFICES ASSUME NEW n \in Nat, n = Len(ledger)
               PROVE  PolicyInv'
    BY <1>0
  <2>1. PICK kv : Write(kv) /\ GoodEntry(kv)
    BY <1>1, GovernanceEntry
  <2>2. /\ LedgerTypeOK'
        /\ Len(ledger') = n + 1
        /\ ledger'[n + 1] = kv
        /\ \A i \in 1 .. n : ledger'[i] = ledger[i]
    BY <1>0, <2>1, WriteStep
  <2>3. TypeOK'
    BY <1>0, <2>1, <2>2 DEF TypeOK, GoodEntry
  <2>4. ASSUME NEW m \in 1 .. n, NEW issuer \in Issuers
        PROVE  PolicyFromLast(m, issuer)'
    BY <1>0, <2>2, PrefixUnchanged
  <2>5. ASSUME NEW m, m = n + 1, NEW issuer \in Issuers
        PROVE  PolicyFromLast(m, issuer)'
    <3>1. /\ n \in 1 .. n
          /\ Latest = ledger[n]
          /\ Latest.jwt \in [Issuers -> Proposed \cup {Unset}]
      BY <1>0 DEF Latest, TypeOK, Maps
    <3>2. PolicyFromLast(n, issuer)
      BY <3>1
    <3>3. /\ \A i \in 1 .. n : i \in 1 .. m /\ i <= m /\ ledger'[i] = ledger[i]
          /\ \A i \in 1 .. m : i \in 1 .. n \/ i = m
          /\ m \in 1 .. m /\ m <= m /\ ledger'[m] = kv
      BY <2>2, <2>5
    <3>4. CASE /\ kv.action # NoAction
               /\ kv.action.name = "set_jwt_validation_policy"
               /\ kv.action.issuer = issuer
               /\ kv.jwt[issuer] = kv.action.policy
      <4>1. m \in PolicyEntries(m, issuer)'
        BY <3>3, <3>4 DEF PolicyEntries
      <4>2. \A j \in PolicyEntries(m, issuer)' : j <= m
        BY <3>3 DEF PolicyEntries
      <4> QED
        BY <3>3, <3>4, <4>1, <4>2 DEF PolicyFromLast, LastIn
    <3>5. CASE /\ kv.jwt[issuer] = Latest.jwt[issuer]
               /\ \/ kv.action = NoAction
                  \/ kv.action.name # "set_jwt_validation_policy"
                  \/ kv.action.issuer # issuer
      <4>1. PolicyEntries(m, issuer)' = PolicyEntries(n, issuer)
        BY <3>3, <3>5 DEF PolicyEntries
      <4>2. \A i \in PolicyEntries(n, issuer) : ledger'[i] = ledger[i]
        BY <3>3 DEF PolicyEntries
      <4> QED
        BY <3>1, <3>2, <3>3, <3>5, <4>1, <4>2 DEF PolicyFromLast, LastIn
    <3> QED
      <4>1. CASE kv.jwt = Latest.jwt /\ kv.action.name # "set_jwt_validation_policy"
        BY <3>5, <4>1
      <4>2. ASSUME NEW other \in Issuers, NEW policy \in Proposed,
                   kv.action = [name |-> "set_jwt_validation_policy",
                                issuer |-> other, policy |-> policy],
                   kv.jwt = [Latest.jwt EXCEPT ![other] = policy]
            PROVE  PolicyFromLast(m, issuer)'
        <5>1. /\ kv.action.name = "set_jwt_validation_policy"
              /\ kv.action.issuer = other
              /\ kv.action.policy = policy
          BY <4>2
        <5>2. kv.jwt[issuer] = IF issuer = other THEN policy ELSE Latest.jwt[issuer]
          BY <3>1, <4>2
        <5>3. kv.action # NoAction
          <6>1. kv.action \in Action
            BY <4>2 DEF Action
          <6> QED
            BY <6>1, AuthenticationAssumption
        <5> QED
          BY <3>4, <3>5, <5>1, <5>2, <5>3
      <4> QED
        BY <2>1, <4>1, <4>2 DEF GoodEntry
  <2>6. \A m \in 1 .. Len(ledger') : m \in 1 .. n \/ m = n + 1
    BY <2>2
  <2> QED
    BY <2>3, <2>4, <2>5, <2>6
<1>2. CASE Commit
  <2>1. LedgerTypeOK' /\ ledger' = ledger
    BY <1>0, <1>2, GloballyCommitStep DEF Commit
  <2> QED
    BY <2>1 DEF TypeOK, PolicyFromLast, PolicyEntries, LastIn
<1>3. CASE NewPrimary
  <2>1. PICK v \in 1 .. MaxLedger : Rollback(v)
    BY <1>3 DEF NewPrimary
  <2>2. /\ LedgerTypeOK'
        /\ v \in 1 .. Len(ledger)
        /\ Len(ledger') = v
        /\ \A i \in 1 .. v : ledger'[i] = ledger[i]
    BY <1>0, <2>1, RollbackStep DEF LedgerTypeOK
  <2>3. TypeOK'
    BY <1>0, <2>2 DEF TypeOK
  <2>4. ASSUME NEW m \in 1 .. v, NEW issuer \in Issuers
        PROVE  PolicyFromLast(m, issuer)'
    <3>1. m \in 1 .. Len(ledger) /\ \A i \in 1 .. m : i \in 1 .. v
      BY <1>0, <2>2
    <3> QED
      BY <1>0, <2>2, <3>1, PrefixUnchanged
  <2> QED
    BY <2>2, <2>3, <2>4
<1>4. CASE UNCHANGED vars
  <2>1. ledger' = ledger /\ commit' = commit
    BY <1>4 DEF vars
  <2>2. LedgerTypeOK'
    BY <1>0, <2>1 DEF LedgerTypeOK, Entries
  <2> QED
    BY <2>1, <2>2 DEF TypeOK, PolicyFromLast, PolicyEntries, LastIn
<1> QED
  BY <1>1, <1>2, <1>3, <1>4 DEF Next

\* The verdict follows from where the policy comes from.
LEMMA PolicyDecides == PolicyInv => TokensByLastPolicy
<1> SUFFICES ASSUME PolicyInv, NEW n \in 1 .. Len(ledger), NEW caller \in Token
             PROVE  IsAuthenticated(ledger[n], caller) = 200
                    <=> \E i \in PolicyEntries(n, caller.iss) :
                          /\ LastIn(PolicyEntries(n, caller.iss), i)
                          /\ ledger[i].action.policy # Null
                          /\ LET policy == ledger[i].action.policy
                             IN  \A c \in DOMAIN policy :
                                   caller.payload[c] \in policy[c].values
  BY DEF TokensByLastPolicy
<1>1. /\ TypeOK
      /\ IsAuthenticated(ledger[n], caller) = JwtStatus(ledger[n], caller)
      /\ caller.iss \in Issuers \cup {Undefined}
  BY DEF PolicyInv, Token, IsAuthenticated
<1>2. CASE caller.iss = Undefined
  <2>1. caller.iss \notin Issuers
    BY <1>2, AuthenticationAssumption
  <2>2. PolicyEntries(n, caller.iss) = {}
    BY <1>1, <2>1, PolicyAction
  <2> QED
    BY <1>1, <1>2, <2>2 DEF JwtStatus
<1>3. CASE caller.iss \in Issuers
  <2> DEFINE issuer == caller.iss
             policy == ledger[n].jwt[issuer]
  <2>1. issuer # Undefined
    BY <1>3, AuthenticationAssumption
  <2>2. PolicyFromLast(n, issuer)
    BY <1>3 DEF PolicyInv
  <2>3. CASE PolicyEntries(n, issuer) = {} /\ policy = Unset
    BY <1>1, <2>1, <2>3 DEF JwtStatus, ReadPolicy
  <2>4. CASE \E i \in PolicyEntries(n, issuer) :
               /\ LastIn(PolicyEntries(n, issuer), i)
               /\ policy = ledger[i].action.policy
    <3>1. PICK i \in PolicyEntries(n, issuer) :
            /\ LastIn(PolicyEntries(n, issuer), i)
            /\ policy = ledger[i].action.policy
      BY <2>4
    <3>2. policy # Unset
      BY <1>1, <3>1, PolicyAction, AuthenticationAssumption
    <3>3. JwtStatus(ledger[n], caller) = 200
            <=> policy # Null /\ Compliant(policy, caller.payload)
      BY <2>1, <3>2 DEF JwtStatus, ReadPolicy
    <3>4. \A j \in PolicyEntries(n, issuer) :
            LastIn(PolicyEntries(n, issuer), j) => j = i
      <4>1. \A j \in PolicyEntries(n, issuer) : j \in Int
        BY DEF PolicyEntries
      <4> QED
        BY <3>1, <4>1 DEF LastIn
    <3> QED
      BY <1>1, <3>1, <3>3, <3>4 DEF Compliant
  <2> QED
    BY <2>2, <2>3, <2>4 DEF PolicyFromLast
<1> QED
  BY <1>1, <1>2, <1>3

\* The maps that authentication reads are well formed in every reachable
\* state; in particular the two maps about members name the same ones.
THEOREM MapsTyped == Spec => []TypeOK
<1>1. PolicyInv => TypeOK
  BY DEF PolicyInv
<1> QED
  BY AuthInit, AuthStep, <1>1, PTL DEF Spec

\* JwtValidator lets in exactly the tokens that the last accepted policy of
\* their issuer asks for, on whatever state of the ledger a node answers from.
THEOREM TokensJudgedByLastPolicy == Spec => []TokensByLastPolicy
BY AuthInit, AuthStep, PolicyDecides, PTL DEF Spec

-----------------------------------------------------------------------------
(***************************************************************************)
(* Users and members.                                                       *)
(***************************************************************************)

Kinds == {"user_cert", "member_cert"}

\* The actions that decide whether id stands as a user or member, and those
\* after which he does.
Standings(kind) ==
  IF kind = "user_cert" THEN {"set_user", "remove_user"}
  ELSE {"set_member", "activate_member", "remove_member"}

Granting == {"set_user", "activate_member"}

Decides(action, kind, id) ==
  action # NoAction /\ action.name \in Standings(kind) /\ action.id = id

\* What the maps kv say of id.
Standing(kv, kind, id) ==
  IF kind = "user_cert" THEN id \in kv.users ELSE kv.members[id] = "Active"

\* At entry n they say what the last action on id made of him.
StandingFromLast(n, kind, id) ==
  Standing(ledger[n], kind, id)
  <=> \E i \in StandingEntries(n, kind, id) :
        /\ LastIn(StandingEntries(n, kind, id), i)
        /\ ledger[i].action.name \in Granting

StandingInv ==
  \A n \in 1 .. Len(ledger), kind \in Kinds, id \in Ids :
    StandingFromLast(n, kind, id)

LEMMA StandingEntriesFact ==
  ASSUME NEW n, NEW kind, NEW id
  PROVE  StandingEntries(n, kind, id)
           = {i \in 1 .. n : Decides(ledger[i].action, kind, id)}
BY DEF StandingEntries, Decides, Standings

\* The entry kv either decides on id, and lets him stand accordingly, or leaves
\* him as he is.
StandingKept(kv, kind, id) ==
  IF Decides(kv.action, kind, id)
  THEN Standing(kv, kind, id) <=> kv.action.name \in Granting
  ELSE Standing(kv, kind, id) <=> Standing(Latest, kind, id)

\* Every action of governance writes such an entry.
LEMMA GovernanceStanding ==
  ASSUME TypeOK, Governance
  PROVE  \E kv : /\ Write(kv)
                 /\ \A kind \in Kinds, id \in Ids : StandingKept(kv, kind, id)
<1> DEFINE Good(kv) == \A kind \in Kinds, id \in Ids : StandingKept(kv, kind, id)
<1>1. Latest.members \in [Ids -> Statuses]
  BY DEF TypeOK, LedgerTypeOK, Latest, Maps
<1>2. ASSUME NEW issuer \in Issuers, NEW policy \in Proposed,
             SetJwtValidationPolicy(issuer, policy)
      PROVE  \E kv : Write(kv) /\ Good(kv)
  <2> DEFINE action == [name |-> "set_jwt_validation_policy",
                        issuer |-> issuer, policy |-> policy]
             kv == Entry([Latest.jwt EXCEPT ![issuer] = policy], Latest.users,
                         Latest.certs, Latest.members, action)
  <2>1. Write(kv)
    BY <1>2 DEF SetJwtValidationPolicy, Replaced
  <2>2. /\ kv.users = Latest.users /\ kv.members = Latest.members
        /\ kv.action.name = "set_jwt_validation_policy"
    BY DEF Entry
  <2> HIDE DEF kv
  <2>3. Good(kv)
    BY <2>2 DEF StandingKept, Decides, Standings, Standing
  <2> QED
    BY <2>1, <2>3
<1>3. ASSUME NEW name \in {"set_user", "remove_user", "set_member",
                           "activate_member", "remove_member"},
             NEW id \in Ids
      PROVE  [name |-> name, id |-> id] # NoAction
  <2>1. [name |-> name, id |-> id] \in Action
    BY DEF Action
  <2> QED
    BY <2>1, AuthenticationAssumption
<1>4. ASSUME NEW id \in Ids, NEW name \in {"set_user", "remove_user"},
             NEW users, \A x \in Ids \ {id} : x \in users <=> x \in Latest.users,
             id \in users <=> name = "set_user",
             WriteUsers(users, [name |-> name, id |-> id])
      PROVE  \E kv : Write(kv) /\ Good(kv)
  <2> DEFINE kv == Entry(Latest.jwt, users, Latest.certs, Latest.members,
                         [name |-> name, id |-> id])
  <2>1. Write(kv)
    BY <1>4 DEF WriteUsers
  <2>2. /\ kv.users = users /\ kv.members = Latest.members
        /\ kv.action.name = name /\ kv.action.id = id
        /\ kv.action # NoAction
    BY <1>3 DEF Entry
  <2> HIDE DEF kv
  <2>3. Good(kv)
    BY <1>4, <2>2 DEF StandingKept, Decides, Standings, Standing, Granting, Kinds
  <2> QED
    BY <2>1, <2>3
<1>5. ASSUME NEW id \in Ids,
             NEW name \in {"set_member", "activate_member", "remove_member"},
             NEW certs, NEW status, status = "Active" <=> name = "activate_member",
             WriteMember(id, certs, status, [name |-> name, id |-> id])
      PROVE  \E kv : Write(kv) /\ Good(kv)
  <2> DEFINE kv == Entry(Latest.jwt, Latest.users, certs,
                         [Latest.members EXCEPT ![id] = status],
                         [name |-> name, id |-> id])
  <2>1. Write(kv)
    BY <1>5 DEF WriteMember
  <2>2. /\ kv.users = Latest.users
        /\ kv.members = [Latest.members EXCEPT ![id] = status]
        /\ kv.action.name = name /\ kv.action.id = id
        /\ kv.action # NoAction
    BY <1>3 DEF Entry
  <2>3. /\ kv.members[id] = status
        /\ \A x \in Ids \ {id} : kv.members[x] = Latest.members[x]
    BY <1>1, <2>2
  <2> HIDE DEF kv
  <2>4. Good(kv)
    BY <1>5, <2>2, <2>3
       DEF StandingKept, Decides, Standings, Standing, Granting, Kinds
  <2> QED
    BY <2>1, <2>4
<1>6. ASSUME NEW id \in Ids, SetUser(id) \/ RemoveUser(id)
      PROVE  \E kv : Write(kv) /\ Good(kv)
  BY <1>4, <1>6 DEF SetUser, RemoveUser
<1>7. ASSUME NEW id \in Ids,
             SetMember(id) \/ ActivateMember(id) \/ RemoveMember(id)
      PROVE  \E kv : Write(kv) /\ Good(kv)
  <2>1. "Accepted" # "Active" /\ Unset # "Active"
    BY AuthenticationAssumption
  <2> QED
    BY <1>5, <1>7, <2>1 DEF SetMember, ActivateMember, RemoveMember
<1> QED
  BY <1>2, <1>6, <1>7 DEF Governance

\* What an entry says of the standings depends on the entries up to it only.
LEMMA StandingPrefix ==
  ASSUME NEW n \in Nat, NEW kind, NEW id, StandingFromLast(n, kind, id),
         n > 0, \A i \in 1 .. n : ledger'[i] = ledger[i]
  PROVE  StandingFromLast(n, kind, id)'
<1>1. StandingEntries(n, kind, id)' = StandingEntries(n, kind, id)
  BY DEF StandingEntries
<1>2. n \in 1 .. n
  OBVIOUS
<1>3. \A i \in StandingEntries(n, kind, id) : ledger'[i] = ledger[i]
  BY DEF StandingEntries
<1> QED
  BY <1>1, <1>2, <1>3 DEF StandingFromLast, LastIn, Standing

\* A new entry that decides as its action says, or leaves things as they are.
LEMMA StandingWrite ==
  ASSUME NEW n \in Nat \ {0}, n = Len(ledger), NEW kv, NEW kind, NEW id,
         StandingFromLast(n, kind, id), StandingKept(kv, kind, id),
         \A i \in 1 .. n : ledger'[i] = ledger[i], ledger'[n + 1] = kv
  PROVE  StandingFromLast(n + 1, kind, id)'
<1> DEFINE m == n + 1
<1>1. /\ \A i \in 1 .. n : i \in 1 .. m /\ i <= m /\ ledger'[i] = ledger[i]
      /\ \A i \in 1 .. m : i \in 1 .. n \/ i = m
      /\ m \in 1 .. m /\ m <= m /\ ledger'[m] = kv
      /\ Latest = ledger[n]
      /\ \A i \in 1 .. n : ~ m <= i
  BY DEF Latest
<1>2. StandingEntries(m, kind, id)'
        = {i \in 1 .. m : Decides(ledger'[i].action, kind, id)}
  BY DEF StandingEntries, Decides, Standings
<1> HIDE DEF m
<1>3. CASE Decides(kv.action, kind, id)
  <2>1. m \in StandingEntries(m, kind, id)'
    BY <1>1, <1>2, <1>3
  <2>2. \A i \in StandingEntries(m, kind, id)' : i <= m /\ (i # m => ~ m <= i)
    BY <1>1, <1>2
  <2>3. Standing(kv, kind, id) <=> kv.action.name \in Granting
    BY <1>3 DEF StandingKept
  <2>4. StandingFromLast(m, kind, id)'
          <=> (Standing(kv, kind, id) <=> kv.action.name \in Granting)
    BY <1>1, <2>1, <2>2 DEF StandingFromLast, LastIn, Standing
  <2> QED
    BY <2>3, <2>4 DEF m
<1>4. CASE ~ Decides(kv.action, kind, id)
  <2>1. StandingEntries(m, kind, id)' = StandingEntries(n, kind, id)
    BY <1>1, <1>2, <1>4, StandingEntriesFact
  <2>2. \A i \in StandingEntries(n, kind, id) : ledger'[i] = ledger[i]
    BY <1>1 DEF StandingEntries
  <2>3. Standing(kv, kind, id) <=> Standing(ledger[n], kind, id)
    BY <1>1, <1>4 DEF StandingKept
  <2>4. StandingFromLast(m, kind, id)'
          <=> (Standing(kv, kind, id)
               <=> \E i \in StandingEntries(n, kind, id) :
                     /\ LastIn(StandingEntries(n, kind, id), i)
                     /\ ledger[i].action.name \in Granting)
    BY <1>1, <2>1, <2>2 DEF StandingFromLast, LastIn, Standing
  <2> QED
    BY <2>3, <2>4 DEF StandingFromLast, m
<1> QED
  BY <1>3, <1>4

LEMMA StandingInit == Init => StandingInv
<1> SUFFICES ASSUME Init, NEW kind \in Kinds, NEW id \in Ids
             PROVE  StandingFromLast(1, kind, id)
  BY DEF Init, StandingInv
<1>1. /\ ledger[1].action = NoAction
      /\ ledger[1].users = {} /\ ledger[1].members[id] = Unset
  BY DEF Init, Entry
<1>2. StandingEntries(1, kind, id) = {}
  BY <1>1 DEF StandingEntries
<1>3. ~ Standing(ledger[1], kind, id)
  BY <1>1, AuthenticationAssumption DEF Standing
<1> QED
  BY <1>2, <1>3 DEF StandingFromLast

LEMMA StandingStep == TypeOK /\ StandingInv /\ [Next]_vars => StandingInv'
<1> SUFFICES ASSUME TypeOK, StandingInv, [Next]_vars PROVE StandingInv'
  OBVIOUS
<1>0. Len(ledger) \in Nat \ {0} /\ LedgerTypeOK
  BY DEF TypeOK, LedgerTypeOK
<1>1. CASE Governance
  <2> SUFFICES ASSUME NEW n \in Nat \ {0}, n = Len(ledger)
               PROVE  StandingInv'
    BY <1>0
  <2>1. PICK kv : /\ Write(kv)
                  /\ \A kind \in Kinds, id \in Ids : StandingKept(kv, kind, id)
    BY <1>1, GovernanceStanding
  <2>2. /\ Len(ledger') = n + 1
        /\ ledger'[n + 1] = kv
        /\ \A i \in 1 .. n : ledger'[i] = ledger[i]
    BY <1>0, <2>1, WriteStep
  <2>3. ASSUME NEW m \in 1 .. n, NEW kind \in Kinds, NEW id \in Ids
        PROVE  StandingFromLast(m, kind, id)'
    BY <2>2, StandingPrefix DEF StandingInv
  <2>4. ASSUME NEW kind \in Kinds, NEW id \in Ids
        PROVE  StandingFromLast(n + 1, kind, id)'
    <3>1. StandingFromLast(n, kind, id)
      BY DEF StandingInv
    <3> QED
      BY <2>1, <2>2, <3>1, StandingWrite
  <2>5. \A m \in 1 .. Len(ledger') : m \in 1 .. n \/ m = n + 1
    BY <2>2
  <2> QED
    BY <2>3, <2>4, <2>5 DEF StandingInv
<1>2. CASE Commit \/ UNCHANGED vars
  <2>1. ledger' = ledger
    BY <1>2 DEF Commit, GloballyCommit, vars
  <2> QED
    BY <2>1 DEF StandingInv, StandingFromLast, StandingEntries, Standing, LastIn
<1>3. CASE NewPrimary
  <2>1. PICK v \in 1 .. MaxLedger : Rollback(v)
    BY <1>3 DEF NewPrimary
  <2>2. /\ v \in 1 .. Len(ledger)
        /\ Len(ledger') = v
        /\ \A i \in 1 .. v : ledger'[i] = ledger[i]
    BY <1>0, <2>1, RollbackStep DEF LedgerTypeOK
  <2>3. ASSUME NEW m \in 1 .. v, NEW kind \in Kinds, NEW id \in Ids
        PROVE  StandingFromLast(m, kind, id)'
    <3>1. m \in 1 .. Len(ledger) /\ \A i \in 1 .. m : i \in 1 .. v
      BY <1>0, <2>2
    <3> QED
      BY <1>0, <2>2, <3>1, StandingPrefix DEF StandingInv
  <2> QED
    BY <2>2, <2>3 DEF StandingInv
<1> QED
  BY <1>1, <1>2, <1>3 DEF Next

\* Users are let in from set_user to remove_user, members from the activation
\* that follows set_member until they are removed or set again, on whatever
\* state of the ledger a node answers from.
THEOREM HoldersJudgedByLastAction == Spec => []HoldersByLastAction
<1>1. ASSUME TypeOK, StandingInv PROVE HoldersByLastAction
  <2> SUFFICES ASSUME NEW n \in 1 .. Len(ledger), NEW caller \in Holder
               PROVE  LET entries == StandingEntries(n, caller.policy, caller.id)
                      IN  IsAuthenticated(ledger[n], caller) = 200
                          <=> \E i \in entries :
                                /\ LastIn(entries, i)
                                /\ ledger[i].action.name \in
                                     {"set_user", "activate_member"}
    BY DEF HoldersByLastAction
  <2>1. caller.policy \in Kinds /\ caller.id \in Ids
    BY DEF Holder, Kinds
  <2>2. caller.id \in ledger[n].certs <=> ledger[n].members[caller.id] # Unset
    BY <1>1, <2>1 DEF TypeOK
  <2>3. IsAuthenticated(ledger[n], caller) = 200
          <=> Standing(ledger[n], caller.policy, caller.id)
    <3>1. CASE caller.policy = "user_cert"
      BY <3>1 DEF IsAuthenticated, UserCertStatus, Standing
    <3>2. CASE caller.policy = "member_cert"
      BY <2>2, <3>2, AuthenticationAssumption
         DEF IsAuthenticated, MemberCertStatus, Standing
    <3> QED
      BY <2>1, <3>1, <3>2 DEF Kinds
  <2>4. StandingFromLast(n, caller.policy, caller.id)
    BY <1>1, <2>1 DEF StandingInv
  <2> QED
    BY <2>3, <2>4 DEF StandingFromLast, Granting
<1> QED
  BY <1>1, MapsTyped, StandingInit, StandingStep, PTL DEF Spec
=============================================================================
