-------------------------- MODULE MCAuthentication --------------------------
(***************************************************************************)
(* Instances of Authentication for TLC.                                     *)
(***************************************************************************)
EXTENDS Authentication

CONSTANTS hwmodel, secboot, snp, tdx, true, false

Exactly(value) == [list |-> FALSE, values |-> {value}]
OneOf(values) == [list |-> TRUE, values |-> values]

\* The policy of governance/jwt/set_jwt_gcp_validation_policy_proposal.json,
\* without iss.  It asks for a boolean outside of a list.
GcpPolicy ==
  [c \in {hwmodel, secboot} |->
     IF c = hwmodel THEN Exactly(snp) ELSE Exactly(true)]

\* Nothing asked for, one value, one of several, two claims, a boolean in a
\* list and outside of one, and null.
AllPolicies ==
  {<<>>, [c \in {hwmodel} |-> Exactly(snp)],
   [c \in {hwmodel} |-> OneOf({snp, tdx})],
   [c \in {hwmodel, secboot} |->
      IF c = hwmodel THEN Exactly(snp) ELSE OneOf({true})],
   GcpPolicy, Null}

\* Right and wrong values, a claim that is missing and one of the wrong type.
Claiming(x, y) == [c \in {hwmodel, secboot} |-> IF c = hwmodel THEN x ELSE y]
SomeTokens == {Claiming(snp, true), Claiming(snp, false), Claiming(tdx, true),
               Claiming(snp, Undefined), Claiming(Undefined, snp)}
=============================================================================
