-------------------------- MODULE KeyReleasePolicy --------------------------
(***************************************************************************)
(* The key release policies: which attestations get private keys.  There is *)
(* one policy for each cloud provider, edited by the proposal actions       *)
(* set_key_release_policy and set_gcp_key_release_policy, which add and      *)
(* remove single values instead of replacing the policy.  validateAttesta-  *)
(* tion measures the claims of a verified attestation against the policy.   *)
(*                                                                         *)
(* A policy has three parts, each missing until an edit creates it: claims  *)
(* lists the values allowed for a claim, gte and gt hold a lower bound for a *)
(* claim.  Values are integers here: the code compares claims as strings    *)
(* and bounds as numbers, which on integers is the comparison of integers.  *)
(*                                                                         *)
(* An edit that throws leaves no trace (see Proposals).  As in KeyLifecycle, *)
(* a definition marked "Mutant" is a plausible slip in one after it.        *)
(***************************************************************************)
EXTENDS CcfLedger, SequencesExt

CONSTANTS
  AllClaims,      \* names of claims
  Claims,         \* those in the table CLAIMS of the actions
  Values,         \* values of claims and bounds
  Edits,          \* the arguments of the actions that proposals contain
  Missing,        \* a part of a policy, or of an edit, that is not there
  Deleted,        \* a claim whose list has been emptied
  Failed,         \* the action threw
  Undefined,      \* the value of a claim the attestation does not have
  NoEdit          \* the entry of the ledger is not an edit

IsMap(f, S, T) == DOMAIN f \subseteq S /\ f \in [DOMAIN f -> T]

\* A list is a JavaScript array; the bounds of an edit are single values.
IsEdit(e) ==
  /\ e.type \in {"add", "remove", "other"}
  /\ IsMap(e.claims, AllClaims, Seq(Values))
  /\ e.gte = Missing \/ IsMap(e.gte, AllClaims, Values)
  /\ e.gt = Missing \/ IsMap(e.gt, AllClaims, Values)

ASSUME PolicyAssumption ==
  /\ Claims \subseteq AllClaims
  /\ Values \subseteq Int
  /\ \A e \in Edits : IsEdit(e)
  /\ \A S \in SUBSET AllClaims :
       Missing \notin [S -> Seq(Values)] \cup [S -> Values]
  /\ Deleted \notin Seq(Values)
  /\ Failed \notin Seq(Values) \cup {Deleted}
  /\ Undefined \notin Values
  /\ NoEdit \notin Edits

Providers == {"azure", "gcp"}
Operators == {"gte", "gt"}

vars == <<ledger, commit>>

NoPolicy == [claims |-> Missing, gte |-> Missing, gt |-> Missing]

\* policies are the maps keyReleasePolicyMap and gcpKeyReleasePolicyMap; edit
\* and provider name the action that wrote the entry.
Init ==
  /\ ledger = <<[policies |-> [p \in Providers |-> NoPolicy],
                 edit |-> NoEdit, provider |-> "azure"]>>
  /\ commit = 1

-----------------------------------------------------------------------------
(***************************************************************************)
(* Edits.  A part of a policy goes in, with the part of the edit that       *)
(* concerns it; the new part or Failed comes out.                           *)
(***************************************************************************)

OrEmpty(part) == IF part = Missing THEN <<>> ELSE part

\* Mutant: a value is listed once more each time it is added.
AddValueAgain(list, value) == Append(list, value)

AddValue(list, value) ==
  IF Contains(list, value) THEN list ELSE Append(list, value)

\* Mutant: adding to a claim replaces its values.
AddValuesReplacing(list, item) == FoldLeft(AddValue, <<>>, item)

\* The values of an edit go to the end of the list, without duplicates.
AddValues(list, item) == FoldLeft(AddValue, list, item)

AddClaims(part, claims) ==
  LET lists == OrEmpty(part)
  IN  IF ~ DOMAIN claims \subseteq Claims THEN Failed
      ELSE [c \in DOMAIN lists \cup DOMAIN claims |->
              IF c \notin DOMAIN claims THEN lists[c]
              ELSE AddValues(IF c \in DOMAIN lists THEN lists[c] ELSE <<>>,
                             claims[c])]

\* items[key].filter: what is not value, in the same order.
Without(list, value) ==
  LET Keep(kept, other) == IF other = value THEN kept ELSE Append(kept, other)
  IN  FoldLeft(Keep, <<>>, list)

\* A list that becomes empty is deleted, and one more value is filtered out of
\* undefined then, which throws.
RemoveValue(list, value) ==
  IF list \in {Deleted, Failed} THEN Failed
  ELSE IF Without(list, value) = <<>> THEN Deleted
  ELSE Without(list, value)

RemoveValues(list, item) == FoldLeft(RemoveValue, list, item)

RemoveClaims(part, claims) ==
  LET left == [c \in DOMAIN claims |-> RemoveValues(part[c], claims[c])]
  IN  IF \/ part = Missing
         \/ ~ DOMAIN claims \subseteq Claims \cap DOMAIN part
         \/ \E c \in DOMAIN claims : left[c] = Failed
      THEN Failed
      ELSE [c \in DOMAIN part \ {c \in DOMAIN claims : left[c] = Deleted} |->
              IF c \in DOMAIN claims THEN left[c] ELSE part[c]]

\* An operator the edit does not have is left alone.
AddOperator(part, bounds) ==
  IF bounds = Missing THEN part
  ELSE IF ~ DOMAIN bounds \subseteq Claims THEN Failed
  ELSE [c \in DOMAIN OrEmpty(part) \cup DOMAIN bounds |->
          IF c \in DOMAIN bounds THEN bounds[c] ELSE part[c]]

\* Mutant: all bounds of the operator go.
RemoveOperatorAll(part, bounds) ==
  IF bounds = Missing THEN part
  ELSE IF part = Missing \/ ~ DOMAIN bounds \subseteq Claims \cap DOMAIN part
       THEN Failed
  ELSE <<>>

\* A bound is removed whatever value the edit gives for it.
RemoveOperator(part, bounds) ==
  IF bounds = Missing THEN part
  ELSE IF part = Missing \/ ~ DOMAIN bounds \subseteq Claims \cap DOMAIN part
       THEN Failed
  ELSE [c \in DOMAIN part \ DOMAIN bounds |-> part[c]]

\* The whole action; it throws when one of its three parts does.
Apply(edit, policy) ==
  CASE edit.type = "add" ->
         [claims |-> AddClaims(policy.claims, edit.claims),
          gte |-> AddOperator(policy.gte, edit.gte),
          gt |-> AddOperator(policy.gt, edit.gt)]
    [] edit.type = "remove" ->
         [claims |-> RemoveClaims(policy.claims, edit.claims),
          gte |-> RemoveOperator(policy.gte, edit.gte),
          gt |-> RemoveOperator(policy.gt, edit.gt)]
    [] OTHER -> [claims |-> Failed, gte |-> policy.gte, gt |-> policy.gt]

Applied(edit, provider) ==
  LET new == Apply(edit, Latest.policies[provider])
  IN  /\ Failed \notin {new.claims, new.gte, new.gt}
      /\ Write([policies |-> [Latest.policies EXCEPT ![provider] = new],
                edit |-> edit, provider |-> provider])

SetKeyReleasePolicy(edit) == Applied(edit, "azure")

SetGcpKeyReleasePolicy(edit) == Applied(edit, "gcp")

Commit == \E v \in 1 .. MaxLedger : GloballyCommit(v)

\* Edits that are not committed may be lost with their primary.
NewPrimary == \E v \in 1 .. MaxLedger : Rollback(v)

Next ==
  \/ \E edit \in Edits : SetKeyReleasePolicy(edit)
  \/ \E edit \in Edits : SetGcpKeyReleasePolicy(edit)
  \/ Commit
  \/ NewPrimary

Spec == Init /\ [][Next]_vars

-----------------------------------------------------------------------------
(***************************************************************************)
(* Validation of the claims att of a verified attestation.  (null as the    *)
(* value of a bound, which is answered 500, is not among the values.)       *)
(***************************************************************************)

Attestations == [AllClaims -> Values \cup {Undefined}]

\* Mutant: a claim that the attestation does not have is passed over.
ClaimsStatusLenient(lists, att) ==
  IF \A c \in DOMAIN lists : att[c] \in ToSet(lists[c]) \cup {Undefined}
  THEN 200 ELSE 400

\* validateKeyReleasePolicyClaims: each listed claim has one of its values.
ClaimsStatus(lists, att) ==
  IF \A c \in DOMAIN lists : att[c] \in ToSet(lists[c]) THEN 200 ELSE 400

\* validateKeyReleasePolicyOperators: each claim with a bound respects it.
OperatorsStatus(operator, bounds, att) ==
  IF \A c \in DOMAIN bounds :
       /\ att[c] # Undefined
       /\ IF operator = "gte" THEN att[c] >= bounds[c] ELSE att[c] > bounds[c]
  THEN 200 ELSE 400

\* validateKeyReleasePolicy.  The result for gt replaces the one for gte.
PolicyStatus(policy, att) ==
  IF DOMAIN policy.claims = {} THEN 400
  ELSE IF ClaimsStatus(policy.claims, att) # 200 THEN 400
  ELSE IF policy.gt # Missing THEN OperatorsStatus("gt", policy.gt, att)
  ELSE IF policy.gte # Missing THEN OperatorsStatus("gte", policy.gte, att)
  ELSE 200

\* getKeyReleasePolicyFromMap throws if there are no claims in the map.
Readable(policy) == policy.claims # Missing

\* What follows in validateAttestation once CCF has verified an attestation.
AzureStatus(policy, att) ==
  IF Readable(policy) THEN PolicyStatus(policy, att) ELSE 500

\* In validateGcpAttestation nothing follows: no policy is consulted.
GcpStatus(att) == 200

Status(policies, provider, att) ==
  IF provider = "gcp" THEN GcpStatus(att) ELSE AzureStatus(policies.azure, att)

-----------------------------------------------------------------------------
(***************************************************************************)
(* Properties.                                                              *)
(***************************************************************************)

PolicyTypeOK(policy) ==
  /\ \/ policy.claims = Missing
     \/ /\ IsMap(policy.claims, Claims, Seq(Values))
        /\ \A c \in DOMAIN policy.claims : IsInjective(policy.claims[c])
  /\ \A operator \in Operators :
       policy[operator] = Missing \/ IsMap(policy[operator], Claims, Values)

TypeOK ==
  /\ commit \in 1 .. Len(ledger)
  /\ \A i \in 1 .. Len(ledger) :
       /\ \A p \in Providers : PolicyTypeOK(ledger[i].policies[p])
       /\ ledger[i].edit \in Edits \cup {NoEdit}
       /\ ledger[i].provider \in Providers

\* The entries of the ledger that edited the policy of p.
EditsOf(p) ==
  {i \in 1 .. Len(ledger) : ledger[i].edit # NoEdit /\ ledger[i].provider = p}

LastIn(entries, i) == i \in entries /\ \A j \in entries : j <= i

\* Nothing but the edits decides what a policy holds, and of several edits
\* about the same thing the last: a value is allowed for a claim exactly if the
\* last edit that names this value of this claim adds it, and a bound is in
\* force exactly if the last edit of it sets it.  No edit disturbs what it does
\* not name or the other provider's policy, and lists never drop a value
\* because another one was removed.
LastEditWins ==
  \A p \in Providers, c \in Claims :
    LET policy == Latest.policies[p]
        Naming(v) == {i \in EditsOf(p) :
                        /\ c \in DOMAIN ledger[i].edit.claims
                        /\ v \in ToSet(ledger[i].edit.claims[c])}
        Bounding(operator) == {i \in EditsOf(p) :
                                 /\ ledger[i].edit[operator] # Missing
                                 /\ c \in DOMAIN ledger[i].edit[operator]}
    IN  /\ \A v \in Values :
             (/\ c \in DOMAIN OrEmpty(policy.claims)
              /\ v \in ToSet(policy.claims[c]))
             <=> \E i \in Naming(v) :
                   LastIn(Naming(v), i) /\ ledger[i].edit.type = "add"
        /\ \A operator \in Operators, v \in Values :
             (/\ c \in DOMAIN OrEmpty(policy[operator])
              /\ policy[operator][c] = v)
             <=> \E i \in Bounding(operator) :
                   /\ LastIn(Bounding(operator), i)
                   /\ ledger[i].edit.type = "add"
                   /\ ledger[i].edit[operator][c] = v

\* An attestation fails a policy at claim c: a wrong or missing value, or a
\* bound that is not respected.
FailsAt(policy, c, att) ==
  \/ /\ c \in DOMAIN OrEmpty(policy.claims)
     /\ att[c] \notin ToSet(policy.claims[c])
  \/ /\ c \in DOMAIN OrEmpty(policy.gte)
     /\ att[c] = Undefined \/ att[c] < policy.gte[c]
  \/ /\ c \in DOMAIN OrEmpty(policy.gt)
     /\ att[c] = Undefined \/ att[c] <= policy.gt[c]

\* What a policy is meant to accept.
Accepts(policy, att) ==
  /\ DOMAIN OrEmpty(policy.claims) # {}
  /\ \A c \in AllClaims : ~ FailsAt(policy, c, att)

BothOperators(policy) == policy.gte # Missing /\ policy.gt # Missing

\* A key is released for exactly the attestations that fail nowhere, whatever
\* edits have led to the policy, also after a policy has been emptied again;
\* policies with both operators excepted (see OperatorsBothChecked).
StatusAsConfigured ==
  LET policy == Latest.policies["azure"]
  IN  \A att \in Attestations :
        /\ Accepts(policy, att) => Status(Latest.policies, "azure", att) = 200
        /\ ~ BothOperators(policy) /\ Status(Latest.policies, "azure", att) = 200
             => Accepts(policy, att)

\* An edit opens the policy for nothing but what it names: an attestation that
\* was refused before and is accepted after it failed at no claim other than
\* those the edit mentions.  (Removing the last allowed value of a claim opens
\* the policy for every value of that claim, not for anything else.)
EditsAdmitWhatTheyName ==
  [][ LET old == Latest.policies["azure"]
          new == Latest'.policies["azure"]
          edit == Latest'.edit
      IN  Len(ledger') > Len(ledger) /\ ~ BothOperators(new)
            => \A att \in Attestations :
                 /\ Status(Latest.policies, "azure", att) # 200
                 /\ Status(Latest'.policies, "azure", att) = 200
                 => /\ Latest'.provider = "azure"
                    /\ \A c \in AllClaims :
                         FailsAt(old, c, att)
                           => c \in DOMAIN edit.claims
                                 \cup DOMAIN OrEmpty(edit.gte)
                                 \cup DOMAIN OrEmpty(edit.gt) ]_vars

-----------------------------------------------------------------------------
(***************************************************************************)
(* What comments and documents say, and the code does not do.               *)
(***************************************************************************)

\* KeyReleasePolicy.ts: "Check operators gte and gt".
OperatorsBothChecked ==
  \A att \in Attestations :
    Status(Latest.policies, "azure", att) = 200
      => Accepts(Latest.policies["azure"], att)
=============================================================================
