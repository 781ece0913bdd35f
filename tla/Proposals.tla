------------------------------ MODULE Proposals ------------------------------
(***************************************************************************)
(* Governance through the application endpoint /proposals: postProposals    *)
(* runs the actions of a signed proposal and keeps the proposal in          *)
(* proposalsPolicyMap, getProposals lists that map.  A proposal is accepted *)
(* by being posted; what protects against an old one being posted again is *)
(* the creation time its signer put in the protected header.  That it is    *)
(* there, and a number, is assumed: without it the code compares with NaN.  *)
(*                                                                         *)
(* A request that is refused (wrong role, too old, unknown action, failing  *)
(* validate or apply) leaves no trace: the handler's transaction is not     *)
(* applied.  Such a request is a stuttering step.                           *)
(*                                                                         *)
(* As in KeyLifecycle, a definition marked "Mutant" is a plausible slip in  *)
(* a definition after it, which the properties notice.                      *)
(***************************************************************************)
EXTENDS CcfLedger, FiniteSets

CONSTANTS
  Times,             \* creation times that signers write
  Slots,             \* policies that an action replaces as a whole: settings,
                     \* key rotation, JWT validation (one for each issuer)
  Values,            \* contents of the policies
  Scripts,           \* the sequences of actions proposals are made of
  Unset,             \* no such policy in its map
  Failed,            \* an action threw, or there is no such action
  NoProposal,        \* the entry was not written by postProposals
  ProposalsToKeep    \* 5 in the code

\* The actions.  The two key release policies are not replaced but edited;
\* here is one claim of one of them, a list of values.
SetAction == [name : {"set"}, slot : Slots, value : Values]
EditAction == [name : {"add", "remove"}, value : Values]
BadAction == [name : {"unknown", "invalid"}]
Action == SetAction \cup EditAction \cup BadAction

Policies == [replaced : [Slots -> Values \cup {Unset}], claim : SUBSET Values]

\* A proposal, as signed; its digest, the key in proposalsPolicyMap, is as good
\* as the proposal itself.
Proposal == [created_at : Times, actions : Scripts]

ASSUME ProposalsAssumption ==
  /\ Times \subseteq Nat
  /\ Scripts \subseteq Seq(Action)
  /\ Unset \notin Values
  /\ Failed \notin Policies
  /\ NoProposal \notin Proposal
  /\ ProposalsToKeep \in Nat \ {0}

vars == <<ledger, commit>>

\* table is proposalsPolicyMap; proposal is the request that wrote the entry.
Init ==
  /\ ledger = <<[table |-> {},
                 policies |-> [replaced |-> [s \in Slots |-> Unset],
                               claim |-> {}],
                 proposal |-> NoProposal]>>
  /\ commit = 1

-----------------------------------------------------------------------------

\* validate and apply of one action.  Values of a claim are added to its list
\* or filtered out of it; a claim whose list is empty has been deleted, and
\* removing from it throws.
Perform(action, policies) ==
  CASE action.name = "set" ->
         [policies EXCEPT !.replaced[action.slot] = action.value]
    [] action.name = "add" ->
         [policies EXCEPT !.claim = @ \cup {action.value}]
    [] action.name = "remove" /\ policies.claim # {} ->
         [policies EXCEPT !.claim = @ \ {action.value}]
    [] OTHER -> Failed

\* The loop over the actions of a proposal; the first failure ends it.
PerformAll(actions, policies) ==
  LET after[i \in 0 .. Len(actions)] ==
        IF i = 0 THEN policies
        ELSE IF after[i - 1] = Failed THEN Failed
        ELSE Perform(actions[i], after[i - 1])
  IN  after[Len(actions)]

CreatedTimes(table) == {p.created_at : p \in table}

\* Mutant: compared with the oldest proposal that is kept.
NotOlderThanAll(p, table) ==
  table = {} \/ \E t \in CreatedTimes(table) : ~ p.created_at < t

\* The proposal was not created before the last accepted one that is kept.
NotOlder(p, table) == \A t \in CreatedTimes(table) : ~ p.created_at < t

\* Mutant: the creation times are sorted the other way.
ExcessNewestTimes(times) ==
  {t \in times : Cardinality({u \in times : u < t}) >= ProposalsToKeep}

\* Mutant: one proposal too many is deleted.
ExcessTimesAndOne(times) ==
  {t \in times : Cardinality({u \in times : u > t}) >= ProposalsToKeep - 1}

\* All times but the ProposalsToKeep newest.
ExcessTimes(times) ==
  {t \in times : Cardinality({u \in times : u > t}) >= ProposalsToKeep}

\* Evicted proposals are looked up by creation time, in a map that holds one
\* proposal for each time: of several with the same time one is evicted, and
\* which one depends on the order of forEach.
Evictions(table) ==
  LET excess == ExcessTimes(CreatedTimes(table))
  IN  {gone \in SUBSET table :
         /\ CreatedTimes(gone) = excess
         /\ Cardinality(gone) = Cardinality(excess)}

\* Mutant: the handler goes on after an action has failed.
PostProposalsAnyway(p) ==
  /\ NotOlder(p, Latest.table)
  /\ \E gone \in Evictions(Latest.table \cup {p}) :
       Write([table |-> (Latest.table \cup {p}) \ gone,
              policies |-> PerformAll(p.actions, Latest.policies),
              proposal |-> p])

PostProposals(p) ==
  /\ NotOlder(p, Latest.table)
  /\ PerformAll(p.actions, Latest.policies) # Failed
  /\ \E gone \in Evictions(Latest.table \cup {p}) :
       Write([table |-> (Latest.table \cup {p}) \ gone,
              policies |-> PerformAll(p.actions, Latest.policies),
              proposal |-> p])

Commit == \E v \in 1 .. MaxLedger : GloballyCommit(v)

\* A primary fails and the proposals it accepted but did not commit may be
\* lost, together with their effects.
NewPrimary == \E v \in 1 .. MaxLedger : Rollback(v)

Next ==
  \/ \E p \in Proposal : PostProposals(p)
  \/ Commit
  \/ NewPrimary

Spec == Init /\ [][Next]_vars

-----------------------------------------------------------------------------
(***************************************************************************)
(* Properties.                                                              *)
(***************************************************************************)

KvTypeOK(kv) ==
  /\ kv.table \subseteq Proposal
  /\ kv.policies \in Policies
  /\ kv.proposal \in Proposal \cup {NoProposal}

TypeOK ==
  /\ LedgerTypeOK
  /\ \A i \in 1 .. Len(ledger) : KvTypeOK(ledger[i])

\* The entries of the ledger that accepted a proposal.
Accepted == {i \in 1 .. Len(ledger) : ledger[i].proposal # NoProposal}

\* Proposals take effect in the order in which they were signed, although the
\* handler compares a new proposal with the few it has kept only: no eviction
\* and no lost primary lets an older one in after a newer one.
AcceptedInOrder ==
  \A i, j \in Accepted :
    i < j => ledger[i].proposal.created_at <= ledger[j].proposal.created_at

\* The content of a policy is always the one the most recently signed of the
\* accepted proposals about it gave it: an older proposal, or a part of one
\* that failed, never overwrites a newer one.
Sets(i, slot, value) ==
  \E k \in 1 .. Len(ledger[i].proposal.actions) :
    ledger[i].proposal.actions[k] =
      [name |-> "set", slot |-> slot, value |-> value]

NewestSignedWins ==
  \A slot \in Slots :
    LET setters == {i \in Accepted : \E v \in Values : Sets(i, slot, v)}
    IN  IF setters = {} THEN Latest.policies.replaced[slot] = Unset
        ELSE \E i \in setters :
               /\ Sets(i, slot, Latest.policies.replaced[slot])
               /\ \A j \in setters : ledger[j].proposal.created_at
                                       <= ledger[i].proposal.created_at

\* The audit trail: the map holds accepted proposals only, and every accepted
\* proposal that is among the ProposalsToKeep newest times is in it.
RecentProposalsKept ==
  LET accepted == {ledger[i].proposal : i \in Accepted}
  IN  /\ Latest.table \subseteq accepted
      /\ \A p \in accepted :
           Cardinality({t \in CreatedTimes(accepted) : t > p.created_at})
             < ProposalsToKeep => p \in Latest.table

-----------------------------------------------------------------------------
(***************************************************************************)
(* What a comment of proposals.ts says, and the code does not do.           *)
(***************************************************************************)

\* "new proposals must be signed more recently than the last accepted
\* proposal".
SignedMoreRecently ==
  \A i, j \in Accepted :
    i < j => ledger[i].proposal.created_at < ledger[j].proposal.created_at
=============================================================================
