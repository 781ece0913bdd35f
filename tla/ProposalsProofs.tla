--------------------------- MODULE ProposalsProofs ---------------------------
(***************************************************************************)
(* Proposals take effect in the order in which they were signed, the newest *)
(* decides about each policy, and the recent ones are kept: for every choice *)
(* of times, actions and ProposalsToKeep, and for ledgers of any length.     *)
(*                                                                         *)
(* AcceptedInOrder alone is not inductive: postProposals looks at the table *)
(* only, not at the ledger.  The invariant adds that every table still       *)
(* holds, for each proposal accepted so far, one at least as new.           *)
(* The other two hold of every entry with the entries before it, not only   *)
(* of the last one, since NewPrimary brings earlier entries back.           *)
(***************************************************************************)
EXTENDS Proposals, CcfLedgerProofs, FiniteSetTheorems

\* The part of the types the order depends on.
TableTypeOK ==
  /\ LedgerTypeOK
  /\ \A i \in 1 .. Len(ledger) :
       /\ ledger[i].table \subseteq Proposal
       /\ ledger[i].proposal \in Proposal \cup {NoProposal}

\* No eviction forgets how far the creation times have come.
NewestRetained ==
  \A i \in 1 .. Len(ledger) : \A j \in Accepted :
    j <= i => \E q \in ledger[i].table :
                ledger[j].proposal.created_at <= q.created_at

OrderInv == TableTypeOK /\ NewestRetained /\ AcceptedInOrder

\* Creation times are numbers.
LEMMA CreatedAtType ==
  ASSUME NEW p \in Proposal
  PROVE  p.created_at \in Nat
BY ProposalsAssumption DEF Proposal

\* The proposal just accepted is never among the evicted ones.
LEMMA NewestNotEvicted ==
  ASSUME NEW table \in SUBSET Proposal, NEW p \in Proposal,
         NotOlder(p, table), NEW gone \in Evictions(table \cup {p})
  PROVE  p \notin gone
<1> DEFINE times == CreatedTimes(table \cup {p})
<1>1. \A t \in times : t \in Nat /\ ~ t > p.created_at
  BY CreatedAtType DEF NotOlder, CreatedTimes
<1>2. {u \in times : u > p.created_at} = {}
  BY <1>1
<1>3. p.created_at \notin ExcessTimes(times)
  <2>1. Cardinality({u \in times : u > p.created_at}) = 0
    BY <1>2, FS_EmptySet
  <2> HIDE DEF times
  <2>2. p.created_at \in ExcessTimes(times)
          => Cardinality({u \in times : u > p.created_at}) >= ProposalsToKeep
    BY Zenon DEF ExcessTimes
  <2>3. ~ 0 >= ProposalsToKeep
    BY ProposalsAssumption
  <2> QED
    BY <2>1, <2>2, <2>3
<1>4. CreatedTimes(gone) = ExcessTimes(times)
  BY DEF Evictions
<1> QED
  BY <1>3, <1>4 DEF CreatedTimes

LEMMA OrderInit == Init => OrderInv
<1> SUFFICES ASSUME Init PROVE OrderInv
  OBVIOUS
<1>1. /\ Len(ledger) = 1
      /\ ledger[1].table = {}
      /\ ledger[1].proposal = NoProposal
      /\ ledger \in Seq({ledger[1]})
      /\ commit = 1
  BY DEF Init
<1>2. LedgerTypeOK
  <2>1. Entries = {ledger[1]}
    BY <1>1 DEF Entries
  <2> QED
    BY <1>1, <2>1 DEF LedgerTypeOK
<1>3. Accepted = {}
  BY <1>1 DEF Accepted
<1> QED
  BY <1>1, <1>2, <1>3 DEF OrderInv, TableTypeOK, NewestRetained, AcceptedInOrder

LEMMA OrderStep == OrderInv /\ [Next]_vars => OrderInv'
<1> SUFFICES ASSUME OrderInv, [Next]_vars PROVE OrderInv'
  OBVIOUS
<1> USE DEF OrderInv
<1>1. ASSUME NEW p \in Proposal, PostProposals(p) PROVE OrderInv'
  <2> DEFINE n == Len(ledger)
             old == Latest.table
  <2>1. PICK gone \in Evictions(old \cup {p}) :
          Write([table |-> (old \cup {p}) \ gone,
                 policies |-> PerformAll(p.actions, Latest.policies),
                 proposal |-> p])
    BY <1>1 DEF PostProposals
  <2>2. /\ LedgerTypeOK'
        /\ Len(ledger') = n + 1
        /\ ledger'[n + 1].table = (old \cup {p}) \ gone
        /\ ledger'[n + 1].proposal = p
        /\ \A i \in 1 .. n : ledger'[i] = ledger[i]
    BY <2>1, WriteStep DEF TableTypeOK
  <2>3. n \in Nat \ {0} /\ Latest = ledger[n]
    BY DEF TableTypeOK, LedgerTypeOK, Latest
  <2>4. old \subseteq Proposal
    BY <2>3 DEF TableTypeOK
  <2>5. p \in ledger'[n + 1].table
    BY <2>1, <2>2, <2>4, <1>1, NewestNotEvicted DEF PostProposals
  <2>6. TableTypeOK'
    BY <2>2, <2>3, <2>4 DEF TableTypeOK
  <2>7. Accepted' = Accepted \cup {n + 1}
    BY <2>2, <2>3, ProposalsAssumption DEF Accepted
  <2>8. ASSUME NEW j \in Accepted
        PROVE  /\ j \in 1 .. n
               /\ ledger'[j] = ledger[j]
               /\ ledger[j].proposal.created_at <= p.created_at
    <3>1. j \in 1 .. n /\ ledger[j].proposal \in Proposal
      BY DEF Accepted, TableTypeOK
    <3>2. PICK q \in old : ledger[j].proposal.created_at <= q.created_at
      BY <2>3, <3>1 DEF NewestRetained
    <3>3. ~ p.created_at < q.created_at
      BY <1>1, <3>2 DEF PostProposals, NotOlder, CreatedTimes
    <3>4. /\ q.created_at \in Nat
          /\ p.created_at \in Nat
          /\ ledger[j].proposal.created_at \in Nat
      BY <2>4, <3>1, <3>2, CreatedAtType
    <3> QED
      BY <3>1, <3>2, <3>3, <3>4, <2>2
  <2>9. NewestRetained'
    <3> SUFFICES ASSUME NEW i \in 1 .. n + 1, NEW j \in Accepted \cup {n + 1},
                        j <= i
                 PROVE  \E q \in ledger'[i].table :
                          ledger'[j].proposal.created_at <= q.created_at
      BY <2>2, <2>7 DEF NewestRetained
    <3>1. CASE i \in 1 .. n
      <4>1. j \in Accepted /\ j \in 1 .. n
        BY <3>1, <2>3, <2>8
      <4> QED
        BY <3>1, <4>1, <2>2 DEF NewestRetained
    <3>2. CASE i = n + 1
      <4>1. ledger'[j].proposal.created_at <= p.created_at
        <5>1. CASE j \in Accepted
          BY <5>1, <2>8
        <5>2. CASE j = n + 1
          BY <5>2, <2>2, CreatedAtType
        <5> QED
          BY <5>1, <5>2
      <4> QED
        BY <3>2, <4>1, <2>5
    <3> QED
      BY <3>1, <3>2, <2>3
  <2>10. AcceptedInOrder'
    <3> SUFFICES ASSUME NEW i \in Accepted \cup {n + 1},
                        NEW j \in Accepted \cup {n + 1}, i < j
                 PROVE  ledger'[i].proposal.created_at
                          <= ledger'[j].proposal.created_at
      BY <2>7 DEF AcceptedInOrder
    <3>1. i \in Accepted
      BY <2>3, <2>8
    <3>2. CASE j \in Accepted
      BY <3>1, <3>2, <2>8 DEF AcceptedInOrder
    <3>3. CASE j = n + 1
      BY <3>1, <3>3, <2>2, <2>8
    <3> QED
      BY <3>2, <3>3
  <2> QED
    BY <2>6, <2>9, <2>10
<1>2. CASE Commit
  <2>1. LedgerTypeOK' /\ ledger' = ledger
    BY <1>2, GloballyCommitStep DEF Commit, TableTypeOK
  <2> QED
    BY <2>1 DEF TableTypeOK, NewestRetained, AcceptedInOrder, Accepted
<1>3. CASE NewPrimary
  <2>1. PICK v \in 1 .. MaxLedger : Rollback(v)
    BY <1>3 DEF NewPrimary
  <2>2. /\ LedgerTypeOK'
        /\ v \in 1 .. Len(ledger)
        /\ Len(ledger') = v
        /\ \A i \in 1 .. v : ledger'[i] = ledger[i]
    BY <2>1, RollbackStep DEF TableTypeOK, LedgerTypeOK
  <2>3. \A j \in Accepted' : j \in 1 .. v /\ j \in Accepted
    BY <2>2 DEF Accepted
  <2>4. \A i \in 1 .. v : i \in 1 .. Len(ledger)
    BY <2>2
  <2>5. TableTypeOK'
    BY <2>2, <2>4 DEF TableTypeOK
  <2>6. NewestRetained'
    BY <2>2, <2>3, <2>4 DEF NewestRetained
  <2>7. AcceptedInOrder'
    BY <2>2, <2>3 DEF AcceptedInOrder
  <2> QED
    BY <2>5, <2>6, <2>7
<1>4. CASE UNCHANGED vars
  BY <1>4 DEF vars, TableTypeOK, LedgerTypeOK, Entries, NewestRetained,
              AcceptedInOrder, Accepted
<1> QED
  BY <1>1, <1>2, <1>3, <1>4 DEF Next

\* In every ledger that can come about, proposals were accepted in the order
\* of their creation times: no eviction from proposalsPolicyMap and no change
\* of primary lets an older proposal take effect after a newer one.
THEOREM ProposalsInOrder == Spec => []AcceptedInOrder
<1>1. OrderInv => AcceptedInOrder
  BY DEF OrderInv
<1> QED
  BY OrderInit, OrderStep, <1>1, PTL DEF Spec

-----------------------------------------------------------------------------
(***************************************************************************)
(* What a run of the actions of a proposal makes of the policies.  It is    *)
(* the last value of a recursive function; facts about its values are       *)
(* proved by looking at the first that would break them.                    *)
(***************************************************************************)

\* f[i] are the policies after the first i actions.
RunOf(f, actions, policies, n) ==
  f = [i \in 0 .. n |-> IF i = 0 THEN policies
                        ELSE IF f[i - 1] = Failed THEN Failed
                        ELSE Perform(actions[i], f[i - 1])]

LEMMA RunExists ==
  ASSUME NEW actions, NEW policies, NEW n \in Nat
  PROVE  \E f : RunOf(f, actions, policies, n)
<1> DEFINE bad == {k \in Nat : ~ \E f : RunOf(f, actions, policies, k)}
<1> SUFFICES ASSUME bad # {} PROVE FALSE
  OBVIOUS
<1>1. PICK m \in bad : \A k \in bad : m <= k
  <2>1. bad \subseteq Nat
    OBVIOUS
  <2> HIDE DEF bad
  <2> QED
    BY <2>1, LeastExists
<1>2. m \in Nat /\ ~ \E f : RunOf(f, actions, policies, m)
  OBVIOUS
<1>3. CASE m = 0
  <2>1. RunOf([i \in 0 .. 0 |-> policies], actions, policies, 0)
    BY DEF RunOf
  <2> QED
    BY <1>2, <1>3, <2>1
<1>4. CASE m # 0
  <2>1. m - 1 \in Nat /\ ~ m <= m - 1
    BY <1>2, <1>4
  <2>2. PICK g : RunOf(g, actions, policies, m - 1)
    BY <1>1, <2>1
  <2> DEFINE next == IF g[m - 1] = Failed THEN Failed
                     ELSE Perform(actions[m], g[m - 1])
             f == [i \in 0 .. m |-> IF i = m THEN next ELSE g[i]]
  <2>3. ASSUME NEW i \in 0 .. m
        PROVE  f[i] = IF i = 0 THEN policies
                      ELSE IF f[i - 1] = Failed THEN Failed
                      ELSE Perform(actions[i], f[i - 1])
    <3>1. CASE i = m
      <4>1. f[i] = next /\ f[i - 1] = g[m - 1] /\ i # 0
        BY <1>2, <1>4, <3>1
      <4> QED
        BY <3>1, <4>1
    <3>2. CASE i # m
      <4>1. i \in 0 .. m - 1
        BY <1>2, <3>2
      <4>2. f[i] = g[i]
        BY <3>2
      <4>3. i # 0 => f[i - 1] = g[i - 1]
        BY <1>2, <4>1
      <4>4. g[i] = IF i = 0 THEN policies
                   ELSE IF g[i - 1] = Failed THEN Failed
                   ELSE Perform(actions[i], g[i - 1])
        BY <2>2, <4>1 DEF RunOf
      <4> QED
        BY <4>2, <4>3, <4>4
    <3> QED
      BY <3>1, <3>2
  <2>4. RunOf(f, actions, policies, m)
    <3>1. f = [i \in 0 .. m |-> f[i]]
      OBVIOUS
    <3> HIDE DEF f
    <3> QED
      BY <2>3, <3>1 DEF RunOf
  <2> QED
    BY <1>2, <2>4
<1> QED
  BY <1>3, <1>4

\* PerformAll is where that run ends.
LEMMA RunEnds ==
  ASSUME NEW actions \in Seq(Action), NEW policies
  PROVE  \E f : /\ RunOf(f, actions, policies, Len(actions))
                /\ PerformAll(actions, policies) = f[Len(actions)]
<1>1. Len(actions) \in Nat
  OBVIOUS
<1>2. \E f : RunOf(f, actions, policies, Len(actions))
  BY <1>1, RunExists
<1> QED
  BY <1>2 DEF PerformAll, RunOf

\* An action that does not fail gives well-formed policies, of which only the
\* slot it sets, if it does, has a new content.
LEMMA PerformStep ==
  ASSUME NEW action \in Action, NEW policies \in Policies,
         NEW after, after = Perform(action, policies), after # Failed
  PROVE  /\ after \in Policies
         /\ \A slot \in Slots :
              \/ action = [name |-> "set", slot |-> slot,
                           value |-> after.replaced[slot]]
              \/ /\ after.replaced[slot] = policies.replaced[slot]
                 /\ \A value \in Values :
                      action # [name |-> "set", slot |-> slot, value |-> value]
<1>1. /\ policies.replaced \in [Slots -> Values \cup {Unset}]
      /\ policies.claim \in SUBSET Values
  BY DEF Policies
<1>2. CASE action \in SetAction
  <2>1. /\ action.name = "set" /\ action.slot \in Slots /\ action.value \in Values
        /\ action = [name |-> "set", slot |-> action.slot, value |-> action.value]
    BY <1>2 DEF SetAction
  <2>2. after = [policies EXCEPT !.replaced[action.slot] = action.value]
    BY <2>1 DEF Perform
  <2>3. /\ after.replaced = [policies.replaced EXCEPT ![action.slot] = action.value]
        /\ after \in Policies
    BY <1>1, <2>1, <2>2 DEF Policies
  <2> QED
    BY <1>1, <2>1, <2>3
<1>3. CASE action \in EditAction
  <2>1. action.name \in {"add", "remove"} /\ action.value \in Values
    BY <1>3 DEF EditAction
  <2>2. /\ after.replaced = policies.replaced
        /\ after \in Policies
    BY <1>1, <2>1 DEF Perform, Policies
  <2> QED
    BY <2>1, <2>2
<1>4. CASE action \in BadAction
  BY <1>4 DEF BadAction, Perform
<1> QED
  BY <1>2, <1>3, <1>4 DEF Action

\* The content of slot in after is what the first n actions made of before:
\* one of them has set it, or none has touched it.
Outcome(actions, n, before, after, slot) ==
  \/ \E k \in 1 .. n :
       actions[k] = [name |-> "set", slot |-> slot,
                     value |-> after.replaced[slot]]
  \/ /\ after.replaced[slot] = before.replaced[slot]
     /\ \A k \in 1 .. n, value \in Values :
          actions[k] # [name |-> "set", slot |-> slot, value |-> value]

\* A proposal of which no action fails leaves well-formed policies with the
\* contents its actions say.
LEMMA RunEffect ==
  ASSUME NEW actions \in Seq(Action), NEW policies \in Policies,
         PerformAll(actions, policies) # Failed
  PROVE  /\ PerformAll(actions, policies) \in Policies
         /\ \A slot \in Slots :
              Outcome(actions, Len(actions), policies,
                      PerformAll(actions, policies), slot)
<1> DEFINE n == Len(actions)
<1>1. n \in Nat
  OBVIOUS
<1>2. PICK f : RunOf(f, actions, policies, n) /\ PerformAll(actions, policies) = f[n]
  BY RunEnds
<1>3. \A i \in 0 .. n : f[i] = IF i = 0 THEN policies
                               ELSE IF f[i - 1] = Failed THEN Failed
                               ELSE Perform(actions[i], f[i - 1])
  BY <1>2 DEF RunOf
<1> DEFINE Good(i) == f[i] # Failed
                        => /\ f[i] \in Policies
                           /\ \A slot \in Slots :
                                Outcome(actions, i, policies, f[i], slot)
           bad == {i \in 0 .. n : ~ Good(i)}
<1>4. Good(0)
  <2>1. f[0] = policies
    BY <1>1, <1>3
  <2> QED
    BY <2>1 DEF Outcome
<1>5. ASSUME NEW i \in 1 .. n, Good(i - 1) PROVE Good(i)
  <2> SUFFICES ASSUME f[i] # Failed
               PROVE  /\ f[i] \in Policies
                      /\ \A slot \in Slots :
                           Outcome(actions, i, policies, f[i], slot)
    OBVIOUS
  <2>1. i \in 0 .. n /\ i # 0 /\ i \in Nat
    BY <1>1
  <2>2. f[i - 1] # Failed /\ f[i] = Perform(actions[i], f[i - 1])
    BY <1>3, <2>1
  <2>3. /\ f[i - 1] \in Policies
        /\ \A slot \in Slots : Outcome(actions, i - 1, policies, f[i - 1], slot)
    BY <1>5, <2>2
  <2>4. actions[i] \in Action
    OBVIOUS
  <2> HIDE DEF Good
  <2>5. /\ f[i] \in Policies
        /\ \A slot \in Slots :
             \/ actions[i] = [name |-> "set", slot |-> slot,
                              value |-> f[i].replaced[slot]]
             \/ /\ f[i].replaced[slot] = f[i - 1].replaced[slot]
                /\ \A value \in Values :
                     actions[i] # [name |-> "set", slot |-> slot, value |-> value]
    BY <2>2, <2>3, <2>4, PerformStep
  <2>6. ASSUME NEW slot \in Slots PROVE Outcome(actions, i, policies, f[i], slot)
    <3>1. i \in 1 .. i /\ \A k \in 1 .. i : k \in 1 .. i - 1 \/ k = i
      BY <2>1
    <3>2. \A k \in 1 .. i - 1 : k \in 1 .. i
      BY <2>1
    <3>3. Outcome(actions, i - 1, policies, f[i - 1], slot)
      BY <2>3
    <3> QED
      BY <2>5, <3>1, <3>2, <3>3 DEF Outcome
  <2> QED
    BY <2>5, <2>6
<1>6. bad = {}
  <2> SUFFICES ASSUME bad # {} PROVE FALSE
    OBVIOUS
  <2>1. bad \subseteq Nat
    BY <1>1
  <2>2. PICK m \in bad : \A k \in bad : m <= k
    <3> HIDE DEF bad
    <3> QED
      BY <2>1, LeastExists
  <2>3. m \in 0 .. n /\ ~ Good(m)
    BY <2>2
  <2>4. m # 0
    BY <1>4, <2>3
  <2>5. m \in 1 .. n /\ m - 1 \in 0 .. n /\ ~ m <= m - 1
    BY <1>1, <2>3, <2>4
  <2>6. Good(m - 1)
    BY <2>2, <2>5
  <2> QED
    BY <1>5, <2>3, <2>5, <2>6
<1>7. Good(n)
  <2>1. n \in 0 .. n
    BY <1>1
  <2> HIDE DEF Good
  <2> QED
    BY <1>6, <2>1
<1> QED
  BY <1>2, <1>7

-----------------------------------------------------------------------------
(***************************************************************************)
(* The policies, and the proposals that are kept.                           *)
(***************************************************************************)

\* The accepted proposals of the first n entries, and the entries of those
\* that set a slot.
AcceptedUpTo(n) == {i \in Accepted : i <= n}

ProposalsUpTo(n) == {ledger[i].proposal : i \in AcceptedUpTo(n)}

SettersUpTo(n, slot) ==
  {i \in AcceptedUpTo(n) : \E v \in Values : Sets(i, slot, v)}

\* At entry n a slot has the content that the last proposal about it gave it.
EffectAt(n) ==
  \A slot \in Slots :
    \/ /\ SettersUpTo(n, slot) = {}
       /\ ledger[n].policies.replaced[slot] = Unset
    \/ \E i \in SettersUpTo(n, slot) :
         /\ Sets(i, slot, ledger[n].policies.replaced[slot])
         /\ \A j \in SettersUpTo(n, slot) : j <= i

\* The audit trail of entry n: what RecentProposalsKept says of the last entry.
TrailAt(n) ==
  /\ ledger[n].table \subseteq ProposalsUpTo(n)
  /\ \A p \in ProposalsUpTo(n) :
       Cardinality({t \in CreatedTimes(ProposalsUpTo(n)) : t > p.created_at})
         < ProposalsToKeep => p \in ledger[n].table

EffectInv == \A n \in 1 .. Len(ledger) : EffectAt(n)

TrailInv == \A n \in 1 .. Len(ledger) : TrailAt(n)

LEMMA LedgerFacts ==
  ASSUME TypeOK
  PROVE  /\ TableTypeOK
         /\ Len(ledger) \in Nat \ {0}
         /\ Latest = ledger[Len(ledger)]
         /\ Len(ledger) \in 1 .. Len(ledger)
         /\ KvTypeOK(Latest)
         /\ \A i \in Accepted : /\ i \in 1 .. Len(ledger)
                                /\ ledger[i].proposal \in Proposal
BY DEF TypeOK, TableTypeOK, KvTypeOK, LedgerTypeOK, Latest, Accepted

\* What an accepted proposal writes.
LEMMA PostFacts ==
  ASSUME TypeOK, NEW p \in Proposal, PostProposals(p), NEW n, n = Len(ledger)
  PROVE  /\ TypeOK'
         /\ Len(ledger') = n + 1
         /\ \A i \in 1 .. n : ledger'[i] = ledger[i]
         /\ ledger'[n + 1].proposal = p
         /\ Accepted' = Accepted \cup {n + 1}
         /\ \A slot \in Slots :
              Outcome(p.actions, Len(p.actions), ledger[n].policies,
                      ledger'[n + 1].policies, slot)
<1> DEFINE after == PerformAll(p.actions, Latest.policies)
<1>1. PICK gone \in Evictions(Latest.table \cup {p}) :
        Write([table |-> (Latest.table \cup {p}) \ gone,
               policies |-> after,
               proposal |-> p])
  BY DEF PostProposals
<1>2. /\ LedgerTypeOK'
      /\ Len(ledger') = n + 1
      /\ ledger'[n + 1].table = (Latest.table \cup {p}) \ gone
      /\ ledger'[n + 1].policies = after
      /\ ledger'[n + 1].proposal = p
      /\ \A i \in 1 .. n : ledger'[i] = ledger[i]
  BY <1>1, WriteStep DEF TypeOK
<1>3. n \in Nat \ {0} /\ Latest = ledger[n] /\ KvTypeOK(Latest)
  BY LedgerFacts
<1>4. p.actions \in Seq(Action)
  BY ProposalsAssumption DEF Proposal
<1>5. after # Failed /\ Latest.policies \in Policies
  BY <1>3 DEF PostProposals, KvTypeOK
<1>6. /\ after \in Policies
      /\ \A slot \in Slots :
           Outcome(p.actions, Len(p.actions), Latest.policies, after, slot)
  BY <1>4, <1>5, RunEffect
<1> HIDE DEF after
<1>7. KvTypeOK(ledger'[n + 1])
  BY <1>2, <1>3, <1>6 DEF KvTypeOK
<1>8. TypeOK'
  BY <1>2, <1>3, <1>7 DEF TypeOK
<1>9. Accepted' = Accepted \cup {n + 1}
  BY <1>2, <1>3, ProposalsAssumption DEF Accepted
<1> QED
  BY <1>1, <1>2, <1>3, <1>6, <1>8, <1>9

\* What it does to the table.
LEMMA PostTable ==
  ASSUME TypeOK, NEW p, PostProposals(p), NEW table, table = Latest.table
  PROVE  \E gone \in Evictions(table \cup {p}) :
           ledger'[Len(ledger) + 1].table = (table \cup {p}) \ gone
<1>1. PICK gone \in Evictions(table \cup {p}) :
        Write([table |-> (table \cup {p}) \ gone,
               policies |-> PerformAll(p.actions, Latest.policies),
               proposal |-> p])
  BY DEF PostProposals
<1>2. ledger'[Len(ledger) + 1]
        = [table |-> (table \cup {p}) \ gone,
           policies |-> PerformAll(p.actions, Latest.policies),
           proposal |-> p]
  BY <1>1, WriteStep DEF TypeOK
<1>3. ledger'[Len(ledger) + 1].table = (table \cup {p}) \ gone
  BY <1>2
<1> QED
  BY <1>3

\* What an entry says depends on the entries up to it only.
LEMMA EntryUnchanged ==
  ASSUME NEW n \in Nat \ {0}, n <= Len(ledger), n <= Len(ledger'),
         Len(ledger) \in Nat, Len(ledger') \in Nat,
         \A i \in 1 .. n : ledger'[i] = ledger[i]
  PROVE  /\ EffectAt(n) => EffectAt(n)'
         /\ TrailAt(n) => TrailAt(n)'
<1>1. AcceptedUpTo(n)' = AcceptedUpTo(n)
  BY DEF AcceptedUpTo, Accepted
<1>2. \A i \in AcceptedUpTo(n) : i \in 1 .. n /\ ledger'[i] = ledger[i]
  BY DEF AcceptedUpTo, Accepted
<1>3. ledger'[n] = ledger[n]
  OBVIOUS
<1>4. \A i \in AcceptedUpTo(n) : \A slot, v : Sets(i, slot, v)' = Sets(i, slot, v)
  BY <1>2 DEF Sets
<1>5. \A slot : SettersUpTo(n, slot)' = SettersUpTo(n, slot)
  BY <1>1, <1>4 DEF SettersUpTo
<1>6. ProposalsUpTo(n)' = ProposalsUpTo(n)
  BY <1>1, <1>2 DEF ProposalsUpTo
<1>7. EffectAt(n) => EffectAt(n)'
  <2>1. \A slot : \A i \in SettersUpTo(n, slot) : i \in AcceptedUpTo(n)
    BY DEF SettersUpTo
  <2> QED
    BY <1>3, <1>4, <1>5, <2>1 DEF EffectAt
<1>8. TrailAt(n) => TrailAt(n)'
  BY <1>3, <1>6 DEF TrailAt
<1> QED
  BY <1>7, <1>8

\* The slots a new entry has set have the contents of its proposal, the others
\* those they had.
LEMMA EffectPost ==
  ASSUME TypeOK, NEW p \in Proposal, PostProposals(p), NEW n, n = Len(ledger),
         EffectAt(n)
  PROVE  EffectAt(n + 1)'
<1> DEFINE m == n + 1
           Sets1(slot, v) == \E k \in 1 .. Len(p.actions) :
             p.actions[k] = [name |-> "set", slot |-> slot, value |-> v]
<1>1. /\ TypeOK'
      /\ \A i \in 1 .. n : ledger'[i] = ledger[i]
      /\ ledger'[m].proposal = p
      /\ Accepted' = Accepted \cup {m}
      /\ \A slot \in Slots :
           Outcome(p.actions, Len(p.actions), ledger[n].policies,
                   ledger'[m].policies, slot)
  BY PostFacts
<1>2. /\ n \in Nat \ {0} /\ n \in 1 .. n
      /\ \A i \in Accepted : i \in 1 .. n
  BY LedgerFacts
<1> HIDE DEF m
<1>3. /\ AcceptedUpTo(n) = Accepted
      /\ AcceptedUpTo(m)' = Accepted \cup {m}
      /\ \A i \in Accepted : i <= m
      /\ m \notin Accepted /\ m <= m
  BY <1>1, <1>2 DEF AcceptedUpTo, m
<1>4. /\ \A i \in Accepted : \A slot, v : Sets(i, slot, v)' <=> Sets(i, slot, v)
      /\ \A slot, v : Sets(m, slot, v)' <=> Sets1(slot, v)
  BY <1>1, <1>2 DEF Sets
<1> HIDE DEF Sets1
<1>5. \A slot : SettersUpTo(m, slot)'
                  = SettersUpTo(n, slot)
                      \cup {i \in {m} : \E v \in Values : Sets1(slot, v)}
  BY <1>3, <1>4 DEF SettersUpTo
<1> SUFFICES ASSUME NEW slot \in Slots
             PROVE  \/ /\ SettersUpTo(m, slot)' = {}
                       /\ ledger'[m].policies.replaced[slot] = Unset
                    \/ \E i \in SettersUpTo(m, slot)' :
                         /\ Sets(i, slot, ledger[m].policies.replaced[slot])'
                         /\ \A j \in SettersUpTo(m, slot)' : j <= i
  BY DEF EffectAt, m
<1> DEFINE value == ledger'[m].policies.replaced[slot]
<1>6. CASE Sets1(slot, value)
  <2>1. value \in Values
    <3>1. PICK k \in 1 .. Len(p.actions) :
            p.actions[k] = [name |-> "set", slot |-> slot, value |-> value]
      BY <1>6 DEF Sets1
    <3>2. p.actions \in Seq(Action)
      BY ProposalsAssumption DEF Proposal
    <3>3. p.actions[k] \in Action
      BY <3>2
    <3>4. /\ p.actions[k].name = "set" /\ p.actions[k].value = value
      BY <3>1
    <3> QED
      BY <3>3, <3>4 DEF Action, SetAction, EditAction, BadAction
  <2>2. m \in SettersUpTo(m, slot)'
    BY <1>5, <1>6, <2>1
  <2>3. \A j \in SettersUpTo(m, slot)' : j <= m
    BY <1>3, <1>5 DEF SettersUpTo
  <2>4. Sets(m, slot, ledger[m].policies.replaced[slot])'
    BY <1>4, <1>6
  <2> QED
    BY <2>2, <2>3, <2>4
<1>7. CASE /\ value = ledger[n].policies.replaced[slot]
           /\ \A v \in Values : ~ Sets1(slot, v)
  <2>1. SettersUpTo(m, slot)' = SettersUpTo(n, slot)
    BY <1>5, <1>7
  <2>2. \A i \in SettersUpTo(n, slot) : i \in Accepted
    BY DEF SettersUpTo, AcceptedUpTo
  <2>3. \/ SettersUpTo(n, slot) = {} /\ value = Unset
        \/ \E i \in SettersUpTo(n, slot) :
             /\ Sets(i, slot, value)
             /\ \A j \in SettersUpTo(n, slot) : j <= i
    BY <1>7 DEF EffectAt
  <2>4. \A i \in SettersUpTo(n, slot) :
          Sets(i, slot, value)
            => Sets(i, slot, ledger[m].policies.replaced[slot])'
    <3>1. \A i \in Accepted : \A v : Sets(i, slot, v) => ledger'[i] = ledger[i]
      BY <1>1, <1>2
    <3> QED
      BY <2>2, <3>1 DEF Sets
  <2> QED
    BY <2>1, <2>3, <2>4
<1> QED
  <2>1. Outcome(p.actions, Len(p.actions), ledger[n].policies,
                ledger'[m].policies, slot)
    BY <1>1
  <2> QED
    BY <1>6, <1>7, <2>1 DEF Outcome, Sets1

\* Only finitely many times have been accepted.
LEMMA FiniteTimes ==
  ASSUME NEW n \in Nat, \A i \in Accepted : i \in Nat \ {0}
  PROVE  IsFiniteSet(CreatedTimes(ProposalsUpTo(n)))
<1> DEFINE entries == AcceptedUpTo(n)
           time == [i \in entries |-> ledger[i].proposal.created_at]
<1>1. IsFiniteSet(entries)
  <2>1. entries \subseteq 1 .. n
    BY DEF AcceptedUpTo
  <2>2. IsFiniteSet(1 .. n)
    BY FS_Interval
  <2> QED
    BY <2>1, <2>2, FS_Subset
<1>2. CreatedTimes(ProposalsUpTo(n)) = {time[i] : i \in entries}
  BY DEF CreatedTimes, ProposalsUpTo
<1>3. time \in Surjection(entries, {time[i] : i \in entries})
  BY DEF Surjection
<1> QED
  BY <1>1, <1>2, <1>3, FS_Surjection

\* A proposal that is missing in the table of a new entry was one too many
\* when it was evicted, and is so still.
LEMMA TrailPost ==
  ASSUME TypeOK, NEW p \in Proposal, PostProposals(p), NEW n, n = Len(ledger),
         TrailAt(n)
  PROVE  TrailAt(n + 1)'
<1> DEFINE m == n + 1
           old == ProposalsUpTo(n)
           new == old \cup {p}
           table == ledger[n].table
           Newer(q, proposals) == {t \in CreatedTimes(proposals) : t > q.created_at}
<1>1. /\ \A i \in 1 .. n : ledger'[i] = ledger[i]
      /\ Len(ledger') = n + 1
      /\ ledger'[m].proposal = p
      /\ Accepted' = Accepted \cup {m}
  BY PostFacts
<1>2. PICK gone \in Evictions(table \cup {p}) :
        ledger'[m].table = (table \cup {p}) \ gone
  <2>1. table = Latest.table
    BY LedgerFacts
  <2> HIDE DEF table
  <2> QED
    BY <2>1, PostTable
<1>3. /\ n \in Nat \ {0} /\ m \in Nat
      /\ \A i \in Accepted : i \in 1 .. n
  BY LedgerFacts
<1>4. ProposalsUpTo(m)' = new
  <2>1. AcceptedUpTo(m)' = Accepted \cup {m} /\ AcceptedUpTo(n) = Accepted
    BY <1>1, <1>3 DEF AcceptedUpTo
  <2> HIDE DEF m
  <2> QED
    BY <1>1, <1>3, <2>1 DEF ProposalsUpTo
<1>5. table \subseteq old /\ CreatedTimes(old) \subseteq CreatedTimes(new)
  BY DEF TrailAt, CreatedTimes
<1>6. IsFiniteSet(CreatedTimes(new))
  <2>1. IsFiniteSet(CreatedTimes(old))
    BY <1>3, FiniteTimes
  <2>2. CreatedTimes(new) = CreatedTimes(old) \cup {p.created_at}
    BY DEF CreatedTimes
  <2> HIDE DEF old, new
  <2> QED
    BY <2>1, <2>2, FS_AddElement
<1> HIDE DEF old, new, table, m
<1>7. ASSUME NEW q, NEW proposals,
             CreatedTimes(proposals) \subseteq CreatedTimes(new)
      PROVE  /\ Cardinality(Newer(q, proposals)) \in Nat
             /\ Cardinality(Newer(q, new)) \in Nat
             /\ Cardinality(Newer(q, proposals)) <= Cardinality(Newer(q, new))
  <2>1. /\ Newer(q, proposals) \subseteq Newer(q, new)
        /\ Newer(q, new) \subseteq CreatedTimes(new)
    BY <1>7
  <2> HIDE DEF Newer
  <2>2. IsFiniteSet(Newer(q, new)) /\ IsFiniteSet(Newer(q, proposals))
    BY <1>6, <2>1, FS_Subset
  <2> QED
    BY <2>1, <2>2, FS_Subset, FS_CardinalityType
<1>8. ASSUME NEW q \in new, Cardinality(Newer(q, new)) < ProposalsToKeep,
             q \notin ledger'[m].table
      PROVE  FALSE
  <2>1. q \in gone \/ q \notin table \cup {p}
    BY <1>2, <1>8
  <2>2. CASE q \in gone
    <3>1. q.created_at \in ExcessTimes(CreatedTimes(table \cup {p}))
      BY <2>2 DEF Evictions, CreatedTimes
    <3>2. Cardinality(Newer(q, table \cup {p})) >= ProposalsToKeep
      BY <3>1, Zenon DEF ExcessTimes
    <3>3. CreatedTimes(table \cup {p}) \subseteq CreatedTimes(new)
      BY <1>5 DEF CreatedTimes, new
    <3> HIDE DEF Newer
    <3>4. /\ Cardinality(Newer(q, table \cup {p})) \in Nat
          /\ Cardinality(Newer(q, new)) \in Nat
          /\ Cardinality(Newer(q, table \cup {p})) <= Cardinality(Newer(q, new))
      BY <1>7, <3>3
    <3> QED
      BY <1>8, <3>2, <3>4, ProposalsAssumption
  <2>3. CASE q \notin table \cup {p}
    <3>1. q \in old
      BY <2>3 DEF new
    <3>2. ~ Cardinality(Newer(q, old)) < ProposalsToKeep
      BY <2>3, <3>1 DEF TrailAt, old, table
    <3> HIDE DEF Newer
    <3>3. /\ Cardinality(Newer(q, old)) \in Nat
          /\ Cardinality(Newer(q, new)) \in Nat
          /\ Cardinality(Newer(q, old)) <= Cardinality(Newer(q, new))
      BY <1>5, <1>7
    <3> QED
      BY <1>8, <3>2, <3>3, ProposalsAssumption
  <2> QED
    BY <2>1, <2>2, <2>3
<1>9. ledger'[m].table \subseteq new
  BY <1>2, <1>5 DEF new
<1>10. \A q \in new : Cardinality(Newer(q, new)) < ProposalsToKeep
                        => q \in ledger'[m].table
  BY <1>8
<1> QED
  BY <1>4, <1>9, <1>10 DEF TrailAt, m

LEMMA PoliciesInit == Init => TypeOK /\ EffectInv /\ TrailInv
<1> SUFFICES ASSUME Init PROVE TypeOK /\ EffectInv /\ TrailInv
  OBVIOUS
<1>1. /\ Len(ledger) = 1
      /\ ledger[1].table = {}
      /\ ledger[1].policies = [replaced |-> [s \in Slots |-> Unset], claim |-> {}]
      /\ ledger[1].proposal = NoProposal
  BY DEF Init
<1>2. KvTypeOK(ledger[1])
  BY <1>1 DEF KvTypeOK, Policies
<1>3. LedgerTypeOK
  BY OrderInit DEF OrderInv, TableTypeOK
<1>4. Accepted = {}
  BY <1>1 DEF Accepted
<1>5. \A n, slot : SettersUpTo(n, slot) = {} /\ ProposalsUpTo(n) = {}
  BY <1>4 DEF SettersUpTo, ProposalsUpTo, AcceptedUpTo
<1>6. EffectAt(1) /\ TrailAt(1)
  BY <1>1, <1>5 DEF EffectAt, TrailAt
<1> QED
  BY <1>1, <1>2, <1>3, <1>6 DEF TypeOK, EffectInv, TrailInv

LEMMA PoliciesStep ==
  TypeOK /\ EffectInv /\ TrailInv /\ [Next]_vars
    => (TypeOK /\ EffectInv /\ TrailInv)'
<1> SUFFICES ASSUME TypeOK, EffectInv, TrailInv, [Next]_vars,
                    NEW n, n = Len(ledger)
             PROVE  TypeOK' /\ EffectInv' /\ TrailInv'
  OBVIOUS
<1>1. n \in Nat \ {0} /\ LedgerTypeOK
  BY LedgerFacts DEF TypeOK
<1>2. ASSUME NEW p \in Proposal, PostProposals(p)
      PROVE  TypeOK' /\ EffectInv' /\ TrailInv'
  <2>1. /\ TypeOK'
        /\ Len(ledger') = n + 1
        /\ \A i \in 1 .. n : ledger'[i] = ledger[i]
    BY <1>2, PostFacts
  <2>2. EffectAt(n + 1)' /\ TrailAt(n + 1)'
    BY <1>1, <1>2, EffectPost, TrailPost DEF EffectInv, TrailInv
  <2>3. ASSUME NEW i \in 1 .. n PROVE EffectAt(i)' /\ TrailAt(i)'
    BY <1>1, <2>1, EntryUnchanged DEF EffectInv, TrailInv
  <2>4. \A i \in 1 .. n + 1 : i = n + 1 \/ i \in 1 .. n
    BY <1>1
  <2>5. \A i \in 1 .. n + 1 : EffectAt(i)' /\ TrailAt(i)'
    BY <2>2, <2>3, <2>4
  <2> QED
    BY <2>1, <2>5 DEF EffectInv, TrailInv
<1>3. ASSUME NEW v \in 1 .. n, LedgerTypeOK', Len(ledger') = v,
             \A i \in 1 .. v : ledger'[i] = ledger[i]
      PROVE  TypeOK' /\ EffectInv' /\ TrailInv'
  <2>1. TypeOK'
    BY <1>1, <1>3 DEF TypeOK, KvTypeOK
  <2>2. ASSUME NEW i \in 1 .. v PROVE EffectAt(i)' /\ TrailAt(i)'
    BY <1>1, <1>3, EntryUnchanged DEF EffectInv, TrailInv
  <2> QED
    BY <1>3, <2>1, <2>2 DEF EffectInv, TrailInv
<1>4. CASE Commit
  <2>1. LedgerTypeOK' /\ ledger' = ledger
    BY <1>1, <1>4, GloballyCommitStep DEF Commit
  <2> QED
    BY <1>1, <1>3, <2>1
<1>5. CASE NewPrimary
  <2>1. PICK v \in 1 .. MaxLedger : Rollback(v)
    BY <1>5 DEF NewPrimary
  <2>2. /\ LedgerTypeOK'
        /\ v \in 1 .. n
        /\ Len(ledger') = v
        /\ \A i \in 1 .. v : ledger'[i] = ledger[i]
    BY <1>1, <2>1, RollbackStep DEF LedgerTypeOK
  <2> QED
    BY <1>3, <2>2
<1>6. CASE UNCHANGED vars
  <2>1. LedgerTypeOK' /\ ledger' = ledger
    BY <1>1, <1>6 DEF vars, LedgerTypeOK, Entries
  <2> QED
    BY <1>1, <1>3, <2>1
<1> QED
  BY <1>2, <1>4, <1>5, <1>6 DEF Next

\* Whatever the actions of a proposal are, postProposals leaves a table of
\* proposals, well-formed policies and the proposal it accepted.
THEOREM ProposalsTypeCorrect == Spec => []TypeOK
BY PoliciesInit, PoliciesStep, PTL DEF Spec

\* The content of each policy in the latest state is the one that the newest
\* accepted proposal about it gave it, in the signers' order and not only in
\* that of arrival; a policy no accepted proposal is about was never set.
THEOREM NewestSignedDecides == Spec => []NewestSignedWins
<1>1. TypeOK /\ EffectInv /\ AcceptedInOrder => NewestSignedWins
  <2> SUFFICES ASSUME TypeOK, EffectInv, AcceptedInOrder, NEW slot \in Slots,
                      NEW setters,
                      setters = {i \in Accepted : \E v \in Values : Sets(i, slot, v)}
               PROVE  IF setters = {} THEN Latest.policies.replaced[slot] = Unset
                      ELSE \E i \in setters :
                             /\ Sets(i, slot, Latest.policies.replaced[slot])
                             /\ \A j \in setters : ledger[j].proposal.created_at
                                                     <= ledger[i].proposal.created_at
    BY DEF NewestSignedWins
  <2> DEFINE n == Len(ledger)
  <2>1. /\ n \in Nat \ {0} /\ n \in 1 .. n /\ Latest = ledger[n]
        /\ \A i \in Accepted : i \in 1 .. n /\ ledger[i].proposal \in Proposal
    BY LedgerFacts
  <2>2. SettersUpTo(n, slot) = setters
    BY <2>1 DEF SettersUpTo, AcceptedUpTo
  <2>3. \/ setters = {} /\ Latest.policies.replaced[slot] = Unset
        \/ \E i \in setters : /\ Sets(i, slot, Latest.policies.replaced[slot])
                              /\ \A j \in setters : j <= i
    BY <2>1, <2>2 DEF EffectInv, EffectAt
  <2>4. ASSUME NEW i \in setters, NEW j \in setters, j <= i
        PROVE  ledger[j].proposal.created_at <= ledger[i].proposal.created_at
    <3>1. i \in Accepted /\ j \in Accepted /\ i \in Nat /\ j \in Nat
      BY <2>1
    <3>2. CASE j < i
      BY <3>1, <3>2 DEF AcceptedInOrder
    <3>3. CASE j = i
      BY <3>1, <3>3, <2>1, CreatedAtType
    <3> QED
      BY <2>4, <3>1, <3>2, <3>3
  <2> QED
    BY <2>3, <2>4
<1>2. Spec => [](TypeOK /\ EffectInv /\ TrailInv)
  BY PoliciesInit, PoliciesStep, PTL DEF Spec
<1> QED
  BY <1>1, <1>2, ProposalsInOrder, PTL

\* Every proposal in proposalsPolicyMap was accepted, and none of the accepted
\* ones is missing there while fewer than ProposalsToKeep newer times are known.
THEOREM AuditTrailKept == Spec => []RecentProposalsKept
<1>1. TypeOK /\ TrailInv => RecentProposalsKept
  <2> SUFFICES ASSUME TypeOK, TrailInv PROVE RecentProposalsKept
    OBVIOUS
  <2> DEFINE n == Len(ledger)
  <2>1. /\ n \in Nat \ {0} /\ n \in 1 .. n /\ Latest = ledger[n]
        /\ \A i \in Accepted : i \in 1 .. n
    BY LedgerFacts
  <2>2. AcceptedUpTo(n) = Accepted
    BY <2>1 DEF AcceptedUpTo
  <2>3. TrailAt(n)
    BY <2>1 DEF TrailInv
  <2> HIDE DEF n
  <2> QED
    BY <2>1, <2>2, <2>3, Zenon DEF TrailAt, ProposalsUpTo, RecentProposalsKept
<1>2. Spec => [](TypeOK /\ EffectInv /\ TrailInv)
  BY PoliciesInit, PoliciesStep, PTL DEF Spec
<1> QED
  BY <1>1, <1>2, PTL
=============================================================================
