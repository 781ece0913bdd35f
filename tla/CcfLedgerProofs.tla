--------------------------- MODULE CcfLedgerProofs ---------------------------
(***************************************************************************)
(* What the three steps of the ledger do to its length and its entries, and *)
(* induction over numbers in the form the other proofs use: for a set, since *)
(* an operator cannot be a parameter of a lemma that the provers apply.     *)
(***************************************************************************)
EXTENDS CcfLedger, TLAPS, WellFoundedInduction

\* A set of numbers has a least one.
LEMMA LeastExists ==
  ASSUME NEW S, S \subseteq Nat, S # {}
  PROVE  \E m \in S : \A k \in S : m <= k
<1> DEFINE below == {pair \in Nat \X Nat : pair[1] < pair[2]}
<1>1. IsWellFoundedOn(below, Nat)
  BY NatLessThanWellFounded DEF OpToRel
<1> HIDE DEF below
<1>2. PICK m \in S : \A k \in S : <<k, m>> \notin below
  BY <1>1, WFMin
<1>3. \A k \in S : k \in Nat /\ m \in Nat /\ ~ k < m
  BY <1>2 DEF below
<1> QED
  BY <1>3

\* A bounded set of numbers has a greatest.
LEMMA GreatestExists ==
  ASSUME NEW size \in Nat, NEW ids, ids \subseteq 1 .. size, ids # {}
  PROVE  \E i \in ids : \A other \in ids : other <= i
<1> DEFINE distances == {size - i : i \in ids}
<1>1. \A i \in ids : i \in Nat /\ size - i \in Nat
  OBVIOUS
<1>2. distances \subseteq Nat /\ distances # {}
  BY <1>1
<1>3. PICK d \in distances : \A e \in distances : d <= e
  <2> HIDE DEF distances
  <2> QED
    BY <1>2, LeastExists
<1>4. PICK i \in ids : d = size - i
  OBVIOUS
<1>5. ASSUME NEW other \in ids PROVE other <= i
  <2>1. size - i <= size - other
    BY <1>3, <1>4
  <2> QED
    BY <1>1, <2>1
<1> QED
  BY <1>5

\* What holds of 0, and of every number up to n if it holds of the one before,
\* holds of all numbers up to n; S are the numbers it holds of.
LEMMA UpToInduction ==
  ASSUME NEW n \in Nat, NEW S, 0 \in S,
         \A k \in 1 .. n : k - 1 \in S => k \in S
  PROVE  \A k \in 0 .. n : k \in S
<1> DEFINE bad == (0 .. n) \ S
<1> SUFFICES ASSUME bad # {} PROVE FALSE
  OBVIOUS
<1>1. PICK m \in bad : \A k \in bad : m <= k
  <2>1. bad \subseteq Nat
    OBVIOUS
  <2> HIDE DEF bad
  <2> QED
    BY <2>1, LeastExists
<1>2. m \in 1 .. n /\ m - 1 \in 0 .. n /\ ~ m <= m - 1
  OBVIOUS
<1>3. m - 1 \in S
  BY <1>1, <1>2
<1> QED
  BY <1>2, <1>3

\* A sequence is one over the set of its own elements.
LEMMA SeqOverElements ==
  ASSUME NEW S, NEW s \in Seq(S)
  PROVE  s \in Seq({s[i] : i \in 1 .. Len(s)})
<1>1. s \in [1 .. Len(s) -> {s[i] : i \in 1 .. Len(s)}]
  OBVIOUS
<1>2. Len(s) \in Nat
  OBVIOUS
<1> QED
  BY <1>1, <1>2

\* A read-write transaction adds one entry and changes none.
LEMMA WriteStep ==
  ASSUME LedgerTypeOK, NEW kv, Write(kv)
  PROVE  /\ LedgerTypeOK'
         /\ Len(ledger') = Len(ledger) + 1
         /\ ledger'[Len(ledger) + 1] = kv
         /\ \A i \in 1 .. Len(ledger) : ledger'[i] = ledger[i]
         /\ commit' = commit
<1> DEFINE S == Entries \cup {kv}
<1>1. ledger \in Seq(S) /\ kv \in S
  BY DEF LedgerTypeOK
<1>2. ledger' = Append(ledger, kv) /\ commit' = commit
  BY DEF Write
<1> HIDE DEF S
<1>3. /\ ledger' \in Seq(S)
      /\ Len(ledger') = Len(ledger) + 1
      /\ ledger'[Len(ledger) + 1] = kv
      /\ \A i \in 1 .. Len(ledger) : ledger'[i] = ledger[i]
  BY <1>1, <1>2
<1>4. ledger' \in Seq(Entries')
  BY <1>3, SeqOverElements DEF Entries
<1> QED
  BY <1>1, <1>2, <1>3, <1>4 DEF LedgerTypeOK

\* Global commit only moves commit forward.
LEMMA GloballyCommitStep ==
  ASSUME LedgerTypeOK, NEW v, GloballyCommit(v)
  PROVE  /\ LedgerTypeOK'
         /\ ledger' = ledger
         /\ commit' \in commit + 1 .. Len(ledger)
BY DEF LedgerTypeOK, GloballyCommit, Entries

\* A change of primary keeps the first v entries, the committed ones included.
LEMMA RollbackStep ==
  ASSUME LedgerTypeOK, NEW v, Rollback(v)
  PROVE  /\ LedgerTypeOK'
         /\ v \in commit .. Len(ledger)
         /\ Len(ledger') = v
         /\ \A i \in 1 .. v : ledger'[i] = ledger[i]
         /\ commit' = commit
<1>1. /\ ledger \in Seq(Entries)
      /\ commit \in 1 .. Len(ledger)
      /\ v \in commit .. Len(ledger)
      /\ ledger' = SubSeq(ledger, 1, v)
      /\ commit' = commit
  BY DEF LedgerTypeOK, Rollback
<1>2. /\ ledger' \in Seq(Entries)
      /\ Len(ledger') = v
      /\ \A i \in 1 .. v : ledger'[i] = ledger[i]
  <2>1. v \in 1 .. Len(ledger)
    BY <1>1
  <2> QED
    BY <1>1, <2>1
<1>3. ledger' \in Seq(Entries')
  BY <1>2, SeqOverElements DEF Entries
<1> QED
  BY <1>1, <1>2, <1>3 DEF LedgerTypeOK
=============================================================================
