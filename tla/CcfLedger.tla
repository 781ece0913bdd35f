------------------------------ MODULE CcfLedger ------------------------------
(***************************************************************************)
(* The part of CCF the key management service stands on, modelled from how *)
(* the service uses it.  Every handler of the service is one transaction    *)
(* of a replicated key-value store: the writes of a read-write handler are *)
(* applied together or not at all, and each applied transaction appends    *)
(* one entry to the ledger.  An entry is represented by the state of the   *)
(* application's maps right after it.  A prefix of the ledger is globally   *)
(* committed; the suffix behind it has been executed (and answered!) but a  *)
(* change of primary may still discard it.                                  *)
(***************************************************************************)
EXTENDS Integers, Sequences

CONSTANT MaxLedger      \* bound on the number of ledger entries

ASSUME LedgerAssumption == MaxLedger \in Nat \ {0}

VARIABLES
  ledger,               \* sequence of states of the application's maps
  commit                \* length of the globally committed prefix

\* The maps a transaction on the primary reads: the effect of every executed
\* transaction, committed or not.
Latest == ledger[Len(ledger)]

\* A read-write handler that answers 2xx applies its writes as the next entry.
Write(kv) ==
  /\ Len(ledger) < MaxLedger
  /\ ledger' = Append(ledger, kv)
  /\ UNCHANGED commit

\* A majority has acknowledged the ledger up to entry v.
GloballyCommit(v) ==
  /\ v \in commit + 1 .. Len(ledger)
  /\ commit' = v
  /\ UNCHANGED ledger

\* A new primary takes over with the first v entries; what was behind them and
\* not committed is lost.
Rollback(v) ==
  /\ v \in commit .. Len(ledger)
  /\ ledger' = SubSeq(ledger, 1, v)
  /\ UNCHANGED commit

\* The entries of the ledger, as a set.
Entries == {ledger[i] : i \in 1 .. Len(ledger)}

LedgerTypeOK ==
  /\ ledger \in Seq(Entries)
  /\ commit \in 1 .. Len(ledger)
=============================================================================
