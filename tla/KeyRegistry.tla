----------------------------- MODULE KeyRegistry -----------------------------
(***************************************************************************)
(* What the key store promises, without ledger, clock, maps or handles.    *)
(*                                                                         *)
(* The service owns an ordered list of key pairs.  New keys are appended    *)
(* and a key pair is never registered twice.  A prefix of the list is       *)
(* durable: the rest may be lost with a failing primary.  Only durable keys *)
(* may be published with a receipt, so a published key is never lost and    *)
(* never changes its place.                                                 *)
(***************************************************************************)
EXTENDS Naturals, Sequences

CONSTANT KeyPairs

VARIABLES
  keys,        \* registered key pairs, oldest first
  generated,   \* every key pair ever drawn, lost ones included
  durable,     \* how many of keys can no longer be lost
  published    \* <<key pair, position>> of the keys handed out with a receipt

vars == <<keys, generated, durable, published>>

Init ==
  /\ keys = <<>>
  /\ generated = {}
  /\ durable = 0
  /\ published = {}

\* A fresh key pair becomes the newest key.
Add ==
  \E pair \in KeyPairs \ generated :
    /\ keys' = Append(keys, pair)
    /\ generated' = generated \cup {pair}
    /\ UNCHANGED <<durable, published>>

\* More of the list is beyond loss.
Harden ==
  /\ durable' \in durable + 1 .. Len(keys)
  /\ UNCHANGED <<keys, generated, published>>

\* The newest keys are lost, but none of the durable ones.
Lose ==
  /\ \E size \in durable .. Len(keys) : keys' = SubSeq(keys, 1, size)
  /\ UNCHANGED <<generated, durable, published>>

\* A durable key is handed out as an encryption key.
Publish ==
  /\ \E i \in 1 .. durable : published' = published \cup {<<keys[i], i>>}
  /\ UNCHANGED <<keys, generated, durable>>

Next == Add \/ Harden \/ Lose \/ Publish

Spec == Init /\ [][Next]_vars

-----------------------------------------------------------------------------

TypeOK ==
  /\ keys \in Seq(KeyPairs)
  /\ generated \subseteq KeyPairs
  /\ durable \in 0 .. Len(keys)
  /\ published \subseteq KeyPairs \X Nat

\* A client that encrypts to a published key can count on the service still
\* holding that key, under the same number, whatever was lost in between.
PublishedKept ==
  \A p \in published : p[2] \in 1 .. durable /\ keys[p[2]] = p[1]

\* A key pair is registered at most once.
NoKeyTwice ==
  \A i, j \in 1 .. Len(keys) : keys[i] = keys[j] => i = j
=============================================================================
