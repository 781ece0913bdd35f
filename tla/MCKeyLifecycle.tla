--------------------------- MODULE MCKeyLifecycle ---------------------------
(***************************************************************************)
(* Instances of KeyLifecycle for TLC.  A second of the model has one        *)
(* millisecond here; the instance of KeyRollout tells the units apart.      *)
(***************************************************************************)
EXTENDS KeyLifecycle, TLC, CalcVersion

CONSTANTS k1, k2, k3

Policy(rotation, grace) ==
  [rotation_interval_seconds |-> rotation, grace_period_seconds |-> grace]

TwoKeys == {k1, k2}
ThreeKeys == {k1, k2, k3}

\* The codes of "A" and "z", two of the characters hashes begin with.  Whatever
\* the first seven are, they do not enter into the handle.
ASSUME \A buf \in [1 .. 8 -> {65, 122}] : CalcVersion(buf) = Eighth(buf)

\* Hashes that differ in all characters but the eighth: every kid falls on the
\* same historical-query handle.
Colliding == [pair \in KeyPairs |-> 65]
OneHandle == {65}

\* Hashes that differ in the eighth character only: no two kids share a handle.
Distinct == [pair \in KeyPairs |-> IF pair = k1 THEN 65 ELSE 122]
TwoHandles == {65, 122}

Hash(first, eighth) == [i \in 1 .. 8 |-> IF i = 8 THEN eighth ELSE first]

ASSUME /\ {CalcVersion(Hash(first, 65)) : first \in {65, 122}} = OneHandle
       /\ {CalcVersion(Hash(65, eighth)) : eighth \in {65, 122}} = TwoHandles

NoPolicies == {}
OnePolicy == {Policy(2, 1)}
TwoPolicies == {Policy(2, 1), Policy(1, 0)}

\* Neither key pairs nor nodes are told apart.
StoreSymmetry == Permutations(KeyPairs) \cup Permutations(Nodes)
=============================================================================
