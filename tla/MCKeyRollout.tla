---------------------------- MODULE MCKeyRollout ----------------------------
(***************************************************************************)
(* Instances of KeyRollout for TLC.  A second has two milliseconds.         *)
(***************************************************************************)
EXTENDS KeyRollout, TLC

CONSTANTS k1, k2

Policy(rotation, grace) ==
  [rotation_interval_seconds |-> rotation, grace_period_seconds |-> grace]

TwoKeys == {k1, k2}
OneHandle == {1}
Colliding == [pair \in KeyPairs |-> 1]
SomePolicies == {Policy(2, 1), Policy(1, 0)}

KeySymmetry == Permutations(KeyPairs)
=============================================================================
