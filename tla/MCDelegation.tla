---------------------------- MODULE MCDelegation ----------------------------
(* Small instances of Delegation.  Keys are interchangeable.                *)
EXTENDS Delegation, TLC

Symmetry == Permutations(Key)
=============================================================================
