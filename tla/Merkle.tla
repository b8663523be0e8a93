-------------------------------- MODULE Merkle --------------------------------
(* What the trees of intents (intent.rs) and of reasoning steps              *)
(* (provenance.rs) have in common: the hash of a node, the positions on the  *)
(* way from a leaf to the root, and the way itself.                          *)
(*                                                                           *)
(* A hash is a term, written in prefix form: a node is <<0>> before its two  *)
(* children. No two terms are equal by chance.                               *)
EXTENDS Naturals, Sequences

merkle_node(l, r) == <<0>> \o l \o r

(* pos /= 2, idx >>= 1: the positions, from 0, in one layer after the other. *)
halved(pos) ==
  LET at[n \in Nat] == IF n = 0 THEN pos ELSE at[n - 1] \div 2
  IN  at

(* The position of the neighbour.                                            *)
beside(pos) == IF pos % 2 = 0 THEN pos + 1 ELSE pos - 1

(* The hash that a leaf and the siblings of a path come to.                  *)
climb(leaf, siblings) ==
  LET at[n \in 0..Len(siblings)] ==
        IF n = 0 THEN leaf
        ELSE IF siblings[n].is_left THEN merkle_node(siblings[n].hash, at[n - 1])
        ELSE merkle_node(at[n - 1], siblings[n].hash)
  IN  at[Len(siblings)]
=============================================================================
