------------------------------ MODULE ScopeTree ------------------------------
(* IntentTree, MerkleProof and SubScopeProof of intent.rs. The other modules *)
(* say "the intent is in the scope"; here is why a Merkle path may stand for *)
(* that, along a chain of narrowed scopes, even when the path and the        *)
(* narrowed set come from someone who holds every hash of the tree.          *)
(*                                                                           *)
(* Hashes are terms, as in Merkle: an intent is <<n>>. The order of hashes   *)
(* is some total order.                                                      *)
EXTENDS Merkle, FiniteSets, FiniteSetsExt

CONSTANTS
  Leaves,    \* number of intents
  MaxPath,   \* longest proof an adversary tries
  MaxHops,   \* narrowings in a chain
  MaxSubset  \* hashes in a narrowed scope

ASSUME ScopeTreeAssumption ==
  Leaves \in Nat \ {0} /\ MaxPath \in Nat /\ MaxHops \in Nat /\ MaxSubset \in Nat

VARIABLES
  grants,    \* the intents the root certificate was issued for
  scope,     \* the current scope root
  honest,    \* the tree the current scope root was built from
  below,     \* the hashes that have a path to the scope root
  hops

treeVars == <<grants, scope, honest, below, hops>>

Leaf == {<<n>> : n \in 1..Leaves}

Before(s, t) ==
  \E i \in 1..Len(t) :
    /\ \A j \in 1..(i - 1) : j <= Len(s) /\ s[j] = t[j]
    /\ i > Len(s) \/ s[i] < t[i]

(* IntentTree::build: the distinct hashes in order, then layers of pairs up  *)
(* to one node; an odd last hash goes up as it is.                           *)
Sorted(S) ==
  LET n == Cardinality(S)
  IN  CHOOSE q \in [1..n -> S] :
        {q[i] : i \in 1..n} = S /\ \A i, j \in 1..n : i < j => Before(q[i], q[j])

(* Plausible mistake: an odd last hash is paired with itself, which prove    *)
(* does not follow.                                                          *)
NextLayerTwice(layer) ==
  [i \in 1..((Len(layer) + 1) \div 2) |->
     IF 2 * i <= Len(layer) THEN merkle_node(layer[2 * i - 1], layer[2 * i])
     ELSE merkle_node(layer[2 * i - 1], layer[2 * i - 1])]

NextLayer(layer) ==
  [i \in 1..((Len(layer) + 1) \div 2) |->
     IF 2 * i <= Len(layer) THEN merkle_node(layer[2 * i - 1], layer[2 * i])
     ELSE layer[2 * i - 1]]

(* The layers from the leaves up; above the root it stays as it is, and that *)
(* is reached in fewer layers than there are leaves.                         *)
layers(S) ==
  LET leaves == Sorted(S)
      at[n \in Nat] == IF n = 0 THEN leaves
                       ELSE IF Len(at[n - 1]) > 1 THEN NextLayer(at[n - 1]) ELSE at[n - 1]
  IN  at

root(S) == layers(S)[Cardinality(S)][1]

(* The neighbours in the layers on the way up, where there is one: the root  *)
(* has none.                                                                 *)
path(ls, start) ==
  LET pos == halved(start)
      step(n) == IF beside(pos[n]) < Len(ls[n])
                   THEN <<[hash |-> ls[n][beside(pos[n]) + 1], is_left |-> pos[n] % 2 = 1]>>
                   ELSE << >>
      at[n \in Nat] == IF n = 0 THEN << >> ELSE at[n - 1] \o step(n - 1)
  IN  at

(* IntentTree::prove. Positions count from 0, as in the code.                *)
prove(S, leaf) ==
  LET ls == layers(S)
      found == CHOOSE i \in 1..Len(ls[0]) : ls[0][i] = leaf
  IN  path(ls, found - 1)[Cardinality(S)]

(* MerkleProof::verify_proof *)
verify_proof(siblings, leaf, expected) == climb(leaf, siblings) = expected

(* The hashes of two trees, known to everyone. Since a node determines its   *)
(* children, a path to a root is made of hashes of that root's tree.         *)
HashesOf(S) == UNION {{layers(S)[n][i] : i \in 1..Len(layers(S)[n])} : n \in 0..Cardinality(S)}
Known(S, T) == HashesOf(S) \cup HashesOf(T) \cup Leaf

(* The known hashes that some path of at most MaxPath steps leads to a root. *)
Below(expected, known) ==
  LET Sibling == [hash : known, is_left : BOOLEAN]
      Under(tops) == {h \in known : \E s \in Sibling : \E t \in tops : verify_proof(<<s>>, h, t)}
      down[n \in Nat] ==
        IF n = 0 THEN {expected} ELSE down[n - 1] \cup Under(down[n - 1])
  IN  down[MaxPath]

TreeInit ==
  /\ grants \in (SUBSET Leaf) \ {{}}
  /\ honest = grants
  /\ scope = root(grants)
  /\ below = Below(scope, Known(grants, grants))
  /\ hops = 0

(* The scope becomes that of the tree over a set of hashes.                  *)
NarrowTo(subset) ==
  /\ hops < MaxHops
  /\ scope' = root(subset) /\ honest' = subset
  /\ below' = Below(scope', Known(grants, subset))
  /\ hops' = hops + 1
  /\ UNCHANGED grants

(* Plausible mistake: the paths are counted but not verified.                *)
NarrowUnverified ==
  \E k \in 1..MaxSubset : \E subset \in kSubset(k, Known(grants, honest)) : NarrowTo(subset)

(* SubScopeProof::verify_and_derive_root, for hashes that have a path to the *)
(* current scope root. The new scope root is that of a tree over them. They  *)
(* need not be intents: nodes of the tree have paths too.                    *)
Narrow ==
  \E k \in 1..MaxSubset : \E subset \in kSubset(k, below) : NarrowTo(subset)

(* SubScopeProof::full_passthrough *)
PassThrough ==
  /\ hops < MaxHops
  /\ hops' = hops + 1
  /\ UNCHANGED <<grants, scope, honest, below>>

TreeNext ==
  Narrow \/ PassThrough

TreeSpec == TreeInit /\ [][TreeNext]_treeVars

(* The scope root is the root of the tree it was built from.                 *)
TreeTypeOK ==
  /\ grants \subseteq Leaf /\ grants # {}
  /\ scope = root(honest)
  /\ hops \in 0..MaxHops

(* IntentTree::prove and MerkleProof::verify_proof agree: whoever holds the  *)
(* tree behind the current scope root can prove each of its members, at any  *)
(* number of leaves, a tree of one and odd layers included.                  *)
MembersProvable == \A h \in honest : verify_proof(prove(honest, h), h, scope)

(* No path proves an intent that the root certificate was not issued for,    *)
(* whatever the scope was narrowed to by verify_and_derive_root: narrowing   *)
(* to nodes of the tree, which that function accepts, widens nothing.        *)
ScopeNeverWidens == below \cap Leaf \subseteq grants

(* A Merkle path under a scope root of validate_structure proves membership  *)
(* in what was granted, and nothing else.                                    *)
ScopeProofsExact == MembersProvable /\ ScopeNeverWidens
=============================================================================
