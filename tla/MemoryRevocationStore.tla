------------------------- MODULE MemoryRevocationStore -------------------------
(***************************************************************************)
(* The in-process revocation store (MemoryRevocationStore in registry.rs): *)
(* a Bloom filter of atomic words, which readers consult without a lock,   *)
(* in front of sharded sets of fingerprints.  revoke and revoke_batch      *)
(* first set the filter bits of all their fingerprints, one atomic         *)
(* fetch_or at a time, then insert each fingerprint into its shard;        *)
(* is_revoked loads the bits one by one and then reads the shard.          *)
(***************************************************************************)
EXTENDS Integers, Sequences

CONSTANTS
  Fp,        \* certificate fingerprints
  FilterBit, \* bits of the filter
  BitsOf,    \* BitsOf[fp]: the three bits that bloom_indices(fp) selects
  Revoker,   \* threads that call revoke_batch once; revoke is a batch of one
  Batches,   \* the fingerprint slices they are called with
  Reader     \* threads that call is_revoked once

ASSUME RevocationAssumption ==
  /\ BitsOf \in [Fp -> [1 .. 3 -> FilterBit]]
  /\ Batches \subseteq Seq(Fp)

VARIABLES
  filter,    \* the bits that are set
  shard,     \* the fingerprints in the shards
  rv,        \* rv[r]: progress of the revocation r
  rd         \* rd[q]: progress of the reader q

revVars == <<filter, shard, rv, rd>>

(* The revocations that is_revoked can report.                             *)
Visible == {fp \in shard : \A k \in 1 .. 3 : BitsOf[fp][k] \in filter}

RevTypeOK ==
  /\ filter \subseteq FilterBit
  /\ shard \subseteq Fp
  /\ rv \in [Revoker -> [fps : Batches, bits : Nat, done : Nat]]
  /\ \A r \in Revoker : rv[r].bits <= 3 * Len(rv[r].fps) /\ rv[r].done <= Len(rv[r].fps)
  /\ rd \in [Reader -> [fp : Fp, st : {"idle", "bits", "shard", "yes", "no"},
                        k : 1 .. 4, before : SUBSET Fp]]

RevInit ==
  /\ filter = {}
  /\ shard = {}
  /\ rv \in [Revoker -> [fps : Batches, bits : {0}, done : {0}]]
  /\ rd \in [Reader -> [fp : Fp, st : {"idle"}, k : {1}, before : {{}}]]

-----------------------------------------------------------------------------

(* The bit that the (k+1)-th fetch_or of a batch sets.                     *)
BitAt(fps, k) == BitsOf[fps[(k \div 3) + 1]][(k % 3) + 1]

(* One fetch_or of the first loop.                                         *)
SetBit(r) ==
  /\ rv[r].bits < 3 * Len(rv[r].fps)
  /\ filter' = filter \cup {BitAt(rv[r].fps, rv[r].bits)}
  /\ rv' = [rv EXCEPT ![r].bits = @ + 1]
  /\ UNCHANGED <<shard, rd>>

(* Plausible mistake: the first fingerprint of the slice is skipped.         *)
InsertFpSkipsFirst(r) ==
  /\ rv[r].bits = 3 * Len(rv[r].fps)
  /\ rv[r].done < Len(rv[r].fps)
  /\ shard' = shard \cup (IF rv[r].done = 0 THEN {} ELSE {rv[r].fps[rv[r].done + 1]})
  /\ rv' = [rv EXCEPT ![r].done = @ + 1]
  /\ UNCHANGED <<filter, rd>>

(* One insertion of the second loop, under the shard's write lock.         *)
InsertFp(r) ==
  /\ rv[r].bits = 3 * Len(rv[r].fps)
  /\ rv[r].done < Len(rv[r].fps)
  /\ shard' = shard \cup {rv[r].fps[rv[r].done + 1]}
  /\ rv' = [rv EXCEPT ![r].done = @ + 1]
  /\ UNCHANGED <<filter, rd>>

StartRead(q) ==
  /\ rd[q].st = "idle"
  /\ rd' = [rd EXCEPT ![q].st = "bits", ![q].before = Visible]
  /\ UNCHANGED <<filter, shard, rv>>

(* One load of the filter: a clear bit answers "not revoked".              *)
LoadBit(q) ==
  /\ rd[q].st = "bits"
  /\ rd' = [rd EXCEPT
       ![q].st = IF BitsOf[rd[q].fp][rd[q].k] \notin filter THEN "no"
                 ELSE IF rd[q].k = 3 THEN "shard" ELSE "bits",
       ![q].k = @ + 1]
  /\ UNCHANGED <<filter, shard, rv>>

(* Plausible mistake: the filter alone decides.                              *)
TrustBloom(q) ==
  /\ rd[q].st = "shard"
  /\ rd' = [rd EXCEPT ![q].st = "yes"]
  /\ UNCHANGED <<filter, shard, rv>>

(* The exact answer, under the shard's read lock.                          *)
ReadShard(q) ==
  /\ rd[q].st = "shard"
  /\ rd' = [rd EXCEPT ![q].st = IF rd[q].fp \in shard THEN "yes" ELSE "no"]
  /\ UNCHANGED <<filter, shard, rv>>

RevNext ==
  \/ \E r \in Revoker : SetBit(r) \/ InsertFp(r)
  \/ \E q \in Reader : StartRead(q) \/ LoadBit(q) \/ ReadShard(q)

RevSpec == RevInit /\ [][RevNext]_revVars

-----------------------------------------------------------------------------

(* When revoke_batch returns, every fingerprint it was given is visible,    *)
(* whatever other revocations run and however filter bits are shared.       *)
RevokeTakesEffect ==
  \A r \in Revoker : \A k \in 1 .. rv[r].done : rv[r].fps[k] \in Visible

(* is_revoked answers as if it had read the set at one instant of its       *)
(* execution, although it makes four separate reads: "no" only for a        *)
(* fingerprint not visible when it began, "yes" only for one that is        *)
(* visible when it ends - a filter collision never revokes an innocent      *)
(* certificate, and a revocation seen once is seen by every later reader.   *)
ReadIsAtomic ==
  \A q \in Reader :
    /\ rd[q].st = "no" => rd[q].fp \notin rd[q].before
    /\ rd[q].st = "yes" => rd[q].fp \in Visible

(* is_revoked, which takes four steps, answers as if it read one growing set *)
(* at one instant; a returned revoke_batch is in that set. Each fingerprint  *)
(* of a batch enters it at an instant of its own: a reader may see some of   *)
(* the batch and not yet the rest.                                           *)
RevocationAtomic == RevokeTakesEffect /\ ReadIsAtomic
=============================================================================
