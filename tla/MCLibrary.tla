------------------------------ MODULE MCLibrary ------------------------------
(* The parts of the library that share no state, one at a time: part is      *)
(* chosen in the initial state, so the state spaces add up instead of        *)
(* multiplying, and the parts that are not chosen stay in one initial state. *)
(* In the in-process nonce store both nonces hash to the same bit; of the    *)
(* fingerprints of the in-process revocation store, all the filter bits of   *)
(* f3 are bits of f1 or f2.                                                  *)
EXTENDS MemoryNonceStore, RedisNonceStore, MemoryRevocationStore, DbRevocationStore,
        DefaultNonceBatch, RateLimit, ScopeTree, Provenance, Ffi, TLC

CONSTANTS f1, f2, f3, b1, b2, b3, b4

VARIABLE part

nonceVars == <<vars, redisVars, dnbVars>>
revokeVars == <<revVars, dbVars>>
treesVars == <<treeVars, provVars>>

allVars == <<part, nonceVars, revokeVars, treesVars, rateVars, ffiVars>>

MCBitOf == [n \in Nonce |-> CHOOSE b \in Bit : TRUE]

MCBitsOf == f1 :> <<b1, b2, b3>> @@ f2 :> <<b2, b3, b4>> @@ f3 :> <<b1, b4, b4>>

MCBatches == {<<f1>>, <<f2>>, <<f1, f2>>, <<f2, f3>>}

MCLists == {<<f1>>, <<f1, "bad", f2, f3>>, << >>}

MCStoreKinds ==
  {[chunk |-> 2, ttl |-> Forever], [chunk |-> 1, ttl |-> Forever], [chunk |-> 1, ttl |-> 1]}

MCSlices == {<<1>>, <<1, 2>>, <<2, 1>>}

AnyOf(S) == CHOOSE x \in S : TRUE

(* One initial state for each part that is not chosen.                       *)
AtRest ==
  /\ part # "memory" =>
       probe = [p \in Prober |-> [st |-> "idle", nonce |-> AnyOf(Nonce),
                                  answer |-> FALSE, before |-> {}]]
  /\ part # "revocation" =>
       /\ rv = [r \in Revoker |-> [fps |-> <<f1>>, bits |-> 0, done |-> 0]]
       /\ rd = [q \in Reader |-> [fp |-> f1, st |-> "idle", k |-> 1, before |-> {}]]
  /\ part # "database" => backend = [chunk |-> 2, ttl |-> Forever]
  /\ part # "default" =>
       batch = [c \in BatchCaller |-> [slice |-> <<1>>, st |-> "new", k |-> 1, wonBefore |-> {}]]
  /\ part # "scope" => grants = {<<1>>}

MCInit ==
  /\ part \in {"memory", "redis", "default", "revocation", "database", "rate", "scope",
               "provenance", "ffi"}
  /\ AtRest
  /\ Init /\ RedisInit /\ DnbInit /\ RevInit /\ DbInit
  /\ RateInit /\ TreeInit /\ ProvInit /\ FfiInit

MCNext ==
  /\ UNCHANGED part
  /\ \/ /\ UNCHANGED <<revokeVars, treesVars, rateVars, ffiVars>>
        /\ \/ part = "memory" /\ Next /\ UNCHANGED <<redisVars, dnbVars>>
           \/ part = "redis" /\ RedisNext /\ UNCHANGED <<vars, dnbVars>>
           \/ part = "default" /\ DnbNext /\ UNCHANGED <<vars, redisVars>>
     \/ /\ UNCHANGED <<nonceVars, treesVars, rateVars, ffiVars>>
        /\ \/ part = "revocation" /\ RevNext /\ UNCHANGED dbVars
           \/ part = "database" /\ DbNext /\ UNCHANGED revVars
     \/ /\ UNCHANGED <<nonceVars, revokeVars, rateVars, ffiVars>>
        /\ \/ part = "scope" /\ TreeNext /\ UNCHANGED provVars
           \/ part = "provenance" /\ ProvNext /\ UNCHANGED treeVars
     \/ /\ UNCHANGED <<nonceVars, revokeVars, treesVars>>
        /\ \/ part = "rate" /\ RateNext /\ UNCHANGED ffiVars
           \/ part = "ffi" /\ FfiNext /\ UNCHANGED rateVars

MCSpec == MCInit /\ [][MCNext]_allVars

(* The types of all parts.                                                   *)
LibraryTypeOK ==
  /\ TypeOK /\ RedisTypeOK /\ DnbTypeOK /\ RevTypeOK /\ DbTypeOK
  /\ RateTypeOK /\ TreeTypeOK /\ ProvTypeOK /\ FfiTypeOK

Symmetry == Permutations(Caller) \cup Permutations(FfiThread)
=============================================================================
