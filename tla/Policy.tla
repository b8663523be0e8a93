-------------------------------- MODULE Policy --------------------------------
(***************************************************************************)
(* DelegationPolicy and PolicySet of policy.rs: what a deployment demands  *)
(* of a chain before its cryptography is even looked at.                   *)
(***************************************************************************)
EXTENDS Chain

Unset == -1     \* None

DelegationPolicy ==
  [trusted : SUBSET Key,                 \* no keys: every principal is trusted
   max_chain_depth : Nat \cup {Unset},
   max_ttl_secs : Nat \cup {Unset},
   allow_sub_delegation : BOOLEAN,
   required_extensions : SUBSET Extension]

(* A proof without intents and without paths: the full pass-through.        *)
IsPassthrough(proof) == proof.intents = {} /\ ~ proof.ragged

check_cert(policy, cert) ==
  /\ policy.max_ttl_secs # Unset => cert.expiration - cert.issued_at <= policy.max_ttl_secs
  /\ ~ policy.allow_sub_delegation => (IsPassthrough(cert.proof) \/ cert.max_depth = 0)
  /\ policy.required_extensions \subseteq cert.extensions

(* DelegationPolicy::check_chain.                                           *)
PolicyPermits(policy, chain) ==
  /\ policy.trusted # {} => chain.principal \in policy.trusted
  /\ policy.max_chain_depth # Unset => Len(chain.certs) <= policy.max_chain_depth
  /\ \A i \in DOMAIN chain.certs : check_cert(policy, chain.certs[i])

(* PolicySet::check_chain: every policy of the set must pass.               *)
check_chain(policies, chain) ==
  \A i \in DOMAIN policies : PolicyPermits(policies[i], chain)
=============================================================================
