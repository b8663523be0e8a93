------------------------------- MODULE Passport -------------------------------
(***************************************************************************)
(* DyoloPassport (passport/mod.rs) and its capability mask (NarrowingMatrix*)
(* in identity/narrowing.rs): operators over certificates and chains.      *)
(*                                                                         *)
(* A capability is the intent of that name.  The mask has one bit per      *)
(* capability, chosen by a hash, so that capabilities may share a bit: the *)
(* mask alone proves nothing, it is a cheap check in front of the chain.   *)
(***************************************************************************)
EXTENDS Chain

CONSTANTS
  BitOf,          \* BitOf[c]: the bit that capability_to_bit(c) selects
  DefaultDepth,   \* 16: CertBuilder's max_depth
  DefaultDrift    \* 15: drift tolerance of a new chain, in seconds

ASSUME PassportAssumption ==
  /\ BitOf \in [Intent -> Nat]
  /\ DefaultDepth \in Nat
  /\ DefaultDrift \in Nat
  /\ CertVersion \in Nat
  /\ U8Max >= 1

NarrowingMatrix == SUBSET Nat

from_capabilities(caps) == {BitOf[c] : c \in caps}

(* is_subset_of on the four words of the masks.                             *)
enforce_narrowing(requested, parent) == requested \subseteq parent

DyoloPassport ==
  [capability_mask : NarrowingMatrix, capabilities : Scope, cert : DelegationCert]

(* CertBuilder::new and build by signer; the caller has checked that the    *)
(* lifetime is not empty.                                                   *)
Built(signer, delegate, scope, proof, nonce, t, ttl, depth) ==
  [version |-> CertVersion, delegator |-> signer, delegate |-> delegate,
   scope |-> scope, proof |-> proof, nonce |-> nonce, issued_at |-> t,
   expiration |-> t + ttl, max_depth |-> depth, extensions |-> {}, signed |-> TRUE]

Passthrough == [intents |-> {}, from |-> {}, ragged |-> FALSE]

(* issue_inner, for capabilities that are not empty and a positive lifetime:*)
(* a root certificate by the owner for the owner.                           *)
issue(owner, caps, nonce, t, ttl) ==
  [capability_mask |-> from_capabilities(caps), capabilities |-> caps,
   cert |-> Built(owner, owner, caps, Passthrough, nonce, t, ttl, U8Max)]

(* Plausible mistake: the mask stands for the set.                           *)
MaskGrantsSub(p, caps, ttl) ==
  /\ enforce_narrowing(from_capabilities(caps), p.capability_mask)
  /\ caps # {}
  /\ ttl > 0

(* issue_sub goes through: the mask narrows, every capability has an        *)
(* inclusion proof in the passport's tree, neither tree nor lifetime is     *)
(* empty.                                                                   *)
SubGranted(p, caps, ttl) ==
  /\ enforce_narrowing(from_capabilities(caps), p.capability_mask)
  /\ caps # {}
  /\ caps \subseteq p.capabilities
  /\ ttl > 0

issue_sub(p, delegate, caps, nonce, t, ttl, signer) ==
  Built(signer, delegate, caps, [intents |-> caps, from |-> p.capabilities, ragged |-> FALSE],
        nonce, t, ttl, DefaultDepth)

new_chain(p) ==
  [principal |-> p.cert.delegator, scope |-> p.cert.scope, certs |-> <<>>,
   drift |-> DefaultDrift]

push(chain, cert) == [chain EXCEPT !.certs = Append(chain.certs, cert)]

(* Plausible mistake: only the mask and the leaf's key are looked at.        *)
GuardByMask(p, chain, agent, intent, path, t) ==
  /\ enforce_narrowing(from_capabilities({intent}), p.capability_mask)
  /\ chain.certs # <<>>
  /\ chain.certs[Len(chain.certs)].delegate = agent

(* guard up to its use of the stores: the mask, then the chain.             *)
guard(p, chain, agent, intent, path, t) ==
  /\ enforce_narrowing(from_capabilities({intent}), p.capability_mask)
  /\ validate_structure(chain, agent, intent, path, t).ok

(* guard_local: the empty path, and stores that know nothing.               *)
guard_local(p, chain, agent, intent, t) == guard(p, chain, agent, intent, {}, t)
=============================================================================
