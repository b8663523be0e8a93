-------------------------------- MODULE Chain --------------------------------
(***************************************************************************)
(* The structural verification of a delegation chain (validate_structure   *)
(* in chain.rs) as a function of the chain, the request and the clock.     *)
(*                                                                         *)
(* Hashing is ideal: a scope root is the set of intents it commits to, and *)
(* a Merkle path is the set of intents whose tree it was cut from; the     *)
(* root of a one-intent tree is the intent itself, and its paths are       *)
(* empty.  A fingerprint is the certificate.  Unix times stay far below    *)
(* 2^64, so the code's saturating arithmetic is plain arithmetic here.     *)
(***************************************************************************)
EXTENDS Integers, Sequences, FiniteSets

CONSTANTS
  Key,          \* public keys
  Intent,       \* intent hashes
  Extension,    \* keys of certificate extensions
  CertVersion,  \* CERT_VERSION
  U8Max         \* 255: u8::MAX, and the length limit of a chain

ASSUME U8MaxAssumption == U8Max \in Nat

Scope == SUBSET Intent

(* SubScopeProof: the subset with the tree its paths were cut from; ragged   *)
(* when there are not as many paths as intents. No intents, with whatever    *)
(* paths, keeps the parent's scope.                                          *)
SubScopeProof == [intents : Scope, from : Scope, ragged : BOOLEAN]

DelegationCert ==
  [version : Nat, delegator : Key, delegate : Key, scope : Scope,
   proof : SubScopeProof, nonce : Nat, issued_at : Nat, expiration : Nat,
   max_depth : Nat, extensions : SUBSET Extension, signed : BOOLEAN]

DyoloChain == [principal : Key, scope : Scope, certs : Seq(DelegationCert), drift : Nat]

-----------------------------------------------------------------------------

(* The errors of validate_structure, without their payloads.                *)
A1Error ==
  {"EmptyChain", "RootMismatch", "MaxDepthExceeded", "BrokenLinkage",
   "UnsupportedVersion", "NotYetValid", "Expired", "TemporalViolation", "NonceReplay",
   "ScopeEscalation", "UnauthorizedLeaf", "InvalidSignature", "ScopeViolation"}

(* Result<_, A1Error>.                                                      *)
Ok == [ok |-> TRUE, err |-> "none"]

Err(e) == [ok |-> FALSE, err |-> e]

(* MerkleProof::verify, with the shortcut for an empty path.                *)
IntentAuthorized(intent, path, root) ==
  IF path = {} THEN root = {intent}
               ELSE path = root /\ intent \in root

(* Plausible mistake: the proof is not tied to the scope that the            *)
(* certificate claims.                                                       *)
ScopeDerivesUnbound(cert, parent) ==
  LET p == cert.proof IN
  IF p.intents = {} THEN cert.scope = parent
  ELSE /\ ~ p.ragged
       /\ p.from = parent
       /\ p.intents \subseteq parent

(* The scope check of one certificate against its parent's scope root:      *)
(* pass-through, or verify_and_derive_root.                                 *)
ScopeDerives(cert, parent) ==
  LET p == cert.proof IN
  IF p.intents = {} THEN cert.scope = parent
  ELSE /\ ~ p.ragged
       /\ p.from = parent
       /\ p.intents \subseteq parent
       /\ cert.scope = p.intents

ParentScope(chain, i) == IF i = 1 THEN chain.scope ELSE chain.certs[i - 1].scope

ExpectedDelegator(chain, i) ==
  IF i = 1 THEN chain.principal ELSE chain.certs[i - 1].delegate

(* Plausible mistake: the certificate that reaches the limit is refused      *)
(* already.                                                                  *)
DepthExceededEarly(chain, i) == \E j \in 1 .. i - 1 : i >= chain.certs[j].max_depth

(* The loop keeps the smallest max_depth seen so far and compares it with   *)
(* the absolute position of the certificate in the chain.                   *)
DepthExceeded(chain, i) == \E j \in 1 .. i - 1 : i > chain.certs[j].max_depth

NonceRepeated(chain, i) ==
  \E j \in 1 .. i - 1 : chain.certs[j].nonce = chain.certs[i].nonce

(* Plausible mistake: the check compares with the root certificate only.     *)
OutlivesRoot(chain, i) == chain.certs[i].expiration > chain.certs[1].expiration

OutlivesParent(chain, i) ==
  i > 1 /\ chain.certs[i].expiration > chain.certs[i - 1].expiration

NotYetValid(cert, t, drift) == t + drift < cert.issued_at

(* Plausible mistake: the drift is granted twice over.                       *)
ExpiredLate(cert, t, drift) == cert.expiration < t - 2 * drift - 1

Expired(cert, t, drift) == cert.expiration < t - drift

(* The checks of one iteration, in the order in which the code makes them.  *)
CertChecks(chain, i, t) ==
  LET cert == chain.certs[i] IN
  << [err |-> "BrokenLinkage",      bad |-> cert.delegator # ExpectedDelegator(chain, i)],
     [err |-> "UnsupportedVersion", bad |-> cert.version # CertVersion],
     [err |-> "NotYetValid",        bad |-> NotYetValid(cert, t, chain.drift)],
     [err |-> "Expired",            bad |-> Expired(cert, t, chain.drift)],
     [err |-> "TemporalViolation",  bad |-> OutlivesParent(chain, i)],
     [err |-> "MaxDepthExceeded",   bad |-> DepthExceeded(chain, i)],
     [err |-> "NonceReplay",        bad |-> NonceRepeated(chain, i)],
     [err |-> "ScopeEscalation",    bad |-> ~ ScopeDerives(cert, ParentScope(chain, i))] >>

Failures(chain, i, t) ==
  LET checks == CertChecks(chain, i, t) IN {k \in DOMAIN checks : checks[k].bad}

FirstError(chain, i, t) ==
  LET failures == Failures(chain, i, t)
      k == CHOOSE k \in failures : \A l \in failures : k <= l
  IN Err(CertChecks(chain, i, t)[k].err)

LeafScope(chain) == chain.certs[Len(chain.certs)].scope

(* validate_structure: Ok, or the first error it meets.  The signatures are *)
(* checked as one batch after the loop over the certificates.               *)
validate_structure(chain, agent, intent, path, t) ==
  LET n == Len(chain.certs)
      failing == {i \in 1 .. n : Failures(chain, i, t) # {}}
      first == CHOOSE i \in failing : \A j \in failing : i <= j
  IN IF n = 0 THEN Err("EmptyChain")
     ELSE IF chain.certs[1].delegator # chain.principal THEN Err("RootMismatch")
     ELSE IF n > U8Max THEN Err("MaxDepthExceeded")
     ELSE IF failing # {} THEN FirstError(chain, first, t)
     ELSE IF chain.certs[n].delegate # agent THEN Err("UnauthorizedLeaf")
     ELSE IF \E i \in 1 .. n : ~ chain.certs[i].signed THEN Err("InvalidSignature")
     ELSE IF ~ IntentAuthorized(intent, path, LeafScope(chain)) THEN Err("ScopeViolation")
     ELSE Ok

(* The nonces that an accepted chain consumes.                              *)
SeenNonces(chain) == {chain.certs[i].nonce : i \in 1 .. Len(chain.certs)}

-----------------------------------------------------------------------------

(* The verification algorithm of the protocol document                      *)
(* (spec/A1-PROTOCOL.md, section 9.2), without its two store lookups.       *)
SpecAccepts(chain, agent, intent, path, t) ==
  LET n == Len(chain.certs) IN
  /\ n > 0
  /\ chain.certs[1].delegator = chain.principal
  /\ chain.certs[n].delegate = agent
  /\ \A i \in 1 .. n :
       LET cert == chain.certs[i] IN
       /\ cert.delegator = ExpectedDelegator(chain, i)
       /\ cert.version = CertVersion
       /\ cert.signed
       /\ cert.issued_at < cert.expiration
       /\ i > 1 => cert.expiration <= chain.certs[i - 1].expiration
       /\ cert.issued_at <= t + chain.drift
       /\ cert.expiration > t - chain.drift
       /\ cert.max_depth >= n - i
       /\ \A j \in 1 .. i - 1 : chain.certs[j].nonce # cert.nonce
       /\ ScopeDerives(cert, ParentScope(chain, i))
  /\ IntentAuthorized(intent, path, LeafScope(chain))
=============================================================================
