----------------------------- MODULE Delegation -----------------------------
(***************************************************************************)
(* How delegation chains come about, and what the verifier makes of them.  *)
(*                                                                         *)
(* Each holder extends the chain with a certificate made by the builder of *)
(* cert.rs, over a scope it can prove from its own intent tree (Grant).    *)
(* CertBuilder asks the caller for the lifetime, the depth limit and the   *)
(* scope root and checks none of them against the parent: a certificate    *)
(* that was deserialised, or built by hand, may be wrong in any field      *)
(* (Push).  The invariants then ask what validate_structure concludes      *)
(* for every agent, intent, Merkle path and verifier clock.                *)
(***************************************************************************)
EXTENDS Chain

CONSTANTS
  Drift,        \* drift_tolerance_secs of the chain
  Lifetimes,    \* expiration times that issuers choose
  Depths,       \* max_depth values that issuers choose
  MaxLen,       \* bound: certificates in the chain
  MaxIssue,     \* bound: the last second at which a certificate is issued
  MaxClock,     \* bound: the latest verifier clock considered
  MaxOdd        \* bound: certificates that are wrong in some field

(* max_depth is a u8; the intents of a deployment are finitely many.        *)
ASSUME DelegationAssumption ==
  /\ Depths \subseteq 0 .. U8Max /\ U8Max >= 1
  /\ Lifetimes \subseteq Nat
  /\ {CertVersion, Drift, MaxLen, MaxIssue, MaxClock, MaxOdd} \subseteq Nat
  /\ IsFiniteSet(Intent)

VARIABLES
  chain,        \* the chain under construction
  now,          \* the issuers' clock
  odd           \* indices of the certificates that Grant did not make

vars == <<chain, now, odd>>

Holder == ExpectedDelegator(chain, Len(chain.certs) + 1)

HeldScope == ParentScope(chain, Len(chain.certs) + 1)

Init ==
  /\ \E pk \in Key : chain = [principal |-> pk, scope |-> Intent, certs |-> <<>>, drift |-> Drift]
  /\ now = 0
  /\ odd = {}

-----------------------------------------------------------------------------

Passthrough == [intents |-> {}, from |-> {}, ragged |-> FALSE]

(* SubScopeProof::build, for intents found in the parent's tree.            *)
SubScope(intents, parent) == [intents |-> intents, from |-> parent, ragged |-> FALSE]

(* DelegationCert::issue: what the builder signs, stamped with the version. *)
issue(delegator, delegate, scope, proof, nonce, issued_at, expiration, max_depth) ==
  [version |-> CertVersion, delegator |-> delegator, delegate |-> delegate,
   scope |-> scope, proof |-> proof, nonce |-> nonce, issued_at |-> issued_at,
   expiration |-> expiration, max_depth |-> max_depth,
   extensions |-> {}, signed |-> TRUE]

(* What the holder obtains from CertBuilder::build.                         *)
Grants ==
  LET parent == HeldScope
      proofs == {Passthrough} \cup {SubScope(s, parent) : s \in (SUBSET parent) \ {{}}}
  IN {issue(Holder, delegate, IF p = Passthrough THEN parent ELSE p.intents, p,
            Len(chain.certs) + 1, now, expiration, max_depth) :
        delegate \in Key \ {Holder}, p \in proofs,
        expiration \in {e \in Lifetimes : now < e}, max_depth \in Depths}

(* One thing about a certificate is wrong.  All but one of these carry the  *)
(* valid signature of the key they name as delegator: whoever holds a key   *)
(* can sign what it likes with it.                                          *)
Distortions(cert) ==
  UNION { {[cert EXCEPT !.delegator = k] : k \in Key},
          {[cert EXCEPT !.version = v] : v \in {CertVersion + 1}},
          {[cert EXCEPT !.signed = FALSE]},
          {[cert EXCEPT !.nonce = n] : n \in 1 .. Len(chain.certs)},
          {[cert EXCEPT !.issued_at = t] : t \in {MaxIssue + 2, cert.expiration}},
          {[cert EXCEPT !.max_depth = d] : d \in 0 .. MaxLen - 1},
          {[cert EXCEPT !.scope = Intent]},
          {[cert EXCEPT !.proof.intents = HeldScope]},
          {[cert EXCEPT !.scope = Intent, !.proof = SubScope(Intent, f)] : f \in {HeldScope, Intent}},
          {[cert EXCEPT !.proof.ragged = TRUE]} } \ {cert}

-----------------------------------------------------------------------------

Extend(cert) == chain' = [chain EXCEPT !.certs = Append(@, cert)]

(* CertBuilder::build, called by the present holder.                        *)
Grant ==
  /\ Len(chain.certs) < MaxLen
  /\ \E cert \in Grants : Extend(cert)
  /\ UNCHANGED <<now, odd>>

(* A certificate from elsewhere is pushed onto the chain.                   *)
Push ==
  /\ Len(chain.certs) < MaxLen
  /\ Cardinality(odd) < MaxOdd
  /\ \E cert \in Grants : \E wrong \in Distortions(cert) : Extend(wrong)
  /\ odd' = odd \cup {Len(chain.certs) + 1}
  /\ UNCHANGED now

Tick ==
  /\ now < MaxIssue
  /\ now' = now + 1
  /\ UNCHANGED <<chain, odd>>

Next == Grant \/ Push \/ Tick

Spec == Init /\ [][Next]_vars

-----------------------------------------------------------------------------

Clock == 0 .. MaxClock

(* The Merkle paths a requester can present: none, or one cut from a tree   *)
(* with at least two leaves.                                                *)
Path == {s \in SUBSET Intent : Cardinality(s) # 1}

PathTo(scope) == IF Cardinality(scope) = 1 THEN {} ELSE scope

Leaf(c) == c.certs[Len(c.certs)].delegate

Accepts(c, agent, intent, path, t) == validate_structure(c, agent, intent, path, t).ok

(* What the chain lets anyone do, at some time.                             *)
Accepted ==
  {r \in [agent : Key, intent : Intent, path : Path, t : Clock] :
     Accepts(chain, r.agent, r.intent, r.path, r.t)}

(* Authority is never widened along the chain: an intent that the verifier  *)
(* authorises lies in the principal's scope and in the scope of every       *)
(* certificate, whatever the certificates claim.                            *)
AuthorityNeverWidens ==
  \A r \in Accepted :
    /\ r.intent \in chain.scope
    /\ \A i \in DOMAIN chain.certs : r.intent \in chain.certs[i].scope

Prefix(k) == [chain EXCEPT !.certs = SubSeq(@, 1, k)]

(* Nobody hands on more than it has: when the chain authorises an intent,   *)
(* then at the same time each intermediate delegate could have performed    *)
(* that intent itself, with the part of the chain that ends with it.  An    *)
(* expired, forged or over-long part of a chain is not cured by extending.  *)
DelegatorCouldAct ==
  \A r \in Accepted : \A k \in 1 .. Len(chain.certs) - 1 :
    Accepts(Prefix(k), Leaf(Prefix(k)), r.intent, PathTo(chain.certs[k].scope), r.t)

(* Soundness against the algorithm of the protocol document: what the code  *)
(* accepts the document accepts, but for the two boundary cases in which    *)
(* the code is laxer: it accepts in the very second of expiry plus drift,   *)
(* and it does not repeat the builder's check that a lifetime is not empty  *)
(* (rule C3 of the document).                                               *)
AcceptedBySpec ==
  \A r \in Accepted :
    \/ SpecAccepts(chain, r.agent, r.intent, r.path, r.t)
    \/ \E i \in DOMAIN chain.certs :
         \/ chain.certs[i].expiration = r.t - chain.drift
         \/ chain.certs[i].issued_at >= chain.certs[i].expiration

NestedLifetimes ==
  \A i \in 2 .. Len(chain.certs) :
    chain.certs[i].expiration <= chain.certs[i - 1].expiration

WithinDepth == \A i \in 1 .. Len(chain.certs) - 1 : Len(chain.certs) <= chain.certs[i].max_depth

(* No honest chain is refused: when every certificate came from the builder *)
(* with a lifetime within its parent's and the depth limits leave room, the *)
(* last delegate may perform each intent of its scope from the moment of    *)
(* issue until drift seconds after the expiry.                              *)
HonestAccepted ==
  (odd = {} /\ chain.certs # <<>> /\ NestedLifetimes /\ WithinDepth)
  => LET leaf == chain.certs[Len(chain.certs)] IN
     \A intent \in leaf.scope : \A t \in leaf.issued_at .. leaf.expiration + chain.drift :
       Accepts(chain, leaf.delegate, intent, PathTo(leaf.scope), t)

=============================================================================
