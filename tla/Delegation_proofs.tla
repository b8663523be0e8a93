--------------------------- MODULE Delegation_proofs ---------------------------
(***************************************************************************)
(* Proofs of what validate_structure concludes about every chain that      *)
(* builders and strangers can put together, of any length.                 *)
(***************************************************************************)
EXTENDS Delegation, Chain_proofs, FiniteSetTheorems

(* What Ok says of the chain, in the terms of the checks.                   *)
LEMMA AcceptsMeans ==
  ASSUME NEW c, NEW agent, NEW intent, NEW path, NEW x
  PROVE  Accepts(c, agent, intent, path, x)
         <=> /\ Len(c.certs) # 0 /\ ~ (Len(c.certs) > U8Max)
             /\ c.certs[1].delegator = c.principal
             /\ \A i \in 1 .. Len(c.certs) : Sound(c, i, x)
             /\ c.certs[Len(c.certs)].delegate = agent
             /\ ~ \E i \in 1 .. Len(c.certs) : ~ c.certs[i].signed
             /\ IntentAuthorized(intent, path, LeafScope(c))
BY OkSound DEF Accepts

(* A path cut from the tree of a scope authorises what is in the scope.     *)
LEMMA PathToAuthorizes ==
  ASSUME NEW scope \in SUBSET Intent, NEW intent \in scope
  PROVE  IntentAuthorized(intent, PathTo(scope), scope)
<1>1. IsFiniteSet(scope)
  BY DelegationAssumption, FS_Subset
<1>2. CASE Cardinality(scope) = 1
  <2>1. PICK y : scope = {y}
    BY <1>1, <1>2, FS_Singleton
  <2>2. scope = {intent}
    BY <2>1
  <2>3. QED
    BY <1>2, <2>2 DEF PathTo, IntentAuthorized
<1>3. CASE Cardinality(scope) # 1
  BY <1>3 DEF PathTo, IntentAuthorized
<1>4. QED
  BY <1>2, <1>3

-----------------------------------------------------------------------------

(* Who extends the chain next, and over what scope.                         *)
LEMMA HolderTypes ==
  ASSUME chain \in DyoloChain
  PROVE  Len(chain.certs) \in Nat /\ Holder \in Key /\ HeldScope \in Scope
<1>1. chain.certs \in Seq(DelegationCert) /\ chain.principal \in Key /\ chain.scope \in Scope
  BY DEF DyoloChain
<1>2. Len(chain.certs) \in Nat
  BY <1>1
<1>3. CASE Len(chain.certs) = 0
  BY <1>1, <1>3 DEF Holder, HeldScope, ExpectedDelegator, ParentScope
<1>4. CASE Len(chain.certs) # 0
  <2>1. chain.certs[Len(chain.certs)] \in DelegationCert
    BY <1>1, <1>2, <1>4
  <2>2. /\ chain.certs[Len(chain.certs)].delegate \in Key
        /\ chain.certs[Len(chain.certs)].scope \in Scope
    BY <2>1 DEF DelegationCert
  <2>3. Len(chain.certs) + 1 # 1 /\ (Len(chain.certs) + 1) - 1 = Len(chain.certs)
    BY <1>2, <1>4
  <2>4. QED
    BY <1>2, <2>2, <2>3 DEF Holder, HeldScope, ExpectedDelegator, ParentScope
<1>5. QED
  BY <1>2, <1>3, <1>4

(* What the builder puts into a certificate.                                *)
LEMMA GrantMeans ==
  ASSUME chain \in DyoloChain, now \in Nat, NEW cert \in Grants
  PROVE  /\ cert \in DelegationCert
         /\ cert.delegator = Holder /\ cert.version = CertVersion /\ cert.signed
         /\ cert.nonce = Len(chain.certs) + 1 /\ cert.issued_at = now
         /\ cert.max_depth \in Depths
         /\ ScopeDerives(cert, HeldScope)
<1> DEFINE parent == HeldScope
<1>1. Len(chain.certs) \in Nat /\ Holder \in Key /\ HeldScope \in Scope
  BY HolderTypes
<1> DEFINE proofs == {Passthrough} \cup {SubScope(s, parent) : s \in (SUBSET parent) \ {{}}}
           made(delegate, p, expiration, max_depth) ==
             issue(Holder, delegate, IF p = Passthrough THEN parent ELSE p.intents, p,
                   Len(chain.certs) + 1, now, expiration, max_depth)
<1>2. PICK delegate \in Key \ {Holder}, p \in proofs,
           expiration \in {e \in Lifetimes : now < e}, max_depth \in Depths :
        cert = made(delegate, p, expiration, max_depth)
  <2>1. cert \in {made(delegate, p, expiration, max_depth) :
                    delegate \in Key \ {Holder}, p \in proofs,
                    expiration \in {e \in Lifetimes : now < e}, max_depth \in Depths}
    BY DEF Grants
  <2> HIDE DEF made, proofs
  <2>2. QED
    BY <2>1
<1> DEFINE scope == IF p = Passthrough THEN parent ELSE p.intents
<1>3. /\ p \in SubScopeProof /\ ~ p.ragged
      /\ p.intents = {} => p = Passthrough
      /\ p # Passthrough => p.from = parent /\ p.intents \subseteq parent
  <2>1. CASE p = Passthrough
    <3>1. p.intents = {} /\ p.from = {} /\ p.ragged = FALSE /\ p = [intents |-> {}, from |-> {}, ragged |-> FALSE]
      BY <2>1 DEF Passthrough
    <3>2. QED
      BY <2>1, <3>1 DEF SubScopeProof, Scope
  <2>2. CASE p # Passthrough
    <3>1. PICK s \in (SUBSET parent) \ {{}} : p = SubScope(s, parent)
      BY <1>2, <2>2
    <3>2. p.intents = s /\ p.from = parent /\ p.ragged = FALSE /\ p = [intents |-> s, from |-> parent, ragged |-> FALSE]
      BY <3>1 DEF SubScope
    <3>3. s \in Scope /\ parent \in Scope /\ s # {}
      BY <1>1 DEF Scope
    <3>4. p \in SubScopeProof
      BY <3>2, <3>3 DEF SubScopeProof
    <3>5. QED
      BY <3>2, <3>3, <3>4, <2>2
  <2>3. QED
    BY <2>1, <2>2
<1>4. scope \in Scope
  BY <1>1, <1>3 DEF Scope
<1>5. expiration \in Nat /\ max_depth \in Nat /\ CertVersion \in Nat /\ {} \in SUBSET Extension
  BY DelegationAssumption
<1> HIDE DEF scope, parent
<1>6. cert = [version |-> CertVersion, delegator |-> Holder, delegate |-> delegate,
              scope |-> scope, proof |-> p, nonce |-> Len(chain.certs) + 1, issued_at |-> now,
              expiration |-> expiration, max_depth |-> max_depth,
              extensions |-> {}, signed |-> TRUE]
  BY <1>2 DEF issue, scope
<1>7. cert \in DelegationCert
  <2>1. delegate \in Key /\ Len(chain.certs) + 1 \in Nat
    BY <1>1, <1>2
  <2>2. Holder \in Key /\ p \in SubScopeProof /\ TRUE \in BOOLEAN
    BY <1>1, <1>3
  <2>3. QED
    BY <1>4, <1>5, <1>6, <2>1, <2>2 DEF DelegationCert
<1>8. /\ cert.delegator = Holder /\ cert.version = CertVersion /\ cert.signed = TRUE
      /\ cert.nonce = Len(chain.certs) + 1 /\ cert.issued_at = now
      /\ cert.max_depth = max_depth /\ cert.scope = scope /\ cert.proof = p
  BY <1>6
<1>9. ScopeDerives(cert, HeldScope)
  BY <1>3, <1>8 DEF ScopeDerives, scope, parent, Passthrough
<1>10. QED
  BY <1>7, <1>8, <1>9

(* A distorted certificate is a certificate still.                          *)
LEMMA DistortionTypes ==
  ASSUME chain \in DyoloChain, NEW cert \in DelegationCert, HeldScope \in Scope,
         NEW wrong \in Distortions(cert)
  PROVE  wrong \in DelegationCert
<1>1. Len(chain.certs) \in Nat
  BY DEF DyoloChain
<1>2. /\ Intent \in Scope /\ MaxIssue + 2 \in Nat /\ CertVersion + 1 \in Nat
      /\ MaxLen \in Nat
  BY DelegationAssumption DEF Scope
<1>3. cert.proof \in SubScopeProof /\ cert.expiration \in Nat
  BY DEF DelegationCert
<1>4. CASE \E k \in Key : wrong = [cert EXCEPT !.delegator = k]
  BY <1>4 DEF DelegationCert
<1>5. CASE wrong = [cert EXCEPT !.version = CertVersion + 1]
  BY <1>2, <1>5 DEF DelegationCert
<1>6. CASE wrong = [cert EXCEPT !.signed = FALSE]
  BY <1>6 DEF DelegationCert
<1>7. CASE \E n \in 1 .. Len(chain.certs) : wrong = [cert EXCEPT !.nonce = n]
  BY <1>1, <1>7 DEF DelegationCert
<1>8. CASE \E x \in {MaxIssue + 2, cert.expiration} : wrong = [cert EXCEPT !.issued_at = x]
  BY <1>2, <1>3, <1>8 DEF DelegationCert
<1>9. CASE \E d \in 0 .. MaxLen - 1 : wrong = [cert EXCEPT !.max_depth = d]
  BY <1>2, <1>9 DEF DelegationCert
<1>10. CASE wrong = [cert EXCEPT !.scope = Intent]
  BY <1>2, <1>10 DEF DelegationCert
<1>11. CASE wrong = [cert EXCEPT !.proof.intents = HeldScope]
  <2>1. [cert.proof EXCEPT !.intents = HeldScope] \in SubScopeProof
    BY <1>3 DEF SubScopeProof
  <2>2. QED
    BY <1>11, <2>1 DEF DelegationCert
<1>12. CASE \E f \in {HeldScope, Intent} :
              wrong = [cert EXCEPT !.scope = Intent, !.proof = SubScope(Intent, f)]
  <2>1. \A f \in {HeldScope, Intent} : SubScope(Intent, f) \in SubScopeProof
    BY <1>2 DEF SubScope, SubScopeProof
  <2>2. QED
    BY <1>2, <1>12, <2>1 DEF DelegationCert
<1>13. CASE wrong = [cert EXCEPT !.proof.ragged = TRUE]
  <2>1. [cert.proof EXCEPT !.ragged = TRUE] \in SubScopeProof
    BY <1>3 DEF SubScopeProof
  <2>2. QED
    BY <1>13, <2>1 DEF DelegationCert
<1>14. QED
  BY <1>4, <1>5, <1>6, <1>7, <1>8, <1>9, <1>10, <1>11, <1>12, <1>13 DEF Distortions

(* A chain that the builder alone made, at times up to x.                   *)
Built(c, x) ==
  \A i \in 1 .. Len(c.certs) :
    /\ c.certs[i].delegator = ExpectedDelegator(c, i)
    /\ c.certs[i].version = CertVersion
    /\ c.certs[i].signed
    /\ c.certs[i].nonce = i
    /\ c.certs[i].max_depth \in Depths
    /\ ScopeDerives(c.certs[i], ParentScope(c, i))
    /\ c.certs[i].issued_at <= x
    /\ \A j \in 1 .. i : c.certs[j].issued_at <= c.certs[i].issued_at

(* The inductive invariant.                                                 *)
DelegationInv ==
  /\ chain \in DyoloChain
  /\ chain.drift = Drift
  /\ now \in Nat
  /\ odd = {} => Built(chain, now)

LEMMA BuiltGrows ==
  ASSUME NEW c \in DyoloChain, NEW x \in Nat, Built(c, x), NEW cert \in DelegationCert, NEW d,
         d = [c EXCEPT !.certs = Append(@, cert)],
         cert.delegator = ExpectedDelegator(c, Len(c.certs) + 1),
         cert.version = CertVersion, cert.signed, cert.nonce = Len(c.certs) + 1,
         cert.issued_at = x, cert.max_depth \in Depths,
         ScopeDerives(cert, ParentScope(c, Len(c.certs) + 1))
  PROVE  Built(d, x)
<1> DEFINE n == Len(c.certs)
<1>1. /\ d.drift = c.drift /\ d.principal = c.principal /\ d.scope = c.scope
      /\ n \in Nat /\ Len(d.certs) = n + 1
      /\ \A i \in 1 .. n : d.certs[i] = c.certs[i]
      /\ d.certs[n + 1] = cert
  BY Appended
<1>2. ASSUME NEW i \in 1 .. n + 1
      PROVE  ExpectedDelegator(d, i) = ExpectedDelegator(c, i) /\ ParentScope(d, i) = ParentScope(c, i)
  <2>1. i # 1 => d.certs[i - 1] = c.certs[i - 1]
    <3>1. i # 1 => i - 1 \in 1 .. n
      BY <1>1
    <3>2. QED
      BY <1>1, <3>1
  <2>2. QED
    BY <1>1, <2>1 DEF ExpectedDelegator, ParentScope
<1>3. ASSUME NEW i \in 1 .. n + 1
      PROVE  /\ d.certs[i].delegator = ExpectedDelegator(d, i)
             /\ d.certs[i].version = CertVersion
             /\ d.certs[i].signed
             /\ d.certs[i].nonce = i
             /\ d.certs[i].max_depth \in Depths
             /\ ScopeDerives(d.certs[i], ParentScope(d, i))
             /\ d.certs[i].issued_at <= x
             /\ \A j \in 1 .. i : d.certs[j].issued_at <= d.certs[i].issued_at
  <2>0. ExpectedDelegator(d, i) = ExpectedDelegator(c, i) /\ ParentScope(d, i) = ParentScope(c, i)
    BY <1>2
  <2>1. CASE i \in 1 .. n
    <3>1. d.certs[i] = c.certs[i] /\ \A j \in 1 .. i : d.certs[j] = c.certs[j]
      <4>1. \A j \in 1 .. i : j \in 1 .. n
        BY <1>1, <2>1
      <4>2. QED
        BY <1>1, <2>1, <4>1
    <3>2. QED
      BY <2>0, <2>1, <3>1 DEF Built
  <2>2. CASE i = n + 1
    <3>1. d.certs[i] = cert /\ x <= x
      BY <1>1, <2>2
    <3>2. ASSUME NEW j \in 1 .. i PROVE d.certs[j].issued_at <= x
      <4>1. j \in 1 .. n \/ j = n + 1
        BY <1>1, <2>2
      <4>2. CASE j \in 1 .. n
        BY <1>1, <4>2 DEF Built
      <4>3. CASE j = n + 1
        BY <1>1, <4>3
      <4>4. QED
        BY <4>1, <4>2, <4>3
    <3>3. QED
      BY <2>0, <2>2, <3>1, <3>2
  <2>3. QED
    BY <1>1, <2>1, <2>2
<1>4. QED
  BY <1>1, <1>3 DEF Built

LEMMA DelegationInvInit == Init => DelegationInv
<1> SUFFICES ASSUME Init PROVE DelegationInv
  OBVIOUS
<1>1. PICK pk \in Key :
        chain = [principal |-> pk, scope |-> Intent, certs |-> <<>>, drift |-> Drift]
  BY DEF Init
<1>2. chain \in DyoloChain /\ chain.drift = Drift
  BY <1>1, DelegationAssumption DEF DyoloChain, Scope
<1>3. Len(chain.certs) = 0
  BY <1>1
<1>4. Built(chain, now)
  BY <1>3 DEF Built
<1>5. QED
  BY <1>2, <1>4 DEF Init, DelegationInv

LEMMA DelegationInvNext == DelegationInv /\ [Next]_vars => DelegationInv'
<1> SUFFICES ASSUME DelegationInv, [Next]_vars PROVE DelegationInv'
  OBVIOUS
<1> USE DEF DelegationInv
<1>1. CASE Grant
  <2>1. PICK cert \in Grants : chain' = [chain EXCEPT !.certs = Append(@, cert)]
    BY <1>1 DEF Grant, Extend
  <2>2. /\ cert \in DelegationCert
        /\ cert.delegator = Holder /\ cert.version = CertVersion /\ cert.signed
        /\ cert.nonce = Len(chain.certs) + 1 /\ cert.issued_at = now
        /\ cert.max_depth \in Depths
        /\ ScopeDerives(cert, HeldScope)
    BY GrantMeans
  <2>3. now' = now /\ odd' = odd
    BY <1>1 DEF Grant
  <2>4. chain' \in DyoloChain /\ chain'.drift = Drift
    BY <2>1, <2>2, Appended
  <2>5. odd = {} => Built(chain', now)
    BY <2>1, <2>2, BuiltGrows DEF Holder, HeldScope
  <2>6. (odd = {} => Built(chain, now))'
    BY <2>3, <2>5 DEF Built, ExpectedDelegator, ParentScope
  <2>7. QED
    BY <2>3, <2>4, <2>6
<1>2. CASE Push
  <2>1. PICK cert \in Grants : \E wrong \in Distortions(cert) : Extend(wrong)
    BY <1>2 DEF Push
  <2>2. PICK wrong \in Distortions(cert) : chain' = [chain EXCEPT !.certs = Append(@, wrong)]
    BY <2>1 DEF Extend
  <2>3. cert \in DelegationCert
    BY GrantMeans
  <2>4. wrong \in DelegationCert
    BY <2>3, DistortionTypes, HolderTypes
  <2>5. chain' \in DyoloChain /\ chain'.drift = Drift
    BY <2>2, <2>4, Appended
  <2>6. now' = now /\ odd' # {}
    BY <1>2 DEF Push
  <2>7. QED
    BY <2>5, <2>6
<1>3. CASE Tick
  <2>1. chain' = chain /\ odd' = odd /\ now' = now + 1
    BY <1>3 DEF Tick
  <2>2. Built(chain, now) => Built(chain, now + 1)
    <3>1. \A i \in 1 .. Len(chain.certs) : chain.certs[i].issued_at \in Nat
      BY CertTypes
    <3>2. QED
      BY <3>1 DEF Built
  <2>3. QED
    BY <2>1, <2>2
<1>4. CASE UNCHANGED vars
  BY <1>4 DEF vars
<1>5. QED
  BY <1>1, <1>2, <1>3, <1>4 DEF Next

LEMMA DelegationInvAlways == Spec => []DelegationInv
BY DelegationInvInit, DelegationInvNext, PTL DEF Spec

-----------------------------------------------------------------------------

(* What an accepted request says of the chain.                              *)
LEMMA AcceptedMeans ==
  ASSUME NEW r \in Accepted, chain \in DyoloChain
  PROVE  /\ r.agent \in Key /\ r.intent \in Intent /\ r.t \in Nat
         /\ Len(chain.certs) \in Nat /\ Len(chain.certs) # 0 /\ ~ (Len(chain.certs) > U8Max)
         /\ chain.certs[1].delegator = chain.principal
         /\ \A i \in 1 .. Len(chain.certs) : Sound(chain, i, r.t)
         /\ chain.certs[Len(chain.certs)].delegate = r.agent
         /\ \A i \in 1 .. Len(chain.certs) : chain.certs[i].signed
         /\ IntentAuthorized(r.intent, r.path, LeafScope(chain))
<1>1. /\ r \in [agent : Key, intent : Intent, path : Path, t : Clock]
      /\ Accepts(chain, r.agent, r.intent, r.path, r.t)
  BY DEF Accepted
<1>2. r.agent \in Key /\ r.intent \in Intent /\ r.t \in Nat
  <2>1. r.t \in Clock /\ MaxClock \in Nat
    BY <1>1, DelegationAssumption
  <2>2. QED
    BY <1>1, <2>1 DEF Clock
<1>3. Len(chain.certs) \in Nat
  BY DEF DyoloChain
<1>4. /\ Len(chain.certs) # 0 /\ ~ (Len(chain.certs) > U8Max)
      /\ chain.certs[1].delegator = chain.principal
      /\ \A i \in 1 .. Len(chain.certs) : Sound(chain, i, r.t)
      /\ chain.certs[Len(chain.certs)].delegate = r.agent
      /\ ~ \E i \in 1 .. Len(chain.certs) : ~ chain.certs[i].signed
      /\ IntentAuthorized(r.intent, r.path, LeafScope(chain))
  BY <1>1, AcceptsMeans
<1>5. QED
  BY <1>2, <1>3, <1>4

(* An intent that the verifier authorises lies in every scope from the leaf *)
(* up to the principal's, for chains of any length and any distortion of    *)
(* their certificates: validate_structure ties each scope to its parent's.  *)
THEOREM AuthorityNeverWidensAlways == Spec => []AuthorityNeverWidens
<1>1. DelegationInv => AuthorityNeverWidens
  <2> SUFFICES ASSUME DelegationInv, NEW r \in Accepted
               PROVE  /\ r.intent \in chain.scope
                      /\ \A i \in DOMAIN chain.certs : r.intent \in chain.certs[i].scope
    BY DEF AuthorityNeverWidens
  <2> DEFINE n == Len(chain.certs)
  <2>1. chain \in DyoloChain /\ DOMAIN chain.certs = 1 .. n
    BY DEF DelegationInv, DyoloChain
  <2>2. /\ n \in Nat /\ n # 0 /\ \A i \in 1 .. n : Sound(chain, i, r.t)
        /\ IntentAuthorized(r.intent, r.path, LeafScope(chain))
    BY <2>1, AcceptedMeans
  <2>3. \A i \in 1 .. n : ScopeDerives(chain.certs[i], ParentScope(chain, i))
    BY <2>2 DEF Sound
  <2>4. r.intent \in chain.certs[n].scope /\ n \in 1 .. n
    BY <2>2, AuthorizedInScope DEF LeafScope
  <2>5. /\ \A i \in 1 .. n : chain.certs[n].scope \subseteq chain.certs[i].scope
        /\ chain.certs[n].scope \subseteq chain.scope
    BY <2>2, <2>3, <2>4, ScopesNest
  <2>6. QED
    BY <2>1, <2>4, <2>5
<1>2. QED
  BY <1>1, DelegationInvAlways, PTL

(* The first k certificates of a chain, as Prefix cuts them.                *)
Cut(c, k) == [c EXCEPT !.certs = SubSeq(@, 1, k)]

(* The checks of one certificate look no further down the chain.            *)
LEMMA SoundPrefix ==
  ASSUME NEW c \in DyoloChain, NEW k \in 1 .. Len(c.certs)
  PROVE  /\ Len(Cut(c, k).certs) = k /\ Cut(c, k).principal = c.principal
         /\ \A i \in 1 .. k : Cut(c, k).certs[i] = c.certs[i]
         /\ \A i \in 1 .. k, x \in Nat : Sound(c, i, x) => Sound(Cut(c, k), i, x)
<1> DEFINE d == Cut(c, k)
<1>1. c.certs \in Seq(DelegationCert) /\ d.certs = SubSeq(c.certs, 1, k)
  BY DEF DyoloChain, Cut
<1>2. d.drift = c.drift /\ d.principal = c.principal /\ d.scope = c.scope
  BY DEF DyoloChain, Cut
<1> HIDE DEF d
<1>3. Len(d.certs) = k /\ \A i \in 1 .. k : d.certs[i] = c.certs[i]
  BY <1>1
<1>4. ASSUME NEW i \in 1 .. k, NEW x \in Nat, Sound(c, i, x)
      PROVE  Sound(d, i, x)
  <2>1. /\ d.certs[i] = c.certs[i] /\ \A j \in 1 .. i - 1 : d.certs[j] = c.certs[j]
        /\ i # 1 => d.certs[i - 1] = c.certs[i - 1]
        /\ i > 1 => i # 1
    BY <1>3
  <2>2. ExpectedDelegator(d, i) = ExpectedDelegator(c, i) /\ ParentScope(d, i) = ParentScope(c, i)
    BY <1>2, <2>1 DEF ExpectedDelegator, ParentScope
  <2>3. OutlivesParent(d, i) => OutlivesParent(c, i)
    BY <2>1 DEF OutlivesParent
  <2>4. DepthExceeded(d, i) => DepthExceeded(c, i)
    BY <2>1 DEF DepthExceeded
  <2>5. NonceRepeated(d, i) => NonceRepeated(c, i)
    BY <2>1 DEF NonceRepeated
  <2>6. QED
    BY <1>2, <1>4, <2>1, <2>2, <2>3, <2>4, <2>5 DEF Sound
<1>5. QED
  BY <1>2, <1>3, <1>4 DEF d

(* Nobody hands on more than it has: each intermediate delegate could have  *)
(* performed, at the same time and with its part of the chain, what the     *)
(* whole chain is accepted for.                                             *)
THEOREM DelegatorCouldActAlways == Spec => []DelegatorCouldAct
<1>1. DelegationInv => DelegatorCouldAct
  <2> SUFFICES ASSUME DelegationInv, NEW r \in Accepted, NEW k \in 1 .. Len(chain.certs) - 1
               PROVE  Accepts(Prefix(k), Leaf(Prefix(k)), r.intent, PathTo(chain.certs[k].scope), r.t)
    BY DEF DelegatorCouldAct
  <2> DEFINE n == Len(chain.certs)
             d == Prefix(k)
  <2>1. chain \in DyoloChain
    BY DEF DelegationInv
  <2>2. /\ n \in Nat /\ n # 0 /\ ~ (n > U8Max) /\ r.t \in Nat
        /\ chain.certs[1].delegator = chain.principal
        /\ \A i \in 1 .. n : Sound(chain, i, r.t)
        /\ \A i \in 1 .. n : chain.certs[i].signed
        /\ IntentAuthorized(r.intent, r.path, LeafScope(chain))
    BY <2>1, AcceptedMeans
  <2>3. k \in 1 .. n /\ k # 0 /\ ~ (k > U8Max) /\ 1 \in 1 .. k /\ \A i \in 1 .. k : i \in 1 .. n
    BY <2>2, U8MaxAssumption
  <2>4. /\ Len(d.certs) = k /\ d.principal = chain.principal
        /\ \A i \in 1 .. k : d.certs[i] = chain.certs[i]
        /\ \A i \in 1 .. k : Sound(chain, i, r.t) => Sound(d, i, r.t)
    <3>1. d = Cut(chain, k)
      BY DEF Prefix, Cut
    <3> HIDE DEF d
    <3>2. /\ Len(d.certs) = k /\ d.principal = chain.principal
          /\ \A i \in 1 .. k : d.certs[i] = chain.certs[i]
          /\ \A i \in 1 .. k, x \in Nat : Sound(chain, i, x) => Sound(d, i, x)
      BY <2>1, <2>3, <3>1, SoundPrefix
    <3>3. QED
      BY <2>2, <3>2
  <2>5. r.intent \in chain.certs[k].scope
    <3>1. \A i \in 1 .. n : ScopeDerives(chain.certs[i], ParentScope(chain, i))
      BY <2>2 DEF Sound
    <3>2. n \in 1 .. n /\ r.intent \in chain.certs[n].scope
      BY <2>2, AuthorizedInScope DEF LeafScope
    <3>3. chain.certs[n].scope \subseteq chain.certs[k].scope
      BY <2>2, <2>3, <3>1, <3>2, ScopesNest
    <3>4. QED
      BY <3>2, <3>3
  <2>6. chain.certs[k].scope \in SUBSET Intent
    BY <2>1, <2>3, CertTypes DEF Scope
  <2>7. IntentAuthorized(r.intent, PathTo(chain.certs[k].scope), LeafScope(d))
    <3>1. k \in 1 .. k
      BY <2>3
    <3>2. LeafScope(d) = chain.certs[k].scope
      <4> HIDE DEF d
      <4>1. QED
        BY <2>4, <3>1 DEF LeafScope
    <3>3. QED
      BY <2>5, <2>6, <3>2, PathToAuthorizes
  <2> HIDE DEF d
  <2>8. /\ d.certs[1].delegator = d.principal
        /\ \A i \in 1 .. k : Sound(d, i, r.t)
        /\ ~ \E i \in 1 .. k : ~ d.certs[i].signed
    BY <2>2, <2>3, <2>4
  <2>9. Accepts(d, Leaf(d), r.intent, PathTo(chain.certs[k].scope), r.t)
    BY <2>3, <2>4, <2>7, <2>8, AcceptsMeans DEF Leaf
  <2>10. QED
    BY <2>9 DEF d
<1>2. QED
  BY <1>1, DelegationInvAlways, PTL

(* What validate_structure accepts, the algorithm of the protocol document  *)
(* accepts, up to the two boundary cases of the expiry second and the empty *)
(* lifetime.  The code compares every max_depth with the absolute position, *)
(* which is stricter than the document's remaining depth.                   *)
THEOREM AcceptedBySpecAlways == Spec => []AcceptedBySpec
<1>1. DelegationInv => AcceptedBySpec
  <2> SUFFICES ASSUME DelegationInv, NEW r \in Accepted,
                      ~ \E i \in DOMAIN chain.certs :
                          \/ chain.certs[i].expiration = r.t - chain.drift
                          \/ chain.certs[i].issued_at >= chain.certs[i].expiration
               PROVE  SpecAccepts(chain, r.agent, r.intent, r.path, r.t)
    BY DEF AcceptedBySpec
  <2> DEFINE n == Len(chain.certs)
  <2>1. chain \in DyoloChain /\ DOMAIN chain.certs = 1 .. n
    BY DEF DelegationInv, DyoloChain
  <2>2. /\ n \in Nat /\ n # 0 /\ r.t \in Nat
        /\ chain.certs[1].delegator = chain.principal
        /\ \A i \in 1 .. n : Sound(chain, i, r.t)
        /\ chain.certs[n].delegate = r.agent
        /\ \A i \in 1 .. n : chain.certs[i].signed
        /\ IntentAuthorized(r.intent, r.path, LeafScope(chain))
    BY <2>1, AcceptedMeans
  <2>3. ASSUME NEW i \in 1 .. n
        PROVE  /\ chain.certs[i].delegator = ExpectedDelegator(chain, i)
               /\ chain.certs[i].version = CertVersion
               /\ chain.certs[i].signed
               /\ chain.certs[i].issued_at < chain.certs[i].expiration
               /\ i > 1 => chain.certs[i].expiration <= chain.certs[i - 1].expiration
               /\ chain.certs[i].issued_at <= r.t + chain.drift
               /\ chain.certs[i].expiration > r.t - chain.drift
               /\ chain.certs[i].max_depth >= n - i
               /\ \A j \in 1 .. i - 1 : chain.certs[j].nonce # chain.certs[i].nonce
               /\ ScopeDerives(chain.certs[i], ParentScope(chain, i))
    <3>1. /\ chain.certs[i].issued_at \in Nat /\ chain.certs[i].expiration \in Nat
          /\ chain.certs[i].max_depth \in Nat /\ chain.drift \in Nat
      BY <2>1, CertTypes
    <3>2. Sound(chain, i, r.t) /\ chain.certs[i].signed
      BY <2>2
    <3>3. /\ chain.certs[i].expiration # r.t - chain.drift
          /\ ~ (chain.certs[i].issued_at >= chain.certs[i].expiration)
      BY <2>1
    <3>4. /\ chain.certs[i].issued_at < chain.certs[i].expiration
          /\ chain.certs[i].issued_at <= r.t + chain.drift
          /\ chain.certs[i].expiration > r.t - chain.drift
      <4>1. /\ ~ (r.t + chain.drift < chain.certs[i].issued_at)
            /\ ~ (chain.certs[i].expiration < r.t - chain.drift)
        BY <3>2, Zenon DEF Sound, NotYetValid, Expired
      <4>2. r.t \in Nat
        BY <2>2
      <4>3. QED
        BY <3>1, <3>3, <4>1, <4>2
    <3>5. i > 1 => chain.certs[i].expiration <= chain.certs[i - 1].expiration
      <4> SUFFICES ASSUME i > 1 PROVE chain.certs[i].expiration <= chain.certs[i - 1].expiration
        OBVIOUS
      <4>1. i - 1 \in 1 .. n
        BY <2>2
      <4>2. chain.certs[i - 1].expiration \in Nat
        BY <2>1, <4>1, CertTypes
      <4>3. ~ (chain.certs[i].expiration > chain.certs[i - 1].expiration)
        BY <3>2 DEF Sound, OutlivesParent
      <4>4. QED
        BY <3>1, <4>2, <4>3
    <3>6. chain.certs[i].max_depth >= n - i
      <4>1. CASE i = n
        BY <2>2, <3>1, <4>1
      <4>2. CASE i # n
        <5>1. n \in 1 .. n /\ i \in 1 .. n - 1
          BY <2>2, <4>2
        <5>2. ~ DepthExceeded(chain, n)
          BY <2>2, <5>1 DEF Sound
        <5>3. ~ (n > chain.certs[i].max_depth)
          BY <5>1, <5>2 DEF DepthExceeded
        <5>4. QED
          BY <2>2, <3>1, <5>3
      <4>3. QED
        BY <4>1, <4>2
    <3>7. \A j \in 1 .. i - 1 : chain.certs[j].nonce # chain.certs[i].nonce
      BY <3>2 DEF Sound, NonceRepeated
    <3>8. QED
      BY <3>2, <3>4, <3>5, <3>6, <3>7 DEF Sound
  <2>4. n > 0
    BY <2>2
  <2>5. QED
    BY <2>2, <2>3, <2>4 DEF SpecAccepts
<1>2. QED
  BY <1>1, DelegationInvAlways, PTL

(* No chain that the builder alone made is refused, for any issue times,    *)
(* lifetimes, depth limits and scopes: the conditions are those the builder *)
(* leaves to its caller, nested lifetimes and room in the depth limits.     *)
THEOREM HonestAcceptedAlways == Spec => []HonestAccepted
<1>1. DelegationInv => HonestAccepted
  <2> DEFINE n == Len(chain.certs)
             leaf == chain.certs[n]
  <2> SUFFICES ASSUME DelegationInv, odd = {}, chain.certs # <<>>, NestedLifetimes, WithinDepth,
                      NEW intent \in leaf.scope,
                      NEW x \in leaf.issued_at .. leaf.expiration + chain.drift
               PROVE  Accepts(chain, leaf.delegate, intent, PathTo(leaf.scope), x)
    BY DEF HonestAccepted
  <2>1. chain \in DyoloChain /\ Built(chain, now)
    BY DEF DelegationInv
  <2>2. n \in Nat /\ n # 0 /\ n \in 1 .. n /\ 1 \in 1 .. n
    BY <2>1 DEF DyoloChain
  <2>3. /\ leaf.issued_at \in Nat /\ leaf.expiration \in Nat /\ chain.drift \in Nat
        /\ leaf.scope \in SUBSET Intent
    BY <2>1, <2>2, CertTypes DEF Scope
  <2>4. x \in Nat /\ leaf.issued_at <= x /\ x <= leaf.expiration + chain.drift
    BY <2>3
  <2>5. ~ (n > U8Max)
    <3>1. CASE n = 1
      BY <3>1, DelegationAssumption, U8MaxAssumption
    <3>2. CASE n # 1
      <4>1. 1 \in 1 .. n - 1
        <5> HIDE DEF n
        <5>1. QED
          BY <2>2, <3>2
      <4>2. n <= chain.certs[1].max_depth
        BY <4>1 DEF WithinDepth
      <4>3. chain.certs[1].max_depth \in Depths
        BY <2>1, <2>2 DEF Built
      <4>4. chain.certs[1].max_depth \in 0 .. U8Max
        BY <4>3, DelegationAssumption
      <4>5. QED
        BY <2>2, <4>2, <4>4, U8MaxAssumption
    <3>3. QED
      BY <3>1, <3>2
  <2>6. ASSUME NEW i \in 1 .. n PROVE Sound(chain, i, x) /\ chain.certs[i].signed
    <3>1. /\ chain.certs[i].issued_at \in Nat /\ chain.certs[i].expiration \in Nat
          /\ chain.certs[i].max_depth \in Nat
      BY <2>1, CertTypes
    <3>2. /\ chain.certs[i].delegator = ExpectedDelegator(chain, i)
          /\ chain.certs[i].version = CertVersion
          /\ chain.certs[i].signed
          /\ chain.certs[i].nonce = i
          /\ ScopeDerives(chain.certs[i], ParentScope(chain, i))
      BY <2>1 DEF Built
    <3>3. ~ NotYetValid(chain.certs[i], x, chain.drift)
      <4>1. chain.certs[i].issued_at <= leaf.issued_at
        BY <2>1, <2>2 DEF Built
      <4>2. QED
        BY <2>3, <2>4, <3>1, <4>1 DEF NotYetValid
    <3>4. ~ Expired(chain.certs[i], x, chain.drift)
      <4>1. leaf.expiration <= chain.certs[i].expiration
        BY <2>1, <2>2, LifetimesNest DEF NestedLifetimes
      <4>2. \A a, b, d, y \in Nat : a <= b /\ y <= a + d => ~ (b < y - d)
        OBVIOUS
      <4>3. QED
        BY <2>3, <2>4, <3>1, <4>1, <4>2, Zenon DEF Expired
    <3>5. ~ OutlivesParent(chain, i)
      <4> SUFFICES ASSUME i > 1 PROVE ~ (chain.certs[i].expiration > chain.certs[i - 1].expiration)
        BY DEF OutlivesParent
      <4>1. i \in 2 .. n /\ i - 1 \in 1 .. n
        BY <2>2
      <4>2. chain.certs[i - 1].expiration \in Nat
        BY <2>1, <4>1, CertTypes
      <4>3. QED
        BY <3>1, <4>1, <4>2 DEF NestedLifetimes
    <3>6. ~ DepthExceeded(chain, i)
      <4> SUFFICES ASSUME NEW j \in 1 .. i - 1 PROVE ~ (i > chain.certs[j].max_depth)
        BY DEF DepthExceeded
      <4>1. j \in 1 .. n - 1 /\ j \in 1 .. n
        BY <2>2
      <4>2. n <= chain.certs[j].max_depth
        BY <4>1 DEF WithinDepth
      <4>3. chain.certs[j].max_depth \in Nat
        BY <2>1, <4>1, CertTypes
      <4>4. QED
        BY <2>2, <4>2, <4>3
    <3>7. ~ NonceRepeated(chain, i)
      <4> SUFFICES ASSUME NEW j \in 1 .. i - 1 PROVE chain.certs[j].nonce # chain.certs[i].nonce
        BY DEF NonceRepeated
      <4>1. j \in 1 .. n /\ j # i
        BY <2>2
      <4>2. chain.certs[j].nonce = j
        BY <2>1, <4>1 DEF Built
      <4>3. QED
        BY <3>2, <4>1, <4>2
    <3>8. QED
      BY <3>2, <3>3, <3>4, <3>5, <3>6, <3>7 DEF Sound
  <2>7. chain.certs[1].delegator = chain.principal
    BY <2>1, <2>2 DEF Built, ExpectedDelegator
  <2>8. IntentAuthorized(intent, PathTo(leaf.scope), LeafScope(chain))
    BY <2>3, PathToAuthorizes DEF LeafScope
  <2>9. QED
    BY <2>2, <2>5, <2>6, <2>7, <2>8, AcceptsMeans
<1>2. QED
  BY <1>1, DelegationInvAlways, PTL
=============================================================================
