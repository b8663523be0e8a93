----------------------------- MODULE Chain_proofs -----------------------------
(***************************************************************************)
(* Facts about validate_structure that hold for every chain, agent, item   *)
(* and clock; the proofs about Authorize rest on them.                     *)
(***************************************************************************)
EXTENDS Chain, WellFoundedInduction, TLAPS

Below == {p \in Nat \X Nat : p[1] < p[2]}

(* Every nonempty set of naturals has a least element: the first failing    *)
(* certificate, and the first failing check, exist.                         *)
LEMMA LeastNatural ==
  ASSUME NEW S \in SUBSET Nat, S # {}
  PROVE  \E m \in S : \A k \in S : m <= k
<1>1. IsWellFoundedOn(Below, Nat)
  BY NatLessThanWellFounded, IsWellFoundedOnSubrelation DEF OpToRel, Below
<1>2. PICK m \in S : \A k \in S : ~ (<<k, m>> \in Below)
  BY <1>1, WFMin
<1>3. ASSUME NEW k \in S
      PROVE  m <= k
  <2>1. ~ (<<k, m>> \in Below) /\ k \in Nat /\ m \in Nat
    BY <1>2
  <2>2. ~ (k < m)
    BY <2>1 DEF Below
  <2>3. QED
    BY <2>1, <2>2
<1>4. QED
  BY <1>3

(* The table of checks and the errors in it.                                *)
LEMMA CheckTypes ==
  ASSUME NEW chain, NEW i, NEW t
  PROVE  /\ DOMAIN CertChecks(chain, i, t) = 1 .. 8
         /\ \A k \in 1 .. 8 : CertChecks(chain, i, t)[k].err \in A1Error
<1>1. DOMAIN CertChecks(chain, i, t) = 1 .. 8
  BY DEF CertChecks
<1>2. ASSUME NEW k \in 1 .. 8
      PROVE  CertChecks(chain, i, t)[k].err \in A1Error
  <2>1. k \in {1, 2, 3, 4, 5, 6, 7, 8}
    BY <1>2
  <2>2. QED
    BY <2>1 DEF CertChecks, A1Error
<1>3. QED
  BY <1>1, <1>2

LEMMA FirstErrorType ==
  ASSUME NEW chain, NEW i, NEW t, Failures(chain, i, t) # {}
  PROVE  FirstError(chain, i, t).err \in A1Error
<1> DEFINE failures == Failures(chain, i, t)
           k == CHOOSE k \in failures : \A l \in failures : k <= l
<1>1. failures \subseteq 1 .. 8
  BY CheckTypes DEF Failures
<1>2. \E m \in failures : \A l \in failures : m <= l
  BY <1>1, LeastNatural
<1>3. k \in 1 .. 8
  BY <1>1, <1>2
<1>4. FirstError(chain, i, t) = Err(CertChecks(chain, i, t)[k].err)
  BY DEF FirstError
<1>5. CertChecks(chain, i, t)[k].err \in A1Error
  BY <1>3, CheckTypes
<1>6. QED
  BY <1>4, <1>5 DEF Err

(* validate_structure, unfolded.                                            *)
LEMMA Verdict ==
  ASSUME NEW chain, NEW agent, NEW intent, NEW path, NEW t
  PROVE  LET n == Len(chain.certs)
             failing == {i \in 1 .. n : Failures(chain, i, t) # {}}
             first == CHOOSE i \in failing : \A j \in failing : i <= j
             v == validate_structure(chain, agent, intent, path, t)
         IN \/ v = Err("EmptyChain") /\ n = 0
            \/ v = Err("RootMismatch") /\ chain.certs[1].delegator # chain.principal
            \/ v = Err("MaxDepthExceeded") /\ n > U8Max
            \/ v = FirstError(chain, first, t) /\ failing # {}
            \/ v = Err("UnauthorizedLeaf") /\ chain.certs[n].delegate # agent
            \/ v = Err("InvalidSignature") /\ \E i \in 1 .. n : ~ chain.certs[i].signed
            \/ v = Err("ScopeViolation") /\ ~ IntentAuthorized(intent, path, LeafScope(chain))
            \/ /\ v = Ok
               /\ n # 0 /\ chain.certs[1].delegator = chain.principal /\ ~ (n > U8Max)
               /\ failing = {}
               /\ chain.certs[n].delegate = agent
               /\ ~ \E i \in 1 .. n : ~ chain.certs[i].signed
               /\ IntentAuthorized(intent, path, LeafScope(chain))
  BY Zenon DEF validate_structure

(* The verdict is Ok or one of the errors.                                  *)
LEMMA VerdictType ==
  ASSUME NEW chain \in DyoloChain, NEW agent, NEW intent, NEW path, NEW t
  PROVE  LET v == validate_structure(chain, agent, intent, path, t)
         IN v.ok \/ v.err \in A1Error
<1> DEFINE n == Len(chain.certs)
           failing == {i \in 1 .. n : Failures(chain, i, t) # {}}
           first == CHOOSE i \in failing : \A j \in failing : i <= j
           v == validate_structure(chain, agent, intent, path, t)
<1>1. n \in Nat
  BY DEF DyoloChain
<1>2. ASSUME failing # {}
      PROVE  FirstError(chain, first, t).err \in A1Error
  <2>1. failing \in SUBSET Nat
    BY <1>1
  <2>2. \E i \in failing : \A j \in failing : i <= j
    BY <1>2, <2>1, LeastNatural
  <2>3. first \in failing
    BY <2>2
  <2>4. Failures(chain, first, t) # {}
    BY <2>3
  <2>5. QED
    BY <2>4, FirstErrorType
<1>3. \/ v = Ok
      \/ \E e \in A1Error : v = Err(e)
      \/ v = FirstError(chain, first, t) /\ failing # {}
  BY Verdict DEF A1Error
<1>4. Ok.ok /\ \A e : Err(e).err = e
  BY DEF Ok, Err
<1> HIDE DEF failing, first, v
<1>5. v.ok \/ v.err \in A1Error
  BY <1>2, <1>3, <1>4
<1>6. QED
  BY <1>5 DEF v

(* What Ok means.                                                           *)
Passes(chain, agent, t) ==
  LET n == Len(chain.certs) IN
  /\ n # 0
  /\ chain.certs[1].delegator = chain.principal
  /\ ~ (n > U8Max)
  /\ \A i \in 1 .. n : Failures(chain, i, t) = {}
  /\ chain.certs[n].delegate = agent
  /\ ~ \E i \in 1 .. n : ~ chain.certs[i].signed

LEMMA OkMeans ==
  ASSUME NEW chain, NEW agent, NEW intent, NEW path, NEW t
  PROVE  validate_structure(chain, agent, intent, path, t).ok
         <=> Passes(chain, agent, t) /\ IntentAuthorized(intent, path, LeafScope(chain))
<1> DEFINE n == Len(chain.certs)
           failing == {i \in 1 .. n : Failures(chain, i, t) # {}}
           first == CHOOSE i \in failing : \A j \in failing : i <= j
           v == validate_structure(chain, agent, intent, path, t)
<1>1. Ok.ok = TRUE /\ \A e : Err(e).ok = FALSE
  BY DEF Ok, Err
<1>2. FirstError(chain, first, t).ok = FALSE
  BY <1>1 DEF FirstError
<1>3. failing = {} <=> \A i \in 1 .. n : Failures(chain, i, t) = {}
  OBVIOUS
<1>4. CASE failing # {}
  <2>1. ~ Passes(chain, agent, t)
    BY <1>3, <1>4 DEF Passes
  <2>2. v = FirstError(chain, first, t) \/ \E e : v = Err(e)
    BY <1>4, Verdict
  <2>3. QED
    BY <1>1, <1>2, <2>1, <2>2
<1>5. CASE failing = {}
  <2> DEFINE unsigned == \E i \in 1 .. n : ~ chain.certs[i].signed
  <2>1. \/ v = Err("EmptyChain") /\ n = 0
        \/ v = Err("RootMismatch") /\ chain.certs[1].delegator # chain.principal
        \/ v = Err("MaxDepthExceeded") /\ n > U8Max
        \/ v = Err("UnauthorizedLeaf") /\ chain.certs[n].delegate # agent
        \/ v = Err("InvalidSignature") /\ unsigned
        \/ v = Err("ScopeViolation") /\ ~ IntentAuthorized(intent, path, LeafScope(chain))
        \/ /\ v = Ok
           /\ n # 0 /\ chain.certs[1].delegator = chain.principal /\ ~ (n > U8Max)
           /\ chain.certs[n].delegate = agent
           /\ ~ unsigned
           /\ IntentAuthorized(intent, path, LeafScope(chain))
    BY <1>5, Zenon DEF validate_structure
  <2>2. Passes(chain, agent, t) <=>
          /\ n # 0 /\ chain.certs[1].delegator = chain.principal /\ ~ (n > U8Max)
          /\ chain.certs[n].delegate = agent
          /\ ~ unsigned
    BY <1>3, <1>5 DEF Passes
  <2> HIDE DEF unsigned
  <2>3. QED
    BY <1>1, <2>1, <2>2
<1>6. QED
  BY <1>4, <1>5

(* An accepted chain is within the lifetime of each certificate, give or    *)
(* take the drift.                                                          *)
LEMMA OkWithinLifetimes ==
  ASSUME NEW chain \in DyoloChain, NEW agent, NEW intent, NEW path, NEW t \in Nat,
         validate_structure(chain, agent, intent, path, t).ok,
         NEW i \in 1 .. Len(chain.certs)
  PROVE  /\ chain.certs[i].issued_at - chain.drift <= t
         /\ t <= chain.certs[i].expiration + chain.drift
<1> DEFINE cert == chain.certs[i]
<1>1. Failures(chain, i, t) = {}
  BY OkMeans DEF Passes
<1>2. ~ CertChecks(chain, i, t)[3].bad /\ ~ CertChecks(chain, i, t)[4].bad
  BY <1>1, CheckTypes DEF Failures
<1>3. ~ NotYetValid(cert, t, chain.drift) /\ ~ Expired(cert, t, chain.drift)
  BY <1>2 DEF CertChecks
<1>4. cert \in DelegationCert /\ chain.drift \in Nat
  BY DEF DyoloChain
<1>5. cert.issued_at \in Nat /\ cert.expiration \in Nat
  BY <1>4 DEF DelegationCert
<1>6. QED
  BY <1>3, <1>4, <1>5 DEF NotYetValid, Expired

(* What it means that a certificate passes the checks of its iteration.     *)
Sound(c, i, x) ==
  LET cert == c.certs[i] IN
  /\ cert.delegator = ExpectedDelegator(c, i)
  /\ cert.version = CertVersion
  /\ ~ NotYetValid(cert, x, c.drift)
  /\ ~ Expired(cert, x, c.drift)
  /\ ~ OutlivesParent(c, i)
  /\ ~ DepthExceeded(c, i)
  /\ ~ NonceRepeated(c, i)
  /\ ScopeDerives(cert, ParentScope(c, i))

LEMMA NoFailure ==
  ASSUME NEW c, NEW i, NEW x
  PROVE  Failures(c, i, x) = {} <=> Sound(c, i, x)
<1> DEFINE bad(k) == CertChecks(c, i, x)[k].bad
<1>1. Failures(c, i, x) = {} <=> \A k \in 1 .. 8 : ~ bad(k)
  BY CheckTypes DEF Failures
<1>2. (\A k \in 1 .. 8 : ~ bad(k))
      <=> ~ bad(1) /\ ~ bad(2) /\ ~ bad(3) /\ ~ bad(4) /\ ~ bad(5) /\ ~ bad(6) /\ ~ bad(7) /\ ~ bad(8)
  <2> HIDE DEF bad
  <2>1. \A k \in 1 .. 8 : k \in {1, 2, 3, 4, 5, 6, 7, 8}
    OBVIOUS
  <2>2. QED
    BY <2>1
<1>3. bad(1) = (c.certs[i].delegator # ExpectedDelegator(c, i)) /\ bad(2) = (c.certs[i].version # CertVersion)
  BY DEF CertChecks
<1>4. bad(3) = NotYetValid(c.certs[i], x, c.drift) /\ bad(4) = Expired(c.certs[i], x, c.drift)
  BY DEF CertChecks
<1>5. bad(5) = OutlivesParent(c, i) /\ bad(6) = DepthExceeded(c, i)
  BY DEF CertChecks
<1>6. bad(7) = NonceRepeated(c, i) /\ bad(8) = ~ ScopeDerives(c.certs[i], ParentScope(c, i))
  BY DEF CertChecks
<1> HIDE DEF bad
<1>7. QED
  BY <1>1, <1>2, <1>3, <1>4, <1>5, <1>6, Zenon DEF Sound

(* What Ok says of the chain, in the terms of the checks.                   *)
LEMMA OkSound ==
  ASSUME NEW c, NEW agent, NEW intent, NEW path, NEW x
  PROVE  validate_structure(c, agent, intent, path, x).ok
         <=> /\ Len(c.certs) # 0 /\ ~ (Len(c.certs) > U8Max)
             /\ c.certs[1].delegator = c.principal
             /\ \A i \in 1 .. Len(c.certs) : Sound(c, i, x)
             /\ c.certs[Len(c.certs)].delegate = agent
             /\ ~ \E i \in 1 .. Len(c.certs) : ~ c.certs[i].signed
             /\ IntentAuthorized(intent, path, LeafScope(c))
<1>1. (\A i \in 1 .. Len(c.certs) : Failures(c, i, x) = {})
      <=> \A i \in 1 .. Len(c.certs) : Sound(c, i, x)
  BY NoFailure
<1>2. QED
  BY <1>1, OkMeans DEF Passes

(* Induction from n down to 1, for a set of places: the place nearest to n  *)
(* that is not in the set would follow one that is.                         *)
LEMMA Downwards ==
  ASSUME NEW n \in Nat, NEW T, n \in T, \A j \in 2 .. n : j \in T => j - 1 \in T
  PROVE  \A j \in 1 .. n : j \in T
<1> DEFINE S == {k \in Nat : k < n /\ n - k \notin T}
<1>1. S = {}
  <2> SUFFICES ASSUME S # {} PROVE FALSE
    OBVIOUS
  <2>1. S \in SUBSET Nat
    OBVIOUS
  <2>2. PICK m \in S : \A k \in S : m <= k
    <3> HIDE DEF S
    <3>1. QED
      BY <2>1, LeastNatural
  <2>3. m \in Nat /\ m < n /\ n - m \notin T
    OBVIOUS
  <2>4. m # 0
    BY <2>3
  <2>5. m - 1 \in Nat /\ m - 1 < n /\ m - 1 \notin S
    <3>1. m - 1 \in Nat /\ m - 1 < n /\ ~ (m <= m - 1)
      BY <2>3, <2>4
    <3>2. QED
      BY <2>2, <3>1
  <2>6. n - (m - 1) \in T
    BY <2>5
  <2>7. n - (m - 1) \in 2 .. n /\ (n - (m - 1)) - 1 = n - m
    BY <2>3, <2>4
  <2>8. QED
    BY <2>3, <2>6, <2>7
<1>2. ASSUME NEW j \in 1 .. n PROVE j \in T
  <2>1. n - j \in Nat /\ n - j < n /\ n - (n - j) = j
    OBVIOUS
  <2>2. n - j \notin S
    BY <1>1
  <2>3. QED
    BY <2>1, <2>2
<1>3. QED
  BY <1>2

(* Along a chain whose certificates all derive their scope from the one     *)
(* before, the scope of a later certificate lies within that of an earlier  *)
(* one.                                                                     *)
LEMMA ScopesNest ==
  ASSUME NEW c, Len(c.certs) \in Nat,
         \A i \in 1 .. Len(c.certs) : ScopeDerives(c.certs[i], ParentScope(c, i)),
         NEW n \in 1 .. Len(c.certs)
  PROVE  /\ \A i \in 1 .. n : c.certs[n].scope \subseteq c.certs[i].scope
         /\ c.certs[n].scope \subseteq c.scope
<1> DEFINE T == {j \in 1 .. n : c.certs[n].scope \subseteq c.certs[j].scope}
<1>1. \A j \in 1 .. Len(c.certs) : c.certs[j].scope \subseteq ParentScope(c, j)
  BY DEF ScopeDerives
<1>2. \A j \in 2 .. n : c.certs[j].scope \subseteq c.certs[j - 1].scope
  BY <1>1 DEF ParentScope
<1>3. n \in Nat /\ n \in T /\ \A j \in 2 .. n : j \in T => j - 1 \in T
  BY <1>2
<1>4. \A j \in 1 .. n : j \in T
  <2> HIDE DEF T
  <2>1. QED
    BY <1>3, Downwards
<1>5. 1 \in 1 .. n /\ 1 \in 1 .. Len(c.certs)
  OBVIOUS
<1>6. c.certs[1].scope \subseteq c.scope
  BY <1>1, <1>5 DEF ParentScope
<1>7. QED
  BY <1>4, <1>5, <1>6

(* Expiry times that never grow from one certificate to the next never grow *)
(* along the chain.                                                         *)
LEMMA LifetimesNest ==
  ASSUME NEW c \in DyoloChain,
         \A i \in 2 .. Len(c.certs) : c.certs[i].expiration <= c.certs[i - 1].expiration,
         NEW n \in 1 .. Len(c.certs)
  PROVE  \A i \in 1 .. n : c.certs[n].expiration <= c.certs[i].expiration
<1> DEFINE T == {j \in 1 .. n : c.certs[n].expiration <= c.certs[j].expiration}
<1>0. Len(c.certs) \in Nat /\ \A j \in 1 .. Len(c.certs) : c.certs[j] \in DelegationCert
  BY DEF DyoloChain
<1>1. \A j \in 1 .. Len(c.certs) : c.certs[j].expiration \in Nat
  BY <1>0 DEF DelegationCert
<1>2. n \in Nat /\ n \in T
  BY <1>0, <1>1
<1>3. ASSUME NEW j \in 2 .. n, j \in T PROVE j - 1 \in T
  <2>1. /\ j \in 2 .. Len(c.certs) /\ j \in 1 .. Len(c.certs)
        /\ j - 1 \in 1 .. Len(c.certs) /\ j - 1 \in 1 .. n
    BY <1>0
  <2>2. QED
    BY <1>1, <1>3, <2>1
<1>4. \A j \in 1 .. n : j \in T
  <2> HIDE DEF T
  <2>1. QED
    BY <1>2, <1>3, Downwards
<1>5. QED
  BY <1>4

LEMMA AuthorizedInScope ==
  ASSUME NEW intent, NEW path, NEW root, IntentAuthorized(intent, path, root)
  PROVE  intent \in root
BY DEF IntentAuthorized

LEMMA CertTypes ==
  ASSUME NEW c \in DyoloChain, NEW i \in 1 .. Len(c.certs)
  PROVE  /\ c.certs[i] \in DelegationCert /\ c.certs[i].scope \in Scope
         /\ c.certs[i].issued_at \in Nat /\ c.certs[i].expiration \in Nat
         /\ c.certs[i].nonce \in Nat /\ c.certs[i].max_depth \in Nat
         /\ c.drift \in Nat /\ Len(c.certs) \in Nat
<1>1. c.certs \in Seq(DelegationCert) /\ c.drift \in Nat
  BY DEF DyoloChain
<1>2. c.certs[i] \in DelegationCert /\ Len(c.certs) \in Nat
  BY <1>1
<1>3. QED
  BY <1>1, <1>2 DEF DelegationCert

(* A chain with one certificate more.                                       *)
LEMMA Appended ==
  ASSUME NEW c \in DyoloChain, NEW cert \in DelegationCert, NEW d,
         d = [c EXCEPT !.certs = Append(@, cert)]
  PROVE  /\ d \in DyoloChain
         /\ d.drift = c.drift /\ d.principal = c.principal /\ d.scope = c.scope
         /\ Len(c.certs) \in Nat /\ Len(d.certs) = Len(c.certs) + 1
         /\ \A i \in 1 .. Len(c.certs) : d.certs[i] = c.certs[i]
         /\ d.certs[Len(c.certs) + 1] = cert
<1> DEFINE q == c.certs
<1>1. q \in Seq(DelegationCert) /\ d.certs = Append(q, cert)
  BY DEF DyoloChain
<1>2. /\ Len(q) \in Nat /\ Append(q, cert) \in Seq(DelegationCert)
      /\ Len(Append(q, cert)) = Len(q) + 1
      /\ \A i \in 1 .. Len(q) : Append(q, cert)[i] = q[i]
      /\ Append(q, cert)[Len(q) + 1] = cert
  <2> HIDE DEF q
  <2>1. QED
    BY <1>1
<1>3. d \in DyoloChain /\ d.drift = c.drift /\ d.principal = c.principal /\ d.scope = c.scope
  BY <1>1, <1>2 DEF DyoloChain
<1>4. QED
  BY <1>1, <1>2, <1>3
=============================================================================
