---------------------------- MODULE Gateway_proofs ----------------------------
(***************************************************************************)
(* Proofs about the gateway's components, for any number of requests,      *)
(* messages, keys and files.                                               *)
(***************************************************************************)
EXTENDS MCGateway, FiniteSetTheorems, NaturalsInduction, WellFoundedInduction, TLAPS

-----------------------------------------------------------------------------
(* Negotiation                                                             *)

(* Offers are told apart by their nonce, and what an agent agreed to is an  *)
(* offer that was made.                                                     *)
NegInv ==
  /\ now \in Nat
  /\ \A q \in requests : q.ttl \in Nat
  /\ IsFiniteSet(offers)
  /\ \A o \in offers : o.offer_nonce \in 1 .. Cardinality(offers)
  /\ \A o, p \in offers : o.offer_nonce = p.offer_nonce => o = p
  /\ \A a \in agreed : \E p \in offers : \A f \in AllButLifetime : a.offer[f] = p[f]
  /\ CertWasAsked

LEMMA NegInvInit == NegInit => NegInv
<1> SUFFICES ASSUME NegInit PROVE NegInv
  OBVIOUS
<1>1. IsFiniteSet({}) /\ now \in Nat
  BY FS_EmptySet DEF NegInit
<1>2. QED
  BY <1>1 DEF NegInit, NegInv, CertWasAsked

LEMMA AskKeeps ==
  ASSUME NegInv, NEW agent \in Agent, NEW did \in Agent, NEW caps \in CapLists,
         NEW intent \in Capability, NEW ttl \in Ttls, NEW ahead \in 0 .. Skew,
         Ask(agent, did, caps, intent, ttl, ahead)
  PROVE  NegInv'
<1> DEFINE q == [did |-> did, pk |-> agent, caps |-> caps, intent |-> intent, ttl |-> ttl,
                 nonce |-> Cardinality(requests) + 1, timestamp |-> now + ahead]
<1>1. requests' = requests \cup {q} /\ now' = now /\ offers' = offers /\ agreed' = agreed
  BY DEF Ask
<1>2. q.ttl \in Nat
  BY NegotiationAssumption
<1> HIDE DEF q
<1>3. (\A x \in requests : x.ttl \in Nat)'
  BY <1>1, <1>2 DEF NegInv
<1>4. CertWasAsked'
  BY <1>1 DEF NegInv, CertWasAsked
<1>5. QED
  BY <1>1, <1>3, <1>4 DEF NegInv

LEMMA NegotiateKeeps ==
  ASSUME NegInv, NEW q, Negotiate(q)
  PROVE  NegInv'
<1> DEFINE life == AtMost(q.ttl, MaxTtl)
           cert == [delegate |-> q.pk, intent |-> q.intent, issued_at |-> now, expiration |-> now + life]
           n == Cardinality(offers)
           new == [offerer |-> Gateway, request_nonce |-> q.nonce, cert |-> cert,
                   offer_nonce |-> n + 1, timestamp |-> now, offer_ttl |-> OfferTtl]
<1>1. offers' = offers \cup {new} /\ now' = now /\ requests' = requests /\ agreed' = agreed
  BY DEF Negotiate
<1>2. PICK r \in requests : r.pk = q.pk /\ request_signable_bytes(r) = request_signable_bytes(q)
  BY DEF Negotiate, RequestSigned
<1>3. /\ r.pk = q.pk /\ r.intent = q.intent /\ r.timestamp = q.timestamp /\ r.ttl = q.ttl
      /\ r.nonce = q.nonce /\ r.caps = q.caps
  BY <1>2 DEF request_signable_bytes
<1>4. now - r.timestamp <= MaxAge /\ check_capability_policy(r.caps)
  BY <1>3 DEF Negotiate, verify_freshness
<1>5. now \in Nat /\ life \in Nat
  BY <1>2, <1>3, NegotiationAssumption DEF NegInv, AtMost
<1>6. /\ new.cert = cert /\ new.offer_nonce = n + 1 /\ new.request_nonce = r.nonce
      /\ cert.delegate = r.pk /\ cert.intent = r.intent
      /\ cert.issued_at = now /\ cert.expiration = now + life
  BY <1>3
<1>7. life = AtMost(r.ttl, MaxTtl)
  BY <1>3
<1> HIDE DEF new, cert, life
<1>8. n \in Nat /\ IsFiniteSet(offers')
      /\ (new \notin offers => Cardinality(offers') = n + 1)
  BY <1>1, FS_AddElement, FS_CardinalityType DEF NegInv
<1>9. new \notin offers
  BY <1>6, <1>8 DEF NegInv
<1>10. (\A o \in offers : o.offer_nonce \in 1 .. Cardinality(offers))'
  <2>1. ASSUME NEW o \in offers' PROVE o.offer_nonce \in 1 .. n + 1
    <3>1. CASE o = new
      BY <1>6, <1>8, <3>1
    <3>2. CASE o \in offers
      BY <1>8, <3>2 DEF NegInv
    <3>3. QED
      BY <1>1, <3>1, <3>2
  <2>2. QED
    BY <1>8, <1>9, <2>1
<1>11. (\A o, p \in offers : o.offer_nonce = p.offer_nonce => o = p)'
  <2>1. \A o \in offers : o.offer_nonce # new.offer_nonce
    BY <1>6, <1>8 DEF NegInv
  <2>2. QED
    BY <1>1, <2>1 DEF NegInv
<1>12. (\A a \in agreed : \E p \in offers : \A f \in AllButLifetime : a.offer[f] = p[f])'
  BY <1>1 DEF NegInv
<1>13. CertWasAsked'
  <2>1. cert.expiration <= cert.issued_at + AtMost(r.ttl, MaxTtl)
    BY <1>5, <1>6, <1>7
  <2>2. cert.issued_at - r.timestamp <= MaxAge
    BY <1>4, <1>6
  <2>3. \E x \in requests : /\ new.cert.delegate = x.pk /\ new.cert.intent = x.intent
                            /\ new.request_nonce = x.nonce /\ check_capability_policy(x.caps)
                            /\ new.cert.issued_at - x.timestamp <= MaxAge
                            /\ new.cert.expiration <= new.cert.issued_at + AtMost(x.ttl, MaxTtl)
    BY <1>4, <1>6, <2>1, <2>2
  <2>4. QED
    BY <1>1, <2>3 DEF NegInv, CertWasAsked, check_capability_policy
<1>14. QED
  BY <1>1, <1>8, <1>10, <1>11, <1>12, <1>13 DEF NegInv

LEMMA AcceptKeeps ==
  ASSUME NegInv, NEW agent, NEW o, Accept(agent, o)
  PROVE  NegInv'
<1> DEFINE a == [acceptor |-> agent, offer |-> o]
<1>1. agreed' = agreed \cup {a} /\ now' = now /\ requests' = requests /\ offers' = offers
  BY DEF Accept
<1>2. PICK p \in offers : offer_signable_bytes(p) = offer_signable_bytes(o)
  BY DEF Accept, OfferSigned
<1>3. \A f \in AllButLifetime : a.offer[f] = p[f]
  <2>1. /\ p.offerer = o.offerer /\ p.request_nonce = o.request_nonce
        /\ p.offer_nonce = o.offer_nonce /\ p.timestamp = o.timestamp /\ p.cert = o.cert
    BY <1>2 DEF offer_signable_bytes
  <2>2. QED
    BY <1>2, <2>1 DEF OfferSigned, AllButLifetime
<1> HIDE DEF a
<1>4. (\A x \in agreed : \E y \in offers : \A f \in AllButLifetime : x.offer[f] = y[f])'
  BY <1>1, <1>3 DEF NegInv
<1>5. CertWasAsked'
  BY <1>1 DEF NegInv, CertWasAsked
<1>6. QED
  BY <1>1, <1>4, <1>5 DEF NegInv

(* Time alone disturbs nothing.                                             *)
LEMMA NegQuiet ==
  ASSUME NegInv, now' \in Nat, UNCHANGED <<requests, offers, agreed>>
  PROVE  NegInv'
<1>1. CertWasAsked'
  BY DEF NegInv, CertWasAsked
<1>2. QED
  BY <1>1 DEF NegInv

LEMMA NegInvStep == ASSUME NegInv, NegNext PROVE NegInv'
<1>1. CASE NegTick
  BY <1>1, NegQuiet DEF NegTick, Tick, NegInv
<1>2. ASSUME NEW r \in requests, NEW q \in AlteredRequests(r), Negotiate(q) PROVE NegInv'
  BY <1>2, NegotiateKeeps
<1>3. ASSUME NEW p \in offers, NEW o \in AlteredOffers(p), Accept(o.cert.delegate, o) PROVE NegInv'
  BY <1>3, AcceptKeeps
<1>4. QED
  BY <1>1, <1>2, <1>3, AskKeeps DEF NegNext

LEMMA NegInvMeans == NegInv => OfferAuthentic
<1>1. ASSUME NegInv, NEW a \in agreed, NEW o \in offers, a.offer.offer_nonce = o.offer_nonce
      PROVE  a.offer.cert = o.cert
  <2>1. PICK p \in offers : \A f \in AllButLifetime : a.offer[f] = p[f]
    BY <1>1 DEF NegInv
  <2>2. a.offer.offer_nonce = p.offer_nonce /\ a.offer.cert = p.cert
    BY <2>1 DEF AllButLifetime
  <2>3. QED
    BY <1>1, <2>2 DEF NegInv
<1>2. QED
  BY <1>1 DEF NegInv, OfferAuthentic, SameOfferAgreed

(* Negotiation by signed messages, however they are repeated, delayed and   *)
(* altered: an offered certificate answers a request that its holder's key  *)
(* signed, recently, for that intent and no shorter a life, listing only    *)
(* what the policy allows; and the offer that an agent accepts is the one   *)
(* that was made, but for the lifetime that no signature covers.            *)
THEOREM NegotiationAuthentic == NegSpec => []OfferAuthentic
<1>1. NegInv /\ UNCHANGED negVars => NegInv'
  BY NegQuiet DEF negVars, NegInv
<1>2. NegInv /\ [NegNext]_negVars => NegInv'
  BY <1>1, NegInvStep
<1>3. QED
  BY NegInvInit, <1>2, NegInvMeans, PTL DEF NegSpec

-----------------------------------------------------------------------------
(* Approvals                                                               *)

(* Approvals were given in the past, and what was honoured had been given.  *)
AppInv ==
  /\ now \in Nat
  /\ \A g \in granted : g.granted_at \in Nat /\ g.expires_at \in Nat /\ g.granted_at <= now
  /\ HonouredWasGranted

LEMMA AppInvInit == AppInit => AppInv
BY DEF AppInit, AppInv, HonouredWasGranted

LEMMA IssueApprovalKeeps ==
  ASSUME AppInv, NEW approver, NEW capability, NEW agent, NEW action, NEW term \in Terms,
         IssueApproval(approver, capability, agent, action, term)
  PROVE  AppInv'
<1> DEFINE g == [capability |-> capability, approver |-> approver, agent |-> agent, action |-> action,
                 granted_at |-> now, expires_at |-> now + term, nonce |-> Cardinality(granted) + 1]
<1>1. granted' = granted \cup {g} /\ now' = now /\ honoured' = honoured
  BY DEF IssueApproval
<1>2. g.granted_at = now /\ g.expires_at = now + term /\ term \in Nat /\ now \in Nat
  BY ApprovalAssumption DEF AppInv
<1> HIDE DEF g
<1>3. (\A x \in granted : x.granted_at \in Nat /\ x.expires_at \in Nat /\ x.granted_at <= now)'
  BY <1>1, <1>2 DEF AppInv
<1>4. HonouredWasGranted'
  BY <1>1 DEF AppInv, HonouredWasGranted
<1>5. QED
  BY <1>1, <1>2, <1>3, <1>4 DEF AppInv

LEMMA VerifyApprovalKeeps ==
  ASSUME AppInv, NEW t, VerifyApproval(t)
  PROVE  AppInv'
<1> DEFINE h == [token |-> t, at |-> now]
<1>1. honoured' = honoured \cup {h} /\ now' = now /\ granted' = granted
  BY DEF VerifyApproval
<1>2. PICK g \in granted : approval_signable(g) = approval_signable(t)
  BY DEF VerifyApproval, verify
<1>3. /\ g.approver = t.approver /\ g.capability = t.capability /\ g.agent = t.agent
      /\ g.action = t.action /\ g.expires_at = t.expires_at
  BY <1>2 DEF approval_signable
<1>4. now \in g.granted_at .. g.expires_at
  BY <1>2, <1>3 DEF AppInv, VerifyApproval, verify
<1>5. h.token = t /\ h.at = now
  OBVIOUS
<1> HIDE DEF h
<1>6. HonouredWasGranted'
  BY <1>1, <1>3, <1>4, <1>5 DEF AppInv, HonouredWasGranted
<1>7. QED
  BY <1>1, <1>6 DEF AppInv

LEMMA AppQuiet ==
  ASSUME AppInv, now' \in Nat, now <= now', UNCHANGED <<granted, honoured>>
  PROVE  AppInv'
<1>1. HonouredWasGranted'
  BY DEF AppInv, HonouredWasGranted
<1>2. (\A g \in granted : g.granted_at \in Nat /\ g.expires_at \in Nat /\ g.granted_at <= now)'
  BY DEF AppInv
<1>3. QED
  BY <1>1, <1>2 DEF AppInv

LEMMA AppInvStep == ASSUME AppInv, AppNext PROVE AppInv'
<1>1. CASE AppTick
  <2>1. now \in Nat /\ now' = now + 1 /\ UNCHANGED <<granted, honoured>>
    BY <1>1 DEF AppTick, Tick, AppInv
  <2>2. QED
    BY <2>1, AppQuiet
<1>2. QED
  BY <1>1, IssueApprovalKeeps, VerifyApprovalKeeps DEF AppNext

(* Whatever the approval route calls valid was approved in every field, for *)
(* a term that had begun and not ended, however tokens are altered.         *)
THEOREM ApprovalGenuine == AppSpec => []HonouredWasGranted
<1>1. AppInv /\ UNCHANGED appVars => AppInv'
  BY AppQuiet DEF appVars, AppInv
<1>2. AppInv /\ [AppNext]_appVars => AppInv'
  BY <1>1, AppInvStep
<1>3. AppInv => HonouredWasGranted
  BY DEF AppInv
<1>4. QED
  BY AppInvInit, <1>2, <1>3, PTL DEF AppSpec

(* In every part of the gateway the clock stands still or ticks.            *)
LEMMA ClockMoves ==
  ASSUME NegNext \/ AppNext \/ IssNext \/ JwtNext
  PROVE  now' = now \/ Tick
<1>1. CASE NegNext
  BY <1>1 DEF NegNext, NegTick, Ask, Negotiate, Accept
<1>2. CASE AppNext
  BY <1>2 DEF AppNext, AppTick, IssueApproval, VerifyApproval
<1>3. CASE IssNext
  <2>1. ASSUME NEW r, NEW route, NEW key, NEW ttls, Lookup(r, route, key, ttls) PROVE now' = now
    BY <2>1 DEF Lookup
  <2>2. ASSUME NEW r, Sign(r) \/ Store(r) PROVE now' = now
    BY <2>2 DEF Sign, Store
  <2>3. QED
    BY <1>3, <2>1, <2>2 DEF IssNext, IssTick, IssRestart
<1>4. CASE JwtNext
  BY <1>4 DEF JwtNext, JwtTick, Rotate, Begin, ProviderAnswers, FetchFails, Receive, StoreKeys
<1>5. QED
  BY <1>1, <1>2, <1>3, <1>4

(* What the gateway honours was signed field by field, whichever of its     *)
(* parts moves.                                                             *)
THEOREM HonouredWasSignedAlways == Spec => []HonouredWasSigned
<1>1. Init => NegInv /\ AppInv
  BY NegInvInit, AppInvInit DEF Init
<1>2. ASSUME NegInv, AppInv, [Next]_vars PROVE NegInv' /\ AppInv'
  <2>1. /\ \/ NegNext
           \/ now' \in Nat /\ UNCHANGED <<requests, offers, agreed>>
        /\ \/ AppNext
           \/ now' \in Nat /\ now <= now' /\ UNCHANGED <<granted, honoured>>
    <3>0. now \in Nat /\ (Tick => now' \in Nat /\ now <= now') /\ (now' = now => now' \in Nat /\ now <= now')
      BY <1>2 DEF NegInv, Tick
    <3>1. CASE UNCHANGED now
      BY <1>2, <3>0, <3>1 DEF Next, vars, clockVars, negOnly, appOnly
    <3>2. CASE ~ UNCHANGED now
      <4>1. Next /\ ~ UNCHANGED clockVars
        BY <1>2, <3>2 DEF vars, clockVars
      <4>2. NegNext \/ AppNext \/ IssNext \/ JwtNext
        BY <4>1 DEF Next
      <4>3. Tick
        BY <3>2, <4>2, ClockMoves
      <4>4. QED
        BY <3>0, <4>1, <4>3 DEF Next, negOnly, appOnly
    <3>3. QED
      BY <3>1, <3>2
  <2>2. QED
    BY <1>2, <2>1, NegInvStep, NegQuiet, AppInvStep, AppQuiet
<1>3. NegInv /\ AppInv => HonouredWasSigned
  BY NegInvMeans DEF HonouredWasSigned, AppInv
<1>4. QED
  BY <1>1, <1>2, <1>3, PTL DEF Spec

-----------------------------------------------------------------------------
(* Token exchange                                                          *)

Less == {p \in Nat \X Nat : p[1] < p[2]}

LEMMA LeastOf ==
  ASSUME NEW S \in SUBSET Nat, S # {}
  PROVE  \E m \in S : \A k \in S : m <= k
<1>1. IsWellFoundedOn(Less, Nat)
  BY NatLessThanWellFounded, IsWellFoundedOnSubrelation DEF OpToRel, Less
<1>2. PICK m \in S : \A k \in S : ~ (<<k, m>> \in Less)
  BY <1>1, WFMin
<1>3. ASSUME NEW k \in S PROVE m <= k
  <2>1. ~ (<<k, m>> \in Less) /\ k \in Nat /\ m \in Nat
    BY <1>2
  <2>2. ~ (k < m)
    BY <2>1 DEF Less
  <2>3. QED
    BY <2>1, <2>2
<1>4. QED
  BY <1>3

(* A key that a key set published at time answered holds has been seen      *)
(* since.                                                                   *)
SeenSince(keys, answered) ==
  \A i \in DOMAIN keys : keys[i].key \in AllKeys /\ lastSeen[keys[i].key] >= answered

KeySetOf(x) ==
  /\ x.keys \in KeySets
  /\ x.answered \in Nat /\ x.answered <= now
  /\ SeenSince(x.keys, x.answered)

JwtTypes ==
  /\ now \in Nat
  /\ published \in KeySets
  /\ lastSeen \in [AllKeys -> Int]
  /\ \A i \in DOMAIN published : lastSeen[published[i].key] = now
  /\ \A k \in AllKeys : lastSeen[k] <= now

(* A request holds its token, then the key set that was published when the  *)
(* provider answered, then that set stamped with the present second; the    *)
(* cache holds such a set, stamped in the past.                             *)
InFlight(x) ==
  /\ x.pc \in {"fetch", "reply", "store"} => x.token \in Token /\ x.ttl \in Lifetimes
  /\ x.pc \in {"reply", "store"} => KeySetOf(x)
  /\ x.pc = "store" => x.fetched = now

Cached(entry) ==
  \/ entry = NoEntry
  \/ KeySetOf(entry) /\ entry.fetched \in Nat /\ entry.fetched <= now

JwtInv ==
  /\ JwtTypes
  /\ Cached(jwks)
  /\ DOMAIN exchanges = Exchange
  /\ \A r \in Exchange : InFlight(exchanges[r])
  /\ ExchangeCurrent

LEMMA JwtInvInit == JwtInit => JwtInv
<1> SUFFICES ASSUME JwtInit PROVE JwtInv
  OBVIOUS
<1>1. \A i \in DOMAIN published : published[i].key \in AllKeys /\ published[i].key \in SigningKeys(published)
  BY DEF JwtInit, AllKeys, SigningKeys
<1>2. JwtTypes
  BY <1>1 DEF JwtInit, JwtTypes
<1>3. Cached(jwks) /\ DOMAIN exchanges = Exchange
  BY DEF JwtInit, Cached
<1>4. \A r \in Exchange : InFlight(exchanges[r])
  BY DEF JwtInit, InFlight, Waiting
<1>5. ExchangeCurrent
  BY DEF JwtInit, ExchangeCurrent, WithinToken, WithdrawnKeyDies
<1>6. QED
  BY <1>2, <1>3, <1>4, <1>5 DEF JwtInv

(* What one step of a request does to the rest.                             *)
LEMMA InFlightStep ==
  ASSUME JwtInv, NEW r \in Exchange, NEW x, exchanges' = [exchanges EXCEPT ![r] = x],
         InFlight(x), UNCHANGED <<now, published, lastSeen>>, Cached(jwks)', ExchangeCurrent'
  PROVE  JwtInv'
<1>1. JwtTypes'
  BY DEF JwtInv, JwtTypes
<1>2. DOMAIN exchanges' = Exchange /\ \A q \in Exchange : InFlight(exchanges'[q])
  BY DEF JwtInv
<1>3. \A q \in Exchange : InFlight(exchanges[q])'
  BY <1>2 DEF InFlight, KeySetOf, SeenSince
<1>4. QED
  BY <1>1, <1>2, <1>3 DEF JwtInv

LEMMA CachedStays ==
  ASSUME Cached(jwks), UNCHANGED <<now, lastSeen, jwks>>
  PROVE  Cached(jwks)'
BY DEF Cached, KeySetOf, SeenSince, NoEntry

(* A certificate is given out for a token and a key set that are both good: *)
(* the key that verifies the token is one of the set, seen since the set    *)
(* was published.                                                           *)
LEMMA FinishCurrent ==
  ASSUME JwtInv, NEW r \in Exchange, NEW token \in Token, NEW ttl \in Lifetimes, NEW asked,
         NEW entry, KeySetOf(entry), entry.fetched \in Nat, entry.fetched <= now,
         now - entry.fetched < JwksTtl,
         Finish(r, token, ttl, asked, entry)
  PROVE  ExchangeCurrent'
<1> DEFINE life == TtlLeft(token, ttl, asked)
           good == verify_jwt_rsa(token, entry.keys) /\ token.sub # "" /\ token.exp > now /\ life > 0
           x == [token |-> token, at |-> now, expiration |-> now + life,
                 lastSeen |-> lastSeen[token.key],
                 delay |-> entry.fetched - entry.answered, cached |-> entry.fetched]
<1>1. CASE ~ good
  <2>1. exchanged' = exchanged
    BY <1>1 DEF Finish
  <2>2. QED
    BY <2>1 DEF JwtInv, ExchangeCurrent, WithinToken, WithdrawnKeyDies
<1>2. CASE good
  <2>1. exchanged' = exchanged \cup {x}
    BY <1>2 DEF Finish
  <2>2. PICK i \in DOMAIN entry.keys : entry.keys[i].key = token.key
    <3> DEFINE meant == {i \in DOMAIN entry.keys :
                           token.kid = NoKid \/ entry.keys[i].kid \in {NoKid, token.kid}}
               first == CHOOSE i \in meant : \A j \in meant : i <= j
    <3>1. meant # {} /\ entry.keys[first].key = token.key
      BY <1>2 DEF verify_jwt_rsa
    <3>2. meant \subseteq Nat
      BY JwtAssumption DEF KeySetOf
    <3>3. \E i \in meant : \A j \in meant : i <= j
      <4> HIDE DEF meant
      <4>1. QED
        BY <3>1, <3>2, LeastOf
    <3>4. first \in meant
      <4> HIDE DEF meant
      <4>1. QED
        BY <3>3
    <3>5. QED
      BY <3>1, <3>4
  <2>3. lastSeen[token.key] \in Int /\ lastSeen[token.key] >= entry.answered
    BY <2>2 DEF KeySetOf, SeenSince, JwtInv, JwtTypes
  <2>4. now - lastSeen[token.key] < JwksTtl + (entry.fetched - entry.answered)
    BY <2>3, JwtAssumption DEF JwtInv, JwtTypes, KeySetOf
  <2>5. now + life <= token.exp
    BY JwtAssumption DEF JwtInv, JwtTypes, TtlLeft, AtMost
  <2>6. /\ x.expiration = now + life /\ x.token = token /\ x.at = now
        /\ x.lastSeen = lastSeen[token.key] /\ x.delay = entry.fetched - entry.answered
    OBVIOUS
  <2> HIDE DEF x, life, good
  <2>7. WithinToken'
    BY <2>1, <2>5, <2>6 DEF JwtInv, ExchangeCurrent, WithinToken
  <2>8. WithdrawnKeyDies'
    BY <2>1, <2>4, <2>6 DEF JwtInv, ExchangeCurrent, WithdrawnKeyDies
  <2>9. QED
    BY <2>7, <2>8 DEF ExchangeCurrent
<1>3. QED
  BY <1>1, <1>2

LEMMA JwtInvStep == ASSUME JwtInv, JwtNext PROVE JwtInv'
<1>0. now \in Nat /\ InFlight(Waiting)
  BY DEF JwtInv, JwtTypes, InFlight, Waiting
<1>1. CASE JwtTick
  <2>1. /\ now' = now + 1 /\ lastSeen' = Seen(published, now + 1)
        /\ UNCHANGED <<published, jwks, exchanges, exchanged>>
        /\ \A r \in Exchange : exchanges[r].pc # "store"
    BY <1>1 DEF JwtTick, Tick
  <2>2. \A i \in DOMAIN published : published[i].key \in AllKeys /\ published[i].key \in SigningKeys(published)
    BY DEF JwtInv, JwtTypes, AllKeys, SigningKeys
  <2>3. JwtTypes'
    BY <1>0, <2>1, <2>2 DEF JwtInv, JwtTypes, Seen
  <2>4. \A k \in AllKeys : lastSeen'[k] >= lastSeen[k]
    BY <1>0, <2>1 DEF JwtInv, JwtTypes, Seen
  <2>5. ASSUME NEW x, KeySetOf(x) PROVE KeySetOf(x)'
    BY <1>0, <2>1, <2>3, <2>4, <2>5 DEF KeySetOf, SeenSince, JwtInv, JwtTypes
  <2>6. Cached(jwks)'
    BY <1>0, <2>1, <2>5 DEF JwtInv, Cached, NoEntry
  <2>7. \A r \in Exchange : InFlight(exchanges[r])'
    BY <2>1, <2>5 DEF JwtInv, InFlight
  <2>8. ExchangeCurrent'
    BY <2>1 DEF JwtInv, ExchangeCurrent, WithinToken, WithdrawnKeyDies
  <2>9. QED
    BY <2>1, <2>3, <2>6, <2>7, <2>8 DEF JwtInv
<1>2. ASSUME NEW keys \in KeySets, Rotate(keys) PROVE JwtInv'
  <2>1. published' = keys /\ lastSeen' = Seen(keys, now) /\ UNCHANGED <<now, jwks, exchanges, exchanged>>
    BY <1>2 DEF Rotate
  <2>2. \A i \in DOMAIN keys : keys[i].key \in AllKeys /\ keys[i].key \in SigningKeys(keys)
    BY DEF AllKeys, SigningKeys
  <2>3. JwtTypes'
    BY <1>0, <2>1, <2>2 DEF JwtInv, JwtTypes, Seen
  <2>4. \A k \in AllKeys : lastSeen'[k] >= lastSeen[k]
    BY <1>0, <2>1 DEF JwtInv, JwtTypes, Seen
  <2>5. ASSUME NEW x, KeySetOf(x) PROVE KeySetOf(x)'
    BY <1>0, <2>1, <2>3, <2>4, <2>5 DEF KeySetOf, SeenSince, JwtInv, JwtTypes
  <2>6. Cached(jwks)'
    BY <2>1, <2>5 DEF JwtInv, Cached, NoEntry
  <2>7. \A r \in Exchange : InFlight(exchanges[r])'
    BY <2>1, <2>5 DEF JwtInv, InFlight
  <2>8. ExchangeCurrent'
    BY <2>1 DEF JwtInv, ExchangeCurrent, WithinToken, WithdrawnKeyDies
  <2>9. QED
    BY <2>1, <2>3, <2>6, <2>7, <2>8 DEF JwtInv
<1>3. ASSUME NEW r \in Exchange, NEW token \in Token, NEW ttl \in Lifetimes, Begin(r, token, ttl)
      PROVE  JwtInv'
  <2>1. UNCHANGED <<now, published, lastSeen, jwks>> /\ Cached(jwks)'
    BY <1>3, CachedStays DEF Begin, JwtInv
  <2>2. CASE Fresh(jwks)
    <3>1. Finish(r, token, ttl, now, jwks) /\ exchanges' = [exchanges EXCEPT ![r] = Waiting]
      BY <1>3, <2>2 DEF Begin, Finish
    <3>2. now - jwks.fetched < JwksTtl /\ jwks # NoEntry
      BY <1>0, <2>2, JwtAssumption DEF Fresh, NoEntry
    <3>3. KeySetOf(jwks) /\ jwks.fetched \in Nat /\ jwks.fetched <= now
      BY <3>2 DEF JwtInv, Cached
    <3>4. ExchangeCurrent'
      BY <3>1, <3>2, <3>3, FinishCurrent
    <3>5. QED
      BY <1>0, <2>1, <3>1, <3>4, InFlightStep
  <2>3. CASE ~ Fresh(jwks)
    <3> DEFINE x == [pc |-> "fetch", token |-> token, ttl |-> ttl, asked |-> now]
    <3>1. exchanges' = [exchanges EXCEPT ![r] = x] /\ exchanged' = exchanged
      BY <1>3, <2>3 DEF Begin
    <3>2. InFlight(x)
      BY DEF InFlight
    <3> HIDE DEF x
    <3>3. ExchangeCurrent'
      BY <3>1 DEF JwtInv, ExchangeCurrent, WithinToken, WithdrawnKeyDies
    <3>4. QED
      BY <2>1, <3>1, <3>2, <3>3, InFlightStep
  <2>4. QED
    BY <2>2, <2>3
<1>4. ASSUME NEW r \in Exchange, ProviderAnswers(r) PROVE JwtInv'
  <2> DEFINE y == exchanges[r]
             x == [pc |-> "reply", token |-> y.token, ttl |-> y.ttl, asked |-> y.asked,
                   keys |-> published, answered |-> now]
  <2>1. /\ exchanges' = [exchanges EXCEPT ![r] = x] /\ y.pc = "fetch"
        /\ UNCHANGED <<now, published, lastSeen, jwks, exchanged>>
    BY <1>4 DEF ProviderAnswers
  <2>2. y.token \in Token /\ y.ttl \in Lifetimes
    BY <2>1 DEF JwtInv, InFlight
  <2>3. SeenSince(published, now)
    BY <1>0 DEF JwtInv, JwtTypes, SeenSince, AllKeys, SigningKeys
  <2>4. InFlight(x)
    BY <1>0, <2>2, <2>3 DEF InFlight, KeySetOf, JwtInv, JwtTypes
  <2> HIDE DEF x
  <2>5. ExchangeCurrent'
    BY <2>1 DEF JwtInv, ExchangeCurrent, WithinToken, WithdrawnKeyDies
  <2>6. Cached(jwks)'
    BY <2>1, CachedStays DEF JwtInv
  <2>7. QED
    BY <2>1, <2>4, <2>5, <2>6, InFlightStep
<1>5. ASSUME NEW r \in Exchange, FetchFails(r) PROVE JwtInv'
  <2>1. /\ exchanges' = [exchanges EXCEPT ![r] = Waiting]
        /\ UNCHANGED <<now, published, lastSeen, jwks, exchanged>>
    BY <1>5 DEF FetchFails
  <2>2. ExchangeCurrent'
    BY <2>1 DEF JwtInv, ExchangeCurrent, WithinToken, WithdrawnKeyDies
  <2>3. Cached(jwks)'
    BY <2>1, CachedStays DEF JwtInv
  <2>4. QED
    BY <1>0, <2>1, <2>2, <2>3, InFlightStep
<1>6. ASSUME NEW r \in Exchange, Receive(r) PROVE JwtInv'
  <2> DEFINE y == exchanges[r]
             x == [pc |-> "store", token |-> y.token, ttl |-> y.ttl, asked |-> y.asked,
                   keys |-> y.keys, answered |-> y.answered, fetched |-> now]
  <2>1. /\ exchanges' = [exchanges EXCEPT ![r] = x] /\ y.pc = "reply"
        /\ UNCHANGED <<now, published, lastSeen, jwks, exchanged>>
    BY <1>6 DEF Receive
  <2>2. y.token \in Token /\ y.ttl \in Lifetimes /\ KeySetOf(y)
    BY <2>1 DEF JwtInv, InFlight
  <2>3. InFlight(x)
    BY <2>2 DEF InFlight, KeySetOf
  <2> HIDE DEF x
  <2>4. ExchangeCurrent'
    BY <2>1 DEF JwtInv, ExchangeCurrent, WithinToken, WithdrawnKeyDies
  <2>5. Cached(jwks)'
    BY <2>1, CachedStays DEF JwtInv
  <2>6. QED
    BY <2>1, <2>3, <2>4, <2>5, InFlightStep
<1>7. ASSUME NEW r \in Exchange, StoreKeys(r) PROVE JwtInv'
  <2> DEFINE y == exchanges[r]
             entry == [keys |-> y.keys, fetched |-> y.fetched, answered |-> y.answered]
  <2>1. /\ y.pc = "store" /\ jwks' = entry /\ Finish(r, y.token, y.ttl, y.asked, entry)
        /\ UNCHANGED <<now, published, lastSeen>>
    BY <1>7 DEF StoreKeys
  <2>2. y.token \in Token /\ y.ttl \in Lifetimes /\ KeySetOf(y) /\ y.fetched = now
    BY <2>1 DEF JwtInv, InFlight
  <2>3. KeySetOf(entry) /\ entry.fetched = now
    BY <2>2 DEF KeySetOf
  <2> HIDE DEF entry
  <2>8. entry.fetched \in Nat /\ entry.fetched <= now /\ now - entry.fetched < JwksTtl
    BY <1>0, <2>3, JwtAssumption
  <2>4. ExchangeCurrent'
    BY <1>0, <2>1, <2>2, <2>3, <2>8, FinishCurrent
  <2>5. Cached(jwks)'
    BY <1>0, <2>1, <2>3 DEF Cached, KeySetOf, SeenSince
  <2>6. exchanges' = [exchanges EXCEPT ![r] = Waiting]
    BY <2>1 DEF Finish
  <2>7. QED
    BY <1>0, <2>1, <2>4, <2>5, <2>6, InFlightStep
<1>8. QED
  BY <1>1, <1>2, <1>3, <1>4, <1>5, <1>6, <1>7 DEF JwtNext

(* A certificate exchanged for a token does not outlive it, and a key that  *)
(* the provider has withdrawn is honoured for less than the life of a cache *)
(* entry after it was last published, plus the time its answer was under    *)
(* way, whatever the order in which concurrent answers overwrite the cache. *)
THEOREM ExchangeCurrentAlways == JwtSpec => []ExchangeCurrent
<1>1. JwtInv /\ UNCHANGED jwtVars => JwtInv'
  BY DEF jwtVars, JwtInv, JwtTypes, Cached, NoEntry, KeySetOf, SeenSince, InFlight, ExchangeCurrent,
         WithinToken, WithdrawnKeyDies
<1>2. JwtInv /\ [JwtNext]_jwtVars => JwtInv'
  BY <1>1, JwtInvStep
<1>3. JwtInv => ExchangeCurrent
  BY DEF JwtInv
<1>4. QED
  BY JwtInvInit, <1>2, <1>3, PTL DEF JwtSpec

-----------------------------------------------------------------------------
(* Issuance                                                                *)

Lasting(certs) ==
  \A i \in DOMAIN certs : certs[i].expiration = certs[i].issued_at + certs[i].ttl

Due(t, last) == last = -1 \/ t >= last + CacheTtl

(* What a request that missed the cache may count on: when it began, no     *)
(* answer to its key was younger than the life of a cache entry.            *)
CallOk(c) ==
  \/ c = Idle
  \/ /\ c.pc \in {"sign", "store"}
     /\ c.route \in Route /\ c.key \in IdemKey \cup {NoKey}
     /\ c.key # NoKey => Due(c.began, c.last)
     /\ c.pc = "sign" => c.ttls \in Batches
     /\ c.pc = "store" => c.key # NoKey /\ Lasting(c.certs)

(* The cache remembers every answer that is younger than a cache entry.     *)
Remembered ==
  \A k \in Route \X IdemKey :
    \/ Due(now, given[k].last)
    \/ k \in DOMAIN cache /\ cache[k].exp = given[k].last + CacheTtl

CacheOk ==
  /\ DOMAIN cache \subseteq Route \X IdemKey
  /\ \A k \in DOMAIN cache :
       cache[k].exp \in Nat /\ Lasting(cache[k].certs) /\ cache[k].certs \in given[k].certs
  /\ Remembered

GivenOk ==
  /\ DOMAIN given = Slot
  /\ \A k \in Slot : given[k].last \in Int

AnswerOk ==
  /\ answer.key \in IdemKey \cup {NoKey}
  /\ answer.key # NoKey => answer.route \in Route
  /\ IssuedAsAsked

IssInv ==
  /\ now \in 0 .. MaxTime
  /\ GivenOk
  /\ CacheOk
  /\ DOMAIN calls = Request /\ \A r \in Request : CallOk(calls[r])
  /\ AnswerOk

LEMMA SeqElement ==
  ASSUME NEW S, NEW s \in Seq(S)
  PROVE  Len(s) \in Nat /\ DOMAIN s = 1 .. Len(s) /\ \A i \in DOMAIN s : s[i] \in S
  OBVIOUS

LEMMA Remainder ==
  ASSUME NEW x \in Nat, NEW m \in Nat, x < m
  PROVE  x % m = x
  OBVIOUS

LEMMA WrappedOnce ==
  ASSUME NEW x \in Nat, NEW m \in Nat, m <= x, x < m + m
  PROVE  x % m = x - m
  OBVIOUS

(* A sum of two 64-bit numbers that wraps around is below both.             *)
LEMMA WrapsOrLasts ==
  ASSUME NEW t \in 0 .. U64Max, NEW ttl \in 0 .. U64Max,
         (t + ttl) % (U64Max + 1) > t
  PROVE  (t + ttl) % (U64Max + 1) = t + ttl
<1>1. U64Max \in Nat
  BY IssuanceAssumption
<1>4. CASE t + ttl < U64Max + 1
  BY <1>1, <1>4, Remainder
<1>5. CASE U64Max + 1 <= t + ttl
  <2>1. (t + ttl) % (U64Max + 1) = t + ttl - (U64Max + 1)
    BY <1>1, <1>5, WrappedOnce
  <2>2. QED
    BY <1>1, <2>1
<1>6. QED
  BY <1>1, <1>4, <1>5

LEMMA IssInvInit == IssInit => IssInv
<1> SUFFICES ASSUME IssInit PROVE IssInv
  OBVIOUS
<1>1. now \in 0 .. MaxTime
  BY ClockAssumption DEF IssInit
<1>2. \A k \in Slot : given[k].last = -1
  BY DEF IssInit
<1>3. GivenOk
  BY <1>2 DEF GivenOk, IssInit
<1>4. (Route \X IdemKey) \subseteq Slot
  BY DEF Slot
<1>5. CacheOk
  BY <1>2, <1>4 DEF CacheOk, Remembered, Due, IssInit
<1>6. AnswerOk
  BY DEF AnswerOk, IssuedAsAsked, NoReissue, LivesAsAsked, IssInit, NoAnswer
<1>7. QED
  BY <1>1, <1>3, <1>5, <1>6 DEF IssInv, CallOk, IssInit

(* The calls in flight do not depend on the rest of the state.              *)
LEMMA CallsStep ==
  ASSUME IssInv, NEW r \in Request, NEW c, CallOk(c), calls' = [calls EXCEPT ![r] = c]
  PROVE  (DOMAIN calls = Request /\ \A q \in Request : CallOk(calls[q]))'
<1>1. DOMAIN calls' = Request
  BY DEF IssInv
<1>2. ASSUME NEW q \in Request PROVE CallOk(calls'[q])
  <2>1. CASE q = r
    BY <2>1 DEF IssInv
  <2>2. CASE q # r
    BY <2>2 DEF IssInv
  <2>3. QED
    BY <2>1, <2>2
<1>3. QED
  BY <1>1, <1>2 DEF CallOk, Due, Lasting

(* An answer whose certificates are fresh.                                  *)
LEMMA FreshAnswer ==
  ASSUME IssInv, NEW c, NEW certs, c.route \in Route, c.key \in IdemKey \cup {NoKey},
         c.key # NoKey => Due(c.began, c.last), Lasting(certs), Answer(c, certs, TRUE)
  PROVE  AnswerOk' /\ GivenOk'
<1> DEFINE a == [route |-> c.route, key |-> c.key, certs |-> certs, fresh |-> TRUE,
                 began |-> c.began, last |-> c.last]
<1>1. answer' = a
  BY DEF Answer
<1>2. /\ answer'.key = c.key /\ answer'.route = c.route /\ answer'.certs = certs /\ answer'.fresh
      /\ answer'.began = c.began /\ answer'.last = c.last
  BY <1>1
<1>3. NoReissue'
  BY <1>2 DEF NoReissue, Due
<1>4. LivesAsAsked'
  BY <1>2 DEF LivesAsAsked, Lasting
<1>5. AnswerOk'
  BY <1>2, <1>3, <1>4 DEF AnswerOk, IssuedAsAsked
<1>6. GivenOk'
  <2>1. CASE c.key = NoKey
    BY <2>1 DEF Answer, IssInv, GivenOk
  <2>2. CASE c.key # NoKey
    <3> DEFINE slot == <<c.route, c.key>>
               g == [last |-> now, certs |-> given[slot].certs \cup {certs}]
    <3>1. given' = [given EXCEPT ![slot] = g]
      BY <2>2 DEF Answer
    <3>2. g.last \in Int
      BY DEF IssInv
    <3> HIDE DEF g, slot
    <3>3. DOMAIN given' = Slot
      BY <3>1 DEF IssInv, GivenOk
    <3>4. \A k \in Slot : given'[k] = g \/ given'[k] = given[k]
      BY <3>1 DEF IssInv, GivenOk
    <3>5. \A k \in Slot : given'[k].last \in Int
      BY <3>2, <3>4 DEF IssInv, GivenOk
    <3>6. QED
      BY <3>3, <3>5 DEF GivenOk
  <2>3. QED
    BY <2>1, <2>2
<1>7. QED
  BY <1>5, <1>6

(* Nothing is answered, or what is answered was in the cache.               *)
LEMMA QuietAnswer ==
  ASSUME IssInv, UNCHANGED <<given, answer>>
  PROVE  AnswerOk' /\ GivenOk'
  BY DEF IssInv, AnswerOk, GivenOk, IssuedAsAsked, NoReissue, LivesAsAsked

LEMMA SweepKeeps ==
  ASSUME IssInv, NEW route \in Route
  PROVE  LET swept == Sweep(cache, route)
         IN /\ DOMAIN swept \subseteq DOMAIN cache
            /\ \A k \in DOMAIN swept : swept[k] = cache[k]
            /\ \A k \in DOMAIN cache : k \in DOMAIN swept \/ cache[k].exp <= now
<1>1. \A k \in DOMAIN cache : cache[k].exp \in Nat /\ now \in Nat
  BY ClockAssumption DEF IssInv, CacheOk
<1>2. QED
  BY <1>1 DEF Sweep

LEMMA LookupKeeps ==
  ASSUME IssInv, NEW r \in Request, NEW route \in Route, NEW key \in IdemKey \cup {NoKey},
         NEW ttls \in Batches, Lookup(r, route, key, ttls)
  PROVE  IssInv'
<1> DEFINE slot == <<route, key>>
           one == [pc |-> "sign", route |-> route, key |-> key, ttls |-> ttls,
                    began |-> now, last |-> given[slot].last]
           swept == IF key = NoKey THEN cache ELSE Sweep(cache, route)
           hit == slot \in DOMAIN swept /\ swept[slot].exp > now
<1>1. /\ cache' = swept /\ now' = now
      /\ hit => Answer(one, swept[slot].certs, FALSE) /\ UNCHANGED calls
      /\ ~ hit => /\ calls' = [calls EXCEPT ![r] = IF ttls = << >> THEN Idle ELSE one]
                  /\ UNCHANGED <<given, answer>>
  BY DEF Lookup, NoAnswerYet
<1>2. /\ DOMAIN swept \subseteq DOMAIN cache
      /\ \A k \in DOMAIN swept : swept[k] = cache[k]
      /\ \A k \in DOMAIN cache : k \in DOMAIN swept \/ cache[k].exp <= now
  <2>1. CASE key = NoKey
    BY <2>1
  <2>2. CASE key # NoKey
    BY <2>2, SweepKeeps
  <2>3. QED
    BY <2>1, <2>2
<1>3. given' = given
  BY <1>1 DEF Answer
<1>4. slot \in DOMAIN swept => slot \in Route \X IdemKey
  BY <1>2 DEF IssInv, CacheOk
<1>5. Remembered'
  <2>1. ASSUME NEW k \in Route \X IdemKey
        PROVE  \/ Due(now, given[k].last)
               \/ k \in DOMAIN swept /\ swept[k].exp = given[k].last + CacheTtl
    <3>1. \/ Due(now, given[k].last)
          \/ k \in DOMAIN cache /\ cache[k].exp = given[k].last + CacheTtl
      BY DEF IssInv, CacheOk, Remembered
    <3>2. given[k].last \in Int /\ now \in Int
      BY DEF IssInv, GivenOk, Slot
    <3>3. QED
      BY <1>2, <3>1, <3>2 DEF Due
  <2>2. QED
    BY <1>1, <1>3, <2>1 DEF Remembered, Due
<1>6. CacheOk'
  <2>1. DOMAIN cache' \subseteq Route \X IdemKey
    BY <1>1, <1>2 DEF IssInv, CacheOk
  <2>2. ASSUME NEW k \in DOMAIN swept
        PROVE  swept[k].exp \in Nat /\ Lasting(swept[k].certs) /\ swept[k].certs \in given[k].certs
    BY <1>2 DEF IssInv, CacheOk
  <2>3. QED
    BY <1>1, <1>3, <1>5, <2>1, <2>2 DEF CacheOk, Lasting
<1> HIDE DEF swept
<1>7. CASE hit
  <2>1. slot \in DOMAIN cache /\ swept[slot] = cache[slot] /\ key # NoKey
    BY <1>2, <1>4, <1>7, IssuanceAssumption
  <2>2. Lasting(swept[slot].certs) /\ swept[slot].certs \in given[slot].certs
    BY <2>1 DEF IssInv, CacheOk
  <2>3. /\ answer'.key = key /\ answer'.route = route /\ answer'.certs = swept[slot].certs
        /\ answer'.fresh = FALSE
    BY <1>1, <1>7 DEF Answer
  <2>4. NoReissue'
    BY <1>3, <2>2, <2>3 DEF NoReissue
  <2>5. AnswerOk'
    BY <2>2, <2>3, <2>4 DEF AnswerOk, IssuedAsAsked, LivesAsAsked, Lasting
  <2>8. calls' = calls
    BY <1>1, <1>7
  <2>6. (DOMAIN calls = Request /\ \A q \in Request : CallOk(calls[q]))'
    BY <2>8 DEF IssInv, CallOk, Due, Lasting
  <2>7. QED
    BY <1>1, <1>3, <1>6, <2>5, <2>6 DEF IssInv, GivenOk
<1>8. CASE ~ hit
  <2>1. key # NoKey => Due(now, given[slot].last)
    <3>1. ASSUME key # NoKey PROVE Due(now, given[slot].last)
      <4>1. slot \in Route \X IdemKey
        BY <3>1
      <4>2. \/ Due(now, given[slot].last)
            \/ slot \in DOMAIN cache /\ cache[slot].exp = given[slot].last + CacheTtl
        BY <4>1 DEF IssInv, CacheOk, Remembered
      <4>3. slot \in DOMAIN cache => cache[slot].exp <= now
        <5>1. ASSUME slot \in DOMAIN cache PROVE cache[slot].exp \in Nat /\ now \in Nat
          BY <5>1, ClockAssumption DEF IssInv, CacheOk
        <5>2. QED
          BY <1>2, <1>8, <5>1
      <4>4. QED
        BY <4>2, <4>3 DEF Due
    <3>2. QED
      BY <3>1
  <2>2. CallOk(one)
    <3>1. /\ one.pc = "sign" /\ one.route = route /\ one.key = key /\ one.ttls = ttls
          /\ one.began = now /\ one.last = given[slot].last
      OBVIOUS
    <3> HIDE DEF one
    <3>2. QED
      BY <2>1, <3>1 DEF CallOk
  <2> DEFINE c == IF ttls = << >> THEN Idle ELSE one
  <2>3. CallOk(c)
    BY <2>2 DEF CallOk
  <2> HIDE DEF c
  <2>4. calls' = [calls EXCEPT ![r] = c]
    BY <1>1, <1>8 DEF c
  <2>5. (DOMAIN calls = Request /\ \A q \in Request : CallOk(calls[q]))'
    BY <2>3, <2>4, CallsStep
  <2>6. QED
    BY <1>1, <1>6, <1>8, <2>5, QuietAnswer DEF IssInv
<1>9. QED
  BY <1>7, <1>8

LEMMA SignKeeps ==
  ASSUME IssInv, NEW r \in Request, Sign(r)
  PROVE  IssInv'
<1> DEFINE one == calls[r]
           n == Len(one.ttls)
           certs == [i \in 1 .. n |->
                      [id |-> signedN + i, issued_at |-> now, ttl |-> one.ttls[i],
                       expiration |-> (now + one.ttls[i]) % (U64Max + 1)]]
           good == \A i \in 1 .. n : LifetimeOk(one.ttls[i])
           stored == [pc |-> "store", route |-> one.route, key |-> one.key, certs |-> certs,
                      began |-> one.began, last |-> one.last]
<1>1. one.pc = "sign" /\ cache' = cache /\ now' = now
  BY DEF Sign
<1>2. /\ one.route \in Route /\ one.key \in IdemKey \cup {NoKey} /\ one.ttls \in Batches
      /\ one.key # NoKey => Due(one.began, one.last)
  BY <1>1 DEF IssInv, CallOk, Idle
<1>3. CallOk(Idle)
  BY DEF CallOk
<1>4. ASSUME good PROVE Lasting(certs)
  <2>1. ASSUME NEW i \in 1 .. n
        PROVE  (now + one.ttls[i]) % (U64Max + 1) = now + one.ttls[i]
    <3>1. one.ttls[i] \in 0 .. U64Max
      <4>1. one.ttls \in Seq(0 .. U64Max)
        BY <1>2, IssuanceAssumption
      <4>2. QED
        BY <4>1, SeqElement
    <3>2. now \in 0 .. U64Max
      BY ClockAssumption, IssuanceAssumption DEF IssInv
    <3>3. (now + one.ttls[i]) % (U64Max + 1) > now
      BY <1>4 DEF LifetimeOk
    <3>4. QED
      BY <3>1, <3>2, <3>3, WrapsOrLasts
  <2>2. QED
    BY <2>1 DEF Lasting
<1>5. CacheOk' \/ given' # given
  BY <1>1 DEF IssInv, CacheOk, Remembered, Due, Lasting
<1>6. CASE ~ good
  <2>1. calls' = [calls EXCEPT ![r] = Idle] /\ UNCHANGED <<given, answer>>
    BY <1>6 DEF Sign, NoAnswerYet
  <2>2. QED
    BY <1>1, <1>3, <1>5, <2>1, CallsStep, QuietAnswer DEF IssInv
<1>7. CASE good /\ one.key = NoKey
  <2>1. calls' = [calls EXCEPT ![r] = Idle] /\ Answer(one, certs, TRUE)
    BY <1>7 DEF Sign
  <2>2. AnswerOk' /\ GivenOk'
    BY <1>2, <1>4, <1>7, <2>1, FreshAnswer
  <2>3. given' = given
    BY <1>7, <2>1 DEF Answer
  <2>4. QED
    BY <1>1, <1>3, <1>5, <2>1, <2>2, <2>3, CallsStep DEF IssInv
<1>8. CASE good /\ one.key # NoKey
  <2>1. calls' = [calls EXCEPT ![r] = stored] /\ UNCHANGED <<given, answer>>
    BY <1>8 DEF Sign, NoAnswerYet
  <2>2. CallOk(stored)
    <3>1. /\ stored.pc = "store" /\ stored.route = one.route /\ stored.key = one.key
          /\ stored.certs = certs /\ stored.began = one.began /\ stored.last = one.last
      OBVIOUS
    <3> HIDE DEF stored, certs
    <3>2. QED
      BY <1>2, <1>4, <1>8, <3>1 DEF CallOk
  <2> HIDE DEF stored
  <2>3. QED
    BY <1>1, <1>5, <2>1, <2>2, CallsStep, QuietAnswer DEF IssInv
<1>9. QED
  BY <1>6, <1>7, <1>8

LEMMA StoreKeeps ==
  ASSUME IssInv, NEW r \in Request, Store(r)
  PROVE  IssInv'
<1> DEFINE one == calls[r]
           slot == <<one.route, one.key>>
           entry == [exp |-> now + CacheTtl, certs |-> one.certs]
           g == [last |-> now, certs |-> given[slot].certs \cup {one.certs}]
<1>1. /\ one.pc = "store" /\ now' = now
      /\ cache' = [k \in DOMAIN cache \cup {slot} |-> IF k = slot THEN entry ELSE cache[k]]
      /\ calls' = [calls EXCEPT ![r] = Idle]
      /\ Answer(one, one.certs, TRUE)
  BY DEF Store
<1>2. /\ one.route \in Route /\ one.key \in IdemKey /\ one.key # NoKey
      /\ Due(one.began, one.last) /\ Lasting(one.certs)
  BY <1>1 DEF IssInv, CallOk, Idle
<1>3. CallOk(Idle)
  BY DEF CallOk
<1>4. given' = [given EXCEPT ![slot] = g]
  BY <1>1, <1>2 DEF Answer
<1>5. slot \in Route \X IdemKey /\ slot \in Slot
  BY <1>2 DEF Slot
<1>6. entry.exp \in Nat /\ entry.certs = one.certs /\ one.certs \in g.certs /\ g.last = now
      /\ entry.exp = now + CacheTtl /\ given[slot].certs \subseteq g.certs
  BY ClockAssumption, IssuanceAssumption DEF IssInv
<1> HIDE DEF entry, g, slot
<1>7. given'[slot] = g /\ \A k \in Slot : k # slot => given'[k] = given[k]
  BY <1>4, <1>5 DEF IssInv, GivenOk
<1>8. DOMAIN cache' \subseteq Route \X IdemKey
  BY <1>1, <1>5 DEF IssInv, CacheOk
<1>9. ASSUME NEW k \in DOMAIN cache'
      PROVE  cache'[k].exp \in Nat /\ Lasting(cache'[k].certs) /\ cache'[k].certs \in given'[k].certs
  <2>1. CASE k = slot
    BY <1>1, <1>2, <1>6, <1>7, <2>1
  <2>2. CASE k # slot
    <3>1. k \in DOMAIN cache /\ cache'[k] = cache[k]
      BY <1>1, <2>2
    <3>2. k \in Slot
      BY <3>1 DEF IssInv, CacheOk, Slot
    <3>3. QED
      BY <1>7, <2>2, <3>1, <3>2 DEF IssInv, CacheOk
  <2>3. QED
    BY <2>1, <2>2
<1>10. ASSUME NEW k \in Route \X IdemKey
       PROVE  \/ Due(now', given'[k].last)
              \/ k \in DOMAIN cache' /\ cache'[k].exp = given'[k].last + CacheTtl
  <2>1. CASE k = slot
    BY <1>1, <1>6, <1>7, <2>1
  <2>2. CASE k # slot
    <3>1. k \in Slot
      BY DEF Slot
    <3>2. given'[k] = given[k]
      BY <1>7, <2>2, <3>1
    <3>3. k \in DOMAIN cache => k \in DOMAIN cache' /\ cache'[k] = cache[k]
      BY <1>1, <2>2
    <3>4. QED
      BY <1>1, <3>2, <3>3 DEF IssInv, CacheOk, Remembered
  <2>3. QED
    BY <2>1, <2>2
<1>11. CacheOk'
  BY <1>8, <1>9, <1>10 DEF CacheOk, Remembered, Due, Lasting
<1>12. AnswerOk' /\ GivenOk'
  BY <1>1, <1>2, FreshAnswer
<1>13. QED
  BY <1>1, <1>3, <1>11, <1>12, CallsStep DEF IssInv

LEMMA IssInvStep ==
  ASSUME IssInv, IssNext
  PROVE  IssInv'
<1>1. CASE IssTick
  <2>1. now \in 0 .. MaxTime /\ now' = now + 1 /\ now' \in 0 .. MaxTime
    BY <1>1, ClockAssumption DEF IssTick, Tick, IssInv
  <2>2. UNCHANGED <<cache, calls, given, answer>>
    BY <1>1 DEF IssTick, NoAnswerYet
  <2>3. ASSUME NEW k \in Route \X IdemKey, Due(now, given[k].last)
        PROVE  Due(now', given[k].last)
    <3>1. given[k].last \in Int
      BY DEF IssInv, GivenOk, Slot
    <3>2. QED
      BY <2>1, <2>3, <3>1, IssuanceAssumption DEF Due
  <2>4. Remembered'
    BY <2>2, <2>3 DEF IssInv, CacheOk, Remembered
  <2>5. CacheOk'
    BY <2>2, <2>4 DEF IssInv, CacheOk, Lasting
  <2>6. QED
    BY <2>1, <2>2, <2>5, QuietAnswer DEF IssInv, CallOk, Due, Lasting
<1>2. CASE IssRestart
  <2>1. \A k \in Slot : given'[k].last = -1
    BY <1>2 DEF IssRestart
  <2>2. GivenOk'
    BY <1>2, <2>1 DEF GivenOk, IssRestart
  <2>3. CacheOk'
    BY <1>2, <2>1 DEF CacheOk, Remembered, Due, Slot, IssRestart
  <2>4. AnswerOk'
    BY <1>2 DEF AnswerOk, IssuedAsAsked, NoReissue, LivesAsAsked, IssRestart, NoAnswer
  <2>5. QED
    BY <1>2, <2>2, <2>3, <2>4 DEF IssInv, CallOk, IssRestart
<1>3. ASSUME NEW r \in Request, NEW key \in IdemKey \cup {NoKey}, NEW ttls \in Batches,
             Lookup(r, "issue", key, ttls) \/ Lookup(r, "issue-batch", key, ttls)
      PROVE  IssInv'
  BY <1>3, LookupKeeps DEF Route
<1>4. QED
  BY <1>1, <1>2, <1>3, SignKeeps, StoreKeeps DEF IssNext

(* An idempotency key is honoured: a request that begins while the answer   *)
(* to an earlier one with its key is kept signs nothing and gets            *)
(* certificates that were signed for the key, and no certificate's lifetime *)
(* wraps around, however the two halves of concurrent requests, sweeps and  *)
(* restarts interleave.                                                     *)
THEOREM IssuedAsAskedAlways == IssSpec => []IssuedAsAsked
<1>1. IssInv /\ UNCHANGED issVars => IssInv'
  BY DEF issVars, IssInv, GivenOk, CacheOk, Remembered, Due, Lasting, CallOk, AnswerOk, IssuedAsAsked,
         NoReissue, LivesAsAsked
<1>2. IssInv /\ [IssNext]_issVars => IssInv'
  BY <1>1, IssInvStep
<1>3. IssInv => IssuedAsAsked
  BY DEF IssInv, AnswerOk
<1>4. QED
  BY IssInvInit, <1>2, <1>3, PTL DEF IssSpec

-----------------------------------------------------------------------------
(* The MCP bridge                                                          *)

(* A call that was let through has spent its certificate, and no other call *)
(* was let through with it.                                                 *)
McpGranted(c) == mcp[c].tool = "a1_authorize" /\ mcp[c].pc \in {"200", "done"}

McpInv ==
  /\ DOMAIN mcp = McpCall
  /\ \A c \in McpCall : McpGranted(c) => mcp[c].cert \in spent
  /\ \A c, d \in McpCall :
       McpGranted(c) /\ McpGranted(d) /\ mcp[c].cert = mcp[d].cert => c = d

LEMMA McpInvInit == McpInit => McpInv
<1> SUFFICES ASSUME McpInit PROVE McpInv
  OBVIOUS
<1>1. \A c \in McpCall : mcp[c].pc = "idle"
  BY DEF McpInit
<1>2. DOMAIN mcp = McpCall
  BY DEF McpInit
<1>3. QED
  BY <1>1, <1>2 DEF McpInv, McpGranted

(* A step that moves one call and lets it through only with a certificate   *)
(* that was not spent before.                                               *)
LEMMA McpStep ==
  ASSUME McpInv, NEW c \in McpCall, NEW m, mcp' = [mcp EXCEPT ![c] = m], spent \subseteq spent',
         m.tool = "a1_authorize" /\ m.pc \in {"200", "done"} =>
           \/ McpGranted(c) /\ m.cert = mcp[c].cert
           \/ m.cert \notin spent /\ m.cert \in spent'
  PROVE  McpInv'
<1>1. DOMAIN mcp' = McpCall /\ mcp'[c] = m /\ \A d \in McpCall : d # c => mcp'[d] = mcp[d]
  BY DEF McpInv
<1>2. ASSUME NEW d \in McpCall, d # c, McpGranted(d)'
      PROVE  McpGranted(d) /\ mcp'[d].cert = mcp[d].cert /\ mcp[d].cert \in spent
  BY <1>1, <1>2 DEF McpInv, McpGranted
<1>3. ASSUME McpGranted(c)'
      PROVE  \/ McpGranted(c) /\ mcp'[c].cert = mcp[c].cert /\ mcp[c].cert \in spent
             \/ mcp'[c].cert \notin spent /\ mcp'[c].cert \in spent'
  BY <1>1, <1>3 DEF McpInv, McpGranted
<1>4. ASSUME NEW d \in McpCall, McpGranted(d)'
      PROVE  mcp'[d].cert \in spent'
  BY <1>2, <1>3, <1>4
<1>5. ASSUME NEW d \in McpCall, NEW e \in McpCall, McpGranted(d)', McpGranted(e)',
             mcp'[d].cert = mcp'[e].cert
      PROVE  d = e
  <2>1. CASE d # c /\ e # c
    BY <1>2, <1>5, <2>1 DEF McpInv
  <2>2. CASE d = c /\ e # c
    BY <1>2, <1>3, <1>5, <2>2 DEF McpInv
  <2>3. CASE d # c /\ e = c
    BY <1>2, <1>3, <1>5, <2>3 DEF McpInv
  <2>4. QED
    BY <2>1, <2>2, <2>3
<1>6. QED
  BY <1>1, <1>4, <1>5 DEF McpInv

(* A call moves on to b: not to a grant, unless it had one already or the   *)
(* step spends its certificate.                                             *)
LEMMA McpMoves ==
  ASSUME McpInv, NEW c \in McpCall, NEW b, Moves(c, b), spent \subseteq spent',
         mcp[c].tool = "a1_authorize" /\ b \in {"200", "done"} =>
           McpGranted(c) \/ (mcp[c].cert \notin spent /\ mcp[c].cert \in spent')
  PROVE  McpInv'
<1> DEFINE m == [mcp[c] EXCEPT !.pc = b]
<1>1. mcp' = [mcp EXCEPT ![c] = m]
  BY DEF Moves
<1>2. m.tool = mcp[c].tool /\ m.cert = mcp[c].cert
  OBVIOUS
<1>3. m.pc \in {"200", "done"} => m.pc = b \/ m.pc = mcp[c].pc
  OBVIOUS
<1> HIDE DEF m
<1>4. QED
  BY <1>1, <1>2, <1>3, McpStep DEF McpGranted

LEMMA McpInvStep == ASSUME McpInv, McpNext PROVE McpInv'
<1>1. ASSUME NEW c \in McpCall, NEW tool \in Tool, NEW x \in McpCert, Invoke(c, tool, x)
      PROVE  McpInv'
  BY <1>1, McpStep DEF Invoke
<1>2. ASSUME NEW c \in McpCall, InvokeIncomplete(c) \/ Break(c) PROVE McpInv'
  BY <1>2, McpMoves DEF InvokeIncomplete, Break
<1>3. ASSUME NEW c \in McpCall, ServeAuthorize(c) PROVE McpInv'
  <2>1. CASE mcp[c].cert \in spent \cup withdrawn
    BY <1>3, <2>1, McpMoves DEF ServeAuthorize
  <2>2. CASE mcp[c].cert \notin spent \cup withdrawn
    BY <1>3, <2>2, McpMoves DEF ServeAuthorize
  <2>3. QED
    BY <2>1, <2>2
<1>4. ASSUME NEW c \in McpCall, ServeAdmin(c) PROVE McpInv'
  <2>1. mcp[c].tool # "a1_authorize" /\ spent' = spent
    BY <1>4 DEF ServeAdmin
  <2>2. PICK b : Moves(c, b)
    BY <1>4 DEF ServeAdmin
  <2>3. QED
    BY <2>1, <2>2, McpMoves
<1>5. ASSUME NEW c \in McpCall, Reply(c) PROVE McpInv'
  <2>1. spent' = spent /\ mcp[c].pc \in {"200", "refused"}
    BY <1>5 DEF Reply
  <2>2. CASE mcp[c].pc = "200"
    BY <1>5, <2>1, <2>2, McpMoves DEF Reply, McpGranted
  <2>3. CASE mcp[c].pc # "200"
    BY <1>5, <2>1, <2>3, McpMoves DEF Reply
  <2>4. QED
    BY <2>2, <2>3
<1>6. ASSUME NEW x \in McpCert, RevokedElsewhere(x) PROVE McpInv'
  BY <1>6 DEF RevokedElsewhere, McpInv, McpGranted
<1>7. QED
  BY <1>1, <1>2, <1>3, <1>4, <1>5, <1>6 DEF McpNext

(* However often answers are lost and calls are made again, no two calls    *)
(* are told that one certificate is authorized, and the certificate of a    *)
(* call that is told so is spent, whatever the number of calls.             *)
THEOREM ToldAuthorizedOnceAlways == McpSpec => []ToldAuthorizedOnce
<1>1. McpInv /\ UNCHANGED mcpVars => McpInv'
  BY DEF mcpVars, McpInv, McpGranted
<1>2. McpInv /\ [McpNext]_mcpVars => McpInv'
  BY <1>1, McpInvStep
<1>3. McpInv => ToldAuthorizedOnce
  <2> SUFFICES ASSUME McpInv, NEW x \in McpCert
               PROVE  /\ Cardinality(ToldAuthorized(x)) <= 1
                      /\ ToldAuthorized(x) # {} => x \in spent
    BY DEF ToldAuthorizedOnce
  <2>1. \A c \in ToldAuthorized(x) : c \in McpCall /\ McpGranted(c) /\ mcp[c].cert = x
    BY DEF ToldAuthorized, McpGranted
  <2>2. ToldAuthorized(x) # {} => x \in spent
    BY <2>1 DEF McpInv
  <2>3. CASE ToldAuthorized(x) = {}
    BY <2>2, <2>3, FS_EmptySet
  <2>4. CASE ToldAuthorized(x) # {}
    <3>1. PICK c : c \in ToldAuthorized(x)
      BY <2>4
    <3>2. ToldAuthorized(x) = {c}
      BY <2>1, <3>1 DEF McpInv
    <3>3. Cardinality({c}) = 1
      BY FS_Singleton
    <3>4. QED
      BY <2>2, <3>2, <3>3
  <2>5. QED
    BY <2>3, <2>4
<1>4. QED
  BY McpInvInit, <1>2, <1>3, PTL DEF McpSpec

-----------------------------------------------------------------------------
(* Starting at login                                                       *)

(* On Linux both pairs of routes use one entry.                             *)
AutoInv ==
  platform = "linux" =>
    /\ units \subseteq {"a1-gateway.service"}
    /\ said = "off" => units = {}

(* "A1 will no longer start automatically" holds on Linux until something   *)
(* is enabled or installed again, for any sequence of the four routes.      *)
THEOREM OffMeansOffAlways == AutoSpec => []OffMeansOff
<1>1. AutoInit => AutoInv
  BY DEF AutoInit, AutoInv
<1>2. AutoInv /\ [AutoNext]_autoVars => AutoInv'
  <2> SUFFICES ASSUME AutoInv, [AutoNext]_autoVars, platform' = "linux"
               PROVE  /\ units' \subseteq {"a1-gateway.service"}
                      /\ said' = "off" => units' = {}
    BY DEF AutoInv
  <2>1. platform = "linux" /\ units \subseteq {"a1-gateway.service"} /\ (said = "off" => units = {})
    BY DEF AutoInv, AutoNext, EnableAutostart, InstallAutostart, RemoveAutostart, Dropped, autoVars
  <2>2. EnableUnit = "a1-gateway.service" /\ InstallUnit = "a1-gateway.service"
    BY <2>1 DEF EnableUnit, InstallUnit
  <2>3. CASE EnableAutostart
    BY <2>1, <2>2, <2>3 DEF EnableAutostart
  <2>4. CASE InstallAutostart
    BY <2>1, <2>2, <2>4 DEF InstallAutostart
  <2>5. CASE RemoveAutostart
    BY <2>1, <2>2, <2>5 DEF RemoveAutostart
  <2>6. CASE Dropped
    BY <2>1, <2>6 DEF Dropped
  <2>7. CASE UNCHANGED autoVars
    BY <2>1, <2>7 DEF autoVars
  <2>8. QED
    BY <2>3, <2>4, <2>5, <2>6, <2>7 DEF AutoNext
<1>3. AutoInv => OffMeansOff
  BY DEF AutoInv, OffMeansOff, Starts
<1>4. QED
  BY <1>1, <1>2, <1>3, PTL DEF AutoSpec

-----------------------------------------------------------------------------
(* Files rewritten in place                                                *)

Active(w) == job[w].at # "idle"

(* How far a request has come says which of the two places holds the text,  *)
(* and a file that is not exposed has one request at a time.                *)
Holds(w) ==
  LET t == job[w].target
  IN t \in Target \ exposed =>
       /\ job[w].at \in {"copy", "copying"} => disk[t] # Empty
       /\ job[w].at \in {"write", "writing"} => bak[t] # Empty

FilesInv ==
  /\ DOMAIN job = Writer /\ DOMAIN disk = Target /\ DOMAIN bak = Target
  /\ \A w \in Writer : job[w].at \in {"idle", "copy", "copying", "write", "writing"}
  /\ \A w \in Writer : Active(w) => Holds(w)
  /\ \A v, w \in Writer :
       Active(v) /\ Active(w) /\ job[v].target = job[w].target /\ job[v].target \notin exposed => v = w
  /\ BackupSurvives

(* A .gitignore that is not empty has all that was reported and not lost;   *)
(* one that is empty has a request about to fill it in, or owes nothing.    *)
GitInv ==
  /\ DOMAIN adding = Writer
  /\ ignore # {} => reported \subseteq ignore
  /\ ignore = {} => reported = {} \/ \E w \in Writer : adding[w].at = "writing"
  /\ ignore = {} => \A w \in Writer : adding[w].at = "writing" => reported \subseteq adding[w].seen

LEMMA FilesInvInit == FilesInit => FilesInv
<1> SUFFICES ASSUME FilesInit PROVE FilesInv
  OBVIOUS
<1>1. \A w \in Writer : job[w].at = "idle"
  BY DEF FilesInit, FileIdle
<1>2. QED
  BY <1>1, FilesAssumption DEF FilesInit, FilesInv, Active, BackupSurvives

(* One request moves on: the texts of its own file may change, and it does  *)
(* not lose both.                                                           *)
LEMMA JobStep ==
  ASSUME FilesInv, NEW w \in Writer, Active(w), NEW a, Advance(w, a),
         a \in {"idle", "copying", "write", "writing"},
         DOMAIN disk' = Target, DOMAIN bak' = Target,
         \A s \in Target : s # job[w].target => disk'[s] = disk[s] /\ bak'[s] = bak[s],
         job[w].target \in Target \ exposed =>
           LET t == job[w].target
           IN /\ disk'[t] # Empty \/ bak'[t] # Empty
              /\ a \in {"copy", "copying"} => disk'[t] # Empty
              /\ a \in {"write", "writing"} => bak'[t] # Empty,
         UNCHANGED <<writes, exposed, gitVars>>
  PROVE  FilesInv'
<1> DEFINE t == job[w].target
           j == IF a = "idle" THEN FileIdle ELSE [job[w] EXCEPT !.at = a]
<1>1. job' = [job EXCEPT ![w] = j]
  BY DEF Advance
<1>2. j.at = a /\ (a # "idle" => j.target = t)
  BY DEF FileIdle
<1> HIDE DEF j
<1>3. /\ DOMAIN job' = Writer /\ job'[w] = j
      /\ \A v \in Writer : v # w => job'[v] = job[v]
  BY <1>1 DEF FilesInv
<1>5. ASSUME NEW v \in Writer, job'[v].at # "idle"
      PROVE  Active(v) /\ job'[v].target = job[v].target
  BY <1>2, <1>3, <1>5 DEF Active
<1>6. ASSUME NEW u \in Writer, NEW v \in Writer, job'[u].at # "idle", job'[v].at # "idle",
             job'[u].target = job'[v].target, job'[u].target \notin exposed
      PROVE  u = v
  BY <1>5, <1>6 DEF FilesInv
<1>7. ASSUME NEW v \in Writer, job'[v].at # "idle" PROVE Holds(v)'
  <2> DEFINE s == job'[v].target
  <2> SUFFICES ASSUME s \in Target \ exposed
               PROVE  /\ job'[v].at \in {"copy", "copying"} => disk'[s] # Empty
                      /\ job'[v].at \in {"write", "writing"} => bak'[s] # Empty
    BY DEF Holds
  <2>1. CASE v = w
    <3>1. s = t /\ job'[v].at = a
      BY <1>2, <1>3, <1>7, <2>1
    <3>2. QED
      BY <3>1
  <2>2. CASE v # w
    <3>1. job'[v] = job[v] /\ Active(v) /\ s = job[v].target
      BY <1>3, <1>5, <1>7, <2>2
    <3>2. s # t
      BY <2>2, <3>1 DEF FilesInv
    <3>3. Holds(v)
      BY <3>1 DEF FilesInv
    <3>4. QED
      BY <3>1, <3>2, <3>3 DEF Holds
  <2>3. QED
    BY <2>1, <2>2
<1>8. ASSUME NEW s \in Target \ exposed PROVE disk'[s] # Empty \/ bak'[s] # Empty
  BY DEF FilesInv, BackupSurvives
<1>9. \A v \in Writer : job'[v].at \in {"idle", "copy", "copying", "write", "writing"}
  BY <1>2, <1>3 DEF FilesInv
<1>10. exposed' = exposed
  OBVIOUS
<1>11. BackupSurvives'
  BY <1>8, <1>10 DEF BackupSurvives
<1>12. (\A v \in Writer : Active(v) => Holds(v))'
  BY <1>7 DEF Active
<1>13. QED
  BY <1>3, <1>6, <1>9, <1>10, <1>11, <1>12 DEF FilesInv, Active

LEMMA StartWriteKeeps ==
  ASSUME FilesInv, NEW w \in Writer, NEW n, NEW c, NEW backup \in BOOLEAN, StartWrite(w, n, c, backup)
  PROVE  FilesInv'
<1> DEFINE t == Resolves(n)
           j == [at |-> IF backup THEN "copy" ELSE "write", target |-> t, content |-> c]
<1>1. /\ job' = [job EXCEPT ![w] = j] /\ UNCHANGED <<disk, bak>>
      /\ job[w].at = "idle"
  BY DEF StartWrite
<1>2. j.target = t /\ j.at \in {"copy", "write"} /\ (j.at = "write" => ~ backup)
  OBVIOUS
<1>3. exposed \subseteq exposed' /\ exposed' \subseteq exposed \cup {t}
  BY DEF StartWrite
<1>4. t \notin exposed' => backup /\ ~ Busy(t) /\ disk[t] # Empty
  BY DEF StartWrite
<1> HIDE DEF j, t
<1>5. /\ DOMAIN job' = Writer /\ job'[w] = j
      /\ \A v \in Writer : v # w => job'[v] = job[v]
  BY <1>1 DEF FilesInv
<1>6. ASSUME NEW v \in Writer, v # w, Active(v), job[v].target \notin exposed'
      PROVE  job[v].target # t
  BY <1>4, <1>6 DEF Busy, Active
<1>7. ASSUME NEW u \in Writer, NEW v \in Writer, job'[u].at # "idle", job'[v].at # "idle",
             job'[u].target = job'[v].target, job'[u].target \notin exposed'
      PROVE  u = v
  <2>1. CASE u = w /\ v # w
    BY <1>2, <1>5, <1>6, <1>7, <2>1 DEF Active
  <2>2. CASE u # w /\ v = w
    BY <1>2, <1>5, <1>6, <1>7, <2>2 DEF Active
  <2>3. CASE u # w /\ v # w
    BY <1>3, <1>5, <1>7, <2>3 DEF FilesInv, Active
  <2>4. QED
    BY <2>1, <2>2, <2>3
<1>8. ASSUME NEW v \in Writer, job'[v].at # "idle" PROVE Holds(v)'
  <2>1. CASE v = w
    BY <1>1, <1>2, <1>4, <1>5, <2>1 DEF Holds
  <2>2. CASE v # w
    <3>1. job'[v] = job[v] /\ Active(v) /\ Holds(v)
      BY <1>5, <1>8, <2>2 DEF FilesInv, Active
    <3>2. QED
      BY <1>1, <1>3, <3>1 DEF Holds
  <2>3. QED
    BY <2>1, <2>2
<1>9. (\A v \in Writer : Active(v) => Holds(v))'
  BY <1>8 DEF Active
<1>10. BackupSurvives'
  BY <1>1, <1>3 DEF FilesInv, BackupSurvives
<1>11. \A v \in Writer : job'[v].at \in {"idle", "copy", "copying", "write", "writing"}
  BY <1>2, <1>5 DEF FilesInv
<1>12. QED
  BY <1>1, <1>5, <1>7, <1>9, <1>10, <1>11 DEF FilesInv, Active

LEMMA FilesInvStep == ASSUME FilesInv, FilesNext \/ GitNext PROVE FilesInv'
<1>1. ASSUME NEW w \in Writer, CopyOpen(w) \/ CopyFill(w) \/ WriteOpen(w) \/ WriteFill(w)
      PROVE  FilesInv'
  <2> DEFINE t == job[w].target
  <2>1. Active(w) /\ Holds(w)
    BY <1>1 DEF Active, FilesInv, CopyOpen, CopyFill, WriteOpen, WriteFill
  <2>2. UNCHANGED <<writes, exposed, gitVars>>
    BY <1>1 DEF CopyOpen, CopyFill, WriteOpen, WriteFill
  <2>3. ASSUME NEW f, DOMAIN f = Target, NEW x
        PROVE  /\ DOMAIN [f EXCEPT ![t] = x] = Target
               /\ \A s \in Target : s # t => [f EXCEPT ![t] = x][s] = f[s]
               /\ t \in Target => [f EXCEPT ![t] = x][t] = x
    BY <2>3
  <2>10. DOMAIN disk = Target /\ DOMAIN bak = Target
    BY DEF FilesInv
  <2>4. t \in Target \ exposed => disk[t] # Empty \/ bak[t] # Empty
    BY DEF FilesInv, BackupSurvives
  <2>5. CASE CopyOpen(w)
    <3>1. job[w].at = "copy" /\ disk' = disk
      BY <2>5 DEF CopyOpen
    <3>2. CASE bak' = [bak EXCEPT ![t] = Empty] /\ Advance(w, "copying")
      BY <2>1, <2>2, <2>3, <2>10, <3>1, <3>2, JobStep DEF Holds
    <3>3. CASE Advance(w, "idle") /\ bak' = bak
      BY <2>1, <2>2, <2>3, <2>10, <2>4, <3>1, <3>3, JobStep
    <3>4. QED
      BY <2>5, <3>2, <3>3 DEF CopyOpen
  <2>6. CASE CopyFill(w)
    <3>1. job[w].at = "copying" /\ disk' = disk
      BY <2>6 DEF CopyFill
    <3>2. CASE bak' = [bak EXCEPT ![t] = disk[t]] /\ Advance(w, "write")
      BY <2>1, <2>2, <2>3, <2>10, <3>1, <3>2, JobStep DEF Holds
    <3>3. CASE Advance(w, "idle") /\ bak' = bak
      BY <2>1, <2>2, <2>3, <2>10, <2>4, <3>1, <3>3, JobStep
    <3>4. QED
      BY <2>6, <3>2, <3>3 DEF CopyFill
  <2>7. CASE WriteOpen(w)
    <3>1. job[w].at = "write" /\ bak' = bak
      BY <2>7 DEF WriteOpen
    <3>2. CASE disk' = [disk EXCEPT ![t] = Empty] /\ Advance(w, "writing")
      BY <2>1, <2>2, <2>3, <2>10, <3>1, <3>2, JobStep DEF Holds
    <3>3. CASE Advance(w, "idle") /\ disk' = disk
      BY <2>1, <2>2, <2>3, <2>10, <2>4, <3>1, <3>3, JobStep
    <3>4. QED
      BY <2>7, <3>2, <3>3 DEF WriteOpen
  <2>8. CASE WriteFill(w)
    <3>1. job[w].at = "writing" /\ bak' = bak /\ Advance(w, "idle")
      BY <2>8 DEF WriteFill
    <3>2. t \in Target \ exposed => bak[t] # Empty
      BY <2>1, <3>1 DEF Holds
    <3>3. CASE disk' = [disk EXCEPT ![t] = job[w].content]
      BY <2>1, <2>2, <2>3, <2>10, <3>1, <3>2, <3>3, JobStep
    <3>4. CASE disk' = disk
      BY <2>1, <2>2, <2>3, <2>10, <3>1, <3>2, <3>4, JobStep
    <3>5. QED
      BY <2>8, <3>3, <3>4 DEF WriteFill
  <2>9. QED
    BY <1>1, <2>5, <2>6, <2>7, <2>8
<1>2. ASSUME UNCHANGED fileOnly PROVE FilesInv'
  BY <1>2 DEF FilesInv, fileOnly, Active, Holds, BackupSurvives
<1>3. CASE Crash
  <2>1. \A w \in Writer : job'[w].at = "idle"
    BY <1>3 DEF Crash, FileIdle
  <2>2. DOMAIN job' = Writer /\ UNCHANGED <<disk, bak, exposed>>
    BY <1>3 DEF Crash
  <2>3. QED
    BY <2>1, <2>2 DEF FilesInv, Active, BackupSurvives
<1>4. GitNext => Crash \/ UNCHANGED fileOnly
  BY DEF GitNext, GitignoreRead, GitignoreOpen, GitignoreFill, GitignoreFails
<1>5. QED
  BY <1>1, <1>2, <1>3, <1>4, StartWriteKeeps DEF FilesNext

LEMMA GitInvInit == FilesInit => GitInv
BY DEF FilesInit, GitInv, FileIdle

LEMMA GitInvStep == ASSUME GitInv, FilesNext \/ GitNext PROVE GitInv'
<1>0. FileIdle.at = "idle"
  BY DEF FileIdle
<1>1. ASSUME UNCHANGED gitVars PROVE GitInv'
  BY <1>1 DEF GitInv, gitVars
<1>2. ASSUME NEW w \in Writer, NEW p \in Pattern, GitignoreRead(w, p) PROVE GitInv'
  <2>1. PICK seen \in {ignore, {}} :
          \/ p \in seen /\ reported' = reported \cup {p} /\ adding' = adding
          \/ /\ adding' = [adding EXCEPT ![w] = [at |-> "write", seen |-> seen, pattern |-> p]]
             /\ reported' = reported
    BY <1>2 DEF GitignoreRead
  <2>2. ignore' = ignore /\ adding[w].at = "idle"
    BY <1>2 DEF GitignoreRead
  <2>3. CASE p \in seen /\ reported' = reported \cup {p} /\ adding' = adding
    BY <2>1, <2>2, <2>3 DEF GitInv
  <2>4. ASSUME adding' = [adding EXCEPT ![w] = [at |-> "write", seen |-> seen, pattern |-> p]],
               reported' = reported
        PROVE  GitInv'
    <3>1. /\ DOMAIN adding' = Writer /\ adding'[w].at = "write"
          /\ \A v \in Writer : v # w => adding'[v] = adding[v]
      BY <2>4 DEF GitInv
    <3>2. QED
      BY <2>2, <2>4, <3>1 DEF GitInv
  <2>5. QED
    BY <2>1, <2>3, <2>4
<1>3. ASSUME NEW w \in Writer, GitignoreOpen(w) PROVE GitInv'
  <2>1. /\ adding' = [adding EXCEPT ![w].at = "writing"] /\ ignore' = {} /\ adding[w].at = "write"
        /\ reported' = IF \E v \in Writer : adding[v].at = "writing" THEN {}
                       ELSE reported \cap adding[w].seen
    BY <1>3 DEF GitignoreOpen
  <2>2. /\ DOMAIN adding' = Writer /\ adding'[w].at = "writing" /\ adding'[w].seen = adding[w].seen
        /\ \A v \in Writer : v # w => adding'[v] = adding[v]
    BY <2>1 DEF GitInv
  <2>3. ASSUME NEW v \in Writer, adding'[v].at = "writing" PROVE reported' \subseteq adding'[v].seen
    <3>1. CASE v = w
      BY <2>1, <2>2, <3>1
    <3>2. CASE v # w
      BY <2>1, <2>2, <2>3, <3>2
    <3>3. QED
      BY <3>1, <3>2
  <2>4. QED
    BY <2>1, <2>2, <2>3 DEF GitInv
<1>4. ASSUME NEW w \in Writer, GitignoreFill(w) PROVE GitInv'
  <2>1. /\ adding[w].at = "writing" /\ adding' = [adding EXCEPT ![w] = FileIdle]
        /\ reported' = {adding[w].pattern} \cup
             (IF ignore = {} THEN reported ELSE reported \cap adding[w].seen)
    BY <1>4 DEF GitignoreFill
  <2>2. adding[w].seen \cup {adding[w].pattern} \subseteq ignore'
    BY <1>4 DEF GitignoreFill, AddingText, Appended
  <2>3. reported' \subseteq adding[w].seen \cup {adding[w].pattern}
    BY <2>1 DEF GitInv
  <2>4. DOMAIN adding' = Writer
    BY <2>1 DEF GitInv
  <2>5. QED
    BY <2>2, <2>3, <2>4 DEF GitInv
<1>5. ASSUME NEW w \in Writer, GitignoreFails(w) PROVE GitInv'
  <2>1. /\ adding' = [adding EXCEPT ![w] = FileIdle]
        /\ (adding[w].at = "write" /\ ignore' = ignore /\ reported' = reported) \/ reported' = {}
    BY <1>5 DEF GitignoreFails
  <2>2. /\ DOMAIN adding' = Writer /\ adding'[w].at = "idle"
        /\ \A v \in Writer : v # w => adding'[v] = adding[v]
    BY <1>0, <2>1 DEF GitInv
  <2>3. QED
    BY <2>1, <2>2 DEF GitInv
<1>6. CASE Crash
  <2>1. /\ DOMAIN adding' = Writer /\ \A v \in Writer : adding'[v].at = "idle"
        /\ ignore' = ignore
        /\ reported' = IF \E w \in Writer : adding[w].at = "writing" THEN {} ELSE reported
    BY <1>0, <1>6 DEF Crash
  <2>2. QED
    BY <2>1 DEF GitInv
<1>7. FilesNext => Crash \/ UNCHANGED gitVars
  BY DEF FilesNext, StartWrite, CopyOpen, CopyFill, WriteOpen, WriteFill
<1>8. QED
  BY <1>1, <1>2, <1>3, <1>4, <1>5, <1>6, <1>7 DEF GitNext

(* No file that the gateway rewrites with a backup, one request at a time,  *)
(* is empty in both places, wherever the gateway or the disk stops; and a   *)
(* pattern that was reported leaves the .gitignore only by a stale or       *)
(* unread text, by a write that breaks off, or by two at a time; for any    *)
(* number of requests, files and patterns.                                  *)
THEOREM TextsKeptAlways == FilesSpec => []TextsKept
<1>1. FilesInv /\ GitInv /\ UNCHANGED filesVars => FilesInv' /\ GitInv'
  BY DEF filesVars, gitVars, FilesInv, Active, Holds, BackupSurvives, GitInv
<1>2. FilesInv /\ GitInv /\ [FilesNext \/ GitNext]_filesVars => FilesInv' /\ GitInv'
  BY <1>1, FilesInvStep, GitInvStep
<1>3. FilesInv /\ GitInv => TextsKept
  BY DEF FilesInv, GitInv, TextsKept, PatternsKept
<1>4. QED
  BY FilesInvInit, GitInvInit, <1>2, <1>3, PTL DEF FilesSpec

-----------------------------------------------------------------------------
(* Looking for agents                                                      *)

(* What the rows and the extra ports asked so far have added to the answer. *)
ProbeFaithful ==
  /\ \A i \in 1 .. row - 1 :
       Passes(AGENT_PROBES[i]) /\ since[AGENT_PROBES[i].port] = "healthy"
         => \E k \in DOMAIN found : found[k] = AGENT_PROBES[i]
  /\ \A i \in 1 .. at - 1 :
       since[extra[i]] \in {"healthy", "failing"} => \E k \in DOMAIN found : found[k].port = extra[i]
  /\ \A k \in DOMAIN found : since[found[k].port] # "none"

(* As long as there are rows to ask, what was found are rows before them.   *)
ProbeInv ==
  /\ ProbeTypeOK
  /\ row <= Len(AGENT_PROBES) =>
       \A k \in DOMAIN found : \E i \in 1 .. row - 1 : found[k] = AGENT_PROBES[i]
  /\ ListedOnce
  /\ ProbeFaithful

LEMMA Ports ==
  /\ \A i \in 1 .. Len(AGENT_PROBES) :
       /\ AGENT_PROBES[i] \in [agent : Listable, port : PortOf]
       /\ AGENT_PROBES[i] = [agent |-> AGENT_PROBES[i].agent, port |-> AGENT_PROBES[i].port]
  /\ \A e \in ExtraPorts : e \in Seq(Nat) /\ \A i \in 1 .. Len(e) : e[i] \in PortOf
<1>1. ASSUME NEW i \in 1 .. Len(AGENT_PROBES)
      PROVE  /\ AGENT_PROBES[i] \in [agent : Listable, port : PortOf]
             /\ AGENT_PROBES[i] = [agent |-> AGENT_PROBES[i].agent, port |-> AGENT_PROBES[i].port]
  <2>1. i \in DOMAIN AGENT_PROBES /\ AGENT_PROBES[i] \in [agent : STRING, port : Nat]
    BY ProbeAssumption, SeqElement
  <2>2. AGENT_PROBES[i].port \in PortOf /\ AGENT_PROBES[i].agent \in Listable
    BY <2>1 DEF PortOf, AgentOf, Listable
  <2>3. QED
    BY <2>1, <2>2
<1>2. ASSUME NEW e \in ExtraPorts
      PROVE  e \in Seq(Nat) /\ \A i \in 1 .. Len(e) : e[i] \in PortOf
  <2>1. e \in Seq(Nat)
    BY ProbeAssumption
  <2>2. ASSUME NEW i \in 1 .. Len(e) PROVE e[i] \in ToSet(e)
    BY <2>1 DEF ToSet
  <2>3. ToSet(e) \subseteq PortOf
    BY DEF PortOf
  <2>4. QED
    BY <2>1, <2>2, <2>3
<1>3. QED
  BY <1>1, <1>2

(* One entry more at the end of the answer.                                 *)
LEMMA ListMore ==
  ASSUME ProbeInv, NEW a \in Listable, NEW p \in PortOf, found' = Found(a, p), since' = since,
         since[p] # "none",
         \A k \in DOMAIN found : found[k].port = p => a # "custom" /\ found[k].agent # a
  PROVE  /\ found' \in Seq([agent : Listable, port : PortOf])
         /\ ListedOnce'
         /\ DOMAIN found' = DOMAIN found \cup {Len(found) + 1}
         /\ \A k \in DOMAIN found : found'[k] = found[k]
         /\ found'[Len(found) + 1] = [agent |-> a, port |-> p]
         /\ \A k \in DOMAIN found' : since'[found'[k].port] # "none"
<1> DEFINE e == [agent |-> a, port |-> p]
           n == Len(found)
<1>1. e \in [agent : Listable, port : PortOf] /\ e.agent = a /\ e.port = p
  OBVIOUS
<1>2. found \in Seq([agent : Listable, port : PortOf]) /\ found' = Append(found, e)
  BY DEF ProbeInv, ProbeTypeOK, Found
<1> HIDE DEF e
<1>3. /\ found' \in Seq([agent : Listable, port : PortOf])
      /\ DOMAIN found' = 1 .. n + 1 /\ DOMAIN found = 1 .. n /\ n \in Nat
      /\ \A k \in 1 .. n : found'[k] = found[k]
      /\ found'[n + 1] = e
  BY <1>1, <1>2
<1>4. \A k \in 1 .. n : found'[k].port = p => a # "custom" /\ found'[k] # e
  BY <1>1, <1>3
<1>5. ASSUME NEW i \in 1 .. n + 1, NEW j \in 1 .. n + 1
      PROVE  /\ found'[i] = found'[j] => i = j
             /\ i < j /\ found'[i].port = found'[j].port => found'[j].agent # "custom"
  <2>1. CASE i \in 1 .. n /\ j \in 1 .. n
    BY <1>3, <2>1 DEF ProbeInv, ListedOnce
  <2>2. CASE i = n + 1 /\ j \in 1 .. n
    BY <1>1, <1>3, <1>4, <2>2
  <2>3. CASE i \in 1 .. n /\ j = n + 1
    BY <1>1, <1>3, <1>4, <2>3
  <2>4. CASE i = n + 1 /\ j = n + 1
    BY <1>3, <2>4
  <2>5. QED
    BY <1>3, <2>1, <2>2, <2>3, <2>4
<1>6. ListedOnce'
  BY <1>3, <1>5 DEF ListedOnce
<1>7. ASSUME NEW k \in 1 .. n + 1 PROVE since[found'[k].port] # "none"
  <2>1. CASE k = n + 1
    <3>1. found'[k].port = p
      BY <1>1, <1>3, <2>1
    <3>2. QED
      BY <3>1
  <2>2. CASE k \in 1 .. n
    <3>1. k \in DOMAIN found /\ found'[k] = found[k]
      BY <1>3, <2>2
    <3>2. QED
      BY <3>1 DEF ProbeInv, ProbeFaithful
  <2>3. QED
    BY <1>3, <2>1, <2>2
<1>8. QED
  BY <1>3, <1>6, <1>7 DEF e

LEMMA ProbeInvInit == ProbeInit => ProbeInv
<1> SUFFICES ASSUME ProbeInit PROVE ProbeInv
  OBVIOUS
<1>1. Len(AGENT_PROBES) \in Nat /\ Len(extra) \in Nat
  BY ProbeAssumption DEF ProbeInit
<1>2. found = << >> /\ DOMAIN found = {} /\ row = 1 /\ at = 1
  BY DEF ProbeInit
<1>3. ProbeTypeOK
  BY <1>1, <1>2 DEF ProbeInit, ProbeTypeOK
<1>4. QED
  BY <1>2, <1>3 DEF ProbeInv, ListedOnce, ProbeFaithful

LEMMA ProbeInvQuiet == ProbeInv /\ UNCHANGED probeVars => ProbeInv'
  BY DEF probeVars, ProbeInv, ProbeTypeOK, ListedOnce, ProbeFaithful, Passes

LEMMA ProbeInvStep == ASSUME ProbeInv, ProbeNext PROVE ProbeInv'
<1>0. /\ Len(AGENT_PROBES) \in Nat /\ Len(extra) \in Nat /\ row \in Nat /\ at \in Nat
      /\ found \in Seq([agent : Listable, port : PortOf]) /\ extra \in ExtraPorts
  BY ProbeAssumption DEF ProbeInv, ProbeTypeOK
<1>1. ASSUME NEW p \in PortOf, NEW s \in {"none", "healthy", "failing"}, Change(p, s)
      PROVE  ProbeInv'
  <2>1. UNCHANGED <<filter, extra, row, at, found>>
    BY <1>1 DEF Change
  <2>2. /\ DOMAIN serving' = PortOf /\ DOMAIN since' = PortOf /\ since'[p] = "changed"
        /\ \A q \in PortOf : q # p => serving'[q] = serving[q] /\ since'[q] = since[q]
    BY <1>1 DEF Change, ProbeInv, ProbeTypeOK
  <2>3. ProbeTypeOK'
    BY <2>1, <2>2 DEF ProbeInv, ProbeTypeOK
  <2>4. \A q \in PortOf : since'[q] = since[q] \/ since'[q] = "changed"
    BY <2>2
  <2>5. ASSUME NEW i \in 1 .. row - 1, since'[AGENT_PROBES[i].port] = "healthy", Passes(AGENT_PROBES[i])'
        PROVE  \E k \in DOMAIN found : found[k] = AGENT_PROBES[i]
    <3>1. AGENT_PROBES[i].port \in PortOf
      <4>1. i \in 1 .. Len(AGENT_PROBES)
        BY <1>0 DEF ProbeInv, ProbeTypeOK
      <4>2. AGENT_PROBES[i] \in [agent : Listable, port : PortOf]
        BY <4>1, Ports
      <4>3. QED
        BY <4>2
    <3>2. Passes(AGENT_PROBES[i])
      BY <2>1, <2>5 DEF Passes
    <3>3. QED
      BY <2>4, <2>5, <3>1, <3>2 DEF ProbeInv, ProbeFaithful
  <2>6. ASSUME NEW i \in 1 .. at - 1, since'[extra[i]] \in {"healthy", "failing"}
        PROVE  \E k \in DOMAIN found : found[k].port = extra[i]
    <3>1. extra[i] \in PortOf
      BY <1>0, Ports DEF ProbeInv, ProbeTypeOK
    <3>2. QED
      BY <2>4, <2>6, <3>1 DEF ProbeInv, ProbeFaithful
  <2>7. ASSUME NEW k \in DOMAIN found PROVE since'[found[k].port] # "none"
    <3>1. found[k] \in [agent : Listable, port : PortOf]
      BY <1>0, SeqElement
    <3>2. QED
      BY <2>4, <3>1 DEF ProbeInv, ProbeFaithful
  <2>8. ProbeFaithful'
    BY <2>1, <2>5, <2>6, <2>7 DEF ProbeFaithful
  <2>9. QED
    BY <2>1, <2>3, <2>8 DEF ProbeInv, ListedOnce
<1>2. CASE ProbeRow
  <2> DEFINE r == AGENT_PROBES[row]
  <2>1. row \in 1 .. Len(AGENT_PROBES) /\ row' = row + 1 /\ UNCHANGED <<serving, since, filter, extra, at>>
    BY <1>0, <1>2 DEF ProbeRow, ProbeInv, ProbeTypeOK
  <2>2. r.port \in PortOf /\ r.agent \in Listable /\ r = [agent |-> r.agent, port |-> r.port]
    BY <2>1, Ports
  <2>3. ASSUME NEW k \in DOMAIN found, found[k].port = r.port PROVE r.agent # "custom"
    <3>1. PICK i \in 1 .. row - 1 : found[k] = AGENT_PROBES[i]
      BY <1>0, <2>1 DEF ProbeInv
    <3>2. i \in DOMAIN AGENT_PROBES /\ row \in DOMAIN AGENT_PROBES /\ i < row
      BY <1>0, <2>1, ProbeAssumption
    <3>3. QED
      BY <2>3, <3>1, <3>2, ProbeAssumption
  <2>4. CASE Passes(r) /\ serving[r.port] = "healthy" /\ ~ Listed(r.agent, r.port)
    <3>1. found' = Found(r.agent, r.port)
      BY <1>2, <2>4 DEF ProbeRow
    <3>2. since[r.port] # "none"
      BY <2>2, <2>4 DEF ProbeInv, ProbeTypeOK
    <3>3. ASSUME NEW k \in DOMAIN found, found[k].port = r.port PROVE found[k].agent # r.agent
      BY <2>4, <3>3 DEF Listed, ToSet
    <3>10. \A k \in DOMAIN found : found[k].port = r.port => r.agent # "custom" /\ found[k].agent # r.agent
      BY <2>3, <3>3
    <3> HIDE DEF r
    <3>4. /\ found' \in Seq([agent : Listable, port : PortOf])
          /\ ListedOnce'
          /\ DOMAIN found' = DOMAIN found \cup {Len(found) + 1}
          /\ \A k \in DOMAIN found : found'[k] = found[k]
          /\ found'[Len(found) + 1] = [agent |-> r.agent, port |-> r.port]
          /\ \A k \in DOMAIN found' : since'[found'[k].port] # "none"
      <4>1. since' = since /\ r.port \in PortOf /\ r.agent \in Listable
        BY <2>1, <2>2
      <4>2. QED
        BY <3>1, <3>2, <3>10, <4>1, ListMore, Zenon
    <3>11. found'[Len(found) + 1] = r
      BY <2>2, <3>4
    <3>5. ProbeTypeOK'
      BY <1>0, <2>1, <3>4 DEF ProbeInv, ProbeTypeOK
    <3>6. \A k \in DOMAIN found' : \E i \in 1 .. row : found'[k] = AGENT_PROBES[i]
      BY <1>0, <2>1, <3>4, <3>11 DEF ProbeInv, r
    <3>7. ASSUME NEW i \in 1 .. row, Passes(AGENT_PROBES[i]), since[AGENT_PROBES[i].port] = "healthy"
          PROVE  \E k \in DOMAIN found' : found'[k] = AGENT_PROBES[i]
      <4>1. CASE i = row
        BY <3>4, <3>11, <4>1 DEF r
      <4>2. CASE i # row
        BY <1>0, <3>4, <3>7, <4>2 DEF ProbeInv, ProbeFaithful
      <4>3. QED
        BY <4>1, <4>2
    <3>8. ProbeFaithful'
      BY <1>0, <2>1, <3>4, <3>7 DEF ProbeFaithful, ProbeInv, Passes
    <3>9. QED
      BY <1>0, <2>1, <3>4, <3>5, <3>6, <3>8 DEF ProbeInv
  <2>5. CASE ~ (Passes(r) /\ serving[r.port] = "healthy" /\ ~ Listed(r.agent, r.port))
    <3>1. found' = found
      BY <1>2, <2>5 DEF ProbeRow
    <3>2. ASSUME Passes(r), since[r.port] = "healthy"
          PROVE  \E k \in DOMAIN found : found[k] = r
      <4>1. serving[r.port] = "healthy"
        BY <2>2, <3>2 DEF ProbeInv, ProbeTypeOK
      <4>2. PICK k \in DOMAIN found : found[k].agent = r.agent /\ found[k].port = r.port
        BY <2>5, <3>2, <4>1 DEF Listed, ToSet
      <4>3. found[k] \in [agent : Listable, port : PortOf]
        BY <1>0, SeqElement
      <4>4. found[k] = r
        BY <2>2, <4>2, <4>3
      <4>5. QED
        BY <4>4
    <3>3. ProbeTypeOK'
      BY <1>0, <2>1, <3>1 DEF ProbeInv, ProbeTypeOK
    <3>4. ProbeFaithful'
      <4>1. ASSUME NEW i \in 1 .. row, Passes(AGENT_PROBES[i]), since[AGENT_PROBES[i].port] = "healthy"
            PROVE  \E k \in DOMAIN found : found[k] = AGENT_PROBES[i]
        <5>1. CASE i = row
          BY <3>2, <4>1, <5>1
        <5>2. CASE i # row
          BY <1>0, <4>1, <5>2 DEF ProbeInv, ProbeFaithful
        <5>3. QED
          BY <5>1, <5>2
      <4>2. QED
        BY <1>0, <2>1, <3>1, <4>1 DEF ProbeFaithful, ProbeInv, Passes
    <3>5. QED
      BY <1>0, <2>1, <3>1, <3>3, <3>4 DEF ProbeInv, ListedOnce
  <2>6. QED
    BY <2>4, <2>5
<1>3. CASE ProbeExtra
  <2> DEFINE p == extra[at]
  <2>1. /\ ~ (row <= Len(AGENT_PROBES)) /\ at \in 1 .. Len(extra) /\ at' = at + 1
        /\ UNCHANGED <<serving, since, filter, extra, row>>
    BY <1>0, <1>3 DEF ProbeExtra, ProbeInv, ProbeTypeOK
  <2>2. p \in PortOf
    BY <1>0, <2>1, Ports
  <2>3. CASE serving[p] # "none" /\ ~ \E e \in ToSet(found) : e.port = p
    <3>1. found' = Found("custom", p)
      BY <1>3, <2>3 DEF ProbeExtra
    <3>2. since[p] # "none"
      BY <2>2, <2>3 DEF ProbeInv, ProbeTypeOK
    <3>3. \A k \in DOMAIN found : found[k].port # p
      BY <2>3 DEF ToSet
    <3>9. "custom" \in Listable /\ since' = since
      BY <2>1 DEF Listable
    <3> HIDE DEF p
    <3>4. /\ found' \in Seq([agent : Listable, port : PortOf])
          /\ ListedOnce'
          /\ DOMAIN found' = DOMAIN found \cup {Len(found) + 1}
          /\ \A k \in DOMAIN found : found'[k] = found[k]
          /\ found'[Len(found) + 1] = [agent |-> "custom", port |-> p]
          /\ \A k \in DOMAIN found' : since'[found'[k].port] # "none"
      <4>1. \A k \in DOMAIN found : found[k].port = p => "custom" # "custom" /\ found[k].agent # "custom"
        BY <3>3
      <4>2. QED
        BY <2>2, <3>1, <3>2, <3>9, <4>1, ListMore, Zenon
    <3>5. ProbeTypeOK'
      BY <1>0, <2>1, <3>4 DEF ProbeInv, ProbeTypeOK
    <3>6. ASSUME NEW i \in 1 .. at, since[extra[i]] \in {"healthy", "failing"}
          PROVE  \E k \in DOMAIN found' : found'[k].port = extra[i]
      <4>1. CASE i = at
        BY <3>4, <4>1 DEF p
      <4>2. CASE i # at
        BY <1>0, <3>4, <3>6, <4>2 DEF ProbeInv, ProbeFaithful
      <4>3. QED
        BY <4>1, <4>2
    <3>7. ProbeFaithful'
      BY <1>0, <2>1, <3>4, <3>6 DEF ProbeFaithful, ProbeInv, Passes
    <3>8. QED
      BY <2>1, <3>4, <3>5, <3>7 DEF ProbeInv
  <2>4. CASE ~ (serving[p] # "none" /\ ~ \E e \in ToSet(found) : e.port = p)
    <3>1. found' = found
      BY <1>3, <2>4 DEF ProbeExtra
    <3>2. ASSUME since[p] \in {"healthy", "failing"}
          PROVE  \E k \in DOMAIN found : found[k].port = p
      <4>1. serving[p] # "none"
        BY <2>2, <3>2 DEF ProbeInv, ProbeTypeOK
      <4>2. QED
        BY <2>4, <4>1 DEF ToSet
    <3>3. ProbeTypeOK'
      BY <1>0, <2>1, <3>1 DEF ProbeInv, ProbeTypeOK
    <3>4. ASSUME NEW i \in 1 .. at, since[extra[i]] \in {"healthy", "failing"}
          PROVE  \E k \in DOMAIN found : found[k].port = extra[i]
      BY <1>0, <3>2, <3>4 DEF ProbeInv, ProbeFaithful
    <3>5. ProbeFaithful'
      BY <1>0, <2>1, <3>1, <3>4 DEF ProbeFaithful, ProbeInv, Passes
    <3>6. QED
      BY <2>1, <3>1, <3>3, <3>5 DEF ProbeInv, ListedOnce
  <2>5. QED
    BY <2>3, <2>4
<1>4. QED
  BY <1>1, <1>2, <1>3 DEF ProbeNext

(* A scan lists nothing twice, no custom agent at a port where a row found  *)
(* one, every agent that answered throughout, and none where nothing ever   *)
(* answered, for any table of probes and any agents that start and stop     *)
(* meanwhile.                                                               *)
THEOREM ScanExactAlways == ProbeSpec => []ScanExact
<1>1. ProbeInv /\ UNCHANGED probeVars => ProbeInv'
  BY ProbeInvQuiet
<1>2. ProbeInv /\ [ProbeNext]_probeVars => ProbeInv'
  BY <1>1, ProbeInvStep
<1>3. ProbeInv => ScanExact
  <2> SUFFICES ASSUME ProbeInv, ProbeDone PROVE ProbeComplete
    BY DEF ScanExact, ProbeInv, ProbeComplete
  <2>1. /\ Len(AGENT_PROBES) \in Nat /\ DOMAIN AGENT_PROBES = 1 .. Len(AGENT_PROBES)
        /\ Len(extra) \in Nat /\ DOMAIN extra = 1 .. Len(extra)
    BY ProbeAssumption DEF ProbeInv, ProbeTypeOK
  <2>2. row = Len(AGENT_PROBES) + 1 /\ at = Len(extra) + 1
    BY <2>1 DEF ProbeDone, ProbeInv, ProbeTypeOK
  <2>3. \A k \in DOMAIN found : found[k] \in ToSet(found)
    BY DEF ToSet
  <2>4. ASSUME NEW e \in ToSet(found) PROVE since[e.port] # "none"
    BY DEF ToSet, ProbeInv, ProbeFaithful
  <2>5. ASSUME NEW i \in DOMAIN AGENT_PROBES, Passes(AGENT_PROBES[i]),
               since[AGENT_PROBES[i].port] = "healthy"
        PROVE  AGENT_PROBES[i] \in ToSet(found)
    BY <2>1, <2>2, <2>3, <2>5 DEF ProbeInv, ProbeFaithful
  <2>6. ASSUME NEW i \in DOMAIN extra, since[extra[i]] \in {"healthy", "failing"}
        PROVE  \E e \in ToSet(found) : e.port = extra[i]
    BY <2>1, <2>2, <2>3, <2>6 DEF ProbeInv, ProbeFaithful
  <2>7. QED
    BY <2>4, <2>5, <2>6 DEF ProbeComplete
<1>4. QED
  BY ProbeInvInit, <1>2, <1>3, PTL DEF ProbeSpec

-----------------------------------------------------------------------------
(* Configuration files of agents                                           *)

Plugin(p) == p[2] = "a1_plugin.toml"

(* A text with servers has the section they stand in.                       *)
Sound(text) == text \in Text /\ (text.servers # {} => text.section)

Held(text) == IF text = Absent THEN {} ELSE Entries(text)

(* What is owed is in the file, or in the text of whoever has emptied it.   *)
PathInv(p) ==
  /\ file[p] = Absent \/ Sound(file[p])
  /\ Plugin(p) => owed[p] = {}
  /\ owed[p] \subseteq Held(file[p]) \/ (file[p] = Emptied /\ \E c \in Call : Filling(c, p))
  /\ file[p] = Emptied => \A c \in Call : Filling(c, p) => owed[p] \subseteq Entries(call[c].text)
  /\ removed[p] = "parsed" => file[p] = Absent \/ "a1" \notin file[p].servers

(* What a request is about to write, against what it has read.              *)
CallInv(x) ==
  \/ x.op = "idle"
  \/ /\ x.op \in {"connect", "disconnect", "connecting", "disconnecting"}
     /\ Sound(x.text)
     /\ Plugin(x.path) \/ Promised(x.base) \subseteq Entries(x.text)
     /\ x.op \in {"disconnect", "disconnecting"} /\ x.base.json => "a1" \notin x.text.servers

CfgInv ==
  /\ DOMAIN file = Path /\ DOMAIN owed = Path /\ DOMAIN removed = Path /\ DOMAIN call = Call
  /\ \A p \in Path : PathInv(p)
  /\ \A c \in Call : CallInv(call[c])

LEMMA CfgInvInit == CfgInit => CfgInv
<1> SUFFICES ASSUME CfgInit PROVE CfgInv
  OBVIOUS
<1>1. \A p \in Path : file[p] = Absent /\ owed[p] = {} /\ removed[p] = "no"
  BY DEF CfgInit
<1>2. \A c \in Call : call[c].op = "idle"
  BY DEF CfgInit, CallIdle
<1>3. DOMAIN file = Path /\ DOMAIN owed = Path /\ DOMAIN removed = Path /\ DOMAIN call = Call
  BY DEF CfgInit
<1>4. \A p \in Path : PathInv(p)
  BY <1>1, <1>2 DEF PathInv, Filling, Held
<1>5. QED
  BY <1>2, <1>3, <1>4 DEF CfgInv, CallInv

LEMMA ContentSound == /\ Sound(ContentFor) /\ ContentFor.servers = {"a1"}
                      /\ Sound(Emptied) /\ Promised(Emptied) = {}
  BY DEF Sound, ContentFor, Emptied, Promised, Text

(* What is left of a write that breaks off is a text, too.                  *)
LEMMA CutOffSound == ASSUME NEW text, NEW t \in CutOff(text) PROVE Sound(t)
  BY DEF CutOff, Sound

(* Merging keeps what stands in a text with the section.                    *)
LEMMA MergeKeeps ==
  ASSUME NEW text, Sound(text)
  PROVE  Sound(Merge(text)) /\ Promised(text) \subseteq Entries(Merge(text))
<1>1. CASE ~ text.section
  <2>1. Merge(text) = ContentFor /\ Promised(text) = {}
    BY <1>1 DEF Merge, Promised
  <2>2. QED
    BY <2>1, ContentSound
<1>2. CASE text.section
  <2> DEFINE b == text.json /\ text.servers # {}
             m == [text EXCEPT !.servers = @ \cup {"a1"}, !.json = b]
  <2>1. Merge(text) = m
    BY <1>2 DEF Merge
  <2>2. b \in BOOLEAN
    OBVIOUS
  <2> HIDE DEF b
  <2>3. text \in Text /\ text.servers \subseteq Server \cup {"a1"}
    BY DEF Sound, Text
  <2>4. m \in Text
    BY <2>2, <2>3 DEF Text
  <2>5. /\ m.servers = text.servers \cup {"a1"} /\ m.section = text.section
        /\ m.settings = text.settings
    BY <2>3 DEF Text
  <2> HIDE DEF m
  <2>6. Sound(Merge(text))
    BY <1>2, <2>1, <2>4, <2>5 DEF Sound
  <2>7. Entries(text) \subseteq Entries(m)
    BY <2>5 DEF Entries
  <2>8. Promised(text) \subseteq Entries(text)
    BY DEF Promised
  <2>9. QED
    BY <2>1, <2>6, <2>7, <2>8
<1>3. QED
  BY <1>1, <1>2

(* Removing takes out A1's entry and nothing else.                          *)
LEMMA RemoveKeeps ==
  ASSUME NEW text, Sound(text)
  PROVE  /\ Sound(RemoveA1(text))
         /\ Promised(text) \subseteq Entries(RemoveA1(text))
         /\ text.json => "a1" \notin RemoveA1(text).servers
<1>0. Promised(text) \subseteq Entries(text)
  BY DEF Promised
<1>1. CASE ~ text.json
  <2>1. RemoveA1(text) = text
    BY <1>1 DEF RemoveA1
  <2>2. QED
    BY <1>0, <1>1, <2>1
<1>2. CASE text.json
  <2> DEFINE m == [text EXCEPT !.servers = @ \ {"a1"}]
  <2>1. RemoveA1(text) = m
    BY <1>2 DEF RemoveA1
  <2>2. text \in Text
    BY DEF Sound
  <2>3. /\ m \in Text /\ m.servers = text.servers \ {"a1"} /\ m.section = text.section
        /\ m.settings = text.settings
    BY <2>2 DEF Text
  <2> HIDE DEF m
  <2>4. Sound(m) /\ "a1" \notin m.servers
    BY <2>3 DEF Sound
  <2>5. Entries(text) \subseteq Entries(m)
    BY <2>3 DEF Entries
  <2>6. QED
    BY <1>0, <2>1, <2>4, <2>5
<1>3. QED
  BY <1>1, <1>2

LEMMA ConnectedKeeps ==
  ASSUME NEW a, NEW text, Sound(text)
  PROVE  Sound(Connected(a, text)) /\ Promised(text) \subseteq Entries(Connected(a, text))
<1>1. Connected(a, text) = Merge(text) \/ Connected(a, text) = text
  BY DEF Connected
<1>2. Promised(text) \subseteq Entries(text)
  BY DEF Promised
<1>3. QED
  BY <1>1, <1>2, MergeKeeps

(* A step that does not touch a file, nor who is filling it.                *)
LEMMA PathStays ==
  ASSUME NEW p, PathInv(p), file'[p] = file[p], owed'[p] = owed[p], removed'[p] = removed[p],
         \A c \in Call : (Filling(c, p)' <=> Filling(c, p)) /\ (Filling(c, p) => call'[c] = call[c])
  PROVE  PathInv(p)'
<1>1. /\ (file[p] = Absent \/ Sound(file[p]))'
      /\ (Plugin(p) => owed[p] = {})'
      /\ (removed[p] = "parsed" => file[p] = Absent \/ "a1" \notin file[p].servers)'
  BY DEF PathInv
<1>2. (owed[p] \subseteq Held(file[p]) \/ (file[p] = Emptied /\ \E c \in Call : Filling(c, p)))'
  BY DEF PathInv
<1>3. (file[p] = Emptied => \A c \in Call : Filling(c, p) => owed[p] \subseteq Entries(call[c].text))'
  BY DEF PathInv
<1>4. QED
  BY <1>1, <1>2, <1>3 DEF PathInv

(* A request moves on, and writes to its own file or to none.               *)
LEMMA CallStep ==
  ASSUME CfgInv, NEW c \in Call, NEW x, CallInv(x), call' = [call EXCEPT ![c] = x],
         group' = group, DOMAIN file' = Path, DOMAIN owed' = Path, DOMAIN removed' = Path,
         \A q \in Path :
           \/ /\ file'[q] = file[q] /\ owed'[q] = owed[q] /\ removed'[q] = removed[q]
              /\ ~ Filling(c, q) /\ (x.op \in {"connecting", "disconnecting"} => x.path # q)
           \/ PathInv(q)'
  PROVE  CfgInv'
<1>1. DOMAIN call' = Call /\ call'[c] = x /\ \A d \in Call : d # c => call'[d] = call[d]
  BY DEF CfgInv
<1>2. Path' = Path
  BY DEF Path
<1>3. ASSUME NEW q \in Path PROVE PathInv(q)'
  <2>1. CASE /\ file'[q] = file[q] /\ owed'[q] = owed[q] /\ removed'[q] = removed[q]
             /\ ~ Filling(c, q) /\ (x.op \in {"connecting", "disconnecting"} => x.path # q)
    <3>1. ~ Filling(c, q)'
      BY <1>1, <2>1 DEF Filling
    <3>2. \A d \in Call : (Filling(d, q)' <=> Filling(d, q)) /\ (Filling(d, q) => call'[d] = call[d])
      BY <1>1, <2>1, <3>1 DEF Filling
    <3>3. QED
      BY <2>1, <3>2, PathStays DEF CfgInv
  <2>2. QED
    BY <2>1
<1>4. \A d \in Call : CallInv(call'[d])
  BY <1>1 DEF CfgInv
<1>5. (\A q \in Path : PathInv(q))'
  BY <1>2, <1>3
<1>6. (\A d \in Call : CallInv(call[d]))'
  BY <1>4 DEF CallInv
<1>7. QED
  BY <1>1, <1>2, <1>5, <1>6 DEF CfgInv

(* A file changes, the requests stay.                                       *)
LEMMA FileStep ==
  ASSUME CfgInv, UNCHANGED <<group, call>>,
         DOMAIN file' = Path, DOMAIN owed' = Path, DOMAIN removed' = Path,
         \A q \in Path :
           \/ file'[q] = file[q] /\ owed'[q] = owed[q] /\ removed'[q] = removed[q]
           \/ PathInv(q)'
  PROVE  CfgInv'
<1>1. Path' = Path
  BY DEF Path
<1>2. ASSUME NEW q \in Path PROVE PathInv(q)'
  <2>1. CASE file'[q] = file[q] /\ owed'[q] = owed[q] /\ removed'[q] = removed[q]
    <3>1. \A d \in Call : (Filling(d, q)' <=> Filling(d, q)) /\ (Filling(d, q) => call'[d] = call[d])
      BY DEF Filling
    <3>2. QED
      BY <2>1, <3>1, PathStays DEF CfgInv
  <2>2. QED
    BY <2>1
<1>3. (\A q \in Path : PathInv(q))'
  BY <1>1, <1>2
<1>4. QED
  BY <1>1, <1>3 DEF CfgInv, CallInv

LEMMA PathsOf ==
  ASSUME NEW a \in group, NEW d \in CandidateDirs(a)
  PROVE  <<d, ConfigName(a)>> \in Path /\ <<d, ".mcp.json">> \in Path
<1>1. <<d, ConfigName(a)>> \in Paths(a) /\ <<d, ".mcp.json">> \in Paths(a)
  BY DEF Paths
<1>2. Paths(a) \subseteq Path
  BY DEF Path
<1>3. QED
  BY <1>1, <1>2

(* A request that starts writes nothing.                                    *)
LEMMA CallStarts ==
  ASSUME CfgInv, NEW c \in Call, NEW x, CallInv(x), call[c].op \in {"idle", "connect", "disconnect"},
         x.op \in {"idle", "connect", "disconnect"}, x.op = "idle" \/ call[c].op = "idle",
         call' = [call EXCEPT ![c] = x], UNCHANGED <<group, file, owed, removed>>
  PROVE  CfgInv'
<1>1. DOMAIN file' = Path /\ DOMAIN owed' = Path /\ DOMAIN removed' = Path
  BY DEF CfgInv
<1>2. \A q : ~ Filling(c, q)
  BY DEF Filling
<1>3. QED
  BY <1>1, <1>2, CallStep

LEMMA ConnectReadKeeps ==
  ASSUME CfgInv, NEW c \in Call, NEW a \in group, ConnectRead(c, a)
  PROVE  CfgInv'
<1>1. PICK chosen \in BOOLEAN, d \in CandidateDirs(a), readable \in BOOLEAN :
        LET p == <<d, ConfigName(a)>>
            unread == ~ readable \/ file[p] = Absent \/ a = "ironclaw"
        IN  call' = [call EXCEPT ![c] =
              [op |-> "connect", path |-> p, base |-> IF unread THEN Emptied ELSE file[p],
               text |-> IF unread THEN ContentFor ELSE Connected(a, file[p])]]
  BY DEF ConnectRead
<1> DEFINE p == <<d, ConfigName(a)>>
           unread == ~ readable \/ file[p] = Absent \/ a = "ironclaw"
           base == IF unread THEN Emptied ELSE file[p]
           text == IF unread THEN ContentFor ELSE Connected(a, file[p])
           x == [op |-> "connect", path |-> p, base |-> base, text |-> text]
<1>2. call[c].op = "idle" /\ call' = [call EXCEPT ![c] = x] /\ UNCHANGED <<group, file, owed, removed>>
  BY <1>1 DEF ConnectRead
<1>3. p \in Path
  BY PathsOf
<1>4. Sound(text) /\ Promised(base) \subseteq Entries(text)
  <2>1. CASE unread
    BY <2>1, ContentSound
  <2>2. CASE ~ unread
    <3>1. Sound(file[p])
      BY <1>3, <2>2 DEF CfgInv, PathInv
    <3>2. base = file[p] /\ text = Connected(a, file[p])
      BY <2>2
    <3> HIDE DEF base, text
    <3>3. QED
      BY <3>1, <3>2, ConnectedKeeps
  <2>3. QED
    BY <2>1, <2>2
<1>5. x.op = "connect" /\ x.base = base /\ x.text = text
  OBVIOUS
<1> HIDE DEF x, base, text
<1>6. CallInv(x)
  BY <1>4, <1>5 DEF CallInv
<1>7. QED
  BY <1>2, <1>5, <1>6, CallStarts

LEMMA DisconnectReadKeeps ==
  ASSUME CfgInv, NEW c \in Call, NEW a \in group, DisconnectRead(c, a)
  PROVE  CfgInv'
<1>1. PICK chosen \in BOOLEAN, d \in CandidateDirs(a) :
        LET p == <<d, ".mcp.json">>
        IN  /\ file[p] # Absent
            /\ call' = [call EXCEPT ![c] =
                 [op |-> "disconnect", path |-> p, base |-> file[p], text |-> RemoveA1(file[p])]]
  BY DEF DisconnectRead
<1> DEFINE p == <<d, ".mcp.json">>
           x == [op |-> "disconnect", path |-> p, base |-> file[p], text |-> RemoveA1(file[p])]
<1>2. call[c].op = "idle" /\ call' = [call EXCEPT ![c] = x] /\ UNCHANGED <<group, file, owed, removed>>
  BY <1>1 DEF DisconnectRead
<1>3. p \in Path
  BY PathsOf
<1>4. Sound(file[p])
  BY <1>1, <1>3 DEF CfgInv, PathInv
<1>5. x.op = "disconnect" /\ x.base = file[p] /\ x.text = RemoveA1(file[p])
  OBVIOUS
<1> HIDE DEF x
<1>6. CallInv(x)
  BY <1>4, <1>5, RemoveKeeps DEF CallInv
<1>7. QED
  BY <1>2, <1>5, <1>6, CallStarts

LEMMA OpenFileKeeps == ASSUME CfgInv, NEW c \in Call, OpenFile(c) PROVE CfgInv'
<1>0. PICK p : p = call[c].path
  OBVIOUS
<1> DEFINE op == IF call[c].op = "connect" THEN "connecting" ELSE "disconnecting"
           x == [call[c] EXCEPT !.op = op]
<1>1. call[c].op \in {"connect", "disconnect"} /\ group' = group /\ removed' = removed
  BY DEF OpenFile
<1>2. call' = [call EXCEPT ![c] = x]
  BY DEF OpenFile
<1>3. /\ file' = [file EXCEPT ![p] = Emptied]
      /\ \E own : /\ owed' = [owed EXCEPT ![p] = own]
                  /\ own = {} \/ (own = owed[p] \cap Promised(call[c].base)
                                  /\ ~ \E e \in Call : Filling(e, p))
  BY <1>0 DEF OpenFile
<1>4. CallInv(call[c])
  BY DEF CfgInv
<1>5. /\ x.op = op /\ op \in {"connecting", "disconnecting"} /\ x.path = p
      /\ x.text = call[c].text /\ x.base = call[c].base
      /\ op = "disconnecting" <=> call[c].op = "disconnect"
  <2>1. DOMAIN call[c] = DOMAIN x
    OBVIOUS
  <2>2. QED
    BY <1>0, <1>1
<1> HIDE DEF x
<1>6. CallInv(x)
  BY <1>0, <1>1, <1>4, <1>5 DEF CallInv
<1>7. DOMAIN file' = Path /\ DOMAIN owed' = Path /\ DOMAIN removed' = Path
  BY <1>1, <1>3 DEF CfgInv
<1>8. DOMAIN call = Call /\ call'[c] = x /\ \A d \in Call : d # c => call'[d] = call[d]
  BY <1>2 DEF CfgInv
<1>9. ASSUME NEW q \in Path, q # p
      PROVE  /\ file'[q] = file[q] /\ owed'[q] = owed[q] /\ removed'[q] = removed[q]
             /\ ~ Filling(c, q) /\ (x.op \in {"connecting", "disconnecting"} => x.path # q)
  BY <1>0, <1>1, <1>3, <1>5, <1>7, <1>9 DEF CfgInv, Filling
<1>10. ASSUME p \in Path PROVE PathInv(p)'
  <2>1. PICK own : /\ owed' = [owed EXCEPT ![p] = own]
                   /\ own = {} \/ (own = owed[p] \cap Promised(call[c].base)
                                   /\ ~ \E e \in Call : Filling(e, p))
    BY <1>3
  <2>2. file'[p] = Emptied /\ owed'[p] = own /\ PathInv(p)
    BY <1>3, <1>10, <2>1 DEF CfgInv
  <2>3. Filling(c, p)'
    BY <1>5, <1>8 DEF Filling
  <2>4. ASSUME NEW e \in Call, Filling(e, p)' PROVE own \subseteq Entries(call'[e].text)
    <3>1. CASE e = c
      <4>1. own \subseteq Promised(call[c].base) /\ own \subseteq owed[p]
        BY <2>1
      <4>2. Plugin(p) => own = {}
        BY <2>2, <4>1 DEF PathInv
      <4>3. QED
        BY <1>0, <1>1, <1>4, <1>5, <1>8, <3>1, <4>1, <4>2 DEF CallInv
    <3>2. CASE e # c
      <4>1. Filling(e, p)
        BY <1>8, <2>4, <3>2 DEF Filling
      <4>2. QED
        BY <2>1, <4>1
    <3>3. QED
      BY <3>1, <3>2
  <2>5. Plugin(p) => own = {}
    BY <2>1, <2>2 DEF PathInv
  <2>6. Emptied.servers = {}
    BY DEF Emptied
  <2>7. QED
    BY <1>5, <1>8, <2>2, <2>3, <2>4, <2>5, <2>6, ContentSound DEF PathInv, Filling
<1>11. ASSUME NEW q \in Path
       PROVE  \/ /\ file'[q] = file[q] /\ owed'[q] = owed[q] /\ removed'[q] = removed[q]
                 /\ ~ Filling(c, q) /\ (x.op \in {"connecting", "disconnecting"} => x.path # q)
              \/ PathInv(q)'
  BY <1>9, <1>10
<1>12. QED
  BY <1>1, <1>2, <1>6, <1>7, <1>11, CallStep

(* What a request leaves in the file it was filling, whole or broken off.   *)
Leaves(c, p, text, own, report) ==
  /\ p = call[c].path
  /\ call[c].op \in {"connecting", "disconnecting"} /\ call' = [call EXCEPT ![c] = CallIdle]
  /\ group' = group /\ file' = [file EXCEPT ![p] = text]
  /\ owed' = [owed EXCEPT ![p] = own] /\ removed' = [removed EXCEPT ![p] = report]
  /\ text = Absent \/ Sound(text)
  /\ own = {} \/ (own = owed[p] /\ file[p] = Emptied /\ text = call[c].text)
  /\ report = "parsed" => text = call[c].text /\ call[c].op = "disconnecting" /\ call[c].base.json

LEMMA FillEnds ==
  ASSUME CfgInv, NEW c \in Call, NEW p, NEW text, NEW own, NEW report, Leaves(c, p, text, own, report)
  PROVE  CfgInv'
<1>0. /\ p = call[c].path
      /\ call[c].op \in {"connecting", "disconnecting"} /\ call' = [call EXCEPT ![c] = CallIdle]
      /\ group' = group /\ file' = [file EXCEPT ![p] = text]
      /\ owed' = [owed EXCEPT ![p] = own] /\ removed' = [removed EXCEPT ![p] = report]
      /\ text = Absent \/ Sound(text)
      /\ own = {} \/ (own = owed[p] /\ file[p] = Emptied /\ text = call[c].text)
      /\ report = "parsed" => text = call[c].text /\ call[c].op = "disconnecting" /\ call[c].base.json
  BY DEF Leaves
<1>1. CallIdle.op = "idle" /\ CallInv(CallIdle)
  BY DEF CallIdle, CallInv
<1>2. DOMAIN file' = Path /\ DOMAIN owed' = Path /\ DOMAIN removed' = Path
  BY <1>0 DEF CfgInv
<1>3. DOMAIN call = Call /\ call'[c].op = "idle" /\ \A d \in Call : d # c => call'[d] = call[d]
  BY <1>0, <1>1 DEF CfgInv
<1>4. ASSUME NEW q \in Path, q # p
      PROVE  /\ file'[q] = file[q] /\ owed'[q] = owed[q] /\ removed'[q] = removed[q]
             /\ ~ Filling(c, q)
  BY <1>0, <1>2, <1>4 DEF CfgInv, Filling
<1>5. ASSUME p \in Path PROVE PathInv(p)'
  <2>1. file'[p] = text /\ owed'[p] = own /\ removed'[p] = report /\ PathInv(p) /\ CallInv(call[c])
    BY <1>0, <1>5 DEF CfgInv
  <2>2. Filling(c, p)
    BY <1>0 DEF Filling
  <2>3. own \subseteq Held(text)
    <3>1. CASE own = {}
      BY <3>1
    <3>2. CASE own = owed[p] /\ file[p] = Emptied /\ text = call[c].text
      <4>1. own \subseteq Entries(text)
        BY <2>1, <2>2, <3>2 DEF PathInv
      <4>2. text # Absent
        BY <1>0, <2>1, <3>2, ConfigAssumption DEF CallInv, Sound
      <4>3. QED
        BY <4>1, <4>2 DEF Held
    <3>3. QED
      BY <1>0, <3>1, <3>2
  <2>4. Plugin(p) => own = {}
    BY <1>0, <2>1 DEF PathInv
  <2>5. ASSUME NEW e \in Call, Filling(e, p)' PROVE own \subseteq Entries(call'[e].text)
    <3>1. e # c
      BY <1>3, <2>5 DEF Filling
    <3>2. call'[e] = call[e] /\ Filling(e, p)
      BY <1>3, <2>5, <3>1 DEF Filling
    <3>3. QED
      BY <1>0, <2>1, <3>2 DEF PathInv
  <2>6. report = "parsed" => "a1" \notin text.servers
    BY <1>0, <2>1 DEF CallInv
  <2>7. QED
    BY <1>0, <1>5, <2>1, <2>3, <2>4, <2>5, <2>6 DEF PathInv
<1> HIDE DEF CallIdle
<1>6. QED
  <2>1. ASSUME NEW q \in Path
        PROVE  \/ /\ file'[q] = file[q] /\ owed'[q] = owed[q] /\ removed'[q] = removed[q]
                  /\ ~ Filling(c, q)
                  /\ CallIdle.op \in {"connecting", "disconnecting"} => CallIdle.path # q
               \/ PathInv(q)'
    BY <1>1, <1>4, <1>5
  <2>2. QED
    BY <1>0, <1>1, <1>2, <2>1, CallStep

LEMMA FillFileKeeps == ASSUME CfgInv, NEW c \in Call, FillFile(c) PROVE CfgInv'
<1>0. PICK p : p = call[c].path
  OBVIOUS
<1> DEFINE met == file[p] # Emptied
<1>1. /\ call[c].op \in {"connecting", "disconnecting"} /\ call' = [call EXCEPT ![c] = CallIdle]
      /\ group' = group
  BY DEF FillFile
<1>2. PICK text \in IF file[p] = Absent THEN {Absent}
                    ELSE {call[c].text} \cup
                         (IF met THEN CutOff(call[c].text) \cup CutOff(file[p]) ELSE {}) :
        /\ file' = [file EXCEPT ![p] = text]
        /\ owed' = [owed EXCEPT ![p] = IF met THEN {} ELSE @]
        /\ removed' = [removed EXCEPT ![p] =
             IF call[c].op = "connecting" \/ text # call[c].text THEN "no"
             ELSE IF call[c].base.json THEN "parsed" ELSE "unparsed"]
  BY <1>0 DEF FillFile
<1> DEFINE own == IF met THEN {} ELSE owed[p]
           report == IF call[c].op = "connecting" \/ text # call[c].text THEN "no"
                     ELSE IF call[c].base.json THEN "parsed" ELSE "unparsed"
<1>3. owed' = [owed EXCEPT ![p] = own] /\ removed' = [removed EXCEPT ![p] = report]
  BY <1>2
<1>4. text = Absent \/ Sound(text)
  <2>1. Sound(call[c].text)
    BY <1>1 DEF CfgInv, CallInv
  <2>2. QED
    BY <1>2, <2>1, CutOffSound
<1>5. own = {} \/ (own = owed[p] /\ file[p] = Emptied /\ text = call[c].text)
  <2>1. Absent # Emptied
    BY ContentSound, ConfigAssumption DEF Sound
  <2>2. QED
    BY <1>2, <2>1
<1>6. report = "parsed" => text = call[c].text /\ call[c].op = "disconnecting" /\ call[c].base.json
  BY <1>1
<1> HIDE DEF own, report, met
<1>7. Leaves(c, p, text, own, report)
  BY <1>0, <1>1, <1>2, <1>3, <1>4, <1>5, <1>6 DEF Leaves
<1>8. QED
  BY <1>7, FillEnds

LEMMA FillBreaksOffKeeps == ASSUME CfgInv, NEW c \in Call, FillBreaksOff(c) PROVE CfgInv'
<1>0. PICK p : p = call[c].path
  OBVIOUS
<1>1. /\ call[c].op \in {"connecting", "disconnecting"} /\ call' = [call EXCEPT ![c] = CallIdle]
      /\ group' = group
  BY DEF FillBreaksOff
<1>2. PICK text \in IF file[p] = Absent THEN {Absent} ELSE CutOff(call[c].text) \cup CutOff(file[p]) :
        /\ file' = [file EXCEPT ![p] = text] /\ owed' = [owed EXCEPT ![p] = {}]
        /\ removed' = [removed EXCEPT ![p] = "no"]
  BY <1>0 DEF FillBreaksOff
<1>3. text = Absent \/ Sound(text)
  BY <1>2, CutOffSound
<1>4. Leaves(c, p, text, {}, "no")
  BY <1>0, <1>1, <1>2, <1>3 DEF Leaves
<1>5. QED
  BY <1>4, FillEnds

LEMMA DisconnectUnlinkKeeps == ASSUME CfgInv, DisconnectUnlink PROVE CfgInv'
<1>1. PICK d \in CandidateDirs("ironclaw") :
        LET p == <<d, ConfigName("ironclaw")>>
        IN  /\ file' = [file EXCEPT ![p] = Absent]
            /\ removed' = [removed EXCEPT ![p] = "parsed"]
  BY DEF DisconnectUnlink
<1> DEFINE p == <<d, ConfigName("ironclaw")>>
<1>2. UNCHANGED <<group, call, owed>> /\ Plugin(p)
  BY DEF DisconnectUnlink, Plugin, ConfigName
<1> HIDE DEF p
<1>3. DOMAIN file' = Path /\ DOMAIN owed' = Path /\ DOMAIN removed' = Path
  BY <1>1, <1>2 DEF CfgInv, p
<1>4. \A q \in Path : q # p => file'[q] = file[q] /\ owed'[q] = owed[q] /\ removed'[q] = removed[q]
  BY <1>1, <1>2 DEF CfgInv, p
<1>5. ASSUME p \in Path PROVE PathInv(p)'
  <2>1. file'[p] = Absent /\ owed'[p] = {}
    BY <1>1, <1>2, <1>5 DEF CfgInv, PathInv, p
  <2>2. Absent # Emptied
    BY ContentSound, ConfigAssumption DEF Sound
  <2>3. QED
    BY <2>1, <2>2 DEF PathInv, p
<1>6. QED
  BY <1>2, <1>3, <1>4, <1>5, FileStep

(* The user's text parses, so it is not one that was emptied.               *)
LEMMA UserEditKeeps == ASSUME CfgInv, NEW p \in Path, UserEdit(p) PROVE CfgInv'
<1>1. ~ Plugin(p) /\ UNCHANGED <<group, call, removed>>
  BY DEF UserEdit, Plugin
<1>2. ASSUME NEW text, NEW own, file' = [file EXCEPT ![p] = text], owed' = [owed EXCEPT ![p] = own],
             Sound(text), text.json, own \subseteq Entries(text),
             removed[p] = "parsed" => "a1" \notin text.servers
      PROVE  CfgInv'
  <2>1. DOMAIN file' = Path /\ DOMAIN owed' = Path /\ DOMAIN removed' = Path
    BY <1>1, <1>2 DEF CfgInv
  <2>2. \A q \in Path : q # p => file'[q] = file[q] /\ owed'[q] = owed[q] /\ removed'[q] = removed[q]
    BY <1>1, <1>2 DEF CfgInv
  <2>3. text # Absent /\ text # Emptied
    BY <1>2, ConfigAssumption DEF Sound, Emptied
  <2>4. file'[p] = text /\ owed'[p] = own /\ removed'[p] = removed[p]
    BY <1>1, <1>2 DEF CfgInv
  <2>5. PathInv(p)'
    BY <1>1, <1>2, <2>3, <2>4 DEF PathInv, Held, Plugin
  <2>6. QED
    BY <1>1, <2>1, <2>2, <2>5, FileStep
<1>3. ASSUME NEW s \in SUBSET Server, NEW o \in SUBSET Setting, NEW sec \in BOOLEAN, s # {} => sec,
             file' = [file EXCEPT ![p] = [json |-> TRUE, section |-> sec, servers |-> s, settings |-> o]],
             owed' = [owed EXCEPT ![p] = s \cup o]
      PROVE  CfgInv'
  <2> DEFINE text == [json |-> TRUE, section |-> sec, servers |-> s, settings |-> o]
  <2>1. text \in Text /\ text.json /\ text.servers = s /\ text.section = sec /\ text.settings = o
    BY DEF Text
  <2>2. file' = [file EXCEPT ![p] = text]
    BY <1>3
  <2> HIDE DEF text
  <2>3. Sound(text) /\ s \cup o \subseteq Entries(text) /\ "a1" \notin text.servers
    BY <1>3, <2>1, ConfigAssumption DEF Sound, Entries
  <2>4. QED
    BY <1>2, <1>3, <2>1, <2>2, <2>3
<1>4. ASSUME file[p] # Absent, file[p].json
      PROVE  /\ Sound(file[p]) /\ owed[p] \subseteq Entries(file[p])
             /\ removed[p] = "parsed" => "a1" \notin file[p].servers
  <2>1. file[p] # Emptied
    BY <1>4 DEF Emptied
  <2>2. QED
    BY <1>4, <2>1 DEF CfgInv, PathInv, Held
<1>5. ASSUME file[p] # Absent, file[p].json, NEW s \in Server \ file[p].servers,
             file' = [file EXCEPT ![p].section = TRUE, ![p].servers = @ \cup {s}],
             owed' = [owed EXCEPT ![p] = owed[p] \cup {s}]
      PROVE  CfgInv'
  <2> DEFINE text == [file[p] EXCEPT !.section = TRUE, !.servers = file[p].servers \cup {s}]
  <2>1. file' = [file EXCEPT ![p] = text]
    BY <1>5
  <2>2. file[p] \in Text
    BY <1>4, <1>5 DEF Sound
  <2>3. /\ text \in Text /\ text.servers = file[p].servers \cup {s} /\ text.section
        /\ text.json = file[p].json /\ text.settings = file[p].settings
    BY <2>2 DEF Text
  <2> HIDE DEF text
  <2>4. s # "a1"
    BY ConfigAssumption
  <2>5. Sound(text) /\ owed[p] \cup {s} \subseteq Entries(text)
    BY <1>4, <1>5, <2>3, <2>4 DEF Sound, Entries
  <2>6. removed[p] = "parsed" => "a1" \notin text.servers
    BY <1>4, <1>5, <2>3, <2>4
  <2>7. QED
    BY <1>2, <1>5, <2>1, <2>3, <2>5, <2>6
<1>6. ASSUME file[p] # Absent, file[p].json, NEW o \in Setting \ file[p].settings,
             file' = [file EXCEPT ![p].settings = @ \cup {o}],
             owed' = [owed EXCEPT ![p] = owed[p] \cup {o}]
      PROVE  CfgInv'
  <2> DEFINE text == [file[p] EXCEPT !.settings = file[p].settings \cup {o}]
  <2>1. file' = [file EXCEPT ![p] = text]
    BY <1>6
  <2>2. file[p] \in Text
    BY <1>4, <1>6 DEF Sound
  <2>3. /\ text \in Text /\ text.servers = file[p].servers /\ text.section = file[p].section
        /\ text.json = file[p].json /\ text.settings = file[p].settings \cup {o}
    BY <2>2 DEF Text
  <2> HIDE DEF text
  <2>4. Sound(text) /\ owed[p] \cup {o} \subseteq Entries(text)
    BY <1>4, <1>6, <2>3 DEF Sound, Entries
  <2>5. QED
    BY <1>2, <1>4, <1>6, <2>1, <2>3, <2>4
<1>7. QED
  BY <1>3, <1>5, <1>6 DEF UserEdit

LEMMA CfgInvStep == ASSUME CfgInv, CfgNext PROVE CfgInv'
<1>1. ASSUME Scan \/ \E a \in group : Install(a) PROVE CfgInv'
  <2>1. UNCHANGED <<group, file, call, owed, removed>>
    BY <1>1 DEF Scan, Install
  <2>2. QED
    BY <2>1, FileStep DEF CfgInv
<1>2. ASSUME NEW c \in Call, OpenFails(c) PROVE CfgInv'
  <2>1. CallIdle.op = "idle" /\ CallInv(CallIdle)
    BY DEF CallIdle, CallInv
  <2> HIDE DEF CallIdle
  <2>2. QED
    BY <1>2, <2>1, CallStarts DEF OpenFails
<1>3. QED
  BY <1>1, <1>2, ConnectReadKeeps, DisconnectReadKeeps, OpenFileKeeps, FillFileKeeps,
     FillBreaksOffKeeps, DisconnectUnlinkKeeps, UserEditKeeps DEF CfgNext

(* Connecting and disconnecting lose nothing of the user's but by the named *)
(* causes, and keep A1's entry out once they report it removed, for any     *)
(* number of requests, agents, servers and settings, whatever breaks off.   *)
THEOREM ConfigFaithfulAlways == CfgSpec => []ConfigFaithful
<1>1. CfgInv /\ UNCHANGED cfgVars => CfgInv'
  <2> SUFFICES ASSUME CfgInv, UNCHANGED cfgVars PROVE CfgInv'
    OBVIOUS
  <2>1. UNCHANGED <<group, file, call, owed, removed>>
    BY DEF cfgVars
  <2>2. QED
    BY <2>1, FileStep DEF CfgInv
<1>2. CfgInv /\ [CfgNext]_cfgVars => CfgInv'
  BY <1>1, CfgInvStep
<1>3. CfgInv => ConfigFaithful
  BY DEF CfgInv, PathInv, Held, ConfigFaithful, UserEntriesKept, DisconnectedStaysOut
<1>4. QED
  BY CfgInvInit, <1>2, <1>3, PTL DEF CfgSpec

-----------------------------------------------------------------------------
(* The types of all parts                                                  *)

(* The clock of the parts that share one never passes its bound.            *)
LEMMA ClockTyped ==
  ASSUME ClockOK, now' = now \/ Tick
  PROVE  ClockOK' /\ now' \in Nat /\ now <= now' /\ now \in Nat
BY ClockAssumption DEF ClockOK, Tick

(* Nonces are numbers because only finitely many messages were made.        *)
NegTyped == NegTypeOK /\ IsFiniteSet(requests) /\ IsFiniteSet(offers)

LEMMA NegTypedInit == NegInit => NegTyped
<1> SUFFICES ASSUME NegInit PROVE NegTyped
  OBVIOUS
<1>1. IsFiniteSet({})
  BY FS_EmptySet
<1>2. QED
  BY <1>1, ClockAssumption DEF NegInit, NegTyped, NegTypeOK, ClockOK

LEMMA AlteredTyped ==
  ASSUME NEW r \in CapabilityRequest, NEW q \in AlteredRequests(r)
  PROVE  q \in CapabilityRequest
BY ClockAssumption DEF CapabilityRequest, AlteredRequests

LEMMA AlteredOfferTyped ==
  ASSUME NEW p \in offers, offers \subseteq DelegationOffer, NEW o \in AlteredOffers(p)
  PROVE  o \in DelegationOffer
<1>1. p \in DelegationOffer
  OBVIOUS
<1>2. CASE \E x \in offers : o = [p EXCEPT !.cert = x.cert]
  BY <1>1, <1>2 DEF DelegationOffer
<1>3. CASE \E n \in 1 .. MaxMessages : o = [p EXCEPT !.request_nonce = n] \/ o = [p EXCEPT !.offer_nonce = n]
  BY <1>1, <1>3 DEF DelegationOffer
<1>4. CASE \E t \in 0 .. MaxTime : o = [p EXCEPT !.timestamp = t]
  BY <1>1, <1>4, ClockAssumption DEF DelegationOffer
<1>5. CASE o = [p EXCEPT !.offer_ttl = OtherTtl]
  BY <1>1, <1>5, NegotiationAssumption DEF DelegationOffer
<1>6. QED
  BY <1>2, <1>3, <1>4, <1>5 DEF AlteredOffers

LEMMA NegTypedStep == ASSUME NegTyped, NegNext PROVE NegTyped'
<1>0. ClockOK' /\ now \in Nat
  BY ClockMoves, ClockTyped DEF NegTyped, NegTypeOK
<1>1. CASE NegTick
  BY <1>0, <1>1 DEF NegTick, NegTyped, NegTypeOK
<1>2. ASSUME NEW agent \in Agent, NEW did \in Agent, NEW caps \in CapLists, NEW intent \in Capability,
             NEW ttl \in Ttls, NEW ahead \in 0 .. Skew, Ask(agent, did, caps, intent, ttl, ahead)
      PROVE  NegTyped'
  <2> DEFINE n == Cardinality(requests)
             q == [did |-> did, pk |-> agent, caps |-> caps, intent |-> intent, ttl |-> ttl,
                   nonce |-> n + 1, timestamp |-> now + ahead]
  <2>1. requests' = requests \cup {q} /\ n < MaxMessages /\ offers' = offers /\ agreed' = agreed
    BY <1>2 DEF Ask
  <2>2. n \in Nat /\ IsFiniteSet(requests')
    BY <2>1, FS_CardinalityType, FS_AddElement DEF NegTyped
  <2>3. now + ahead \in Nat /\ n + 1 \in 1 .. MaxMessages
    BY <1>0, <2>1, <2>2, NegotiationAssumption
  <2> HIDE DEF n
  <2>4. q \in CapabilityRequest
    BY <2>3 DEF CapabilityRequest
  <2> HIDE DEF q
  <2>5. QED
    BY <1>0, <2>1, <2>2, <2>4 DEF NegTyped, NegTypeOK
<1>3. ASSUME NEW r \in requests, NEW q \in AlteredRequests(r), Negotiate(q) PROVE NegTyped'
  <2> DEFINE n == Cardinality(offers)
             life == AtMost(q.ttl, MaxTtl)
             cert == [delegate |-> q.pk, intent |-> q.intent, issued_at |-> now, expiration |-> now + life]
             o == [offerer |-> Gateway, request_nonce |-> q.nonce, cert |-> cert,
                   offer_nonce |-> n + 1, timestamp |-> now, offer_ttl |-> OfferTtl]
  <2>1. offers' = offers \cup {o} /\ n < MaxMessages /\ requests' = requests /\ agreed' = agreed
    BY <1>3 DEF Negotiate
  <2>2. n \in Nat /\ IsFiniteSet(offers')
    BY <2>1, FS_CardinalityType, FS_AddElement DEF NegTyped
  <2>3. q \in CapabilityRequest
    BY <1>3, AlteredTyped DEF NegTyped, NegTypeOK
  <2>4. q.pk \in Agent /\ q.intent \in Capability /\ q.ttl \in Nat /\ q.nonce \in 1 .. MaxMessages
    BY <2>3, NegotiationAssumption DEF CapabilityRequest
  <2>5. now + life \in Nat /\ n + 1 \in 1 .. MaxMessages
    BY <1>0, <2>1, <2>2, <2>4, NegotiationAssumption DEF AtMost
  <2> HIDE DEF n, life
  <2>6. cert \in Cert
    BY <1>0, <2>4, <2>5 DEF Cert
  <2> HIDE DEF cert
  <2>7. o \in DelegationOffer
    BY <1>0, <2>4, <2>5, <2>6, NegotiationAssumption DEF DelegationOffer
  <2> HIDE DEF o
  <2>8. QED
    BY <1>0, <2>1, <2>2, <2>7 DEF NegTyped, NegTypeOK
<1>4. ASSUME NEW p \in offers, NEW o \in AlteredOffers(p), Accept(o.cert.delegate, o) PROVE NegTyped'
  <2> DEFINE a == [acceptor |-> o.cert.delegate, offer |-> o]
  <2>1. agreed' = agreed \cup {a} /\ requests' = requests /\ offers' = offers
    BY <1>4 DEF Accept
  <2>2. o \in DelegationOffer
    BY <1>4, AlteredOfferTyped DEF NegTyped, NegTypeOK
  <2>3. o.cert.delegate \in Agent
    BY <2>2 DEF Cert, DelegationOffer
  <2>4. a \in [acceptor : Agent, offer : DelegationOffer]
    BY <2>2, <2>3
  <2> HIDE DEF a
  <2>5. QED
    BY <1>0, <2>1, <2>4 DEF NegTyped, NegTypeOK
<1>5. QED
  BY <1>1, <1>2, <1>3, <1>4 DEF NegNext

(* Approvals.                                                               *)
AppTyped == AppTypeOK /\ IsFiniteSet(granted)

LEMMA AppTypedInit == AppInit => AppTyped
<1> SUFFICES ASSUME AppInit PROVE AppTyped
  OBVIOUS
<1>1. IsFiniteSet({})
  BY FS_EmptySet
<1>2. QED
  BY <1>1, ClockAssumption DEF AppInit, AppTyped, AppTypeOK, ClockOK

LEMMA AlteredTokenTyped ==
  ASSUME NEW g \in ApprovalToken, NEW t \in AlteredTokens(g)
  PROVE  t \in ApprovalToken
BY ClockAssumption DEF ApprovalToken, AlteredTokens

LEMMA AppTypedQuiet ==
  ASSUME AppTyped, now' = now \/ Tick, UNCHANGED <<granted, honoured>>
  PROVE  AppTyped'
<1>1. ClockOK' /\ now' \in Nat /\ now <= now'
  BY ClockTyped DEF AppTyped, AppTypeOK
<1>2. \A h \in honoured : h.at \in 0 .. now'
  BY <1>1 DEF AppTyped, AppTypeOK, ClockOK
<1>3. QED
  BY <1>1, <1>2 DEF AppTyped, AppTypeOK

LEMMA AppTypedStep == ASSUME AppTyped, AppNext PROVE AppTyped'
<1>0. ClockOK /\ now \in Nat
  BY ClockMoves, ClockTyped DEF AppTyped, AppTypeOK
<1>1. CASE AppTick
  BY <1>1, AppTypedQuiet DEF AppTick
<1>2. ASSUME NEW approver \in Approver, NEW capability \in Capability, NEW agent \in Agent,
             NEW action \in Action, NEW term \in Terms,
             IssueApproval(approver, capability, agent, action, term)
      PROVE  AppTyped'
  <2> DEFINE n == Cardinality(granted)
             g == [capability |-> capability, approver |-> approver, agent |-> agent, action |-> action,
                   granted_at |-> now, expires_at |-> now + term, nonce |-> n + 1]
  <2>1. granted' = granted \cup {g} /\ n < MaxTokens /\ now' = now /\ honoured' = honoured
    BY <1>2 DEF IssueApproval
  <2>2. n \in Nat /\ IsFiniteSet(granted')
    BY <2>1, FS_CardinalityType, FS_AddElement DEF AppTyped
  <2>3. now + term \in Nat /\ n + 1 \in 1 .. MaxTokens
    BY <1>0, <2>1, <2>2, ApprovalAssumption
  <2> HIDE DEF n
  <2>4. g \in ApprovalToken
    BY <1>0, <2>3 DEF ApprovalToken
  <2> HIDE DEF g
  <2>5. QED
    BY <1>0, <2>1, <2>2, <2>4 DEF AppTyped, AppTypeOK, ClockOK
<1>3. ASSUME NEW g \in granted, NEW t \in AlteredTokens(g), VerifyApproval(t) PROVE AppTyped'
  <2>1. t \in ApprovalToken
    BY <1>3, AlteredTokenTyped DEF AppTyped, AppTypeOK
  <2>2. now \in 0 .. now
    BY <1>0
  <2>3. QED
    BY <1>0, <1>3, <2>1, <2>2 DEF VerifyApproval, AppTyped, AppTypeOK, ClockOK
<1>4. QED
  BY <1>1, <1>2, <1>3 DEF AppNext

(* Issuance: what a request in flight carries to its two halves.            *)
CallTyped(c) ==
  \/ c = Idle
  \/ /\ c.pc \in {"sign", "store"}
     /\ c.route \in Route /\ c.key \in IdemKey \cup {NoKey}
     /\ c.began \in 0 .. now
     /\ c.pc = "sign" => c.ttls \in Batches
     /\ c.pc = "store" => c.key # NoKey /\ c.certs \in Seq(IssuedCert)

IssTyped ==
  /\ IssTypeOK
  /\ DOMAIN given = Slot /\ DOMAIN calls = Request
  /\ \A r \in Request : CallTyped(calls[r])

LEMMA IssTypedInit == IssInit => IssTyped
<1> SUFFICES ASSUME IssInit PROVE IssTyped
  OBVIOUS
<1>1. now = 0 /\ ClockOK /\ DOMAIN cache = {} /\ signedN \in 0 .. MaxCerts
  BY ClockAssumption, IssuanceAssumption DEF IssInit, ClockOK
<1>2. DOMAIN calls = Request /\ \A r \in Request : calls[r] = Idle
  BY DEF IssInit
<1>3. DOMAIN given = Slot /\ \A k \in Slot : given[k].last = -1
  BY DEF IssInit
<1>4. QED
  BY <1>1, <1>2, <1>3 DEF IssTyped, IssTypeOK, CallTyped

LEMMA IssTypedQuiet ==
  ASSUME IssTyped, now' = now \/ Tick, UNCHANGED issOnly
  PROVE  IssTyped'
<1>1. ClockOK' /\ now' \in Nat /\ now <= now' /\ now \in Nat
  BY ClockTyped DEF IssTyped, IssTypeOK
<1>2. UNCHANGED <<cache, calls, signedN, given>>
  BY DEF issOnly
<1>3. \A r \in Request : CallTyped(calls[r])'
  BY <1>1, <1>2 DEF IssTyped, CallTyped
<1>4. \A k \in Slot : given'[k].last \in -1 .. now'
  BY <1>1, <1>2 DEF IssTyped, IssTypeOK
<1>5. \A r \in Request :
        calls'[r] = Idle \/ (calls'[r].pc \in {"sign", "store"} /\ calls'[r].began <= now')
  BY <1>1, <1>2 DEF IssTyped, CallTyped
<1>6. QED
  BY <1>1, <1>2, <1>3, <1>4, <1>5 DEF IssTyped, IssTypeOK

(* One request moves, within the present second.                            *)
LEMMA IssTypedMove ==
  ASSUME IssTyped, now' = now, NEW r \in Request, NEW c, CallTyped(c),
         calls' = calls \/ calls' = [calls EXCEPT ![r] = c],
         DOMAIN given' = Slot, \A k \in Slot : given'[k].last \in -1 .. now,
         DOMAIN cache' \subseteq Route \X IdemKey,
         \A k \in DOMAIN cache' :
           cache'[k].exp \in 0 .. MaxTime + CacheTtl /\ cache'[k].certs \in Seq(IssuedCert),
         signedN' \in 0 .. MaxCerts
  PROVE  IssTyped'
<1>1. DOMAIN calls' = Request /\ \A q \in Request : CallTyped(calls'[q])
  BY DEF IssTyped
<1>2. \A q \in Request : CallTyped(calls[q])'
  BY <1>1 DEF CallTyped
<1>3. now \in Nat
  BY ClockAssumption DEF IssTyped, IssTypeOK, ClockOK
<1>4. \A q \in Request : calls'[q] = Idle \/ (calls'[q].pc \in {"sign", "store"} /\ calls'[q].began <= now')
  BY <1>1, <1>3 DEF CallTyped
<1>5. QED
  BY <1>1, <1>2, <1>4 DEF IssTyped, IssTypeOK, ClockOK

(* What is answered is dated to the present second.                         *)
LEMMA AnswerTyped ==
  ASSUME IssTyped, NEW call_, NEW certs, NEW fresh \in BOOLEAN, Answer(call_, certs, fresh),
         call_.route \in Route, call_.key \in IdemKey \cup {NoKey}
  PROVE  DOMAIN given' = Slot /\ \A k \in Slot : given'[k].last \in -1 .. now
<1> DEFINE slot == <<call_.route, call_.key>>
<1>1. slot \in Slot /\ now \in Nat
  BY ClockAssumption DEF Slot, IssTyped, IssTypeOK, ClockOK
<1>2. \/ given' = given
      \/ given' = [given EXCEPT ![slot] = [last |-> now, certs |-> @.certs \cup {certs}]]
  BY DEF Answer
<1>3. QED
  BY <1>1, <1>2 DEF IssTyped, IssTypeOK

LEMMA SweepTyped ==
  ASSUME IssTyped, NEW route
  PROVE  /\ DOMAIN Sweep(cache, route) \subseteq DOMAIN cache
         /\ \A k \in DOMAIN Sweep(cache, route) : Sweep(cache, route)[k] = cache[k]
BY DEF Sweep

LEMMA LookupTyped ==
  ASSUME IssTyped, NEW r \in Request, NEW route \in Route, NEW key \in IdemKey \cup {NoKey},
         NEW ttls \in Batches, Lookup(r, route, key, ttls)
  PROVE  IssTyped'
<1> DEFINE c == [pc |-> "sign", route |-> route, key |-> key, ttls |-> ttls,
                 began |-> now, last |-> given[<<route, key>>].last]
           swept == IF key = NoKey THEN cache ELSE Sweep(cache, route)
           hit == <<route, key>> \in DOMAIN swept /\ swept[<<route, key>>].exp > now
<1>0. now \in Nat /\ now' = now /\ signedN' = signedN /\ cache' = swept
  BY ClockAssumption DEF IssTyped, IssTypeOK, ClockOK, Lookup
<1>1. DOMAIN swept \subseteq DOMAIN cache /\ \A k \in DOMAIN swept : swept[k] = cache[k]
  BY SweepTyped
<1>2. /\ DOMAIN cache' \subseteq Route \X IdemKey
      /\ \A k \in DOMAIN cache' :
           cache'[k].exp \in 0 .. MaxTime + CacheTtl /\ cache'[k].certs \in Seq(IssuedCert)
  BY <1>0, <1>1 DEF IssTyped, IssTypeOK
<1>3. CallTyped(c) /\ CallTyped(Idle) /\ c.route \in Route /\ c.key \in IdemKey \cup {NoKey}
  BY <1>0 DEF CallTyped
<1>4. CASE hit
  <2>1. calls' = calls /\ Answer(c, swept[<<route, key>>].certs, FALSE)
    BY <1>4 DEF Lookup
  <2> HIDE DEF c, swept
  <2>2. DOMAIN given' = Slot /\ \A k \in Slot : given'[k].last \in -1 .. now
    BY <1>3, <2>1, AnswerTyped
  <2>3. QED
    BY <1>0, <1>2, <1>3, <2>1, <2>2, IssTypedMove DEF IssTyped, IssTypeOK
<1>5. CASE ~ hit
  <2>1. given' = given /\ calls' = [calls EXCEPT ![r] = IF ttls = << >> THEN Idle ELSE c]
    BY <1>5 DEF Lookup, NoAnswerYet
  <2> HIDE DEF c, swept
  <2>2. CallTyped(IF ttls = << >> THEN Idle ELSE c)
    BY <1>3
  <2>3. DOMAIN given' = Slot /\ \A k \in Slot : given'[k].last \in -1 .. now
    BY <2>1 DEF IssTyped, IssTypeOK
  <2>4. QED
    BY <1>0, <1>2, <2>1, <2>2, <2>3, IssTypedMove DEF IssTyped, IssTypeOK
<1>6. QED
  BY <1>4, <1>5

LEMMA SignTyped ==
  ASSUME IssTyped, NEW r \in Request, Sign(r)
  PROVE  IssTyped'
<1> DEFINE c == calls[r]
           n == Len(c.ttls)
           certs == [i \in 1 .. n |->
                      [id |-> signedN + i, issued_at |-> now, ttl |-> c.ttls[i],
                       expiration |-> (now + c.ttls[i]) % (U64Max + 1)]]
           stored == [pc |-> "store", route |-> c.route, key |-> c.key, certs |-> certs,
                      began |-> c.began, last |-> c.last]
<1>0. now \in Nat /\ now' = now /\ cache' = cache /\ c.pc = "sign" /\ signedN + n <= MaxCerts
  BY ClockAssumption DEF IssTyped, IssTypeOK, ClockOK, Sign
<1>1. CallTyped(c) /\ c # Idle
  BY <1>0 DEF IssTyped, Idle
<1>2. c.route \in Route /\ c.key \in IdemKey \cup {NoKey} /\ c.began \in 0 .. now /\ c.ttls \in Batches
  BY <1>0, <1>1 DEF CallTyped
<1>3. n \in Nat /\ \A i \in 1 .. n : c.ttls[i] \in Nat
  <2>1. c.ttls \in Seq(0 .. U64Max)
    BY <1>2, IssuanceAssumption
  <2>2. QED
    BY <2>1, SeqElement, IssuanceAssumption
<1>4. signedN \in Nat /\ U64Max + 1 \in Nat /\ U64Max + 1 > 0 /\ MaxCerts \in Nat
  BY IssuanceAssumption DEF IssTyped, IssTypeOK
<1>5. ASSUME NEW i \in 1 .. n
      PROVE  [id |-> signedN + i, issued_at |-> now, ttl |-> c.ttls[i],
              expiration |-> (now + c.ttls[i]) % (U64Max + 1)] \in IssuedCert
  <2>1. (now + c.ttls[i]) % (U64Max + 1) \in Nat
    BY <1>0, <1>3, <1>4
  <2>2. signedN + i \in 1 .. MaxCerts
    BY <1>0, <1>3, <1>4
  <2>3. QED
    BY <1>0, <1>3, <2>1, <2>2 DEF IssuedCert
<1>6. certs \in Seq(IssuedCert)
  BY <1>3, <1>5
<1>7. DOMAIN given = Slot /\ \A k \in Slot : given[k].last \in -1 .. now
  BY DEF IssTyped, IssTypeOK
<1>8. CallTyped(Idle) /\ (c.key # NoKey => CallTyped(stored))
  <2> HIDE DEF certs
  <2>1. QED
    BY <1>2, <1>6 DEF CallTyped
<1>9. signedN' = signedN \/ signedN' = signedN + n
  BY DEF Sign
<1>10. signedN' \in 0 .. MaxCerts
  BY <1>0, <1>3, <1>4, <1>9
<1>11. \/ calls' = [calls EXCEPT ![r] = Idle] /\ given' = given
       \/ calls' = [calls EXCEPT ![r] = Idle] /\ Answer(c, certs, TRUE)
       \/ c.key # NoKey /\ calls' = [calls EXCEPT ![r] = stored] /\ given' = given
  BY DEF Sign, NoAnswerYet
<1> HIDE DEF c, n, certs, stored
<1>12. CASE Answer(c, certs, TRUE) /\ calls' = [calls EXCEPT ![r] = Idle]
  <2>1. DOMAIN given' = Slot /\ \A k \in Slot : given'[k].last \in -1 .. now
    BY <1>2, <1>12, AnswerTyped
  <2>2. QED
    BY <1>0, <1>8, <1>10, <1>12, <2>1, IssTypedMove DEF IssTyped, IssTypeOK
<1>13. CASE given' = given /\ calls' = [calls EXCEPT ![r] = Idle]
  BY <1>0, <1>7, <1>8, <1>10, <1>13, IssTypedMove DEF IssTyped, IssTypeOK
<1>14. CASE given' = given /\ c.key # NoKey /\ calls' = [calls EXCEPT ![r] = stored]
  BY <1>0, <1>7, <1>8, <1>10, <1>14, IssTypedMove DEF IssTyped, IssTypeOK
<1>15. QED
  BY <1>11, <1>12, <1>13, <1>14

LEMMA StoreTyped ==
  ASSUME IssTyped, NEW r \in Request, Store(r)
  PROVE  IssTyped'
<1> DEFINE c == calls[r]
           slot == <<c.route, c.key>>
<1>0. /\ now \in 0 .. MaxTime /\ now' = now /\ signedN' = signedN /\ c.pc = "store"
      /\ calls' = [calls EXCEPT ![r] = Idle] /\ Answer(c, c.certs, TRUE)
      /\ cache' = [k \in DOMAIN cache \cup {slot} |->
                     IF k = slot THEN [exp |-> now + CacheTtl, certs |-> c.certs] ELSE cache[k]]
  BY DEF IssTyped, IssTypeOK, ClockOK, Store
<1>1. CallTyped(c) /\ c # Idle
  BY <1>0 DEF IssTyped, Idle
<1>2. c.route \in Route /\ c.key \in IdemKey /\ c.certs \in Seq(IssuedCert)
  BY <1>0, <1>1 DEF CallTyped
<1> HIDE DEF c
<1>3. slot \in Route \X IdemKey /\ now + CacheTtl \in 0 .. MaxTime + CacheTtl
  BY <1>0, <1>2, ClockAssumption, IssuanceAssumption
<1>4. /\ DOMAIN cache' \subseteq Route \X IdemKey
      /\ \A k \in DOMAIN cache' :
           cache'[k].exp \in 0 .. MaxTime + CacheTtl /\ cache'[k].certs \in Seq(IssuedCert)
  <2> HIDE DEF slot
  <2>1. QED
    BY <1>0, <1>2, <1>3 DEF IssTyped, IssTypeOK
<1>5. DOMAIN given' = Slot /\ \A k \in Slot : given'[k].last \in -1 .. now
  BY <1>0, <1>2, AnswerTyped
<1>6. CallTyped(Idle)
  BY DEF CallTyped
<1>7. QED
  BY <1>0, <1>4, <1>5, <1>6, IssTypedMove DEF IssTyped, IssTypeOK

LEMMA IssTypedStep == ASSUME IssTyped, IssNext PROVE IssTyped'
<1>1. CASE IssTick
  BY <1>1, IssTypedQuiet DEF IssTick, NoAnswerYet, issOnly
<1>2. CASE IssRestart
  <2>1. now' = now /\ DOMAIN cache' = {} /\ signedN' = signedN
    BY <1>2 DEF IssRestart
  <2>2. DOMAIN calls' = Request /\ \A r \in Request : calls'[r] = Idle
    BY <1>2 DEF IssRestart
  <2>3. DOMAIN given' = Slot /\ \A k \in Slot : given'[k].last = -1
    BY <1>2 DEF IssRestart
  <2>4. now \in Nat
    BY ClockAssumption DEF IssTyped, IssTypeOK, ClockOK
  <2>5. QED
    BY <2>1, <2>2, <2>3, <2>4 DEF IssTyped, IssTypeOK, ClockOK, CallTyped
<1>3. {"issue", "issue-batch"} \subseteq Route
  BY DEF Route
<1>4. QED
  BY <1>1, <1>2, <1>3, LookupTyped, SignTyped, StoreTyped DEF IssNext

(* Token exchange: a key set on its way to the cache was published, and is  *)
(* stamped no earlier than the provider answered.                           *)
ExchangeTyped(x) ==
  /\ x.pc \in {"idle", "fetch", "reply", "store"}
  /\ x.pc # "idle" => x.token \in Token /\ x.ttl \in Lifetimes
  /\ x.pc \in {"reply", "store"} => x.keys \in KeySets /\ x.answered \in Nat /\ x.answered <= now
  /\ x.pc = "store" => x.answered <= x.fetched

JwtTyped ==
  /\ JwtTypeOK
  /\ DOMAIN exchanges = Exchange
  /\ \A r \in Exchange : ExchangeTyped(exchanges[r])

LEMMA JwtTypedInit == JwtInit => JwtTyped
<1> SUFFICES ASSUME JwtInit PROVE JwtTyped
  OBVIOUS
<1>1. ClockOK
  BY ClockAssumption DEF JwtInit, ClockOK
<1>2. lastSeen \in [AllKeys -> -1 .. MaxTime]
  BY ClockAssumption DEF JwtInit
<1>3. DOMAIN exchanges = Exchange /\ \A r \in Exchange : exchanges[r].pc = "idle"
  BY DEF JwtInit, Waiting
<1>4. QED
  BY <1>1, <1>2, <1>3 DEF JwtInit, JwtTyped, JwtTypeOK, ExchangeTyped

LEMMA SeenTyped ==
  ASSUME JwtTyped, NEW keys, NEW t \in 0 .. MaxTime
  PROVE  Seen(keys, t) \in [AllKeys -> -1 .. MaxTime]
BY DEF JwtTyped, JwtTypeOK, Seen

LEMMA JwtTypedQuiet ==
  ASSUME JwtTyped, now' = now \/ Tick, lastSeen' \in [AllKeys -> -1 .. MaxTime],
         published' \in KeySets, UNCHANGED <<jwks, exchanges, exchanged>>
  PROVE  JwtTyped'
<1>1. ClockOK' /\ now' \in Nat /\ now <= now' /\ now \in Nat
  BY ClockTyped DEF JwtTyped, JwtTypeOK
<1>2. \A r \in Exchange : ExchangeTyped(exchanges[r])'
  BY <1>1 DEF JwtTyped, ExchangeTyped
<1>3. jwks' = NoEntry' \/ (jwks'.keys \in KeySets /\ jwks'.answered <= jwks'.fetched)
  BY DEF JwtTyped, JwtTypeOK, NoEntry
<1>4. QED
  BY <1>1, <1>2, <1>3 DEF JwtTyped, JwtTypeOK

(* One request moves on.                                                    *)
LEMMA JwtTypedMove ==
  ASSUME JwtTyped, UNCHANGED <<now, published, lastSeen>>, NEW r \in Exchange, NEW x,
         exchanges' = [exchanges EXCEPT ![r] = x], ExchangeTyped(x),
         jwks' = jwks \/ (jwks'.keys \in KeySets /\ jwks'.answered <= jwks'.fetched),
         \A y \in exchanged' : y.token \in Token /\ y.expiration > y.at
  PROVE  JwtTyped'
<1>1. DOMAIN exchanges' = Exchange /\ \A q \in Exchange : ExchangeTyped(exchanges'[q])
  BY DEF JwtTyped
<1>2. \A q \in Exchange : ExchangeTyped(exchanges[q])'
  BY <1>1 DEF ExchangeTyped
<1>3. jwks' = NoEntry' \/ (jwks'.keys \in KeySets /\ jwks'.answered <= jwks'.fetched)
  BY DEF JwtTyped, JwtTypeOK, NoEntry
<1>4. \A q \in Exchange : exchanges'[q].pc \in {"idle", "fetch", "reply", "store"}
  BY <1>1 DEF ExchangeTyped
<1>5. QED
  BY <1>1, <1>2, <1>3, <1>4 DEF JwtTyped, JwtTypeOK, ClockOK

LEMMA FinishTyped ==
  ASSUME JwtTyped, NEW r \in Exchange, NEW token \in Token, NEW ttl \in Lifetimes, NEW asked,
         NEW entry, Finish(r, token, ttl, asked, entry)
  PROVE  /\ \A y \in exchanged' : y.token \in Token /\ y.expiration > y.at
         /\ exchanges' = [exchanges EXCEPT ![r] = Waiting]
<1> DEFINE life == TtlLeft(token, ttl, asked)
           x == [token |-> token, at |-> now, expiration |-> now + life,
                 lastSeen |-> lastSeen[token.key],
                 delay |-> entry.fetched - entry.answered, cached |-> entry.fetched]
<1>1. now \in Nat /\ life \in Int
  BY ClockAssumption, JwtAssumption DEF JwtTyped, JwtTypeOK, ClockOK, TtlLeft, AtMost
<1>2. exchanged' = exchanged \/ (life > 0 /\ exchanged' = exchanged \cup {x})
  BY DEF Finish
<1>3. x.token = token /\ x.at = now /\ x.expiration = now + life
  OBVIOUS
<1> HIDE DEF x, life
<1>4. life > 0 => x.expiration > x.at
  BY <1>1, <1>3
<1>5. \A y \in exchanged' : y.token \in Token /\ y.expiration > y.at
  BY <1>2, <1>3, <1>4 DEF JwtTyped, JwtTypeOK
<1>6. QED
  BY <1>5 DEF Finish

LEMMA JwtTypedStep == ASSUME JwtTyped, JwtNext PROVE JwtTyped'
<1>0. now \in Nat /\ now <= MaxTime /\ ExchangeTyped(Waiting)
  BY ClockAssumption DEF JwtTyped, JwtTypeOK, ClockOK, ExchangeTyped, Waiting
<1>1. CASE JwtTick
  <2>1. Tick /\ lastSeen' = Seen(published, now + 1) /\ UNCHANGED <<published, jwks, exchanges, exchanged>>
    BY <1>1 DEF JwtTick
  <2>2. now + 1 \in 0 .. MaxTime
    BY <1>0, <2>1, ClockAssumption DEF Tick
  <2>3. lastSeen' \in [AllKeys -> -1 .. MaxTime] /\ published' \in KeySets
    BY <2>1, <2>2, SeenTyped DEF JwtTyped, JwtTypeOK
  <2>4. QED
    BY <2>1, <2>3, JwtTypedQuiet
<1>2. ASSUME NEW keys \in KeySets, Rotate(keys) PROVE JwtTyped'
  <2>1. now \in 0 .. MaxTime
    BY <1>0, ClockAssumption
  <2>2. lastSeen' \in [AllKeys -> -1 .. MaxTime]
    BY <1>2, <2>1, SeenTyped DEF Rotate
  <2>3. QED
    BY <1>2, <2>2, JwtTypedQuiet DEF Rotate
<1>3. ASSUME NEW r \in Exchange, NEW token \in Token, NEW ttl \in Lifetimes, Begin(r, token, ttl)
      PROVE  JwtTyped'
  <2>1. UNCHANGED <<now, published, lastSeen, jwks>>
    BY <1>3 DEF Begin
  <2>2. CASE Fresh(jwks)
    <3>1. Finish(r, token, ttl, now, jwks)
      BY <1>3, <2>2 DEF Begin
    <3>2. QED
      BY <1>0, <2>1, <3>1, FinishTyped, JwtTypedMove
  <2>3. CASE ~ Fresh(jwks)
    <3> DEFINE x == [pc |-> "fetch", token |-> token, ttl |-> ttl, asked |-> now]
    <3>1. exchanges' = [exchanges EXCEPT ![r] = x] /\ exchanged' = exchanged
      BY <1>3, <2>3 DEF Begin
    <3>2. ExchangeTyped(x)
      BY DEF ExchangeTyped
    <3> HIDE DEF x
    <3>3. QED
      BY <2>1, <3>1, <3>2, JwtTypedMove DEF JwtTyped, JwtTypeOK
  <2>4. QED
    BY <2>2, <2>3
<1>4. ASSUME NEW r \in Exchange, ProviderAnswers(r) PROVE JwtTyped'
  <2> DEFINE y == exchanges[r]
             x == [pc |-> "reply", token |-> y.token, ttl |-> y.ttl, asked |-> y.asked,
                   keys |-> published, answered |-> now]
  <2>1. exchanges' = [exchanges EXCEPT ![r] = x] /\ UNCHANGED <<now, published, lastSeen, jwks, exchanged>>
    BY <1>4 DEF ProviderAnswers, JwtTyped
  <2>2. y.token \in Token /\ y.ttl \in Lifetimes /\ published \in KeySets
    BY <1>4 DEF ProviderAnswers, JwtTyped, JwtTypeOK, ExchangeTyped
  <2> HIDE DEF y
  <2>3. ExchangeTyped(x)
    BY <1>0, <2>2 DEF ExchangeTyped
  <2> HIDE DEF x
  <2>4. QED
    BY <2>1, <2>3, JwtTypedMove DEF JwtTyped, JwtTypeOK
<1>5. ASSUME NEW r \in Exchange, FetchFails(r) PROVE JwtTyped'
  BY <1>0, <1>5, JwtTypedMove DEF FetchFails, JwtTyped, JwtTypeOK
<1>6. ASSUME NEW r \in Exchange, Receive(r) PROVE JwtTyped'
  <2> DEFINE y == exchanges[r]
             x == [pc |-> "store", token |-> y.token, ttl |-> y.ttl, asked |-> y.asked,
                   keys |-> y.keys, answered |-> y.answered, fetched |-> now]
  <2>1. exchanges' = [exchanges EXCEPT ![r] = x] /\ UNCHANGED <<now, published, lastSeen, jwks, exchanged>>
    BY <1>6 DEF Receive, JwtTyped
  <2>2. /\ y.token \in Token /\ y.ttl \in Lifetimes
        /\ y.keys \in KeySets /\ y.answered \in Nat /\ y.answered <= now
    BY <1>6 DEF Receive, JwtTyped, ExchangeTyped
  <2> HIDE DEF y
  <2>3. ExchangeTyped(x)
    BY <2>2 DEF ExchangeTyped
  <2> HIDE DEF x
  <2>4. QED
    BY <2>1, <2>3, JwtTypedMove DEF JwtTyped, JwtTypeOK
<1>7. ASSUME NEW r \in Exchange, StoreKeys(r) PROVE JwtTyped'
  <2> DEFINE y == exchanges[r]
             entry == [keys |-> y.keys, fetched |-> y.fetched, answered |-> y.answered]
  <2>1. /\ jwks' = entry /\ Finish(r, y.token, y.ttl, y.asked, entry)
        /\ UNCHANGED <<now, published, lastSeen>> /\ y.pc = "store"
    BY <1>7 DEF StoreKeys
  <2>2. y.token \in Token /\ y.ttl \in Lifetimes /\ y.keys \in KeySets /\ y.answered <= y.fetched
    BY <2>1 DEF JwtTyped, ExchangeTyped
  <2>3. jwks'.keys \in KeySets /\ jwks'.answered <= jwks'.fetched
    BY <2>1, <2>2
  <2> HIDE DEF y, entry
  <2>4. QED
    BY <1>0, <2>1, <2>2, <2>3, FinishTyped, JwtTypedMove
<1>8. QED
  BY <1>1, <1>2, <1>3, <1>4, <1>5, <1>6, <1>7 DEF JwtNext

(* The MCP bridge.                                                          *)
McpStates == {"idle", "sent", "200", "refused", "invalid", "error", "done", "denied"}

McpTyped ==
  /\ mcp \in [McpCall -> [pc : McpStates, tool : Tool, cert : McpCert]]
  /\ McpTypeOK

LEMMA McpTypedInit == McpInit => McpTyped
<1> SUFFICES ASSUME McpInit PROVE McpTyped
  OBVIOUS
<1>1. PICK x \in McpCert : mcp = [c \in McpCall |-> [pc |-> "idle", tool |-> "a1_authorize", cert |-> x]]
  BY DEF McpInit
<1>2. mcp \in [McpCall -> [pc : McpStates, tool : Tool, cert : McpCert]]
  BY <1>1 DEF McpStates, Tool
<1>3. \A c \in McpCall : mcp[c].pc = "idle"
  BY <1>1
<1>4. QED
  BY <1>2, <1>3 DEF McpTyped, McpTypeOK

(* One call moves.                                                          *)
LEMMA McpTypedMove ==
  ASSUME McpTyped, NEW c \in McpCall, NEW m \in [pc : McpStates, tool : Tool, cert : McpCert],
         mcp' = [mcp EXCEPT ![c] = m], spent \subseteq spent',
         m.pc = "200" /\ m.tool = "a1_authorize" => m.cert \in spent'
  PROVE  McpTyped'
<1>1. mcp' \in [McpCall -> [pc : McpStates, tool : Tool, cert : McpCert]]
  BY DEF McpTyped
<1>2. \A d \in McpCall : mcp'[d] = IF d = c THEN m ELSE mcp[d]
  BY DEF McpTyped
<1>3. \A d \in McpCall : mcp'[d].pc \in McpStates
  BY <1>1
<1>4. \A d \in McpCall : mcp'[d].pc = "200" /\ mcp'[d].tool = "a1_authorize" => mcp'[d].cert \in spent'
  BY <1>2 DEF McpTyped, McpTypeOK
<1>5. QED
  BY <1>1, <1>3, <1>4 DEF McpTyped, McpTypeOK, McpStates

LEMMA McpTypedMoves ==
  ASSUME McpTyped, NEW c \in McpCall, NEW b \in McpStates, Moves(c, b), spent \subseteq spent',
         b = "200" /\ mcp[c].tool = "a1_authorize" => mcp[c].cert \in spent'
  PROVE  McpTyped'
<1> DEFINE m == [mcp[c] EXCEPT !.pc = b]
<1>1. mcp' = [mcp EXCEPT ![c] = m]
  BY DEF Moves
<1>2. mcp[c] \in [pc : McpStates, tool : Tool, cert : McpCert]
  BY DEF McpTyped
<1>3. /\ m \in [pc : McpStates, tool : Tool, cert : McpCert]
      /\ m.pc = b /\ m.tool = mcp[c].tool /\ m.cert = mcp[c].cert
  BY <1>2
<1> HIDE DEF m
<1>4. QED
  BY <1>1, <1>3, McpTypedMove

LEMMA McpTypedStep == ASSUME McpTyped, McpNext PROVE McpTyped'
<1>0. {"sent", "200", "refused", "invalid", "error", "done", "denied"} \subseteq McpStates
  BY DEF McpStates
<1>1. ASSUME NEW c \in McpCall, NEW tool \in Tool, NEW x \in McpCert, Invoke(c, tool, x)
      PROVE  McpTyped'
  <2> DEFINE m == [pc |-> "sent", tool |-> tool, cert |-> x]
  <2>1. m \in [pc : McpStates, tool : Tool, cert : McpCert] /\ m.pc = "sent"
    BY <1>0
  <2>2. mcp' = [mcp EXCEPT ![c] = m] /\ spent' = spent
    BY <1>1 DEF Invoke
  <2> HIDE DEF m
  <2>3. QED
    BY <2>1, <2>2, McpTypedMove
<1>2. ASSUME NEW c \in McpCall, InvokeIncomplete(c) \/ Break(c) PROVE McpTyped'
  BY <1>0, <1>2, McpTypedMoves DEF InvokeIncomplete, Break
<1>3. ASSUME NEW c \in McpCall, ServeAuthorize(c) PROVE McpTyped'
  <2>1. \/ Moves(c, "refused") /\ spent' = spent
        \/ Moves(c, "200") /\ spent' = spent \cup {mcp[c].cert}
    BY <1>3 DEF ServeAuthorize
  <2>2. QED
    BY <1>0, <2>1, McpTypedMoves
<1>4. ASSUME NEW c \in McpCall, ServeAdmin(c) PROVE McpTyped'
  <2>1. mcp[c].tool # "a1_authorize" /\ spent' = spent
    BY <1>4 DEF ServeAdmin
  <2>2. Moves(c, "200") \/ Moves(c, "refused")
    BY <1>4 DEF ServeAdmin
  <2>3. QED
    BY <1>0, <2>1, <2>2, McpTypedMoves
<1>5. ASSUME NEW c \in McpCall, Reply(c) PROVE McpTyped'
  <2>1. spent' = spent /\ (Moves(c, "done") \/ Moves(c, "denied"))
    BY <1>5 DEF Reply
  <2>2. QED
    BY <1>0, <2>1, McpTypedMoves
<1>6. ASSUME NEW x \in McpCert, RevokedElsewhere(x) PROVE McpTyped'
  BY <1>6 DEF RevokedElsewhere, McpTyped, McpTypeOK
<1>7. QED
  BY <1>1, <1>2, <1>3, <1>4, <1>5, <1>6 DEF McpNext

(* Configuration files: what a request is about to write is a text, for a   *)
(* path of the agents; whoever is filling a file has opened it, so that its *)
(* directory is there.                                                      *)
CfgRequest(x) ==
  \/ x.op = "idle"
  \/ /\ x.path \in Path /\ x.text \in Text
     /\ x.op \in {"connecting", "disconnecting"} => x.path[1] \in dirs

CfgTyped ==
  /\ CfgTypeOK
  /\ DOMAIN owed = Path /\ DOMAIN removed = Path /\ DOMAIN call = Call
  /\ \A c \in Call : CfgRequest(call[c])

LEMMA CandidatePlaces == ASSUME NEW a PROVE CandidateDirs(a) \subseteq Places
  BY DEF CandidateDirs

LEMMA CfgTypedInit == CfgInit => CfgTyped
<1> SUFFICES ASSUME CfgInit PROVE CfgTyped
  OBVIOUS
<1>1. \A p \in Path : file[p] = Absent /\ owed[p] = {} /\ removed[p] = "no"
  BY DEF CfgInit
<1>2. \A c \in Call : call[c].op = "idle"
  BY DEF CfgInit, CallIdle
<1>3. /\ group \in Groups /\ inPath \subseteq group /\ spoiled \subseteq Path
      /\ DOMAIN file = Path /\ DOMAIN owed = Path /\ DOMAIN removed = Path /\ DOMAIN call = Call
  BY DEF CfgInit
<1>4. dirs \subseteq Places
  BY CandidatePlaces DEF CfgInit
<1>5. QED
  BY <1>1, <1>2, <1>3, <1>4 DEF CfgTyped, CfgTypeOK, CfgRequest

(* What is found is a place that may exist.                                 *)
LEMMA FindPlaces ==
  ASSUME NEW a \in group, group \in Groups, dirs \subseteq Places
  PROVE  Find(a, dirs) \subseteq Places
<1> DEFINE here == {i \in 1..Len(Candidates(a)) : Candidates(a)[i] \in dirs}
           first == CHOOSE i \in here : \A j \in here : i <= j
<1>1. here \in SUBSET Nat
  OBVIOUS
<1>2. ASSUME here # {} PROVE Candidates(a)[first] \in dirs
  <2>1. \E i \in here : \A j \in here : i <= j
    <3> HIDE DEF here
    <3>1. QED
      BY <1>1, <1>2, LeastOf
  <2>2. first \in here
    <3> HIDE DEF here
    <3>1. QED
      BY <2>1
  <2>3. QED
    BY <2>2
<1>3. Fallback(a) \in Places
  BY ConfigAssumption
<1>4. Find(a, dirs) \in {{"cwd"}, {Fallback(a)}, {}} \/ (here # {} /\ Find(a, dirs) = {Candidates(a)[first]})
  BY DEF Find
<1>5. "cwd" \in Find(a, dirs) => Fallback(a) = "cwd" \/ "cwd" \in dirs
  <2>1. CASE Fallback(a) = "cwd"
    BY <2>1
  <2>2. CASE Fallback(a) # "cwd" /\ here # {}
    <3>1. Find(a, dirs) = {Candidates(a)[first]}
      BY <2>2 DEF Find
    <3>2. QED
      BY <1>2, <2>2, <3>1
  <2>3. CASE Fallback(a) # "cwd" /\ here = {}
    BY <2>3 DEF Find
  <2>4. QED
    BY <2>1, <2>2, <2>3
<1> HIDE DEF here, first
<1>6. QED
  BY <1>2, <1>3, <1>4, <1>5

LEMMA ContentTyped == ContentFor \in Text
  BY ContentSound DEF Sound

LEMMA RemoveTyped == ASSUME NEW text \in Text PROVE RemoveA1(text) \in Text
<1>1. [text EXCEPT !.servers = @ \ {"a1"}] \in Text
  BY DEF Text
<1>2. QED
  BY <1>1 DEF RemoveA1

LEMMA ConnectedTyped ==
  ASSUME NEW a, NEW text \in Text
  PROVE  Connected(a, text) \in Text
<1> DEFINE b == text.json /\ text.servers # {}
           m == [text EXCEPT !.servers = @ \cup {"a1"}, !.json = b]
<1>1. m \in Text
  <2>1. b \in BOOLEAN
    OBVIOUS
  <2> HIDE DEF b
  <2>2. QED
    BY <2>1 DEF Text
<1>2. Merge(text) = m \/ Merge(text) = ContentFor
  BY DEF Merge
<1> HIDE DEF m
<1>3. QED
  BY <1>1, <1>2, ContentTyped DEF Connected

(* Requests and directories change, the files do not.                       *)
LEMMA CfgTypedCalls ==
  ASSUME CfgTyped, UNCHANGED <<group, file, owed, spoiled, removed>>, inPath' \subseteq group,
         dirs \subseteq dirs', dirs' \subseteq Places, DOMAIN call' = Call,
         \A c \in Call : call'[c] = call[c] \/ CfgRequest(call[c])'
  PROVE  CfgTyped'
<1>1. Path' = Path
  BY DEF Path
<1>3. \A c \in Call : CfgRequest(call[c])'
  BY <1>1 DEF CfgTyped, CfgRequest
<1>4. \A c \in Call : call'[c].op # "idle" => call'[c].path \in Path' /\ call'[c].text \in Text
  BY <1>3 DEF CfgRequest
<1>5. QED
  BY <1>1, <1>3, <1>4 DEF CfgTyped, CfgTypeOK

(* A file gets a new text, or none, and a request may move on with that.    *)
LEMMA CfgTypedFile ==
  ASSUME CfgTyped, UNCHANGED <<group, dirs, inPath>>,
         NEW p \in Path, p[1] \in dirs, NEW text \in Text \cup {Absent},
         NEW own \in SUBSET (Server \cup Setting), NEW report \in {"no", "parsed", "unparsed"},
         file' = [file EXCEPT ![p] = text],
         owed' = [owed EXCEPT ![p] = own] \/ owed' = owed,
         removed' = [removed EXCEPT ![p] = report] \/ removed' = removed,
         spoiled' \subseteq spoiled \cup {p}, DOMAIN call' = Call,
         \A c \in Call : call'[c] = call[c] \/ CfgRequest(call'[c])
  PROVE  CfgTyped'
<1>1. Path' = Path
  BY DEF Path
<1>2. DOMAIN file' = Path /\ DOMAIN owed' = Path /\ DOMAIN removed' = Path
  BY DEF CfgTyped, CfgTypeOK
<1>3. ASSUME NEW q \in Path
      PROVE  /\ file'[q] \in Text \cup {Absent} /\ (file'[q] # Absent => q[1] \in dirs)
             /\ owed'[q] \subseteq Server \cup Setting /\ removed'[q] \in {"no", "parsed", "unparsed"}
  BY DEF CfgTyped, CfgTypeOK
<1>4. \A c \in Call : CfgRequest(call'[c])
  BY DEF CfgTyped
<1>5. \A c \in Call : CfgRequest(call[c])'
  BY <1>1, <1>4 DEF CfgRequest
<1>6. \A c \in Call : call'[c].op # "idle" => call'[c].path \in Path' /\ call'[c].text \in Text
  BY <1>5 DEF CfgRequest
<1>7. spoiled' \subseteq Path
  BY DEF CfgTyped, CfgTypeOK
<1>8. QED
  BY <1>1, <1>2, <1>3, <1>5, <1>6, <1>7 DEF CfgTyped, CfgTypeOK

LEMMA CfgTypedStarts ==
  ASSUME CfgTyped, NEW c \in Call, NEW x, call' = [call EXCEPT ![c] = x],
         x.op \in {"connect", "disconnect"}, x.path \in Path, x.text \in Text,
         UNCHANGED <<group, inPath, file, owed, spoiled, removed>>,
         dirs \subseteq dirs', dirs' \subseteq Places
  PROVE  CfgTyped'
<1>1. inPath' \subseteq group /\ DOMAIN call' = Call
  BY DEF CfgTyped, CfgTypeOK
<1>2. Path' = Path
  BY DEF Path
<1>3. \A e \in Call : call'[e] = call[e] \/ call'[e] = x
  BY DEF CfgTyped
<1>4. \A e \in Call : call'[e] = call[e] \/ CfgRequest(call[e])'
  BY <1>2, <1>3 DEF CfgRequest
<1>5. QED
  BY <1>1, <1>4, CfgTypedCalls

LEMMA CutOffTyped == ASSUME NEW text PROVE CutOff(text) \subseteq Text
  BY DEF CutOff

(* A request opens or fills a file.                                         *)
LEMMA CfgTypedWrite ==
  ASSUME CfgTyped, NEW c \in Call, OpenFile(c) \/ FillFile(c) \/ FillBreaksOff(c)
  PROVE  CfgTyped'
<1>0. PICK p : p = call[c].path
  OBVIOUS
<1>1. UNCHANGED <<group, dirs, inPath>> /\ call[c].op # "idle"
  BY DEF OpenFile, FillFile, FillBreaksOff
<1>2. CfgRequest(call[c]) /\ p \in Path /\ call[c].text \in Text /\ DOMAIN call = Call
  BY <1>0, <1>1 DEF CfgTyped, CfgRequest
<1>3. p[1] \in dirs
  <2>1. CASE OpenFile(c)
    BY <1>0, <2>1 DEF OpenFile
  <2>2. CASE FillFile(c) \/ FillBreaksOff(c)
    <3>1. call[c].op \in {"connecting", "disconnecting"}
      BY <2>2 DEF FillFile, FillBreaksOff
    <3>2. QED
      BY <1>0, <1>2, <3>1 DEF CfgRequest
  <2>3. QED
    BY <2>1, <2>2
<1>4. owed[p] \subseteq Server \cup Setting /\ file[p] \in Text \cup {Absent}
  BY <1>2 DEF CfgTyped, CfgTypeOK
<1>5. CallIdle.op = "idle"
  BY DEF CallIdle
<1>6. CASE OpenFile(c)
  <2> DEFINE op == IF call[c].op = "connect" THEN "connecting" ELSE "disconnecting"
             x == [call[c] EXCEPT !.op = op]
  <2>1. call' = [call EXCEPT ![c] = x]
    BY <1>6 DEF OpenFile
  <2>2. x.path = p /\ x.text = call[c].text
    BY <1>0
  <2> HIDE DEF x
  <2>3. CfgRequest(x)
    BY <1>2, <1>3, <2>2 DEF CfgRequest
  <2>4. DOMAIN call' = Call /\ \A e \in Call : call'[e] = call[e] \/ CfgRequest(call'[e])
    BY <1>2, <2>1, <2>3
  <2>5. Emptied \in Text
    BY ContentSound DEF Sound
  <2>6. /\ file' = [file EXCEPT ![p] = Emptied] /\ removed' = removed
        /\ \E own \in SUBSET (Server \cup Setting) : owed' = [owed EXCEPT ![p] = own]
        /\ spoiled' \subseteq spoiled \cup {p}
    <3> DEFINE met == \E e \in Call : Filling(e, p)
               own == IF met THEN {} ELSE owed[p] \cap Promised(call[c].base)
    <3>1. own \in SUBSET (Server \cup Setting)
      BY <1>4
    <3>2. /\ file' = [file EXCEPT ![p] = Emptied] /\ removed' = removed
          /\ owed' = [owed EXCEPT ![p] = own]
      BY <1>0, <1>6 DEF OpenFile
    <3>3. spoiled' \subseteq spoiled \cup {p}
      BY <1>0, <1>6 DEF OpenFile
    <3> HIDE DEF own
    <3>4. QED
      BY <3>1, <3>2, <3>3
  <2>7. QED
    BY <1>1, <1>2, <1>3, <2>4, <2>5, <2>6, CfgTypedFile
<1>7. CASE FillFile(c) \/ FillBreaksOff(c)
  <2>1. call' = [call EXCEPT ![c] = CallIdle]
    BY <1>7 DEF FillFile, FillBreaksOff
  <2>2. DOMAIN call' = Call /\ \A e \in Call : call'[e] = call[e] \/ CfgRequest(call'[e])
    BY <1>2, <1>5, <2>1 DEF CfgRequest
  <2>3. \E text \in Text \cup {Absent}, own \in SUBSET (Server \cup Setting), report \in {"no", "parsed", "unparsed"} :
          /\ file' = [file EXCEPT ![p] = text] /\ owed' = [owed EXCEPT ![p] = own]
          /\ removed' = [removed EXCEPT ![p] = report] /\ spoiled' \subseteq spoiled \cup {p}
    <3>1. CASE FillFile(c)
      <4> DEFINE met == file[p] # Emptied
                 texts == IF file[p] = Absent THEN {Absent}
                          ELSE {call[c].text} \cup
                               (IF met THEN CutOff(call[c].text) \cup CutOff(file[p]) ELSE {})
                 own == IF met THEN {} ELSE owed[p]
      <4>1. PICK text \in texts :
              /\ file' = [file EXCEPT ![p] = text] /\ owed' = [owed EXCEPT ![p] = own]
              /\ spoiled' = IF met THEN spoiled \cup {p} ELSE spoiled
              /\ removed' = [removed EXCEPT ![p] =
                   IF call[c].op = "connecting" \/ text # call[c].text THEN "no"
                   ELSE IF call[c].base.json THEN "parsed" ELSE "unparsed"]
        BY <1>0, <3>1 DEF FillFile
      <4>2. texts \subseteq Text \cup {Absent}
        BY <1>2, CutOffTyped
      <4>3. own \in SUBSET (Server \cup Setting)
        BY <1>4
      <4>4. PICK report \in {"no", "parsed", "unparsed"} : removed' = [removed EXCEPT ![p] = report]
        BY <4>1
      <4>5. spoiled' \subseteq spoiled \cup {p}
        BY <4>1
      <4> HIDE DEF own, texts, met
      <4>6. QED
        BY <4>1, <4>2, <4>3, <4>4, <4>5
    <3>2. CASE FillBreaksOff(c)
      <4> DEFINE left == IF file[p] = Absent THEN {Absent} ELSE CutOff(call[c].text) \cup CutOff(file[p])
      <4>1. left \subseteq Text \cup {Absent}
        BY CutOffTyped
      <4>2. \E text \in left : /\ file' = [file EXCEPT ![p] = text] /\ owed' = [owed EXCEPT ![p] = {}]
                               /\ spoiled' = spoiled \cup {p} /\ removed' = [removed EXCEPT ![p] = "no"]
        BY <1>0, <3>2 DEF FillBreaksOff
      <4> HIDE DEF left
      <4>3. QED
        BY <4>1, <4>2
    <3>3. QED
      BY <1>7, <3>1, <3>2
  <2>4. QED
    BY <1>1, <1>2, <1>3, <2>2, <2>3, CfgTypedFile
<1>8. QED
  BY <1>6, <1>7

LEMMA CfgTypedEdit == ASSUME CfgTyped, NEW p \in Path, UserEdit(p) PROVE CfgTyped'
<1>1. p[1] \in dirs /\ UNCHANGED <<group, dirs, inPath, call, spoiled, removed>>
  BY DEF UserEdit
<1>2. ASSUME NEW text \in Text, NEW own \in SUBSET (Server \cup Setting),
             file' = [file EXCEPT ![p] = text], owed' = [owed EXCEPT ![p] = own]
      PROVE  CfgTyped'
  <2>1. DOMAIN call' = Call
    BY <1>1 DEF CfgTyped
  <2>2. QED
    BY <1>1, <1>2, <2>1, CfgTypedFile
<1>3. ASSUME NEW s \in SUBSET Server, NEW o \in SUBSET Setting, NEW sec \in BOOLEAN,
             file' = [file EXCEPT ![p] = [json |-> TRUE, section |-> sec, servers |-> s, settings |-> o]],
             owed' = [owed EXCEPT ![p] = s \cup o]
      PROVE  CfgTyped'
  <2>1. [json |-> TRUE, section |-> sec, servers |-> s, settings |-> o] \in Text
    BY DEF Text
  <2>2. QED
    BY <1>2, <1>3, <2>1
<1>4. ASSUME file[p] # Absent PROVE file[p] \in Text /\ owed[p] \subseteq Server \cup Setting
  BY <1>4 DEF CfgTyped, CfgTypeOK
<1>5. ASSUME file[p] # Absent, NEW s \in Server,
             file' = [file EXCEPT ![p].section = TRUE, ![p].servers = @ \cup {s}],
             owed' = [owed EXCEPT ![p] = owed[p] \cup {s}]
      PROVE  CfgTyped'
  <2> DEFINE text == [file[p] EXCEPT !.section = TRUE, !.servers = file[p].servers \cup {s}]
  <2>1. file' = [file EXCEPT ![p] = text]
    BY <1>5
  <2>2. text \in Text
    BY <1>4, <1>5 DEF Text
  <2> HIDE DEF text
  <2>3. QED
    BY <1>2, <1>4, <1>5, <2>1, <2>2
<1>6. ASSUME file[p] # Absent, NEW o \in Setting,
             file' = [file EXCEPT ![p].settings = @ \cup {o}],
             owed' = [owed EXCEPT ![p] = owed[p] \cup {o}]
      PROVE  CfgTyped'
  <2> DEFINE text == [file[p] EXCEPT !.settings = file[p].settings \cup {o}]
  <2>1. file' = [file EXCEPT ![p] = text]
    BY <1>6
  <2>2. text \in Text
    BY <1>4, <1>6 DEF Text
  <2> HIDE DEF text
  <2>3. QED
    BY <1>2, <1>4, <1>6, <2>1, <2>2
<1>7. QED
  BY <1>3, <1>5, <1>6 DEF UserEdit

LEMMA CfgTypedStep == ASSUME CfgTyped, CfgNext PROVE CfgTyped'
<1>0. /\ inPath \subseteq group /\ group \in Groups /\ dirs \subseteq Places /\ DOMAIN call = Call
      /\ \A c \in Call : CfgRequest(call[c])
  BY DEF CfgTyped, CfgTypeOK
<1>1. CASE Scan
  <2>1. dirs' = dirs \cup UNION {Find(a, dirs) : a \in group} /\ call' = call
    BY <1>1 DEF Scan
  <2>2. dirs' \subseteq Places
    BY <1>0, <2>1, FindPlaces
  <2>3. dirs \subseteq dirs'
    BY <2>1
  <2>4. QED
    BY <1>0, <1>1, <2>1, <2>2, <2>3, CfgTypedCalls DEF Scan
<1>2. ASSUME NEW c \in Call, NEW a \in group, ConnectRead(c, a) PROVE CfgTyped'
  <2>1. PICK chosen \in BOOLEAN, d \in CandidateDirs(a), readable \in BOOLEAN :
          LET p == <<d, ConfigName(a)>>
              unread == ~ readable \/ file[p] = Absent \/ a = "ironclaw"
          IN  /\ dirs' = IF chosen THEN dirs ELSE dirs \cup {d}
              /\ call' = [call EXCEPT ![c] =
                [op |-> "connect", path |-> p, base |-> IF unread THEN Emptied ELSE file[p],
                 text |-> IF unread THEN ContentFor ELSE Connected(a, file[p])]]
    BY <1>2 DEF ConnectRead
  <2> DEFINE p == <<d, ConfigName(a)>>
             unread == ~ readable \/ file[p] = Absent \/ a = "ironclaw"
             text == IF unread THEN ContentFor ELSE Connected(a, file[p])
             x == [op |-> "connect", path |-> p, base |-> IF unread THEN Emptied ELSE file[p], text |-> text]
  <2>2. p \in Path
    BY PathsOf
  <2>3. file[p] \in Text \cup {Absent}
    BY <2>2 DEF CfgTyped, CfgTypeOK
  <2>4. text \in Text
    BY <2>3, ConnectedTyped, ContentTyped
  <2>5. call' = [call EXCEPT ![c] = x]
    BY <2>1
  <2>6. x.op = "connect" /\ x.path = p /\ x.text = text
    OBVIOUS
  <2>7. dirs \subseteq dirs' /\ dirs' \subseteq Places
    BY <1>0, <2>1, CandidatePlaces
  <2>8. UNCHANGED <<group, inPath, file, owed, spoiled, removed>>
    BY <1>2 DEF ConnectRead
  <2> HIDE DEF x, p, text
  <2>9. QED
    BY <2>2, <2>4, <2>5, <2>6, <2>7, <2>8, CfgTypedStarts
<1>3. ASSUME NEW c \in Call, NEW a \in group, DisconnectRead(c, a) PROVE CfgTyped'
  <2>1. PICK chosen \in BOOLEAN, d \in CandidateDirs(a) :
          LET p == <<d, ".mcp.json">>
          IN  /\ file[p] # Absent
              /\ call' = [call EXCEPT ![c] =
                   [op |-> "disconnect", path |-> p, base |-> file[p], text |-> RemoveA1(file[p])]]
    BY <1>3 DEF DisconnectRead
  <2> DEFINE p == <<d, ".mcp.json">>
             x == [op |-> "disconnect", path |-> p, base |-> file[p], text |-> RemoveA1(file[p])]
  <2>2. p \in Path
    BY PathsOf
  <2>3. RemoveA1(file[p]) \in Text
    BY <2>1, <2>2, RemoveTyped DEF CfgTyped, CfgTypeOK
  <2>4. call' = [call EXCEPT ![c] = x] /\ UNCHANGED <<group, dirs, inPath, file, owed, spoiled, removed>>
    BY <1>3, <2>1 DEF DisconnectRead
  <2>5. x.op = "disconnect" /\ x.path = p /\ x.text = RemoveA1(file[p])
    OBVIOUS
  <2> HIDE DEF x, p
  <2>6. QED
    BY <1>0, <2>2, <2>3, <2>4, <2>5, CfgTypedStarts
<1>4. ASSUME NEW c \in Call, OpenFails(c) PROVE CfgTyped'
  <2>1. CallIdle.op = "idle"
    BY DEF CallIdle
  <2>2. UNCHANGED <<group, dirs, inPath, file, owed, spoiled, removed>> /\ call' = [call EXCEPT ![c] = CallIdle]
    BY <1>4 DEF OpenFails
  <2>3. DOMAIN call' = Call /\ \A e \in Call : call'[e] = call[e] \/ CfgRequest(call[e])'
    BY <1>0, <2>1, <2>2 DEF CfgRequest
  <2>4. QED
    BY <1>0, <2>2, <2>3, CfgTypedCalls
<1>5. CASE DisconnectUnlink
  <2>1. PICK d \in CandidateDirs("ironclaw") :
          LET p == <<d, ConfigName("ironclaw")>>
          IN  /\ file[p] # Absent
              /\ file' = [file EXCEPT ![p] = Absent]
              /\ removed' = [removed EXCEPT ![p] = "parsed"]
    BY <1>5 DEF DisconnectUnlink
  <2> DEFINE p == <<d, ConfigName("ironclaw")>>
  <2>2. UNCHANGED <<group, dirs, inPath, call, owed, spoiled>> /\ "ironclaw" \in group
    BY <1>5 DEF DisconnectUnlink
  <2>3. p \in Path
    BY <2>2, PathsOf
  <2>4. /\ file[p] # Absent /\ file' = [file EXCEPT ![p] = Absent]
        /\ removed' = [removed EXCEPT ![p] = "parsed"]
    BY <2>1
  <2> HIDE DEF p
  <2>5. p[1] \in dirs
    BY <2>3, <2>4 DEF CfgTyped, CfgTypeOK
  <2>6. QED
    BY <1>0, <2>2, <2>3, <2>4, <2>5, CfgTypedFile
<1>6. ASSUME NEW a \in group, Install(a) PROVE CfgTyped'
  <2>1. inPath' \subseteq group
    BY <1>0, <1>6 DEF Install
  <2>2. dirs \subseteq dirs' /\ dirs' \subseteq Places
    BY <1>0, <1>6, CandidatePlaces DEF Install
  <2>3. UNCHANGED <<group, file, call, owed, spoiled, removed>>
    BY <1>6 DEF Install
  <2>4. QED
    BY <1>0, <2>1, <2>2, <2>3, CfgTypedCalls
<1>7. QED
  BY <1>1, <1>2, <1>3, <1>4, <1>5, <1>6, CfgTypedWrite, CfgTypedEdit DEF CfgNext

(* Files rewritten in place: requests carry texts to files that may be      *)
(* written, and patterns.                                                   *)
FilesTyped ==
  /\ FilesTypeOK
  /\ DOMAIN disk = Target /\ DOMAIN bak = Target /\ DOMAIN job = Writer /\ DOMAIN adding = Writer
  /\ writes \in Nat
  /\ \A w \in Writer : job[w].at # "idle" => job[w].content \in FileText
  /\ \A w \in Writer : adding[w].at # "idle" => adding[w].seen \cup {adding[w].pattern} \subseteq Pattern

LEMMA FilesTypedInit == FilesInit => FilesTyped
<1> SUFFICES ASSUME FilesInit PROVE FilesTyped
  OBVIOUS
<1>1. \A w \in Writer : job[w].at = "idle" /\ adding[w].at = "idle"
  BY DEF FilesInit, FileIdle
<1>2. \A t \in Target : disk[t] = Original /\ bak[t] = Empty
  BY DEF FilesInit
<1>3. writes \in Nat /\ writes <= MaxWrites
  BY FilesAssumption DEF FilesInit
<1>4. /\ DOMAIN disk = Target /\ DOMAIN bak = Target /\ DOMAIN job = Writer /\ DOMAIN adding = Writer
      /\ ignore = {} /\ reported = {}
  BY DEF FilesInit
<1>5. QED
  BY <1>1, <1>2, <1>3, <1>4 DEF FilesTyped, FilesTypeOK

Contents == FileText \cup {Original, Empty}

(* A write request moves on; a file or its copy may get another content.    *)
LEMMA FilesTypedJob ==
  ASSUME FilesTyped, UNCHANGED gitVars, NEW w \in Writer, NEW x, job' = [job EXCEPT ![w] = x],
         x.at # "idle" => x.target \in BelowRoot \ System /\ x.content \in FileText,
         NEW t, NEW d, NEW b, t \in Target => d \in Contents /\ b \in Contents,
         disk' = disk \/ disk' = [disk EXCEPT ![t] = d],
         bak' = bak \/ bak' = [bak EXCEPT ![t] = b],
         writes' \in Nat, writes' <= MaxWrites
  PROVE  FilesTyped'
<1>1. DOMAIN disk' = Target /\ \A q \in Target : disk'[q] \in Contents
  BY DEF FilesTyped, FilesTypeOK, Contents
<1>2. DOMAIN bak' = Target /\ \A q \in Target : bak'[q] \in Contents
  BY DEF FilesTyped, FilesTypeOK, Contents
<1>3. /\ DOMAIN job' = Writer
      /\ \A v \in Writer :
           job'[v].at # "idle" => job'[v].target \in BelowRoot \ System /\ job'[v].content \in FileText
  BY DEF FilesTyped, FilesTypeOK
<1>4. UNCHANGED <<ignore, adding, reported>>
  BY DEF gitVars
<1>5. QED
  BY <1>1, <1>2, <1>3, <1>4 DEF FilesTyped, FilesTypeOK, Contents

LEMMA FilesTypedStep == ASSUME FilesTyped, FilesNext \/ GitNext PROVE FilesTyped'
<1>0. /\ writes \in Nat /\ writes <= MaxWrites /\ FileIdle.at = "idle" /\ Empty \in Contents
      /\ \A t \in Target : disk[t] \in Contents
  BY DEF FilesTyped, FilesTypeOK, FileIdle, Contents
<1>1. ASSUME NEW w \in Writer, NEW n \in Name, NEW c \in FileText, NEW b \in BOOLEAN,
             StartWrite(w, n, c, b)
      PROVE  FilesTyped'
  <2> DEFINE x == [at |-> IF b THEN "copy" ELSE "write", target |-> Resolves(n), content |-> c]
  <2>1. job' = [job EXCEPT ![w] = x] /\ UNCHANGED <<disk, bak, gitVars>>
    BY <1>1 DEF StartWrite
  <2>2. x.target \in BelowRoot \ System /\ x.content \in FileText
    BY <1>1 DEF StartWrite, ValidatePath
  <2>3. writes' \in Nat /\ writes' <= MaxWrites
    BY <1>0, <1>1, FilesAssumption DEF StartWrite
  <2> HIDE DEF x
  <2>4. QED
    BY <1>0, <2>1, <2>2, <2>3, FilesTypedJob
<1>2. ASSUME NEW w \in Writer, CopyOpen(w) \/ CopyFill(w) \/ WriteOpen(w) \/ WriteFill(w)
      PROVE  FilesTyped'
  <2> DEFINE t == job[w].target
             c == job[w].content
  <2>1. job[w].at # "idle" /\ writes' = writes /\ UNCHANGED gitVars
    BY <1>2 DEF CopyOpen, CopyFill, WriteOpen, WriteFill
  <2>2. t \in BelowRoot \ System /\ c \in FileText
    BY <2>1 DEF FilesTyped, FilesTypeOK
  <2>3. \E to \in {"copying", "write", "writing", "idle"} : Advance(w, to)
    BY <1>2 DEF CopyOpen, CopyFill, WriteOpen, WriteFill
  <2>4. PICK x : /\ job' = [job EXCEPT ![w] = x]
                 /\ x.at # "idle" => x.target \in BelowRoot \ System /\ x.content \in FileText
    <3>1. PICK to \in {"copying", "write", "writing", "idle"} : Advance(w, to)
      BY <2>3
    <3> DEFINE y == [job[w] EXCEPT !.at = to]
    <3>2. job' = [job EXCEPT ![w] = FileIdle] \/ job' = [job EXCEPT ![w] = y]
      BY <3>1 DEF Advance
    <3>3. y.target = t /\ y.content = c
      OBVIOUS
    <3> HIDE DEF y, t, c
    <3>4. QED
      BY <1>0, <2>2, <3>2, <3>3
  <2>5. /\ disk' = disk \/ disk' = [disk EXCEPT ![t] = Empty] \/ disk' = [disk EXCEPT ![t] = c]
        /\ bak' = bak \/ bak' = [bak EXCEPT ![t] = Empty] \/ bak' = [bak EXCEPT ![t] = disk[t]]
    BY <1>2 DEF CopyOpen, CopyFill, WriteOpen, WriteFill
  <2>6. c \in Contents /\ (t \in Target => disk[t] \in Contents)
    BY <1>0, <2>2 DEF Contents
  <2>7. \E d, b : /\ t \in Target => d \in Contents /\ b \in Contents
                  /\ disk' = disk \/ disk' = [disk EXCEPT ![t] = d]
                  /\ bak' = bak \/ bak' = [bak EXCEPT ![t] = b]
    <3> HIDE DEF t, c
    <3>1. \E d : (t \in Target => d \in Contents) /\ (disk' = disk \/ disk' = [disk EXCEPT ![t] = d])
      BY <1>0, <2>5, <2>6
    <3>2. \E b : (t \in Target => b \in Contents) /\ (bak' = bak \/ bak' = [bak EXCEPT ![t] = b])
      BY <1>0, <2>5, <2>6
    <3>3. QED
      BY <3>1, <3>2
  <2> HIDE DEF t, c
  <2>8. QED
    BY <1>0, <2>1, <2>4, <2>7, FilesTypedJob
<1>3. ASSUME UNCHANGED fileOnly, DOMAIN adding' = Writer, ignore' \subseteq Pattern, reported' \subseteq Pattern,
             \A w \in Writer :
               adding'[w].at # "idle" => adding'[w].seen \cup {adding'[w].pattern} \subseteq Pattern
      PROVE  FilesTyped'
  BY <1>3 DEF FilesTyped, FilesTypeOK, fileOnly
<1>4. ASSUME NEW w \in Writer, NEW p \in Pattern, GitignoreRead(w, p) PROVE FilesTyped'
  <2>1. ignore \subseteq Pattern /\ reported \subseteq Pattern
    BY DEF FilesTyped, FilesTypeOK
  <2>2. PICK seen \in {ignore, {}} :
          \/ adding' = adding
          \/ adding' = [adding EXCEPT ![w] = [at |-> "write", seen |-> seen, pattern |-> p]]
    BY <1>4 DEF GitignoreRead
  <2> DEFINE x == [at |-> "write", seen |-> seen, pattern |-> p]
  <2>3. adding' = adding \/ adding' = [adding EXCEPT ![w] = x]
    BY <2>2
  <2>4. x.seen \cup {x.pattern} \subseteq Pattern
    BY <2>1
  <2> HIDE DEF x
  <2>5. /\ DOMAIN adding' = Writer
        /\ \A v \in Writer :
             adding'[v].at # "idle" => adding'[v].seen \cup {adding'[v].pattern} \subseteq Pattern
    BY <2>3, <2>4 DEF FilesTyped
  <2>6. ignore' \subseteq Pattern /\ reported' \subseteq Pattern /\ UNCHANGED fileOnly
    BY <1>4, <2>1 DEF GitignoreRead
  <2>7. QED
    BY <1>3, <2>5, <2>6
<1>5. ASSUME NEW w \in Writer, GitignoreOpen(w) \/ GitignoreFill(w) \/ GitignoreFails(w)
      PROVE  FilesTyped'
  <2>1. adding[w].at # "idle" /\ ignore \subseteq Pattern /\ reported \subseteq Pattern
    BY <1>5 DEF GitignoreOpen, GitignoreFill, GitignoreFails, FilesTyped, FilesTypeOK
  <2>2. AddingText(w) \subseteq Pattern /\ adding[w].pattern \in Pattern
    BY <2>1 DEF FilesTyped, AddingText, Appended
  <2>3. ignore' \subseteq Pattern /\ reported' \subseteq Pattern /\ UNCHANGED fileOnly
    BY <1>5, <2>1, <2>2 DEF GitignoreOpen, GitignoreFill, GitignoreFails
  <2>4. adding' = [adding EXCEPT ![w].at = "writing"] \/ adding' = [adding EXCEPT ![w] = FileIdle]
    BY <1>5 DEF GitignoreOpen, GitignoreFill, GitignoreFails
  <2>5. /\ DOMAIN adding' = Writer
        /\ \A v \in Writer : v # w => adding'[v] = adding[v]
        /\ \/ adding'[w] = FileIdle
           \/ adding'[w].seen = adding[w].seen /\ adding'[w].pattern = adding[w].pattern
    <3>1. DOMAIN adding = Writer
      BY DEF FilesTyped
    <3>2. CASE adding' = [adding EXCEPT ![w] = FileIdle]
      BY <3>1, <3>2
    <3>3. CASE adding' = [adding EXCEPT ![w].at = "writing"]
      BY <3>1, <3>3
    <3>4. QED
      BY <2>4, <3>2, <3>3
  <2>6. /\ DOMAIN adding' = Writer
        /\ \A v \in Writer :
             adding'[v].at # "idle" => adding'[v].seen \cup {adding'[v].pattern} \subseteq Pattern
    BY <1>0, <2>1, <2>5 DEF FilesTyped
  <2>7. QED
    BY <1>3, <2>3, <2>6
<1>6. CASE Crash
  <2>1. \A w \in Writer : job'[w].at = "idle" /\ adding'[w].at = "idle"
    BY <1>0, <1>6 DEF Crash
  <2>2. /\ DOMAIN job' = Writer /\ DOMAIN adding' = Writer /\ UNCHANGED <<disk, bak, writes, ignore>>
        /\ reported' \subseteq reported
    BY <1>6 DEF Crash
  <2>3. QED
    BY <2>1, <2>2 DEF FilesTyped, FilesTypeOK
<1>7. QED
  BY <1>1, <1>2, <1>4, <1>5, <1>6 DEF FilesNext, GitNext

(* Starting at login.                                                       *)
LEMMA AutoTypedInit == AutoInit => AutoTypeOK
BY DEF AutoInit, AutoTypeOK

LEMMA AutoTypedStep == ASSUME AutoTypeOK, AutoNext PROVE AutoTypeOK'
<1> DEFINE Units == {"com.a1.gateway", "com.dyolo.a1-gateway", "a1-gateway.service", "A1Gateway"}
<1>1. EnableUnit \in Units
  BY DEF EnableUnit
<1>2. InstallUnit \in Units
  BY <1>1 DEF InstallUnit
<1>3. /\ units \subseteq Units
      /\ said \in {"nothing", "error", "on", "off", "none found"}
      /\ platform = "windows" => units \subseteq loaded
  BY DEF AutoTypeOK
<1>4. SUFFICES /\ units' \subseteq Units
               /\ said' \in {"nothing", "error", "on", "off", "none found"}
               /\ platform' = "windows" => units' \subseteq loaded'
  BY DEF AutoTypeOK
<1> HIDE DEF Units
<1>5. CASE EnableAutostart
  BY <1>1, <1>3, <1>5 DEF EnableAutostart
<1>6. CASE InstallAutostart
  BY <1>2, <1>3, <1>6 DEF InstallAutostart
<1>7. CASE RemoveAutostart
  <2> DEFINE mine == units \cap {InstallUnit}
  <2>1. PICK unloaded \in BOOLEAN, absent \in BOOLEAN :
          /\ platform = "windows" => unloaded = absent
          /\ loaded' = IF unloaded THEN loaded \ mine ELSE loaded
          /\ units' = IF absent THEN units \ mine ELSE units
    BY <1>7 DEF RemoveAutostart
  <2>2. platform' = platform /\ said' \in {"none found", "off"}
    BY <1>7 DEF RemoveAutostart
  <2>3. CASE absent
    <3>1. units' = units \ mine /\ (platform = "windows" => unloaded)
      BY <2>1, <2>3
    <3>2. QED
      BY <1>3, <2>1, <2>2, <3>1
  <2>4. CASE ~ absent
    <3>1. units' = units /\ (platform = "windows" => ~ unloaded)
      BY <2>1, <2>4
    <3>2. QED
      BY <1>3, <2>1, <2>2, <3>1
  <2>5. QED
    BY <2>3, <2>4
<1>8. CASE Dropped
  BY <1>3, <1>8 DEF Dropped
<1>9. QED
  BY <1>5, <1>6, <1>7, <1>8 DEF AutoNext

LEMMA NegTypedQuiet ==
  ASSUME NegTyped, now' = now \/ Tick, UNCHANGED negOnly
  PROVE  NegTyped'
<1>1. ClockOK' /\ UNCHANGED <<requests, offers, agreed>>
  BY ClockTyped DEF NegTyped, NegTypeOK, negOnly
<1>2. QED
  BY <1>1 DEF NegTyped, NegTypeOK

(* Every part has its type, whichever of them moves.                        *)
Typed ==
  /\ NegTyped /\ AppTyped /\ IssTyped /\ JwtTyped
  /\ McpTyped /\ CfgTyped /\ FilesTyped /\ ProbeInv /\ AutoTypeOK

LEMMA ClockPartsTyped ==
  ASSUME NegTyped, AppTyped, IssTyped, JwtTyped, [Next]_vars
  PROVE  NegTyped' /\ AppTyped' /\ IssTyped' /\ JwtTyped'
<1>1. now' = now \/ Tick
  BY ClockMoves DEF Next, vars, clockVars
<1>2. NegNext \/ UNCHANGED negOnly
  BY DEF Next, vars, clockVars
<1>3. AppNext \/ UNCHANGED appOnly
  BY DEF Next, vars, clockVars
<1>4. IssNext \/ UNCHANGED issOnly
  BY DEF Next, vars, clockVars
<1>5. JwtNext \/ UNCHANGED jwtOnly
  BY DEF Next, vars, clockVars
<1>6. UNCHANGED jwtOnly => JwtTyped'
  BY <1>1, JwtTypedQuiet DEF jwtOnly, JwtTyped, JwtTypeOK
<1>7. UNCHANGED appOnly => AppTyped'
  BY <1>1, AppTypedQuiet DEF appOnly
<1>8. QED
  BY <1>1, <1>2, <1>3, <1>4, <1>5, <1>6, <1>7, NegTypedStep, NegTypedQuiet, AppTypedStep, IssTypedStep,
     IssTypedQuiet, JwtTypedStep

LEMMA AgentPartsTyped ==
  ASSUME McpTyped, CfgTyped, FilesTyped, ProbeInv, AutoTypeOK, [Next]_vars
  PROVE  McpTyped' /\ CfgTyped' /\ FilesTyped' /\ ProbeInv' /\ AutoTypeOK'
<1>1. McpNext \/ UNCHANGED mcpVars
  BY DEF Next, vars, agentVars
<1>2. CfgNext \/ UNCHANGED cfgVars
  BY DEF Next, vars, agentVars
<1>3. FilesNext \/ GitNext \/ UNCHANGED filesVars
  BY DEF Next, vars, agentVars
<1>4. AutoNext \/ UNCHANGED autoVars
  BY DEF Next, vars, agentVars
<1>5. UNCHANGED mcpVars => McpTyped'
  BY DEF mcpVars, McpTyped, McpTypeOK
<1>6. UNCHANGED cfgVars => CfgTyped'
  <2> SUFFICES ASSUME UNCHANGED cfgVars PROVE CfgTyped'
    OBVIOUS
  <2>1. UNCHANGED <<group, dirs, inPath, file, call, owed, spoiled, removed>>
    BY DEF cfgVars
  <2>2. QED
    BY <2>1, CfgTypedCalls DEF CfgTyped, CfgTypeOK
<1>7. UNCHANGED filesVars => FilesTyped'
  BY DEF filesVars, gitVars, FilesTyped, FilesTypeOK
<1>8. UNCHANGED autoVars => AutoTypeOK'
  BY DEF autoVars, AutoTypeOK
<1>9. ProbeNext \/ UNCHANGED probeVars
  BY DEF Next, vars, agentVars
<1>10. QED
  BY <1>1, <1>2, <1>3, <1>4, <1>5, <1>6, <1>7, <1>8, <1>9, McpTypedStep, CfgTypedStep, FilesTypedStep,
     ProbeInvStep, ProbeInvQuiet, AutoTypedStep

(* Every part of the gateway keeps its types and bounds, whichever of them  *)
(* moves: what messages, caches, key sets, files and requests in flight     *)
(* hold is what the handlers expect there.                                  *)
THEOREM GatewayTypesAlways == Spec => []TypeOK
<1>1. Init => Typed
  BY NegTypedInit, AppTypedInit, IssTypedInit, JwtTypedInit, McpTypedInit, CfgTypedInit, FilesTypedInit,
     ProbeInvInit, AutoTypedInit DEF Init, Typed
<1>2. Typed /\ [Next]_vars => Typed'
  BY ClockPartsTyped, AgentPartsTyped DEF Typed
<1>3. Typed => TypeOK
  BY DEF Typed, TypeOK, NegTyped, AppTyped, IssTyped, JwtTyped, McpTyped, CfgTyped, FilesTyped, ProbeInv
<1>4. QED
  BY <1>1, <1>2, <1>3, PTL DEF Spec
=============================================================================
