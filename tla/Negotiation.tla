----------------------------- MODULE Negotiation -----------------------------
(***************************************************************************)
(* Agent-to-agent negotiation (negotiate.rs) against POST /v1/negotiate    *)
(* (a1-gateway routes/negotiate.rs): signed request, signed offer with a   *)
(* certificate, signed acceptance.                                         *)
(*                                                                         *)
(* Signatures are ideal: one verifies when the named key has signed those  *)
(* very bytes.  Messages may be repeated, delayed, and altered in transit  *)
(* in any field.  Two fields are not what they seem: the DID of a request  *)
(* is signed, but the key it is verified with is named beside it and need  *)
(* not be the DID's; and the lifetime of an offer is not signed at all.    *)
(***************************************************************************)
EXTENDS GatewayClock

CONSTANTS
  Gateway,       \* the gateway's signing key
  Allowed,       \* A1_NEGOTIATE_CAPABILITIES; empty when it is not set
  AllowAll,      \* A1_NEGOTIATE_ALLOW_ALL is 1
  MaxAge,        \* 300: seconds that a request stays fresh
  MaxTtl,        \* 86400: the longest lifetime that is granted
  Ttls,          \* lifetimes that agents ask for
  CapLists,      \* the sets of capabilities that agents list
  Skew,          \* how far an agent's clock may run ahead
  OfferTtl,      \* 120: the lifetime in seconds that an offer is given
  OtherTtl,      \* another lifetime, that an offer may claim when it arrives
  MaxMessages    \* bound: requests made, offers made, and acceptances

ASSUME NegotiationAssumption ==
  /\ Gateway \notin Agent
  /\ {MaxAge, MaxTtl, Skew, MaxMessages, OfferTtl, OtherTtl} \subseteq Nat
  /\ Ttls \subseteq Nat
  /\ CapLists \subseteq SUBSET Capability

VARIABLES
  requests,    \* CapabilityRequests that were built
  offers,      \* DelegationOffers that were built
  agreed       \* DelegationAcceptances, with the offer that the agent saw

negVars == <<now, requests, offers, agreed>>

Cert == [delegate : Agent, intent : Capability, issued_at : Nat, expiration : Nat]

CapabilityRequest ==
  [did : Agent, pk : Agent, caps : CapLists, intent : Capability, ttl : Ttls,
   nonce : 1 .. MaxMessages, timestamp : Nat]

DelegationOffer ==
  [offerer : {Gateway}, request_nonce : 1 .. MaxMessages, cert : Cert,
   offer_nonce : 1 .. MaxMessages, timestamp : Nat, offer_ttl : Nat]

NegTypeOK ==
  /\ ClockOK
  /\ requests \subseteq CapabilityRequest
  /\ offers \subseteq DelegationOffer
  /\ agreed \subseteq [acceptor : Agent, offer : DelegationOffer]

NegInit ==
  /\ now = 0
  /\ requests = {}
  /\ offers = {}
  /\ agreed = {}

-----------------------------------------------------------------------------

(* Plausible mistake: the name of the intent is left out of the signed       *)
(* bytes.                                                                    *)
RequestWithoutIntent(q) == <<q.did, q.nonce, q.timestamp, q.ttl, q.caps>>

(* The DID is signed, and not the key; a DID is written as the key it names. *)
request_signable_bytes(q) == <<q.did, q.nonce, q.timestamp, q.ttl, q.intent, q.caps>>

(* Plausible mistake: the certificate is left out of the signed bytes.       *)
OfferWithoutCert(o) == <<o.offerer, o.request_nonce, o.offer_nonce, o.timestamp>>

(* The offer's lifetime is not among the signed bytes.                       *)
offer_signable_bytes(o) ==
  <<o.offerer, o.request_nonce, o.offer_nonce, o.timestamp, o.cert>>

(* verify_signature of a request, by the key beside the DID, and of an       *)
(* offer, by the key in its DID.                                             *)
RequestSigned(q) ==
  \E r \in requests : r.pk = q.pk /\ request_signable_bytes(r) = request_signable_bytes(q)

OfferSigned(o) ==
  \E p \in offers : p.offerer = o.offerer /\ offer_signable_bytes(p) = offer_signable_bytes(o)

(* verify_freshness: the subtraction saturates at zero.                     *)
verify_freshness(q) == now - q.timestamp <= MaxAge

(* check_capability_policy looks at the listed capabilities.                *)
check_capability_policy(caps) == AllowAll \/ (Allowed # {} /\ caps \subseteq Allowed)

-----------------------------------------------------------------------------

(* CapabilityRequest::build, by the clock of the agent, puts the DID of its  *)
(* own key; a client that does not use it may sign any.                      *)
Ask(agent, did, caps, intent, ttl, ahead) ==
  /\ Cardinality(requests) < MaxMessages
  /\ requests' = requests \cup
       {[did |-> did, pk |-> agent, caps |-> caps, intent |-> intent, ttl |-> ttl,
         nonce |-> Cardinality(requests) + 1, timestamp |-> now + ahead]}
  /\ UNCHANGED <<now, offers, agreed>>

(* negotiate_inner on a request that may have been altered: a certificate   *)
(* for the key and the intent that the request names, and the offer around  *)
(* it.  The policy has looked at the capabilities listed, of which the      *)
(* intent need not be one.  A lifetime of zero makes sign panic, and        *)
(* nothing is issued.                                                       *)
Negotiate(q) ==
  /\ Cardinality(offers) < MaxMessages
  /\ RequestSigned(q)
  /\ verify_freshness(q)
  /\ check_capability_policy(q.caps)
  /\ AtMost(q.ttl, MaxTtl) > 0
  /\ LET cert == [delegate |-> q.pk, intent |-> q.intent, issued_at |-> now,
                  expiration |-> now + AtMost(q.ttl, MaxTtl)]
     IN offers' = offers \cup
          {[offerer |-> Gateway, request_nonce |-> q.nonce, cert |-> cert,
            offer_nonce |-> Cardinality(offers) + 1, timestamp |-> now, offer_ttl |-> OfferTtl]}
  /\ UNCHANGED <<now, requests, agreed>>

(* The agent verifies an offer that may have been altered, and accepts it,  *)
(* however old it is: no code compares an offer's lifetime with a clock.    *)
Accept(agent, o) ==
  /\ Cardinality(agreed) < MaxMessages
  /\ OfferSigned(o)
  /\ agreed' = agreed \cup {[acceptor |-> agent, offer |-> o]}
  /\ UNCHANGED <<now, requests, offers>>

NegTick == Tick /\ UNCHANGED <<requests, offers, agreed>>

(* A message as it arrives: one field may differ from what was sent.        *)
AlteredRequests(q) ==
  {q} \cup {[q EXCEPT !.intent = i] : i \in Capability}
      \cup {[q EXCEPT !.caps = c] : c \in CapLists}
      \cup {[q EXCEPT !.pk = k] : k \in Agent}
      \cup {[q EXCEPT !.did = k] : k \in Agent}
      \cup {[q EXCEPT !.ttl = t] : t \in Ttls}
      \cup {[q EXCEPT !.nonce = n] : n \in 1 .. MaxMessages}
      \cup {[q EXCEPT !.timestamp = t] : t \in 0 .. MaxTime}

AlteredOffers(o) ==
  {[o EXCEPT !.cert = p.cert] : p \in offers}
    \cup {[o EXCEPT !.request_nonce = n] : n \in 1 .. MaxMessages}
    \cup {[o EXCEPT !.offer_nonce = n] : n \in 1 .. MaxMessages}
    \cup {[o EXCEPT !.timestamp = t] : t \in 0 .. MaxTime}
    \cup {[o EXCEPT !.offer_ttl = OtherTtl]}

NegNext ==
  \/ NegTick
  \/ \E agent, did \in Agent, caps \in CapLists, intent \in Capability, ttl \in Ttls, ahead \in 0 .. Skew :
       Ask(agent, did, caps, intent, ttl, ahead)
  \/ \E r \in requests : \E q \in AlteredRequests(r) : Negotiate(q)
  \/ \E p \in offers : \E o \in AlteredOffers(p) : Accept(o.cert.delegate, o)

NegSpec == NegInit /\ [][NegNext]_negVars

-----------------------------------------------------------------------------

(* A certificate is offered only to a key that has itself signed a request   *)
(* for that intent, whose nonce the offer echoes: not longer ago than        *)
(* MaxAge, listing no capability that the policy refuses, and for no shorter *)
(* a life (negotiate_inner).  It does not say that the intent is one of the  *)
(* capabilities listed, nor that the request's DID is the key's: neither is  *)
(* checked.                                                                  *)
CertWasAsked ==
  \A o \in offers : \E q \in requests :
    /\ o.cert.delegate = q.pk
    /\ o.cert.intent = q.intent
    /\ o.request_nonce = q.nonce
    /\ check_capability_policy(q.caps)
    /\ o.cert.issued_at - q.timestamp <= MaxAge
    /\ o.cert.expiration <= o.cert.issued_at + AtMost(q.ttl, MaxTtl)

AllButLifetime == {"offerer", "request_nonce", "cert", "offer_nonce", "timestamp"}

(* Both ends of a finished handshake mean the same: the offer that an agent  *)
(* accepted is the one the gateway made under that nonce, in every field but *)
(* the lifetime, which is not signed and may be anything                     *)
(* (DelegationOffer::verify_signature, DelegationAcceptance::build).         *)
SameOfferAgreed ==
  \A a \in agreed :
    /\ \E o \in offers : \A f \in AllButLifetime : a.offer[f] = o[f]
    /\ \A o \in offers : a.offer.offer_nonce = o.offer_nonce => a.offer.cert = o.cert

(* Both ends of a negotiation can rely on what was signed, and on no more.   *)
OfferAuthentic == CertWasAsked /\ SameOfferAgreed
=============================================================================
