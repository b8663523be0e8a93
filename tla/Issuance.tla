------------------------------- MODULE Issuance -------------------------------
(***************************************************************************)
(* POST /v1/cert/issue and /v1/cert/issue-batch with their idempotency     *)
(* caches (a1-gateway routes/cert.rs).  Requests run in parallel: a cache  *)
(* is locked while it is looked up and again while the answer is stored,   *)
(* and not in between.  A restart empties both caches.                     *)
(***************************************************************************)
EXTENDS GatewayClock

CONSTANTS
  Request,      \* requests in flight
  IdemKey,      \* values of the Idempotency-Key header
  NoKey,        \* the header is missing
  Batches,      \* what is asked for: sequences of lifetimes
  CacheTtl,     \* 300: seconds that an answer is kept
  CacheLimit,   \* 1000: a fuller cache is swept before a lookup
  U64Max,       \* 2^64 - 1
  MaxCerts      \* bound: certificates that are signed

ASSUME IssuanceAssumption ==
  /\ NoKey \notin IdemKey
  /\ {CacheTtl, CacheLimit, U64Max, MaxCerts} \subseteq Nat
  /\ Batches \subseteq Seq(0 .. U64Max)
  /\ MaxTime <= U64Max

VARIABLES
  cache,     \* both caches: <<route, key>> -> expiry of the entry, certificates
  calls,     \* the request that each caller has in flight
  signedN,   \* how many certificates were signed
  given,     \* history since the last start: what was signed and answered under
             \* each key, and when last
  answer     \* the last answer

issVars == <<now, cache, calls, signedN, given, answer>>

Route == {"issue", "issue-batch"}

IssuedCert == [id : 1 .. MaxCerts, issued_at : Nat, expiration : Nat, ttl : Nat]

Idle == [pc |-> "idle"]

NoAnswer == [key |-> NoKey, certs |-> << >>]

Slot == Route \X (IdemKey \cup {NoKey})

IssTypeOK ==
  /\ ClockOK
  /\ DOMAIN cache \subseteq Route \X IdemKey
  /\ \A k \in DOMAIN cache :
       cache[k].exp \in 0 .. MaxTime + CacheTtl /\ cache[k].certs \in Seq(IssuedCert)
  /\ \A r \in Request :
       calls[r] = Idle \/ (calls[r].pc \in {"sign", "store"} /\ calls[r].began <= now)
  /\ \A k \in Slot : given[k].last \in -1 .. now
  /\ signedN \in 0 .. MaxCerts

IssInit ==
  /\ now = 0
  /\ cache = << >>
  /\ calls = [r \in Request |-> Idle]
  /\ signedN = 0
  /\ given = [k \in Slot |-> [last |-> -1, certs |-> {}]]
  /\ answer = NoAnswer

-----------------------------------------------------------------------------

OfRoute(c, route) == {k \in DOMAIN c : k[1] = route}

(* Plausible mistake: a full cache is thrown away.                           *)
SweepAll(c, route) ==
  IF Cardinality(OfRoute(c, route)) > CacheLimit
  THEN [k \in DOMAIN c \ OfRoute(c, route) |-> c[k]]
  ELSE c

(* The eviction before a lookup: entries that have not expired are kept.    *)
Sweep(c, route) ==
  IF Cardinality(OfRoute(c, route)) > CacheLimit
  THEN [k \in {k \in DOMAIN c : k[1] = route => c[k].exp > now} |-> c[k]]
  ELSE c

Answer(call, certs, fresh) ==
  /\ answer' = [route |-> call.route, key |-> call.key, certs |-> certs, fresh |-> fresh,
                began |-> call.began, last |-> call.last]
  /\ given' = IF fresh /\ call.key # NoKey
              THEN [given EXCEPT ![<<call.route, call.key>>] =
                     [last |-> now, certs |-> @.certs \cup {certs}]]
              ELSE given

NoAnswerYet == UNCHANGED <<given, answer>>

(* The first half of both handlers: an answer that is still cached ends the *)
(* request; an empty batch is refused only after the lookup.                *)
Lookup(r, route, key, ttls) ==
  LET call == [pc |-> "sign", route |-> route, key |-> key, ttls |-> ttls,
               began |-> now, last |-> given[<<route, key>>].last]
      swept == IF key = NoKey THEN cache ELSE Sweep(cache, route)
      hit == <<route, key>> \in DOMAIN swept /\ swept[<<route, key>>].exp > now
  IN /\ calls[r] = Idle
     /\ cache' = swept
     /\ IF hit THEN Answer(call, swept[<<route, key>>].certs, FALSE) /\ UNCHANGED calls
        ELSE /\ calls' = [calls EXCEPT ![r] = IF ttls = << >> THEN Idle ELSE call]
             /\ NoAnswerYet
     /\ UNCHANGED <<now, signedN>>

(* Plausible mistake: the sum is taken for granted.                          *)
LifetimeUnchecked(ttl) == TRUE

(* The lifetime that sign insists on: now + ttl wraps around in a release   *)
(* build, and an expiry that does not lie ahead panics.                     *)
LifetimeOk(ttl) == (now + ttl) % (U64Max + 1) > now

(* issue_inner for each entry, in order; the first that fails ends the      *)
(* request with an error, and what was signed before it is dropped.         *)
Sign(r) ==
  LET call == calls[r]
      n == Len(call.ttls)
      good == \A i \in 1 .. n : LifetimeOk(call.ttls[i])
      certs == [i \in 1 .. n |->
                 [id |-> signedN + i, issued_at |-> now, ttl |-> call.ttls[i],
                  expiration |-> (now + call.ttls[i]) % (U64Max + 1)]]
  IN /\ call.pc = "sign"
     /\ signedN + n <= MaxCerts
     /\ IF ~ good THEN calls' = [calls EXCEPT ![r] = Idle] /\ UNCHANGED signedN /\ NoAnswerYet
        ELSE /\ signedN' = signedN + n
             /\ IF call.key = NoKey
                THEN calls' = [calls EXCEPT ![r] = Idle] /\ Answer(call, certs, TRUE)
                ELSE /\ calls' = [calls EXCEPT ![r] =
                          [pc |-> "store", route |-> call.route, key |-> call.key, certs |-> certs,
                           began |-> call.began, last |-> call.last]]
                     /\ NoAnswerYet
     /\ UNCHANGED <<now, cache>>

(* The second half: the answer is stored under the key and sent.            *)
Store(r) ==
  LET call == calls[r]
      slot == <<call.route, call.key>>
  IN /\ call.pc = "store"
     /\ cache' = [k \in DOMAIN cache \cup {slot} |->
                    IF k = slot THEN [exp |-> now + CacheTtl, certs |-> call.certs] ELSE cache[k]]
     /\ calls' = [calls EXCEPT ![r] = Idle]
     /\ Answer(call, call.certs, TRUE)
     /\ UNCHANGED <<now, signedN>>

(* The gateway is restarted.                                                *)
IssRestart ==
  /\ cache' = << >>
  /\ calls' = [r \in Request |-> Idle]
  /\ given' = [k \in Slot |-> [last |-> -1, certs |-> {}]]
  /\ answer' = NoAnswer
  /\ UNCHANGED <<now, signedN>>

IssTick == Tick /\ UNCHANGED <<cache, calls, signedN>> /\ NoAnswerYet

IssNext ==
  \/ IssTick
  \/ IssRestart
  \/ \E r \in Request :
       \/ \E key \in IdemKey \cup {NoKey}, ttls \in Batches :
            \/ Len(ttls) = 1 /\ Lookup(r, "issue", key, ttls)
            \/ Lookup(r, "issue-batch", key, ttls)
       \/ Sign(r)
       \/ Store(r)

IssSpec == IssInit /\ [][IssNext]_issVars

-----------------------------------------------------------------------------

(* A key protects against a repeated issuance: a request that begins after  *)
(* another with the same key was answered, and before the answer's five     *)
(* minutes are over, signs nothing and is answered with certificates that   *)
(* were signed for that key (issue_handler, issue_batch_handler).           *)
NoReissue ==
  answer.key # NoKey =>
    IF answer.fresh THEN answer.last = -1 \/ answer.began >= answer.last + CacheTtl
    ELSE answer.certs \in given[<<answer.route, answer.key>>].certs

(* Certificates live exactly as long as was asked for, even when the sum    *)
(* leaves 64 bits (issue_inner and CertBuilder::sign).                      *)
LivesAsAsked ==
  \A i \in DOMAIN answer.certs :
    answer.certs[i].expiration = answer.certs[i].issued_at + answer.certs[i].ttl

(* The issuance routes give out what was asked for, with the lifetimes of    *)
(* the request, and give it out again to a request that begins while the     *)
(* answer to an earlier one with its key is kept.                            *)
IssuedAsAsked == NoReissue /\ LivesAsAsked
=============================================================================
