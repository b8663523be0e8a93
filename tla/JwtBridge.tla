------------------------------ MODULE JwtBridge ------------------------------
(***************************************************************************)
(* POST /v1/jwt/exchange (a1-gateway routes/jwt_bridge.rs): a token of an  *)
(* identity provider is exchanged for a certificate.  The provider's key   *)
(* set is cached; concurrent requests that find no fresh entry each fetch  *)
(* it, and store it when their answer has arrived, in any order.           *)
(***************************************************************************)
EXTENDS GatewayClock

CONSTANTS
  Exchange,    \* requests in flight
  KeySets,     \* key sets that the provider may publish, each a sequence
  Token,       \* tokens that callers hold: [kid, key, sub, exp]
  Lifetimes,   \* values of ttl_seconds
  NoKid,       \* an entry or a token does not name its key
  JwksTtl,     \* 300: seconds that a fetched key set is used
  Never,       \* u64::MAX: the exp of a token that has none
  MaxExchanged \* bound: certificates that are issued

ASSUME JwtAssumption ==
  /\ {JwksTtl, Never, MaxExchanged} \subseteq Nat
  /\ JwksTtl > 0
  /\ \A keys \in KeySets : DOMAIN keys \subseteq Nat
  /\ \A token \in Token : token.exp \in Nat
  /\ Lifetimes \subseteq Nat
  /\ Never > MaxTime

VARIABLES
  published,   \* the key set that the provider publishes now
  lastSeen,    \* ghost: when the provider last published each key
  jwks,        \* JWKS_CACHE: empty or one entry
  exchanges,   \* the request that each caller has in flight
  exchanged    \* certificates, with the token and key set behind them

jwtVars == <<now, published, lastSeen, jwks, exchanges, exchanged>>

SigningKeys(keys) == {keys[i].key : i \in DOMAIN keys}

AllKeys == UNION {SigningKeys(keys) : keys \in KeySets}

NoEntry == [keys |-> << >>, fetched |-> 0 - JwksTtl, answered |-> 0 - JwksTtl]

Waiting == [pc |-> "idle"]

JwtTypeOK ==
  /\ ClockOK
  /\ published \in KeySets
  /\ lastSeen \in [AllKeys -> -1 .. MaxTime]
  /\ jwks = NoEntry \/ (jwks.keys \in KeySets /\ jwks.answered <= jwks.fetched)
  /\ \A r \in Exchange : exchanges[r].pc \in {"idle", "fetch", "reply", "store"}
  /\ \A x \in exchanged : x.token \in Token /\ x.expiration > x.at

Seen(keys, t) == [k \in AllKeys |-> IF k \in SigningKeys(keys) THEN t ELSE lastSeen[k]]

JwtInit ==
  /\ now = 0
  /\ published \in KeySets
  /\ lastSeen = [k \in AllKeys |-> IF k \in SigningKeys(published) THEN 0 ELSE -1]
  /\ jwks = NoEntry
  /\ exchanges = [r \in Exchange |-> Waiting]
  /\ exchanged = {}

-----------------------------------------------------------------------------

(* verify_jwt_rsa: the first key that may be meant, and no other, must      *)
(* verify the signature.                                                    *)
verify_jwt_rsa(token, keys) ==
  LET meant == {i \in DOMAIN keys : token.kid = NoKid \/ keys[i].kid \in {NoKid, token.kid}}
  IN meant # {} /\ keys[CHOOSE i \in meant : \A j \in meant : i <= j].key = token.key

(* Plausible mistake: the remaining life of the token is taken when the      *)
(* request came.                                                             *)
TtlWhenAsked(token, ttl, asked) == AtMost(ttl, token.exp - asked)

(* The lifetime is capped by what is left of the token.                     *)
TtlLeft(token, ttl, asked) == AtMost(ttl, token.exp - now)

(* exchange_inner once it has the keys: no certificate for a token that     *)
(* does not verify, has no subject or has expired, nor for a lifetime of 0. *)
Finish(r, token, ttl, asked, entry) ==
  LET life == TtlLeft(token, ttl, asked)
      good == verify_jwt_rsa(token, entry.keys) /\ token.sub # "" /\ token.exp > now /\ life > 0
  IN /\ good => Cardinality(exchanged) < MaxExchanged
     /\ exchanged' = IF good
                     THEN exchanged \cup {[token |-> token, at |-> now, expiration |-> now + life,
                                           lastSeen |-> lastSeen[token.key],
                                           delay |-> entry.fetched - entry.answered,
                                           cached |-> entry.fetched]}
                     ELSE exchanged
     /\ exchanges' = [exchanges EXCEPT ![r] = Waiting]

(* Plausible mistake: an entry is used for as long as it is there.           *)
AlwaysFresh(entry) == entry # NoEntry

Fresh(entry) == now - entry.fetched < JwksTtl

(* exchange_inner up to its use of the cache; from a fresh entry to the end  *)
(* nothing waits. A request with a malformed key, or with a capability       *)
(* outside A1_JWT_ALLOWED_CAPS, ends without effect and is left out.         *)
Begin(r, token, ttl) ==
  /\ exchanges[r] = Waiting
  /\ IF Fresh(jwks) THEN Finish(r, token, ttl, now, jwks)
     ELSE /\ exchanges' = [exchanges EXCEPT ![r] =
                [pc |-> "fetch", token |-> token, ttl |-> ttl, asked |-> now]]
          /\ UNCHANGED exchanged
  /\ UNCHANGED <<now, published, lastSeen, jwks>>

(* The provider answers with the keys that it publishes at that time.       *)
ProviderAnswers(r) ==
  /\ exchanges[r].pc = "fetch"
  /\ exchanges' = [exchanges EXCEPT ![r] =
       [pc |-> "reply", token |-> @.token, ttl |-> @.ttl, asked |-> @.asked,
        keys |-> published, answered |-> now]]
  /\ UNCHANGED <<now, published, lastSeen, jwks, exchanged>>

(* The answer never arrives, or is no key set: 502.                         *)
FetchFails(r) ==
  /\ exchanges[r].pc \in {"fetch", "reply"}
  /\ exchanges' = [exchanges EXCEPT ![r] = Waiting]
  /\ UNCHANGED <<now, published, lastSeen, jwks, exchanged>>

(* The answer has arrived: the entry is stamped before the lock is taken.   *)
Receive(r) ==
  /\ exchanges[r].pc = "reply"
  /\ exchanges' = [exchanges EXCEPT ![r] =
       [pc |-> "store", token |-> @.token, ttl |-> @.ttl, asked |-> @.asked,
        keys |-> @.keys, answered |-> @.answered, fetched |-> now]]
  /\ UNCHANGED <<now, published, lastSeen, jwks, exchanged>>

(* The entry replaces what is there, and its keys decide.                   *)
StoreKeys(r) ==
  LET x == exchanges[r]
      entry == [keys |-> x.keys, fetched |-> x.fetched, answered |-> x.answered]
  IN /\ x.pc = "store"
     /\ jwks' = entry
     /\ Finish(r, x.token, x.ttl, x.asked, entry)
     /\ UNCHANGED <<now, published, lastSeen>>

(* The provider changes its keys.                                           *)
Rotate(keys) ==
  /\ keys # published
  /\ published' = keys
  /\ lastSeen' = Seen(keys, now)
  /\ UNCHANGED <<now, jwks, exchanges, exchanged>>

(* A lock is held for well under a second.                                  *)
JwtTick ==
  /\ \A r \in Exchange : exchanges[r].pc # "store"
  /\ Tick
  /\ lastSeen' = Seen(published, now + 1)
  /\ UNCHANGED <<published, jwks, exchanges, exchanged>>

JwtNext ==
  \/ JwtTick
  \/ \E keys \in KeySets : Rotate(keys)
  \/ \E r \in Exchange :
       \/ \E token \in Token, ttl \in Lifetimes : Begin(r, token, ttl)
       \/ ProviderAnswers(r)
       \/ FetchFails(r)
       \/ Receive(r)
       \/ StoreKeys(r)

JwtSpec == JwtInit /\ [][JwtNext]_jwtVars

-----------------------------------------------------------------------------

(* A certificate never outlives the token it was exchanged for, however     *)
(* long the key set took to arrive (exchange_inner).                        *)
WithinToken == \A x \in exchanged : x.expiration <= x.token.exp

(* A key that the provider has withdrawn stops being honoured: less than    *)
(* five minutes after it was last published, plus the time the answer that  *)
(* carried it was on its way, although late answers overwrite the cache     *)
(* (fetch_jwks).                                                            *)
WithdrawnKeyDies ==
  \A x \in exchanged : x.at - x.lastSeen < JwksTtl + x.delay

(* What a certificate of exchange_inner rests on, the token and the key that *)
(* signed it, is good in time.                                               *)
ExchangeCurrent == WithinToken /\ WithdrawnKeyDies
=============================================================================
