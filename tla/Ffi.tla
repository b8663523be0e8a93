-------------------------------- MODULE Ffi ----------------------------------
(* The C ABI of ffi.rs: calls on several threads of a foreign program over   *)
(* one revocation store and one nonce store, the status each returns, and    *)
(* the error text dyolo_last_error gives the thread afterwards.              *)
(*                                                                           *)
(* An error text is the number of the call that left it. Chains are single   *)
(* certificates: what authorize checks of longer ones is the module Chain.   *)
EXTENDS Naturals

CONSTANTS
  FfiThread,
  FfiCert,
  MaxCalls,    \* calls of each thread
  MaxStores    \* nonce stores the program allocates, one after the other

ASSUME FfiAssumption == MaxCalls \in Nat /\ MaxStores \in Nat \ {0}

VARIABLES
  revoked,     \* the certificates in the revocation store
  consumed,    \* the certificates whose nonce is in the nonce store
  storeNo,     \* how many nonce stores were allocated
  lastError,   \* thread -> the call that set LAST_ERROR, 0 for none
  ffi,         \* thread -> the call it is in, or the last one it made
  authorised,  \* the calls whose chain was authorised, whether they could answer or not
  ackRevoked   \* the certificates dyolo_cert_revoke answered A1Ok for

ffiVars == <<revoked, consumed, storeNo, lastError, ffi, authorised, ackRevoked>>

Authorizing == {"authorize_json", "authorize_receipt_json", "authorize_with_proof_json"}

(* What the arguments of a call are worth: a null pointer, text that does    *)
(* not parse, well-formed ones; and whether the answer fits the buffer.      *)
Arguments == {"null", "malformed", "good"}

(* The statuses the properties tell apart.                                   *)
A1Status == {"A1Ok", "A1ErrUnknown", "A1ErrWireFormat", "A1ErrRevoked", "A1ErrNonceReplay", "A1ErrPanic"}

FfiInit ==
  /\ revoked = {} /\ consumed = {} /\ storeNo = 1
  /\ lastError = [t \in FfiThread |-> 0]
  /\ \E c \in FfiCert :
       ffi = [t \in FfiThread |-> [fn |-> "none", cert |-> c, args |-> "good", fits |-> TRUE,
                                    pc |-> "returned", n |-> 0, status |-> "A1Ok", since |-> {}]]
  /\ authorised = {} /\ ackRevoked = {}

(* A thread calls in. since notes the certificates whose revocation had been *)
(* acknowledged by then.                                                     *)
FfiEnter(t, fn, c, a, f) ==
  /\ ffi[t].pc = "returned" /\ ffi[t].n < MaxCalls
  /\ ffi' = [ffi EXCEPT ![t] = [fn |-> fn, cert |-> c, args |-> a, fits |-> f, pc |-> "parse",
                                 n |-> @.n + 1, status |-> "", since |-> ackRevoked]]
  /\ UNCHANGED <<revoked, consumed, storeNo, lastError, authorised, ackRevoked>>

(* Plausible mistake: one LAST_ERROR for the whole process.                  *)
set_last_error_global(t) == lastError' = [u \in FfiThread |-> ffi[t].n]

(* set_last_error writes the LAST_ERROR of its own thread.                   *)
set_last_error(t) == lastError' = [lastError EXCEPT ![t] = ffi[t].n]

Returned(t, status) == ffi' = [ffi EXCEPT ![t].pc = "returned", ![t].status = status]

(* a1_error_to_status; authorize_with_proof_json turns every error into text *)
(* and answers A1ErrUnknown.                                                 *)
a1_error_to_status(fn, e) == IF fn = "authorize_with_proof_json" THEN "A1ErrUnknown" ELSE e

(* A call that fails on its way: the Ok(Err(_)) arm sets the text in all     *)
(* functions.                                                                *)
Fail(t, e) ==
  /\ Returned(t, a1_error_to_status(ffi[t].fn, e))
  /\ set_last_error(t)
  /\ UNCHANGED <<revoked, consumed, storeNo, authorised, ackRevoked>>

(* A panic inside is caught; authorize_with_proof_json sets no text for it.  *)
Panic(t) ==
  /\ ffi[t].pc = "parse"
  /\ Returned(t, "A1ErrPanic")
  /\ IF ffi[t].fn = "authorize_with_proof_json" THEN UNCHANGED lastError ELSE set_last_error(t)
  /\ UNCHANGED <<revoked, consumed, storeNo, authorised, ackRevoked>>

(* The arguments: null pointers first, then the parsing.                     *)
Parse(t) ==
  /\ ffi[t].pc = "parse"
  /\ \/ ffi[t].args = "null" /\ Fail(t, "A1ErrUnknown")
     \/ /\ ffi[t].args = "malformed"
        /\ Fail(t, IF ffi[t].fn \in Authorizing THEN "A1ErrWireFormat" ELSE "A1ErrUnknown")
     \/ /\ ffi[t].args = "good" /\ ffi[t].fn \in Authorizing
        /\ ffi' = [ffi EXCEPT ![t].pc = "check"]
        /\ UNCHANGED <<revoked, consumed, storeNo, lastError, authorised, ackRevoked>>

(* dyolo_cert_revoke with good arguments.                                    *)
Revoke(t) ==
  /\ ffi[t].pc = "parse" /\ ffi[t].args = "good" /\ ffi[t].fn = "cert_revoke"
  /\ revoked' = revoked \cup {ffi[t].cert}
  /\ ackRevoked' = ackRevoked \cup {ffi[t].cert}
  /\ Returned(t, "A1Ok")
  /\ UNCHANGED <<consumed, storeNo, lastError, authorised>>

(* Plausible mistake: the check of the revocation store is skipped.          *)
CheckNothing(t) ==
  /\ ffi[t].pc = "check"
  /\ ffi' = [ffi EXCEPT ![t].pc = "consume"]
  /\ UNCHANGED <<revoked, consumed, storeNo, lastError, authorised, ackRevoked>>

(* chain.authorize asks the revocation store,                                *)
Check(t) ==
  /\ ffi[t].pc = "check"
  /\ \/ ffi[t].cert \in revoked /\ Fail(t, "A1ErrRevoked")
     \/ /\ ffi[t].cert \notin revoked
        /\ ffi' = [ffi EXCEPT ![t].pc = "consume"]
        /\ UNCHANGED <<revoked, consumed, storeNo, lastError, authorised, ackRevoked>>

(* Plausible mistake: the nonce of a call that cannot answer is not used up. *)
ConsumeIfFits(t) ==
  /\ ffi[t].pc = "consume"
  /\ \/ ffi[t].cert \in consumed /\ Fail(t, "A1ErrNonceReplay")
     \/ /\ ffi[t].cert \notin consumed
        /\ consumed' = IF ffi[t].fits THEN consumed \cup {ffi[t].cert} ELSE consumed
        /\ ffi' = [ffi EXCEPT ![t].pc = "write"]
        /\ UNCHANGED <<revoked, storeNo, lastError, authorised, ackRevoked>>

(* and then consumes the nonce in one step of that store.                    *)
Consume(t) ==
  /\ ffi[t].pc = "consume"
  /\ \/ ffi[t].cert \in consumed /\ Fail(t, "A1ErrNonceReplay")
     \/ /\ ffi[t].cert \notin consumed
        /\ consumed' = consumed \cup {ffi[t].cert}
        /\ ffi' = [ffi EXCEPT ![t].pc = "write"]
        /\ UNCHANGED <<revoked, storeNo, lastError, authorised, ackRevoked>>

(* The answer is copied out if it fits; too small a buffer is an error after *)
(* the nonce is gone, with a text except in authorize_with_proof_json.       *)
Write(t) ==
  /\ ffi[t].pc = "write"
  /\ authorised' = authorised \cup
       {[thread |-> t, n |-> ffi[t].n, cert |-> ffi[t].cert, store |-> storeNo]}
  /\ \/ /\ ffi[t].fits
        /\ Returned(t, "A1Ok")
        /\ UNCHANGED lastError
     \/ /\ ~ffi[t].fits
        /\ Returned(t, "A1ErrUnknown")
        /\ IF ffi[t].fn = "authorize_with_proof_json" THEN UNCHANGED lastError ELSE set_last_error(t)
  /\ UNCHANGED <<revoked, consumed, storeNo, ackRevoked>>

(* dyolo_nonce_store_free and dyolo_nonce_store_new. The caller must not     *)
(* free a store that a call is using.                                        *)
NewNonceStore ==
  /\ storeNo < MaxStores
  /\ \A t \in FfiThread : ffi[t].pc = "returned"
  /\ storeNo' = storeNo + 1 /\ consumed' = {}
  /\ UNCHANGED <<revoked, lastError, ffi, authorised, ackRevoked>>

FfiNext ==
  \/ \E t \in FfiThread :
       \/ \E fn \in Authorizing \cup {"cert_revoke"}, c \in FfiCert, a \in Arguments :
            \E f \in IF fn \in Authorizing /\ a = "good" THEN BOOLEAN ELSE {TRUE} :
              FfiEnter(t, fn, c, a, f)
       \/ Parse(t) \/ Panic(t) \/ Revoke(t) \/ Check(t) \/ Consume(t) \/ Write(t)
  \/ NewNonceStore

FfiTypeOK ==
  /\ revoked \subseteq FfiCert /\ consumed \subseteq FfiCert /\ storeNo \in 1..MaxStores
  /\ \A t \in FfiThread :
       /\ lastError[t] \in 0..ffi[t].n
       /\ ffi[t].fn \in Authorizing \cup {"cert_revoke", "none"}
       /\ ffi[t].status \in IF ffi[t].pc = "returned" THEN A1Status ELSE {""}

(* Whatever the threads do and whichever of the functions they call, one     *)
(* nonce store lets one certificate authorise one call, even when that call  *)
(* finds its buffer too small and is repeated, and none that came in after   *)
(* dyolo_cert_revoke had acknowledged the revocation.                        *)
AuthorisedOnceUnrevoked ==
  /\ \A p, q \in authorised : p.cert = q.cert /\ p.store = q.store => p = q
  /\ \A t \in FfiThread : ffi[t].cert \in ffi[t].since =>
       ~\E p \in authorised : p.thread = t /\ p.n = ffi[t].n

(* After a failed call of any function but authorize_with_proof_json,        *)
(* dyolo_last_error on that thread gives the text of that call, with other   *)
(* threads failing at the same time.                                         *)
OwnErrorText ==
  \A t \in FfiThread :
    ffi[t].pc = "returned" /\ ffi[t].status # "A1Ok" /\ ffi[t].fn # "authorize_with_proof_json"
      => lastError[t] = ffi[t].n

(* Threads that call the functions of ffi.rs at once neither share an        *)
(* authorisation nor mix up their errors.                                    *)
ThreadsApart == AuthorisedOnceUnrevoked /\ OwnErrorText

FfiSpec == FfiInit /\ [][FfiNext]_ffiVars
=============================================================================
