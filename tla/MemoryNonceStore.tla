--------------------------- MODULE MemoryNonceStore ---------------------------
(***************************************************************************)
(* The in-process nonce store (MemoryNonceStore in registry.rs): a Bloom   *)
(* filter of atomic words beside a map guarded by a read-write lock.       *)
(* try_consume and try_consume_batch hold the write lock throughout;       *)
(* is_consumed looks at the filter before it takes the read lock.          *)
(***************************************************************************)
EXTENDS Integers

CONSTANTS
  Nonce,
  Caller,     \* threads that call try_consume or try_consume_batch, once each
  Prober,     \* threads that call is_consumed, once each
  Bit,        \* bits of the Bloom filter
  BitOf,      \* BitOf[n]: the bit that indices(n) selects
  Ttl,        \* with_ttl_secs, or NoTtl for a store that never forgets
  U64Max,     \* the largest u64
  MaxTime     \* the model's clock stops here

NoTtl == -1

ASSUME MemoryAssumption ==
  /\ BitOf \in [Nonce -> Bit]
  /\ Ttl \in Nat \cup {NoTtl}
  /\ MaxTime \in Nat /\ U64Max \in Nat /\ MaxTime <= U64Max

VARIABLES
  now,
  bloom,      \* the bits that are set
  store,      \* store[n]: the last second at which n counts as consumed
  call,       \* as in NonceLedger
  probe       \* the is_consumed calls

vars == <<now, bloom, store, call, probe>>

Absent == -1

(* What the store promises to remember: u64::MAX stands for "forever".     *)
Retention == IF Ttl = NoTtl THEN U64Max ELSE Ttl

LastWin(n) ==
  CHOOSE t \in 0 .. now :
    /\ \E c \in Caller : call[c].st = "won" /\ n \in call[c].batch /\ call[c].at = t
    /\ \A c \in Caller : call[c].st = "won" /\ n \in call[c].batch => call[c].at <= t

(* The refinement mapping: an entry whose expiry has passed counts for     *)
(* nothing, although it stays in the map until a writer evicts it.         *)
Ledger == INSTANCE NonceLedger WITH
  ledger <- [n \in Nonce |-> IF store[n] < now THEN -1 ELSE LastWin(n)]

ProbeRecord == [st : {"idle", "locked", "done"}, nonce : Nonce, answer : BOOLEAN,
                before : SUBSET Caller]  \* the calls already won when it began

(* The type invariant: expiry times stay within a u64.                       *)
TypeOK ==
  /\ now \in 0 .. MaxTime
  /\ bloom \subseteq Bit
  /\ store \in [Nonce -> {Absent} \cup 0 .. U64Max]
  /\ call \in [Caller -> Ledger!CallRecord]
  /\ probe \in [Prober -> ProbeRecord]

Init ==
  /\ now = 0
  /\ bloom = {}
  /\ store = [n \in Nonce |-> Absent]
  /\ call = [c \in Caller |->
               [st |-> "idle", batch |-> {}, since |-> 0, at |-> -1]]
  /\ probe \in [Prober -> {[st |-> "idle", nonce |-> n, answer |-> FALSE,
                            before |-> {}] : n \in Nonce}]

-----------------------------------------------------------------------------

(* Plausible mistake: the sum leaves the range of a u64.                     *)
UncheckedAdd(a, b) == a + b

SaturatingAdd(a, b) == IF a + b > U64Max THEN U64Max ELSE a + b

(* Plausible mistake: the expiry second itself no longer counts.             *)
ConsumedOffByOne(n) == BitOf[n] \in bloom /\ store[n] > now

(* The two-stage test that every operation makes under the lock.           *)
Consumed(n) == BitOf[n] \in bloom /\ store[n] >= now

(* Plausible mistake: the filter is not told of the new nonces.           *)
InsertAllNoBloom(batch) ==
  /\ store' = [n \in Nonce |->
                 IF n \in batch THEN SaturatingAdd(now, Retention) ELSE store[n]]
  /\ UNCHANGED bloom

(* Insertion of a fresh batch: with a TTL, expired entries are evicted     *)
(* first; bits of the filter are only ever set.                            *)
InsertAll(batch) ==
  /\ store' = [n \in Nonce |->
                 IF n \in batch
                 THEN IF Ttl = NoTtl THEN U64Max ELSE SaturatingAdd(now, Ttl)
                 ELSE IF Ttl # NoTtl /\ store[n] < now THEN Absent
                 ELSE store[n]]
  /\ bloom' = bloom \cup {BitOf[n] : n \in batch}

Open(c, batch) ==
  /\ call[c].st = "idle"
  /\ call' = [call EXCEPT ![c] =
                [st |-> "open", batch |-> batch, since |-> now, at |-> -1]]
  /\ UNCHANGED <<now, bloom, store, probe>>

(* The critical section of try_consume_batch, clock reading included.      *)
try_consume_batch(c) ==
  /\ call[c].st = "open"
  /\ \/ /\ \E n \in call[c].batch : Consumed(n)
        /\ call' = [call EXCEPT ![c].st = "lost"]
        /\ UNCHANGED <<bloom, store>>
     \/ /\ \A n \in call[c].batch : ~ Consumed(n)
        /\ InsertAll(call[c].batch)
        /\ call' = [call EXCEPT ![c].st = "won", ![c].at = now]
  /\ UNCHANGED <<now, probe>>

(* is_consumed, first stage: a clear bit answers "no" without any lock.    *)
is_consumed_bloom(p) ==
  /\ probe[p].st = "idle"
  /\ probe' = [probe EXCEPT ![p].st = IF BitOf[probe[p].nonce] \in bloom
                                     THEN "locked" ELSE "done",
                            ![p].before = {c \in Caller : call[c].st = "won"}]
  /\ UNCHANGED <<now, bloom, store, call>>

(* Plausible mistake: the answer is turned round for an entry that expires   *)
(* just now.                                                                 *)
IsConsumedEarly(p) ==
  /\ probe[p].st = "locked"
  /\ probe' = [probe EXCEPT ![p].st = "done",
                            ![p].answer = store[probe[p].nonce] > now]
  /\ UNCHANGED <<now, bloom, store, call>>

(* Second stage: the map is read under the read lock.                      *)
is_consumed_map(p) ==
  /\ probe[p].st = "locked"
  /\ probe' = [probe EXCEPT ![p].st = "done",
                            ![p].answer = store[probe[p].nonce] >= now]
  /\ UNCHANGED <<now, bloom, store, call>>

Tick ==
  /\ now < MaxTime
  /\ now' = now + 1
  /\ UNCHANGED <<bloom, store, call, probe>>

Next ==
  \/ \E c \in Caller : \/ \E batch \in (SUBSET Nonce) \ {{}} : Open(c, batch)
                       \/ try_consume_batch(c)
  \/ \E p \in Prober : is_consumed_bloom(p) \/ is_consumed_map(p)
  \/ Tick

Spec == Init /\ [][Next]_vars

-----------------------------------------------------------------------------

(* The store implements the ledger, whatever threads race for the write lock *)
(* and however bits of the filter collide: the critical section is one       *)
(* atomic decision, and an entry lapses only after its time to live. With    *)
(* LedgerNoDoubleWin (Authorize_proofs), no nonce is won twice while it      *)
(* must be remembered.                                                       *)
ImplementsLedger == Ledger!LedgerSpec

(* is_consumed answers "no" for a nonce that had been consumed before it    *)
(* was called only when the retention of that consumption is over, although *)
(* its first look at the filter takes no lock.                              *)
ProbeSeesWins ==
  [][\A p \in Prober :
       (/\ probe[p].st # "done"
        /\ probe'[p].st = "done"
        /\ ~ probe'[p].answer)
       => \A c \in probe'[p].before :
            probe[p].nonce \in call[c].batch => now > call[c].at + Retention]_vars
=============================================================================
