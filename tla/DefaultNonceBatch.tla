-------------------------- MODULE DefaultNonceBatch --------------------------
(***************************************************************************)
(* try_consume_batch as the traits NonceStore and AsyncNonceStore define   *)
(* it for stores that do not override it (registry.rs): each nonce is      *)
(* looked up in its own call, then each is marked in its own call.         *)
(***************************************************************************)
EXTENDS Integers, Sequences

CONSTANTS
  BatchCaller,   \* concurrent callers, one call each
  Slices         \* the slices of nonces they are called with

ASSUME SlicesAssumption == \A s \in Slices : s \in Seq({s[i] : i \in DOMAIN s})

VARIABLES
  used,          \* nonces that the store has marked
  batch          \* the progress of each call

dnbVars == <<used, batch>>

Calling == {"new", "check", "mark", "won", "lost", "failed"}

NonceOf(b, i) == b.slice[i]

DnbTypeOK ==
  \A c \in BatchCaller :
    /\ batch[c].st \in Calling
    /\ batch[c].k \in 1 .. Len(batch[c].slice) + 1

DnbInit ==
  /\ used = {}
  /\ batch \in [BatchCaller -> [slice : Slices, st : {"new"}, k : {1}, wonBefore : {{}}]]

(* Wins so far: a call that begins after another was answered is not        *)
(* concurrent with it.                                                      *)
Winners == {c \in BatchCaller : batch[c].st = "won"}

BeginBatch(c) ==
  /\ batch[c].st = "new"
  /\ batch' = [batch EXCEPT ![c].st = "check", ![c].wonBefore = Winners]
  /\ UNCHANGED used

(* One is_consumed of the first loop, or its end.                           *)
CheckOne(c) ==
  LET b == batch[c] IN
  /\ b.st = "check"
  /\ batch' = IF b.k > Len(b.slice) THEN [batch EXCEPT ![c].st = "mark", ![c].k = 1]
              ELSE IF NonceOf(b, b.k) \in used THEN [batch EXCEPT ![c].st = "lost"]
              ELSE [batch EXCEPT ![c].k = @ + 1]
  /\ UNCHANGED used

(* Plausible mistake: only the first nonce is marked.                        *)
MarkFirst(c) ==
  /\ batch[c].st = "mark"
  /\ used' = used \cup {NonceOf(batch[c], 1)}
  /\ batch' = [batch EXCEPT ![c].st = "won"]

(* One mark_consumed of the second loop, or its end.                        *)
MarkOne(c) ==
  LET b == batch[c] IN
  /\ b.st = "mark"
  /\ IF b.k > Len(b.slice) THEN batch' = [batch EXCEPT ![c].st = "won"] /\ UNCHANGED used
     ELSE /\ used' = used \cup {NonceOf(b, b.k)}
          /\ batch' = [batch EXCEPT ![c].k = @ + 1]

(* A call to the store fails, and with it the batch.                        *)
BatchFails(c) ==
  /\ batch[c].st \in {"check", "mark"}
  /\ batch' = [batch EXCEPT ![c].st = "failed"]
  /\ UNCHANGED used

DnbNext == \E c \in BatchCaller : BeginBatch(c) \/ CheckOne(c) \/ MarkOne(c) \/ BatchFails(c)

DnbSpec == DnbInit /\ [][DnbNext]_dnbVars

-----------------------------------------------------------------------------

Shared(c, d) ==
  \E i \in DOMAIN batch[c].slice, j \in DOMAIN batch[d].slice :
    NonceOf(batch[c], i) = NonceOf(batch[d], j)

(* The default batch protects calls that follow one another, though not     *)
(* calls that overlap: two calls that share a nonce both succeed only when  *)
(* neither began after the other was answered.                              *)
RepeatsLose ==
  \A c \in Winners, d \in Winners : c # d /\ Shared(c, d) => d \notin batch[c].wonBefore
=============================================================================
