----------------------------- MODULE PgNonceStore -----------------------------
(***************************************************************************)
(* The PostgreSQL nonce store (a1-pg): try_consume_batch runs a            *)
(* serializable transaction - begin, count the nonces already present,     *)
(* insert, commit - and retries it after any error; try_consume is a       *)
(* single INSERT ... ON CONFLICT DO NOTHING; prune_nonces_before deletes   *)
(* old rows.  A statement may fail before it takes effect, and the         *)
(* acknowledgement of a commit may be lost after it did.                   *)
(***************************************************************************)
EXTENDS Integers

CONSTANTS
  Nonce,
  Caller,
  MaxRetries,  \* MAX_RETRIES: attempts that try_consume_batch makes
  PruneAge,    \* operators prune rows older than this
  MaxTime

ASSUME PgAssumption ==
  MaxRetries \in Nat \ {0} /\ PruneAge \in Nat /\ MaxTime \in Nat

VARIABLES
  now,
  table,       \* table[n]: consumed_at of the row of n, or NoRow
  call,        \* as in NonceLedger
  txn          \* txn[c]: the transaction that serves call c

vars == <<now, table, call, txn>>

NoRow == -1

Ledger == INSTANCE NonceLedger WITH Retention <- PruneAge, ledger <- table

TxnRecord == [pc       : {"idle", "single", "attempt", "begun", "counted", "error"},
              attempt  : 0 .. MaxRetries,
              began    : Nat,      \* NOW() inside the transaction
              stale    : BOOLEAN,  \* a conflicting commit followed its snapshot
              applied  : BOOLEAN]  \* this call's rows were committed

(* The type invariant: the number of attempts stays within the bound.        *)
TypeOK ==
  /\ now \in 0 .. MaxTime
  /\ table \in [Nonce -> {NoRow} \cup Nat]
  /\ call \in [Caller -> Ledger!CallRecord]
  /\ txn \in [Caller -> TxnRecord]

Init ==
  /\ now = 0
  /\ table = [n \in Nonce |-> NoRow]
  /\ call = [c \in Caller |->
               [st |-> "idle", batch |-> {}, since |-> 0, at |-> -1]]
  /\ txn = [c \in Caller |-> [pc |-> "idle", attempt |-> 0, began |-> 0,
                              stale |-> FALSE, applied |-> FALSE]]

-----------------------------------------------------------------------------

Present(c) == \E n \in call[c].batch : table[n] # NoRow

Rows(c, t) == [n \in Nonce |-> IF n \in call[c].batch THEN t ELSE table[n]]

Answer(c, st) ==
  call' = [call EXCEPT ![c].st = st,
                       ![c].at = IF st = "won" THEN now ELSE @]

(* The transaction of a call that has its answer.                          *)
Closed(c) == [pc |-> "idle", attempt |-> 0, began |-> 0, stale |-> FALSE,
              applied |-> txn[c].applied]

Errored(c, attempt) == [pc |-> "error", attempt |-> attempt, began |-> 0,
                        stale |-> FALSE, applied |-> txn[c].applied]

(* What a commit of c's rows does to the transactions: c is recorded as    *)
(* applied, and snapshots that miss the new rows become stale.             *)
Committed(c, t) ==
  [d \in Caller |->
     IF d = c THEN [t EXCEPT !.applied = TRUE]
     ELSE [txn[d] EXCEPT !.stale =
             @ \/ (txn[d].pc = "counted" /\ call[d].batch \cap call[c].batch # {})]]

Open(c, batch, pc) ==
  /\ call[c].st = "idle"
  /\ call' = [call EXCEPT ![c] =
                [st |-> "open", batch |-> batch, since |-> now, at |-> -1]]
  /\ txn' = [txn EXCEPT ![c].pc = pc]
  /\ UNCHANGED <<now, table>>

Begin(c) ==
  /\ txn[c].pc = "attempt"
  /\ txn' = [txn EXCEPT ![c].pc = "begun", ![c].began = now, ![c].stale = FALSE]
  /\ UNCHANGED <<now, table, call>>

(* SELECT COUNT, the statement that fixes the snapshot: a nonce already     *)
(* there rolls the transaction back and answers Ok(false).                  *)
Count(c) ==
  /\ txn[c].pc = "begun"
  /\ \/ /\ Present(c)
        /\ Answer(c, "lost")
        /\ txn' = [txn EXCEPT ![c] = Closed(c)]
     \/ /\ ~ Present(c)
        /\ txn' = [txn EXCEPT ![c].pc = "counted"]
        /\ UNCHANGED call
  /\ UNCHANGED <<now, table>>

(* Plausible mistake: READ COMMITTED, where nothing refuses the second       *)
(* insert.                                                                   *)
CanCommitReadCommitted(c) == TRUE

(* INSERT and COMMIT: serializable isolation refuses the transaction when   *)
(* another one committed a nonce of its batch after its snapshot.           *)
CanCommit(c) == ~ txn[c].stale

Commit(c) ==
  /\ txn[c].pc = "counted"
  /\ CanCommit(c)
  /\ table' = Rows(c, txn[c].began)
  /\ Answer(c, "won")
  /\ txn' = Committed(c, Closed(c))
  /\ UNCHANGED now

CommitAckLost(c) ==
  /\ txn[c].pc = "counted"
  /\ CanCommit(c)
  /\ table' = Rows(c, txn[c].began)
  /\ txn' = Committed(c, Errored(c, txn[c].attempt))
  /\ UNCHANGED <<now, call>>

(* A statement of the transaction fails: a lost connection or, for a stale  *)
(* snapshot, a serialization conflict.                                      *)
StatementFails(c) ==
  /\ txn[c].pc \in {"attempt", "begun", "counted"}
  /\ txn' = [txn EXCEPT ![c] = Errored(c, txn[c].attempt)]
  /\ UNCHANGED <<now, table, call>>

(* Plausible mistake: the attempt is not counted.                            *)
RetryForever(c) ==
  /\ txn[c].pc = "error"
  /\ txn' = [txn EXCEPT ![c].pc = "attempt"]
  /\ UNCHANGED <<now, table, call>>

(* Plausible mistake: the loop has no bound.                                 *)
RetryUnbounded(c) ==
  /\ txn[c].pc = "error"
  /\ txn' = [txn EXCEPT ![c].pc = "attempt", ![c].attempt = @ + 1]
  /\ UNCHANGED <<now, table, call>>

(* The retry loop: every sqlx error is mapped to a transient one, so each   *)
(* of them is retried until the attempts are used up.                       *)
Retry(c) ==
  /\ txn[c].pc = "error"
  /\ txn[c].attempt + 1 < MaxRetries
  /\ txn' = [txn EXCEPT ![c].pc = "attempt", ![c].attempt = @ + 1]
  /\ UNCHANGED <<now, table, call>>

GiveUp(c) ==
  /\ txn[c].pc = "error"
  /\ txn[c].attempt + 1 >= MaxRetries
  /\ txn' = [txn EXCEPT ![c] = Closed(c)]
  /\ Answer(c, "failed")
  /\ UNCHANGED <<now, table>>

(* try_consume: one autocommitted INSERT whose row count is the answer.     *)
try_consume(c) ==
  /\ txn[c].pc = "single"
  /\ \/ /\ Present(c)
        /\ Answer(c, "lost")
        /\ txn' = [txn EXCEPT ![c] = Closed(c)]
        /\ UNCHANGED table
     \/ /\ ~ Present(c)
        /\ table' = Rows(c, now)
        /\ Answer(c, "won")
        /\ txn' = Committed(c, Closed(c))
  /\ UNCHANGED now

(* The insert succeeded but the connection died before the row count came.  *)
try_consume_ack_lost(c) ==
  /\ txn[c].pc = "single"
  /\ ~ Present(c)
  /\ table' = Rows(c, now)
  /\ txn' = Committed(c, Errored(c, MaxRetries))
  /\ UNCHANGED <<now, call>>

try_consume_fails(c) ==
  /\ txn[c].pc = "single"
  /\ txn' = [txn EXCEPT ![c] = Errored(c, MaxRetries)]
  /\ UNCHANGED <<now, table, call>>

(* Plausible mistake: the row of the boundary second is deleted too.         *)
PruneUpTo(ts) ==
  /\ table' = [n \in Nonce |-> IF table[n] <= ts THEN NoRow ELSE table[n]]
  /\ UNCHANGED <<now, call, txn>>

prune_nonces_before(ts) ==
  /\ table' = [n \in Nonce |-> IF table[n] < ts THEN NoRow ELSE table[n]]
  /\ UNCHANGED <<now, call, txn>>

Tick ==
  /\ now < MaxTime
  /\ now' = now + 1
  /\ UNCHANGED <<table, call, txn>>

Serve(c) ==
  \/ Begin(c) \/ Count(c) \/ Commit(c) \/ CommitAckLost(c)
  \/ StatementFails(c) \/ Retry(c) \/ GiveUp(c)
  \/ try_consume(c) \/ try_consume_ack_lost(c) \/ try_consume_fails(c)

Next ==
  \/ \E c \in Caller :
       \/ \E batch \in (SUBSET Nonce) \ {{}} : Open(c, batch, "attempt")
       \/ \E n \in Nonce : Open(c, {n}, "single")
       \/ Serve(c)
  \/ now >= PruneAge /\ prune_nonces_before(now - PruneAge)
  \/ Tick

Spec == Init /\ [][Next]_vars /\ \A c \in Caller : WF_vars(Serve(c))

-----------------------------------------------------------------------------

(* The store implements the ledger, whatever transactions overlap, fail, or  *)
(* commit without their client learning it: a batch is consumed whole, and   *)
(* Ok(false) is answered only for a nonce in the table. With                 *)
(* LedgerNoDoubleWin (Authorize_proofs), no nonce is won twice before        *)
(* pruning may have removed it.                                              *)
ImplementsLedger == Ledger!LedgerSpec

(* Every call is answered: the retry loop is bounded, and no step of a      *)
(* transaction waits for another transaction for ever.                      *)
CallsReturn == \A c \in Caller : call[c].st = "open" ~> call[c].st # "open"

(* What the comment on try_consume_batch says of Ok(false): "at least one   *)
(* nonce was already consumed; none are inserted".                          *)
OkFalseInsertsNothing ==
  \A c \in Caller : call[c].st = "lost" => ~ txn[c].applied
=============================================================================
