--------------------------- MODULE Completion_proofs ---------------------------
(***************************************************************************)
(* Proofs about the PostgreSQL nonce store and the gateway's background    *)
(* work: webhooks, install streams and the audit sink.                     *)
(*                                                                         *)
(* The ledger's view of a transaction of the nonce store rests on three    *)
(* facts: it serves an open call, it is dated within the time of that      *)
(* call, and as long as no conflicting commit has made its snapshot stale, *)
(* what it counted is still true of the table.                             *)
(***************************************************************************)
EXTENDS MCCompletion, TLAPS

PgTimes ==
  \A c \in Caller :
    /\ call[c].since <= now
    /\ txn[c].pc \in {"begun", "counted"} => txn[c].began \in call[c].since .. now

ServesOpenCall == \A c \in Caller : txn[c].pc # "idle" => call[c].st = "open"

SnapshotHolds ==
  \A c \in Caller : (txn[c].pc = "counted" /\ ~ txn[c].stale) => ~ Present(c)

PgInv == TypeOK /\ PgTimes /\ ServesOpenCall /\ SnapshotHolds

-----------------------------------------------------------------------------

LEMMA TxnForms ==
  ASSUME TypeOK, NEW c \in Caller
  PROVE  /\ Closed(c) \in TxnRecord /\ Closed(c).pc = "idle"
         /\ \A a \in 0 .. MaxRetries : Errored(c, a) \in TxnRecord /\ Errored(c, a).pc = "error"
<1>1. txn[c].applied \in BOOLEAN
  BY DEF TypeOK, TxnRecord
<1> DEFINE b == txn[c].applied
<1> HIDE DEF b
<1>2. b \in BOOLEAN
  BY <1>1 DEF b
<1>3. MaxRetries \in Nat
  BY PgAssumption
<1>4. [pc |-> "idle", attempt |-> 0, began |-> 0, stale |-> FALSE, applied |-> b] \in TxnRecord
  BY <1>2, <1>3 DEF TxnRecord
<1>5. \A a \in 0 .. MaxRetries :
        [pc |-> "error", attempt |-> a, began |-> 0, stale |-> FALSE, applied |-> b] \in TxnRecord
  BY <1>2, <1>3 DEF TxnRecord
<1>6. QED
  BY <1>4, <1>5 DEF Closed, Errored, b

(* A commit changes nothing of the other transactions but their staleness.  *)
LEMMA CommittedIs ==
  ASSUME TypeOK, NEW c \in Caller, NEW t \in TxnRecord
  PROVE  /\ Committed(c, t) \in [Caller -> TxnRecord]
         /\ Committed(c, t)[c].pc = t.pc
         /\ \A d \in Caller \ {c} :
              /\ Committed(c, t)[d].pc = txn[d].pc
              /\ Committed(c, t)[d].began = txn[d].began
              /\ Committed(c, t)[d].stale
                 <=> txn[d].stale \/ (txn[d].pc = "counted" /\ call[d].batch \cap call[c].batch # {})
<1>1. /\ [t EXCEPT !.applied = TRUE] \in TxnRecord
      /\ [t EXCEPT !.applied = TRUE].pc = t.pc
  BY DEF TxnRecord
<1>2. ASSUME NEW d \in Caller, NEW s \in BOOLEAN
      PROVE  /\ [txn[d] EXCEPT !.stale = s] \in TxnRecord
             /\ [txn[d] EXCEPT !.stale = s].pc = txn[d].pc
             /\ [txn[d] EXCEPT !.stale = s].began = txn[d].began
             /\ [txn[d] EXCEPT !.stale = s].stale = s
  BY DEF TypeOK, TxnRecord
<1> DEFINE s(d) == txn[d].stale \/ (txn[d].pc = "counted" /\ call[d].batch \cap call[c].batch # {})
<1>3. \A d \in Caller : s(d) \in BOOLEAN
  OBVIOUS
<1>4. Committed(c, t) = [d \in Caller |-> IF d = c THEN [t EXCEPT !.applied = TRUE]
                                          ELSE [txn[d] EXCEPT !.stale = s(d)]]
  BY DEF Committed, TypeOK, TxnRecord
<1> HIDE DEF s
<1> DEFINE r(d) == IF d = c THEN [t EXCEPT !.applied = TRUE]
                   ELSE [txn[d] EXCEPT !.stale = s(d)]
<1>5. /\ \A d \in Caller : r(d) \in TxnRecord
      /\ r(c).pc = t.pc
  BY <1>1, <1>2, <1>3
<1>6. \A d \in Caller \ {c} :
        r(d).pc = txn[d].pc /\ r(d).began = txn[d].began /\ r(d).stale = s(d)
  <2> SUFFICES ASSUME NEW d \in Caller \ {c}
               PROVE  r(d).pc = txn[d].pc /\ r(d).began = txn[d].began /\ r(d).stale = s(d)
    OBVIOUS
  <2>1. s(d) \in BOOLEAN
    BY <1>3
  <2>2. QED
    BY <1>2, <2>1
<1>7. Committed(c, t) = [d \in Caller |-> r(d)]
  BY <1>4
<1> HIDE DEF r
<1>8. QED
  BY <1>5, <1>6, <1>7 DEF s

-----------------------------------------------------------------------------

(* A step of one call and its transaction that leaves the table alone.      *)
LEMMA LocalStep ==
  ASSUME PgInv, NEW c \in Caller, NEW t \in TxnRecord, NEW k \in Ledger!CallRecord,
         txn' = [txn EXCEPT ![c] = t], call' = [call EXCEPT ![c] = k],
         UNCHANGED <<now, table>>,
         k.since <= now,
         t.pc \in {"begun", "counted"} => t.began \in k.since .. now,
         t.pc # "idle" => k.st = "open",
         (t.pc = "counted" /\ ~ t.stale) => \A n \in k.batch : table[n] = NoRow
  PROVE  PgInv'
<1>1. TypeOK'
  BY DEF PgInv, TypeOK
<1>2. txn'[c] = t /\ call'[c] = k /\ \A d \in Caller \ {c} : txn'[d] = txn[d] /\ call'[d] = call[d]
  BY DEF PgInv, TypeOK
<1>3. PgTimes'
  BY <1>2 DEF PgInv, PgTimes
<1>4. ServesOpenCall'
  BY <1>2 DEF PgInv, ServesOpenCall
<1>5. SnapshotHolds'
  BY <1>2 DEF PgInv, SnapshotHolds, Present
<1>6. QED
  BY <1>1, <1>3, <1>4, <1>5 DEF PgInv

(* The commit of a call's rows: a snapshot of another transaction either    *)
(* does not concern them or has become stale.                               *)
LEMMA CommitStep ==
  ASSUME PgInv, NEW c \in Caller, NEW t \in TxnRecord, NEW k \in Ledger!CallRecord,
         NEW ts \in Nat, table' = Rows(c, ts),
         txn' = Committed(c, t), call' = [call EXCEPT ![c] = k], UNCHANGED now,
         k.since <= now,
         t.pc \in {"idle", "error"}, t.pc = "error" => k.st = "open"
  PROVE  PgInv'
<1>0. TypeOK
  BY DEF PgInv
<1>1. /\ txn' \in [Caller -> TxnRecord] /\ txn'[c].pc = t.pc
      /\ \A d \in Caller \ {c} :
           /\ txn'[d].pc = txn[d].pc /\ txn'[d].began = txn[d].began
           /\ txn'[d].stale
              <=> txn[d].stale \/ (txn[d].pc = "counted" /\ call[d].batch \cap call[c].batch # {})
  <2>1. /\ Committed(c, t) \in [Caller -> TxnRecord]
        /\ Committed(c, t)[c].pc = t.pc
        /\ \A d \in Caller \ {c} :
             /\ Committed(c, t)[d].pc = txn[d].pc
             /\ Committed(c, t)[d].began = txn[d].began
             /\ Committed(c, t)[d].stale
                <=> txn[d].stale \/ (txn[d].pc = "counted" /\ call[d].batch \cap call[c].batch # {})
    BY <1>0, CommittedIs, Zenon
  <2>2. txn' = Committed(c, t)
    OBVIOUS
  <2>3. QED
    BY <2>1, <2>2, Zenon
<1>2. call'[c] = k /\ \A d \in Caller \ {c} : call'[d] = call[d]
  BY <1>0 DEF TypeOK
<1>3. TypeOK'
  BY <1>0, <1>1 DEF TypeOK, Rows
<1>4. PgTimes'
  BY <1>1, <1>2 DEF PgInv, PgTimes
<1>5. ServesOpenCall'
  BY <1>1, <1>2 DEF PgInv, ServesOpenCall
<1>6. SnapshotHolds'
  <2> SUFFICES ASSUME NEW d \in Caller, txn'[d].pc = "counted", ~ txn'[d].stale,
                      NEW n \in call'[d].batch
               PROVE  table'[n] = NoRow
    BY DEF SnapshotHolds, Present
  <2>1. d # c /\ txn[d].pc = "counted" /\ ~ txn[d].stale /\ call[d].batch \cap call[c].batch = {}
    BY <1>1
  <2>2. n \in call[d].batch /\ n \notin call[c].batch /\ n \in Nonce
    BY <1>0, <1>2, <2>1 DEF TypeOK, Ledger!CallRecord
  <2>3. table[n] = NoRow
    BY <2>1, <2>2 DEF PgInv, SnapshotHolds, Present
  <2>4. QED
    BY <2>2, <2>3 DEF Rows
<1>7. QED
  BY <1>3, <1>4, <1>5, <1>6 DEF PgInv

(* What an answered call and its closed transaction look like.              *)
LEMMA AnswerIs ==
  ASSUME PgInv, NEW c \in Caller, NEW st \in {"won", "lost", "failed"}, Answer(c, st)
  PROVE  \E k \in Ledger!CallRecord :
            /\ call' = [call EXCEPT ![c] = k]
            /\ k.since = call[c].since /\ k.st = st
<1> DEFINE k == [call[c] EXCEPT !.st = st, !.at = IF st = "won" THEN now ELSE @]
<1>1. call[c] \in Ledger!CallRecord /\ now \in Nat
  BY PgAssumption DEF PgInv, TypeOK
<1>2. (IF st = "won" THEN now ELSE call[c].at) \in {-1} \cup Nat
  BY <1>1 DEF Ledger!CallRecord, Ledger!Unseen
<1>3. k \in Ledger!CallRecord /\ k.since = call[c].since /\ k.st = st
  BY <1>1, <1>2 DEF Ledger!CallRecord, Ledger!CallState, Ledger!Unseen
<1>4. call' = [call EXCEPT ![c] = k]
  BY <1>1 DEF Answer, PgInv, TypeOK
<1>5. QED
  BY <1>3, <1>4

LEMMA PgInvStep == ASSUME PgInv, [Next]_vars PROVE PgInv'
<1>0. /\ TypeOK /\ now \in Nat /\ MaxRetries \in Nat \ {0} /\ now \in 0 .. MaxTime /\ MaxTime \in Nat
      /\ \A c \in Caller : call[c] \in Ledger!CallRecord /\ txn[c] \in TxnRecord
      /\ \A c \in Caller : call[c].since \in Nat /\ call[c].since <= now
      /\ \A c \in Caller : txn[c].pc # "idle" => call[c].st = "open"
  BY PgAssumption DEF PgInv, TypeOK, PgTimes, ServesOpenCall, Ledger!CallRecord
<1>1. ASSUME NEW c \in Caller, NEW batch \in SUBSET Nonce, NEW pc \in {"attempt", "single"},
             Open(c, batch, pc)
      PROVE  PgInv'
  <2> DEFINE k == [st |-> "open", batch |-> batch, since |-> now, at |-> -1]
             t == [txn[c] EXCEPT !.pc = pc]
  <2>1. k \in Ledger!CallRecord /\ k.since = now /\ k.st = "open"
    BY <1>0 DEF Ledger!CallRecord, Ledger!CallState, Ledger!Unseen
  <2>2. t \in TxnRecord /\ t.pc = pc /\ pc \notin {"begun", "counted", "idle"}
    BY <1>0 DEF TxnRecord
  <2>3. call' = [call EXCEPT ![c] = k] /\ txn' = [txn EXCEPT ![c] = t] /\ UNCHANGED <<now, table>>
    BY <1>0, <1>1 DEF Open, TypeOK
  <2> HIDE DEF k, t
  <2>4. QED
    BY <1>0, <2>1, <2>2, <2>3, now <= now, LocalStep
<1>2. ASSUME NEW c \in Caller, Begin(c)
      PROVE  PgInv'
  <2> DEFINE t == [txn[c] EXCEPT !.pc = "begun", !.began = now, !.stale = FALSE]
  <2>1. t \in TxnRecord /\ t.pc = "begun" /\ t.began = now
    BY <1>0 DEF TxnRecord
  <2>2. call' = [call EXCEPT ![c] = call[c]] /\ txn' = [txn EXCEPT ![c] = t] /\ UNCHANGED <<now, table>>
    BY <1>0, <1>2 DEF Begin, TypeOK
  <2>3. call[c].st = "open" /\ now \in call[c].since .. now
    BY <1>0, <1>2 DEF Begin
  <2> HIDE DEF t
  <2>4. QED
    BY <1>0, <2>1, <2>2, <2>3, LocalStep
<1>3. ASSUME NEW c \in Caller, Answer(c, "lost") \/ Answer(c, "failed"),
             txn' = [txn EXCEPT ![c] = Closed(c)], UNCHANGED <<now, table>>
      PROVE  PgInv'
  <2>1. PICK k \in Ledger!CallRecord : call' = [call EXCEPT ![c] = k] /\ k.since = call[c].since
    BY <1>3, AnswerIs
  <2>2. Closed(c) \in TxnRecord /\ Closed(c).pc = "idle"
    BY <1>0, TxnForms
  <2>3. QED
    BY <1>0, <1>3, <2>1, <2>2, LocalStep
<1>4. ASSUME NEW c \in Caller, txn[c].pc = "begun", ~ Present(c),
             txn' = [txn EXCEPT ![c].pc = "counted"], UNCHANGED <<now, table, call>>
      PROVE  PgInv'
  <2> DEFINE t == [txn[c] EXCEPT !.pc = "counted"]
  <2>1. t \in TxnRecord /\ t.pc = "counted" /\ t.began = txn[c].began
    BY <1>0 DEF TxnRecord
  <2>2. call' = [call EXCEPT ![c] = call[c]] /\ txn' = [txn EXCEPT ![c] = t]
    BY <1>0, <1>4 DEF TypeOK
  <2>3. call[c].st = "open" /\ txn[c].began \in call[c].since .. now
    BY <1>0, <1>4 DEF PgInv, PgTimes
  <2>4. \A n \in call[c].batch : table[n] = NoRow
    BY <1>4 DEF Present
  <2> HIDE DEF t
  <2>5. QED
    BY <1>0, <1>4, <2>1, <2>2, <2>3, <2>4, LocalStep
<1>5. ASSUME NEW c \in Caller, NEW ts \in Nat, table' = Rows(c, ts), Answer(c, "won"),
             txn' = Committed(c, Closed(c)), UNCHANGED now
      PROVE  PgInv'
  <2>1. PICK k \in Ledger!CallRecord : call' = [call EXCEPT ![c] = k] /\ k.since = call[c].since
    BY <1>5, AnswerIs
  <2>2. Closed(c) \in TxnRecord /\ Closed(c).pc = "idle"
    BY <1>0, TxnForms
  <2>3. QED
    BY <1>0, <1>5, <2>1, <2>2, CommitStep
<1>6. ASSUME NEW c \in Caller, NEW ts \in Nat, NEW a \in 0 .. MaxRetries, txn[c].pc # "idle",
             table' = Rows(c, ts), txn' = Committed(c, Errored(c, a)), UNCHANGED <<now, call>>
      PROVE  PgInv'
  <2>1. Errored(c, a) \in TxnRecord /\ Errored(c, a).pc = "error"
    BY <1>0, TxnForms
  <2>2. call' = [call EXCEPT ![c] = call[c]] /\ call[c].st = "open"
    BY <1>0, <1>6 DEF TypeOK
  <2>3. QED
    BY <1>0, <1>6, <2>1, <2>2, CommitStep
<1>7. ASSUME NEW c \in Caller, NEW a \in 0 .. MaxRetries, txn[c].pc # "idle",
             txn' = [txn EXCEPT ![c] = Errored(c, a)], UNCHANGED <<now, table, call>>
      PROVE  PgInv'
  <2>1. Errored(c, a) \in TxnRecord /\ Errored(c, a).pc = "error"
    BY <1>0, TxnForms
  <2>2. call' = [call EXCEPT ![c] = call[c]] /\ call[c].st = "open"
    BY <1>0, <1>7 DEF TypeOK
  <2>3. QED
    BY <1>0, <1>7, <2>1, <2>2, LocalStep
<1>8. ASSUME NEW c \in Caller, Retry(c)
      PROVE  PgInv'
  <2> DEFINE a == txn[c].attempt + 1
             t == [txn[c] EXCEPT !.pc = "attempt", !.attempt = a]
  <2>0. a \in 0 .. MaxRetries
    BY <1>0, <1>8 DEF Retry, TxnRecord
  <2>2. /\ call' = [call EXCEPT ![c] = call[c]] /\ txn' = [txn EXCEPT ![c] = t]
        /\ UNCHANGED <<now, table>> /\ call[c].st = "open"
    BY <1>0, <1>8 DEF Retry, TypeOK, TxnRecord
  <2> HIDE DEF a
  <2>1. t \in TxnRecord /\ t.pc = "attempt"
    BY <1>0, <2>0 DEF TxnRecord
  <2> HIDE DEF t
  <2>3. QED
    BY <1>0, <2>1, <2>2, LocalStep
<1>9. ASSUME now >= PruneAge, prune_nonces_before(now - PruneAge)
      PROVE  PgInv'
  <2>1. /\ UNCHANGED <<now, call, txn>> /\ table' \in [Nonce -> {NoRow} \cup Nat]
        /\ \A n \in Nonce : table[n] = NoRow => table'[n] = NoRow
    BY <1>0, <1>9 DEF prune_nonces_before, TypeOK
  <2>2. TypeOK' /\ PgTimes' /\ ServesOpenCall'
    BY <2>1 DEF PgInv, TypeOK, PgTimes, ServesOpenCall
  <2>3. SnapshotHolds'
    BY <1>0, <2>1 DEF PgInv, SnapshotHolds, Present, Ledger!CallRecord
  <2>4. QED
    BY <2>2, <2>3 DEF PgInv
<1>10. CASE Tick
  <2>1. now' = now + 1 /\ now' \in 0 .. MaxTime /\ UNCHANGED <<table, call, txn>>
    BY <1>0, <1>10 DEF Tick
  <2>2. TypeOK' /\ ServesOpenCall'
    BY <2>1 DEF PgInv, TypeOK, ServesOpenCall
  <2>3. PgTimes'
    BY <1>0, <2>1 DEF PgInv, PgTimes, TxnRecord
  <2>4. SnapshotHolds'
    BY <2>1 DEF PgInv, SnapshotHolds, Present
  <2>5. QED
    BY <2>2, <2>3, <2>4 DEF PgInv
<1>11. CASE UNCHANGED vars
  BY <1>11 DEF vars, PgInv, TypeOK, PgTimes, ServesOpenCall, SnapshotHolds, Present
<1>12. ASSUME NEW c \in Caller, Serve(c)
       PROVE  PgInv'
  <2>0. txn[c].began \in Nat /\ txn[c].attempt \in 0 .. MaxRetries /\ MaxRetries \in 0 .. MaxRetries
    BY <1>0 DEF TxnRecord
  <2>1. CASE Count(c)
    BY <1>3, <1>4, <2>1 DEF Count
  <2>2. CASE Commit(c)
    BY <1>5, <2>0, <2>2 DEF Commit
  <2>3. CASE CommitAckLost(c)
    BY <1>6, <2>0, <2>3 DEF CommitAckLost
  <2>4. CASE StatementFails(c)
    BY <1>7, <2>0, <2>4 DEF StatementFails
  <2>5. CASE GiveUp(c)
    BY <1>3, <2>5 DEF GiveUp
  <2>6. CASE try_consume(c)
    BY <1>0, <1>3, <1>5, <2>6 DEF try_consume
  <2>7. CASE try_consume_ack_lost(c)
    BY <1>0, <1>6, <2>0, <2>7 DEF try_consume_ack_lost
  <2>8. CASE try_consume_fails(c)
    BY <1>7, <2>0, <2>8 DEF try_consume_fails
  <2>9. QED
    BY <1>2, <1>8, <1>12, <2>1, <2>2, <2>3, <2>4, <2>5, <2>6, <2>7, <2>8 DEF Serve
<1>13. QED
  BY <1>1, <1>9, <1>10, <1>11, <1>12 DEF Next

LEMMA PgInvInit == Init => PgInv
<1> SUFFICES ASSUME Init PROVE PgInv
  OBVIOUS
<1>1. TypeOK
  BY PgAssumption DEF Init, TypeOK, TxnRecord, NoRow, Ledger!CallRecord, Ledger!CallState, Ledger!Unseen
<1>2. PgTimes /\ ServesOpenCall /\ SnapshotHolds
  BY DEF Init, PgTimes, ServesOpenCall, SnapshotHolds
<1>3. QED
  BY <1>1, <1>2 DEF PgInv

LEMMA PgInvariant == Spec => []PgInv
<1>1. PgInv /\ [Next]_vars => PgInv'
  BY PgInvStep
<1>2. QED
  BY <1>1, PgInvInit, PTL DEF Spec

-----------------------------------------------------------------------------

(* Each step is a step of the ledger, or leaves it alone: a commit accepts  *)
(* the batch, or burns it when its acknowledgement is lost.                 *)
LEMMA PgStep ==
  ASSUME PgInv, [Next]_vars
  PROVE  [Ledger!LedgerNext]_Ledger!ledgerVars
<1>0. /\ TypeOK /\ now \in Nat /\ PruneAge \in Nat
      /\ call \in [Caller -> Ledger!CallRecord]
      /\ \A c \in Caller : call[c].since \in Nat /\ call[c].since <= now
      /\ \A c \in Caller : txn[c].pc # "idle" => call[c].st = "open"
  BY PgAssumption DEF PgInv, TypeOK, PgTimes, ServesOpenCall, Ledger!CallRecord
<1>1. \A c \in Caller : Present(c) <=> ~ Ledger!Fresh(call[c].batch)
  BY DEF Present, Ledger!Fresh, Ledger!Unseen, NoRow
<1>2. \A c \in Caller : Answer(c, "won") => call' = [call EXCEPT ![c].st = "won", ![c].at = now]
  BY DEF Answer
<1>3. \A c \in Caller : /\ Answer(c, "lost") => call' = [call EXCEPT ![c].st = "lost"]
                        /\ Answer(c, "failed") => call' = [call EXCEPT ![c].st = "failed"]
  BY <1>0 DEF Answer, Ledger!CallRecord
<1>4. ASSUME NEW c \in Caller, NEW batch \in SUBSET Nonce, NEW pc, Open(c, batch, pc)
      PROVE  Ledger!LedgerNext
  <2>1. Ledger!Invoke(c, batch)
    BY <1>4 DEF Open, Ledger!Invoke, Ledger!Unseen
  <2>2. QED
    BY <2>1 DEF Ledger!LedgerNext
<1>5. ASSUME NEW c \in Caller, txn[c].pc # "idle", ~ Present(c), UNCHANGED now,
             NEW t \in call[c].since .. now, table' = Rows(c, t), Answer(c, "won") \/ UNCHANGED call
      PROVE  Ledger!LedgerNext
  <2>1. /\ call[c].st = "open" /\ Ledger!Fresh(call[c].batch)
        /\ table' = Ledger!Stamp(call[c].batch, t)
    BY <1>0, <1>1, <1>5 DEF Rows, Ledger!Stamp
  <2>2. Ledger!Accept(c) \/ Ledger!Burn(c)
    BY <1>2, <1>5, <2>1 DEF Ledger!Accept, Ledger!Burn
  <2>3. QED
    BY <2>2 DEF Ledger!LedgerNext
<1>6. ASSUME NEW c \in Caller, txn[c].pc # "idle", Present(c), Answer(c, "lost"),
             UNCHANGED <<now, table>>
      PROVE  Ledger!LedgerNext
  <2>1. Ledger!Reject(c)
    BY <1>0, <1>1, <1>3, <1>6 DEF Ledger!Reject
  <2>2. QED
    BY <2>1 DEF Ledger!LedgerNext
<1>7. ASSUME NEW c \in Caller, GiveUp(c)
      PROVE  Ledger!LedgerNext
  <2>1. Ledger!Fail(c)
    BY <1>0, <1>3, <1>7 DEF GiveUp, Ledger!Fail
  <2>2. QED
    BY <2>1 DEF Ledger!LedgerNext
<1>8. ASSUME now >= PruneAge, prune_nonces_before(now - PruneAge)
      PROVE  Ledger!LedgerNext
  <2> DEFINE old == {n \in Nonce : table[n] # NoRow /\ table[n] < now - PruneAge}
  <2>1. \A n \in Nonce : table[n] = NoRow \/ table[n] \in Nat
    BY <1>0 DEF TypeOK
  <2>2. old \in SUBSET {n \in Nonce : table[n] # Ledger!Unseen /\ now > table[n] + PruneAge}
    BY <1>0, <2>1 DEF Ledger!Unseen, NoRow
  <2>3. table' = Ledger!Stamp(old, Ledger!Unseen)
    BY <1>0, <1>8, <2>1 DEF prune_nonces_before, Ledger!Stamp, Ledger!Unseen, NoRow
  <2> HIDE DEF old
  <2>4. Ledger!Elapse
    BY <1>0, <1>8, <2>2, <2>3 DEF prune_nonces_before, Ledger!Elapse
  <2>5. QED
    BY <2>4 DEF Ledger!LedgerNext
<1>9. CASE Tick
  <2>1. {} \in SUBSET {n \in Nonce : table[n] # Ledger!Unseen /\ now' > table[n] + PruneAge}
    OBVIOUS
  <2>2. table = Ledger!Stamp({}, Ledger!Unseen)
    BY <1>0 DEF TypeOK, Ledger!Stamp
  <2>3. Ledger!Elapse
    BY <1>9, <2>1, <2>2 DEF Tick, Ledger!Elapse
  <2>4. QED
    BY <2>3 DEF Ledger!LedgerNext
<1>10. ASSUME NEW c \in Caller, Serve(c)
       PROVE  Ledger!LedgerNext \/ UNCHANGED Ledger!ledgerVars
  <2>1. CASE Begin(c) \/ StatementFails(c) \/ Retry(c) \/ try_consume_fails(c)
    BY <2>1 DEF Begin, StatementFails, Retry, try_consume_fails, Ledger!ledgerVars
  <2>2. CASE Count(c)
    BY <1>6, <2>2 DEF Count, Ledger!ledgerVars
  <2>3. CASE Commit(c) \/ CommitAckLost(c)
    <3>1. txn[c].pc = "counted" /\ ~ txn[c].stale /\ table' = Rows(c, txn[c].began) /\ UNCHANGED now
      BY <2>3 DEF Commit, CommitAckLost, CanCommit
    <3>2. ~ Present(c) /\ txn[c].began \in call[c].since .. now
      BY <3>1 DEF PgInv, SnapshotHolds, PgTimes
    <3>3. QED
      BY <1>5, <2>3, <3>1, <3>2 DEF Commit, CommitAckLost
  <2>4. CASE try_consume(c) \/ try_consume_ack_lost(c)
    <3>1. now \in call[c].since .. now
      BY <1>0
    <3>2. QED
      BY <1>5, <1>6, <2>4, <3>1 DEF try_consume, try_consume_ack_lost
  <2>5. QED
    BY <1>7, <1>10, <2>1, <2>2, <2>3, <2>4 DEF Serve
<1>11. CASE UNCHANGED vars
  BY <1>11 DEF vars, Ledger!ledgerVars
<1>12. QED
  BY <1>4, <1>8, <1>9, <1>10, <1>11 DEF Next

(* The PostgreSQL store (try_consume and try_consume_batch of a1-pg)        *)
(* implements the ledger for any number of overlapping calls, failures,     *)
(* retries and prunings: serializable isolation keeps a counted batch       *)
(* fresh until it commits, and a retry after a lost acknowledgement finds   *)
(* the rows it has inserted.                                                *)
THEOREM PgStoreImplementsLedger == Spec => ImplementsLedger
<1>1. Init => Ledger!LedgerInit
  BY DEF Init, NoRow, Ledger!LedgerInit, Ledger!Unseen
<1>2. PgInv /\ [Next]_vars => [Ledger!LedgerNext]_Ledger!ledgerVars
  BY PgStep
<1>3. QED
  BY <1>1, <1>2, PgInvariant, PTL DEF Spec, ImplementsLedger, Ledger!LedgerSpec

-----------------------------------------------------------------------------
(* Webhooks                                                                *)

LEMMA WhTypeStep == ASSUME WhTypeOK, [WhNext]_whVars PROVE WhTypeOK'
<1> USE DEF WhTypeOK
<1>1. CASE Shutdown \/ Exit
  BY <1>1 DEF Shutdown, Exit
<1>2. ASSUME NEW e \in Event, Authorized(e) \/ Denied(e)
      PROVE  WhTypeOK'
  BY <1>2 DEF Authorized, Denied
<1>3. ASSUME NEW e \in Event, Deliver(e) \/ Settled(e)
      PROVE  WhTypeOK'
  BY <1>3 DEF Deliver, Settled
<1>4. CASE UNCHANGED whVars
  BY <1>4 DEF whVars
<1>5. QED
  BY <1>1, <1>2, <1>3, <1>4 DEF WhNext

-----------------------------------------------------------------------------
(* The audit sink                                                          *)

(* How many of the emitted events have left the batch.                      *)
Past == Len(emitted) - Len(siemBatch) - Len(channel)

(* The batch and the channel are the last events emitted; what was written  *)
(* reaches from the first event into the batch.                             *)
SiemQueues ==
  /\ Past >= 0
  /\ \A i \in 1 .. Len(siemBatch) : siemBatch[i] = emitted[Past + i]
  /\ \A i \in 1 .. Len(channel) : channel[i] = emitted[Past + Len(siemBatch) + i]
  /\ \E k \in Past .. Past + Len(siemBatch) : wrote = {emitted[i] : i \in 1 .. k}

SiemInv ==
  /\ SiemTypeOK
  /\ siemTask = "ended" => dropped
  /\ siemTask # "ended" => SiemQueues
  /\ SiemInOrder

LEMMA SiemInvInit == SiemInit => SiemInv
<1> SUFFICES ASSUME SiemInit PROVE SiemInv
  OBVIOUS
<1>1. Len(emitted) = 0 /\ Len(siemBatch) = 0 /\ Len(channel) = 0 /\ wrote = {}
  BY DEF SiemInit
<1>2. wrote = {emitted[i] : i \in 1 .. 0}
  BY <1>1
<1>3. 0 \in 0 .. 0
  OBVIOUS
<1>4. SiemInOrder
  BY <1>1, <1>2, <1>3 DEF SiemInOrder
<1>5. SiemQueues
  BY <1>1, <1>2, <1>3 DEF SiemQueues, Past
<1>6. SiemTypeOK
  BY DEF SiemInit, SiemTypeOK
<1>7. QED
  BY <1>4, <1>5, <1>6 DEF SiemInit, SiemInv

LEMMA PastFacts ==
  ASSUME SiemInv, siemTask # "ended"
  PROVE  /\ Past \in Nat /\ Len(emitted) \in Nat /\ Len(siemBatch) \in Nat /\ Len(channel) \in Nat
         /\ Past + Len(siemBatch) + Len(channel) = Len(emitted)
<1>1. Len(emitted) \in Nat /\ Len(siemBatch) \in Nat /\ Len(channel) \in Nat
  BY DEF SiemInv, SiemTypeOK
<1>2. Past >= 0
  BY DEF SiemInv, SiemQueues
<1>3. QED
  BY <1>1, <1>2 DEF Past

LEMMA SiemQuiet ==
  ASSUME UNCHANGED <<emitted, channel, siemBatch, wrote>>
  PROVE  (SiemQueues <=> SiemQueues') /\ (SiemInOrder <=> SiemInOrder')
<1>1. Past' = Past
  BY DEF Past
<1>2. QED
  BY <1>1 DEF SiemQueues, SiemInOrder

(* A flush writes the first k events of the batch.                          *)
LEMMA Flushed ==
  ASSUME SiemInv, siemTask = "flush", NEW k \in 0 .. Len(siemBatch), UNCHANGED emitted,
         Wrote(SubSeq(siemBatch, 1, k))
  PROVE  \E w \in Past + k .. Past + Len(siemBatch) : wrote' = {emitted[i] : i \in 1 .. w}
<1>1. /\ Past \in Nat /\ Len(siemBatch) \in Nat /\ Len(channel) \in Nat /\ Len(emitted) \in Nat
      /\ siemBatch \in Seq(SiemEvent)
      /\ \A i \in 1 .. Len(siemBatch) : siemBatch[i] = emitted[Past + i]
  BY DEF SiemInv, SiemTypeOK, SiemQueues, Past
<1>2. PICK x \in Past .. Past + Len(siemBatch) : wrote = {emitted[i] : i \in 1 .. x}
  BY DEF SiemInv, SiemQueues
<1> DEFINE w == IF x >= Past + k THEN x ELSE Past + k
<1>3. w \in Past + k .. Past + Len(siemBatch) /\ x \in Nat
  BY <1>1, <1>2
<1>4. ToSet(SubSeq(siemBatch, 1, k)) = {siemBatch[i] : i \in 1 .. k}
  <2>1. /\ DOMAIN SubSeq(siemBatch, 1, k) = 1 .. k
        /\ \A i \in 1 .. k : SubSeq(siemBatch, 1, k)[i] = siemBatch[i]
    BY <1>1
  <2>2. QED
    BY <2>1 DEF ToSet
<1>5. wrote' = {emitted[i] : i \in 1 .. x} \cup {siemBatch[i] : i \in 1 .. k}
  BY <1>2, <1>4 DEF Wrote
<1>6. {siemBatch[i] : i \in 1 .. k} = {emitted[i] : i \in Past + 1 .. Past + k}
  <2>1. ASSUME NEW i \in 1 .. k
        PROVE  siemBatch[i] = emitted[Past + i] /\ Past + i \in Past + 1 .. Past + k
    BY <1>1
  <2>2. ASSUME NEW j \in Past + 1 .. Past + k
        PROVE  j - Past \in 1 .. k /\ emitted[j] = siemBatch[j - Past]
    <3>1. j - Past \in 1 .. k /\ j - Past \in 1 .. Len(siemBatch) /\ Past + (j - Past) = j
      BY <1>1
    <3>2. QED
      BY <1>1, <3>1
  <2>3. {siemBatch[i] : i \in 1 .. k} \subseteq {emitted[i] : i \in Past + 1 .. Past + k}
    BY <2>1
  <2>4. {emitted[i] : i \in Past + 1 .. Past + k} \subseteq {siemBatch[i] : i \in 1 .. k}
    BY <2>2
  <2>5. QED
    BY <2>3, <2>4
<1>7. 1 .. w = (1 .. x) \cup (Past + 1 .. Past + k)
  BY <1>1, <1>2
<1>8. {emitted[i] : i \in 1 .. w} = wrote'
  BY <1>5, <1>6, <1>7
<1>9. QED
  BY <1>3, <1>8

LEMMA SiemInvStep == ASSUME SiemInv, [SiemNext]_siemVars PROVE SiemInv'
<1>0. /\ emitted \in Seq(SiemEvent) /\ channel \in Seq(SiemEvent) /\ siemBatch \in Seq(SiemEvent)
      /\ Len(emitted) \in Nat /\ Len(channel) \in Nat /\ Len(siemBatch) \in Nat
      /\ wrote \subseteq SiemEvent
  BY DEF SiemInv, SiemTypeOK
<1>1. PICK o \in 0 .. Len(emitted) : wrote = {emitted[i] : i \in 1 .. o}
  BY DEF SiemInv, SiemInOrder
<1>2. ASSUME NEW e \in SiemEvent, Emit(e)
      PROVE  SiemInv'
  <2>1. /\ emitted' = Append(emitted, e) /\ channel' = Append(channel, e)
        /\ UNCHANGED <<siemBatch, wrote, siemTask, dropped>> /\ ~ dropped
    BY <1>2 DEF Emit
  <2>2. /\ Len(emitted') = Len(emitted) + 1 /\ Len(channel') = Len(channel) + 1
        /\ \A i \in 1 .. Len(emitted) : emitted'[i] = emitted[i]
        /\ \A i \in 1 .. Len(channel) : channel'[i] = channel[i]
        /\ emitted'[Len(emitted) + 1] = e /\ channel'[Len(channel) + 1] = e
    BY <1>0, <2>1
  <2>3. siemTask # "ended" /\ SiemQueues
    BY <2>1 DEF SiemInv
  <2>4. PICK w \in Past .. Past + Len(siemBatch) : wrote = {emitted[i] : i \in 1 .. w}
    BY <2>3 DEF SiemQueues
  <2>5. Past' = Past /\ Past \in Nat /\ Past + Len(siemBatch) + Len(channel) = Len(emitted)
    BY <1>0, <2>1, <2>2, <2>3 DEF Past, SiemQueues
  <2>6. \A i \in 1 .. Len(siemBatch) : siemBatch[i] = emitted'[Past + i]
    <3>1. \A i \in 1 .. Len(siemBatch) : Past + i \in 1 .. Len(emitted)
      BY <1>0, <2>5
    <3>2. QED
      BY <2>2, <2>3, <3>1 DEF SiemQueues
  <2>7. \A i \in 1 .. Len(channel') : channel'[i] = emitted'[Past + Len(siemBatch) + i]
    <3> SUFFICES ASSUME NEW i \in 1 .. Len(channel') PROVE channel'[i] = emitted'[Past + Len(siemBatch) + i]
      OBVIOUS
    <3>1. CASE i = Len(channel) + 1
      <4>1. Past + Len(siemBatch) + i = Len(emitted) + 1
        <5>1. Past + Len(siemBatch) + (Len(channel) + 1) = (Past + Len(siemBatch) + Len(channel)) + 1
          BY <1>0, <2>5
        <5>2. QED
          BY <2>5, <3>1, <5>1
      <4>2. QED
        BY <2>2, <3>1, <4>1
    <3>2. CASE i # Len(channel) + 1
      <4>1. i \in 1 .. Len(channel) /\ Past + Len(siemBatch) + i \in 1 .. Len(emitted)
        BY <1>0, <2>2, <2>5, <3>2
      <4>2. QED
        BY <2>2, <2>3, <4>1 DEF SiemQueues
    <3>3. QED
      BY <3>1, <3>2
  <2>8. wrote' = {emitted'[i] : i \in 1 .. w}
    <3>1. \A i \in 1 .. w : i \in 1 .. Len(emitted)
      BY <1>0, <2>4, <2>5
    <3>2. \A i \in 1 .. w : emitted'[i] = emitted[i]
      BY <2>2, <3>1
    <3>3. QED
      BY <2>1, <2>4, <3>2
  <2>9. SiemQueues'
    <3>1. Len(siemBatch') = Len(siemBatch) /\ siemBatch' = siemBatch
      BY <2>1
    <3>2. Past' >= 0 /\ w \in Past' .. Past' + Len(siemBatch')
      BY <2>4, <2>5, <3>1
    <3>3. /\ \A i \in 1 .. Len(siemBatch') : siemBatch'[i] = emitted'[Past' + i]
          /\ \A i \in 1 .. Len(channel') : channel'[i] = emitted'[Past' + Len(siemBatch') + i]
      BY <2>5, <2>6, <2>7, <3>1
    <3>4. QED
      BY <2>8, <3>2, <3>3 DEF SiemQueues
  <2>10. SiemInOrder'
    <3>1. w \in 0 .. Len(emitted')
      BY <1>0, <2>2, <2>4, <2>5
    <3>2. QED
      BY <2>8, <3>1 DEF SiemInOrder
  <2>11. SiemTypeOK'
    BY <1>0, <2>1 DEF SiemInv, SiemTypeOK
  <2>12. QED
    BY <2>1, <2>3, <2>9, <2>10, <2>11 DEF SiemInv
<1>3. CASE DropSink
  BY <1>3, SiemQuiet DEF DropSink, SiemInv, SiemTypeOK
<1>4. CASE Recv
  <2>1. /\ siemTask = "select" /\ channel # << >> /\ channel' = Tail(channel)
        /\ siemBatch' = Append(siemBatch, Head(channel)) /\ siemTask' \in {"select", "flush"}
        /\ UNCHANGED <<emitted, wrote, dropped>>
    BY <1>4 DEF Recv
  <2>2. /\ Len(channel') = Len(channel) - 1 /\ Len(siemBatch') = Len(siemBatch) + 1
        /\ Len(channel) >= 1
        /\ \A i \in 1 .. Len(channel') : channel'[i] = channel[i + 1]
        /\ \A i \in 1 .. Len(siemBatch) : siemBatch'[i] = siemBatch[i]
        /\ siemBatch'[Len(siemBatch) + 1] = channel[1]
    BY <1>0, <2>1
  <2>3. SiemQueues
    BY <2>1 DEF SiemInv
  <2>4. Past' = Past /\ Past \in Nat
    BY <1>0, <2>1, <2>2, <2>3 DEF Past, SiemQueues
  <2>5. \A i \in 1 .. Len(siemBatch') : siemBatch'[i] = emitted[Past + i]
    <3> SUFFICES ASSUME NEW i \in 1 .. Len(siemBatch') PROVE siemBatch'[i] = emitted[Past + i]
      OBVIOUS
    <3>1. CASE i = Len(siemBatch) + 1
      <4>1. channel[1] = emitted[Past + Len(siemBatch) + 1]
        BY <1>0, <2>2, <2>3 DEF SiemQueues
      <4>2. Past + i = Past + Len(siemBatch) + 1
        BY <1>0, <2>4, <3>1
      <4>3. QED
        BY <2>2, <3>1, <4>1, <4>2
    <3>2. CASE i # Len(siemBatch) + 1
      <4>1. i \in 1 .. Len(siemBatch)
        BY <1>0, <2>2, <3>2
      <4>2. QED
        BY <2>2, <2>3, <4>1 DEF SiemQueues
    <3>3. QED
      BY <3>1, <3>2
  <2>6. \A i \in 1 .. Len(channel') : channel'[i] = emitted[Past + Len(siemBatch') + i]
    <3> SUFFICES ASSUME NEW i \in 1 .. Len(channel')
                 PROVE  channel'[i] = emitted[Past + Len(siemBatch') + i]
      OBVIOUS
    <3>1. i + 1 \in 1 .. Len(channel) /\ Past + Len(siemBatch') + i = Past + Len(siemBatch) + (i + 1)
      BY <1>0, <2>2, <2>4
    <3>2. QED
      BY <2>2, <2>3, <3>1 DEF SiemQueues
  <2>7. \E k \in Past .. Past + Len(siemBatch') : wrote = {emitted[i] : i \in 1 .. k}
    <3>1. Past .. Past + Len(siemBatch) \subseteq Past .. Past + Len(siemBatch')
      BY <1>0, <2>2, <2>4
    <3>2. QED
      BY <2>3, <3>1 DEF SiemQueues
  <2>8. SiemQueues'
    <3>1. Past' >= 0 /\ emitted' = emitted /\ wrote' = wrote
      BY <2>1, <2>4
    <3>2. QED
      BY <2>4, <2>5, <2>6, <2>7, <3>1 DEF SiemQueues
  <2>9. SiemTypeOK'
    <3>1. Head(channel) \in SiemEvent
      BY <1>0, <2>1
    <3>2. siemBatch' \in Seq(SiemEvent) /\ channel' \in Seq(SiemEvent)
      BY <1>0, <2>1, <3>1
    <3>4. siemBatch' # << >>
      BY <1>0, <2>2
    <3>3. QED
      BY <1>0, <2>1, <3>2, <3>4 DEF SiemTypeOK
  <2>10. SiemInOrder'
    BY <1>1, <2>1 DEF SiemInOrder
  <2>11. QED
    BY <2>1, <2>8, <2>9, <2>10 DEF SiemInv
<1>5. CASE Ended
  <2>1. UNCHANGED <<emitted, wrote>> /\ siemTask' = "ended" /\ SiemTypeOK' /\ dropped'
    BY <1>5 DEF Ended, SiemInv, SiemTypeOK
  <2>2. SiemInOrder'
    BY <1>1, <2>1 DEF SiemInOrder
  <2>3. QED
    BY <2>1, <2>2 DEF SiemInv
<1>6. CASE SiemTick
  BY <1>6, SiemQuiet DEF SiemTick, SiemInv, SiemTypeOK
<1>7. CASE FlushOk
  <2>1. SubSeq(siemBatch, 1, Len(siemBatch)) = siemBatch
    BY <1>0
  <2>2. /\ siemTask = "flush" /\ siemTask' = "select" /\ siemBatch' = << >>
        /\ UNCHANGED <<emitted, channel, dropped>> /\ Wrote(SubSeq(siemBatch, 1, Len(siemBatch)))
    BY <1>7, <2>1 DEF FlushOk
  <2>3. PICK w \in Past + Len(siemBatch) .. Past + Len(siemBatch) : wrote' = {emitted[i] : i \in 1 .. w}
    <3>1. Len(siemBatch) \in 0 .. Len(siemBatch)
      BY <1>0
    <3>2. QED
      BY <2>2, <3>1, Flushed
  <2>4. SiemQueues /\ Past \in Nat /\ Past + Len(siemBatch) + Len(channel) = Len(emitted)
    BY <2>2, PastFacts DEF SiemInv
  <2>5. Len(siemBatch') = 0 /\ Past' = Past + Len(siemBatch) /\ w = Past + Len(siemBatch)
    BY <1>0, <2>2, <2>3, <2>4 DEF Past
  <2>6. \A i \in 1 .. Len(channel) : channel[i] = emitted[Past' + Len(siemBatch') + i]
    <3>1. \A i \in 1 .. Len(channel) : Past' + Len(siemBatch') + i = Past + Len(siemBatch) + i
      BY <1>0, <2>4, <2>5
    <3>2. QED
      BY <2>4, <3>1 DEF SiemQueues
  <2>7. w \in Past' .. Past' + Len(siemBatch') /\ Past' >= 0 /\ w \in 0 .. Len(emitted)
    BY <1>0, <2>4, <2>5
  <2>8. SiemQueues' /\ SiemInOrder'
    BY <2>2, <2>3, <2>5, <2>6, <2>7 DEF SiemQueues, SiemInOrder
  <2>9. wrote' \subseteq SiemEvent
    BY <1>0, <2>3, <2>7
  <2>10. QED
    BY <1>0, <2>2, <2>8, <2>9 DEF SiemInv, SiemTypeOK
<1>8. CASE FlushFails
  <2>1. PICK k \in 0 .. Len(siemBatch) : Wrote(SubSeq(siemBatch, 1, k))
    BY <1>8 DEF FlushFails
  <2>2. /\ siemTask = "flush" /\ siemTask' = "select" /\ UNCHANGED <<emitted, channel, siemBatch, dropped>>
    BY <1>8 DEF FlushFails
  <2>3. PICK w \in Past + k .. Past + Len(siemBatch) : wrote' = {emitted[i] : i \in 1 .. w}
    BY <2>1, <2>2, Flushed
  <2>4. SiemQueues /\ Past \in Nat /\ Past + Len(siemBatch) + Len(channel) = Len(emitted)
    BY <2>2, PastFacts DEF SiemInv
  <2>5. w \in Past .. Past + Len(siemBatch) /\ w \in 0 .. Len(emitted) /\ Past' = Past
    BY <1>0, <2>2, <2>3, <2>4 DEF Past
  <2>6. SiemQueues' /\ SiemInOrder'
    <3>1. siemBatch' = siemBatch /\ channel' = channel /\ emitted' = emitted /\ Past' >= 0
      BY <2>2, <2>4, <2>5
    <3>2. w \in Past' .. Past' + Len(siemBatch') /\ wrote' = {emitted'[i] : i \in 1 .. w}
      BY <2>3, <2>5, <3>1
    <3>3. SiemQueues'
      BY <2>4, <2>5, <3>1, <3>2 DEF SiemQueues
    <3>4. QED
      BY <2>5, <3>1, <3>2, <3>3 DEF SiemInOrder
  <2>7. wrote' \subseteq SiemEvent
    BY <1>0, <2>3, <2>5
  <2>8. QED
    BY <1>0, <2>2, <2>6, <2>7 DEF SiemInv, SiemTypeOK
<1>9. CASE UNCHANGED siemVars
  BY <1>9, SiemQuiet DEF siemVars, SiemInv, SiemTypeOK
<1>10. QED
  BY <1>2, <1>3, <1>4, <1>5, <1>6, <1>7, <1>8, <1>9 DEF SiemNext

LEMMA SiemInvMeans == ASSUME SiemInv PROVE SiemTypeOK /\ SiemInOrder /\ SiemForgetsNothing
<1> SUFFICES ASSUME siemTask # "ended"
             PROVE  /\ Len(emitted) - Len(siemBatch \o channel) >= 0
                    /\ SubSeq(emitted, Len(emitted) - Len(siemBatch \o channel) + 1, Len(emitted))
                         = siemBatch \o channel
                    /\ \A i \in 1 .. Len(emitted) - Len(siemBatch \o channel) : emitted[i] \in wrote
  BY DEF SiemInv, SiemForgetsNothing
<1>0. /\ emitted \in Seq(SiemEvent) /\ channel \in Seq(SiemEvent) /\ siemBatch \in Seq(SiemEvent)
      /\ Len(emitted) \in Nat /\ Len(channel) \in Nat /\ Len(siemBatch) \in Nat
  BY DEF SiemInv, SiemTypeOK
<1> DEFINE q == siemBatch \o channel
<1>1. q \in Seq(SiemEvent) /\ Len(q) = Len(siemBatch) + Len(channel)
  BY <1>0
<1>2. SiemQueues /\ Past \in Nat /\ Past = Len(emitted) - Len(q)
  <2>1. SiemQueues
    BY DEF SiemInv
  <2>2. Past \in Nat /\ Past + Len(siemBatch) + Len(channel) = Len(emitted)
    BY PastFacts
  <2>3. QED
    BY <1>0, <1>1, <2>1, <2>2
<1>3. ASSUME NEW i \in 1 .. Len(q) PROVE q[i] = emitted[Past + i]
  <2>1. CASE i <= Len(siemBatch)
    <3>1. i \in 1 .. Len(siemBatch) /\ q[i] = siemBatch[i]
      BY <1>0, <1>1, <2>1
    <3>2. QED
      BY <1>2, <3>1 DEF SiemQueues
  <2>2. CASE i > Len(siemBatch)
    <3>1. i - Len(siemBatch) \in 1 .. Len(channel) /\ q[i] = channel[i - Len(siemBatch)]
      BY <1>0, <1>1, <2>2
    <3>2. Past + Len(siemBatch) + (i - Len(siemBatch)) = Past + i
      BY <1>0, <1>2
    <3>3. QED
      BY <1>2, <3>1, <3>2 DEF SiemQueues
  <2>3. QED
    BY <1>0, <1>1, <2>1, <2>2
<1>4. SubSeq(emitted, Past + 1, Len(emitted)) = q
  <2> DEFINE s == SubSeq(emitted, Past + 1, Len(emitted))
  <2>1. s \in Seq(SiemEvent) /\ Len(s) = Len(q) /\ \A i \in 1 .. Len(q) : s[i] = emitted[Past + i]
    BY <1>0, <1>1, <1>2
  <2>2. \A i \in 1 .. Len(q) : s[i] = q[i]
    BY <1>3, <2>1
  <2> HIDE DEF s, q
  <2>3. s = q
    BY <1>1, <2>1, <2>2
  <2>4. QED
    BY <2>3 DEF s
<1>5. \A i \in 1 .. Past : emitted[i] \in wrote
  BY <1>0, <1>2 DEF SiemQueues
<1>6. QED
  BY <1>2, <1>4, <1>5

-----------------------------------------------------------------------------
(* Install streams                                                         *)

PullEvent ==
  {Command} \cup {Log(i, n) : i \in Pipes, n \in Nat} \cup {Done(ok) : ok \in BOOLEAN}

IsLine(e, i) == e[1] = "log" /\ e[2] = i

LEMMA EventForms ==
  /\ Command \in PullEvent /\ ~ IsDone(Command) /\ \A i \in Pipes : ~ IsLine(Command, i)
  /\ \A i \in Pipes, n \in Nat :
       /\ Log(i, n) \in PullEvent /\ ~ IsDone(Log(i, n)) /\ Log(i, n)[3] = n
       /\ \A j : IsLine(Log(i, n), j) <=> i = j
  /\ \A ok \in BOOLEAN : Done(ok) \in PullEvent /\ IsDone(Done(ok)) /\ \A i : ~ IsLine(Done(ok), i)
  /\ \A e \in PullEvent, i \in Pipes : IsLine(e, i) => e[3] \in Nat /\ e = Log(i, e[3])
<1>1. "command" \notin Pipes
  BY PullAssumption DEF Pipes
<1>2. QED
  BY <1>1 DEF PullEvent, Command, Log, Done, IsLine, IsDone

(* What the client has read or will read if it stays.                       *)
Stream == got \o chan

(* How many lines of pipe i have been sent.                                 *)
Sent(i) == written[i] - Len(held[i]) - Len(pipe[i])

PullTypes ==
  /\ PullTypeOK
  /\ written \in [Pipes -> Nat] /\ pipe \in [Pipes -> Seq(PullEvent)]
  /\ reader \in [Pipes -> {"none", "copying", "closed"}] /\ held \in [Pipes -> Seq(PullEvent)]
  /\ chan \in Seq(PullEvent) /\ got \in Seq(PullEvent)
  /\ client \in {"reading", "gone"}
  /\ \A i \in Pipes : reader[i] = "closed" => held[i] = << >>
  /\ child = "none" => \A i \in Pipes : reader[i] = "none"

(* As long as pipe i is copied for a client that is there, the lines in the *)
(* stream, the line its task holds and those in the pipe are together what  *)
(* the command has written.                                                 *)
Copied(i) ==
  client = "reading" /\ reader[i] # "closed" =>
    /\ Sent(i) >= 0
    /\ \A p \in DOMAIN Stream : IsLine(Stream[p], i) => Stream[p][3] <= Sent(i)
    /\ Sent(i) > 0 => \E p \in DOMAIN Stream : Stream[p] = Log(i, Sent(i))
    /\ held[i] # << >> => held[i] = <<Log(i, Sent(i) + 1)>>
    /\ \A k \in 1 .. Len(pipe[i]) : pipe[i][k] = Log(i, Sent(i) + Len(held[i]) + k)

(* "done" is sent last by the waiting task, once there is nothing left that *)
(* could change how the command ended.                                      *)
DoneAtEnd ==
  /\ waiter # "end" => \A p \in DOMAIN Stream : ~ IsDone(Stream[p])
  /\ \A p, q \in DOMAIN Stream : IsDone(Stream[p]) /\ IsDone(Stream[q]) => p = q
  /\ \A p \in DOMAIN Stream : IsDone(Stream[p]) => Stream[p] = Done(child = "succeeded")
  /\ waiter \in {"idle", "lookup", "spawn", "refuse"} => child = "none"
  /\ waiter = "end" => child # "running"

PullInv ==
  /\ PullTypes
  /\ \A i \in Pipes : Copied(i) /\ InSequence(Stream, i)
  /\ DoneAtEnd

LEMMA StreamType ==
  ASSUME PullTypes
  PROVE  /\ Stream \in Seq(PullEvent) /\ Len(Stream) \in Nat /\ DOMAIN Stream = 1 .. Len(Stream)
         /\ \A p \in DOMAIN Stream : Stream[p] \in PullEvent
BY DEF PullTypes, Stream

LEMMA SentType ==
  ASSUME PullTypes, NEW i \in Pipes
  PROVE  /\ Sent(i) \in Int /\ written[i] \in Nat /\ pipe[i] \in Seq(PullEvent) /\ held[i] \in Seq(PullEvent)
         /\ Len(held[i]) \in Nat /\ Len(pipe[i]) \in Nat
<1>1. written[i] \in Nat /\ pipe[i] \in Seq(PullEvent) /\ held[i] \in Seq(PullEvent)
  BY DEF PullTypes
<1>2. Len(held[i]) \in Nat /\ Len(pipe[i]) \in Nat
  BY <1>1
<1>3. QED
  BY <1>1, <1>2 DEF Sent

(* tx.send.                                                                 *)
LEMMA Sending ==
  ASSUME PullTypes, NEW e \in PullEvent, Send(e), UNCHANGED <<got, client>>
  PROVE  /\ chan' \in Seq(PullEvent) /\ Len(chan') <= Capacity
         /\ \/ client = "gone" /\ Stream' = Stream
            \/ client = "reading" /\ Stream' = Append(Stream, e)
<1>1. chan \in Seq(PullEvent) /\ got \in Seq(PullEvent) /\ Len(chan) <= Capacity /\ client \in {"reading", "gone"}
  BY DEF PullTypes, PullTypeOK
<1>2. CASE client = "gone"
  BY <1>1, <1>2 DEF Send, Stream
<1>3. CASE client = "reading"
  <2>1. Len(chan) < Capacity /\ chan' = Append(chan, e)
    BY <1>3 DEF Send
  <2>2. chan' \in Seq(PullEvent) /\ Len(chan') = Len(chan) + 1 /\ Len(chan) \in Nat
    BY <1>1, <2>1
  <2>3. got \o Append(chan, e) = Append(got \o chan, e)
    BY <1>1
  <2>4. QED
    BY <1>3, <2>1, <2>2, <2>3, PullAssumption DEF Stream
<1>4. QED
  BY <1>1, <1>2, <1>3

LEMMA OneMore ==
  ASSUME NEW S, NEW s \in Seq(S), NEW e \in S, NEW t, t = Append(s, e)
  PROVE  /\ t \in Seq(S) /\ DOMAIN t = 1 .. Len(s) + 1 /\ DOMAIN s = 1 .. Len(s) /\ Len(s) \in Nat
         /\ t[Len(s) + 1] = e /\ \A p \in 1 .. Len(s) : t[p] = s[p]
         /\ \A p \in DOMAIN t : p \in DOMAIN s \/ p = Len(s) + 1
OBVIOUS

LEMMA StreamGrows ==
  ASSUME PullTypes, NEW e \in PullEvent, Stream' = Append(Stream, e)
  PROVE  /\ DOMAIN Stream' = 1 .. Len(Stream) + 1 /\ Stream'[Len(Stream) + 1] = e
         /\ \A p \in 1 .. Len(Stream) : Stream'[p] = Stream[p]
         /\ \A p \in DOMAIN Stream' : p \in DOMAIN Stream \/ p = Len(Stream) + 1
<1>1. Stream \in Seq(PullEvent)
  BY StreamType
<1>2. \A t : t = Append(Stream, e) =>
        /\ DOMAIN t = 1 .. Len(Stream) + 1 /\ t[Len(Stream) + 1] = e
        /\ \A p \in 1 .. Len(Stream) : t[p] = Stream[p]
        /\ \A p \in DOMAIN t : p \in DOMAIN Stream \/ p = Len(Stream) + 1
  BY <1>1, OneMore
<1>3. QED
  BY <1>2

(* An event that is no line of pipe i, or none, leaves its lines alone.     *)
LEMMA LinesKept ==
  ASSUME PullInv, NEW i \in Pipes,
         written'[i] = written[i], pipe'[i] = pipe[i], held'[i] = held[i],
         reader'[i] = reader[i] \/ reader'[i] = "closed" \/ reader[i] = "none", client' = client,
         Stream' = Stream \/ \E e \in PullEvent : ~ IsLine(e, i) /\ Stream' = Append(Stream, e)
  PROVE  Copied(i)' /\ InSequence(Stream', i)
<1>0. Stream \in Seq(PullEvent) /\ Len(Stream) \in Nat /\ DOMAIN Stream = 1 .. Len(Stream)
  BY StreamType DEF PullInv
<1>1. /\ DOMAIN Stream \subseteq DOMAIN Stream'
      /\ \A p \in DOMAIN Stream : Stream'[p] = Stream[p]
      /\ \A p \in DOMAIN Stream' : p \in DOMAIN Stream \/ ~ IsLine(Stream'[p], i)
      /\ \A p \in DOMAIN Stream' : p \in Nat
      /\ \A p \in DOMAIN Stream' : 1 .. p - 1 \subseteq DOMAIN Stream
  <2>1. CASE Stream' = Stream
    BY <1>0, <2>1
  <2>2. ASSUME NEW e \in PullEvent, ~ IsLine(e, i), Stream' = Append(Stream, e)
        PROVE  <1>1!:
    <3>1. /\ DOMAIN Stream' = 1 .. Len(Stream) + 1 /\ Stream'[Len(Stream) + 1] = e
          /\ \A p \in 1 .. Len(Stream) : Stream'[p] = Stream[p]
          /\ \A p \in DOMAIN Stream' : p \in DOMAIN Stream \/ p = Len(Stream) + 1
      BY <2>2, StreamGrows DEF PullInv
    <3>2. DOMAIN Stream \subseteq DOMAIN Stream' /\ \A p \in DOMAIN Stream' : p \in Nat
      BY <1>0, <3>1
    <3>3. \A p \in DOMAIN Stream' : p \in DOMAIN Stream \/ ~ IsLine(Stream'[p], i)
      BY <2>2, <3>1
    <3>4. \A p \in DOMAIN Stream' : 1 .. p - 1 \subseteq DOMAIN Stream
      BY <1>0, <3>1
    <3>5. \A p \in DOMAIN Stream : Stream'[p] = Stream[p]
      BY <1>0, <3>1
    <3>6. QED
      BY <3>2, <3>3, <3>4, <3>5
  <2>3. QED
    BY <2>1, <2>2
<1>2. Sent(i)' = Sent(i)
  BY DEF Sent
<1>3. Copied(i)'
  <2> SUFFICES ASSUME client' = "reading", reader'[i] # "closed"
               PROVE  /\ Sent(i)' >= 0
                      /\ \A p \in DOMAIN Stream' : IsLine(Stream'[p], i) => Stream'[p][3] <= Sent(i)'
                      /\ Sent(i)' > 0 => \E p \in DOMAIN Stream' : Stream'[p] = Log(i, Sent(i)')
                      /\ held'[i] # << >> => held'[i] = <<Log(i, Sent(i)' + 1)>>
                      /\ \A k \in 1 .. Len(pipe'[i]) : pipe'[i][k] = Log(i, Sent(i)' + Len(held'[i]) + k)
    BY DEF Copied
  <2>1. client = "reading" /\ reader[i] # "closed"
    OBVIOUS
  <2>2. /\ Sent(i) >= 0
        /\ \A p \in DOMAIN Stream : IsLine(Stream[p], i) => Stream[p][3] <= Sent(i)
        /\ Sent(i) > 0 => \E p \in DOMAIN Stream : Stream[p] = Log(i, Sent(i))
        /\ held[i] # << >> => held[i] = <<Log(i, Sent(i) + 1)>>
        /\ \A k \in 1 .. Len(pipe[i]) : pipe[i][k] = Log(i, Sent(i) + Len(held[i]) + k)
    BY <2>1 DEF PullInv, Copied
  <2>3. QED
    BY <1>1, <1>2, <2>2
<1>4. InSequence(Stream', i)
  <2> SUFFICES ASSUME NEW p \in DOMAIN Stream', IsLine(Stream'[p], i)
               PROVE  /\ Stream'[p][3] > 1 => \E q \in 1 .. p - 1 : Stream'[q] = Log(i, Stream'[p][3] - 1)
                      /\ \A q \in 1 .. p - 1 : IsLine(Stream'[q], i) => Stream'[q][3] < Stream'[p][3]
    BY DEF InSequence, IsLine
  <2>1. p \in DOMAIN Stream /\ \A q \in 1 .. p - 1 : q \in DOMAIN Stream
    BY <1>1
  <2>2. /\ Stream[p][3] > 1 => \E q \in 1 .. p - 1 : Stream[q] = Log(i, Stream[p][3] - 1)
        /\ \A q \in 1 .. p - 1 : IsLine(Stream[q], i) => Stream[q][3] < Stream[p][3]
    BY <1>1, <2>1 DEF PullInv, InSequence, IsLine
  <2>3. QED
    BY <1>1, <2>1, <2>2
<1>5. QED
  BY <1>3, <1>4

(* Nothing is said about a pipe whose end was closed, or to a client that   *)
(* has gone.                                                                *)
LEMMA NoMoreLines ==
  ASSUME PullInv, NEW i \in Pipes, Stream' = Stream, reader'[i] = "closed" \/ client' = "gone"
  PROVE  Copied(i)' /\ InSequence(Stream', i)
BY DEF PullInv, Copied

(* What was sent is not taken back, and only "done" is done.                *)
LEMMA DonesKept ==
  ASSUME PullInv, waiter' = "end" <=> waiter = "end", waiter = "end" => child' = child,
         waiter' \in {"idle", "lookup", "spawn", "refuse"} => child' = "none",
         Stream' = Stream \/ \E e \in PullEvent : ~ IsDone(e) /\ Stream' = Append(Stream, e)
  PROVE  DoneAtEnd'
<1>0. Stream \in Seq(PullEvent) /\ Len(Stream) \in Nat /\ DOMAIN Stream = 1 .. Len(Stream)
  BY StreamType DEF PullInv
<1>1. /\ \A p \in DOMAIN Stream : Stream'[p] = Stream[p]
      /\ \A p \in DOMAIN Stream' : p \in DOMAIN Stream \/ ~ IsDone(Stream'[p])
  <2>1. CASE Stream' = Stream
    BY <2>1
  <2>2. ASSUME NEW e \in PullEvent, ~ IsDone(e), Stream' = Append(Stream, e)
        PROVE  <1>1!:
    <3>1. /\ DOMAIN Stream' = 1 .. Len(Stream) + 1 /\ Stream'[Len(Stream) + 1] = e
          /\ \A p \in 1 .. Len(Stream) : Stream'[p] = Stream[p]
          /\ \A p \in DOMAIN Stream' : p \in DOMAIN Stream \/ p = Len(Stream) + 1
      BY <2>2, StreamGrows DEF PullInv
    <3>2. QED
      BY <1>0, <2>2, <3>1
  <2>3. QED
    BY <2>1, <2>2
<1>2. /\ waiter # "end" => \A p \in DOMAIN Stream : ~ IsDone(Stream[p])
      /\ \A p, q \in DOMAIN Stream : IsDone(Stream[p]) /\ IsDone(Stream[q]) => p = q
      /\ \A p \in DOMAIN Stream : IsDone(Stream[p]) => Stream[p] = Done(child = "succeeded")
  BY DEF PullInv, DoneAtEnd
<1>3. \A p \in DOMAIN Stream' : IsDone(Stream'[p]) => p \in DOMAIN Stream /\ IsDone(Stream[p]) /\ waiter = "end"
  BY <1>1, <1>2
<1>4. waiter' # "end" => \A p \in DOMAIN Stream' : ~ IsDone(Stream'[p])
  BY <1>3
<1>5. \A p, q \in DOMAIN Stream' : IsDone(Stream'[p]) /\ IsDone(Stream'[q]) => p = q
  BY <1>2, <1>3
<1>6. \A p \in DOMAIN Stream' : IsDone(Stream'[p]) => Stream'[p] = Done(child' = "succeeded")
  BY <1>1, <1>2, <1>3
<1>7. waiter' = "end" => child' # "running"
  BY DEF PullInv, DoneAtEnd
<1>8. QED
  BY <1>4, <1>5, <1>6, <1>7 DEF DoneAtEnd

(* "done" is sent once, with the command's success.                         *)
LEMMA DoneSent ==
  ASSUME PullInv, waiter # "end", waiter' = "end", child' = child, child # "running",
         Stream' = Stream \/ Stream' = Append(Stream, Done(child = "succeeded"))
  PROVE  DoneAtEnd'
<1> DEFINE d == Done(child = "succeeded")
<1>0. d \in PullEvent /\ IsDone(d)
  BY EventForms
<1>1. \A p \in DOMAIN Stream : ~ IsDone(Stream[p])
  BY DEF PullInv, DoneAtEnd
<1>2. CASE Stream' = Stream
  BY <1>1, <1>2 DEF DoneAtEnd
<1>3. CASE Stream' = Append(Stream, d)
  <2>1. /\ DOMAIN Stream' = 1 .. Len(Stream) + 1 /\ Stream'[Len(Stream) + 1] = d
        /\ \A p \in 1 .. Len(Stream) : Stream'[p] = Stream[p]
        /\ \A p \in DOMAIN Stream' : p \in DOMAIN Stream \/ p = Len(Stream) + 1
    BY <1>0, <1>3, StreamGrows DEF PullInv
  <2>2. DOMAIN Stream = 1 .. Len(Stream)
    BY StreamType DEF PullInv
  <2>3. \A p \in DOMAIN Stream' : IsDone(Stream'[p]) => p = Len(Stream) + 1
    BY <1>1, <2>1, <2>2
  <2>4. \A p \in DOMAIN Stream' : IsDone(Stream'[p]) => Stream'[p] = Done(child' = "succeeded")
    BY <2>1, <2>3
  <2>5. QED
    BY <2>3, <2>4 DEF DoneAtEnd
<1>4. QED
  BY <1>2, <1>3

LEMMA PullInvInit ==
  ASSUME PullInit
  PROVE  PullInv
<1>1. Stream = << >>
  BY DEF PullInit, Stream
<1>2. PullTypes
  BY PullAssumption DEF PullInit, PullTypes, PullTypeOK, Pipes
<1>3. DOMAIN Stream = {}
  BY <1>1
<1>4. ASSUME NEW i \in Pipes PROVE Copied(i) /\ InSequence(Stream, i)
  BY <1>3 DEF PullInit, Copied, Sent, InSequence
<1>5. DoneAtEnd
  BY <1>3 DEF PullInit, DoneAtEnd
<1>6. QED
  BY <1>2, <1>4, <1>5 DEF PullInv

LEMMA HeadMoved ==
  ASSUME NEW S, NEW s \in Seq(S), NEW t \in Seq(S), t # << >>
  PROVE  Append(s, Head(t)) \o Tail(t) = s \o t
OBVIOUS

(* The copying task of pipe i takes lines from its pipe one by one, and what *)
(* the command writes comes after them.                                     *)
LEMMA PipeKept ==
  ASSUME PullInv, NEW i \in Pipes, Write(i) \/ TakeLine(i)
  PROVE  Copied(i)' /\ InSequence(Stream', i)
<1>0. /\ Sent(i) \in Int /\ written[i] \in Nat /\ pipe[i] \in Seq(PullEvent) /\ held[i] \in Seq(PullEvent)
      /\ Len(held[i]) \in Nat /\ Len(pipe[i]) \in Nat
  BY SentType DEF PullInv
<1>1. Stream' = Stream /\ client' = client
  BY DEF Write, TakeLine, Stream
<1>2. InSequence(Stream', i)
  BY <1>1 DEF PullInv
<1>3. written \in [Pipes -> Nat] /\ pipe \in [Pipes -> Seq(PullEvent)] /\ held \in [Pipes -> Seq(PullEvent)]
      /\ reader \in [Pipes -> {"none", "copying", "closed"}]
  BY DEF PullInv, PullTypes
<1>4. CASE reader'[i] = "closed" \/ client' = "gone"
  BY <1>1, <1>4, NoMoreLines
<1>5. CASE reader'[i] # "closed" /\ client' # "gone"
  <2>1. client = "reading" /\ reader[i] # "closed" /\ reader' = reader
    BY <1>1, <1>3, <1>5 DEF Write, TakeLine, PullInv, PullTypes
  <2>2. /\ Sent(i) >= 0
        /\ \A p \in DOMAIN Stream : IsLine(Stream[p], i) => Stream[p][3] <= Sent(i)
        /\ Sent(i) > 0 => \E p \in DOMAIN Stream : Stream[p] = Log(i, Sent(i))
        /\ held[i] # << >> => held[i] = <<Log(i, Sent(i) + 1)>>
        /\ \A k \in 1 .. Len(pipe[i]) : pipe[i][k] = Log(i, Sent(i) + Len(held[i]) + k)
    BY <2>1 DEF PullInv, Copied
  <2>3. CASE Write(i)
    <3> DEFINE e == Log(i, written[i] + 1)
    <3>1. /\ written'[i] = written[i] + 1 /\ pipe'[i] = Append(pipe[i], e) /\ held' = held
      BY <1>3, <2>1, <2>3 DEF Write
    <3>2. e \in PullEvent
      BY <1>0, EventForms
    <3>3. Len(pipe'[i]) = Len(pipe[i]) + 1 /\ \A k \in 1 .. Len(pipe[i]) : pipe'[i][k] = pipe[i][k]
      BY <1>0, <3>1, <3>2
    <3>4. pipe'[i][Len(pipe[i]) + 1] = e
      BY <1>0, <3>1, <3>2
    <3>5. Sent(i)' = Sent(i) /\ written[i] + 1 = Sent(i) + Len(held[i]) + (Len(pipe[i]) + 1)
      <4>1. written'[i] = written[i] + 1 /\ held'[i] = held[i] /\ Len(pipe'[i]) = Len(pipe[i]) + 1
        BY <3>1, <3>3
      <4>2. Sent(i)' = (written[i] + 1) - Len(held[i]) - (Len(pipe[i]) + 1)
        BY <4>1 DEF Sent
      <4>3. Sent(i) = written[i] - Len(held[i]) - Len(pipe[i])
        BY DEF Sent
      <4> HIDE DEF e
      <4>4. QED
        <5> DEFINE w == written[i]  h == Len(held[i])  q == Len(pipe[i])
        <5>1. w \in Int /\ h \in Int /\ q \in Int /\ Sent(i)' = (w + 1) - h - (q + 1) /\ Sent(i) = w - h - q
          BY <1>0, <4>2, <4>3
        <5> HIDE DEF w, h, q
        <5>2. Sent(i)' = Sent(i)
          BY <5>1
        <5>3. w + 1 = Sent(i) + h + (q + 1)
          BY <5>1
        <5>4. QED
          BY <5>2, <5>3 DEF w, h, q
    <3>6. \A k \in 1 .. Len(pipe'[i]) : pipe'[i][k] = Log(i, Sent(i)' + Len(held'[i]) + k)
      <4> SUFFICES ASSUME NEW k \in 1 .. Len(pipe[i]) + 1
                   PROVE  pipe'[i][k] = Log(i, Sent(i) + Len(held[i]) + k)
        BY <3>1, <3>3, <3>5
      <4>1. CASE k \in 1 .. Len(pipe[i])
        BY <2>2, <3>3, <4>1
      <4>2. CASE k = Len(pipe[i]) + 1
        BY <3>4, <3>5, <4>2
      <4>3. QED
        BY <1>0, <4>1, <4>2
    <3>7. QED
      BY <1>1, <1>2, <2>2, <3>1, <3>5, <3>6 DEF Copied
  <2>4. CASE TakeLine(i)
    <3>1. /\ held[i] = << >> /\ pipe[i] # << >>
          /\ held'[i] = <<Head(pipe[i])>> /\ pipe'[i] = Tail(pipe[i]) /\ written' = written
      BY <1>3, <1>5, <2>4 DEF TakeLine
    <3>2. Len(held[i]) = 0 /\ Len(held'[i]) = 1 /\ Len(pipe'[i]) = Len(pipe[i]) - 1 /\ Len(pipe[i]) > 0
      BY <1>0, <3>1
    <3>3. Sent(i)' = Sent(i)
      BY <1>0, <3>1, <3>2 DEF Sent
    <3>4. held'[i] = <<Log(i, Sent(i) + 1)>>
      <4>1. 1 \in 1 .. Len(pipe[i]) /\ Head(pipe[i]) = pipe[i][1]
        BY <1>0, <3>1, <3>2
      <4>2. Sent(i) + Len(held[i]) + 1 = Sent(i) + 1
        BY <1>0, <3>2
      <4>3. QED
        BY <2>2, <3>1, <4>1, <4>2
    <3>5. ASSUME NEW k \in 1 .. Len(pipe'[i])
          PROVE  pipe'[i][k] = Log(i, Sent(i) + Len(held'[i]) + k)
      <4>1. k + 1 \in 1 .. Len(pipe[i]) /\ pipe'[i][k] = pipe[i][k + 1]
        BY <1>0, <3>1, <3>2
      <4>2. Sent(i) + Len(held[i]) + (k + 1) = Sent(i) + Len(held'[i]) + k
        BY <1>0, <3>2
      <4>3. QED
        BY <2>2, <4>1, <4>2
    <3>6. QED
      BY <1>1, <1>2, <2>2, <3>3, <3>4, <3>5 DEF Copied
  <2>5. QED
    BY <2>3, <2>4
<1>6. QED
  BY <1>4, <1>5

(* The line its task holds is the next one of pipe i.                       *)
LEMMA LineSent ==
  ASSUME PullInv, NEW i \in Pipes, SendLine(i)
  PROVE  /\ Copied(i)' /\ InSequence(Stream', i)
         /\ \/ Stream' = Stream
            \/ \E n \in Nat : Stream' = Append(Stream, Log(i, n))
<1>0. /\ Sent(i) \in Int /\ written[i] \in Nat /\ pipe[i] \in Seq(PullEvent) /\ held[i] \in Seq(PullEvent)
      /\ Len(held[i]) \in Nat /\ Len(pipe[i]) \in Nat
  BY SentType DEF PullInv
<1>1. held[i] # << >> /\ Send(Head(held[i])) /\ UNCHANGED <<got, client>> /\ reader' = reader
  BY DEF SendLine
<1>2. Head(held[i]) \in PullEvent
  BY <1>0, <1>1
<1>3. \/ client = "gone" /\ Stream' = Stream
      \/ client = "reading" /\ Stream' = Append(Stream, Head(held[i]))
  BY <1>1, <1>2, Sending DEF PullInv
<1>4. CASE client = "gone"
  BY <1>1, <1>3, <1>4, NoMoreLines
<1>5. CASE client = "reading"
  <2> DEFINE n == Sent(i) + 1
  <2>1. reader[i] # "closed" /\ held \in [Pipes -> Seq(PullEvent)]
    BY <1>1 DEF PullInv, PullTypes
  <2>2. /\ Sent(i) >= 0
        /\ \A p \in DOMAIN Stream : IsLine(Stream[p], i) => Stream[p][3] <= Sent(i)
        /\ Sent(i) > 0 => \E p \in DOMAIN Stream : Stream[p] = Log(i, Sent(i))
        /\ held[i] = <<Log(i, n)>>
        /\ \A k \in 1 .. Len(pipe[i]) : pipe[i][k] = Log(i, Sent(i) + Len(held[i]) + k)
    BY <1>1, <1>5, <2>1 DEF PullInv, Copied
  <2>3. n \in Nat /\ Len(held[i]) = 1 /\ Stream' = Append(Stream, Log(i, n))
    BY <1>0, <1>3, <1>5, <2>2
  <2>4. Log(i, n) \in PullEvent /\ Log(i, n)[3] = n /\ IsLine(Log(i, n), i)
    BY <2>3, EventForms
  <2>5. held'[i] = << >> /\ pipe' = pipe /\ written' = written
    BY <2>1 DEF SendLine
  <2>6. Sent(i)' = n /\ Len(held'[i]) = 0
    BY <1>0, <2>3, <2>5 DEF Sent
  <2>7. /\ DOMAIN Stream' = 1 .. Len(Stream) + 1 /\ Stream'[Len(Stream) + 1] = Log(i, n)
        /\ \A p \in 1 .. Len(Stream) : Stream'[p] = Stream[p]
        /\ \A p \in DOMAIN Stream' : p \in DOMAIN Stream \/ p = Len(Stream) + 1
    BY <2>3, <2>4, StreamGrows DEF PullInv
  <2>8. /\ Len(Stream) \in Nat /\ DOMAIN Stream = 1 .. Len(Stream)
        /\ \A p \in DOMAIN Stream : IsLine(Stream[p], i) => Stream[p][3] \in Nat
    BY StreamType, EventForms DEF PullInv
  <2>9. Copied(i)'
    <3>1. \A p \in DOMAIN Stream' : IsLine(Stream'[p], i) => Stream'[p][3] <= n
      <4> SUFFICES ASSUME NEW p \in DOMAIN Stream', IsLine(Stream'[p], i) PROVE Stream'[p][3] <= n
        OBVIOUS
      <4>1. CASE p \in DOMAIN Stream
        <5>1. Stream[p][3] <= Sent(i) /\ Stream[p][3] \in Nat /\ Stream'[p] = Stream[p]
          BY <2>2, <2>7, <2>8, <4>1
        <5>2. QED
          BY <1>0, <5>1
      <4>2. CASE p = Len(Stream) + 1
        BY <2>3, <2>4, <2>7, <4>2
      <4>3. QED
        BY <2>7, <4>1, <4>2
    <3>2. \E p \in DOMAIN Stream' : Stream'[p] = Log(i, n)
      BY <2>7, <2>8
    <3>3. ASSUME NEW k \in 1 .. Len(pipe'[i])
          PROVE  pipe'[i][k] = Log(i, n + Len(held'[i]) + k)
      <4>1. Sent(i) + Len(held[i]) + k = n + Len(held'[i]) + k
        BY <1>0, <2>3, <2>6
      <4>2. QED
        BY <2>2, <2>5, <4>1
    <3>4. QED
      BY <2>3, <2>5, <2>6, <3>1, <3>2, <3>3 DEF Copied
  <2>10. InSequence(Stream', i)
    <3> SUFFICES ASSUME NEW p \in DOMAIN Stream', IsLine(Stream'[p], i)
                 PROVE  /\ Stream'[p][3] > 1 => \E q \in 1 .. p - 1 : Stream'[q] = Log(i, Stream'[p][3] - 1)
                        /\ \A q \in 1 .. p - 1 : IsLine(Stream'[q], i) => Stream'[q][3] < Stream'[p][3]
      BY DEF InSequence, IsLine
    <3>1. CASE p \in DOMAIN Stream
      <4>1. Stream'[p] = Stream[p] /\ \A q \in 1 .. p - 1 : q \in DOMAIN Stream /\ Stream'[q] = Stream[q]
        BY <2>7, <2>8, <3>1
      <4>2. /\ Stream[p][3] > 1 => \E q \in 1 .. p - 1 : Stream[q] = Log(i, Stream[p][3] - 1)
            /\ \A q \in 1 .. p - 1 : IsLine(Stream[q], i) => Stream[q][3] < Stream[p][3]
        BY <3>1, <4>1 DEF PullInv, InSequence, IsLine
      <4>3. QED
        BY <4>1, <4>2
    <3>2. CASE p = Len(Stream) + 1
      <4>1. Stream'[p][3] = n /\ 1 .. p - 1 = DOMAIN Stream /\ \A q \in 1 .. p - 1 : Stream'[q] = Stream[q]
        BY <2>4, <2>7, <2>8, <3>2
      <4>2. n > 1 => \E q \in 1 .. p - 1 : Stream'[q] = Log(i, n - 1)
        <5>1. n - 1 = Sent(i) /\ (n > 1 => Sent(i) > 0)
          BY <1>0
        <5>2. QED
          BY <2>2, <4>1, <5>1
      <4>3. ASSUME NEW q \in 1 .. p - 1, IsLine(Stream'[q], i) PROVE Stream'[q][3] < n
        <5>1. Stream[q][3] <= Sent(i) /\ Stream[q][3] \in Nat /\ Stream'[q] = Stream[q]
          BY <2>2, <2>8, <4>1, <4>3
        <5>2. QED
          BY <1>0, <5>1
      <4>4. QED
        BY <4>1, <4>2, <4>3
    <3>3. QED
      BY <2>7, <3>1, <3>2
  <2>11. QED
    BY <2>3, <2>9, <2>10
<1>6. QED
  BY <1>3, <1>4, <1>5

LEMMA PullTypesStep ==
  ASSUME PullInv, PullNext
  PROVE  PullTypes'
<1>0. /\ waiter \in {"idle", "lookup", "spawn", "refuse", "wait", "end"}
      /\ child \in {"none", "running", "succeeded", "failed"}
      /\ Len(chan) <= Capacity /\ chan \in Seq(PullEvent) /\ got \in Seq(PullEvent)
      /\ \A i \in Pipes : written[i] <= Lines[i] /\ Len(pipe[i]) <= PipeSize
      /\ written \in [Pipes -> Nat] /\ pipe \in [Pipes -> Seq(PullEvent)]
      /\ reader \in [Pipes -> {"none", "copying", "closed"}] /\ held \in [Pipes -> Seq(PullEvent)]
      /\ client \in {"reading", "gone"}
      /\ \A i \in Pipes : reader[i] = "closed" => held[i] = << >>
      /\ child = "none" => \A i \in Pipes : reader[i] = "none"
  BY DEF PullInv, PullTypes, PullTypeOK
<1>1. ASSUME NEW e \in PullEvent, Send(e), UNCHANGED <<got, client>>
      PROVE  chan' \in Seq(PullEvent) /\ Len(chan') <= Capacity
  BY <1>1, Sending DEF PullInv
<1>2. Command \in PullEvent /\ Done(FALSE) \in PullEvent /\ Done(child = "succeeded") \in PullEvent
      /\ \A i \in Pipes, n \in Nat : Log(i, n) \in PullEvent
  BY EventForms
<1>3. ASSUME Request \/ Spawn \/ ChildExit PROVE PullTypes'
  BY <1>0, <1>3 DEF Request, Spawn, ChildExit, PullTypes, PullTypeOK
<1>4. ASSUME Lookup \/ Refuse \/ SendDone PROVE PullTypes'
  <2>1. chan' \in Seq(PullEvent) /\ Len(chan') <= Capacity
    BY <1>1, <1>2, <1>4 DEF Lookup, Refuse, SendDone
  <2>2. QED
    BY <1>0, <1>4, <2>1 DEF Lookup, Refuse, SendDone, PullTypes, PullTypeOK
<1>5. ASSUME Receive PROVE PullTypes'
  <2>1. chan' \in Seq(PullEvent) /\ got' \in Seq(PullEvent) /\ Len(chan') = Len(chan) - 1 /\ Len(chan) \in Nat
    BY <1>0, <1>5 DEF Receive
  <2>2. Len(chan') <= Capacity
    BY <1>0, <2>1, PullAssumption
  <2>3. QED
    BY <1>0, <1>5, <2>1, <2>2 DEF Receive, PullTypes, PullTypeOK
<1>6. ASSUME Leave PROVE PullTypes'
  BY <1>0, <1>6, PullAssumption DEF Leave, PullTypes, PullTypeOK
<1>7. ASSUME NEW i \in Pipes, Write(i) PROVE PullTypes'
  <2>1. written[i] \in Nat /\ pipe[i] \in Seq(PullEvent) /\ Lines[i] \in Nat /\ Len(pipe[i]) \in Nat
    BY <1>0, PullAssumption DEF Pipes
  <2>2. /\ written' = [written EXCEPT ![i] = written[i] + 1] /\ written[i] < Lines[i]
        /\ UNCHANGED <<waiter, reader, held, chan, got, client>>
    BY <1>7 DEF Write
  <2>3. written' \in [Pipes -> Nat] /\ \A j \in Pipes : written'[j] <= Lines[j]
    <3>1. written' \in [Pipes -> Nat]
      BY <1>0, <2>1, <2>2
    <3>2. written'[i] <= Lines[i]
      BY <1>0, <2>1, <2>2
    <3>3. \A j \in Pipes : j # i => written'[j] <= Lines[j]
      BY <1>0, <2>2
    <3>4. QED
      BY <3>1, <3>2, <3>3
  <2>4. child' \in {"running", "failed"}
    BY <1>0, <1>7 DEF Write
  <2>5. pipe' \in [Pipes -> Seq(PullEvent)] /\ \A j \in Pipes : Len(pipe'[j]) <= PipeSize
    <3> DEFINE e == Log(i, written[i] + 1)
    <3>1. e \in PullEvent
      BY <1>2, <2>1
    <3>2. pipe' = pipe \/ (Len(pipe[i]) < PipeSize /\ pipe' = [pipe EXCEPT ![i] = Append(pipe[i], e)])
      BY <1>7 DEF Write
    <3> HIDE DEF e
    <3>3. CASE pipe' = pipe
      BY <1>0, <3>3
    <3>4. CASE Len(pipe[i]) < PipeSize /\ pipe' = [pipe EXCEPT ![i] = Append(pipe[i], e)]
      <4>1. Append(pipe[i], e) \in Seq(PullEvent) /\ Len(Append(pipe[i], e)) = Len(pipe[i]) + 1
        BY <2>1, <3>1
      <4>2. Len(pipe'[i]) <= PipeSize
        BY <1>0, <2>1, <3>4, <4>1, PullAssumption
      <4>3. \A j \in Pipes : j # i => pipe'[j] = pipe[j]
        BY <1>0, <3>4
      <4>4. pipe' \in [Pipes -> Seq(PullEvent)]
        BY <1>0, <3>4, <4>1
      <4>5. QED
        BY <1>0, <4>2, <4>3, <4>4
    <3>5. QED
      BY <3>2, <3>3, <3>4
  <2>6. QED
    BY <1>0, <2>2, <2>3, <2>4, <2>5 DEF PullTypes, PullTypeOK
<1>8. ASSUME NEW i \in Pipes, TakeLine(i) PROVE PullTypes'
  <2>1. reader[i] = "copying" /\ UNCHANGED <<waiter, child, written, chan, got, client>> /\ child # "none"
    BY <1>0, <1>8 DEF TakeLine
  <2>2. CASE /\ pipe[i] # << >> /\ held' = [held EXCEPT ![i] = <<Head(pipe[i])>>]
             /\ pipe' = [pipe EXCEPT ![i] = Tail(pipe[i])] /\ reader' = reader
    <3>1. pipe[i] \in Seq(PullEvent) /\ Len(pipe[i]) <= PipeSize
      BY <1>0
    <3>2. /\ <<Head(pipe[i])>> \in Seq(PullEvent) /\ Tail(pipe[i]) \in Seq(PullEvent)
          /\ Len(Tail(pipe[i])) = Len(pipe[i]) - 1 /\ Len(pipe[i]) \in Nat
      BY <2>2, <3>1
    <3>3. Len(Tail(pipe[i])) <= PipeSize
      BY <3>1, <3>2, PullAssumption
    <3>4. held' \in [Pipes -> Seq(PullEvent)] /\ pipe' \in [Pipes -> Seq(PullEvent)]
      BY <1>0, <2>2, <3>2
    <3>5. pipe'[i] = Tail(pipe[i]) /\ \A j \in Pipes : j # i => pipe'[j] = pipe[j] /\ held'[j] = held[j]
      BY <1>0, <2>2
    <3>6. \A j \in Pipes : Len(pipe'[j]) <= PipeSize
      BY <1>0, <3>3, <3>5
    <3>7. \A j \in Pipes : reader'[j] = "closed" => held'[j] = << >>
      BY <1>0, <2>1, <2>2, <3>5
    <3>8. QED
      BY <1>0, <2>1, <2>2, <3>4, <3>6, <3>7 DEF PullTypes, PullTypeOK
  <2>3. CASE /\ held[i] = << >> /\ reader' = [reader EXCEPT ![i] = "closed"] /\ UNCHANGED <<pipe, held>>
    BY <1>0, <2>1, <2>3 DEF PullTypes, PullTypeOK
  <2>4. QED
    BY <1>8, <2>2, <2>3 DEF TakeLine
<1>9. ASSUME NEW i \in Pipes, BadLine(i) PROVE PullTypes'
  <2>1. /\ held[i] = << >> /\ reader' = [reader EXCEPT ![i] = "closed"] /\ pipe' = [pipe EXCEPT ![i] = << >>]
        /\ UNCHANGED <<waiter, child, written, held, chan, got, client>> /\ child # "none"
    BY <1>0, <1>9 DEF BadLine
  <2>2. pipe' \in [Pipes -> Seq(PullEvent)] /\ reader' \in [Pipes -> {"none", "copying", "closed"}]
    BY <1>0, <2>1
  <2>3. \A j \in Pipes : Len(pipe'[j]) <= PipeSize
    BY <1>0, <2>1, PullAssumption
  <2>4. \A j \in Pipes : reader'[j] = "closed" => held'[j] = << >>
    BY <1>0, <2>1
  <2>5. QED
    BY <1>0, <2>1, <2>2, <2>3, <2>4 DEF PullTypes, PullTypeOK
<1>10. ASSUME NEW i \in Pipes, SendLine(i) PROVE PullTypes'
  <2>1. held[i] \in Seq(PullEvent) /\ held[i] # << >>
    BY <1>0, <1>10 DEF SendLine
  <2>2. Head(held[i]) \in PullEvent
    BY <2>1
  <2>3. chan' \in Seq(PullEvent) /\ Len(chan') <= Capacity
    BY <1>1, <1>10, <2>2 DEF SendLine
  <2>4. held' = [held EXCEPT ![i] = << >>] /\ UNCHANGED <<waiter, child, written, pipe, reader, got, client>>
    BY <1>10 DEF SendLine
  <2>5. held' \in [Pipes -> Seq(PullEvent)] /\ \A j \in Pipes : reader'[j] = "closed" => held'[j] = << >>
    BY <1>0, <2>4
  <2>6. QED
    BY <1>0, <2>3, <2>4, <2>5 DEF PullTypes, PullTypeOK
<1>11. QED
  BY <1>3, <1>4, <1>5, <1>6, <1>7, <1>8, <1>9, <1>10 DEF PullNext

(* A client that goes away has read a beginning of the stream.              *)
LEMMA PrefixKept ==
  ASSUME PullInv, Leave
  PROVE  (\A i \in Pipes : Copied(i) /\ InSequence(Stream, i))' /\ DoneAtEnd'
<1>1. chan \in Seq(PullEvent) /\ got \in Seq(PullEvent)
  BY DEF PullInv, PullTypes
<1>2. Stream' = got /\ client' = "gone" /\ waiter' = waiter /\ child' = child
  BY <1>1 DEF Leave, Stream
<1>3. /\ DOMAIN got = 1 .. Len(got) /\ Len(got) \in Nat
      /\ \A p \in DOMAIN got : p \in DOMAIN Stream /\ Stream[p] = got[p]
  BY <1>1 DEF Stream
<1>4. ASSUME NEW i \in Pipes PROVE Copied(i)' /\ InSequence(Stream', i)
  <2>1. Copied(i)'
    BY <1>2 DEF Copied
  <2>2. InSequence(got, i)
    <3> SUFFICES ASSUME NEW p \in DOMAIN got, IsLine(got[p], i)
                 PROVE  /\ got[p][3] > 1 => \E q \in 1 .. p - 1 : got[q] = Log(i, got[p][3] - 1)
                        /\ \A q \in 1 .. p - 1 : IsLine(got[q], i) => got[q][3] < got[p][3]
      BY DEF InSequence, IsLine
    <3>1. \A q \in 1 .. p - 1 : q \in DOMAIN got
      BY <1>3
    <3>2. /\ Stream[p][3] > 1 => \E q \in 1 .. p - 1 : Stream[q] = Log(i, Stream[p][3] - 1)
          /\ \A q \in 1 .. p - 1 : IsLine(Stream[q], i) => Stream[q][3] < Stream[p][3]
      BY <1>3 DEF PullInv, InSequence, IsLine
    <3>3. QED
      BY <1>3, <3>1, <3>2
  <2>3. QED
    BY <1>2, <2>1, <2>2
<1>5. DoneAtEnd'
  BY <1>2, <1>3 DEF PullInv, DoneAtEnd
<1>6. QED
  BY <1>4, <1>5

LEMMA PullInvStep ==
  ASSUME PullInv, [PullNext]_pullVars
  PROVE  PullInv'
<1>0. /\ client \in {"reading", "gone"} /\ child \in {"none", "running", "succeeded", "failed"}
      /\ DoneAtEnd /\ PullTypes
  BY DEF PullInv, PullTypes, PullTypeOK
<1> DEFINE Rest == \A i \in Pipes : Copied(i)' /\ InSequence(Stream', i)
<1>1. ASSUME written' = written, pipe' = pipe, held' = held, client' = client,
             reader' = reader \/ \A i \in Pipes : reader[i] = "none",
             Stream' = Stream \/ \E e \in PullEvent : (\A i \in Pipes : ~ IsLine(e, i)) /\ Stream' = Append(Stream, e)
      PROVE  Rest
  BY <1>1, LinesKept
<1>2. ASSUME Request \/ ChildExit PROVE Rest /\ DoneAtEnd'
  <2>1. Stream' = Stream
    BY <1>2 DEF Request, ChildExit, Stream
  <2>2. Rest
    BY <1>1, <1>2, <2>1 DEF Request, ChildExit
  <2>3. DoneAtEnd'
    <3>1. /\ waiter' = "end" <=> waiter = "end"
          /\ waiter = "end" => child' = child
          /\ waiter' \in {"idle", "lookup", "spawn", "refuse"} => child' = "none"
      BY <1>0, <1>2 DEF Request, ChildExit, DoneAtEnd
    <3>2. QED
      BY <2>1, <3>1, DonesKept
  <2>4. QED
    BY <2>2, <2>3
<1>3. ASSUME Spawn PROVE Rest /\ DoneAtEnd'
  <2>1. Stream' = Stream
    BY <1>3 DEF Spawn, Stream
  <2>2. Rest
    <3>1. ASSUME NEW i \in Pipes PROVE Copied(i)' /\ InSequence(Stream', i)
      <4>1. /\ written'[i] = written[i] /\ pipe'[i] = pipe[i] /\ held'[i] = held[i] /\ client' = client
            /\ reader[i] = "none"
        BY <1>0, <1>3 DEF Spawn, DoneAtEnd, PullTypes
      <4>2. QED
        BY <2>1, <4>1, LinesKept
    <3>2. QED
      BY <3>1
  <2>3. DoneAtEnd'
    <3>1. /\ waiter' = "end" <=> waiter = "end"
          /\ waiter = "end" => child' = child
          /\ waiter' \in {"idle", "lookup", "spawn", "refuse"} => child' = "none"
      BY <1>0, <1>3 DEF Spawn, DoneAtEnd
    <3>2. QED
      BY <2>1, <3>1, DonesKept
  <2>4. QED
    BY <2>2, <2>3
<1>4. ASSUME Lookup \/ Refuse \/ SendDone PROVE Rest /\ DoneAtEnd'
  <2>1. /\ UNCHANGED <<child, written, pipe, reader, held, got, client>> /\ waiter # "end"
        /\ \/ Send(Command) /\ waiter' \in {"spawn", "refuse"} /\ child = "none"
           \/ Send(Done(child = "succeeded")) /\ waiter' = "end" /\ child # "running"
    BY <1>0, <1>4 DEF Lookup, Refuse, SendDone, DoneAtEnd
  <2>2. CASE Send(Command) /\ waiter' \in {"spawn", "refuse"} /\ child = "none"
    <3>1. Stream' = Stream \/ Stream' = Append(Stream, Command)
      BY <1>0, <2>1, <2>2, EventForms, Sending
    <3>2. Command \in PullEvent /\ ~ IsDone(Command) /\ \A i \in Pipes : ~ IsLine(Command, i)
      BY EventForms
    <3>3. Rest
      BY <1>1, <2>1, <3>1, <3>2
    <3>4. DoneAtEnd'
      BY <2>1, <2>2, <3>1, <3>2, DonesKept
    <3>5. QED
      BY <3>3, <3>4
  <2>3. CASE Send(Done(child = "succeeded")) /\ waiter' = "end" /\ child # "running"
    <3> DEFINE d == Done(child = "succeeded")
    <3>1. d \in PullEvent /\ \A i \in Pipes : ~ IsLine(d, i)
      BY EventForms
    <3>2. Stream' = Stream \/ Stream' = Append(Stream, d)
      BY <1>0, <2>1, <2>3, <3>1, Sending
    <3>3. DoneAtEnd'
      BY <2>1, <2>3, <3>2, DoneSent
    <3> HIDE DEF d
    <3>4. Rest
      BY <1>1, <2>1, <3>1, <3>2
    <3>5. QED
      BY <3>3, <3>4
  <2>4. QED
    BY <2>1, <2>2, <2>3
<1>5. ASSUME Receive PROVE Rest /\ DoneAtEnd'
  <2>1. Stream' = Stream
    <3>1. chan \in Seq(PullEvent) /\ got \in Seq(PullEvent)
      BY <1>0 DEF PullTypes
    <3>2. chan # << >> /\ got' = Append(got, Head(chan)) /\ chan' = Tail(chan)
      BY <1>5 DEF Receive
    <3>3. Append(got, Head(chan)) \o Tail(chan) = got \o chan
      BY <3>1, <3>2, HeadMoved
    <3>4. QED
      BY <3>2, <3>3 DEF Stream
  <2>2. Rest
    BY <1>1, <1>5, <2>1 DEF Receive
  <2>3. DoneAtEnd'
    <3>1. waiter' = waiter /\ child' = child
      BY <1>5 DEF Receive
    <3>2. QED
      BY <1>0, <2>1, <3>1, DonesKept DEF DoneAtEnd
  <2>4. QED
    BY <2>2, <2>3
<1>6. ASSUME Leave PROVE Rest /\ DoneAtEnd'
  BY <1>6, PrefixKept
<1>7. ASSUME NEW j \in Pipes, Write(j) \/ TakeLine(j) \/ BadLine(j) PROVE Rest /\ DoneAtEnd'
  <2>1. Stream' = Stream /\ client' = client
    BY <1>7 DEF Write, TakeLine, BadLine, Stream
  <2>2. ASSUME NEW i \in Pipes PROVE Copied(i)' /\ InSequence(Stream', i)
    <3>0. written \in [Pipes -> Nat] /\ pipe \in [Pipes -> Seq(PullEvent)] /\ held \in [Pipes -> Seq(PullEvent)]
          /\ reader \in [Pipes -> {"none", "copying", "closed"}]
      BY <1>0 DEF PullTypes
    <3>1. CASE i = j /\ BadLine(i)
      <4>1. reader'[i] = "closed"
        BY <3>0, <3>1 DEF BadLine
      <4>2. QED
        BY <2>1, <4>1, NoMoreLines
    <3>2. CASE i = j /\ ~ BadLine(i)
      BY <1>7, <3>2, PipeKept
    <3>3. CASE i # j
      <4>1. written'[i] = written[i] /\ pipe'[i] = pipe[i] /\ held'[i] = held[i] /\ reader'[i] = reader[i]
        BY <1>7, <3>0, <3>3 DEF Write, TakeLine, BadLine
      <4>2. QED
        BY <2>1, <4>1, LinesKept
    <3>4. QED
      BY <3>1, <3>2, <3>3
  <2>3. DoneAtEnd'
    <3>1. waiter' = waiter /\ (child' = child \/ (child = "running" /\ child' = "failed"))
      BY <1>7 DEF Write, TakeLine, BadLine
    <3>2. QED
      BY <1>0, <2>1, <3>1, DonesKept DEF DoneAtEnd
  <2>4. QED
    BY <2>2, <2>3
<1>8. ASSUME NEW j \in Pipes, SendLine(j) PROVE Rest /\ DoneAtEnd'
  <2>1. /\ Copied(j)' /\ InSequence(Stream', j)
        /\ Stream' = Stream \/ \E n \in Nat : Stream' = Append(Stream, Log(j, n))
    BY <1>8, LineSent
  <2>2. UNCHANGED <<waiter, child, written, pipe, reader, client>>
    BY <1>8 DEF SendLine
  <2>3. ASSUME NEW i \in Pipes, i # j PROVE Copied(i)' /\ InSequence(Stream', i)
    <3>1. held'[i] = held[i]
      BY <1>0, <1>8, <2>3 DEF SendLine, PullTypes
    <3>2. Stream' = Stream \/ \E e \in PullEvent : ~ IsLine(e, i) /\ Stream' = Append(Stream, e)
      BY <2>1, <2>3, EventForms
    <3>3. QED
      BY <2>2, <3>1, <3>2, LinesKept
  <2>4. Stream' = Stream \/ \E e \in PullEvent : ~ IsDone(e) /\ Stream' = Append(Stream, e)
    BY <2>1, EventForms
  <2>5. DoneAtEnd'
    BY <1>0, <2>2, <2>4, DonesKept DEF DoneAtEnd
  <2>6. QED
    BY <2>1, <2>3, <2>5
<1>9. ASSUME PullNext PROVE PullInv'
  <2>1. PullTypes'
    BY <1>9, PullTypesStep
  <2>2. Rest /\ DoneAtEnd'
    BY <1>2, <1>3, <1>4, <1>5, <1>6, <1>7, <1>8, <1>9 DEF PullNext
  <2>3. QED
    BY <2>1, <2>2 DEF PullInv
<1>10. ASSUME UNCHANGED pullVars PROVE PullInv'
  <2>1. Stream' = Stream /\ \A i \in Pipes : Sent(i)' = Sent(i)
    BY <1>10 DEF pullVars, Stream, Sent
  <2>2. PullTypes' /\ DoneAtEnd'
    BY <1>0, <1>10, <2>1 DEF pullVars, PullTypes, PullTypeOK, DoneAtEnd
  <2>3. Rest
    BY <1>1, <1>10, <2>1 DEF pullVars
  <2>4. QED
    BY <2>2, <2>3 DEF PullInv
<1>11. QED
  BY <1>9, <1>10

LEMMA PullInvMeans ==
  ASSUME PullInv
  PROVE  PullTypeOK /\ StreamFaithful
BY DEF PullInv, PullTypes, DoneAtEnd, Stream, StreamFaithful

-----------------------------------------------------------------------------
(* The kinds of work together                                              *)

WorkInv == PgInv /\ WhTypeOK /\ PullInv /\ SiemInv

LEMMA WorkInvariant == MCSpec => []WorkInv
<1>1. MCInit => WorkInv
  <2> SUFFICES ASSUME MCInit PROVE WorkInv
    OBVIOUS
  <2>1. PgInv
    BY PgInvInit DEF MCInit
  <2>2. WhTypeOK
    BY DEF MCInit, WhInit, WhTypeOK
  <2>3. QED
    BY <2>1, <2>2, PullInvInit, SiemInvInit DEF MCInit, WorkInv
<1>2. WorkInv /\ [MCNext]_<<part, vars, whVars, pullVars, siemVars>> => WorkInv'
  <2> SUFFICES ASSUME WorkInv, [MCNext]_<<part, vars, whVars, pullVars, siemVars>> PROVE WorkInv'
    OBVIOUS
  <2>1. [Next]_vars /\ [WhNext]_whVars /\ [PullNext]_pullVars /\ [SiemNext]_siemVars
    BY Zenon DEF MCNext
  <2>2. QED
    BY <2>1, PgInvStep, WhTypeStep, PullInvStep, SiemInvStep DEF WorkInv
<1>3. QED
  BY <1>1, <1>2, PTL DEF MCSpec

(* The PostgreSQL store's rows and transactions, the webhook tasks, the      *)
(* install command with its pipes and its channel, and the audit queue have  *)
(* their types and keep their bounds, for any numbers of callers, lines and  *)
(* events and any capacities.                                                *)
THEOREM WorkTypesAlways == MCSpec => []WorkTypeOK
<1>1. WorkInv => WorkTypeOK
  BY PullInvMeans, SiemInvMeans DEF WorkInv, PgInv, WorkTypeOK
<1>2. QED
  BY <1>1, WorkInvariant, PTL

(* For a command that writes any number of lines to any pipes, through       *)
(* channels and pipes of any size: pull_handler's stream has the lines of    *)
(* each pipe in their order and without a gap, and one "done" that says how  *)
(* the command ended; and the SIEM sink has written a beginning of what was  *)
(* emitted and still holds all the rest, in order.                           *)
THEOREM WorkFaithfulAlways == MCSpec => []WorkFaithful
<1>1. WorkInv => WorkFaithful
  BY PullInvMeans, SiemInvMeans DEF WorkInv, WorkFaithful
<1>2. QED
  BY <1>1, WorkInvariant, PTL
=============================================================================
