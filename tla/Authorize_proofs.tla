--------------------------- MODULE Authorize_proofs ---------------------------
(***************************************************************************)
(* The safety of authorization, proved for any number of requests, any     *)
(* chains and policies, and every retention that covers the certificates.  *)
(***************************************************************************)
EXTENDS Authorize, Chain_proofs

-----------------------------------------------------------------------------
(* The nonce ledger: NoDoubleWin, for every set of nonces and callers and   *)
(* every retention.                                                         *)

(* The type invariant: calls, ledger entries and the clock keep their      *)
(* types through every step a nonce store may take.                        *)
THEOREM LedgerTypeCorrect == LedgerSpec => []LedgerTypeOK
<1>1. LedgerInit => LedgerTypeOK
  BY DEF LedgerInit, LedgerTypeOK, CallRecord, CallState, Unseen
<1>2. LedgerTypeOK /\ [LedgerNext]_ledgerVars => LedgerTypeOK'
  <2> SUFFICES ASSUME LedgerTypeOK, [LedgerNext]_ledgerVars
               PROVE  LedgerTypeOK'
    OBVIOUS
  <2> USE DEF LedgerTypeOK, CallRecord, CallState, Unseen
  <2>1. ASSUME NEW c \in Caller, NEW batch \in SUBSET Nonce, Invoke(c, batch)
        PROVE  LedgerTypeOK'
    BY <2>1 DEF Invoke
  <2>2. ASSUME NEW c \in Caller, Accept(c)
        PROVE  LedgerTypeOK'
    <3>1. PICK t \in call[c].since .. now : ledger' = Stamp(call[c].batch, t)
      BY <2>2 DEF Accept
    <3>2. ledger' \in [Nonce -> {Unseen} \cup Nat]
      BY <3>1 DEF Stamp
    <3>3. call' \in [Caller -> CallRecord] /\ now' \in Nat
      BY <2>2 DEF Accept
    <3>4. QED
      BY <3>2, <3>3
  <2>3. ASSUME NEW c \in Caller, Burn(c)
        PROVE  LedgerTypeOK'
    BY <2>3 DEF Burn, Stamp
  <2>4. ASSUME NEW c \in Caller, Reject(c) \/ Fail(c)
        PROVE  LedgerTypeOK'
    BY <2>4 DEF Reject, Fail
  <2>5. CASE Elapse
    BY <2>5 DEF Elapse, Stamp
  <2>6. CASE UNCHANGED ledgerVars
    BY <2>6 DEF ledgerVars
  <2>7. QED
    BY <2>1, <2>2, <2>3, <2>4, <2>5, <2>6 DEF LedgerNext
<1>3. QED
  BY <1>1, <1>2, PTL DEF LedgerSpec

(* A step of the ledger that keeps the types keeps the times of the calls  *)
(* in order and either remembers what was won or lets its retention pass.  *)
LEMMA LedgerStep ==
  ASSUME LedgerInv, LedgerTypeOK', [LedgerNext]_ledgerVars
  PROVE  LedgerInv'
<1> USE RetentionAssumption
<1> USE DEF LedgerInv, LedgerTypeOK, CallRecord, CallState, Unseen,
            WinTimes, WinRemembered, NoDoubleWin, Overlap
<1>1. ASSUME NEW c \in Caller, NEW batch \in SUBSET Nonce, Invoke(c, batch)
      PROVE  LedgerInv'
  BY <1>1 DEF Invoke
<1>2. ASSUME NEW c \in Caller, Accept(c)
      PROVE  LedgerInv'
  <2> PICK t \in call[c].since .. now : ledger' = Stamp(call[c].batch, t)
    BY <1>2 DEF Accept
  <2>1. WinTimes'
    BY <1>2 DEF Accept
  <2>2. WinRemembered'
    BY <1>2 DEF Accept, Stamp, Fresh
  <2>3. NoDoubleWin'
    <3> SUFFICES ASSUME NEW d \in Caller, d # c, call[d].st = "won", Overlap(c, d)
                 PROVE  now > call[d].since + Retention
      BY <1>2 DEF Accept
    <3> PICK n \in call[c].batch : n \in call[d].batch
      OBVIOUS
    <3>1. ledger[n] = Unseen
      BY <1>2 DEF Accept, Fresh
    <3> QED
      BY <3>1
  <2>4. QED
    BY <2>1, <2>2, <2>3
<1>3. ASSUME NEW c \in Caller, Burn(c)
      PROVE  LedgerInv'
  BY <1>3 DEF Burn, Stamp, Fresh
<1>4. ASSUME NEW c \in Caller, Reject(c) \/ Fail(c)
      PROVE  LedgerInv'
  <2>1. UNCHANGED <<now, ledger>>
    BY <1>4 DEF Reject, Fail
  <2>2. \A d \in Caller : /\ call'[d].batch = call[d].batch
                          /\ call'[d].since = call[d].since /\ call'[d].at = call[d].at
                          /\ call'[d].st = "won" => call[d].st = "won"
    BY <1>4 DEF Reject, Fail
  <2>3. QED
    BY <2>1, <2>2
<1>5. CASE Elapse
  <2>1. WinTimes' /\ NoDoubleWin'
    BY <1>5 DEF Elapse
  <2>2. WinRemembered'
    BY <1>5 DEF Elapse, Stamp
  <2>3. QED
    BY <2>1, <2>2
<1>6. CASE UNCHANGED ledgerVars
  BY <1>6 DEF ledgerVars
<1>7. QED
  BY <1>1, <1>2, <1>3, <1>4, <1>5, <1>6 DEF LedgerNext

(* The inductive invariant holds throughout.                               *)
THEOREM LedgerInvariant == LedgerSpec => []LedgerInv
<1>1. LedgerInit => LedgerInv
  BY DEF LedgerInit, LedgerInv, LedgerTypeOK, CallRecord, CallState, Unseen,
         WinTimes, WinRemembered, NoDoubleWin
<1>2. LedgerInv /\ LedgerTypeOK' /\ [LedgerNext]_ledgerVars => LedgerInv'
  BY LedgerStep
<1>3. QED
  BY <1>1, <1>2, LedgerTypeCorrect, PTL DEF LedgerSpec

(* Whatever interleaving of calls, lost answers and forgetting, two callers *)
(* are told Ok(true) for one nonce only if Retention seconds lie between.   *)
THEOREM LedgerNoDoubleWin == LedgerSpec => []NoDoubleWin
<1>1. LedgerInv => NoDoubleWin
  BY DEF LedgerInv
<1>2. QED
  BY <1>1, LedgerInvariant, PTL

-----------------------------------------------------------------------------
(* Authorization                                                            *)

(* What is known of the demand of a request.                                *)
LEMMA AskedType ==
  ASSUME kind \in [Request -> DOMAIN Demands], NEW r \in Request
  PROVE  /\ Asked(r) \in Demand
         /\ Asked(r).chain \in DyoloChain
         /\ Certs(r) \in Seq(DelegationCert)
         /\ Asked(r).chain.drift \in Nat
         /\ SeenNonces(Asked(r).chain) \subseteq Nonce
         /\ Asked(r).items \in Seq(Item)
         /\ Len(Certs(r)) \in Nat
         /\ DOMAIN Certs(r) = 1 .. Len(Certs(r))
<1>1. kind[r] \in DOMAIN Demands
  OBVIOUS
<1>2. Asked(r) \in Demand /\ SeenNonces(Asked(r).chain) \subseteq Nonce
  BY <1>1, DemandAssumption DEF Asked
<1>3. Asked(r).chain \in DyoloChain /\ Asked(r).items \in Seq(Item)
  BY <1>2 DEF Demand
<1>4. Certs(r) \in Seq(DelegationCert) /\ Asked(r).chain.drift \in Nat
  BY <1>3 DEF DyoloChain, Certs
<1>5. QED
  BY <1>2, <1>3, <1>4

LEMMA CertTimes ==
  ASSUME kind \in [Request -> DOMAIN Demands], NEW r \in Request, NEW i \in DOMAIN Certs(r)
  PROVE  /\ Certs(r)[i] \in DelegationCert
         /\ Certs(r)[i].issued_at \in Nat
         /\ Certs(r)[i].expiration \in Nat
<1>1. Certs(r)[i] \in DelegationCert
  BY AskedType
<1>2. QED
  BY <1>1 DEF DelegationCert

(* Every step is a step of the nonce ledger, or leaves it alone.            *)
LEMMA StepOfLedger ==
  ASSUME kind \in [Request -> DOMAIN Demands], [Next]_vars
  PROVE  [LedgerNext]_ledgerVars
<1> USE DEF Request
<1>1. ASSUME NEW r \in Request, Validate(r) \/ EmptyBatch(r) \/ CheckRevoked(r)
                               \/ PartialBatch(r) \/ Answer(r) \/ Drop(r)
      PROVE  UNCHANGED ledgerVars
  BY <1>1 DEF Validate, EmptyBatch, CheckRevoked, PartialBatch, Answer, Drop
<1>2. ASSUME NEW r \in Request, Consume(r)
      PROVE  LedgerNext
  <2>1. SeenNonces(Asked(r).chain) \in SUBSET Nonce
    BY AskedType
  <2>2. Invoke(r, SeenNonces(Asked(r).chain))
    BY <1>2 DEF Consume
  <2>3. QED
    BY <2>1, <2>2 DEF LedgerNext
<1>3. ASSUME NEW r \in Request, Store(r)
      PROVE  LedgerNext
  BY <1>3 DEF Store, LedgerNext
<1>4. ASSUME Revoke
      PROVE  UNCHANGED ledgerVars
  BY <1>4 DEF Revoke
<1>5. ASSUME Tick
      PROVE  LedgerNext
  BY <1>5 DEF Tick, LedgerNext
<1>6. ASSUME UNCHANGED vars
      PROVE  UNCHANGED ledgerVars
  BY <1>6 DEF vars, ledgerVars
<1>7. QED
  BY <1>1, <1>2, <1>3, <1>4, <1>5, <1>6 DEF Next, Task

(* The kinds of the requests never change.                                  *)
LEMMA KindsFixed == Safety => [](kind \in [Request -> DOMAIN Demands])
<1>1. Init => kind \in [Request -> DOMAIN Demands]
  BY DEF Init
<1>2. ASSUME [Next]_vars
      PROVE  kind' = kind
  BY <1>2 DEF Next, Task, Validate, EmptyBatch, CheckRevoked, PartialBatch, Consume,
              Answer, Store, Drop, Revoke, Tick, Finish, authVars, vars
<1>3. (kind \in [Request -> DOMAIN Demands]) /\ [Next]_vars
        => (kind \in [Request -> DOMAIN Demands])'
  BY <1>2
<1>4. QED
  BY <1>1, <1>3, PTL DEF Safety

(* The store's part of a behaviour is one of NonceLedger, so that what is   *)
(* proved of the ledger holds here.                                         *)
LEMMA LedgerBehind == Safety => LedgerSpec
<1>1. Init => LedgerInit
  BY DEF Init
<1>2. (kind \in [Request -> DOMAIN Demands]) /\ [Next]_vars => [LedgerNext]_ledgerVars
  BY StepOfLedger
<1>3. QED
  BY <1>1, <1>2, KindsFixed, PTL DEF Safety, LedgerSpec

-----------------------------------------------------------------------------

ReqType ==
  [pc : {"idle", "checking", "consuming", "done", "dropped"}, vt : Nat, k : Nat,
   before : SUBSET DelegationCert, result : Results, receipts : SUBSET Nat]

(* The end of a request keeps the types.                                    *)
LEMMA FinishType ==
  ASSUME TypeOK, NEW r \in Request, NEW result \in Results, NEW receipts \in SUBSET Nat,
         Finish(r, result, receipts), UNCHANGED ledgerVars
  PROVE  TypeOK'
<1>1. req \in [Request -> ReqType] /\ audit \in [Request -> Seq(Outcomes)]
  BY DEF TypeOK, ReqType
<1>2. req' \in [Request -> ReqType]
  <2> DEFINE ended == [req[r] EXCEPT !.pc = "done", !.result = result, !.receipts = receipts]
  <2>1. ended \in ReqType
    BY <1>1 DEF ReqType
  <2>2. req' = [req EXCEPT ![r] = ended]
    BY <1>1 DEF Finish
  <2> HIDE DEF ended
  <2>3. QED
    BY <1>1, <2>1, <2>2
<1>3. Outcome(result) \in Outcomes
  BY DEF Outcome, Outcomes
<1>4. audit' \in [Request -> Seq(Outcomes)]
  BY <1>1, <1>3 DEF Finish
<1>5. \A q \in Request : req'[q].k = req[q].k
  BY <1>1 DEF Finish, ReqType
<1>6. UNCHANGED <<kind, revoked, now, ledger, call>>
  BY DEF Finish, ledgerVars
<1>7. \A q \in Request : req'[q].k <= (Len(Certs(q)) + 1)'
  BY <1>5, <1>6 DEF TypeOK, Certs, Asked
<1>8. QED
  BY <1>2, <1>4, <1>6, <1>7 DEF TypeOK, ReqType, LedgerTypeOK

LEMMA ItemsType ==
  ASSUME TypeOK, NEW r \in Request
  PROVE  ItemsAuthorized(r) \in SUBSET Nat /\ DOMAIN Asked(r).items \in SUBSET Nat
<1>1. Asked(r).items \in Seq(Item)
  BY AskedType DEF TypeOK
<1>2. QED
  BY <1>1 DEF ItemsAuthorized

LEMMA TypeStep ==
  ASSUME TypeOK, LedgerTypeOK', [Next]_vars
  PROVE  TypeOK'
<1> USE DEF ReqType
<1>0. req \in [Request -> ReqType] /\ revoked \subseteq DelegationCert /\ now \in Nat
  BY DEF TypeOK, LedgerTypeOK
<1>1. ASSUME NEW r \in Request, Validate(r)
      PROVE  TypeOK'
  <2>1. CASE Finish(r, "PolicyViolation", {}) /\ UNCHANGED ledgerVars
    <3>1. "PolicyViolation" \in Results
      BY DEF Results
    <3>2. QED
      BY <2>1, <3>1, FinishType
  <2>2. CASE ~ FirstVerdict(r, now).ok /\ Finish(r, FirstVerdict(r, now).err, {}) /\ UNCHANGED ledgerVars
    <3>1. Asked(r).chain \in DyoloChain
      BY AskedType DEF TypeOK
    <3>2. FirstVerdict(r, now).err \in A1Error
      BY <2>2, <3>1, VerdictType DEF FirstVerdict
    <3>3. FirstVerdict(r, now).err \in Results
      BY <3>2 DEF Results
    <3>4. QED
      BY <2>2, <3>3, FinishType
  <2>3. CASE /\ req' = [req EXCEPT ![r].pc = "checking", ![r].vt = now, ![r].before = revoked]
             /\ UNCHANGED <<kind, revoked, audit>>
    <3> DEFINE begun == [req[r] EXCEPT !.pc = "checking", !.vt = now, !.before = revoked]
    <3>1. begun \in ReqType /\ begun.k = req[r].k
      BY <1>0
    <3>2. req' = [req EXCEPT ![r] = begun]
      BY <1>0, <2>3
    <3> HIDE DEF begun
    <3>3. req' \in [Request -> ReqType] /\ \A q \in Request : req'[q].k = req[q].k
      BY <1>0, <3>1, <3>2
    <3>4. QED
      BY <2>3, <3>3 DEF TypeOK, Certs, Asked
  <2>4. QED
    BY <1>1, <2>1, <2>2, <2>3 DEF Validate
<1>2. ASSUME NEW r \in Request, EmptyBatch(r)
      PROVE  TypeOK'
  <2>1. "ok" \in Results
    BY DEF Results
  <2>2. QED
    BY <1>2, <2>1, FinishType DEF EmptyBatch
<1>3. ASSUME NEW r \in Request, CheckRevoked(r)
      PROVE  TypeOK'
  <2>1. "Revoked" \in Results /\ StorageFailures \subseteq Results
    BY DEF Results
  <2>2. CASE /\ req' = [req EXCEPT ![r].k = @ + 1]
             /\ UNCHANGED <<kind, revoked, audit>>
    <3>1. req' \in [Request -> ReqType]
      BY <1>0, <2>2
    <3>2. req[r].k <= Len(Certs(r)) /\ Len(Certs(r)) \in Nat /\ req[r].k \in Nat
      BY <1>0, <1>3, AskedType DEF CheckRevoked, TypeOK
    <3>3. \A q \in Request : req'[q].k <= Len(Certs(q)) + 1
      BY <1>0, <2>2, <3>2 DEF TypeOK
    <3>4. QED
      BY <2>2, <3>1, <3>3 DEF TypeOK, Certs, Asked
  <2>3. CASE Finish(r, "Revoked", {})
    BY <1>3, <2>1, <2>3, FinishType DEF CheckRevoked
  <2>4. CASE \E failure \in StorageFailures : Finish(r, failure, {})
    BY <1>3, <2>1, <2>4, FinishType DEF CheckRevoked
  <2>5. QED
    BY <1>3, <2>2, <2>3, <2>4 DEF CheckRevoked
<1>4. ASSUME NEW r \in Request, PartialBatch(r)
      PROVE  TypeOK'
  <2>1. "partial" \in Results
    BY DEF Results
  <2>2. QED
    BY <1>4, <2>1, ItemsType, FinishType DEF PartialBatch
<1>5. ASSUME NEW r \in Request, Consume(r)
      PROVE  TypeOK'
  <2>1. req' \in [Request -> ReqType] /\ \A q \in Request : req'[q].k = req[q].k
    BY <1>0, <1>5 DEF Consume
  <2>2. QED
    BY <1>5, <2>1 DEF Consume, TypeOK, Certs, Asked
<1>6. ASSUME NEW r \in Request, Answer(r)
      PROVE  TypeOK'
  <2>1. "ok" \in Results /\ "NonceReplay" \in Results /\ StorageFailures \subseteq Results
    BY DEF Results, A1Error
  <2>2. QED
    BY <1>6, <2>1, ItemsType, FinishType DEF Answer
<1>7. ASSUME NEW r \in Request, Drop(r)
      PROVE  TypeOK'
  <2>1. req' \in [Request -> ReqType] /\ \A q \in Request : req'[q].k = req[q].k
    BY <1>0, <1>7 DEF Drop
  <2>2. QED
    BY <1>7, <2>1 DEF Drop, TypeOK, Certs, Asked
<1>8. CASE Revoke
  <2>1. PICK r \in Request : \E cert \in CertSet(r) : revoked' = revoked \cup {cert}
    BY <1>8 DEF Revoke
  <2>2. CertSet(r) \subseteq DelegationCert
    BY CertTimes DEF CertSet, TypeOK
  <2>3. revoked' \subseteq DelegationCert
    BY <1>0, <2>1, <2>2
  <2>4. QED
    BY <1>8, <2>3 DEF Revoke, TypeOK, Certs, Asked
<1>9. CASE Tick \/ (\E r \in Request : Store(r)) \/ UNCHANGED vars
  <2>1. UNCHANGED authVars
    BY <1>9 DEF Tick, Store, vars, authVars
  <2>2. QED
    BY <2>1 DEF authVars, TypeOK, Certs, Asked
<1>10. QED
  BY <1>1, <1>2, <1>3, <1>4, <1>5, <1>6, <1>7, <1>8, <1>9 DEF Next, Task

(* Type correctness: whatever requests are made and however they end, the   *)
(* tasks, the stores and the audit trail keep their types, and no lookup    *)
(* runs past the end of its chain.                                          *)
THEOREM AuthorizeTypeCorrect == Safety => []TypeOK
<1>1. Init => TypeOK
  <2> SUFFICES ASSUME Init PROVE TypeOK
    OBVIOUS
  <2>1. LedgerTypeOK
    BY DEF Init, LedgerInit, LedgerTypeOK, CallRecord, CallState, Unseen
  <2>2. \A r \in Request : req[r].k <= Len(Certs(r)) + 1
    BY AskedType DEF Init
  <2>3. QED
    BY <2>1, <2>2 DEF Init, TypeOK, Results
<1>2. TypeOK /\ LedgerTypeOK' /\ [Next]_vars => TypeOK'
  BY TypeStep
<1>3. Safety => []LedgerTypeOK
  BY LedgerBehind, LedgerTypeCorrect, PTL
<1>4. QED
  BY <1>1, <1>2, <1>3, PTL DEF Safety

-----------------------------------------------------------------------------

(* Steps that leave a request and its call alone preserve what TaskInv says *)
(* of it, as long as the clock stands still.                                *)
TaskInvOf(r) ==
  /\ req[r].pc \in {"idle", "checking"} => call[r].st = "idle"
  /\ InFlight(r) => /\ WithinLifetimes(r)
                    /\ req[r].vt <= now
                    /\ now <= req[r].vt + Hold
  /\ req[r].pc = "consuming" => CalledInTime(r)
  /\ Authorized(r) => WithinLifetimes(r) /\ CalledInTime(r) /\ call[r].st = "won"
  /\ req[r].pc # "done" => req[r].receipts = {}

LEMMA Untouched ==
  ASSUME NEW r \in Request, TaskInvOf(r),
         req'[r] = req[r], call'[r] = call[r], now' = now, kind' = kind
  PROVE  TaskInvOf(r)'
  BY DEF TaskInvOf, InFlight, WithinLifetimes, CalledInTime, Authorized, Certs, Asked

(* A request that ends without a receipt.                                   *)
LEMMA FinishedEmpty ==
  ASSUME TypeOK, NEW r \in Request, NEW result \in Results, Finish(r, result, {})
  PROVE  TaskInvOf(r)'
<1>1. req'[r].pc = "done" /\ req'[r].receipts = {}
  BY DEF Finish, TypeOK
<1>2. QED
  BY <1>1 DEF TaskInvOf, InFlight, Authorized

LEMMA TaskStep ==
  ASSUME TypeOK, TypeOK', LedgerInv, TaskInv, [Next]_vars
  PROVE  TaskInv'
<1> SUFFICES ASSUME NEW q \in Request PROVE TaskInvOf(q)'
  BY DEF TaskInv, TaskInvOf
<1>0. /\ TaskInvOf(q)
      /\ req \in [Request -> ReqType]
      /\ call \in [Request -> CallRecord]
      /\ now \in Nat /\ Hold \in Nat
  BY DemandAssumption DEF TaskInv, TaskInvOf, TypeOK, ReqType, LedgerTypeOK, Request
<1>a. "PolicyViolation" \in Results /\ "ok" \in Results /\ "Revoked" \in Results
      /\ "NonceReplay" \in Results /\ StorageFailures \subseteq Results
  BY DEF Results, A1Error
<1>1. ASSUME NEW r \in Request, Validate(r)
      PROVE  TaskInvOf(q)'
  <2>0. UNCHANGED <<now, call, kind>>
    BY <1>1 DEF Validate, Finish, ledgerVars
  <2>1. CASE q # r
    <3>1. req'[q] = req[q]
      BY <1>0, <1>1, <2>1 DEF Validate, Finish
    <3>2. QED
      BY <1>0, <2>0, <3>1, Untouched
  <2>2. CASE q = r /\ Finish(r, "PolicyViolation", {})
    BY <1>a, <2>2, FinishedEmpty
  <2>3. CASE q = r /\ ~ FirstVerdict(r, now).ok /\ Finish(r, FirstVerdict(r, now).err, {})
    <3>1. Asked(r).chain \in DyoloChain
      BY AskedType DEF TypeOK
    <3>2. FirstVerdict(r, now).err \in A1Error
      BY <2>3, <3>1, VerdictType DEF FirstVerdict
    <3>3. FirstVerdict(r, now).err \in Results
      BY <3>2 DEF Results
    <3>4. QED
      BY <2>3, <3>3, FinishedEmpty
  <2>4. CASE /\ q = r /\ FirstVerdict(r, now).ok
             /\ req' = [req EXCEPT ![r].pc = "checking", ![r].vt = now, ![r].before = revoked]
    <3>1. /\ req'[q].pc = "checking" /\ req'[q].vt = now
          /\ req'[q].receipts = req[q].receipts /\ req[q].pc = "idle"
      BY <1>0, <1>1, <2>4 DEF ReqType, Validate
    <3>2. WithinLifetimes(q)'
      <4> SUFFICES ASSUME NEW i \in DOMAIN Certs(q)
                   PROVE  /\ Certs(q)[i].issued_at - Asked(q).chain.drift <= now
                          /\ now <= Certs(q)[i].expiration + Asked(q).chain.drift
        BY <2>0, <3>1 DEF WithinLifetimes, Certs, Asked
      <4>1. Asked(q).chain \in DyoloChain /\ i \in 1 .. Len(Asked(q).chain.certs)
        BY AskedType DEF TypeOK, Certs
      <4>2. QED
        BY <1>0, <2>4, <4>1, OkWithinLifetimes DEF FirstVerdict, Certs
    <3>3. call'[q].st = "idle" /\ req'[q].receipts = {}
      BY <1>0, <2>0, <3>1 DEF TaskInvOf
    <3>4. QED
      BY <1>0, <2>0, <3>1, <3>2, <3>3 DEF TaskInvOf, InFlight, Authorized
  <2>5. QED
    BY <1>1, <2>1, <2>2, <2>3, <2>4 DEF Validate
<1>2. ASSUME NEW r \in Request, EmptyBatch(r)
      PROVE  TaskInvOf(q)'
  <2>1. CASE q # r
    <3>1. req'[q] = req[q] /\ UNCHANGED <<now, call, kind>>
      BY <1>0, <1>2, <2>1 DEF EmptyBatch, Finish, ledgerVars
    <3>2. QED
      BY <1>0, <3>1, Untouched
  <2>2. QED
    BY <1>2, <1>a, <2>1, FinishedEmpty DEF EmptyBatch
<1>3. ASSUME NEW r \in Request, CheckRevoked(r)
      PROVE  TaskInvOf(q)'
  <2>0. UNCHANGED <<now, call, kind>>
    BY <1>3 DEF CheckRevoked, Finish, ledgerVars
  <2>1. CASE q # r
    <3>1. req'[q] = req[q]
      BY <1>0, <1>3, <2>1 DEF CheckRevoked, Finish
    <3>2. QED
      BY <1>0, <2>0, <3>1, Untouched
  <2>2. CASE q = r /\ req' = [req EXCEPT ![r].k = @ + 1]
    <3>1. /\ req'[q].pc = req[q].pc /\ req'[q].vt = req[q].vt
          /\ req'[q].receipts = req[q].receipts /\ req'[q].result = req[q].result
      BY <1>0, <2>2 DEF ReqType
    <3>2. QED
      BY <1>0, <2>0, <3>1
         DEF TaskInvOf, InFlight, WithinLifetimes, CalledInTime, Authorized, Certs, Asked
  <2>3. CASE q = r /\ Finish(r, "Revoked", {})
    BY <1>a, <2>3, FinishedEmpty
  <2>4. CASE q = r /\ \E failure \in StorageFailures : Finish(r, failure, {})
    BY <1>a, <2>4, FinishedEmpty
  <2>5. QED
    BY <1>3, <2>1, <2>2, <2>3, <2>4 DEF CheckRevoked
<1>4. ASSUME NEW r \in Request, PartialBatch(r)
      PROVE  TaskInvOf(q)'
  <2>0. UNCHANGED <<now, call, kind>>
    BY <1>4 DEF PartialBatch, Finish, ledgerVars
  <2>1. CASE q # r
    <3>1. req'[q] = req[q]
      BY <1>0, <1>4, <2>1 DEF PartialBatch, Finish
    <3>2. QED
      BY <1>0, <2>0, <3>1, Untouched
  <2>2. CASE q = r
    <3>1. req'[q].pc = "done" /\ req'[q].result = "partial"
      BY <1>0, <1>4, <2>2 DEF PartialBatch, Finish, ReqType
    <3>2. QED
      BY <3>1 DEF TaskInvOf, InFlight, Authorized
  <2>3. QED
    BY <2>1, <2>2
<1>5. ASSUME NEW r \in Request, Consume(r)
      PROVE  TaskInvOf(q)'
  <2>0. UNCHANGED <<now, kind>>
    BY <1>5 DEF Consume, Invoke
  <2>1. CASE q # r
    <3>1. req'[q] = req[q] /\ call'[q] = call[q]
      BY <1>0, <1>5, <2>1 DEF Consume, Invoke
    <3>2. QED
      BY <1>0, <2>0, <3>1, Untouched
  <2>2. CASE q = r
    <3>1. /\ req'[q].pc = "consuming" /\ req'[q].vt = req[q].vt
          /\ req'[q].receipts = req[q].receipts
          /\ req[q].pc = "checking"
          /\ call'[q] = [st |-> "open", batch |-> SeenNonces(Asked(q).chain),
                         since |-> now, at |-> Unseen]
      BY <1>0, <1>5, <2>2 DEF Consume, Invoke, ReqType
    <3>2. CalledInTime(q)'
      BY <1>0, <2>0, <3>1 DEF TaskInvOf, InFlight, CalledInTime, Asked
    <3>3. QED
      BY <1>0, <2>0, <3>1, <3>2
         DEF TaskInvOf, InFlight, WithinLifetimes, Authorized, Certs, Asked
  <2>3. QED
    BY <2>1, <2>2
<1>6. ASSUME NEW r \in Request, Answer(r)
      PROVE  TaskInvOf(q)'
  <2>0. UNCHANGED <<now, call, kind>>
    BY <1>6 DEF Answer, Finish, ledgerVars
  <2>1. CASE q # r
    <3>1. req'[q] = req[q]
      BY <1>0, <1>6, <2>1 DEF Answer, Finish
    <3>2. QED
      BY <1>0, <2>0, <3>1, Untouched
  <2>2. CASE q = r /\ call[r].st = "won" /\ Finish(r, "ok", DOMAIN Asked(r).items)
    <3>1. req'[q].pc = "done" /\ req'[q].vt = req[q].vt /\ req[q].pc = "consuming"
      BY <1>0, <1>6, <2>2 DEF Answer, Finish, ReqType
    <3>2. QED
      BY <1>0, <2>0, <2>2, <3>1
         DEF TaskInvOf, InFlight, WithinLifetimes, CalledInTime, Authorized, Certs, Asked
  <2>3. CASE q = r /\ Finish(r, "NonceReplay", {})
    BY <1>a, <2>3, FinishedEmpty
  <2>4. CASE q = r /\ \E failure \in StorageFailures : Finish(r, failure, {})
    BY <1>a, <2>4, FinishedEmpty
  <2>5. QED
    BY <1>6, <2>1, <2>2, <2>3, <2>4 DEF Answer
<1>7. ASSUME NEW r \in Request, Drop(r)
      PROVE  TaskInvOf(q)'
  <2>0. UNCHANGED <<now, call, kind>>
    BY <1>7 DEF Drop, ledgerVars
  <2>1. CASE q # r
    <3>1. req'[q] = req[q]
      BY <1>0, <1>7, <2>1 DEF Drop
    <3>2. QED
      BY <1>0, <2>0, <3>1, Untouched
  <2>2. CASE q = r
    <3>1. req'[q].pc = "dropped" /\ req'[q].receipts = {}
      BY <1>0, <1>7, <2>2 DEF Drop, ReqType, InFlight, TaskInvOf
    <3>2. QED
      BY <3>1 DEF TaskInvOf, InFlight, Authorized
  <2>3. QED
    BY <2>1, <2>2
<1>8. ASSUME NEW r \in Request, Store(r)
      PROVE  TaskInvOf(q)'
  <2>0. UNCHANGED <<now, kind, req>>
    BY <1>8 DEF Store, authVars, Accept, Burn, Reject, Fail
  <2>1. CASE call'[q] = call[q]
    BY <1>0, <2>0, <2>1, Untouched
  <2>2. CASE call'[q] # call[q]
    <3>1. /\ call[q].st = "open"
          /\ call'[q].st \in {"won", "lost", "failed"}
          /\ call'[q].batch = call[q].batch
          /\ call'[q].since = call[q].since
          /\ call'[q].st = "won" => call'[q].at = now
      BY <1>0, <1>8, <2>2 DEF Store, Accept, Burn, Reject, Fail, CallRecord
    <3>2. req[q].pc = "consuming" => CalledInTime(q)'
      BY <1>0, <2>0, <3>1 DEF TaskInvOf, InFlight, CalledInTime, Asked
    <3>3. QED
      BY <1>0, <2>0, <3>1, <3>2 DEF TaskInvOf, InFlight, WithinLifetimes, Authorized, Certs, Asked
  <2>3. QED
    BY <2>1, <2>2
<1>9. CASE Revoke
  <2>1. UNCHANGED <<now, call, kind, req>>
    BY <1>9 DEF Revoke, ledgerVars
  <2>2. QED
    BY <1>0, <2>1, Untouched
<1>10. CASE Tick
  <2>1. UNCHANGED <<call, kind, req>> /\ now' \in {now, now + 1}
    BY <1>10 DEF Tick, Elapse, authVars
  <2>2. InFlight(q) => now' <= req[q].vt + Hold
    BY <1>10 DEF Tick
  <2>3. InFlight(q) => req[q].vt <= now'
    BY <1>0, <2>1 DEF TaskInvOf, ReqType
  <2>4. QED
    BY <1>0, <2>1, <2>2, <2>3
       DEF TaskInvOf, InFlight, WithinLifetimes, CalledInTime, Authorized, Certs, Asked
<1>11. CASE UNCHANGED vars
  <2>1. UNCHANGED <<now, call, kind, req>>
    BY <1>11 DEF vars
  <2>2. QED
    BY <1>0, <2>1, Untouched
<1>12. QED
  BY <1>1, <1>2, <1>3, <1>4, <1>5, <1>6, <1>7, <1>8, <1>9, <1>10, <1>11 DEF Next, Task

(* The tasks keep to their times.                                           *)
LEMMA TaskInvariant == Safety => []TaskInv
<1>1. Init => TaskInv
  BY DEF Init, LedgerInit, TaskInv, InFlight, Authorized, Request
<1>2. TypeOK /\ TypeOK' /\ LedgerInv /\ TaskInv /\ [Next]_vars => TaskInv'
  BY TaskStep
<1>3. Safety => []LedgerInv
  BY LedgerBehind, LedgerInvariant, PTL
<1>4. QED
  BY <1>1, <1>2, <1>3, AuthorizeTypeCorrect, PTL DEF Safety

(* Two calls for one certificate cannot both win within its lifetime.       *)
LEMMA OnceOnlyFromInv ==
  ASSUME TypeOK, LedgerInv, TaskInv
  PROVE  OnceOnly
<1> SUFFICES ASSUME RetentionCovers, NEW r \in Request, NEW s \in Request, r # s,
                    Authorized(r), Authorized(s), CertSet(r) \cap CertSet(s) # {}
             PROVE  FALSE
  BY DEF OnceOnly, AuthorizesOnce
<1>0. /\ req \in [Request -> ReqType]
      /\ call \in [Request -> CallRecord]
      /\ Retention \in Nat /\ Hold \in Nat
      /\ kind \in [Request -> DOMAIN Demands]
  BY DemandAssumption, RetentionAssumption DEF TypeOK, ReqType, LedgerTypeOK, Request
<1>1. PICK i \in DOMAIN Certs(r), j \in DOMAIN Certs(s) : Certs(r)[i] = Certs(s)[j]
  BY DEF CertSet
<1> DEFINE cert == Certs(r)[i]
           dr == Asked(r).chain.drift
           ds == Asked(s).chain.drift
<1>2. /\ cert.issued_at \in Nat /\ cert.expiration \in Nat
      /\ dr \in Nat /\ ds \in Nat
      /\ req[r].vt \in Nat /\ req[s].vt \in Nat
      /\ call[r].since \in Nat /\ call[s].since \in Nat
  BY <1>0, AskedType, CertTimes DEF ReqType, CallRecord
<1>3. /\ cert.issued_at - dr <= req[r].vt /\ req[r].vt <= cert.expiration + dr
      /\ CalledInTime(r) /\ call[r].st = "won"
  BY DEF TaskInv, WithinLifetimes
<1>4. /\ cert.issued_at - ds <= req[s].vt /\ req[s].vt <= cert.expiration + ds
      /\ CalledInTime(s) /\ call[s].st = "won"
  BY <1>1 DEF TaskInv, WithinLifetimes
<1>5. /\ cert.expiration + dr + Hold <= cert.issued_at - dr + Retention
      /\ cert.expiration + ds + Hold <= cert.issued_at - ds + Retention
  BY <1>0, <1>1 DEF RetentionCovers, Certs, Asked
<1>6. cert.nonce \in call[r].batch /\ cert.nonce \in call[s].batch
  <2>1. call[r].batch = SeenNonces(Asked(r).chain) /\ call[s].batch = SeenNonces(Asked(s).chain)
    BY <1>3, <1>4 DEF CalledInTime
  <2>2. i \in 1 .. Len(Asked(r).chain.certs) /\ j \in 1 .. Len(Asked(s).chain.certs)
    BY <1>0, AskedType DEF Certs
  <2>3. cert.nonce \in SeenNonces(Asked(r).chain)
    BY <2>2 DEF SeenNonces, Certs
  <2>4. cert.nonce \in SeenNonces(Asked(s).chain)
    BY <1>1, <2>2 DEF SeenNonces, Certs
  <2>5. QED
    BY <2>1, <2>3, <2>4
<1>7. \/ call[s].at > call[r].since + Retention
      \/ call[r].at > call[s].since + Retention
  <2>1. Overlap(r, s)
    BY <1>6 DEF Overlap
  <2>2. QED
    BY <1>3, <1>4, <2>1 DEF LedgerInv, NoDoubleWin, Request
<1>8. /\ req[r].vt <= call[r].since /\ call[r].at <= req[r].vt + Hold
      /\ req[s].vt <= call[s].since /\ call[s].at <= req[s].vt + Hold
  BY <1>3, <1>4 DEF CalledInTime
<1>9. call[r].at \in Int /\ call[s].at \in Int
  BY <1>0 DEF CallRecord, Unseen
<1> HIDE DEF cert, dr, ds
<1>10. QED
  BY <1>0, <1>2, <1>3, <1>4, <1>5, <1>7, <1>8, <1>9

(* A certificate authorises at most one request, for any number of          *)
(* concurrent tasks, any chains and any behaviour of the store, provided    *)
(* the retention covers lifetime, twice the drift, and Hold.                *)
THEOREM AuthorizeOnceOnly == Safety => []OnceOnly
<1>1. TypeOK /\ LedgerInv /\ TaskInv => OnceOnly
  BY OnceOnlyFromInv
<1>2. Safety => []LedgerInv
  BY LedgerBehind, LedgerInvariant, PTL
<1>3. QED
  BY <1>1, <1>2, TaskInvariant, AuthorizeTypeCorrect, PTL

-----------------------------------------------------------------------------

CheckedInvOf(r) ==
  /\ req[r].before \subseteq revoked
  /\ req[r].pc = "idle" => req[r].k = 1
  /\ InFlight(r) => \A i \in DOMAIN Certs(r) : i < req[r].k => Certs(r)[i] \notin req[r].before
  /\ req[r].pc = "consuming" => req[r].k > Len(Certs(r))
  /\ req[r].receipts # {} => \A i \in DOMAIN Certs(r) : Certs(r)[i] \notin req[r].before

(* A step that only lets revocations grow preserves what is known of the    *)
(* requests it leaves alone.                                                *)
LEMMA CheckedUntouched ==
  ASSUME NEW r \in Request, CheckedInvOf(r),
         req'[r] = req[r], kind' = kind, revoked \subseteq revoked'
  PROVE  CheckedInvOf(r)'
  BY DEF CheckedInvOf, InFlight, Certs, Asked

(* A request ends with a receipt only when all its certificates are passed. *)
LEMMA CheckedFinish ==
  ASSUME TypeOK, NEW r \in Request, NEW result, NEW receipts, CheckedInvOf(r),
         Finish(r, result, receipts),
         receipts = {} \/ (InFlight(r) /\ req[r].k > Len(Certs(r)))
  PROVE  CheckedInvOf(r)'
<1>1. req \in [Request -> ReqType]
  BY DEF TypeOK, ReqType
<1>2. /\ req'[r].pc = "done" /\ req'[r].before = req[r].before
      /\ req'[r].receipts = receipts
      /\ UNCHANGED <<kind, revoked>>
  BY <1>1 DEF Finish, ReqType
<1>3. DOMAIN Certs(r) = 1 .. Len(Certs(r)) /\ Len(Certs(r)) \in Nat /\ req[r].k \in Nat
  BY <1>1, AskedType DEF TypeOK, ReqType
<1>4. receipts # {} => \A i \in DOMAIN Certs(r) : Certs(r)[i] \notin req[r].before
  BY <1>3 DEF CheckedInvOf
<1>5. QED
  BY <1>2, <1>4 DEF CheckedInvOf, InFlight, Certs, Asked

LEMMA CheckedStep ==
  ASSUME TypeOK, TaskInv, CheckedInv, [Next]_vars
  PROVE  CheckedInv'
<1> SUFFICES ASSUME NEW q \in Request PROVE CheckedInvOf(q)'
  BY DEF CheckedInv, CheckedInvOf
<1>0. CheckedInvOf(q) /\ req \in [Request -> ReqType]
  BY DEF CheckedInv, CheckedInvOf, TypeOK, ReqType
<1>1. ASSUME NEW r \in Request, Validate(r)
      PROVE  CheckedInvOf(q)'
  <2>0. UNCHANGED <<kind, revoked>>
    BY <1>1 DEF Validate, Finish
  <2>1. CASE q # r
    <3>1. req'[q] = req[q]
      BY <1>0, <1>1, <2>1 DEF Validate, Finish
    <3>2. QED
      BY <1>0, <2>0, <3>1, CheckedUntouched
  <2>2. CASE q = r /\ (Finish(r, "PolicyViolation", {}) \/ Finish(r, FirstVerdict(r, now).err, {}))
    BY <1>0, <2>2, CheckedFinish
  <2>3. CASE /\ q = r
             /\ req' = [req EXCEPT ![r].pc = "checking", ![r].vt = now, ![r].before = revoked]
    <3>1. /\ req'[q].pc = "checking" /\ req'[q].before = revoked
          /\ req'[q].k = req[q].k /\ req'[q].receipts = {}
      BY <1>0, <1>1, <2>3 DEF ReqType, Validate, TaskInv
    <3>2. req[q].k = 1
      BY <1>1, <2>3 DEF Validate, CheckedInv
    <3>3. QED
      BY <2>0, <3>1, <3>2, AskedType DEF CheckedInvOf, InFlight, TypeOK, Certs, Asked
  <2>4. QED
    BY <1>1, <2>1, <2>2, <2>3 DEF Validate
<1>2. ASSUME NEW r \in Request, EmptyBatch(r) \/ PartialBatch(r) \/ Answer(r)
      PROVE  CheckedInvOf(q)'
  <2>0. UNCHANGED <<kind, revoked>>
    BY <1>2 DEF EmptyBatch, PartialBatch, Answer, Finish
  <2>1. CASE q # r
    <3>1. req'[q] = req[q]
      BY <1>0, <1>2, <2>1 DEF EmptyBatch, PartialBatch, Answer, Finish
    <3>2. QED
      BY <1>0, <2>0, <3>1, CheckedUntouched
  <2>2. CASE q = r /\ EmptyBatch(r)
    BY <1>0, <2>2, CheckedFinish DEF EmptyBatch
  <2>3. CASE q = r /\ PartialBatch(r)
    BY <1>0, <2>3, CheckedFinish DEF PartialBatch, InFlight
  <2>4. CASE q = r /\ Answer(r)
    <3>1. InFlight(r) /\ req[r].k > Len(Certs(r))
      BY <1>0, <2>4 DEF Answer, InFlight, CheckedInvOf
    <3>2. PICK result, receipts : Finish(r, result, receipts)
      BY <2>4 DEF Answer
    <3>3. QED
      BY <1>0, <2>4, <3>1, <3>2, CheckedFinish
  <2>5. QED
    BY <1>2, <2>1, <2>2, <2>3, <2>4
<1>3. ASSUME NEW r \in Request, CheckRevoked(r)
      PROVE  CheckedInvOf(q)'
  <2>0. UNCHANGED <<kind, revoked>>
    BY <1>3 DEF CheckRevoked, Finish
  <2>1. CASE q # r
    <3>1. req'[q] = req[q]
      BY <1>0, <1>3, <2>1 DEF CheckRevoked, Finish
    <3>2. QED
      BY <1>0, <2>0, <3>1, CheckedUntouched
  <2>2. CASE q = r /\ Certs(r)[req[r].k] \notin revoked /\ req' = [req EXCEPT ![r].k = @ + 1]
    <3>1. /\ req'[q].pc = req[q].pc /\ req'[q].before = req[q].before
          /\ req'[q].k = req[q].k + 1 /\ req'[q].receipts = req[q].receipts
          /\ req[q].k \in Nat /\ req[q].pc = "checking"
      BY <1>0, <1>3, <2>2 DEF ReqType, CheckRevoked
    <3>2. DOMAIN Certs(q) = 1 .. Len(Certs(q)) /\ Len(Certs(q)) \in Nat
      BY AskedType DEF TypeOK
    <3>3. \A i \in DOMAIN Certs(q) : i < req[q].k + 1 => Certs(q)[i] \notin req[q].before
      BY <1>0, <2>2, <3>1, <3>2 DEF CheckedInvOf, InFlight
    <3>4. QED
      BY <1>0, <2>0, <3>1, <3>3 DEF CheckedInvOf, InFlight, Certs, Asked
  <2>3. CASE q = r /\ \E result : Finish(r, result, {})
    BY <1>0, <2>3, CheckedFinish
  <2>4. QED
    BY <1>3, <2>1, <2>2, <2>3 DEF CheckRevoked
<1>4. ASSUME NEW r \in Request, Consume(r)
      PROVE  CheckedInvOf(q)'
  <2>0. UNCHANGED <<kind, revoked>>
    BY <1>4 DEF Consume
  <2>1. CASE q # r
    <3>1. req'[q] = req[q]
      BY <1>0, <1>4, <2>1 DEF Consume
    <3>2. QED
      BY <1>0, <2>0, <3>1, CheckedUntouched
  <2>2. CASE q = r
    <3>1. /\ req'[q].pc = "consuming" /\ req'[q].before = req[q].before
          /\ req'[q].k = req[q].k /\ req'[q].receipts = req[q].receipts
          /\ req[q].pc = "checking" /\ req[q].k > Len(Certs(q))
      BY <1>0, <1>4, <2>2 DEF ReqType, Consume
    <3>2. QED
      BY <1>0, <2>0, <3>1 DEF CheckedInvOf, InFlight, Certs, Asked
  <2>3. QED
    BY <2>1, <2>2
<1>5. ASSUME NEW r \in Request, Drop(r)
      PROVE  CheckedInvOf(q)'
  <2>0. UNCHANGED <<kind, revoked>>
    BY <1>5 DEF Drop
  <2>1. CASE q # r
    <3>1. req'[q] = req[q]
      BY <1>0, <1>5, <2>1 DEF Drop
    <3>2. QED
      BY <1>0, <2>0, <3>1, CheckedUntouched
  <2>2. CASE q = r
    <3>1. /\ req'[q].pc = "dropped" /\ req'[q].before = req[q].before
          /\ req'[q].k = req[q].k /\ req'[q].receipts = req[q].receipts
      BY <1>0, <1>5, <2>2 DEF ReqType, Drop
    <3>2. QED
      BY <1>0, <2>0, <3>1 DEF CheckedInvOf, InFlight, Certs, Asked
  <2>3. QED
    BY <2>1, <2>2
<1>6. CASE Revoke \/ Tick \/ (\E r \in Request : Store(r)) \/ UNCHANGED vars
  <2>1. UNCHANGED <<kind, req>> /\ revoked \subseteq revoked'
    BY <1>6 DEF Revoke, Tick, Store, authVars, vars
  <2>2. QED
    BY <1>0, <2>1, CheckedUntouched
<1>7. QED
  BY <1>1, <1>2, <1>3, <1>4, <1>5, <1>6 DEF Next, Task

(* No receipt, whole or partial batch, for a chain with a certificate that  *)
(* was revoked before the request began, although the lookups are separate  *)
(* awaits and other certificates may be revoked in between.                 *)
THEOREM AuthorizeRevocationHonoured == Safety => []RevocationHonoured
<1>1. Init => CheckedInv
  BY DEF Init, CheckedInv, InFlight
<1>2. TypeOK /\ TaskInv /\ CheckedInv /\ [Next]_vars => CheckedInv'
  BY CheckedStep
<1>3. CheckedInv => RevocationHonoured
  BY DEF CheckedInv, RevocationHonoured, CertSet
<1>4. QED
  BY <1>1, <1>2, <1>3, TaskInvariant, AuthorizeTypeCorrect, PTL DEF Safety

-----------------------------------------------------------------------------

ValidatedInvOf(r) ==
  /\ InFlight(r) => FirstVerdict(r, req[r].vt).ok
  /\ req[r].pc = "consuming" => ItemsAuthorized(r) = DOMAIN Asked(r).items
  /\ req[r].receipts # {} => /\ FirstVerdict(r, req[r].vt).ok
                             /\ req[r].receipts \subseteq ItemsAuthorized(r)

LEMMA ValidatedUntouched ==
  ASSUME NEW r \in Request, ValidatedInvOf(r), req'[r] = req[r], kind' = kind
  PROVE  ValidatedInvOf(r)'
  BY DEF ValidatedInvOf, InFlight, FirstVerdict, ItemsAuthorized, Asked

(* A request in flight ends with receipts for authorized items only.        *)
LEMMA ValidatedFinish ==
  ASSUME TypeOK, NEW r \in Request, NEW result, NEW receipts, ValidatedInvOf(r),
         Finish(r, result, receipts),
         receipts = {} \/ (InFlight(r) /\ receipts \subseteq ItemsAuthorized(r))
  PROVE  ValidatedInvOf(r)'
<1>1. req \in [Request -> ReqType]
  BY DEF TypeOK, ReqType
<1>2. /\ req'[r].pc = "done" /\ req'[r].vt = req[r].vt
      /\ req'[r].receipts = receipts
      /\ UNCHANGED kind
  BY <1>1 DEF Finish, ReqType
<1>3. QED
  BY <1>2 DEF ValidatedInvOf, InFlight, FirstVerdict, ItemsAuthorized, Asked

LEMMA ValidatedStep ==
  ASSUME TypeOK, TaskInv, ValidatedInv, [Next]_vars
  PROVE  ValidatedInv'
<1> SUFFICES ASSUME NEW q \in Request PROVE ValidatedInvOf(q)'
  BY DEF ValidatedInv, ValidatedInvOf
<1>0. ValidatedInvOf(q) /\ req \in [Request -> ReqType]
  BY DEF ValidatedInv, ValidatedInvOf, TypeOK, ReqType
<1>1. ASSUME NEW r \in Request, Validate(r)
      PROVE  ValidatedInvOf(q)'
  <2>0. UNCHANGED kind
    BY <1>1 DEF Validate, Finish
  <2>1. CASE q # r
    <3>1. req'[q] = req[q]
      BY <1>0, <1>1, <2>1 DEF Validate, Finish
    <3>2. QED
      BY <1>0, <2>0, <3>1, ValidatedUntouched
  <2>2. CASE q = r /\ (Finish(r, "PolicyViolation", {}) \/ Finish(r, FirstVerdict(r, now).err, {}))
    BY <1>0, <2>2, ValidatedFinish
  <2>3. CASE /\ q = r /\ FirstVerdict(r, now).ok
             /\ req' = [req EXCEPT ![r].pc = "checking", ![r].vt = now, ![r].before = revoked]
    <3>1. req'[q].pc = "checking" /\ req'[q].vt = now /\ req'[q].receipts = {}
      BY <1>0, <1>1, <2>3 DEF ReqType, Validate, TaskInv
    <3>2. QED
      BY <2>0, <2>3, <3>1 DEF ValidatedInvOf, FirstVerdict, Asked
  <2>4. QED
    BY <1>1, <2>1, <2>2, <2>3 DEF Validate
<1>2. ASSUME NEW r \in Request, EmptyBatch(r) \/ PartialBatch(r) \/ Answer(r)
      PROVE  ValidatedInvOf(q)'
  <2>0. UNCHANGED kind
    BY <1>2 DEF EmptyBatch, PartialBatch, Answer, Finish
  <2>1. CASE q # r
    <3>1. req'[q] = req[q]
      BY <1>0, <1>2, <2>1 DEF EmptyBatch, PartialBatch, Answer, Finish
    <3>2. QED
      BY <1>0, <2>0, <3>1, ValidatedUntouched
  <2>2. CASE q = r /\ EmptyBatch(r)
    BY <1>0, <2>2, ValidatedFinish DEF EmptyBatch
  <2>3. CASE q = r /\ PartialBatch(r)
    BY <1>0, <2>3, ValidatedFinish DEF PartialBatch, InFlight
  <2>4. CASE q = r /\ Answer(r)
    <3>1. InFlight(r) /\ ItemsAuthorized(r) = DOMAIN Asked(r).items
      BY <1>0, <2>4 DEF Answer, InFlight, ValidatedInvOf
    <3>2. \/ Finish(r, "ok", DOMAIN Asked(r).items)
          \/ \E result : Finish(r, result, {})
      BY <2>4 DEF Answer
    <3>3. QED
      BY <1>0, <2>4, <3>1, <3>2, ValidatedFinish
  <2>5. QED
    BY <1>2, <2>1, <2>2, <2>3, <2>4
<1>3. ASSUME NEW r \in Request, CheckRevoked(r)
      PROVE  ValidatedInvOf(q)'
  <2>0. UNCHANGED kind
    BY <1>3 DEF CheckRevoked, Finish
  <2>1. CASE q # r
    <3>1. req'[q] = req[q]
      BY <1>0, <1>3, <2>1 DEF CheckRevoked, Finish
    <3>2. QED
      BY <1>0, <2>0, <3>1, ValidatedUntouched
  <2>2. CASE q = r /\ req' = [req EXCEPT ![r].k = @ + 1]
    <3>1. /\ req'[q].pc = req[q].pc /\ req'[q].vt = req[q].vt
          /\ req'[q].receipts = req[q].receipts
      BY <1>0, <2>2 DEF ReqType
    <3>2. QED
      BY <1>0, <2>0, <3>1 DEF ValidatedInvOf, InFlight, FirstVerdict, ItemsAuthorized, Asked
  <2>3. CASE q = r /\ \E result : Finish(r, result, {})
    BY <1>0, <2>3, ValidatedFinish
  <2>4. QED
    BY <1>3, <2>1, <2>2, <2>3 DEF CheckRevoked
<1>4. ASSUME NEW r \in Request, Consume(r) \/ Drop(r)
      PROVE  ValidatedInvOf(q)'
  <2>0. UNCHANGED kind
    BY <1>4 DEF Consume, Drop
  <2>1. CASE q # r
    <3>1. req'[q] = req[q]
      BY <1>0, <1>4, <2>1 DEF Consume, Drop
    <3>2. QED
      BY <1>0, <2>0, <3>1, ValidatedUntouched
  <2>2. CASE q = r
    <3>1. /\ req'[q].vt = req[q].vt /\ req'[q].receipts = req[q].receipts
          /\ \/ req'[q].pc = "dropped"
             \/ /\ InFlight(q) /\ req'[q].pc = "consuming"
                /\ ItemsAuthorized(q) = DOMAIN Asked(q).items
      BY <1>0, <1>4, <2>2 DEF ReqType, Consume, Drop, InFlight
    <3>2. QED
      BY <1>0, <2>0, <3>1 DEF ValidatedInvOf, InFlight, FirstVerdict, ItemsAuthorized, Asked
  <2>3. QED
    BY <2>1, <2>2
<1>5. CASE Revoke \/ Tick \/ (\E r \in Request : Store(r)) \/ UNCHANGED vars
  <2>1. UNCHANGED <<kind, req>>
    BY <1>5 DEF Revoke, Tick, Store, authVars, vars
  <2>2. QED
    BY <1>0, <2>1, ValidatedUntouched
<1>6. QED
  BY <1>1, <1>2, <1>3, <1>4, <1>5 DEF Next, Task

(* No receipt, of a batch or of a partial batch, that a single request for  *)
(* the same item would not have got: validate_structure accepts each item   *)
(* with a receipt, at the time of validation.                               *)
THEOREM AuthorizeReceiptsValidated == Safety => []ReceiptsValidated
<1>1. Init => ValidatedInv
  BY DEF Init, ValidatedInv, InFlight
<1>2. TypeOK /\ TaskInv /\ ValidatedInv /\ [Next]_vars => ValidatedInv'
  BY ValidatedStep
<1>3. ValidatedInv => ReceiptsValidated
  <2> SUFFICES ASSUME ValidatedInv, NEW r \in Request, NEW i \in req[r].receipts
               PROVE  validate_structure(Asked(r).chain, Asked(r).agent,
                        Asked(r).items[i].intent, Asked(r).items[i].path, req[r].vt).ok
    BY DEF ReceiptsValidated
  <2>1. FirstVerdict(r, req[r].vt).ok /\ i \in ItemsAuthorized(r)
    BY DEF ValidatedInv
  <2>2. Passes(Asked(r).chain, Asked(r).agent, req[r].vt)
    BY <2>1, OkMeans DEF FirstVerdict
  <2>3. IntentAuthorized(Asked(r).items[i].intent, Asked(r).items[i].path,
                         LeafScope(Asked(r).chain))
    BY <2>1 DEF ItemsAuthorized
  <2>4. QED
    BY <2>2, <2>3, OkMeans
<1>4. QED
  BY <1>1, <1>2, <1>3, TaskInvariant, AuthorizeTypeCorrect, PTL DEF Safety
=============================================================================
