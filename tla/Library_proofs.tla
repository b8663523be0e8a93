---------------------------- MODULE Library_proofs ----------------------------
(***************************************************************************)
(* Proofs about the parts of the library that share no state: the Redis    *)
(* and the in-process nonce store, which implement the nonce ledger, the   *)
(* two kinds of revocation store, the default batch of the nonce store     *)
(* traits, the rate limiter and the C ABI; and the types of all of them,   *)
(* the trees of Trees_proofs included.                                     *)
(***************************************************************************)
EXTENDS MCLibrary, FiniteSetTheorems, TLAPS

-----------------------------------------------------------------------------
(* The Redis store.                                                         *)

(* A key was set by a script that ran PxTtl ticks before it expires.        *)
RedisInv ==
  /\ clock \in Nat
  /\ expiry \in [Key -> Int]
  /\ cmd \in [Conn -> RedisLedger!CallRecord]
  /\ \A n \in Key : expiry[n] = NoKey \/ (expiry[n] >= PxTtl /\ expiry[n] <= clock + PxTtl)
  /\ \A c \in Conn : cmd[c].since <= clock

LEMMA RedisInvStep ==
  ASSUME RedisInv, [RedisNext]_redisVars
  PROVE  RedisInv'
<1> USE RedisAssumption DEF RedisInv, NoKey
<1>0. \A c \in Conn : cmd[c].since \in Nat /\ cmd[c].batch \subseteq Key
  BY DEF RedisLedger!CallRecord
<1>1. ASSUME NEW c \in Conn, NEW wanted \in (SUBSET Key) \ {{}}, Issue(c, wanted)
      PROVE  RedisInv'
  BY <1>1 DEF Issue, RedisLedger!CallRecord, RedisLedger!CallState, RedisLedger!Unseen
<1>2. ASSUME NEW c \in Conn, ScriptSets(c)
      PROVE  RedisInv'
  <2>1. cmd' \in [Conn -> RedisLedger!CallRecord] /\ \A d \in Conn : cmd'[d].since = cmd[d].since
    BY <1>2 DEF ScriptSets, RedisLedger!CallRecord, RedisLedger!CallState
  <2>2. QED
    BY <1>0, <1>2, <2>1 DEF ScriptSets, SetAll
<1>3. ASSUME NEW c \in Conn, ScriptFinds(c) \/ ReturnError(c)
      PROVE  RedisInv'
  BY <1>3 DEF ScriptFinds, ReturnError, RedisLedger!CallRecord, RedisLedger!CallState
<1>4. ASSUME NEW c \in Conn, ReplyLost(c) \/ Unreachable(c)
      PROVE  RedisInv'
  BY <1>4 DEF ReplyLost, Unreachable, SetAll
<1>5. CASE ServerTick
  BY <1>0, <1>5 DEF ServerTick
<1>6. CASE UNCHANGED redisVars
  BY <1>6 DEF redisVars
<1>7. QED
  BY <1>1, <1>2, <1>3, <1>4, <1>5, <1>6 DEF RedisNext

(* Each step of the Redis store is a step of the ledger or changes nothing  *)
(* in it: the script decides, a lost reply burns the nonces, the clock      *)
(* makes keys lapse.                                                        *)
LEMMA RedisStep ==
  ASSUME RedisInv, RedisInv', [RedisNext]_redisVars
  PROVE  [RedisLedger!LedgerNext]_RedisLedger!ledgerVars
<1> USE RedisAssumption DEF RedisInv, NoKey
<1>1. ASSUME NEW c \in Conn, NEW wanted \in (SUBSET Key) \ {{}}, Issue(c, wanted)
      PROVE  RedisLedger!LedgerNext
  <2>1. RedisLedger!Invoke(c, wanted)
    BY <1>1 DEF Issue, RedisLedger!Invoke, RedisLedger!Unseen
  <2>2. QED
    BY <2>1 DEF RedisLedger!LedgerNext
<1>2. ASSUME NEW c \in Conn, ScriptSets(c)
      PROVE  RedisLedger!LedgerNext
  <2>1. RedisLedger!Accept(c)
    <3>1. cmd[c].st = "open" /\ clock' = clock /\ RedisLedger!Fresh(cmd[c].batch)
      BY <1>2 DEF ScriptSets, Pending, Exists, RedisLedger!Fresh, RedisLedger!Unseen, RedisLedger!CallRecord
    <3>2. clock \in cmd[c].since .. clock
      BY DEF RedisLedger!CallRecord
    <3>3. [n \in Key |-> IF expiry'[n] > clock' THEN expiry'[n] - PxTtl ELSE -1]
          = RedisLedger!Stamp(cmd[c].batch, clock)
      BY <1>2 DEF ScriptSets, SetAll, RedisLedger!Stamp
    <3>4. cmd' = [cmd EXCEPT ![c].st = "won", ![c].at = clock]
      BY <1>2 DEF ScriptSets
    <3>5. QED
      BY <3>1, <3>2, <3>3, <3>4 DEF RedisLedger!Accept
  <2>2. QED
    BY <2>1 DEF RedisLedger!LedgerNext
<1>3. ASSUME NEW c \in Conn, ScriptFinds(c)
      PROVE  RedisLedger!LedgerNext
  <2>1. PICK n \in cmd[c].batch : Exists(n)
    BY <1>3 DEF ScriptFinds
  <2>2. n \in Key /\ expiry[n] - PxTtl # -1
    BY <2>1 DEF Exists, RedisLedger!CallRecord
  <2>3. ~ RedisLedger!Fresh(cmd[c].batch)
    BY <2>1, <2>2 DEF Exists, RedisLedger!Fresh, RedisLedger!Unseen
  <2>4. RedisLedger!Reject(c)
    BY <1>3, <2>3 DEF ScriptFinds, Pending, RedisLedger!Reject
  <2>5. QED
    BY <2>4 DEF RedisLedger!LedgerNext
<1>4. ASSUME NEW c \in Conn, ReplyLost(c)
      PROVE  [RedisLedger!LedgerNext]_RedisLedger!ledgerVars
  <2>1. CASE \E n \in cmd[c].batch : Exists(n)
    BY <1>4, <2>1 DEF ReplyLost, RedisLedger!ledgerVars
  <2>2. CASE \A n \in cmd[c].batch : ~ Exists(n)
    <3>1. RedisLedger!Burn(c)
      BY <1>4, <2>2 DEF ReplyLost, SetAll, Pending, Exists, RedisLedger!Burn, RedisLedger!Fresh,
         RedisLedger!Stamp, RedisLedger!Unseen, RedisLedger!CallRecord
    <3>2. QED
      BY <3>1 DEF RedisLedger!LedgerNext
  <2>3. QED
    BY <2>1, <2>2
<1>5. ASSUME NEW c \in Conn, Unreachable(c)
      PROVE  UNCHANGED RedisLedger!ledgerVars
  BY <1>5 DEF Unreachable, RedisLedger!ledgerVars
<1>6. ASSUME NEW c \in Conn, ReturnError(c)
      PROVE  RedisLedger!LedgerNext
  <2>1. RedisLedger!Fail(c)
    BY <1>6 DEF ReturnError, RedisLedger!Fail
  <2>2. QED
    BY <2>1 DEF RedisLedger!LedgerNext
<1>7. CASE ServerTick
  <2> DEFINE old == {n \in Key : expiry[n] > clock /\ ~ expiry[n] > clock + 1}
             at(n) == IF expiry[n] > clock THEN expiry[n] - PxTtl ELSE -1
  <2>1. \A n \in old : n \in Key /\ at(n) # -1 /\ clock + 1 > at(n) + (PxTtl - 1)
    OBVIOUS
  <2>2. \A n \in Key : at(n)' = IF n \in old THEN -1 ELSE at(n)
    BY <1>7 DEF ServerTick
  <2>3. clock' = clock + 1 /\ UNCHANGED cmd
    BY <1>7 DEF ServerTick
  <2>4. [n \in Key |-> at(n)]' = RedisLedger!Stamp(old, RedisLedger!Unseen)
    BY <2>2 DEF RedisLedger!Stamp, RedisLedger!Unseen
  <2>5. old \in SUBSET {n \in Key : /\ [m \in Key |-> at(m)][n] # RedisLedger!Unseen
                                    /\ clock' > [m \in Key |-> at(m)][n] + (PxTtl - 1)}
    BY <2>1, <2>3 DEF RedisLedger!Unseen
  <2> HIDE DEF old
  <2>6. RedisLedger!Elapse
    BY <2>3, <2>4, <2>5 DEF RedisLedger!Elapse
  <2>7. QED
    BY <2>6 DEF RedisLedger!LedgerNext
<1>8. CASE UNCHANGED redisVars
  BY <1>8 DEF redisVars, RedisLedger!ledgerVars
<1>9. QED
  BY <1>1, <1>2, <1>3, <1>4, <1>5, <1>6, <1>7, <1>8 DEF RedisNext

LEMMA RedisInvInit == RedisInit => RedisInv
BY RedisAssumption DEF RedisInit, RedisInv, NoKey, RedisLedger!CallRecord,
   RedisLedger!CallState, RedisLedger!Unseen

(* The Redis store (a1-redis) implements the ledger with a retention of one *)
(* tick less than the time to live, for any keys, callers and time to live, *)
(* with commands that never arrive and replies that are lost.               *)
THEOREM RedisStoreImplementsLedger == RedisSpec => RedisImplementsLedger
<1>1. RedisInit => RedisInv
  BY RedisInvInit
<1>2. RedisInv /\ [RedisNext]_redisVars => RedisInv'
  BY RedisInvStep
<1>3. RedisInit => RedisLedger!LedgerInit
  BY DEF RedisInit, NoKey, RedisLedger!LedgerInit, RedisLedger!Unseen
<1>4. RedisInv /\ RedisInv' /\ [RedisNext]_redisVars
        => [RedisLedger!LedgerNext]_RedisLedger!ledgerVars
  BY RedisStep
<1>5. QED
  BY <1>1, <1>2, <1>3, <1>4, PTL DEF RedisSpec, RedisImplementsLedger, RedisLedger!LedgerSpec

-----------------------------------------------------------------------------
(* The in-process store.                                                    *)

(* The expiry that InsertAll writes for a nonce consumed at u.              *)
Expiry(u) == IF Ttl = NoTtl THEN U64Max ELSE SaturatingAdd(u, Ttl)

WinsLast(calls, n, u) ==
  /\ \E c \in Caller : calls[c].st = "won" /\ n \in calls[c].batch /\ calls[c].at = u
  /\ \A c \in Caller : calls[c].st = "won" /\ n \in calls[c].batch => calls[c].at <= u

MemTypes ==
  /\ now \in 0 .. MaxTime
  /\ store \in [Nonce -> Int]
  /\ call \in [Caller -> Ledger!CallRecord]
  /\ probe \in [Prober -> ProbeRecord]

MemTimes ==
  \A c \in Caller :
    /\ call[c].since <= now
    /\ call[c].st = "won" => call[c].at \in call[c].since .. now

(* Every entry of the map dates from the last call that won its nonce, and  *)
(* its bit is set.                                                          *)
EntryOfLastWin ==
  \A n \in Nonce : store[n] # Absent =>
    /\ BitOf[n] \in bloom
    /\ \E u \in 0 .. now : WinsLast(call, n, u) /\ store[n] = Expiry(u)

(* A nonce that was won has its bit set for ever, and its entry in the map  *)
(* until its retention is over.                                             *)
WinKept ==
  \A c \in Caller : call[c].st = "won" =>
    \A n \in call[c].batch :
      /\ BitOf[n] \in bloom
      /\ store[n] >= Expiry(call[c].at) \/ now > call[c].at + Retention

ProbedWinsStay ==
  \A p \in Prober : \A c \in probe[p].before : call[c].st = "won"

MemInv == MemTypes /\ MemTimes /\ EntryOfLastWin /\ WinKept /\ ProbedWinsStay

LEMMA ExpiryFacts ==
  /\ \A u \in 0 .. MaxTime : Expiry(u) \in Nat /\ Expiry(u) >= u
  /\ \A u, v \in 0 .. MaxTime : u <= v => Expiry(u) <= Expiry(v)
  /\ \A u, v \in 0 .. MaxTime : Expiry(u) < v => v > u + Retention
  /\ Retention \in Nat
  BY MemoryAssumption DEF Expiry, SaturatingAdd, Retention, NoTtl

(* There is at most one last win, and LastWin finds it.                     *)
LEMMA LastWinIs ==
  ASSUME NEW calls, NEW s \in Nat, NEW n, NEW u \in 0 .. s, WinsLast(calls, n, u),
         \A c \in Caller : calls[c].st = "won" => calls[c].at \in Nat
  PROVE  u = CHOOSE v \in 0 .. s : WinsLast(calls, n, v)
<1>1. \A v \in 0 .. s : WinsLast(calls, n, v) => v = u
  BY DEF WinsLast
<1>2. QED
  BY <1>1

(* What a call that wins does to the state.                                 *)
LEMMA MemWin ==
  ASSUME MemInv, NEW c \in Caller, try_consume_batch(c), call'[c].st = "won"
  PROVE  /\ call[c].st = "open" /\ \A n \in call[c].batch : ~ Consumed(n)
         /\ InsertAll(call[c].batch)
         /\ call'[c].at = now /\ call'[c].batch = call[c].batch /\ call'[c].since = call[c].since
         /\ \A d \in Caller \ {c} : call'[d] = call[d]
         /\ UNCHANGED <<now, probe>>
  BY DEF MemInv, MemTypes, try_consume_batch, Ledger!CallRecord

(* A step that changes neither the map nor who has won preserves what is    *)
(* known of the entries.                                                    *)
LEMMA MemQuiet ==
  ASSUME MemInv, MemTypes', UNCHANGED <<bloom, store, probe>>, now' \in {now, now + 1},
         \A c \in Caller : /\ call'[c].st = "won" <=> call[c].st = "won"
                           /\ call[c].st = "won" => call'[c] = call[c]
                           /\ call'[c].since <= now
  PROVE  MemInv'
<1> USE DEF MemInv, MemTypes
<1>1. now \in Nat /\ now' \in Nat
  BY MemoryAssumption
<1>2. MemTimes'
  BY <1>1 DEF MemTimes, Ledger!CallRecord
<1>3. EntryOfLastWin'
  BY <1>1 DEF EntryOfLastWin, WinsLast
<1>4. WinKept'
  BY <1>1, ExpiryFacts DEF WinKept, MemTimes, Ledger!CallRecord
<1>5. ProbedWinsStay'
  BY DEF ProbedWinsStay, ProbeRecord
<1>6. QED
  BY <1>2, <1>3, <1>4, <1>5

LEMMA MemWinStep ==
  ASSUME MemInv, MemTypes', NEW c \in Caller, try_consume_batch(c), call'[c].st = "won"
  PROVE  MemInv'
<1> USE DEF MemInv, MemTypes
<1>0. /\ call[c].st = "open" /\ InsertAll(call[c].batch)
      /\ call'[c].at = now /\ call'[c].batch = call[c].batch /\ call'[c].since = call[c].since
      /\ \A d \in Caller \ {c} : call'[d] = call[d]
      /\ UNCHANGED <<now, probe>>
      /\ now \in Nat /\ now \in 0 .. MaxTime
  BY MemWin, MemoryAssumption
<1>1. MemTimes'
  BY <1>0 DEF MemTimes, Ledger!CallRecord
<1>2. \A n \in Nonce : IF n \in call[c].batch THEN store'[n] = Expiry(now) /\ BitOf[n] \in bloom'
                       ELSE \/ store'[n] = store[n]
                            \/ Ttl # NoTtl /\ store[n] < now /\ store'[n] = Absent
  BY <1>0 DEF InsertAll, Expiry
<1>3. bloom \subseteq bloom'
  BY <1>0 DEF InsertAll
<1>4. ASSUME NEW n \in Nonce, store'[n] # Absent
      PROVE  BitOf[n] \in bloom' /\ \E u \in 0 .. now' : WinsLast(call', n, u) /\ store'[n] = Expiry(u)
  <2>1. CASE n \in call[c].batch
    <3>1. WinsLast(call', n, now)
      BY <1>0, <1>1, <2>1 DEF WinsLast, MemTimes
    <3>2. QED
      BY <1>0, <1>2, <2>1, <3>1
  <2>2. CASE n \notin call[c].batch
    <3>1. store'[n] = store[n] /\ store[n] # Absent
      BY <1>2, <1>4, <2>2
    <3>2. BitOf[n] \in bloom'
      BY <1>3, <3>1 DEF EntryOfLastWin
    <3>3. PICK u \in 0 .. now : WinsLast(call, n, u) /\ store[n] = Expiry(u)
      BY <3>1 DEF EntryOfLastWin
    <3>4. WinsLast(call', n, u)
      BY <1>0, <2>2, <3>3 DEF WinsLast
    <3>5. QED
      BY <1>0, <3>1, <3>2, <3>3, <3>4
  <2>3. QED
    BY <2>1, <2>2
<1>5. ASSUME NEW d \in Caller, call'[d].st = "won", NEW n \in call'[d].batch
      PROVE  BitOf[n] \in bloom' /\ (store'[n] >= Expiry(call'[d].at) \/ now' > call'[d].at + Retention)
  <2>1. n \in Nonce /\ call'[d].at \in 0 .. MaxTime /\ call'[d].at <= now
    BY <1>0, <1>1, <1>5, MemoryAssumption DEF MemTimes, Ledger!CallRecord
  <2>2. CASE n \in call[c].batch
    BY <1>0, <1>2, <2>1, <2>2, ExpiryFacts
  <2>3. CASE n \notin call[c].batch
    <3>1. d # c /\ call'[d] = call[d]
      BY <1>0, <1>5, <2>3
    <3>2. BitOf[n] \in bloom /\ (store[n] >= Expiry(call[d].at) \/ now > call[d].at + Retention)
      BY <1>5, <3>1 DEF WinKept
    <3>3. store'[n] = store[n] \/ store[n] < now
      BY <1>2, <2>1, <2>3
    <3>4. CASE store'[n] = store[n]
      BY <1>0, <1>3, <3>1, <3>2, <3>4
    <3>5. CASE store[n] < now
      <4>1. now > call[d].at + Retention
        BY <1>0, <2>1, <3>1, <3>2, <3>5, ExpiryFacts
      <4>2. QED
        BY <1>0, <1>3, <3>1, <3>2, <4>1
    <3>6. QED
      BY <3>3, <3>4, <3>5
  <2>4. QED
    BY <2>2, <2>3
<1>6. ProbedWinsStay'
  BY <1>0 DEF ProbedWinsStay, ProbeRecord
<1>7. QED
  BY <1>1, <1>4, <1>5, <1>6 DEF EntryOfLastWin, WinKept

LEMMA MemTypeStep ==
  ASSUME MemInv, [Next]_vars
  PROVE  MemTypes'
<1> USE DEF MemInv, MemTypes
<1>0. now \in Nat /\ MaxTime \in Nat
  BY MemoryAssumption
<1>1. ASSUME NEW c \in Caller, NEW wanted \in (SUBSET Nonce) \ {{}}, Open(c, wanted)
      PROVE  MemTypes'
  BY <1>0, <1>1 DEF Open, Ledger!CallRecord, Ledger!CallState, Ledger!Unseen
<1>2. ASSUME NEW c \in Caller, try_consume_batch(c)
      PROVE  MemTypes'
  <2>1. call' \in [Caller -> Ledger!CallRecord]
    BY <1>0, <1>2 DEF try_consume_batch, Ledger!CallRecord, Ledger!CallState
  <2>2. store' \in [Nonce -> Int]
    BY <1>0, <1>2, MemoryAssumption
       DEF try_consume_batch, InsertAll, SaturatingAdd, Absent, NoTtl
  <2>3. QED
    BY <1>2, <2>1, <2>2 DEF try_consume_batch
<1>3. ASSUME NEW p \in Prober, is_consumed_bloom(p)
      PROVE  MemTypes'
  <2> DEFINE rec == [probe[p] EXCEPT !.st = IF BitOf[probe[p].nonce] \in bloom THEN "locked" ELSE "done",
                                    !.before = {c \in Caller : call[c].st = "won"}]
  <2>0. rec \in ProbeRecord
    <3>1. {c \in Caller : call[c].st = "won"} \in SUBSET Caller
      OBVIOUS
    <3>2. probe[p] \in ProbeRecord
      OBVIOUS
    <3>3. QED
      BY <3>1, <3>2 DEF ProbeRecord
  <2>a. probe' = [probe EXCEPT ![p] = rec]
    BY <1>3 DEF is_consumed_bloom
  <2> HIDE DEF rec
  <2>1. probe' \in [Prober -> ProbeRecord]
    BY <2>0, <2>a
  <2>2. QED
    BY <1>3, <2>1 DEF is_consumed_bloom
<1>4. ASSUME NEW p \in Prober, is_consumed_map(p)
      PROVE  MemTypes'
  <2> DEFINE found == store[probe[p].nonce] >= now
             rec == [probe[p] EXCEPT !.st = "done", !.answer = found]
  <2>0. rec \in ProbeRecord
    <3>1. found \in BOOLEAN
      OBVIOUS
    <3>2. probe[p] \in ProbeRecord
      OBVIOUS
    <3> HIDE DEF found
    <3>3. QED
      BY <3>1, <3>2 DEF ProbeRecord
  <2>a. probe' = [probe EXCEPT ![p] = rec]
    BY <1>4 DEF is_consumed_map
  <2> HIDE DEF rec
  <2>1. probe' \in [Prober -> ProbeRecord]
    BY <2>0, <2>a
  <2>2. QED
    BY <1>4, <2>1 DEF is_consumed_map
<1>5. CASE Tick
  BY <1>0, <1>5 DEF Tick
<1>6. CASE UNCHANGED vars
  BY <1>6 DEF vars
<1>7. QED
  BY <1>1, <1>2, <1>3, <1>4, <1>5, <1>6 DEF Next

LEMMA MemInvStep ==
  ASSUME MemInv, [Next]_vars
  PROVE  MemInv'
<1>0. MemTypes' /\ now \in Nat
  BY MemTypeStep, MemoryAssumption DEF MemInv, MemTypes
<1>1. ASSUME NEW c \in Caller, NEW wanted \in (SUBSET Nonce) \ {{}}, Open(c, wanted)
      PROVE  MemInv'
  <2>1. \A d \in Caller : /\ call'[d].st = "won" <=> call[d].st = "won"
                          /\ call[d].st = "won" => call'[d] = call[d]
                          /\ call'[d].since <= now
    BY <1>0, <1>1 DEF Open, MemInv, MemTypes, MemTimes
  <2>2. QED
    BY <1>0, <1>1, <2>1, MemQuiet DEF Open
<1>2. ASSUME NEW c \in Caller, try_consume_batch(c)
      PROVE  MemInv'
  <2>1. CASE call'[c].st = "won"
    BY <1>0, <1>2, <2>1, MemWinStep
  <2>2. CASE call'[c].st # "won"
    <3>1. /\ call[c].st = "open" /\ call' = [call EXCEPT ![c].st = "lost"]
          /\ UNCHANGED <<bloom, store, now, probe>>
      BY <1>2, <2>2 DEF try_consume_batch, MemInv, MemTypes, Ledger!CallRecord
    <3>2. \A d \in Caller : /\ call'[d].st = "won" <=> call[d].st = "won"
                            /\ call[d].st = "won" => call'[d] = call[d]
                            /\ call'[d].since <= now
      BY <1>0, <3>1 DEF MemInv, MemTypes, MemTimes, Ledger!CallRecord
    <3>3. QED
      BY <1>0, <3>1, <3>2, MemQuiet
  <2>3. QED
    BY <2>1, <2>2
<1>3. ASSUME NEW p \in Prober, is_consumed_bloom(p) \/ is_consumed_map(p)
      PROVE  MemInv'
  <2>1. UNCHANGED <<now, bloom, store, call>>
    BY <1>3 DEF is_consumed_bloom, is_consumed_map
  <2>2. \A q \in Prober : probe'[q].before \in {probe[q].before, {c \in Caller : call[c].st = "won"}}
    BY <1>3 DEF is_consumed_bloom, is_consumed_map, MemInv, MemTypes, ProbeRecord
  <2>3. ProbedWinsStay'
    BY <2>1, <2>2 DEF MemInv, ProbedWinsStay
  <2>4. QED
    BY <1>0, <2>1, <2>3 DEF MemInv, MemTimes, EntryOfLastWin, WinKept
<1>4. CASE Tick
  <2>1. \A d \in Caller : call'[d] = call[d] /\ call[d].since <= now
    BY <1>4 DEF Tick, MemInv, MemTimes
  <2>2. QED
    BY <1>0, <1>4, <2>1, MemQuiet DEF Tick
<1>5. CASE UNCHANGED vars
  BY <1>5 DEF vars, MemInv, MemTypes, MemTimes, EntryOfLastWin, WinKept, ProbedWinsStay
<1>6. QED
  BY <1>1, <1>2, <1>3, <1>4, <1>5 DEF Next

LEMMA MemInvInit == Init => MemInv
<1> SUFFICES ASSUME Init PROVE MemInv
  OBVIOUS
<1>1. MemTypes
  <2>1. \A n \in Nonce : [st |-> "idle", nonce |-> n, answer |-> FALSE, before |-> {}] \in ProbeRecord
    BY DEF ProbeRecord
  <2>2. probe \in [Prober -> ProbeRecord]
    BY <2>1 DEF Init
  <2>3. QED
    BY <2>2, MemoryAssumption DEF Init, MemTypes, Absent, Ledger!CallRecord,
       Ledger!CallState, Ledger!Unseen
<1>2. QED
  BY <1>1 DEF Init, MemInv, MemTimes, EntryOfLastWin, WinKept, ProbedWinsStay

LEMMA MemInvariant == Spec => []MemInv
<1>1. Init => MemInv
  BY MemInvInit
<1>2. MemInv /\ [Next]_vars => MemInv'
  BY MemInvStep
<1>3. QED
  BY <1>1, <1>2, PTL DEF Spec

-----------------------------------------------------------------------------

(* Where the refinement mapping puts a nonce.                               *)
SeenAt(n) == IF store[n] < now THEN -1 ELSE LastWin(n)

(* An entry in force is dated to the last win of its nonce.                 *)
LEMMA SeenInForce ==
  ASSUME MemInv, NEW n \in Nonce, store[n] >= now
  PROVE  /\ SeenAt(n) \in 0 .. now
         /\ WinsLast(call, n, SeenAt(n)) /\ store[n] = Expiry(SeenAt(n))
<1> USE DEF MemInv, MemTypes
<1>1. now \in Nat /\ store[n] \in Int /\ store[n] # Absent
  BY MemoryAssumption DEF Absent
<1>2. PICK u \in 0 .. now : WinsLast(call, n, u) /\ store[n] = Expiry(u)
  BY <1>1 DEF EntryOfLastWin
<1>3. \A c \in Caller : call[c].st = "won" => call[c].at \in Nat
  BY <1>1 DEF MemTimes, Ledger!CallRecord
<1>4. u = CHOOSE v \in 0 .. now : WinsLast(call, n, v)
  BY <1>1, <1>2, <1>3, LastWinIs
<1>5. SeenAt(n) = u
  BY <1>1, <1>4 DEF SeenAt, LastWin, WinsLast
<1>6. QED
  BY <1>2, <1>5

(* The nonces are not seen elsewhere after a step in which they are not won *)
(* and their entries stay.                                                  *)
LEMMA SeenStays ==
  ASSUME MemInv, MemInv', NEW n \in Nonce, store'[n] = store[n], store[n] >= now', now' >= now,
         \A u : WinsLast(call, n, u) => WinsLast(call', n, u)
  PROVE  SeenAt(n)' = SeenAt(n)
<1>1. /\ now \in Nat /\ now' \in Nat /\ store[n] \in Int
      /\ \A c \in Caller : call'[c].st = "won" => call'[c].at \in Nat
  BY MemoryAssumption DEF MemInv, MemTypes, MemTimes, Ledger!CallRecord
<1>2. SeenAt(n) \in 0 .. now /\ WinsLast(call, n, SeenAt(n))
  BY <1>1, SeenInForce
<1>3. SeenAt(n) \in 0 .. now' /\ WinsLast(call', n, SeenAt(n))
  BY <1>1, <1>2
<1> DEFINE u == SeenAt(n)
<1> HIDE DEF u
<1>4. u = CHOOSE v \in 0 .. now' : WinsLast(call', n, v)
  BY <1>1, <1>3, LastWinIs DEF u
<1>5. SeenAt(n)' = CHOOSE v \in 0 .. now' : WinsLast(call', n, v)
  BY <1>1 DEF SeenAt, LastWin, WinsLast
<1>6. QED
  BY <1>4, <1>5 DEF u

LEMMA MemStep ==
  ASSUME MemInv, MemInv', [Next]_vars
  PROVE  [Ledger!LedgerNext]_Ledger!ledgerVars
<1>0. /\ now \in Nat /\ now' \in Nat /\ now <= MaxTime
      /\ store \in [Nonce -> Int] /\ store' \in [Nonce -> Int]
      /\ call \in [Caller -> Ledger!CallRecord]
  BY MemoryAssumption DEF MemInv, MemTypes
<1>1. ASSUME NEW c \in Caller, NEW wanted \in (SUBSET Nonce) \ {{}}, Open(c, wanted)
      PROVE  Ledger!LedgerNext
  <2>1. UNCHANGED <<now, store>> /\ \A n \in Nonce : \A u : WinsLast(call, n, u) => WinsLast(call', n, u)
    BY <1>0, <1>1 DEF Open, WinsLast
  <2>2. \A n \in Nonce : SeenAt(n)' = SeenAt(n)
    <3> SUFFICES ASSUME NEW n \in Nonce PROVE SeenAt(n)' = SeenAt(n)
      OBVIOUS
    <3>1. CASE store[n] < now
      BY <2>1, <3>1 DEF SeenAt
    <3>2. CASE store[n] >= now
      BY <1>0, <2>1, <3>2, SeenStays
    <3>3. QED
      BY <1>0, <3>1, <3>2
  <2>3. Ledger!Invoke(c, wanted)
    BY <1>1, <2>2 DEF Open, Ledger!Invoke, Ledger!Unseen, SeenAt
  <2>4. QED
    BY <2>3 DEF Ledger!LedgerNext
<1>2. ASSUME NEW c \in Caller, try_consume_batch(c), call'[c].st = "won"
      PROVE  Ledger!LedgerNext
  <2>0. /\ call[c].st = "open" /\ \A n \in call[c].batch : ~ Consumed(n)
        /\ InsertAll(call[c].batch)
        /\ call'[c].at = now /\ call'[c].batch = call[c].batch /\ call'[c].since = call[c].since
        /\ \A d \in Caller \ {c} : call'[d] = call[d]
        /\ UNCHANGED <<now, probe>>
    BY <1>2, MemWin
  <2>1. call[c].since \in Nat /\ call[c].since <= now /\ call[c].batch \subseteq Nonce
    BY <1>0 DEF MemInv, MemTimes, Ledger!CallRecord
  <2>2. \A n \in call[c].batch : SeenAt(n) = -1
    <3> SUFFICES ASSUME NEW n \in call[c].batch PROVE store[n] < now
      BY DEF SeenAt
    <3>1. CASE store[n] = Absent
      BY <1>0, <3>1 DEF Absent
    <3>2. CASE store[n] # Absent
      BY <1>0, <2>0, <2>1, <3>2 DEF Consumed, MemInv, EntryOfLastWin
    <3>3. QED
      BY <3>1, <3>2
  <2>3. \A n \in call[c].batch : SeenAt(n)' = now
    <3> SUFFICES ASSUME NEW n \in call[c].batch PROVE SeenAt(n)' = now
      OBVIOUS
    <3>1. store'[n] = Expiry(now) /\ n \in Nonce
      BY <2>0, <2>1 DEF InsertAll, Expiry
    <3>2. store'[n] >= now /\ now \in 0 .. now
      BY <1>0, <3>1, MemoryAssumption, ExpiryFacts
    <3>3. \A d \in Caller : call'[d].st = "won" => call'[d].at \in Nat /\ call'[d].at <= now
      BY <1>0, <2>0 DEF MemInv, MemTimes, MemTypes, Ledger!CallRecord
    <3>4. WinsLast(call', n, now)
      BY <1>2, <2>0, <3>3 DEF WinsLast
    <3>5. now = CHOOSE u \in 0 .. now : WinsLast(call', n, u)
      BY <1>0, <3>2, <3>3, <3>4, LastWinIs
    <3>6. QED
      BY <1>0, <2>0, <3>1, <3>2, <3>5 DEF SeenAt, LastWin, WinsLast
  <2>4. \A n \in Nonce \ call[c].batch : SeenAt(n)' = SeenAt(n)
    <3> SUFFICES ASSUME NEW n \in Nonce \ call[c].batch PROVE SeenAt(n)' = SeenAt(n)
      OBVIOUS
    <3>1. CASE store[n] < now
      <4>1. store'[n] < now'
        BY <1>0, <2>0, <3>1 DEF InsertAll, Absent
      <4>2. QED
        BY <3>1, <4>1 DEF SeenAt
    <3>2. CASE store[n] >= now
      <4>1. store'[n] = store[n]
        BY <1>0, <2>0, <3>2 DEF InsertAll
      <4>2. \A u : WinsLast(call, n, u) => WinsLast(call', n, u)
        BY <2>0 DEF WinsLast
      <4>3. QED
        BY <1>0, <2>0, <3>2, <4>1, <4>2, SeenStays
    <3>3. QED
      BY <1>0, <3>1, <3>2
  <2>5. call' = [call EXCEPT ![c].st = "won", ![c].at = now]
    BY <1>0, <1>2 DEF try_consume_batch, Ledger!CallRecord
  <2>6. Ledger!Accept(c)
    <3>1. Ledger!Fresh(call[c].batch)
      BY <2>1, <2>2 DEF Ledger!Fresh, Ledger!Unseen, SeenAt
    <3>2. [n \in Nonce |-> SeenAt(n)]' = Ledger!Stamp(call[c].batch, now)
      BY <2>3, <2>4 DEF Ledger!Stamp, SeenAt
    <3>3. now \in call[c].since .. now
      BY <1>0, <2>1
    <3>4. QED
      BY <2>0, <2>5, <3>1, <3>2, <3>3 DEF Ledger!Accept, SeenAt
  <2>7. QED
    BY <2>6 DEF Ledger!LedgerNext
<1>3. ASSUME NEW c \in Caller, try_consume_batch(c), call'[c].st # "won"
      PROVE  Ledger!LedgerNext
  <2>1. /\ call[c].st = "open" /\ call' = [call EXCEPT ![c].st = "lost"]
        /\ UNCHANGED <<store, now>>
    BY <1>0, <1>3 DEF try_consume_batch, Ledger!CallRecord
  <2>2. PICK n \in call[c].batch : Consumed(n)
    BY <1>0, <1>3 DEF try_consume_batch, Ledger!CallRecord
  <2>3. n \in Nonce /\ store[n] >= now
    BY <1>0, <2>2 DEF Consumed, Ledger!CallRecord
  <2>4. SeenAt(n) # -1
    BY <1>0, <2>3, SeenInForce
  <2>5. ~ Ledger!Fresh(call[c].batch)
    BY <2>2, <2>3, <2>4 DEF Ledger!Fresh, Ledger!Unseen, SeenAt
  <2>6. \A m \in Nonce : \A u : WinsLast(call, m, u) => WinsLast(call', m, u)
    BY <1>0, <2>1 DEF WinsLast, Ledger!CallRecord
  <2>7. \A m \in Nonce : SeenAt(m)' = SeenAt(m)
    <3> SUFFICES ASSUME NEW m \in Nonce PROVE SeenAt(m)' = SeenAt(m)
      OBVIOUS
    <3>1. CASE store[m] < now
      BY <2>1, <3>1 DEF SeenAt
    <3>2. CASE store[m] >= now
      <4>1. \A u : WinsLast(call, m, u) => WinsLast(call', m, u)
        BY <2>6
      <4>2. store'[m] = store[m] /\ store[m] >= now' /\ now' = now
        BY <2>1, <3>2
      <4>3. QED
        BY <1>0, <3>2, <4>1, <4>2, SeenStays
    <3>3. QED
      BY <1>0, <3>1, <3>2
  <2>8. Ledger!Reject(c)
    BY <2>1, <2>5, <2>7 DEF Ledger!Reject, SeenAt
  <2>9. QED
    BY <2>8 DEF Ledger!LedgerNext
<1>4. CASE Tick
  <2>1. now' = now + 1 /\ now < MaxTime /\ UNCHANGED <<store, call>>
    BY <1>4 DEF Tick
  <2> DEFINE old == {n \in Nonce : store[n] = now}
  <2>2. \A n \in Nonce : SeenAt(n)' = IF n \in old THEN -1 ELSE SeenAt(n)
    <3> SUFFICES ASSUME NEW n \in Nonce PROVE SeenAt(n)' = IF n \in old THEN -1 ELSE SeenAt(n)
      OBVIOUS
    <3>1. CASE store[n] <= now
      BY <1>0, <2>1, <3>1 DEF SeenAt
    <3>2. CASE store[n] >= now + 1
      <4>1. SeenAt(n)' = SeenAt(n)
        BY <1>0, <2>1, <3>2, SeenStays
      <4>2. QED
        BY <1>0, <3>2, <4>1
    <3>3. QED
      BY <1>0, <3>1, <3>2
  <2>3. \A n \in old : SeenAt(n) # -1 /\ now + 1 > SeenAt(n) + Retention
    <3> SUFFICES ASSUME NEW n \in old PROVE SeenAt(n) # -1 /\ now + 1 > SeenAt(n) + Retention
      OBVIOUS
    <3>1. SeenAt(n) \in 0 .. now /\ now = Expiry(SeenAt(n))
      BY <1>0, SeenInForce
    <3>2. SeenAt(n) \in 0 .. MaxTime /\ now + 1 \in 0 .. MaxTime
      BY <1>0, <2>1, <3>1, MemoryAssumption
    <3>3. QED
      BY <1>0, <3>1, <3>2, ExpiryFacts
  <2> HIDE DEF old
  <2>4. old \in SUBSET {n \in Nonce : /\ [m \in Nonce |-> SeenAt(m)][n] # Ledger!Unseen
                                      /\ now' > [m \in Nonce |-> SeenAt(m)][n] + Retention}
    BY <2>1, <2>3 DEF Ledger!Unseen, old
  <2>5. [n \in Nonce |-> SeenAt(n)]' = Ledger!Stamp(old, Ledger!Unseen)
    BY <2>2 DEF Ledger!Stamp, Ledger!Unseen, SeenAt
  <2>6. Ledger!Elapse
    BY <2>1, <2>4, <2>5 DEF Ledger!Elapse, SeenAt
  <2>7. QED
    BY <2>6 DEF Ledger!LedgerNext
<1>5. CASE (\E p \in Prober : is_consumed_bloom(p) \/ is_consumed_map(p)) \/ UNCHANGED vars
  <2>1. now' = now /\ store' = store /\ call' = call
    BY <1>5 DEF is_consumed_bloom, is_consumed_map, vars
  <2>2. \A n \in Nonce : SeenAt(n)' = SeenAt(n)
    BY <2>1 DEF SeenAt, LastWin
  <2>3. [n \in Nonce |-> SeenAt(n)]' = [n \in Nonce |-> SeenAt(n)]
    BY <2>2
  <2>4. QED
    BY <2>1, <2>3 DEF Ledger!ledgerVars, SeenAt
<1>6. QED
  BY <1>1, <1>2, <1>3, <1>4, <1>5 DEF Next

(* The in-process store (MemoryNonceStore in registry.rs) implements the    *)
(* ledger for any nonces, callers and assignment of filter bits, with any   *)
(* time to live or none, and with expiry times that saturate at u64::MAX.   *)
THEOREM MemoryStoreImplementsLedger == Spec => ImplementsLedger
<1>1. Init => Ledger!LedgerInit
  <2> SUFFICES ASSUME Init PROVE Ledger!LedgerInit
    OBVIOUS
  <2>0. now = 0 /\ \A n \in Nonce : store[n] = -1
    BY DEF Init, Absent
  <2>1. \A n \in Nonce : store[n] < now
    <3>1. -1 < 0
      OBVIOUS
    <3>2. QED
      BY <2>0, <3>1, Zenon
  <2>2. QED
    BY <2>1 DEF Init, Ledger!LedgerInit, Ledger!Unseen
<1>2. MemInv /\ MemInv' /\ [Next]_vars => [Ledger!LedgerNext]_Ledger!ledgerVars
  BY MemStep
<1>3. QED
  BY <1>1, <1>2, MemInvariant, PTL DEF Spec, ImplementsLedger, Ledger!LedgerSpec

(* is_consumed never misses a nonce whose consumption was over when it was  *)
(* called and is still to be remembered, although it reads the filter       *)
(* without the lock: bits are never cleared, and the map keeps the entry.   *)
THEOREM MemoryProbeSeesWins == Spec => ProbeSeesWins
<1>1. MemInv /\ [Next]_vars
      => [\A p \in Prober :
            (/\ probe[p].st # "done"
             /\ probe'[p].st = "done"
             /\ ~ probe'[p].answer)
            => \A c \in probe'[p].before :
                 probe[p].nonce \in call[c].batch => now > call[c].at + Retention]_vars
  <2> SUFFICES ASSUME MemInv, Next, NEW p \in Prober,
                      probe[p].st # "done", probe'[p].st = "done", ~ probe'[p].answer,
                      NEW c \in probe'[p].before, probe[p].nonce \in call[c].batch
               PROVE  now > call[c].at + Retention
    OBVIOUS
  <2>0. probe \in [Prober -> ProbeRecord] /\ now \in 0 .. MaxTime /\ now \in Nat
    BY MemoryAssumption DEF MemInv, MemTypes
  <2>1. is_consumed_bloom(p) \/ is_consumed_map(p)
    BY <2>0 DEF Next, Open, try_consume_batch, is_consumed_bloom, is_consumed_map, Tick, ProbeRecord
  <2>2. CASE is_consumed_bloom(p)
    <3>1. probe'[p].before = {d \in Caller : call[d].st = "won"} /\ BitOf[probe[p].nonce] \notin bloom
      BY <2>0, <2>2 DEF is_consumed_bloom, ProbeRecord
    <3>2. QED
      BY <3>1 DEF MemInv, WinKept
  <2>3. CASE is_consumed_map(p)
    <3>1. probe'[p].before = probe[p].before
      BY <2>0, <2>3 DEF is_consumed_map, ProbeRecord
    <3>2. c \in Caller /\ call[c].st = "won"
      BY <2>0, <3>1 DEF MemInv, ProbedWinsStay, ProbeRecord
    <3>3. ~ store[probe[p].nonce] >= now
      BY <2>0, <2>3 DEF is_consumed_map, ProbeRecord
    <3>4. store[probe[p].nonce] \in Int
      BY <2>0 DEF MemInv, MemTypes, ProbeRecord
    <3>5. call[c].at \in 0 .. MaxTime
      BY <2>0, <3>2, MemoryAssumption DEF MemInv, MemTypes, MemTimes, Ledger!CallRecord
    <3>6. QED
      BY <2>0, <3>2, <3>3, <3>4, <3>5, ExpiryFacts DEF MemInv, WinKept
  <2>4. QED
    BY <2>1, <2>2, <2>3
<1>2. QED
  BY <1>1, MemInvariant, PTL DEF Spec, ProbeSeesWins

-----------------------------------------------------------------------------
(* The in-process revocation store.                                         *)

(* Bits are only ever set, those of a whole batch before its first          *)
(* fingerprint is inserted: so what is in a shard has all its bits.          *)
RevokerProgress ==
  \A r \in Revoker :
    /\ \A k \in 0 .. rv[r].bits - 1 : BitAt(rv[r].fps, k) \in filter
    /\ rv[r].done > 0 => rv[r].bits = 3 * Len(rv[r].fps)
    /\ \A k \in 1 .. rv[r].done : rv[r].fps[k] \in shard

ShardHasBits == \A fp \in shard : \A k \in 1 .. 3 : BitsOf[fp][k] \in filter

ReaderProgress ==
  \A q \in Reader :
    /\ rd[q].before \subseteq shard
    /\ rd[q].st \in {"idle", "bits"} => rd[q].k <= 3
    /\ rd[q].st = "no" => rd[q].fp \notin rd[q].before
    /\ rd[q].st = "yes" => rd[q].fp \in shard

RevInv == RevTypeOK /\ RevokerProgress /\ ShardHasBits /\ ReaderProgress

RvRecord == [fps : Batches, bits : Nat, done : Nat]

RdRecord == [fp : Fp, st : {"idle", "bits", "shard", "yes", "no"}, k : 1 .. 4, before : SUBSET Fp]

(* The bits of the (d+1)-th fingerprint of a slice are its fetch_or number  *)
(* 3d to 3d+2.                                                              *)
LEMMA BitsOfSlice ==
  ASSUME NEW fps \in Seq(Fp), NEW d \in Nat, d < Len(fps), NEW j \in 1 .. 3
  PROVE  BitsOf[fps[d + 1]][j] = BitAt(fps, 3 * d + j - 1) /\ 3 * d + j - 1 \in 0 .. 3 * Len(fps) - 1
<1>1. (3 * d + j - 1) \div 3 = d /\ (3 * d + j - 1) % 3 = j - 1
  OBVIOUS
<1>2. Len(fps) \in Nat
  OBVIOUS
<1>3. 3 * d + j - 1 \in 0 .. 3 * Len(fps) - 1
  BY <1>2
<1>4. ((3 * d + j - 1) % 3) + 1 = j
  BY <1>1
<1>5. BitAt(fps, 3 * d + j - 1) = BitsOf[fps[d + 1]][j]
  BY <1>1, <1>4, Zenon DEF BitAt
<1>6. QED
  BY <1>3, <1>5

LEMMA BitAtType ==
  ASSUME NEW fps \in Seq(Fp), NEW k \in Nat, k < 3 * Len(fps)
  PROVE  BitAt(fps, k) \in FilterBit
<1>1. k \div 3 \in Nat /\ k \div 3 < Len(fps) /\ k % 3 \in 0 .. 2
  <2>1. Len(fps) \in Nat
    OBVIOUS
  <2>2. QED
    BY <2>1
<1>2. fps[(k \div 3) + 1] \in Fp
  BY <1>1
<1>3. QED
  BY <1>1, <1>2, RevocationAssumption DEF BitAt

LEMMA RevInvStep == ASSUME RevInv, [RevNext]_revVars PROVE RevInv'
<1>0. /\ filter \subseteq FilterBit /\ shard \subseteq Fp
      /\ rv \in [Revoker -> RvRecord] /\ rd \in [Reader -> RdRecord]
      /\ \A r \in Revoker : rv[r].fps \in Seq(Fp) /\ Len(rv[r].fps) \in Nat
  BY RevocationAssumption DEF RevInv, RevTypeOK, RvRecord, RdRecord
<1>1. ASSUME NEW r \in Revoker, SetBit(r)
      PROVE  RevInv'
  <2>1. /\ rv' \in [Revoker -> RvRecord] /\ UNCHANGED <<shard, rd>>
        /\ rv'[r].bits = rv[r].bits + 1 /\ rv'[r].done = rv[r].done /\ rv'[r].fps = rv[r].fps
        /\ \A s \in Revoker \ {r} : rv'[s] = rv[s]
        /\ rv[r].bits \in Nat /\ rv[r].bits < 3 * Len(rv[r].fps)
        /\ filter' = filter \cup {BitAt(rv[r].fps, rv[r].bits)}
    <3>1. rv[r] \in RvRecord /\ rv[r].bits + 1 \in Nat
      BY <1>0 DEF RvRecord
    <3>2. rv' = [rv EXCEPT ![r] = [rv[r] EXCEPT !.bits = rv[r].bits + 1]]
      BY <1>0, <1>1 DEF SetBit
    <3>3. /\ rv' \in [Revoker -> RvRecord]
          /\ rv'[r].bits = rv[r].bits + 1 /\ rv'[r].done = rv[r].done /\ rv'[r].fps = rv[r].fps
          /\ \A s \in Revoker \ {r} : rv'[s] = rv[s]
      BY <1>0, <3>1, <3>2 DEF RvRecord
    <3>4. QED
      BY <1>1, <3>1, <3>3 DEF SetBit, RvRecord
  <2>2. BitAt(rv[r].fps, rv[r].bits) \in FilterBit
    BY <1>0, <2>1, BitAtType DEF RvRecord
  <2>3. RevTypeOK'
    <3>1. \A s \in Revoker : rv'[s].bits <= 3 * Len(rv'[s].fps) /\ rv'[s].done <= Len(rv'[s].fps)
      <4>1. rv'[r].bits <= 3 * Len(rv'[r].fps) /\ rv'[r].done <= Len(rv'[r].fps)
        BY <1>0, <2>1 DEF RevInv, RevTypeOK
      <4>2. QED
        BY <2>1, <4>1 DEF RevInv, RevTypeOK
    <3>2. QED
      BY <1>0, <2>1, <2>2, <3>1 DEF RevTypeOK, RvRecord, RdRecord
  <2>4. RevokerProgress'
    <3> SUFFICES ASSUME NEW s \in Revoker
                 PROVE  /\ \A k \in 0 .. rv'[s].bits - 1 : BitAt(rv'[s].fps, k) \in filter'
                        /\ rv'[s].done > 0 => rv'[s].bits = 3 * Len(rv'[s].fps)
                        /\ \A k \in 1 .. rv'[s].done : rv'[s].fps[k] \in shard'
      BY DEF RevokerProgress, BitAt
    <3>1. CASE s = r
      BY <1>0, <2>1, <3>1 DEF RevInv, RevokerProgress, RvRecord
    <3>2. CASE s # r
      BY <2>1, <3>2 DEF RevInv, RevokerProgress
    <3>3. QED
      BY <3>1, <3>2
  <2>5. ShardHasBits' /\ ReaderProgress'
    BY <2>1 DEF RevInv, ShardHasBits, ReaderProgress
  <2>6. QED
    BY <2>3, <2>4, <2>5 DEF RevInv
<1>2. ASSUME NEW r \in Revoker, InsertFp(r)
      PROVE  RevInv'
  <2> DEFINE fp == rv[r].fps[rv[r].done + 1]
  <2>1. /\ rv' \in [Revoker -> RvRecord] /\ UNCHANGED <<filter, rd>>
        /\ rv'[r].bits = rv[r].bits /\ rv'[r].done = rv[r].done + 1 /\ rv'[r].fps = rv[r].fps
        /\ \A s \in Revoker \ {r} : rv'[s] = rv[s]
        /\ rv[r].bits = 3 * Len(rv[r].fps) /\ rv[r].done < Len(rv[r].fps)
        /\ shard' = shard \cup {fp}
        /\ rv[r].done \in Nat
    BY <1>0, <1>2 DEF InsertFp, RvRecord
  <2>2. fp \in Fp
    BY <1>0, <2>1
  <2>3. \A j \in 1 .. 3 : BitsOf[fp][j] \in filter
    BY <1>0, <2>1, BitsOfSlice DEF RevInv, RevokerProgress
  <2> HIDE DEF fp
  <2>4. RevTypeOK'
    <3>1. \A s \in Revoker : rv'[s].bits <= 3 * Len(rv'[s].fps) /\ rv'[s].done <= Len(rv'[s].fps)
      <4>1. rv'[r].bits <= 3 * Len(rv'[r].fps) /\ rv'[r].done <= Len(rv'[r].fps)
        BY <1>0, <2>1
      <4>2. QED
        BY <2>1, <4>1 DEF RevInv, RevTypeOK
    <3>2. QED
      BY <1>0, <2>1, <2>2, <3>1 DEF RevTypeOK, RvRecord, RdRecord
  <2>5. RevokerProgress'
    <3> SUFFICES ASSUME NEW s \in Revoker
                 PROVE  /\ \A k \in 0 .. rv'[s].bits - 1 : BitAt(rv'[s].fps, k) \in filter'
                        /\ rv'[s].done > 0 => rv'[s].bits = 3 * Len(rv'[s].fps)
                        /\ \A k \in 1 .. rv'[s].done : rv'[s].fps[k] \in shard'
      BY DEF RevokerProgress, BitAt
    <3>1. CASE s = r
      <4>1. \A k \in 0 .. rv'[r].bits - 1 : BitAt(rv'[r].fps, k) \in filter'
        BY <2>1 DEF RevInv, RevokerProgress, BitAt
      <4>2. \A k \in 1 .. rv[r].done + 1 : k \in 1 .. rv[r].done \/ k = rv[r].done + 1
        BY <2>1
      <4>3. \A k \in 1 .. rv'[r].done : rv'[r].fps[k] \in shard'
        BY <2>1, <4>2 DEF RevInv, RevokerProgress, fp
      <4>4. QED
        BY <2>1, <3>1, <4>1, <4>3
    <3>2. CASE s # r
      BY <2>1, <3>2 DEF RevInv, RevokerProgress
    <3>3. QED
      BY <3>1, <3>2
  <2>6. ShardHasBits' /\ ReaderProgress'
    BY <2>1, <2>3 DEF RevInv, ShardHasBits, ReaderProgress
  <2>7. QED
    BY <2>4, <2>5, <2>6 DEF RevInv
<1>3. ASSUME NEW q \in Reader, StartRead(q) \/ LoadBit(q) \/ ReadShard(q)
      PROVE  RevInv'
  <2>1. UNCHANGED <<filter, shard, rv>> /\ \A p \in Reader \ {q} : rd'[p] = rd[p]
    BY <1>0, <1>3 DEF StartRead, LoadBit, ReadShard
  <2>2. /\ rd' \in [Reader -> RdRecord] /\ rd'[q].before \subseteq shard
        /\ rd'[q].st \in {"idle", "bits"} => rd'[q].k <= 3
        /\ rd'[q].st = "no" => rd'[q].fp \notin rd'[q].before
        /\ rd'[q].st = "yes" => rd'[q].fp \in shard
    <3>0. rd[q] \in RdRecord /\ rd[q].before \subseteq shard
          /\ (rd[q].st \in {"idle", "bits"} => rd[q].k <= 3)
      BY <1>0 DEF RevInv, ReaderProgress
    <3>1. CASE StartRead(q)
      BY <1>0, <3>0, <3>1 DEF StartRead, RdRecord, Visible
    <3>2. CASE LoadBit(q)
      <4>1. rd[q].k \in 1 .. 3
        BY <3>0, <3>2 DEF LoadBit, RdRecord
      <4>2. BitsOf[rd[q].fp][rd[q].k] \notin filter => rd[q].fp \notin rd[q].before
        BY <3>0, <4>1 DEF RevInv, ShardHasBits
      <4>3. QED
        BY <1>0, <3>0, <3>2, <4>1, <4>2 DEF LoadBit, RdRecord
    <3>3. CASE ReadShard(q)
      BY <1>0, <3>0, <3>3 DEF ReadShard, RdRecord
    <3>4. QED
      BY <1>3, <3>1, <3>2, <3>3
  <2>3. RevTypeOK'
    BY <2>1, <2>2 DEF RevInv, RevTypeOK, RdRecord
  <2>4. RevokerProgress' /\ ShardHasBits'
    BY <2>1 DEF RevInv, RevokerProgress, ShardHasBits, BitAt
  <2>5. ReaderProgress'
    BY <2>1, <2>2 DEF RevInv, ReaderProgress
  <2>6. QED
    BY <2>3, <2>4, <2>5 DEF RevInv
<1>4. CASE UNCHANGED revVars
  BY <1>4 DEF revVars, RevInv, RevTypeOK, RevokerProgress, ShardHasBits, ReaderProgress, BitAt
<1>5. QED
  BY <1>1, <1>2, <1>3, <1>4 DEF RevNext

LEMMA RevInvInit == RevInit => RevInv
<1> SUFFICES ASSUME RevInit PROVE RevInv
  OBVIOUS
<1>1. \A r \in Revoker : rv[r].fps \in Batches /\ rv[r].bits = 0 /\ rv[r].done = 0 /\ Len(rv[r].fps) \in Nat
  BY RevocationAssumption DEF RevInit
<1>2. RevTypeOK
  BY <1>1 DEF RevInit, RevTypeOK
<1>3. RevokerProgress /\ ShardHasBits /\ ReaderProgress
  BY <1>1 DEF RevInit, RevokerProgress, ShardHasBits, ReaderProgress
<1>4. QED
  BY <1>2, <1>3 DEF RevInv

(* revoke_batch and is_revoked of MemoryRevocationStore are atomic for any  *)
(* fingerprints, slices, filter bits and threads.                           *)
THEOREM RevocationIsAtomic == RevSpec => []RevocationAtomic
<1>1. RevInit => RevInv
  BY RevInvInit
<1>2. RevInv /\ [RevNext]_revVars => RevInv'
  BY RevInvStep
<1>3. RevInv => RevocationAtomic
  <2> SUFFICES ASSUME RevInv PROVE RevocationAtomic
    OBVIOUS
  <2>1. shard \subseteq Visible
    BY DEF RevInv, ShardHasBits, Visible
  <2>2. QED
    BY <2>1 DEF RevInv, RevocationAtomic, RevokeTakesEffect, ReadIsAtomic, RevokerProgress, ReaderProgress
<1>4. QED
  BY <1>1, <1>2, <1>3, PTL DEF RevSpec

-----------------------------------------------------------------------------
(* The database revocation stores.                                          *)

(* In the table g, the row or key of fp outlives a request made at s.       *)
Lasting(g, fp, s) ==
  /\ fp \in DOMAIN g
  /\ g[fp] >= (IF backend.ttl = Forever THEN Forever ELSE s + backend.ttl)

JobRecord == [list : Lists \cup {<< >>}, written : SUBSET Nat, since : Nat, st : {"free", "open"}]

DbTypes ==
  /\ backend \in Stores /\ t \in 0 .. MaxNow
  /\ gone \in [DOMAIN gone -> Nat] /\ acked \in [DOMAIN acked -> Nat]
  /\ job \in [Client -> JobRecord]

(* What a request has written, and what was acknowledged, outlives the      *)
(* request it was written for.                                              *)
DbInv ==
  /\ DbTypes
  /\ \A c \in Client :
       /\ job[c].since <= t
       /\ \A i \in job[c].written : Lasting(gone, job[c].list[i], job[c].since)
  /\ \A fp \in DOMAIN acked : acked[fp] <= t /\ Lasting(gone, fp, acked[fp])

LEMMA DbConstants ==
  /\ backend \in Stores => backend.ttl \in Nat
  /\ Forever \in Nat /\ MaxNow \in Nat /\ Forever > MaxNow
  /\ \A list \in Lists \cup {<< >>} : DOMAIN list \subseteq Nat
BY DbAssumption

(* A statement prolongs what is there.                                      *)
LEMMA WrittenLasts ==
  ASSUME DbTypes, NEW fps, gone' = Written(fps)
  PROVE  /\ gone' \in [DOMAIN gone' -> Nat]
         /\ \A fp, s : s \in Nat /\ s <= t /\ (fp \in fps \/ Lasting(gone, fp, s)) => Lasting(gone', fp, s)
<1>0. /\ t \in Nat /\ backend.ttl \in Nat /\ Forever \in Nat
      /\ \A fp \in DOMAIN gone : gone[fp] \in Nat
  BY DbConstants DEF DbTypes
<1> DEFINE new == IF backend.ttl = Forever THEN Forever ELSE t + backend.ttl
<1>1. gone' = [fp \in DOMAIN gone \cup fps |-> IF fp \in fps THEN new ELSE gone[fp]] /\ new \in Nat
  BY <1>0 DEF Written
<1>2. \A s \in Nat : s <= t => new >= (IF backend.ttl = Forever THEN Forever ELSE s + backend.ttl)
  BY <1>0
<1> HIDE DEF new
<1>3. gone' \in [DOMAIN gone' -> Nat]
  BY <1>0, <1>1
<1>4. \A fp, s : s \in Nat /\ s <= t /\ (fp \in fps \/ Lasting(gone, fp, s)) => Lasting(gone', fp, s)
  BY <1>1, <1>2 DEF Lasting
<1>5. QED
  BY <1>3, <1>4

LEMMA FreeJob == Free \in JobRecord /\ Free.since = 0 /\ Free.written = {}
BY DEF Free, JobRecord

LEMMA DbInvStep == ASSUME DbInv, [DbNext]_dbVars PROVE DbInv'
<1>0. /\ DbTypes /\ t \in Nat /\ MaxNow \in Nat /\ t \in 0 .. MaxNow
      /\ \A c \in Client : job[c] \in JobRecord /\ job[c].since \in Nat /\ job[c].since <= t
      /\ \A fp \in DOMAIN acked : acked[fp] \in Nat
  BY DbConstants DEF DbInv, DbTypes, JobRecord
(* One request changes, and the rows only live longer.                      *)
<1>1. ASSUME NEW c \in Client, NEW b \in JobRecord, job' = [job EXCEPT ![c] = b], b.since <= t,
             UNCHANGED <<backend, t, acked>>, gone' \in [DOMAIN gone' -> Nat],
             \A fp, s : s \in Nat /\ s <= t /\ Lasting(gone, fp, s) => Lasting(gone', fp, s),
             \A i \in b.written : Lasting(gone', b.list[i], b.since)
      PROVE  DbInv'
  <2>1. job'[c] = b /\ \A d \in Client \ {c} : job'[d] = job[d]
    BY <1>0, <1>1 DEF DbTypes
  <2>2. DbTypes'
    BY <1>0, <1>1, <2>1 DEF DbTypes
  <2>3. \A d \in Client : \A i \in job'[d].written : Lasting(gone', job'[d].list[i], job'[d].since)
    BY <1>0, <1>1, <2>1 DEF DbInv
  <2>4. \A fp \in DOMAIN acked : acked[fp] <= t /\ Lasting(gone', fp, acked[fp])
    BY <1>0, <1>1 DEF DbInv
  <2>5. \A d \in Client : job'[d].since <= t
    BY <1>0, <1>1, <2>1
  <2>6. QED
    BY <1>1, <2>2, <2>3, <2>4, <2>5 DEF DbInv, Lasting
<1>2. ASSUME NEW c \in Client, NEW list \in Lists, OpenBatch(c, list)
      PROVE  DbInv'
  <2> DEFINE b == [list |-> list, written |-> {}, since |-> t, st |-> "open"]
  <2>1. b \in JobRecord /\ b.since = t /\ b.written = {}
    BY <1>0 DEF JobRecord
  <2>2. job' = [job EXCEPT ![c] = b] /\ UNCHANGED <<backend, t, gone, acked>>
    BY <1>2 DEF OpenBatch
  <2> HIDE DEF b
  <2>3. b.since <= t /\ \A i \in b.written : Lasting(gone', b.list[i], b.since)
    BY <1>0, <2>1
  <2>4. gone' = gone /\ gone' \in [DOMAIN gone' -> Nat]
    BY <1>0, <2>2 DEF DbTypes
  <2>5. \A fp, s : s \in Nat /\ s <= t /\ Lasting(gone, fp, s) => Lasting(gone', fp, s)
    BY <2>4
  <2>6. QED
    BY <1>1, <2>1, <2>2, <2>3, <2>4, <2>5
<1>3. ASSUME NEW c \in Client, WriteChunk(c)
      PROVE  DbInv'
  <2> DEFINE b == [job[c] EXCEPT !.written = job[c].written \cup Chunk(job[c])]
  <2>1. /\ gone' \in [DOMAIN gone' -> Nat]
        /\ \A fp, s : s \in Nat /\ s <= t /\ (fp \in Rows(job[c]) \/ Lasting(gone, fp, s)) => Lasting(gone', fp, s)
    BY <1>0, <1>3, WrittenLasts DEF WriteChunk
  <2>2. Chunk(job[c]) \subseteq DOMAIN job[c].list /\ DOMAIN job[c].list \subseteq Nat
    BY <1>0, DbConstants DEF Chunk, Parsed, JobRecord
  <2>3. /\ b \in JobRecord /\ b.since = job[c].since /\ b.list = job[c].list
        /\ b.written = job[c].written \cup Chunk(job[c])
    BY <1>0, <2>2 DEF JobRecord
  <2>4. UNCHANGED <<backend, t, acked>> /\ (job' = [job EXCEPT ![c] = b] \/ job' = [job EXCEPT ![c] = Free])
    BY <1>0, <1>3 DEF WriteChunk, DbTypes
  <2> HIDE DEF b
  <2>5. \A i \in b.written : Lasting(gone', b.list[i], b.since)
    BY <1>0, <2>1, <2>3 DEF Rows, DbInv
  <2>6. CASE job' = [job EXCEPT ![c] = b]
    BY <1>0, <1>1, <2>1, <2>3, <2>4, <2>5, <2>6
  <2>7. CASE job' = [job EXCEPT ![c] = Free]
    <3>1. Free.since <= t /\ \A i \in Free.written : Lasting(gone', Free.list[i], Free.since)
      BY <1>0, FreeJob
    <3>2. \A fp, s : s \in Nat /\ s <= t /\ Lasting(gone, fp, s) => Lasting(gone', fp, s)
      BY <2>1
    <3>3. QED
      BY <1>1, <2>1, <2>4, <2>7, <3>1, <3>2, FreeJob
  <2>8. QED
    BY <2>4, <2>6, <2>7
<1>4. ASSUME NEW c \in Client, WriteFails(c)
      PROVE  DbInv'
  <2>1. job' = [job EXCEPT ![c] = Free] /\ UNCHANGED <<backend, t, gone, acked>>
    BY <1>4 DEF WriteFails
  <2>2. Free.since <= t /\ \A i \in Free.written : Lasting(gone', Free.list[i], Free.since)
    BY <1>0, FreeJob
  <2>3. gone' = gone /\ gone' \in [DOMAIN gone' -> Nat]
    BY <1>0, <2>1 DEF DbTypes
  <2>4. \A fp, s : s \in Nat /\ s <= t /\ Lasting(gone, fp, s) => Lasting(gone', fp, s)
    BY <2>3
  <2>5. QED
    BY <1>1, <2>1, <2>2, <2>3, <2>4, FreeJob
<1>5. ASSUME NEW c \in Client, Acknowledge(c)
      PROVE  DbInv'
  <2>1. /\ job' = [job EXCEPT ![c] = Free] /\ UNCHANGED <<backend, t, gone>>
        /\ job[c].written = Parsed(job[c].list)
        /\ DOMAIN acked' = DOMAIN acked \cup Asked(job[c])
        /\ \A fp \in DOMAIN acked' :
             \/ fp \in DOMAIN acked /\ acked'[fp] = acked[fp]
             \/ fp \in Asked(job[c]) /\ acked'[fp] = job[c].since
    BY <1>5 DEF Acknowledge
  <2>2. acked' \in [DOMAIN acked' -> Nat]
    <3>1. acked' = [fp \in DOMAIN acked' |-> acked'[fp]]
      BY <1>5 DEF Acknowledge
    <3>2. \A fp \in DOMAIN acked' : acked'[fp] \in Nat
      BY <1>0, <2>1
    <3>3. QED
      BY <3>1, <3>2
  <2>3. \A fp \in Asked(job[c]) : Lasting(gone, fp, job[c].since)
    BY <2>1 DEF Asked, DbInv
  <2>4. \A fp \in DOMAIN acked' : acked'[fp] <= t /\ Lasting(gone, fp, acked'[fp])
    BY <1>0, <2>1, <2>3 DEF DbInv
  <2>5. job'[c] = Free /\ \A d \in Client \ {c} : job'[d] = job[d]
    BY <1>0, <2>1 DEF DbTypes
  <2>6. DbTypes'
    BY <1>0, <2>1, <2>2, FreeJob DEF DbTypes
  <2>7. \A d \in Client : job'[d].since <= t /\ \A i \in job'[d].written : Lasting(gone, job'[d].list[i], job'[d].since)
    BY <1>0, <2>5, FreeJob DEF DbInv
  <2>8. QED
    BY <2>1, <2>4, <2>6, <2>7 DEF DbInv, Lasting
<1>6. CASE DbTick
  <2>1. t' = t + 1 /\ t' \in 0 .. MaxNow /\ UNCHANGED <<backend, gone, job, acked>>
    BY <1>0, <1>6 DEF DbTick
  <2>2. DbTypes'
    BY <1>0, <2>1 DEF DbTypes
  <2>3. /\ \A c \in Client : job[c].since <= t'
        /\ \A fp \in DOMAIN acked : acked[fp] <= t'
    BY <1>0, <2>1 DEF DbInv
  <2>4. QED
    BY <2>1, <2>2, <2>3 DEF DbInv, Lasting
<1>7. CASE UNCHANGED dbVars
  BY <1>7 DEF dbVars, DbInv, DbTypes, Lasting
<1>8. QED
  BY <1>2, <1>3, <1>4, <1>5, <1>6, <1>7 DEF DbNext

LEMMA DbInvInit == DbInit => DbInv
<1> SUFFICES ASSUME DbInit PROVE DbInv
  OBVIOUS
<1>1. DbTypes
  BY DbConstants, FreeJob DEF DbInit, DbTypes
<1>2. QED
  BY <1>1, FreeJob DEF DbInit, DbInv

(* The routes over both database revocation stores never acknowledge a      *)
(* revocation that is not in force, for any lists, chunk sizes, times to    *)
(* live and concurrent requests.                                            *)
THEOREM AckedStaysRevoked == DbSpec => []AckedIsRevoked
<1>1. DbInit => DbInv
  BY DbInvInit
<1>2. DbInv /\ [DbNext]_dbVars => DbInv'
  BY DbInvStep
<1>3. DbInv => AckedIsRevoked
  <2> SUFFICES ASSUME DbInv, NEW fp \in DOMAIN acked, backend.ttl = Forever \/ t < acked[fp] + backend.ttl
               PROVE  IsRevoked(fp)
    BY DEF AckedIsRevoked
  <2>1. /\ fp \in DOMAIN gone /\ gone[fp] \in Nat /\ acked[fp] \in Nat /\ t \in 0 .. MaxNow
        /\ gone[fp] >= (IF backend.ttl = Forever THEN Forever ELSE acked[fp] + backend.ttl)
    BY DEF DbInv, DbTypes, Lasting
  <2>2. QED
    BY <2>1, DbConstants DEF IsRevoked, DbInv, DbTypes
<1>4. QED
  BY <1>1, <1>2, <1>3, PTL DEF DbSpec

-----------------------------------------------------------------------------
(* The default try_consume_batch of the nonce store traits.                 *)

Foreign(c, i) ==
  \A d \in batch[c].wonBefore : \A j \in DOMAIN batch[d].slice :
    NonceOf(batch[c], i) # NonceOf(batch[d], j)

DnbTypes ==
  /\ batch \in [BatchCaller -> [slice : Slices, st : Calling, k : Nat, wonBefore : SUBSET BatchCaller]]
  /\ \A c \in BatchCaller : batch[c].k >= 1 /\ (batch[c].st = "new" => batch[c].k = 1)

(* What a call has marked stays marked, and a call that passed its checks   *)
(* shares no nonce with one that had won when it began.                     *)
DnbInv ==
  /\ DnbTypes
  /\ \A c \in BatchCaller :
       /\ batch[c].st = "mark" =>
            \A i \in DOMAIN batch[c].slice : i < batch[c].k => NonceOf(batch[c], i) \in used
       /\ batch[c].st = "won" => \A i \in DOMAIN batch[c].slice : NonceOf(batch[c], i) \in used
       /\ batch[c].wonBefore \subseteq Winners
       /\ batch[c].st = "check" => \A i \in DOMAIN batch[c].slice : i < batch[c].k => Foreign(c, i)
       /\ batch[c].st \in {"mark", "won"} => \A i \in DOMAIN batch[c].slice : Foreign(c, i)

DnbRecord == [slice : Slices, st : Calling, k : Nat, wonBefore : SUBSET BatchCaller]

LEMMA DnbInvStep == ASSUME DnbInv, [DnbNext]_dnbVars PROVE DnbInv'
<1>0. /\ batch \in [BatchCaller -> DnbRecord]
      /\ \A c \in BatchCaller :
           /\ batch[c] \in DnbRecord /\ batch[c].k \in Nat /\ batch[c].k >= 1
           /\ Len(batch[c].slice) \in Nat /\ DOMAIN batch[c].slice = 1 .. Len(batch[c].slice)
  BY SlicesAssumption DEF DnbInv, DnbTypes, DnbRecord
(* A step of one call that keeps its slice, does not undo a win, and leaves *)
(* the set of wins before it alone unless it was new.                       *)
<1>1. ASSUME NEW c \in BatchCaller, NEW b \in DnbRecord, batch' = [batch EXCEPT ![c] = b],
             used \subseteq used', b.k >= 1, b.slice = batch[c].slice, batch[c].st # "won",
             b.wonBefore \subseteq Winners, b.st # "new",
             b.st = "mark" => \A i \in DOMAIN b.slice : i < b.k => NonceOf(b, i) \in used',
             b.st = "won" => \A i \in DOMAIN b.slice : NonceOf(b, i) \in used',
             b.st = "check" => \A i \in DOMAIN b.slice : i < b.k =>
                \A d \in b.wonBefore : \A j \in DOMAIN batch[d].slice : NonceOf(b, i) # NonceOf(batch[d], j),
             b.st \in {"mark", "won"} => \A i \in DOMAIN b.slice :
                \A d \in b.wonBefore : \A j \in DOMAIN batch[d].slice : NonceOf(b, i) # NonceOf(batch[d], j)
      PROVE  DnbInv'
  <2>1. batch' \in [BatchCaller -> DnbRecord] /\ batch'[c] = b /\ \A d \in BatchCaller \ {c} : batch'[d] = batch[d]
    BY <1>0, <1>1
  <2>2. DnbTypes'
    BY <1>0, <1>1, <2>1 DEF DnbInv, DnbTypes, DnbRecord
  <2>3. Winners \subseteq Winners'
    BY <1>1, <2>1 DEF Winners
  <2>4. \A d \in BatchCaller : batch'[d].slice = batch[d].slice
    BY <1>1, <2>1
  <2>5. \A d \in BatchCaller : batch[d].wonBefore \subseteq BatchCaller
    BY <1>0 DEF DnbRecord
  <2>6. \A d \in BatchCaller \ {c} : \A i : Foreign(d, i) => Foreign(d, i)'
    BY <2>1, <2>4, <2>5 DEF Foreign, NonceOf
  <2>7. \A i : (\A d \in b.wonBefore : \A j \in DOMAIN batch[d].slice : NonceOf(b, i) # NonceOf(batch[d], j))
               => Foreign(c, i)'
    BY <1>1, <2>1, <2>4 DEF Foreign, NonceOf, DnbRecord
  <2>8. ASSUME NEW d \in BatchCaller
        PROVE  /\ batch'[d].st = "mark" =>
                    \A i \in DOMAIN batch'[d].slice : i < batch'[d].k => NonceOf(batch'[d], i) \in used'
               /\ batch'[d].st = "won" => \A i \in DOMAIN batch'[d].slice : NonceOf(batch'[d], i) \in used'
               /\ batch'[d].wonBefore \subseteq Winners'
               /\ batch'[d].st = "check" =>
                    \A i \in DOMAIN batch'[d].slice : i < batch'[d].k => Foreign(d, i)'
               /\ batch'[d].st \in {"mark", "won"} => \A i \in DOMAIN batch'[d].slice : Foreign(d, i)'
    <3>1. CASE d = c
      BY <1>1, <2>1, <2>3, <2>7, <3>1
    <3>2. CASE d # c
      BY <1>1, <2>1, <2>3, <2>6, <3>2 DEF DnbInv
    <3>3. QED
      BY <3>1, <3>2
  <2>9. QED
    BY <2>2, <2>8 DEF DnbInv, NonceOf
<1>2. ASSUME NEW c \in BatchCaller, BeginBatch(c)
      PROVE  DnbInv'
  <2> DEFINE b == [batch[c] EXCEPT !.st = "check", !.wonBefore = Winners]
  <2>1. Winners \subseteq BatchCaller
    BY DEF Winners
  <2>2. b \in DnbRecord /\ b.st = "check" /\ b.wonBefore = Winners /\ b.slice = batch[c].slice /\ b.k = batch[c].k
    <3> DEFINE x == batch[c]
               W == Winners
    <3>1. x \in DnbRecord /\ W \in SUBSET BatchCaller /\ "check" \in Calling
      BY <1>0, <2>1 DEF Calling
    <3> HIDE DEF x, W
    <3>2. LET y == [x EXCEPT !.st = "check", !.wonBefore = W] IN
          y \in DnbRecord /\ y.st = "check" /\ y.wonBefore = W /\ y.slice = x.slice /\ y.k = x.k
      BY <3>1 DEF DnbRecord
    <3>3. QED
      BY <3>2 DEF x, W
  <2>3. batch' = [batch EXCEPT ![c] = b] /\ UNCHANGED used /\ batch[c].st = "new"
    BY <1>0, <1>2 DEF BeginBatch
  <2>4. batch[c].k = 1 /\ \A i \in DOMAIN batch[c].slice : ~ (i < 1)
    BY <1>0, <2>3 DEF DnbInv, DnbTypes
  <2> HIDE DEF b
  <2>5. QED
    BY <1>0, <1>1, <2>2, <2>3, <2>4
<1>3. ASSUME NEW c \in BatchCaller, CheckOne(c)
      PROVE  DnbInv'
  <2>0. batch[c].st = "check" /\ UNCHANGED used
    BY <1>3 DEF CheckOne
  <2>1. batch[c].wonBefore \subseteq Winners /\ \A i \in DOMAIN batch[c].slice : i < batch[c].k => Foreign(c, i)
    BY <2>0 DEF DnbInv
  <2>2. CASE batch[c].k > Len(batch[c].slice)
    <3> DEFINE b == [batch[c] EXCEPT !.st = "mark", !.k = 1]
    <3>1. b \in DnbRecord /\ b.st = "mark" /\ b.wonBefore = batch[c].wonBefore /\ b.slice = batch[c].slice /\ b.k = 1
      <4>1. batch[c] \in DnbRecord /\ "mark" \in Calling
        BY <1>0 DEF Calling
      <4>2. QED
        BY <4>1 DEF DnbRecord
    <3>2. batch' = [batch EXCEPT ![c] = b]
      BY <1>0, <1>3, <2>2 DEF CheckOne
    <3>3. \A i \in DOMAIN batch[c].slice : i < batch[c].k /\ ~ (i < 1)
      BY <1>0, <2>2
    <3> HIDE DEF b
    <3>4. \A i \in DOMAIN b.slice :
             \A d \in b.wonBefore : \A j \in DOMAIN batch[d].slice : NonceOf(b, i) # NonceOf(batch[d], j)
      BY <2>1, <3>1, <3>3 DEF Foreign, NonceOf
    <3>5. QED
      BY <1>1, <2>0, <2>1, <3>1, <3>2, <3>3, <3>4, 1 >= 1
  <2>3. CASE ~ (batch[c].k > Len(batch[c].slice)) /\ NonceOf(batch[c], batch[c].k) \in used
    <3> DEFINE b == [batch[c] EXCEPT !.st = "lost"]
    <3>1. b \in DnbRecord /\ b.st = "lost" /\ b.wonBefore = batch[c].wonBefore /\ b.slice = batch[c].slice /\ b.k = batch[c].k
      BY <1>0 DEF DnbRecord, Calling
    <3>2. batch' = [batch EXCEPT ![c] = b]
      BY <1>0, <1>3, <2>3 DEF CheckOne
    <3> HIDE DEF b
    <3>3. QED
      BY <1>0, <1>1, <2>0, <2>1, <3>1, <3>2
  <2>4. CASE ~ (batch[c].k > Len(batch[c].slice)) /\ NonceOf(batch[c], batch[c].k) \notin used
    <3> DEFINE b == [batch[c] EXCEPT !.k = batch[c].k + 1]
    <3>1. /\ b \in DnbRecord /\ b.st = "check" /\ b.wonBefore = batch[c].wonBefore
          /\ b.slice = batch[c].slice /\ b.k = batch[c].k + 1 /\ b.k >= 1
      BY <1>0, <2>0 DEF DnbRecord
    <3>2. batch' = [batch EXCEPT ![c] = b]
      BY <1>0, <1>3, <2>4 DEF CheckOne
    <3>3. Foreign(c, batch[c].k)
      BY <2>1, <2>4 DEF Foreign, DnbInv, Winners
    <3>4. \A i \in DOMAIN batch[c].slice : i < batch[c].k + 1 => i < batch[c].k \/ i = batch[c].k
      BY <1>0
    <3> HIDE DEF b
    <3>5. \A i \in DOMAIN b.slice : i < b.k =>
             \A d \in b.wonBefore : \A j \in DOMAIN batch[d].slice : NonceOf(b, i) # NonceOf(batch[d], j)
      BY <2>1, <3>1, <3>3, <3>4 DEF Foreign, NonceOf
    <3>6. QED
      BY <1>1, <2>0, <2>1, <3>1, <3>2, <3>5
  <2>5. QED
    BY <2>2, <2>3, <2>4
<1>4. ASSUME NEW c \in BatchCaller, MarkOne(c)
      PROVE  DnbInv'
  <2>0. batch[c].st = "mark"
    BY <1>4 DEF MarkOne
  <2>1. /\ batch[c].wonBefore \subseteq Winners
        /\ \A i \in DOMAIN batch[c].slice : Foreign(c, i)
        /\ \A i \in DOMAIN batch[c].slice : i < batch[c].k => NonceOf(batch[c], i) \in used
    BY <2>0 DEF DnbInv
  <2>2. CASE batch[c].k > Len(batch[c].slice)
    <3> DEFINE b == [batch[c] EXCEPT !.st = "won"]
    <3>1. b \in DnbRecord /\ b.st = "won" /\ b.wonBefore = batch[c].wonBefore /\ b.slice = batch[c].slice /\ b.k = batch[c].k
      BY <1>0 DEF DnbRecord, Calling
    <3>2. batch' = [batch EXCEPT ![c] = b] /\ UNCHANGED used
      BY <1>0, <1>4, <2>2 DEF MarkOne
    <3>3. \A i \in DOMAIN batch[c].slice : i < batch[c].k
      BY <1>0, <2>2
    <3> HIDE DEF b
    <3>4. \A i \in DOMAIN b.slice :
             /\ NonceOf(b, i) \in used'
             /\ \A d \in b.wonBefore : \A j \in DOMAIN batch[d].slice : NonceOf(b, i) # NonceOf(batch[d], j)
      BY <2>1, <3>1, <3>2, <3>3 DEF Foreign, NonceOf
    <3>5. QED
      BY <1>0, <1>1, <2>0, <2>1, <3>1, <3>2, <3>4
  <2>3. CASE ~ (batch[c].k > Len(batch[c].slice))
    <3> DEFINE b == [batch[c] EXCEPT !.k = batch[c].k + 1]
    <3>1. /\ b \in DnbRecord /\ b.st = "mark" /\ b.wonBefore = batch[c].wonBefore
          /\ b.slice = batch[c].slice /\ b.k = batch[c].k + 1 /\ b.k >= 1
      BY <1>0, <2>0 DEF DnbRecord
    <3>2. batch' = [batch EXCEPT ![c] = b] /\ used' = used \cup {NonceOf(batch[c], batch[c].k)}
      BY <1>0, <1>4, <2>3 DEF MarkOne
    <3>3. \A i \in DOMAIN batch[c].slice : i < batch[c].k + 1 => i < batch[c].k \/ i = batch[c].k
      BY <1>0
    <3> HIDE DEF b
    <3>4. \A i \in DOMAIN b.slice : i < b.k => NonceOf(b, i) \in used'
      BY <2>1, <3>1, <3>2, <3>3 DEF NonceOf
    <3>5. \A i \in DOMAIN b.slice :
             \A d \in b.wonBefore : \A j \in DOMAIN batch[d].slice : NonceOf(b, i) # NonceOf(batch[d], j)
      BY <2>1, <3>1 DEF Foreign, NonceOf
    <3>6. QED
      BY <1>1, <2>0, <2>1, <3>1, <3>2, <3>4, <3>5
  <2>4. QED
    BY <2>2, <2>3
<1>5. ASSUME NEW c \in BatchCaller, BatchFails(c)
      PROVE  DnbInv'
  <2> DEFINE b == [batch[c] EXCEPT !.st = "failed"]
  <2>1. b \in DnbRecord /\ b.st = "failed" /\ b.wonBefore = batch[c].wonBefore /\ b.slice = batch[c].slice /\ b.k = batch[c].k
    BY <1>0 DEF DnbRecord, Calling
  <2>2. batch' = [batch EXCEPT ![c] = b] /\ UNCHANGED used /\ batch[c].st \in {"check", "mark"}
    BY <1>0, <1>5 DEF BatchFails
  <2>3. batch[c].wonBefore \subseteq Winners
    BY DEF DnbInv
  <2> HIDE DEF b
  <2>4. QED
    BY <1>0, <1>1, <2>1, <2>2, <2>3
<1>6. CASE UNCHANGED dnbVars
  BY <1>6 DEF dnbVars, DnbInv, DnbTypes, Foreign, Winners, NonceOf
<1>7. QED
  BY <1>2, <1>3, <1>4, <1>5, <1>6 DEF DnbNext

LEMMA DnbInvInit == DnbInit => DnbInv
<1> SUFFICES ASSUME DnbInit PROVE DnbInv
  OBVIOUS
<1>1. \A c \in BatchCaller : batch[c].st = "new" /\ batch[c].k = 1 /\ batch[c].wonBefore = {}
  BY DEF DnbInit
<1>2. DnbTypes
  BY <1>1 DEF DnbInit, DnbTypes, Calling
<1>3. QED
  BY <1>1, <1>2 DEF DnbInv

(* Of two calls of the default try_consume_batch that share a nonce, one    *)
(* that began after the other was answered does not succeed, for any        *)
(* callers and slices: looking every nonce up before marking any is enough  *)
(* for calls that follow one another.                                       *)
THEOREM RepeatsLoseAlways == DnbSpec => []RepeatsLose
<1>1. DnbInit => DnbInv
  BY DnbInvInit
<1>2. DnbInv /\ [DnbNext]_dnbVars => DnbInv'
  BY DnbInvStep
<1>3. DnbInv => RepeatsLose
  BY DEF DnbInv, RepeatsLose, Winners, Shared, Foreign
<1>4. QED
  BY <1>1, <1>2, <1>3, PTL DEF DnbSpec

-----------------------------------------------------------------------------
(* The rate limiter.                                                        *)

Adm(A, p, w) == {a \in A : a.key = p /\ a.window = w}

RateTypes ==
  /\ uptime \in Nat
  /\ buckets \in [DOMAIN buckets -> [start : Nat, count : Nat]]
  /\ pending \in [Thread -> [key : Principal \cup {"nobody"}, at : Nat]]
  /\ IsFiniteSet(admitted)

(* What the calls that were late have let through beyond the limit.         *)
Forgiven == MaxPerWindow * late

Counted(p, w) == IF p \in DOMAIN buckets /\ buckets[p].start = w THEN buckets[p].count ELSE 0

(* While a call of the window would not be late, all that was admitted in   *)
(* it is in the principal's bucket or forgiven.                             *)
LimitKept ==
  \A p : \A w \in Nat :
    /\ Cardinality(Adm(admitted, p, w)) <= Forgiven + MaxPerWindow
    /\ ~ Late(p, w) => Cardinality(Adm(admitted, p, w)) <= Forgiven + Counted(p, w)

RateInv == RateTypes /\ late \in Nat /\ LimitKept

LEMMA WidthType == Width \in Nat \ {0}
BY RateAssumption DEF Width

LEMMA WindowOfInstant ==
  ASSUME NEW x \in Nat
  PROVE  WindowStart(x) \in Nat /\ WindowStart(x) <= x /\ x < WindowStart(x) + Width
<1>1. ASSUME NEW w \in Nat \ {0}
      PROVE  (x \div w) * w \in Nat /\ (x \div w) * w <= x /\ x < (x \div w) * w + w
  OBVIOUS
<1>2. QED
  BY <1>1, WidthType DEF WindowStart

LEMMA AdmFinite ==
  ASSUME NEW A, IsFiniteSet(A), NEW p, NEW w
  PROVE  IsFiniteSet(Adm(A, p, w)) /\ Cardinality(Adm(A, p, w)) \in Nat
<1>1. Adm(A, p, w) \in SUBSET A
  BY DEF Adm
<1>2. IsFiniteSet(Adm(A, p, w))
  BY <1>1, FS_Subset
<1>3. QED
  BY <1>2, FS_CardinalityType

(* The critical section of check_and_record, with its outcome spelled out.  *)
LEMMA RecordKeepsInv ==
  ASSUME RateInv, NEW th \in Thread, CheckAndRecord(th)
  PROVE  RateInv'
<1> DEFINE key == pending[th].key
           at == pending[th].at
           start == WindowStart(at)
           kept == Retained(at)
           count == IF key \in kept /\ buckets[key].start = start THEN buckets[key].count ELSE 0
           admit == ~ OverLimit(count)
           new == IF admit THEN count + 1 ELSE count
           rec == [key |-> key, window |-> start, nth |-> Cardinality(admitted), at |-> at]
<1>0. /\ RateTypes /\ at \in Nat /\ MaxPerWindow \in Nat /\ Width \in Nat \ {0}
      /\ start \in Nat /\ start <= at /\ at < start + Width
  BY RateAssumption, WidthType, WindowOfInstant DEF RateInv, RateTypes
<1>1. /\ kept = {p \in DOMAIN buckets : at - buckets[p].start < 2 * Width}
      /\ count \in Nat /\ new \in Nat /\ count <= new
      /\ \A p \in DOMAIN buckets : buckets[p].start \in Nat /\ buckets[p].count \in Nat
  BY <1>0 DEF Retained, RateTypes
<1>2. /\ buckets' = [p \in kept \cup {key} |->
                       IF p = key THEN [start |-> start, count |-> new] ELSE buckets[p]]
      /\ admitted' = IF admit THEN admitted \cup {rec} ELSE admitted
      /\ late' = IF admit /\ Late(key, start) THEN late + 1 ELSE late
      /\ pending' = [pending EXCEPT ![th] = Nobody]
      /\ UNCHANGED uptime
  BY DEF CheckAndRecord
<1>3. /\ (key \in kept /\ buckets[key].start = start) => count = buckets[key].count
      /\ admit => count < MaxPerWindow /\ new = count + 1
  BY <1>0, <1>1 DEF OverLimit
<1>4. rec.key = key /\ rec.window = start
  OBVIOUS
<1> HIDE DEF key, at, start, kept, count, admit, new, rec
<1>5. /\ DOMAIN buckets' = kept \cup {key}
      /\ buckets'[key] = [start |-> start, count |-> new]
      /\ \A p \in kept : p # key => buckets'[p] = buckets[p]
  BY <1>2
<1>6. RateTypes'
  <2>1. buckets' \in [DOMAIN buckets' -> [start : Nat, count : Nat]]
    BY <1>0, <1>1, <1>2, <1>5 DEF RateTypes
  <2>2. IsFiniteSet(admitted')
    BY <1>0, <1>2, FS_AddElement DEF RateTypes
  <2>3. pending' \in [Thread -> [key : Principal \cup {"nobody"}, at : Nat]]
    BY <1>0, <1>2 DEF RateTypes, Nobody
  <2>4. QED
    BY <1>0, <1>2, <2>1, <2>2, <2>3 DEF RateTypes
<1>7. /\ late \in Nat /\ Forgiven \in Nat /\ LimitKept
      /\ \A p, w : Cardinality(Adm(admitted, p, w)) \in Nat
  <2>1. late \in Nat /\ LimitKept
    BY DEF RateInv
  <2>2. QED
    BY <1>0, <2>1, AdmFinite DEF RateTypes, Forgiven
<1>8. \A p, w : (p # key \/ w # start) => Adm(admitted', p, w) = Adm(admitted, p, w)
  BY <1>2, <1>4 DEF Adm
<1>9. /\ Cardinality(Adm(admitted', key, start)) \in Nat
      /\ admit => Cardinality(Adm(admitted', key, start)) <= Cardinality(Adm(admitted, key, start)) + 1
      /\ ~ admit => Adm(admitted', key, start) = Adm(admitted, key, start)
  <2>1. IsFiniteSet(Adm(admitted, key, start)) /\ IsFiniteSet(Adm(admitted', key, start))
    BY <1>0, <1>6, AdmFinite DEF RateTypes
  <2>2. CASE admit
    <3>1. Adm(admitted', key, start) = Adm(admitted, key, start) \cup {rec}
      BY <1>2, <1>4, <2>2 DEF Adm
    <3>2. QED
      BY <1>7, <2>1, <2>2, <3>1, FS_AddElement, FS_CardinalityType
  <2>3. CASE ~ admit
    <3>1. admitted' = admitted
      BY <1>2, <2>3
    <3>2. QED
      BY <1>7, <2>3, <3>1
  <2>4. QED
    BY <2>2, <2>3
<1>10. ASSUME NEW p, NEW w, p = key, w = start PROVE Counted(p, w)' = new
  BY <1>5, <1>10 DEF Counted
<1>11. \A p : \A w \in Nat : Counted(p, w) \in Nat /\ Counted(p, w)' \in Nat
  <2>1. \A p \in DOMAIN buckets' : buckets'[p].count \in Nat
    BY <1>1, <1>5
  <2>2. QED
    BY <1>1, <2>1 DEF Counted
(* A call that was late: every window gains one limit.                      *)
<1>12. CASE admit /\ Late(key, start)
  <2>1. late' = late + 1 /\ late' \in Nat
    BY <1>2, <1>7, <1>12
  <2>2. Forgiven' = Forgiven + MaxPerWindow
    <3>1. \A m, n \in Nat : m * (n + 1) = m * n + m
      OBVIOUS
    <3>2. QED
      BY <1>0, <1>7, <2>1, <3>1 DEF Forgiven
  <2>3. ASSUME NEW p, NEW w \in Nat, p # key \/ w # start
        PROVE  Cardinality(Adm(admitted', p, w)) <= Forgiven'
    BY <1>7, <1>8, <2>2, <2>3 DEF LimitKept
  <2>4. /\ Cardinality(Adm(admitted', key, start)) <= Forgiven' + 1
        /\ new >= 1 /\ MaxPerWindow >= 1
    <3>1. Cardinality(Adm(admitted, key, start)) <= Forgiven'
      BY <1>0, <1>7, <2>2 DEF LimitKept
    <3>2. QED
      BY <1>0, <1>1, <1>3, <1>7, <1>9, <1>12, <2>2, <3>1
  <2>5. ASSUME NEW p, NEW w \in Nat
        PROVE  /\ Cardinality(Adm(admitted', p, w)) <= Forgiven' + MaxPerWindow
               /\ Cardinality(Adm(admitted', p, w)) <= Forgiven' + Counted(p, w)'
    <3>1. CASE p = key /\ w = start
      BY <1>0, <1>1, <1>7, <1>9, <1>10, <2>2, <2>4, <3>1
    <3>2. CASE p # key \/ w # start
      BY <1>0, <1>7, <1>8, <1>11, <2>2, <2>3, <3>2
    <3>3. QED
      BY <3>1, <3>2
  <2>6. LimitKept'
    BY <2>5 DEF LimitKept, Adm
  <2>7. QED
    BY <1>6, <2>1, <2>6 DEF RateInv
(* Any other call: no bucket moves to an earlier window.                    *)
<1>13. CASE ~ (admit /\ Late(key, start))
  <2>1. late' = late /\ Forgiven' = Forgiven
    BY <1>2, <1>13 DEF Forgiven
  <2>2. CASE MaxPerWindow = 0
    <3>1. ~ admit /\ Forgiven = 0
      BY <1>1, <1>3, <1>7, <2>2 DEF Forgiven
    <3>2. \A p : \A w \in Nat : Cardinality(Adm(admitted', p, w)) <= 0
      BY <1>2, <1>7, <2>2, <3>1 DEF LimitKept
    <3>3. LimitKept'
      <4>1. ASSUME NEW p, NEW w \in Nat
            PROVE  /\ Cardinality(Adm(admitted', p, w)) <= Forgiven' + MaxPerWindow
                   /\ Cardinality(Adm(admitted', p, w)) <= Forgiven' + Counted(p, w)'
        <5>1. Cardinality(Adm(admitted', p, w)) <= 0 /\ Cardinality(Adm(admitted', p, w)) \in Nat
          BY <1>2, <1>7, <3>1, <3>2
        <5>2. Forgiven' = 0 /\ Counted(p, w)' \in Nat
          BY <1>11, <2>1, <3>1
        <5>3. QED
          BY <2>2, <5>1, <5>2
      <4>2. QED
        BY <4>1 DEF LimitKept, Adm
    <3>4. QED
      BY <1>6, <1>7, <2>1, <3>3 DEF RateInv
  <2>3. CASE MaxPerWindow # 0
    <3>1. key \in DOMAIN buckets => buckets[key].start <= start
      <4>1. CASE ~ Late(key, start)
        BY <1>0, <1>1, <4>1 DEF Late
      <4>2. CASE ~ admit
        <5>1. count # 0
          BY <1>0, <2>3, <4>2 DEF admit, OverLimit
        <5>2. key \in kept /\ buckets[key].start = start
          BY <5>1 DEF count
        <5>3. QED
          BY <1>0, <5>2
      <4>3. QED
        BY <1>13, <4>1, <4>2
    <3>2. /\ Cardinality(Adm(admitted', key, start)) <= Forgiven + new
          /\ Cardinality(Adm(admitted', key, start)) <= Forgiven + MaxPerWindow
      <4>1. CASE ~ admit
        <5>1. count >= MaxPerWindow
          BY <1>0, <1>1, <4>1 DEF admit, OverLimit
        <5>2. QED
          BY <1>0, <1>1, <1>7, <1>9, <4>1, <5>1 DEF LimitKept
      <4>2. CASE admit
        <5>1. ~ Late(key, start)
          BY <1>13, <4>2
        <5>2. Counted(key, start) = count
          <6>1. CASE key \in DOMAIN buckets /\ buckets[key].start = start
            <7>1. key \in kept
              BY <1>0, <1>1, <6>1
            <7>2. QED
              BY <1>3, <6>1, <7>1 DEF Counted
          <6>2. CASE ~ (key \in DOMAIN buckets /\ buckets[key].start = start)
            BY <1>1, <6>2 DEF Counted, count
          <6>3. QED
            BY <6>1, <6>2
        <5>3. Cardinality(Adm(admitted, key, start)) <= Forgiven + count
          BY <1>0, <1>7, <5>1, <5>2 DEF LimitKept
        <5>4. QED
          BY <1>0, <1>1, <1>3, <1>7, <1>9, <4>2, <5>3
      <4>3. QED
        BY <4>1, <4>2
    <3>3. ASSUME NEW p, NEW w \in Nat, p # key \/ w # start, ~ Late(p, w)'
          PROVE  ~ Late(p, w) /\ Counted(p, w)' = Counted(p, w)
      <4>1. \A q \in kept \cup {key} :
              ~ (buckets'[q].start > w /\ (q = p \/ buckets'[q].start > w + Width))
        BY <1>5, <3>3 DEF Late, Width
      <4>2. \A q \in DOMAIN buckets \ kept : start > buckets[q].start + Width
        BY <1>0, <1>1
      <4>3. ~ (start > w /\ (key = p \/ start > w + Width))
        BY <1>5, <4>1
      <4>4. ASSUME NEW q \in DOMAIN buckets, buckets[q].start > w, q = p \/ buckets[q].start > w + Width
            PROVE  FALSE
        <5>1. CASE q \in kept /\ q # key
          BY <1>5, <4>1, <4>4, <5>1
        <5>2. CASE q = key
          BY <1>0, <1>1, <3>1, <4>3, <4>4, <5>2
        <5>3. CASE q \notin kept
          BY <1>0, <1>1, <4>2, <4>3, <4>4, <5>3
        <5>4. QED
          BY <5>1, <5>2, <5>3
      <4>5. ~ Late(p, w)
        BY <4>4 DEF Late
      <4>6. CASE p = key
        <5>1. ~ (start > w) /\ w # start
          BY <3>3, <4>3, <4>6
        <5>2. ~ (key \in DOMAIN buckets /\ buckets[key].start = w)
          BY <1>0, <1>1, <3>1, <5>1
        <5>3. QED
          BY <1>5, <4>5, <4>6, <5>1, <5>2 DEF Counted
      <4>7. CASE p # key /\ p \in kept
        BY <1>1, <1>5, <4>5, <4>7 DEF Counted
      <4>8. CASE p # key /\ p \notin kept
        <5>1. ~ (p \in DOMAIN buckets /\ buckets[p].start = w)
          BY <1>0, <1>1, <4>2, <4>3, <4>8
        <5>2. QED
          BY <1>5, <4>5, <4>8, <5>1 DEF Counted
      <4>9. QED
        BY <4>6, <4>7, <4>8
    <3>4. ASSUME NEW p, NEW w \in Nat
          PROVE  /\ Cardinality(Adm(admitted', p, w)) <= Forgiven' + MaxPerWindow
                 /\ ~ Late(p, w)' => Cardinality(Adm(admitted', p, w)) <= Forgiven' + Counted(p, w)'
      <4>1. CASE p = key /\ w = start
        BY <1>10, <2>1, <3>2, <4>1
      <4>2. CASE p # key \/ w # start
        <5>1. /\ Cardinality(Adm(admitted, p, w)) <= Forgiven + MaxPerWindow
              /\ ~ Late(p, w) => Cardinality(Adm(admitted, p, w)) <= Forgiven + Counted(p, w)
          BY <1>7 DEF LimitKept
        <5>2. QED
          BY <1>8, <2>1, <3>3, <4>2, <5>1
      <4>3. QED
        BY <4>1, <4>2
    <3>5. LimitKept'
      BY <3>4 DEF LimitKept, Adm
    <3>6. QED
      BY <1>6, <1>7, <2>1, <3>5 DEF RateInv
  <2>4. QED
    BY <2>2, <2>3
<1>14. QED
  BY <1>12, <1>13

LEMMA RateInvInit == RateInit => RateInv
<1> SUFFICES ASSUME RateInit PROVE RateInv
  OBVIOUS
<1>1. RateTypes /\ DOMAIN buckets = {} /\ late = 0 /\ MaxPerWindow \in Nat
  BY FS_EmptySet, RateAssumption DEF RateInit, RateTypes, Nobody
<1>2. \A p, w : Adm(admitted, p, w) = {}
  BY DEF RateInit, Adm
<1>3. Forgiven = 0
  BY <1>1 DEF Forgiven
<1>4. \A p, w : Cardinality(Adm(admitted, p, w)) = 0 /\ Counted(p, w) = 0
  BY <1>1, <1>2, FS_EmptySet DEF Counted
<1>5. LimitKept
  BY <1>1, <1>3, <1>4 DEF LimitKept
<1>6. QED
  BY <1>1, <1>5 DEF RateInv

LEMMA RateInvStep == ASSUME RateInv, [RateNext]_rateVars PROVE RateInv'
<1>1. ASSUME NEW th \in Thread, CheckAndRecord(th) PROVE RateInv'
  BY <1>1, RecordKeepsInv
<1>2. ASSUME UNCHANGED <<buckets, admitted, late>>, RateTypes' PROVE RateInv'
  BY <1>2 DEF RateInv, LimitKept, Forgiven, Counted, Late
<1>3. ASSUME NEW th \in Thread, NEW key \in Principal, ReadClock(th, key) PROVE RateInv'
  <2>1. pending' \in [Thread -> [key : Principal \cup {"nobody"}, at : Nat]]
    BY <1>3 DEF ReadClock, RateInv, RateTypes
  <2>2. RateTypes'
    BY <1>3, <2>1 DEF ReadClock, RateInv, RateTypes
  <2>3. QED
    BY <1>2, <1>3, <2>2 DEF ReadClock
<1>4. CASE RateTick \/ UNCHANGED rateVars
  <2>1. UNCHANGED <<buckets, pending, admitted, late>> /\ uptime' \in Nat
    BY <1>4 DEF RateTick, rateVars, RateInv, RateTypes
  <2>2. RateTypes'
    BY <2>1 DEF RateInv, RateTypes
  <2>3. QED
    BY <1>2, <2>1, <2>2
<1>5. QED
  BY <1>1, <1>3, <1>4 DEF RateNext

(* check_and_record keeps the limit of every window, up to one more limit   *)
(* for each call that was late, for any threads, principals and width of    *)
(* the window.                                                              *)
THEOREM WindowLimitKept == RateSpec => []WindowLimit
<1>1. RateInit => RateInv
  BY RateInvInit
<1>2. RateInv /\ [RateNext]_rateVars => RateInv'
  BY RateInvStep
<1>3. RateInv => WindowLimit
  <2> SUFFICES ASSUME RateInv, NEW p, NEW w \in 0 .. MaxUptime
               PROVE  Cardinality(Adm(admitted, p, w)) <= MaxPerWindow * (late + 1)
    BY DEF WindowLimit, Adm
  <2>1. \A m, n \in Nat : m * (n + 1) = m * n + m
    OBVIOUS
  <2>2. MaxPerWindow * (late + 1) = Forgiven + MaxPerWindow
    BY <2>1, RateAssumption DEF RateInv, Forgiven
  <2>3. Cardinality(Adm(admitted, p, w)) <= Forgiven + MaxPerWindow
    BY DEF RateInv, LimitKept
  <2>4. QED
    BY <2>2, <2>3
<1>4. QED
  BY <1>1, <1>2, <1>3, PTL DEF RateSpec

-----------------------------------------------------------------------------
(* The C ABI.                                                               *)

FfiRecord ==
  [fn : Authorizing \cup {"cert_revoke", "none"}, cert : FfiCert, args : Arguments, fits : BOOLEAN,
   pc : {"returned", "parse", "check", "consume", "write"}, n : Nat,
   status : A1Status \cup {""}, since : SUBSET FfiCert]

FfiTypes ==
  /\ revoked \subseteq FfiCert /\ consumed \subseteq FfiCert /\ storeNo \in Nat
  /\ lastError \in [FfiThread -> Nat]
  /\ ffi \in [FfiThread -> FfiRecord]
  /\ authorised \subseteq [thread : FfiThread, n : Nat, cert : FfiCert, store : Nat]

(* An acknowledged revocation is in the store, where a call that came later *)
(* finds it before it consumes anything.                                    *)
RevocationsSeen ==
  /\ ackRevoked \subseteq revoked
  /\ \A u \in FfiThread :
       /\ ffi[u].since \subseteq ackRevoked
       /\ ffi[u].pc \in {"consume", "write"} => ffi[u].cert \notin ffi[u].since

(* What was authorised stays consumed in the store it was consumed in.      *)
AuthorisedConsumed ==
  \A p \in authorised :
    /\ p.store <= storeNo
    /\ p.store = storeNo => p.cert \in consumed
    /\ p.n <= ffi[p.thread].n
    /\ p.n = ffi[p.thread].n => ffi[p.thread].cert \notin ffi[p.thread].since

AuthorisedOnce == \A p, q \in authorised : p.cert = q.cert /\ p.store = q.store => p = q

(* A call about to be answered is the only one to have consumed its         *)
(* certificate's nonce in this store.                                       *)
WritersApart ==
  \A u \in FfiThread : ffi[u].pc = "write" =>
    /\ ffi[u].cert \in consumed
    /\ \A p \in authorised : p.store = storeNo => p.cert # ffi[u].cert
    /\ \A v \in FfiThread \ {u} : ffi[v].pc = "write" => ffi[v].cert # ffi[u].cert

FfiInv == FfiTypes /\ RevocationsSeen /\ AuthorisedConsumed /\ AuthorisedOnce /\ WritersApart /\ OwnErrorText

(* A step of one call that neither consumes nor authorises anything.        *)
LEMMA FfiLocalStep ==
  ASSUME FfiInv, NEW th \in FfiThread, NEW b \in FfiRecord, ffi' = [ffi EXCEPT ![th] = b],
         UNCHANGED <<consumed, storeNo, authorised>>,
         revoked \subseteq revoked', revoked' \subseteq FfiCert,
         ackRevoked \subseteq ackRevoked', ackRevoked' \subseteq revoked',
         b.pc # "write",
         \/ /\ b.n = ffi[th].n /\ b.cert = ffi[th].cert /\ b.since = ffi[th].since
            /\ b.pc = "consume" => b.cert \notin b.since
         \/ b.n = ffi[th].n + 1 /\ b.since = ackRevoked /\ b.pc = "parse",
         lastError' \in [FfiThread -> Nat],
         \A u \in FfiThread \ {th} : lastError'[u] = lastError[u],
         (b.pc = "returned" /\ b.status # "A1Ok" /\ b.fn # "authorize_with_proof_json")
           => lastError'[th] = b.n
  PROVE  FfiInv'
<1>0. FfiTypes
  BY DEF FfiInv
<1>1. /\ ffi'[th] = b /\ \A u \in FfiThread \ {th} : ffi'[u] = ffi[u]
      /\ ffi[th].n \in Nat
  BY <1>0 DEF FfiTypes, FfiRecord
<1>2. FfiTypes'
  BY <1>0 DEF FfiTypes
<1>3. RevocationsSeen'
  BY <1>1 DEF FfiInv, RevocationsSeen
<1>4. AuthorisedConsumed'
  <2> SUFFICES ASSUME NEW p \in authorised
               PROVE  /\ p.store <= storeNo
                      /\ p.store = storeNo => p.cert \in consumed
                      /\ p.n <= ffi'[p.thread].n
                      /\ p.n = ffi'[p.thread].n => ffi'[p.thread].cert \notin ffi'[p.thread].since
    BY DEF AuthorisedConsumed
  <2>1. /\ p.thread \in FfiThread /\ p.n \in Nat
        /\ p.store <= storeNo
        /\ p.store = storeNo => p.cert \in consumed
        /\ p.n <= ffi[p.thread].n
        /\ p.n = ffi[p.thread].n => ffi[p.thread].cert \notin ffi[p.thread].since
    BY <1>0 DEF FfiTypes, FfiInv, AuthorisedConsumed
  <2>2. CASE p.thread = th
    BY <1>1, <2>1, <2>2
  <2>3. CASE p.thread # th
    BY <1>1, <2>1, <2>3
  <2>4. QED
    BY <2>2, <2>3
<1>5. AuthorisedOnce' /\ WritersApart'
  BY <1>1 DEF FfiInv, AuthorisedOnce, WritersApart
<1>6. OwnErrorText'
  BY <1>1 DEF FfiInv, OwnErrorText
<1>7. QED
  BY <1>2, <1>3, <1>4, <1>5, <1>6 DEF FfiInv

LEMMA ReturnedIs ==
  ASSUME FfiTypes, NEW th \in FfiThread, NEW st \in A1Status, Returned(th, st)
  PROVE  \E b \in FfiRecord :
           /\ ffi' = [ffi EXCEPT ![th] = b]
           /\ b.pc = "returned" /\ b.status = st
           /\ b.n = ffi[th].n /\ b.cert = ffi[th].cert /\ b.since = ffi[th].since /\ b.fn = ffi[th].fn
<1> DEFINE b == [ffi[th] EXCEPT !.pc = "returned", !.status = st]
<1>1. ffi[th] \in FfiRecord
  BY DEF FfiTypes
<1>2. /\ b \in FfiRecord /\ b.pc = "returned" /\ b.status = st
      /\ b.n = ffi[th].n /\ b.cert = ffi[th].cert /\ b.since = ffi[th].since /\ b.fn = ffi[th].fn
  BY <1>1 DEF FfiRecord
<1>3. ffi' = [ffi EXCEPT ![th] = b]
  BY DEF Returned, FfiTypes
<1>4. QED
  BY <1>2, <1>3

LEMMA MovedIs ==
  ASSUME FfiTypes, NEW th \in FfiThread, NEW pc \in {"check", "consume", "write"},
         ffi' = [ffi EXCEPT ![th].pc = pc]
  PROVE  \E b \in FfiRecord :
           /\ ffi' = [ffi EXCEPT ![th] = b]
           /\ b.pc = pc /\ b.status = ffi[th].status
           /\ b.n = ffi[th].n /\ b.cert = ffi[th].cert /\ b.since = ffi[th].since /\ b.fn = ffi[th].fn
<1> DEFINE b == [ffi[th] EXCEPT !.pc = pc]
<1>1. ffi[th] \in FfiRecord
  BY DEF FfiTypes
<1>2. /\ b \in FfiRecord /\ b.pc = pc /\ b.status = ffi[th].status
      /\ b.n = ffi[th].n /\ b.cert = ffi[th].cert /\ b.since = ffi[th].since /\ b.fn = ffi[th].fn
  BY <1>1 DEF FfiRecord
<1>3. ffi' = [ffi EXCEPT ![th] = b]
  BY DEF FfiTypes
<1>4. QED
  BY <1>2, <1>3

(* A call that is answered with an error, and its error text.               *)
LEMMA ErrorStep ==
  ASSUME FfiInv, NEW th \in FfiThread, NEW st \in A1Status, Returned(th, st),
         \/ set_last_error(th)
         \/ UNCHANGED lastError /\ ffi[th].fn = "authorize_with_proof_json",
         UNCHANGED <<revoked, consumed, storeNo, authorised, ackRevoked>>
  PROVE  FfiInv'
<1>0. FfiTypes /\ ackRevoked \subseteq revoked /\ revoked \subseteq FfiCert
  BY DEF FfiInv, FfiTypes, RevocationsSeen
<1>1. PICK b \in FfiRecord :
           /\ ffi' = [ffi EXCEPT ![th] = b]
           /\ b.pc = "returned" /\ b.status = st
           /\ b.n = ffi[th].n /\ b.cert = ffi[th].cert /\ b.since = ffi[th].since /\ b.fn = ffi[th].fn
  BY <1>0, ReturnedIs
<1>2. ffi[th].n \in Nat
  BY <1>0 DEF FfiTypes, FfiRecord
<1>3. /\ lastError' \in [FfiThread -> Nat]
      /\ \A u \in FfiThread \ {th} : lastError'[u] = lastError[u]
      /\ b.fn # "authorize_with_proof_json" => lastError'[th] = b.n
  BY <1>0, <1>1, <1>2 DEF FfiTypes, set_last_error
<1>4. QED
  BY <1>0, <1>1, <1>3, FfiLocalStep

LEMMA ConsumeStep ==
  ASSUME FfiInv, NEW th \in FfiThread, ffi[th].pc = "consume", ffi[th].cert \notin consumed,
         consumed' = consumed \cup {ffi[th].cert}, ffi' = [ffi EXCEPT ![th].pc = "write"],
         UNCHANGED <<revoked, storeNo, lastError, authorised, ackRevoked>>
  PROVE  FfiInv'
<1>0. FfiTypes
  BY DEF FfiInv
<1>1. PICK b \in FfiRecord :
           /\ ffi' = [ffi EXCEPT ![th] = b]
           /\ b.pc = "write"
           /\ b.n = ffi[th].n /\ b.cert = ffi[th].cert /\ b.since = ffi[th].since /\ b.fn = ffi[th].fn
  BY <1>0, MovedIs
<1>2. /\ ffi'[th] = b /\ \A u \in FfiThread \ {th} : ffi'[u] = ffi[u]
      /\ ffi[th].cert \in FfiCert
  BY <1>0, <1>1 DEF FfiTypes, FfiRecord
<1>3. FfiTypes'
  BY <1>0, <1>1, <1>2 DEF FfiTypes
<1>4. RevocationsSeen'
  BY <1>1, <1>2 DEF FfiInv, RevocationsSeen
<1>5. AuthorisedConsumed'
  <2>1. \A u \in FfiThread : ffi'[u].n = ffi[u].n /\ ffi'[u].cert = ffi[u].cert /\ ffi'[u].since = ffi[u].since
    BY <1>1, <1>2
  <2>2. \A p \in authorised : p.thread \in FfiThread
    BY <1>0 DEF FfiTypes
  <2>3. QED
    BY <2>1, <2>2 DEF FfiInv, AuthorisedConsumed
<1>6. AuthorisedOnce'
  BY DEF FfiInv, AuthorisedOnce
<1>7. WritersApart'
  <2>1. \A p \in authorised : p.store = storeNo => p.cert # ffi[th].cert
    BY DEF FfiInv, AuthorisedConsumed
  <2>2. \A u \in FfiThread : ffi[u].pc = "write" => ffi[u].cert # ffi[th].cert
    BY DEF FfiInv, WritersApart
  <2>3. QED
    BY <1>1, <1>2, <2>1, <2>2 DEF FfiInv, WritersApart
<1>8. OwnErrorText'
  BY <1>1, <1>2 DEF FfiInv, OwnErrorText
<1>9. QED
  BY <1>3, <1>4, <1>5, <1>6, <1>7, <1>8 DEF FfiInv

LEMMA WriteStep ==
  ASSUME FfiInv, NEW th \in FfiThread, ffi[th].pc = "write", NEW st \in A1Status, Returned(th, st),
         authorised' = authorised \cup {[thread |-> th, n |-> ffi[th].n, cert |-> ffi[th].cert, store |-> storeNo]},
         \/ st = "A1Ok" /\ UNCHANGED lastError
         \/ set_last_error(th)
         \/ UNCHANGED lastError /\ ffi[th].fn = "authorize_with_proof_json",
         UNCHANGED <<revoked, consumed, storeNo, ackRevoked>>
  PROVE  FfiInv'
<1> DEFINE o == [thread |-> th, n |-> ffi[th].n, cert |-> ffi[th].cert, store |-> storeNo]
<1>0. FfiTypes
  BY DEF FfiInv
<1>1. PICK b \in FfiRecord :
           /\ ffi' = [ffi EXCEPT ![th] = b]
           /\ b.pc = "returned" /\ b.status = st
           /\ b.n = ffi[th].n /\ b.cert = ffi[th].cert /\ b.since = ffi[th].since /\ b.fn = ffi[th].fn
  BY <1>0, ReturnedIs
<1>2. /\ ffi'[th] = b /\ \A u \in FfiThread \ {th} : ffi'[u] = ffi[u]
      /\ ffi[th].cert \in FfiCert /\ ffi[th].n \in Nat /\ storeNo \in Nat
  BY <1>0, <1>1 DEF FfiTypes, FfiRecord
<1>3. /\ o \in [thread : FfiThread, n : Nat, cert : FfiCert, store : Nat]
      /\ o.thread = th /\ o.n = ffi[th].n /\ o.cert = ffi[th].cert /\ o.store = storeNo
      /\ authorised' = authorised \cup {o}
  BY <1>2
<1> HIDE DEF o
<1>4. FfiTypes'
  <2>1. lastError' \in [FfiThread -> Nat]
    BY <1>0, <1>2 DEF FfiTypes, set_last_error
  <2>2. QED
    BY <1>0, <1>1, <1>2, <1>3, <2>1 DEF FfiTypes
<1>5. RevocationsSeen'
  BY <1>1, <1>2 DEF FfiInv, RevocationsSeen
<1>6. ffi[th].cert \in consumed /\ ffi[th].cert \notin ffi[th].since
  BY DEF FfiInv, WritersApart, RevocationsSeen
<1>7. AuthorisedConsumed'
  <2>1. \A u \in FfiThread : ffi'[u].n = ffi[u].n /\ ffi'[u].cert = ffi[u].cert /\ ffi'[u].since = ffi[u].since
    BY <1>1, <1>2
  <2>2. \A p \in authorised : p.thread \in FfiThread
    BY <1>0 DEF FfiTypes
  <2>3. QED
    BY <1>2, <1>3, <1>6, <2>1, <2>2 DEF FfiInv, AuthorisedConsumed
<1>8. AuthorisedOnce'
  <2>1. \A p \in authorised : p.store = storeNo => p.cert # ffi[th].cert
    BY DEF FfiInv, WritersApart
  <2>2. QED
    BY <1>3, <2>1 DEF FfiInv, AuthorisedOnce
<1>9. WritersApart'
  <2>1. \A u \in FfiThread \ {th} : ffi[u].pc = "write" => ffi[u].cert # ffi[th].cert
    BY DEF FfiInv, WritersApart
  <2>2. QED
    BY <1>1, <1>2, <1>3, <2>1 DEF FfiInv, WritersApart
<1>10. OwnErrorText'
  <2>1. /\ \A u \in FfiThread \ {th} : lastError'[u] = lastError[u]
        /\ \/ b.status = "A1Ok"
           \/ b.fn = "authorize_with_proof_json"
           \/ lastError'[th] = b.n
    BY <1>0, <1>1, <1>2 DEF FfiTypes, set_last_error
  <2>2. QED
    BY <1>1, <1>2, <2>1 DEF FfiInv, OwnErrorText
<1>11. QED
  BY <1>4, <1>5, <1>7, <1>8, <1>9, <1>10 DEF FfiInv

LEMMA FfiInvStep == ASSUME FfiInv, [FfiNext]_ffiVars PROVE FfiInv'
<1>0. FfiTypes /\ ackRevoked \subseteq revoked /\ revoked \subseteq FfiCert
  BY DEF FfiInv, FfiTypes, RevocationsSeen
<1>1. ASSUME NEW th \in FfiThread, NEW fn \in Authorizing \cup {"cert_revoke"}, NEW c \in FfiCert,
             NEW a \in Arguments, NEW f \in BOOLEAN, FfiEnter(th, fn, c, a, f)
      PROVE  FfiInv'
  <2> DEFINE b == [fn |-> fn, cert |-> c, args |-> a, fits |-> f, pc |-> "parse",
                   n |-> ffi[th].n + 1, status |-> "", since |-> ackRevoked]
  <2>0. ffi[th].n \in Nat
    BY <1>0 DEF FfiTypes, FfiRecord
  <2>1. ffi[th].n + 1 \in Nat /\ ackRevoked \in SUBSET FfiCert
    BY <1>0, <2>0
  <2>2. b \in FfiRecord
    BY <2>1 DEF FfiRecord
  <2>3. b.n = ffi[th].n + 1 /\ b.since = ackRevoked /\ b.pc = "parse"
    OBVIOUS
  <2>4. ffi' = [ffi EXCEPT ![th] = b] /\ UNCHANGED <<revoked, consumed, storeNo, lastError, authorised, ackRevoked>>
    BY <1>0, <1>1 DEF FfiEnter, FfiTypes
  <2> HIDE DEF b
  <2>5. lastError \in [FfiThread -> Nat]
    BY <1>0 DEF FfiTypes
  <2>6. QED
    BY <1>0, <2>2, <2>3, <2>4, <2>5, FfiLocalStep
<1>2. ASSUME NEW th \in FfiThread, NEW e \in A1Status, Fail(th, e)
      PROVE  FfiInv'
  <2>1. a1_error_to_status(ffi[th].fn, e) \in A1Status
    BY DEF a1_error_to_status, A1Status
  <2>2. QED
    BY <1>2, <2>1, ErrorStep DEF Fail
<1>3. ASSUME NEW th \in FfiThread, NEW pc \in {"check", "consume"}, ffi' = [ffi EXCEPT ![th].pc = pc],
             pc = "consume" => ffi[th].cert \notin revoked,
             UNCHANGED <<revoked, consumed, storeNo, lastError, authorised, ackRevoked>>
      PROVE  FfiInv'
  <2>0. pc \in {"check", "consume", "write"}
    OBVIOUS
  <2>1. PICK b \in FfiRecord :
           /\ ffi' = [ffi EXCEPT ![th] = b]
           /\ b.pc = pc /\ b.status = ffi[th].status
           /\ b.n = ffi[th].n /\ b.cert = ffi[th].cert /\ b.since = ffi[th].since /\ b.fn = ffi[th].fn
    <3>1. FfiTypes /\ ffi' = [ffi EXCEPT ![th].pc = pc]
      BY <1>0, <1>3
    <3>2. QED
      BY <2>0, <3>1, MovedIs
  <2>2. ffi[th].since \subseteq revoked /\ lastError \in [FfiThread -> Nat]
    BY <1>0 DEF FfiInv, RevocationsSeen, FfiTypes
  <2>3. b.pc # "write" /\ b.pc # "returned" /\ (b.pc = "consume" => b.cert \notin b.since)
    BY <1>3, <2>1, <2>2
  <2>4. QED
    BY <1>0, <1>3, <2>1, <2>2, <2>3, FfiLocalStep
<1>4. ASSUME NEW th \in FfiThread, Revoke(th)
      PROVE  FfiInv'
  <2>1. PICK b \in FfiRecord :
           /\ ffi' = [ffi EXCEPT ![th] = b]
           /\ b.pc = "returned" /\ b.status = "A1Ok"
           /\ b.n = ffi[th].n /\ b.cert = ffi[th].cert /\ b.since = ffi[th].since /\ b.fn = ffi[th].fn
    BY <1>0, <1>4, ReturnedIs DEF Revoke, A1Status
  <2>2. lastError \in [FfiThread -> Nat] /\ ffi[th].cert \in FfiCert
    BY <1>0 DEF FfiTypes, FfiRecord
  <2>3. /\ revoked \subseteq revoked' /\ revoked' \subseteq FfiCert
        /\ ackRevoked \subseteq ackRevoked' /\ ackRevoked' \subseteq revoked'
        /\ UNCHANGED <<consumed, storeNo, lastError, authorised>>
    BY <1>0, <1>4, <2>2 DEF Revoke
  <2>4. QED
    BY <2>1, <2>2, <2>3, FfiLocalStep
<1>5. CASE NewNonceStore
  <2>1. /\ storeNo' = storeNo + 1 /\ consumed' = {} /\ \A u \in FfiThread : ffi[u].pc = "returned"
        /\ UNCHANGED <<revoked, lastError, ffi, authorised, ackRevoked>> /\ storeNo \in Nat
    BY <1>0, <1>5 DEF NewNonceStore, FfiTypes
  <2>2. FfiTypes'
    BY <1>0, <2>1 DEF FfiTypes
  <2>3. RevocationsSeen' /\ AuthorisedOnce' /\ WritersApart' /\ OwnErrorText'
    BY <2>1 DEF FfiInv, RevocationsSeen, AuthorisedOnce, WritersApart, OwnErrorText
  <2>4. \A p \in authorised : p.store \in Nat
    BY <1>0 DEF FfiTypes
  <2>5. AuthorisedConsumed'
    BY <2>1, <2>4 DEF FfiInv, AuthorisedConsumed
  <2>6. QED
    BY <2>2, <2>3, <2>5 DEF FfiInv
<1>6. ASSUME NEW th \in FfiThread, Parse(th) \/ Panic(th) \/ Check(th) \/ Consume(th) \/ Write(th)
      PROVE  FfiInv'
  <2>1. CASE Parse(th)
    BY <1>2, <1>3, <2>1 DEF Parse, A1Status
  <2>2. CASE Panic(th)
    BY <2>2, ErrorStep DEF Panic, A1Status
  <2>3. CASE Check(th)
    BY <1>2, <1>3, <2>3 DEF Check, A1Status
  <2>4. CASE Consume(th)
    BY <1>2, <2>4, ConsumeStep DEF Consume, A1Status
  <2>5. CASE Write(th)
    BY <2>5, WriteStep DEF Write, A1Status
  <2>6. QED
    BY <1>6, <2>1, <2>2, <2>3, <2>4, <2>5
<1>7. CASE UNCHANGED ffiVars
  BY <1>7 DEF ffiVars, FfiInv, FfiTypes, RevocationsSeen, AuthorisedConsumed, AuthorisedOnce, WritersApart, OwnErrorText
<1>8. ASSUME NEW th \in FfiThread,
             NEW fn \in Authorizing \cup {"cert_revoke"}, NEW c \in FfiCert, NEW a \in Arguments,
             NEW f \in IF fn \in Authorizing /\ a = "good" THEN BOOLEAN ELSE {TRUE},
             FfiEnter(th, fn, c, a, f)
      PROVE  FfiInv'
  <2>1. f \in BOOLEAN
    OBVIOUS
  <2>2. QED
    BY <1>1, <1>8, <2>1
<1>9. QED
  BY <1>4, <1>5, <1>6, <1>7, <1>8 DEF FfiNext

LEMMA FfiInvInit == FfiInit => FfiInv
<1> SUFFICES ASSUME FfiInit PROVE FfiInv
  OBVIOUS
<1>1. PICK c \in FfiCert :
        ffi = [u \in FfiThread |-> [fn |-> "none", cert |-> c, args |-> "good", fits |-> TRUE,
                                    pc |-> "returned", n |-> 0, status |-> "A1Ok", since |-> {}]]
  BY DEF FfiInit
<1>2. [fn |-> "none", cert |-> c, args |-> "good", fits |-> TRUE,
       pc |-> "returned", n |-> 0, status |-> "A1Ok", since |-> {}] \in FfiRecord
  BY DEF FfiRecord, Arguments, A1Status
<1>3. ffi \in [FfiThread -> FfiRecord]
  BY <1>1, <1>2
<1>4. FfiTypes
  BY <1>3 DEF FfiInit, FfiTypes
<1>5. RevocationsSeen /\ AuthorisedConsumed /\ AuthorisedOnce /\ WritersApart /\ OwnErrorText
  BY <1>1 DEF FfiInit, RevocationsSeen, AuthorisedConsumed, AuthorisedOnce, WritersApart, OwnErrorText
<1>6. QED
  BY <1>4, <1>5 DEF FfiInv

(* The functions of ffi.rs keep the authorisations and the error texts of   *)
(* any number of threads apart, over any number of calls, certificates and  *)
(* nonce stores.                                                            *)
THEOREM FfiThreadsApart == FfiSpec => []ThreadsApart
<1>1. FfiInit => FfiInv
  BY FfiInvInit
<1>2. FfiInv /\ [FfiNext]_ffiVars => FfiInv'
  BY FfiInvStep
<1>3. FfiInv => ThreadsApart
  BY DEF FfiInv, ThreadsApart, AuthorisedOnceUnrevoked, AuthorisedOnce, AuthorisedConsumed
<1>4. QED
  BY <1>1, <1>2, <1>3, PTL DEF FfiSpec

-----------------------------------------------------------------------------
(* The types of all parts.                                                  *)
(*                                                                          *)
(* The invariants above carry most of what a part's type invariant says;    *)
(* here are the bounds they leave open.                                     *)

LEMMA MemTypesInit == Init => TypeOK
<1> SUFFICES ASSUME Init PROVE TypeOK
  OBVIOUS
<1>1. MemTypes
  BY MemInvInit DEF MemInv
<1>2. QED
  BY <1>1 DEF MemTypes, TypeOK, Init, Absent

LEMMA MemTypesStep == ASSUME MemInv, TypeOK, [Next]_vars PROVE TypeOK'
<1>1. MemTypes'
  BY MemTypeStep
<1>2. bloom' \subseteq Bit /\ store' \in [Nonce -> {Absent} \cup 0 .. U64Max]
  <2>1. CASE UNCHANGED <<bloom, store>>
    BY <2>1 DEF TypeOK
  <2>2. ASSUME NEW c \in Caller, InsertAll(call[c].batch) PROVE <1>2
    <3>1. call[c].batch \subseteq Nonce
      BY DEF TypeOK, Ledger!CallRecord
    <3>2. now \in Nat /\ now <= U64Max /\ U64Max \in Nat /\ BitOf \in [Nonce -> Bit] /\ Ttl \in Nat \cup {NoTtl}
      BY MemoryAssumption DEF TypeOK
    <3>3. SaturatingAdd(now, Ttl) \in 0 .. U64Max \/ Ttl = NoTtl
      BY <3>2 DEF SaturatingAdd
    <3>4. bloom' \subseteq Bit
      BY <2>2, <3>1, <3>2 DEF InsertAll, TypeOK
    <3>5. store' \in [Nonce -> {Absent} \cup 0 .. U64Max]
      BY <2>2, <3>2, <3>3 DEF InsertAll, TypeOK
    <3>6. QED
      BY <3>4, <3>5
  <2>3. UNCHANGED <<bloom, store>> \/ \E c \in Caller : InsertAll(call[c].batch)
    <3>1. ASSUME NEW c \in Caller, try_consume_batch(c) PROVE <2>3
      BY <3>1 DEF try_consume_batch
    <3>2. ASSUME NEW c \in Caller, NEW wanted, Open(c, wanted) PROVE UNCHANGED <<bloom, store>>
      BY <3>2 DEF Open
    <3>3. ASSUME NEW p \in Prober, is_consumed_bloom(p) \/ is_consumed_map(p) PROVE UNCHANGED <<bloom, store>>
      BY <3>3 DEF is_consumed_bloom, is_consumed_map
    <3>4. CASE Tick \/ UNCHANGED vars
      BY <3>4 DEF Tick, vars
    <3>5. QED
      BY <3>1, <3>2, <3>3, <3>4 DEF Next
  <2>4. QED
    BY <2>1, <2>2, <2>3
<1>3. QED
  BY <1>1, <1>2 DEF MemTypes, TypeOK

LEMMA RedisTypesInit == RedisInit => RedisTypeOK
BY RedisInvInit, RedisAssumption DEF RedisInv, RedisInit, RedisTypeOK, NoKey

LEMMA RedisTypesStep == ASSUME RedisInv, RedisTypeOK, [RedisNext]_redisVars PROVE RedisTypeOK'
<1>1. RedisInv'
  BY RedisInvStep
<1>2. clock' \in 0 .. MaxClock
  <2>1. UNCHANGED clock \/ ServerTick
    BY DEF RedisNext, redisVars, Issue, ScriptSets, ScriptFinds, ReplyLost, Unreachable, ReturnError
  <2>2. QED
    BY <2>1, RedisAssumption DEF RedisTypeOK, ServerTick
<1>3. broken' \subseteq Conn
  BY DEF RedisTypeOK, RedisNext, redisVars, Issue, ScriptSets, ScriptFinds, ReplyLost,
     Unreachable, ReturnError, ServerTick
<1>4. expiry' \in [Key -> {NoKey} \cup 0 .. clock' + PxTtl]
  BY <1>1, <1>2, RedisAssumption DEF RedisInv
<1>5. QED
  BY <1>1, <1>2, <1>3, <1>4 DEF RedisInv, RedisTypeOK

LEMMA DnbTypesInit == DnbInit => DnbTypeOK
<1> SUFFICES ASSUME DnbInit, NEW c \in BatchCaller
             PROVE  batch[c].st \in Calling /\ batch[c].k \in 1 .. Len(batch[c].slice) + 1
  BY DEF DnbTypeOK
<1>1. batch[c].slice \in Slices /\ batch[c].st = "new" /\ batch[c].k = 1
  BY DEF DnbInit
<1>2. Len(batch[c].slice) \in Nat
  BY <1>1, SlicesAssumption
<1>3. QED
  BY <1>1, <1>2 DEF Calling

LEMMA DnbTypesStep == ASSUME DnbInv, DnbTypeOK, [DnbNext]_dnbVars PROVE DnbTypeOK'
<1>0. DnbTypes'
  BY DnbInvStep DEF DnbInv
<1> SUFFICES ASSUME NEW d \in BatchCaller PROVE batch'[d].k <= Len(batch'[d].slice) + 1
  BY <1>0 DEF DnbTypes, DnbTypeOK
<1>1. /\ batch[d] \in DnbRecord /\ Len(batch[d].slice) \in Nat
      /\ batch[d].k \in Nat /\ batch[d].k <= Len(batch[d].slice) + 1
  BY SlicesAssumption DEF DnbInv, DnbTypes, DnbTypeOK, DnbRecord
<1>2. /\ batch'[d].slice = batch[d].slice
      /\ \/ batch'[d].k = batch[d].k
         \/ batch'[d].k = 1
         \/ batch'[d].k = batch[d].k + 1 /\ ~(batch[d].k > Len(batch[d].slice))
  <2>0. batch \in [BatchCaller -> DnbRecord]
    BY DEF DnbInv, DnbTypes, DnbRecord
  <2>1. ASSUME NEW c \in BatchCaller, BeginBatch(c) \/ BatchFails(c) PROVE <1>2
    BY <1>1, <2>0, <2>1 DEF BeginBatch, BatchFails, DnbRecord
  <2>2. ASSUME NEW c \in BatchCaller, CheckOne(c) PROVE <1>2
    <3>1. \/ batch' = [batch EXCEPT ![c].st = "mark", ![c].k = 1]
          \/ batch' = [batch EXCEPT ![c].st = "lost"]
          \/ batch' = [batch EXCEPT ![c].k = batch[c].k + 1] /\ ~(batch[c].k > Len(batch[c].slice))
      BY <2>2 DEF CheckOne
    <3>2. CASE d # c
      BY <2>0, <3>1, <3>2
    <3>3. CASE d = c
      BY <1>1, <2>0, <3>1, <3>3 DEF DnbRecord
    <3>4. QED
      BY <3>2, <3>3
  <2>3. ASSUME NEW c \in BatchCaller, MarkOne(c) PROVE <1>2
    <3>1. \/ batch' = [batch EXCEPT ![c].st = "won"]
          \/ batch' = [batch EXCEPT ![c].k = batch[c].k + 1] /\ ~(batch[c].k > Len(batch[c].slice))
      BY <2>3 DEF MarkOne
    <3>2. CASE d # c
      BY <2>0, <3>1, <3>2
    <3>3. CASE d = c
      BY <1>1, <2>0, <3>1, <3>3 DEF DnbRecord
    <3>4. QED
      BY <3>2, <3>3
  <2>4. CASE UNCHANGED dnbVars
    BY <2>4 DEF dnbVars
  <2>5. QED
    BY <2>1, <2>2, <2>3, <2>4 DEF DnbNext
<1>3. QED
  BY <1>1, <1>2

LEMMA DbTypesInit == DbInit => DbTypeOK
BY DbConstants DEF DbInit, DbTypeOK, Free, Parsed

LEMMA DbTypesStep == ASSUME DbInv, DbTypeOK, [DbNext]_dbVars PROVE DbTypeOK'
<1>0. DbTypes /\ DbTypes'
  BY DbInvStep DEF DbInv
<1>1. DOMAIN gone' \subseteq Cert
  <2>1. ASSUME NEW c \in Client, gone' = Written(Rows(job[c])) PROVE DOMAIN gone' \subseteq Cert
    <3>1. Rows(job[c]) \subseteq Cert
      BY DEF Rows, Chunk, Parsed
    <3>2. QED
      BY <2>1, <3>1 DEF Written, DbTypeOK
  <2>2. QED
    BY <2>1 DEF DbTypeOK, DbNext, dbVars, DbTick, OpenBatch, WriteChunk, WriteFails, Acknowledge
<1>2. DOMAIN acked' \subseteq Cert
  <2>1. ASSUME NEW c \in Client, Acknowledge(c) PROVE DOMAIN acked' \subseteq Cert
    <3>1. Asked(job[c]) \subseteq Cert
      BY DEF Asked, Parsed
    <3>2. QED
      BY <2>1, <3>1 DEF Acknowledge, DbTypeOK
  <2>2. UNCHANGED acked \/ \E c \in Client : Acknowledge(c)
    BY DEF DbNext, dbVars, DbTick, OpenBatch, WriteChunk, WriteFails
  <2>3. QED
    BY <2>1, <2>2 DEF DbTypeOK
<1>3. \A d \in Client : job'[d].written \subseteq Parsed(job'[d].list)
  <2> SUFFICES ASSUME NEW d \in Client PROVE job'[d].written \subseteq Parsed(job'[d].list)
    OBVIOUS
  <2>0. job[d].written \subseteq Parsed(job[d].list) /\ job[d] \in JobRecord
    BY <1>0 DEF DbTypes, DbTypeOK
  <2>1. \/ job'[d] = job[d]
        \/ job'[d].written = {}
        \/ job'[d] = [job[d] EXCEPT !.written = job[d].written \cup Chunk(job[d])]
    <3>1. ASSUME NEW c \in Client, NEW list \in Lists, OpenBatch(c, list) PROVE <2>1
      BY <1>0, <3>1 DEF OpenBatch, DbTypes
    <3>2. ASSUME NEW c \in Client, job' = [job EXCEPT ![c] = Free] PROVE <2>1
      BY <1>0, <3>2, FreeJob DEF DbTypes
    <3>3. ASSUME NEW c \in Client, job' = [job EXCEPT ![c].written = @ \cup Chunk(job[c])] PROVE <2>1
      BY <1>0, <3>3 DEF DbTypes
    <3>4. CASE UNCHANGED job
      BY <3>4
    <3>5. \/ UNCHANGED job
          \/ \E c \in Client : \/ \E list \in Lists : OpenBatch(c, list)
                              \/ job' = [job EXCEPT ![c] = Free]
                              \/ job' = [job EXCEPT ![c].written = @ \cup Chunk(job[c])]
      BY DEF DbNext, dbVars, DbTick, WriteChunk, WriteFails, Acknowledge
    <3>6. QED
      BY <3>1, <3>2, <3>3, <3>4, <3>5
  <2>2. Chunk(job[d]) \subseteq Parsed(job[d].list)
    BY DEF Chunk
  <2>3. QED
    BY <2>0, <2>1, <2>2 DEF JobRecord
<1>4. QED
  BY <1>0, <1>1, <1>2, <1>3 DEF DbTypes, DbTypeOK, JobRecord

(* A thread read its clock in the past, and a count grows only while it is  *)
(* below the limit.                                                         *)
RateTyped == RateTypeOK /\ \A th \in Thread : pending[th].at <= uptime

LEMMA RateTypesInit == RateInit => RateTyped
<1> SUFFICES ASSUME RateInit PROVE RateTyped
  OBVIOUS
<1>1. uptime = 0 /\ DOMAIN buckets = {} /\ MaxUptime \in Nat
  BY RateAssumption DEF RateInit
<1>2. late \in Nat
  BY DEF RateInit
<1>3. \A th \in Thread : pending[th] = Nobody
  BY DEF RateInit
<1>4. \A th \in Thread : pending[th].at <= uptime
  BY <1>1, <1>3 DEF Nobody
<1>5. QED
  BY <1>1, <1>2, <1>3, <1>4 DEF RateTyped, RateTypeOK

LEMMA RateTypesStep == ASSUME RateInv, RateTyped, [RateNext]_rateVars PROVE RateTyped'
<1>0. /\ RateTypes /\ uptime \in Nat /\ MaxPerWindow \in Nat
      /\ \A p \in DOMAIN buckets :
           /\ buckets[p].start \in Nat /\ buckets[p].start <= uptime
           /\ buckets[p].count \in 0 .. MaxPerWindow
      /\ \A th \in Thread : pending[th].at \in Nat /\ pending[th].at <= uptime
  BY RateAssumption DEF RateInv, RateTypes, RateTyped, RateTypeOK
<1>1. ASSUME NEW th \in Thread, CheckAndRecord(th) PROVE RateTyped'
  <2> DEFINE key == pending[th].key
             start == WindowStart(pending[th].at)
             kept == Retained(pending[th].at)
             count == IF key \in kept /\ buckets[key].start = start THEN buckets[key].count ELSE 0
             next == IF ~ OverLimit(count) THEN count + 1 ELSE count
  <2>1. /\ buckets' = [p \in kept \cup {key} |->
                         IF p = key THEN [start |-> start, count |-> next] ELSE buckets[p]]
        /\ pending' = [pending EXCEPT ![th] = Nobody] /\ pending[th] # Nobody
        /\ late' \in {late, late + 1} /\ uptime' = uptime
    BY <1>1 DEF CheckAndRecord
  <2>2. kept \subseteq DOMAIN buckets
    BY DEF Retained
  <2>3. start \in 0 .. uptime
    BY <1>0, WindowOfInstant
  <2>4. next \in 0 .. MaxPerWindow
    <3>1. count \in 0 .. MaxPerWindow
      BY <1>0, <2>2
    <3> HIDE DEF count
    <3>2. QED
      BY <1>0, <3>1 DEF OverLimit
  <2>5. key \in Principal
    BY <2>1 DEF RateTyped, RateTypeOK
  <2> HIDE DEF key, start, kept, count, next
  <2>6. DOMAIN buckets' \subseteq Principal
    BY <2>1, <2>2, <2>5 DEF RateTyped, RateTypeOK
  <2>7. \A p \in DOMAIN buckets' : buckets'[p].start \in 0 .. uptime /\ buckets'[p].count \in 0 .. MaxPerWindow
    BY <1>0, <2>1, <2>2, <2>3, <2>4
  <2>8. \A u \in Thread : pending'[u] = Nobody \/ pending'[u] = pending[u]
    BY <1>0, <2>1 DEF RateTypes
  <2>9. late' \in Nat
    BY <2>1 DEF RateTyped, RateTypeOK
  <2>10. \A u \in Thread : /\ pending'[u] = Nobody \/ pending'[u].key \in Principal
                           /\ pending'[u].at <= uptime
    BY <1>0, <2>8 DEF RateTyped, RateTypeOK, Nobody
  <2>11. QED
    BY <2>1, <2>6, <2>7, <2>9, <2>10 DEF RateTyped, RateTypeOK
<1>2. ASSUME NEW th \in Thread, NEW key \in Principal, ReadClock(th, key) PROVE RateTyped'
  <2>1. /\ \A u \in Thread : pending'[u] = pending[u] \/ pending'[u] = [key |-> key, at |-> uptime]
        /\ UNCHANGED <<uptime, buckets, late>>
    BY <1>0, <1>2 DEF ReadClock, RateTypes
  <2>2. QED
    BY <1>0, <2>1 DEF RateTyped, RateTypeOK
<1>3. CASE RateTick
  BY <1>0, <1>3, RateAssumption DEF RateTick, RateTyped, RateTypeOK
<1>4. CASE UNCHANGED rateVars
  BY <1>4 DEF rateVars, RateTyped, RateTypeOK
<1>5. QED
  BY <1>1, <1>2, <1>3, <1>4 DEF RateNext

LEMMA TreeTypesInit == TreeInit => TreeTypeOK
BY ScopeTreeAssumption DEF TreeInit, TreeTypeOK

LEMMA TreeTypesStep == ASSUME TreeTypeOK, [TreeNext]_treeVars PROVE TreeTypeOK'
<1>1. ASSUME NEW subset, NarrowTo(subset) PROVE TreeTypeOK'
  BY <1>1, ScopeTreeAssumption DEF NarrowTo, TreeTypeOK
<1>2. CASE PassThrough
  BY <1>2, ScopeTreeAssumption DEF PassThrough, TreeTypeOK
<1>3. CASE UNCHANGED treeVars
  BY <1>3 DEF treeVars, TreeTypeOK
<1>4. QED
  BY <1>1, <1>2, <1>3 DEF TreeNext, Narrow

(* The trace is a sequence, and there is one receipt for each chain.        *)
ProvTyped ==
  /\ ProvTypeOK
  /\ steps \in Seq([index : Nat, content : Content])
  /\ receipt \in [Fingerprint -> {receipt[g] : g \in Fingerprint}]
  /\ \A f \in Fingerprint : receipt[f] # NoRoot => receipt[f].step_count \in Nat

LEMMA ProvTypesInit == ProvInit => ProvTyped
<1> SUFFICES ASSUME ProvInit PROVE ProvTyped
  OBVIOUS
<1>1. receipt \in [Fingerprint -> {receipt[g] : g \in Fingerprint}]
  BY DEF ProvInit
<1>2. QED
  BY <1>1 DEF ProvInit, ProvTyped, ProvTypeOK

LEMMA ProvTypesStep == ASSUME ProvTyped, [ProvNext]_provVars PROVE ProvTyped'
<1>0. Len(steps) \in Nat /\ steps \in Seq([index : Nat, content : Content])
  BY DEF ProvTyped
<1>1. ASSUME NEW c \in Content, Record(c) PROVE ProvTyped'
  <2> DEFINE new == [index |-> Len(steps), content |-> c]
  <2>1. new \in [index : Nat, content : Content] /\ new.index = Len(steps) /\ new.content = c
    BY <1>0
  <2>2. steps' = Append(steps, new) /\ UNCHANGED <<receipt, covers>>
    BY <1>1 DEF Record
  <2> HIDE DEF new
  <2>3. /\ steps' \in Seq([index : Nat, content : Content]) /\ Len(steps') = Len(steps) + 1
        /\ \A i \in 1 .. Len(steps) : steps'[i] = steps[i]
        /\ steps'[Len(steps) + 1] = new
    BY <1>0, <2>1, <2>2
  <2>4. \A i \in 1 .. Len(steps') : steps'[i].index = i - 1 /\ steps'[i].content \in Content
    <3> SUFFICES ASSUME NEW i \in 1 .. Len(steps') PROVE steps'[i].index = i - 1 /\ steps'[i].content \in Content
      OBVIOUS
    <3>1. CASE i \in 1 .. Len(steps)
      BY <2>3, <3>1 DEF ProvTyped, ProvTypeOK
    <3>2. CASE i = Len(steps) + 1
      BY <1>0, <2>1, <2>3, <3>2
    <3>3. QED
      BY <1>0, <2>3, <3>1, <3>2
  <2>5. \A f \in Fingerprint : receipt'[f] # NoRoot => receipt'[f].step_count <= Len(steps')
    <3> SUFFICES ASSUME NEW f \in Fingerprint, receipt[f] # NoRoot
                 PROVE  receipt[f].step_count <= Len(steps')
      BY <2>2
    <3>1. receipt[f].step_count <= Len(steps) /\ receipt[f].step_count \in Nat
      BY DEF ProvTyped, ProvTypeOK
    <3>2. QED
      BY <1>0, <2>3, <3>1
  <2>6. QED
    BY <2>2, <2>3, <2>4, <2>5 DEF ProvTyped, ProvTypeOK
(* The receipt of one chain changes.                                        *)
<1>2. ASSUME NEW f \in Fingerprint, NEW r, receipt' = [receipt EXCEPT ![f] = r], UNCHANGED steps,
             r # NoRoot => r.step_count \in Nat /\ r.step_count <= Len(steps)
      PROVE  ProvTyped'
  <2>1. /\ receipt'[f] = r /\ \A g \in Fingerprint \ {f} : receipt'[g] = receipt[g]
        /\ receipt' = [g \in Fingerprint |-> receipt'[g]]
    BY <1>2 DEF ProvTyped
  <2>2. receipt' \in [Fingerprint -> {receipt'[g] : g \in Fingerprint}]
    BY <2>1
  <2>3. QED
    BY <1>2, <2>1, <2>2 DEF ProvTyped, ProvTypeOK
<1>3. ASSUME NEW f \in Fingerprint, Bind(f) PROVE ProvTyped'
  <2> DEFINE r == finalize(steps, f)
  <2>1. r.step_count = Len(steps)
    BY DEF finalize
  <2>2. receipt' = [receipt EXCEPT ![f] = r] /\ UNCHANGED steps
    BY <1>3 DEF Bind
  <2> HIDE DEF r
  <2>3. r.step_count \in Nat /\ r.step_count <= Len(steps)
    BY <1>0, <2>1
  <2>4. QED
    BY <1>2, <2>2, <2>3
<1>4. ASSUME NEW f \in Fingerprint, NEW g \in Fingerprint, Attach(f, g) PROVE ProvTyped'
  <2>1. receipt[g].step_count <= Len(steps) /\ receipt[g].step_count \in Nat
    BY <1>4 DEF Attach, ProvTyped, ProvTypeOK
  <2>2. QED
    BY <1>2, <1>4, <2>1 DEF Attach
<1>5. CASE UNCHANGED provVars
  BY <1>5 DEF provVars, ProvTyped, ProvTypeOK
<1>6. QED
  BY <1>1, <1>3, <1>4, <1>5 DEF ProvNext

(* A call has a status once it has returned; an error text is of a call the *)
(* thread has made.                                                         *)
StatusWhenReturned(b) == IF b.pc = "returned" THEN b.status \in A1Status ELSE b.status = ""

FfiTyped ==
  /\ revoked \subseteq FfiCert /\ consumed \subseteq FfiCert /\ storeNo \in 1..MaxStores
  /\ \A u \in FfiThread :
       /\ lastError[u] \in 0..ffi[u].n
       /\ ffi[u].fn \in Authorizing \cup {"cert_revoke", "none"}
       /\ StatusWhenReturned(ffi[u])

LEMMA FfiTypedIsTypeOK == FfiTyped => FfiTypeOK
<1>1. ASSUME NEW u \in FfiThread, StatusWhenReturned(ffi[u])
      PROVE  ffi[u].status \in IF ffi[u].pc = "returned" THEN A1Status ELSE {""}
  <2>1. CASE ffi[u].pc = "returned"
    BY <1>1, <2>1 DEF StatusWhenReturned
  <2>2. CASE ffi[u].pc # "returned"
    BY <1>1, <2>2 DEF StatusWhenReturned
  <2>3. QED
    BY <2>1, <2>2
<1>2. QED
  BY <1>1 DEF FfiTyped, FfiTypeOK

LEMMA FfiTypesInit == FfiInit => FfiTyped
<1> SUFFICES ASSUME FfiInit PROVE FfiTyped
  OBVIOUS
<1>1. revoked = {} /\ consumed = {} /\ storeNo = 1 /\ storeNo \in 1..MaxStores
  BY FfiAssumption DEF FfiInit
<1>2. \A u \in FfiThread :
        lastError[u] = 0 /\ ffi[u].n = 0 /\ ffi[u].fn = "none" /\ ffi[u].pc = "returned" /\ ffi[u].status = "A1Ok"
  BY DEF FfiInit
<1>3. \A u \in FfiThread : StatusWhenReturned(ffi[u])
  BY <1>2 DEF StatusWhenReturned, A1Status
<1>4. QED
  BY <1>1, <1>2, <1>3 DEF FfiTyped

LEMMA FfiTypesStep == ASSUME FfiInv, FfiTyped, [FfiNext]_ffiVars PROVE FfiTyped'
<1>0. FfiTypes /\ FfiTypes'
  BY FfiInvStep DEF FfiInv
<1>1. storeNo' \in 1..MaxStores
  <2>1. UNCHANGED storeNo \/ NewNonceStore
    BY DEF FfiNext, ffiVars, FfiEnter, Parse, Panic, Revoke, Check, Consume, Write, Fail
  <2>2. QED
    BY <2>1, FfiAssumption DEF FfiTyped, NewNonceStore
(* One call moves on, and its thread may get an error text.                 *)
<1>2. ASSUME NEW th \in FfiThread,
             \/ UNCHANGED lastError
             \/ set_last_error(th) /\ ffi'[th].n = ffi[th].n,
             \A u \in FfiThread \ {th} : ffi'[u] = ffi[u],
             ffi'[th].n >= ffi[th].n,
             StatusWhenReturned(ffi'[th])
      PROVE  FfiTyped'
  <2>1. \A u \in FfiThread : lastError'[u] \in Nat /\ ffi'[u].n \in Nat /\ lastError[u] \in Nat
                             /\ ffi'[u].fn \in Authorizing \cup {"cert_revoke", "none"} /\ ffi[u].n \in Nat
    BY <1>0 DEF FfiTypes, FfiRecord
  <2>2. \A u \in FfiThread : lastError'[u] <= ffi'[u].n
    <3> SUFFICES ASSUME NEW u \in FfiThread PROVE lastError'[u] <= ffi'[u].n
      OBVIOUS
    <3>1. lastError[u] <= ffi[u].n
      BY DEF FfiTyped
    <3>2. CASE u # th
      <4>1. lastError'[u] = lastError[u]
        BY <1>0, <1>2, <3>2 DEF FfiTypes, set_last_error
      <4>2. QED
        BY <1>2, <3>1, <3>2, <4>1
    <3>3. CASE u = th
      <4>1. lastError'[th] = lastError[th] \/ (lastError'[th] = ffi[th].n /\ ffi'[th].n = ffi[th].n)
        BY <1>0, <1>2 DEF FfiTypes, set_last_error
      <4>2. QED
        BY <1>2, <2>1, <3>1, <3>3, <4>1
    <3>4. QED
      BY <3>2, <3>3
  <2>3. \A u \in FfiThread : StatusWhenReturned(ffi'[u])
    BY <1>2 DEF FfiTyped
  <2>4. QED
    BY <1>0, <1>1, <2>1, <2>2, <2>3 DEF FfiTypes, FfiTyped
<1>3. ASSUME NEW th \in FfiThread, NEW st \in A1Status, Returned(th, st), UNCHANGED lastError \/ set_last_error(th)
      PROVE  FfiTyped'
  <2>1. PICK b \in FfiRecord : /\ ffi' = [ffi EXCEPT ![th] = b]
                               /\ b.pc = "returned" /\ b.status = st /\ b.n = ffi[th].n
    BY <1>0, <1>3, ReturnedIs
  <2>2. ffi'[th] = b /\ (\A u \in FfiThread \ {th} : ffi'[u] = ffi[u]) /\ ffi[th].n \in Nat
    BY <1>0, <2>1 DEF FfiTypes, FfiRecord
  <2>3. StatusWhenReturned(b)
    BY <2>1 DEF StatusWhenReturned
  <2>4. QED
    BY <1>2, <1>3, <2>1, <2>2, <2>3
(* A call that goes on has no status yet.                                   *)
<1>4. ASSUME NEW th \in FfiThread, NEW pc \in {"check", "consume", "write"}, ffi[th].pc # "returned",
             ffi' = [ffi EXCEPT ![th].pc = pc], UNCHANGED lastError
      PROVE  FfiTyped'
  <2>1. /\ ffi'[th].n = ffi[th].n /\ ffi'[th].status = ffi[th].status /\ ffi'[th].pc = pc
        /\ \A u \in FfiThread \ {th} : ffi'[u] = ffi[u]
        /\ ffi[th].n \in Nat
    <3>0. FfiTypes /\ pc \in {"check", "consume", "write"} /\ ffi' = [ffi EXCEPT ![th].pc = pc]
      BY <1>0, <1>4
    <3>1. PICK b \in FfiRecord :
            /\ ffi' = [ffi EXCEPT ![th] = b]
            /\ b.pc = pc /\ b.status = ffi[th].status
            /\ b.n = ffi[th].n /\ b.cert = ffi[th].cert /\ b.since = ffi[th].since /\ b.fn = ffi[th].fn
      BY <3>0, MovedIs
    <3>2. QED
      BY <3>0, <3>1 DEF FfiTypes, FfiRecord
  <2>2. StatusWhenReturned(ffi'[th])
    BY <1>4, <2>1 DEF FfiTyped, StatusWhenReturned
  <2>3. QED
    BY <1>2, <1>4, <2>1, <2>2
<1>5. ASSUME NEW th \in FfiThread, NEW fn, NEW c, NEW a, NEW f, FfiEnter(th, fn, c, a, f)
      PROVE  FfiTyped'
  <2>1. /\ ffi'[th].n = ffi[th].n + 1 /\ ffi'[th].status = "" /\ ffi'[th].pc = "parse"
        /\ \A u \in FfiThread \ {th} : ffi'[u] = ffi[u]
        /\ ffi[th].n \in Nat /\ UNCHANGED lastError
    BY <1>0, <1>5 DEF FfiTypes, FfiRecord, FfiEnter
  <2>2. StatusWhenReturned(ffi'[th])
    BY <2>1 DEF StatusWhenReturned
  <2>3. ffi'[th].n >= ffi[th].n
    <3>1. ffi[th].n \in Nat /\ ffi'[th].n = ffi[th].n + 1
      BY <2>1
    <3>2. QED
      BY <3>1
  <2>4. QED
    BY <1>2, <2>1, <2>2, <2>3
<1>6. ASSUME NEW th \in FfiThread, NEW e \in A1Status, Fail(th, e) PROVE FfiTyped'
  BY <1>3, <1>6 DEF Fail, a1_error_to_status, A1Status
<1>7. ASSUME NEW th \in FfiThread, Parse(th) PROVE FfiTyped'
  <2>1. CASE Fail(th, "A1ErrUnknown") \/ Fail(th, "A1ErrWireFormat")
    BY <1>6, <2>1 DEF A1Status
  <2>2. CASE ffi' = [ffi EXCEPT ![th].pc = "check"] /\ UNCHANGED lastError
    BY <1>4, <1>7, <2>2 DEF Parse
  <2>3. QED
    BY <1>7, <2>1, <2>2 DEF Parse
<1>8. ASSUME NEW th \in FfiThread, Panic(th) \/ Revoke(th) PROVE FfiTyped'
  BY <1>3, <1>8 DEF Panic, Revoke, A1Status
<1>9. ASSUME NEW th \in FfiThread, Check(th) PROVE FfiTyped'
  <2>1. CASE Fail(th, "A1ErrRevoked")
    BY <1>6, <2>1 DEF A1Status
  <2>2. CASE ffi' = [ffi EXCEPT ![th].pc = "consume"] /\ UNCHANGED lastError
    BY <1>4, <1>9, <2>2 DEF Check
  <2>3. QED
    BY <1>9, <2>1, <2>2 DEF Check
<1>10. ASSUME NEW th \in FfiThread, Consume(th) PROVE FfiTyped'
  <2>1. CASE Fail(th, "A1ErrNonceReplay")
    BY <1>6, <2>1 DEF A1Status
  <2>2. CASE ffi' = [ffi EXCEPT ![th].pc = "write"] /\ UNCHANGED lastError
    BY <1>4, <1>10, <2>2 DEF Consume
  <2>3. QED
    BY <1>10, <2>1, <2>2 DEF Consume
<1>11. ASSUME NEW th \in FfiThread, Write(th) PROVE FfiTyped'
  BY <1>3, <1>11 DEF Write, A1Status
<1>12. CASE NewNonceStore \/ UNCHANGED ffiVars
  <2>1. UNCHANGED <<ffi, lastError>>
    BY <1>12 DEF NewNonceStore, ffiVars
  <2>2. QED
    BY <1>0, <1>1, <2>1 DEF FfiTypes, FfiTyped
<1>13. QED
  BY <1>5, <1>7, <1>8, <1>9, <1>10, <1>11, <1>12 DEF FfiNext

(* What is proved of each part, and its types.                              *)
LibraryInv ==
  /\ MemInv /\ TypeOK
  /\ RedisInv /\ RedisTypeOK
  /\ DnbInv /\ DnbTypeOK
  /\ RevInv
  /\ DbInv /\ DbTypeOK
  /\ RateInv /\ RateTyped
  /\ TreeTypeOK
  /\ ProvTyped
  /\ FfiInv /\ FfiTyped

(* Each part takes a step of its own or stays as it is.                     *)
LEMMA EachPartSteps ==
  ASSUME [MCNext]_allVars
  PROVE  /\ [Next]_vars /\ [RedisNext]_redisVars /\ [DnbNext]_dnbVars
         /\ [RevNext]_revVars /\ [DbNext]_dbVars
         /\ [RateNext]_rateVars /\ [TreeNext]_treeVars /\ [ProvNext]_provVars /\ [FfiNext]_ffiVars
<1>1. CASE MCNext
  BY <1>1 DEF MCNext, nonceVars, revokeVars, treesVars
<1>2. CASE UNCHANGED allVars
  BY <1>2 DEF allVars, nonceVars, revokeVars, treesVars
<1>3. QED
  BY <1>1, <1>2

(* Every part of the library keeps to its types, for any callers, keys,     *)
(* lists and bounds: expiry times stay within a u64, counts within their    *)
(* limits, the places of batches, traces and trees within what they are     *)
(* places of.                                                               *)
THEOREM LibraryTypesAlways == MCSpec => []LibraryTypeOK
<1>1. MCInit => LibraryInv
  BY MemInvInit, MemTypesInit, RedisInvInit, RedisTypesInit, DnbInvInit, DnbTypesInit, RevInvInit,
     DbInvInit, DbTypesInit, RateInvInit, RateTypesInit, TreeTypesInit, ProvTypesInit,
     FfiInvInit, FfiTypesInit
     DEF MCInit, LibraryInv
<1>2. LibraryInv /\ [MCNext]_allVars => LibraryInv'
  <2> SUFFICES ASSUME LibraryInv, [MCNext]_allVars PROVE LibraryInv'
    OBVIOUS
  <2>1. MemInv' /\ TypeOK' /\ RedisInv' /\ RedisTypeOK' /\ DnbInv' /\ DnbTypeOK'
    BY EachPartSteps, MemInvStep, MemTypesStep, RedisInvStep, RedisTypesStep, DnbInvStep, DnbTypesStep
       DEF LibraryInv
  <2>2. RevInv' /\ DbInv' /\ DbTypeOK'
    BY EachPartSteps, RevInvStep, DbInvStep, DbTypesStep DEF LibraryInv
  <2>3. RateInv' /\ RateTyped' /\ TreeTypeOK' /\ ProvTyped'
    BY EachPartSteps, RateInvStep, RateTypesStep, TreeTypesStep, ProvTypesStep DEF LibraryInv
  <2>4. FfiInv' /\ FfiTyped'
    BY EachPartSteps, FfiInvStep, FfiTypesStep DEF LibraryInv
  <2>5. QED
    BY <2>1, <2>2, <2>3, <2>4 DEF LibraryInv
<1>3. LibraryInv => LibraryTypeOK
  BY FfiTypedIsTypeOK DEF LibraryInv, LibraryTypeOK, RevInv, RateTyped, ProvTyped
<1>4. QED
  BY <1>1, <1>2, <1>3, PTL DEF MCSpec
=============================================================================
