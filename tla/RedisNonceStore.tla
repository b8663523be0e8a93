---------------------------- MODULE RedisNonceStore ----------------------------
(***************************************************************************)
(* The Redis nonce store (a1-redis).  try_consume_batch runs a Lua script  *)
(* and try_consume a SET NX PX; the server runs either atomically, sets    *)
(* every key with the store's time to live, and drops a key once its time  *)
(* to live is over.  The connection may fail before the command reaches    *)
(* the server or after it ran.                                             *)
(***************************************************************************)
EXTENDS Integers

CONSTANTS
  Key,       \* the keys of the nonces
  Conn,      \* invocations of try_consume_batch or try_consume
  PxTtl,       \* nonce_ttl_ms, in ticks of the server's clock
  MaxClock

ASSUME RedisAssumption == PxTtl \in Nat \ {0} /\ MaxClock \in Nat

VARIABLES
  clock,
  expiry,    \* expiry[n]: the first instant without the key, or NoKey
  cmd,       \* as call in NonceLedger
  broken     \* the calls whose connection is lost: they can only fail

redisVars == <<clock, expiry, cmd, broken>>

NoKey == -1

(* PX drops a key at the very instant its time to live ends, so a nonce is   *)
(* only sure to be remembered for PxTtl - 1 ticks after it was consumed.     *)
RedisLedger == INSTANCE NonceLedger WITH
  Nonce <- Key, Caller <- Conn, now <- clock, call <- cmd,
  Retention <- PxTtl - 1,
  ledger <- [n \in Key |-> IF expiry[n] > clock THEN expiry[n] - PxTtl ELSE -1]

RedisTypeOK ==
  /\ clock \in 0 .. MaxClock
  /\ expiry \in [Key -> {NoKey} \cup 0 .. clock + PxTtl]
  /\ cmd \in [Conn -> RedisLedger!CallRecord]
  /\ broken \subseteq Conn

RedisInit ==
  /\ clock = 0
  /\ expiry = [n \in Key |-> NoKey]
  /\ cmd = [c \in Conn |->
               [st |-> "idle", batch |-> {}, since |-> 0, at |-> -1]]
  /\ broken = {}

-----------------------------------------------------------------------------

Exists(n) == expiry[n] > clock

(* Plausible mistake: the keys are set without restarting a time to live of  *)
(* their own.                                                                *)
SetAllKeepTtl(batch) ==
  expiry' = [n \in Key |-> IF n \in batch THEN PxTtl ELSE expiry[n]]

(* The second half of the script: SET key PX ttl, for every key.            *)
SetAll(batch) ==
  expiry' = [n \in Key |-> IF n \in batch THEN clock + PxTtl ELSE expiry[n]]

Pending(c) == cmd[c].st = "open" /\ c \notin broken

Issue(c, batch) ==
  /\ cmd[c].st = "idle"
  /\ cmd' = [cmd EXCEPT ![c] =
                [st |-> "open", batch |-> batch, since |-> clock, at |-> -1]]
  /\ UNCHANGED <<clock, expiry, broken>>

(* The script finds every key absent, sets them all and returns 1.          *)
ScriptSets(c) ==
  /\ Pending(c)
  /\ \A n \in cmd[c].batch : ~ Exists(n)
  /\ SetAll(cmd[c].batch)
  /\ cmd' = [cmd EXCEPT ![c].st = "won", ![c].at = clock]
  /\ UNCHANGED <<clock, broken>>

(* Plausible mistake: 0 is returned without a look at the keys.              *)
ScriptFindsAll(c) ==
  /\ Pending(c)
  /\ cmd' = [cmd EXCEPT ![c].st = "lost"]
  /\ UNCHANGED <<clock, expiry, broken>>

(* The script finds a key and returns 0 before it sets any.                 *)
ScriptFinds(c) ==
  /\ Pending(c)
  /\ \E n \in cmd[c].batch : Exists(n)
  /\ cmd' = [cmd EXCEPT ![c].st = "lost"]
  /\ UNCHANGED <<clock, expiry, broken>>

(* The script ran, but its result never reaches the client.                 *)
ReplyLost(c) ==
  /\ Pending(c)
  /\ IF \E n \in cmd[c].batch : Exists(n)
     THEN UNCHANGED expiry
     ELSE SetAll(cmd[c].batch)
  /\ broken' = broken \cup {c}
  /\ UNCHANGED <<clock, cmd>>

(* No connection in the pool, or the command never reached the server.      *)
Unreachable(c) ==
  /\ Pending(c)
  /\ broken' = broken \cup {c}
  /\ UNCHANGED <<clock, expiry, cmd>>

(* redis_err_to_storage: the error is returned, nothing is retried.         *)
ReturnError(c) ==
  /\ c \in broken
  /\ cmd[c].st = "open"
  /\ cmd' = [cmd EXCEPT ![c].st = "failed"]
  /\ UNCHANGED <<clock, expiry, broken>>

ServerTick ==
  /\ clock < MaxClock
  /\ clock' = clock + 1
  /\ UNCHANGED <<expiry, cmd, broken>>

RedisNext ==
  \/ \E c \in Conn :
       \/ \E batch \in (SUBSET Key) \ {{}} : Issue(c, batch)
       \/ ScriptSets(c) \/ ScriptFinds(c)
       \/ ReplyLost(c) \/ Unreachable(c) \/ ReturnError(c)
  \/ ServerTick

RedisSpec == RedisInit /\ [][RedisNext]_redisVars

-----------------------------------------------------------------------------

(* The store implements the ledger with a retention of PxTtl - 1, however    *)
(* calls race and replies get lost: the script decides a whole batch at once *)
(* and keys lapse no earlier. With LedgerNoDoubleWin (Authorize_proofs),     *)
(* no nonce is won twice before the time to live of its key is over.         *)
RedisImplementsLedger == RedisLedger!LedgerSpec
=============================================================================
