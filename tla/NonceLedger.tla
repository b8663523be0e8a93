----------------------------- MODULE NonceLedger -----------------------------
(***************************************************************************)
(* What a nonce store promises (trait NonceStore of registry.rs): calls to *)
(* try_consume_batch are atomic, a batch is consumed whole or not at all,  *)
(* and a consumed nonce is remembered for at least Retention seconds.      *)
(*                                                                         *)
(* The in-memory, PostgreSQL and Redis stores are each shown to implement  *)
(* this specification, and Authorize is built on top of it.                *)
(***************************************************************************)
EXTENDS Integers

CONSTANTS
  Nonce,      \* the 16-byte nonces of the certificates
  Caller,     \* invocations of try_consume_batch, one per caller
  Retention   \* seconds for which a store must remember a consumed nonce

ASSUME RetentionAssumption == Retention \in Nat

VARIABLES
  now,        \* the store's clock, in whole seconds
  ledger,     \* ledger[n]: the consumption time of n, or Unseen
  call        \* call[c]: state of the invocation c

ledgerVars == <<now, ledger, call>>

Unseen == -1

CallState == {"idle", "open", "won", "lost", "failed"}

CallRecord == [st    : CallState,        \* open; Ok(true), Ok(false) or Err
               batch : SUBSET Nonce,
               since : Nat,              \* when the call was made
               at    : {Unseen} \cup Nat] \* when the call won

LedgerTypeOK ==
  /\ now \in Nat
  /\ ledger \in [Nonce -> {Unseen} \cup Nat]
  /\ call \in [Caller -> CallRecord]

LedgerInit ==
  /\ now = 0
  /\ ledger = [n \in Nonce |-> Unseen]
  /\ call = [c \in Caller |->
               [st |-> "idle", batch |-> {}, since |-> 0, at |-> Unseen]]

Fresh(batch) == \A n \in batch : ledger[n] = Unseen

Stamp(batch, t) == [n \in Nonce |-> IF n \in batch THEN t ELSE ledger[n]]

-----------------------------------------------------------------------------

Invoke(c, batch) ==
  /\ call[c].st = "idle"
  /\ call' = [call EXCEPT ![c] =
                [st |-> "open", batch |-> batch, since |-> now, at |-> Unseen]]
  /\ UNCHANGED <<now, ledger>>

(* Plausible mistake: the batch is accepted without a look at the ledger.    *)
AcceptBlindly(c) ==
  /\ call[c].st = "open"
  /\ \E t \in call[c].since .. now : ledger' = Stamp(call[c].batch, t)
  /\ call' = [call EXCEPT ![c].st = "won", ![c].at = now]
  /\ UNCHANGED now

(* Every nonce of the batch was fresh: all of them are consumed, and the   *)
(* caller is told so.  A database may date the rows back to the start of   *)
(* the transaction that inserts them.                                      *)
Accept(c) ==
  /\ call[c].st = "open"
  /\ Fresh(call[c].batch)
  /\ \E t \in call[c].since .. now : ledger' = Stamp(call[c].batch, t)
  /\ call' = [call EXCEPT ![c].st = "won", ![c].at = now]
  /\ UNCHANGED now

(* The batch is consumed but the caller does not learn it: the answer was  *)
(* lost on its way.  The call stays open, to be retried or to fail.        *)
Burn(c) ==
  /\ call[c].st = "open"
  /\ Fresh(call[c].batch)
  /\ \E t \in call[c].since .. now : ledger' = Stamp(call[c].batch, t)
  /\ UNCHANGED <<now, call>>

Reject(c) ==
  /\ call[c].st = "open"
  /\ ~ Fresh(call[c].batch)
  /\ call' = [call EXCEPT ![c].st = "lost"]
  /\ UNCHANGED <<now, ledger>>

Fail(c) ==
  /\ call[c].st = "open"
  /\ call' = [call EXCEPT ![c].st = "failed"]
  /\ UNCHANGED <<now, ledger>>

(* Time passes, and nonces older than the retention may be forgotten.      *)
Elapse ==
  /\ now' \in {now, now + 1}
  /\ \E old \in SUBSET {n \in Nonce : ledger[n] # Unseen /\ now' > ledger[n] + Retention} :
       ledger' = Stamp(old, Unseen)
  /\ UNCHANGED call

LedgerNext ==
  \/ \E c \in Caller : \/ \E batch \in SUBSET Nonce : Invoke(c, batch)
                       \/ Accept(c) \/ Burn(c) \/ Reject(c) \/ Fail(c)
  \/ Elapse

LedgerSpec == LedgerInit /\ [][LedgerNext]_ledgerVars

-----------------------------------------------------------------------------

Overlap(c, d) == call[c].batch \cap call[d].batch # {}

(* No nonce is won twice while it must be remembered: if two invocations   *)
(* of try_consume_batch that share a nonce both answered Ok(true), one of  *)
(* them won more than Retention seconds after the other one was made.      *)
NoDoubleWin ==
  \A c, d \in Caller :
    (/\ c # d
     /\ call[c].st = "won"
     /\ call[d].st = "won"
     /\ Overlap(c, d))
    => \/ call[d].at > call[c].since + Retention
       \/ call[c].at > call[d].since + Retention

(* The strengthening that makes NoDoubleWin inductive: the store still     *)
(* remembers every nonce that was won, or its retention has elapsed.       *)
WinRemembered ==
  \A c \in Caller : call[c].st = "won" =>
    \A n \in call[c].batch :
      \/ ledger[n] >= call[c].since
      \/ now > call[c].since + Retention

WinTimes ==
  \A c \in Caller :
    /\ call[c].since <= now
    /\ call[c].st = "won" => call[c].at \in call[c].since .. now

LedgerInv == LedgerTypeOK /\ WinTimes /\ WinRemembered /\ NoDoubleWin
=============================================================================
