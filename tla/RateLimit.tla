------------------------------ MODULE RateLimit ------------------------------
(***************************************************************************)
(* The in-process rate limiter (MemoryRateLimitStore in registry.rs).  A   *)
(* thread reads the clock, then waits for the write lock, and counts its   *)
(* call in the window that it has read.                                    *)
(***************************************************************************)
EXTENDS Integers, FiniteSets

CONSTANTS
  Thread,        \* concurrent callers of check_and_record
  Principal,     \* keys of the buckets
  MaxPerWindow,  \* max_per_window
  WindowSecs,    \* window_secs
  MaxUptime,     \* bound: the clock stops here
  MaxAdmitted    \* bound: calls that are let through

ASSUME RateAssumption == {MaxPerWindow, WindowSecs, MaxUptime, MaxAdmitted} \subseteq Nat

VARIABLES
  uptime,
  buckets,     \* principal -> window_start_secs, count
  pending,     \* what each thread read before it waits for the lock
  admitted,    \* history: [window, nth, key] of the calls let through
  late         \* history: how many of them were Late

rateVars == <<uptime, buckets, pending, admitted, late>>

Nobody == [key |-> "nobody", at |-> 0]

RateTypeOK ==
  /\ uptime \in 0 .. MaxUptime
  /\ DOMAIN buckets \subseteq Principal
  /\ \A p \in DOMAIN buckets : buckets[p].start \in 0 .. uptime /\ buckets[p].count \in 0 .. MaxPerWindow
  /\ \A t \in Thread : pending[t] = Nobody \/ pending[t].key \in Principal
  /\ late \in Nat

RateInit ==
  /\ uptime = 0
  /\ buckets = << >>
  /\ pending = [t \in Thread |-> Nobody]
  /\ admitted = {}
  /\ late = 0

-----------------------------------------------------------------------------

(* window_secs.max(1).                                                      *)
Width == IF WindowSecs = 0 THEN 1 ELSE WindowSecs

WindowStart(t) == (t \div Width) * Width

(* check_and_record up to the lock.                                         *)
ReadClock(t, key) ==
  /\ pending[t] = Nobody
  /\ pending' = [pending EXCEPT ![t] = [key |-> key, at |-> uptime]]
  /\ UNCHANGED <<uptime, buckets, admitted, late>>

(* retain: buckets of this window and of the one before it are kept.        *)
Retained(at) == {p \in DOMAIN buckets : at - buckets[p].start < 2 * Width}

(* Plausible mistake: the limit is compared one too late.                    *)
OverLimitLate(count) == count > MaxPerWindow

OverLimit(count) == count >= MaxPerWindow

(* A call of a later window was faster: one of the same principal, which    *)
(* began a new count, or one that evicted what was counted so far.          *)
Late(key, start) ==
  \E p \in DOMAIN buckets :
    /\ buckets[p].start > start
    /\ p = key \/ buckets[p].start > start + Width

(* check_and_record under the lock.                                         *)
CheckAndRecord(t) ==
  LET key == pending[t].key
      start == WindowStart(pending[t].at)
      kept == Retained(pending[t].at)
      count == IF key \in kept /\ buckets[key].start = start THEN buckets[key].count ELSE 0
      admit == ~ OverLimit(count)
  IN /\ pending[t] # Nobody
     /\ admit => Cardinality(admitted) < MaxAdmitted
     /\ buckets' = [p \in kept \cup {key} |->
                      IF p = key THEN [start |-> start, count |-> IF admit THEN count + 1 ELSE count]
                      ELSE buckets[p]]
     /\ admitted' = IF admit
                    THEN admitted \cup {[key |-> key, window |-> start, nth |-> Cardinality(admitted),
                                         at |-> pending[t].at]}
                    ELSE admitted
     /\ late' = IF admit /\ Late(key, start) THEN late + 1 ELSE late
     /\ pending' = [pending EXCEPT ![t] = Nobody]
     /\ UNCHANGED uptime

RateTick == uptime < MaxUptime /\ uptime' = uptime + 1 /\ UNCHANGED <<buckets, pending, admitted, late>>

RateNext ==
  \/ RateTick
  \/ \E t \in Thread : CheckAndRecord(t) \/ \E key \in Principal : ReadClock(t, key)

RateSpec == RateInit /\ [][RateNext]_rateVars

-----------------------------------------------------------------------------

(* No window admits more calls of a principal than the limit, however       *)
(* callers wait for the lock; and a call that read the clock in one window  *)
(* and gets the lock after a call that read it in a later one (of the same  *)
(* principal, or two windows later of any) undoes one count at most: each   *)
(* lets at most one more limit through (check_and_record).                  *)
WindowLimit ==
  \A p \in Principal, w \in 0 .. MaxUptime :
    Cardinality({a \in admitted : a.key = p /\ a.window = w}) <= MaxPerWindow * (late + 1)
=============================================================================
