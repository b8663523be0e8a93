------------------------------ MODULE SiemSink -------------------------------
(* SiemHttpAuditSink of audit.rs: emit puts events in an unbounded channel,  *)
(* one background task collects them in a batch and writes the batch to the  *)
(* SIEM, when it is full or at a tick. Built with the "wire" feature,        *)
(* without which the body of every request is empty.                         *)
(*                                                                           *)
(* flush_batch does not read the answer, so what is known is what was put on *)
(* the connection. A batch that failed half-way is written again as a whole. *)
EXTENDS Integers, Sequences, SequencesExt

CONSTANTS
  SiemEvent,
  BatchSize   \* 100 in the code

ASSUME SiemAssumption == BatchSize \in Nat \ {0}

VARIABLES
  emitted,    \* the events emit was called with
  channel,    \* sent and not yet received
  siemBatch,
  wrote,      \* events put on a connection, once or more often
  siemTask,   \* "select", "flush" (inside flush_batch) or "ended"
  dropped     \* whether the sink, the only sender, is gone

siemVars == <<emitted, channel, siemBatch, wrote, siemTask, dropped>>

SiemInit ==
  /\ emitted = << >> /\ channel = << >> /\ siemBatch = << >> /\ wrote = {}
  /\ siemTask = "select" /\ dropped = FALSE

(* emit: never waits.                                                        *)
Emit(e) ==
  /\ ~dropped /\ e \notin ToSet(emitted)
  /\ emitted' = Append(emitted, e) /\ channel' = Append(channel, e)
  /\ UNCHANGED <<siemBatch, wrote, siemTask, dropped>>

DropSink ==
  /\ ~dropped /\ dropped' = TRUE
  /\ UNCHANGED <<emitted, channel, siemBatch, wrote, siemTask>>

(* The recv arm of the select.                                               *)
Recv ==
  /\ siemTask = "select" /\ channel # << >>
  /\ channel' = Tail(channel) /\ siemBatch' = Append(siemBatch, Head(channel))
  /\ siemTask' = IF Len(siemBatch') >= BatchSize THEN "flush" ELSE "select"
  /\ UNCHANGED <<emitted, wrote, dropped>>

(* recv gives None once the sender is gone and the channel is empty; the     *)
(* loop ends and the batch goes with it.                                     *)
Ended ==
  /\ siemTask = "select" /\ dropped /\ channel = << >>
  /\ siemTask' = "ended" /\ siemBatch' = << >>
  /\ UNCHANGED <<emitted, channel, wrote, dropped>>

(* Plausible mistake: only full batches are written.                         *)
TickIfFull ==
  /\ siemTask = "select" /\ Len(siemBatch) >= BatchSize
  /\ siemTask' = "flush"
  /\ UNCHANGED <<emitted, channel, siemBatch, wrote, dropped>>

(* The interval arm of the select.                                           *)
SiemTick ==
  /\ siemTask = "select" /\ siemBatch # << >>
  /\ siemTask' = "flush"
  /\ UNCHANGED <<emitted, channel, siemBatch, wrote, dropped>>

Wrote(s) == wrote' = wrote \cup ToSet(s)

(* flush_batch to its end: the batch is cleared.                             *)
FlushOk ==
  /\ siemTask = "flush" /\ siemTask' = "select"
  /\ Wrote(siemBatch) /\ siemBatch' = << >>
  /\ UNCHANGED <<emitted, channel, dropped>>

(* Plausible mistake: the batch is cleared whatever became of it.            *)
FlushFailsCleared ==
  /\ siemTask = "flush" /\ siemTask' = "select"
  /\ siemBatch' = << >>
  /\ UNCHANGED <<emitted, channel, wrote, dropped>>

(* flush_batch returns at the first error: the connection (nothing is        *)
(* written) or the write (some of it may be). The error is dropped and the   *)
(* batch stays.                                                              *)
FlushFails ==
  /\ siemTask = "flush" /\ siemTask' = "select"
  /\ \E k \in 0..Len(siemBatch) : Wrote(SubSeq(siemBatch, 1, k))
  /\ UNCHANGED <<emitted, channel, siemBatch, dropped>>

SiemNext ==
  \/ \E e \in SiemEvent : Emit(e)
  \/ DropSink \/ Recv \/ Ended \/ SiemTick \/ FlushOk \/ FlushFails

(* The select picks among its ready arms at random, so neither starves the   *)
(* other; the interval never stops; and a SIEM that keeps being tried is     *)
(* reached at some time.                                                     *)
SiemFair ==
  /\ SF_siemVars(Recv) /\ SF_siemVars(SiemTick) /\ SF_siemVars(FlushOk)
  /\ WF_siemVars(FlushOk \/ FlushFails)

(* The task is flushing only when there is something to flush.               *)
SiemTypeOK ==
  /\ emitted \in Seq(SiemEvent) /\ channel \in Seq(SiemEvent) /\ siemBatch \in Seq(SiemEvent)
  /\ wrote \subseteq SiemEvent
  /\ siemTask \in {"select", "flush", "ended"}
  /\ siemTask = "flush" => siemBatch # << >>

(* The SIEM gets the events in the order of emit: it has none of them before *)
(* all earlier ones, whatever fails (flush_batch).                           *)
SiemInOrder == \E k \in 0..Len(emitted) : wrote = {emitted[i] : i \in 1..k}

(* While the task runs no event is forgotten or out of its place, whatever   *)
(* fails: the batch and the channel together are the last events emitted,    *)
(* and those before them are written.                                        *)
SiemForgetsNothing ==
  LET past == Len(emitted) - Len(siemBatch \o channel)
  IN  siemTask # "ended" =>
        /\ past >= 0 /\ SubSeq(emitted, past + 1, Len(emitted)) = siemBatch \o channel
        /\ \A i \in 1..past : emitted[i] \in wrote

(* An event is written at last, a batch that never fills included, unless    *)
(* the sink is dropped before: then the rest of the batch is lost.           *)
SiemDelivers == \A e \in SiemEvent : e \in ToSet(emitted) ~> e \in wrote \/ dropped

SiemSpec == SiemInit /\ [][SiemNext]_siemVars /\ SiemFair
=============================================================================
