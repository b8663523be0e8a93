------------------------------ MODULE AgentPull ------------------------------
(* pull_handler of routes/agent_connect.rs: an install command runs as a     *)
(* child process, two tasks copy its output and its errors line by line into *)
(* one bounded channel, the task that started it waits for it to end and     *)
(* sends "done". The client reads the channel as an event stream, and may go *)
(* away.                                                                     *)
EXTENDS Naturals, Sequences

CONSTANTS
  Lines,     \* pipe -> number of lines the command may write there
  Capacity,  \* of the channel (64 in the code)
  PipeSize   \* lines a pipe holds before the command blocks

ASSUME PullAssumption ==
  /\ Lines \in [DOMAIN Lines -> Nat] /\ "command" \notin DOMAIN Lines
  /\ Capacity \in Nat \ {0} /\ PipeSize \in Nat \ {0}

VARIABLES
  waiter,    \* the request, then the task that starts the command
  child,     \* the command
  written,   \* pipe -> lines the command has written
  pipe,      \* pipe -> lines in the pipe
  reader,    \* pipe -> the task that copies it
  held,      \* pipe -> the line that task has read and not yet sent
  chan,      \* events in the channel
  got,       \* events the client has read
  client     \* is the client reading

pullVars == <<waiter, child, written, pipe, reader, held, chan, got, client>>

Pipes == DOMAIN Lines

Log(i, n) == <<"log", i, n>>
Command == <<"log", "command", 0>>
Done(ok) == <<"done", ok>>

PullInit ==
  /\ waiter = "idle"
  /\ child = "none"
  /\ written = [i \in Pipes |-> 0]
  /\ pipe = [i \in Pipes |-> << >>]
  /\ reader = [i \in Pipes |-> "none"]
  /\ held = [i \in Pipes |-> << >>]
  /\ chan = << >> /\ got = << >>
  /\ client = "reading"

(* Plausible mistake: try_send: a full channel drops the event.              *)
SendOrDrop(e) ==
  chan' = IF client # "gone" /\ Len(chan) < Capacity THEN Append(chan, e) ELSE chan

(* tx.send: waits for room; once the receiver is gone it fails at once, and  *)
(* the callers ignore that.                                                  *)
Send(e) ==
  \/ client = "gone" /\ UNCHANGED chan
  \/ client # "gone" /\ Len(chan) < Capacity /\ chan' = Append(chan, e)

(* POST /v1/agents/pull arrives.                                             *)
Request ==
  /\ waiter = "idle"
  /\ waiter' = "lookup"
  /\ UNCHANGED <<child, written, pipe, reader, held, chan, got, client>>

(* No install command, or inside Docker, where the command is only shown:    *)
(* the stream is a few events that end in "done".                            *)
Lookup ==
  /\ waiter = "lookup"
  /\ \/ Send(Command) /\ waiter' = "spawn"
     \/ Send(Command) /\ waiter' = "refuse"
     \/ Send(Done(FALSE)) /\ waiter' = "end"
  /\ UNCHANGED <<child, written, pipe, reader, held, got, client>>

Refuse ==
  /\ waiter = "refuse"
  /\ Send(Done(FALSE))
  /\ waiter' = "end"
  /\ UNCHANGED <<child, written, pipe, reader, held, got, client>>

(* Plausible mistake: only the output is copied: the command's errors fill   *)
(* their pipe.                                                               *)
SpawnOneReader ==
  /\ waiter = "spawn"
  /\ \/ /\ waiter' = "wait" /\ child' = "running"
        /\ reader' = [i \in Pipes |-> IF i = "stdout" THEN "copying" ELSE "none"]
     \/ waiter' = "refuse" /\ UNCHANGED <<child, reader>>
  /\ UNCHANGED <<written, pipe, held, chan, got, client>>

(* spawn starts the command and the two copying tasks, or fails.             *)
Spawn ==
  /\ waiter = "spawn"
  /\ \/ /\ waiter' = "wait" /\ child' = "running"
        /\ reader' = [i \in Pipes |-> "copying"]
     \/ waiter' = "refuse" /\ UNCHANGED <<child, reader>>
  /\ UNCHANGED <<written, pipe, held, chan, got, client>>

(* External: the command writes a line, if the pipe has room; a pipe nobody  *)
(* reads any more refuses the line, which the command survives or not.       *)
Write(i) ==
  /\ child = "running"
  /\ written[i] < Lines[i]
  /\ written' = [written EXCEPT ![i] = @ + 1]
  /\ \/ /\ reader[i] # "closed" /\ Len(pipe[i]) < PipeSize
        /\ pipe' = [pipe EXCEPT ![i] = Append(@, Log(i, written[i] + 1))]
        /\ UNCHANGED child
     \/ /\ reader[i] = "closed"
        /\ child' \in {"running", "failed"}
        /\ UNCHANGED pipe
  /\ UNCHANGED <<waiter, reader, held, chan, got, client>>

(* External: the command ends once it has written all it had to.             *)
ChildExit ==
  /\ child = "running"
  /\ \A i \in Pipes : written[i] = Lines[i]
  /\ child' \in {"succeeded", "failed"}
  /\ UNCHANGED <<waiter, written, pipe, reader, held, chan, got, client>>

(* lines.next_line: the next line, or the end of the pipe.                   *)
TakeLine(i) ==
  /\ reader[i] = "copying"
  /\ held[i] = << >>
  /\ \/ /\ pipe[i] # << >>
        /\ held' = [held EXCEPT ![i] = <<Head(pipe[i])>>]
        /\ pipe' = [pipe EXCEPT ![i] = Tail(@)]
        /\ UNCHANGED reader
     \/ /\ pipe[i] = << >> /\ child \in {"succeeded", "failed"}
        /\ reader' = [reader EXCEPT ![i] = "closed"]
        /\ UNCHANGED <<pipe, held>>
  /\ UNCHANGED <<waiter, child, written, chan, got, client>>

(* A line that is not UTF-8 ends the loop: the task drops its end of the     *)
(* pipe and what is in it.                                                   *)
BadLine(i) ==
  /\ reader[i] = "copying"
  /\ held[i] = << >> /\ pipe[i] # << >>
  /\ reader' = [reader EXCEPT ![i] = "closed"]
  /\ pipe' = [pipe EXCEPT ![i] = << >>]
  /\ UNCHANGED <<waiter, child, written, held, chan, got, client>>

SendLine(i) ==
  /\ held[i] # << >>
  /\ Send(Head(held[i]))
  /\ held' = [held EXCEPT ![i] = << >>]
  /\ UNCHANGED <<waiter, child, written, pipe, reader, got, client>>

(* child.wait returns, and "done" carries the command's success.             *)
SendDone ==
  /\ waiter = "wait"
  /\ child \in {"succeeded", "failed"}
  /\ Send(Done(child = "succeeded"))
  /\ waiter' = "end"
  /\ UNCHANGED <<child, written, pipe, reader, held, got, client>>

Receive ==
  /\ client = "reading"
  /\ chan # << >>
  /\ got' = Append(got, Head(chan))
  /\ chan' = Tail(chan)
  /\ UNCHANGED <<waiter, child, written, pipe, reader, held, client>>

(* The client closes the stream: what is in the channel is dropped.          *)
Leave ==
  /\ client = "reading"
  /\ client' = "gone"
  /\ chan' = << >>
  /\ UNCHANGED <<waiter, child, written, pipe, reader, held, got>>

PullNext ==
  \/ Request \/ Lookup \/ Refuse \/ Spawn \/ ChildExit \/ SendDone \/ Receive \/ Leave
  \/ \E i \in Pipes : Write(i) \/ TakeLine(i) \/ BadLine(i) \/ SendLine(i)

(* The tasks run, the command goes on as long as it can, and a client that   *)
(* stays reads.                                                              *)
PullFair ==
  /\ WF_pullVars(Lookup) /\ WF_pullVars(Refuse) /\ WF_pullVars(Spawn) /\ WF_pullVars(ChildExit)
  /\ WF_pullVars(SendDone) /\ WF_pullVars(Receive)
  /\ \A i \in Pipes : WF_pullVars(Write(i)) /\ WF_pullVars(TakeLine(i)) /\ WF_pullVars(SendLine(i))

(* The channel and the pipes keep their bounds.                              *)
PullTypeOK ==
  /\ waiter \in {"idle", "lookup", "spawn", "refuse", "wait", "end"}
  /\ child \in {"none", "running", "succeeded", "failed"}
  /\ Len(chan) <= Capacity
  /\ \A i \in Pipes : written[i] <= Lines[i] /\ Len(pipe[i]) <= PipeSize

IsDone(e) == e[1] = "done"

(* The lines of pipe i in s are the first ones, each in its place.           *)
InSequence(s, i) ==
  \A p \in DOMAIN s : s[p][1] = "log" /\ s[p][2] = i =>
    /\ s[p][3] > 1 => \E q \in 1..(p - 1) : s[q] = Log(i, s[p][3] - 1)
    /\ \A q \in 1..(p - 1) : s[q][1] = "log" /\ s[q][2] = i => s[q][3] < s[p][3]

(* The tasks of pull_handler that share the channel never mix up a pipe: the *)
(* lines of one pipe reach the client in the order the command wrote them    *)
(* and without a gap, and "done" is there at most once and says what the     *)
(* command's end said.                                                       *)
StreamFaithful ==
  LET s == got \o chan
  IN  /\ \A i \in Pipes : InSequence(s, i)
      /\ \A p, q \in DOMAIN s : IsDone(s[p]) /\ IsDone(s[q]) => p = q
      /\ \A p \in DOMAIN s : IsDone(s[p]) => s[p] = Done(child = "succeeded")

(* Whatever the client does, the task that pull_handler spawned comes to its *)
(* end, and a client that stays gets "done": neither the full pipe of a      *)
(* command that writes more than fits, nor a full channel, stops them both.  *)
PullEnds ==
  waiter = "lookup" ~> waiter = "end" /\ (client = "gone" \/ \E p \in DOMAIN got : IsDone(got[p]))
=============================================================================
