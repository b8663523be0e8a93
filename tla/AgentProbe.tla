----------------------------- MODULE AgentProbe ------------------------------
(* POST /v1/agents/probe of routes/agent_relay.rs: one request after the     *)
(* other to the ports where known agents listen, then to the extra ports of  *)
(* the caller, while the agents of the machine start and stop.               *)
EXTENDS Naturals, Sequences, FiniteSets, SequencesExt

CONSTANTS
  AGENT_PROBES,   \* the rows: [agent, port]
  ExtraPorts,     \* sequences of ports a caller may add
  All             \* the filter that lets every row pass

(* No row of a custom agent has the port of a row before it.                 *)
ASSUME ProbeAssumption ==
  /\ AGENT_PROBES \in Seq([agent : STRING, port : Nat])
  /\ ExtraPorts \subseteq Seq(Nat)
  /\ \A i, j \in DOMAIN AGENT_PROBES :
       i < j /\ AGENT_PROBES[i].port = AGENT_PROBES[j].port => AGENT_PROBES[j].agent # "custom"

PortOf == {AGENT_PROBES[i].port : i \in DOMAIN AGENT_PROBES}
            \cup UNION {ToSet(e) : e \in ExtraPorts}

AgentOf == {AGENT_PROBES[i].agent : i \in DOMAIN AGENT_PROBES}

VARIABLES
  serving,   \* port -> what answers there: "none", "healthy" (below 500) or "failing"
  since,     \* port -> what answered there throughout this scan, "changed" if it changed
  filter, extra,
  row, at,   \* the next row; the next extra port
  found      \* what the answer holds so far

probeVars == <<serving, since, filter, extra, row, at, found>>

ProbeInit ==
  /\ serving \in [PortOf -> {"none", "healthy", "failing"}]
  /\ since = serving
  /\ filter \in AgentOf \cup {All} /\ extra \in ExtraPorts
  /\ row = 1 /\ at = 1 /\ found = << >>

(* An agent starts, stops, or begins to fail.                                *)
Change(p, s) ==
  /\ s # serving[p]
  /\ serving' = [serving EXCEPT ![p] = s]
  /\ since' = [since EXCEPT ![p] = "changed"]
  /\ UNCHANGED <<filter, extra, row, at, found>>

Found(a, p) == Append(found, [agent |-> a, port |-> p])

Passes(r) == filter \in {All, r.agent}

Listed(a, p) == \E e \in ToSet(found) : e.agent = a /\ e.port = p

(* Plausible mistake: one entry for a port, whichever agent it is for.       *)
ProbeRowByPort ==
  /\ row <= Len(AGENT_PROBES) /\ row' = row + 1
  /\ LET r == AGENT_PROBES[row] IN
       found' = IF Passes(r) /\ serving[r.port] = "healthy" /\ ~\E e \in ToSet(found) : e.port = r.port
                  THEN Found(r.agent, r.port) ELSE found
  /\ UNCHANGED <<serving, since, filter, extra, at>>

(* One turn of the first loop: a row that the filter passes is asked, and an *)
(* answer below 500 is noted.                                                *)
ProbeRow ==
  /\ row <= Len(AGENT_PROBES) /\ row' = row + 1
  /\ LET r == AGENT_PROBES[row] IN
       found' = IF Passes(r) /\ serving[r.port] = "healthy" /\ ~Listed(r.agent, r.port)
                  THEN Found(r.agent, r.port) ELSE found
  /\ UNCHANGED <<serving, since, filter, extra, at>>

(* Plausible mistake: an extra port that a row already found is found again. *)
ProbeExtraAgain ==
  /\ row > Len(AGENT_PROBES) /\ at <= Len(extra) /\ at' = at + 1
  /\ found' = IF serving[extra[at]] # "none" THEN Found("custom", extra[at]) ELSE found
  /\ UNCHANGED <<serving, since, filter, extra, row>>

(* One turn of the second loop: any answer on one of the four paths will do. *)
ProbeExtra ==
  /\ row > Len(AGENT_PROBES) /\ at <= Len(extra) /\ at' = at + 1
  /\ found' = IF serving[extra[at]] # "none" /\ ~\E e \in ToSet(found) : e.port = extra[at]
                THEN Found("custom", extra[at]) ELSE found
  /\ UNCHANGED <<serving, since, filter, extra, row>>

ProbeNext ==
  \/ \E p \in PortOf, s \in {"none", "healthy", "failing"} : Change(p, s)
  \/ ProbeRow \/ ProbeExtra

(* An entry of the answer names a row's agent, or a custom one.              *)
Listable == AgentOf \cup {"custom"}

ProbeTypeOK ==
  /\ DOMAIN serving = PortOf /\ DOMAIN since = PortOf
  /\ \A p \in PortOf : since[p] \in {serving[p], "changed"}
  /\ extra \in ExtraPorts
  /\ row \in 1 .. Len(AGENT_PROBES) + 1
  /\ at \in 1 .. Len(extra) + 1
  /\ found \in Seq([agent : Listable, port : PortOf])

ProbeSpec == ProbeInit /\ [][ProbeNext]_probeVars

(* Nothing is listed twice, and an extra port that a row found is not listed *)
(* again as a custom agent.                                                  *)
ListedOnce ==
  /\ \A i, j \in DOMAIN found : found[i] = found[j] => i = j
  /\ \A i, j \in DOMAIN found :
       i < j /\ found[i].port = found[j].port => found[j].agent # "custom"

ProbeDone == row > Len(AGENT_PROBES) /\ at > Len(extra)

(* A scan that has ended lists every agent that answered all the while, for  *)
(* every row its port has, whatever other agents did meanwhile; and nothing  *)
(* for a port where there was nothing all the while.                         *)
ProbeComplete ==
  ProbeDone =>
    /\ \A i \in DOMAIN AGENT_PROBES :
         Passes(AGENT_PROBES[i]) /\ since[AGENT_PROBES[i].port] = "healthy"
           => AGENT_PROBES[i] \in ToSet(found)
    /\ \A i \in DOMAIN extra : since[extra[i]] \in {"healthy", "failing"}
         => \E e \in ToSet(found) : e.port = extra[i]
    /\ \A e \in ToSet(found) : since[e.port] # "none"

(* probe_handler lists what is there, all of it and once.                    *)
ScanExact == ListedOnce /\ ProbeComplete
=============================================================================
