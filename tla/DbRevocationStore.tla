-------------------------- MODULE DbRevocationStore --------------------------
(*****************************************************************************)
(* The PostgreSQL and Redis revocation stores (a1-pg, a1-redis), behind the  *)
(* gateway's revocation routes (routes/cert.rs). A batch is written in       *)
(* statements of a limited size, or in one pipeline, whose commands the      *)
(* server runs one after the other. The connection may be lost before,       *)
(* between or after them.                                                    *)
(*****************************************************************************)
EXTENDS Integers, Sequences, FiniteSets

CONSTANTS
  Cert,         \* fingerprints
  Malformed,    \* texts that are no fingerprint
  Lists,        \* what revoke-batch is called with: sequences of both
  Client,       \* concurrent callers
  Stores,       \* the stores: how many fingerprints are written at once (500 rows
                \* in an INSERT, one command of a pipeline), and how long they live
  Forever,      \* rows, and keys without a ttl_secs, stay
  MaxNow        \* bound: the clock stops here

ASSUME DbAssumption ==
  /\ Lists \subseteq Seq(Cert \cup Malformed)
  /\ Stores \subseteq [chunk : Nat \ {0}, ttl : Nat]
  /\ {Forever, MaxNow} \subseteq Nat /\ Forever > MaxNow

VARIABLES
  backend,    \* the store that is configured
  t,          \* the server's clock
  gone,       \* rows or keys: fingerprint -> the first instant without it
  job,        \* the revoke or revoke-batch request of each client
  acked       \* history: fingerprints reported revoked -> begin of the last such request

dbVars == <<backend, t, gone, job, acked>>

Free == [list |-> << >>, written |-> {}, since |-> 0, st |-> "free"]

(* revoke_batch_handler: the places of the list that parse; the rest is set  *)
(* aside and listed as failed in the answer.                                 *)
Parsed(list) == {i \in DOMAIN list : list[i] \in Cert}

DbTypeOK ==
  /\ backend \in Stores
  /\ t \in 0 .. MaxNow
  /\ DOMAIN gone \subseteq Cert
  /\ \A c \in Client : job[c].st \in {"free", "open"} /\ job[c].written \subseteq Parsed(job[c].list)
  /\ DOMAIN acked \subseteq Cert

DbInit ==
  /\ backend \in Stores
  /\ t = 0
  /\ gone = << >>
  /\ job = [c \in Client |-> Free]
  /\ acked = << >>

-----------------------------------------------------------------------------

IsRevoked(fp) == fp \in DOMAIN gone /\ gone[fp] > t

(* revoke_batch_handler hands what parsed to the store; revoke_handler is a *)
(* list of one that must parse.                                             *)
OpenBatch(c, list) ==
  /\ job[c].st = "free"
  /\ job' = [job EXCEPT ![c] = [list |-> list, written |-> {}, since |-> t, st |-> "open"]]
  /\ UNCHANGED <<backend, t, gone, acked>>

(* Rows that are there already stay as they are (ON CONFLICT DO NOTHING);   *)
(* SET and SETEX start the time to live anew.                               *)
Written(fps) ==
  [fp \in DOMAIN gone \cup fps |->
     IF fp \in fps THEN (IF backend.ttl = Forever THEN Forever ELSE t + backend.ttl) ELSE gone[fp]]

(* The next chunk of a request: the first places that are still to be       *)
(* written, as many as one statement takes.                                 *)
Chunk(job_c) ==
  LET todo == Parsed(job_c.list) \ job_c.written
  IN {i \in todo : Cardinality({j \in todo : j < i}) < backend.chunk}

(* Plausible mistake: every chunk is taken from the start of the slice.      *)
FirstRows(job_c) ==
  LET all == Parsed(job_c.list)
  IN {job_c.list[i] : i \in {k \in all : Cardinality({j \in all : j < k}) < backend.chunk}}

Rows(job_c) == {job_c.list[i] : i \in Chunk(job_c)}

(* One statement takes effect, and its reply may be lost, which ends the    *)
(* request with an error.                                                   *)
WriteChunk(c) ==
  /\ job[c].st = "open"
  /\ job[c].written # Parsed(job[c].list)
  /\ gone' = Written(Rows(job[c]))
  /\ \/ job' = [job EXCEPT ![c].written = @ \cup Chunk(job[c])]
     \/ job' = [job EXCEPT ![c] = Free]
  /\ UNCHANGED <<backend, t, acked>>

(* A statement fails before it takes effect.                                *)
WriteFails(c) ==
  /\ job[c].st = "open"
  /\ job[c].written # Parsed(job[c].list)
  /\ job' = [job EXCEPT ![c] = Free]
  /\ UNCHANGED <<backend, t, gone, acked>>

Asked(job_c) == {job_c.list[i] : i \in Parsed(job_c.list)}

(* 200 with the number of fingerprints and the list of failures.            *)
Acknowledge(c) ==
  /\ job[c].st = "open"
  /\ job[c].written = Parsed(job[c].list)
  /\ acked' = [fp \in DOMAIN acked \cup Asked(job[c]) |->
                 IF fp \notin Asked(job[c]) \/ (fp \in DOMAIN acked /\ acked[fp] > job[c].since)
                 THEN acked[fp] ELSE job[c].since]
  /\ job' = [job EXCEPT ![c] = Free]
  /\ UNCHANGED <<backend, t, gone>>

DbTick == t < MaxNow /\ t' = t + 1 /\ UNCHANGED <<backend, gone, job, acked>>

DbNext ==
  \/ DbTick
  \/ \E c \in Client :
       \/ \E list \in Lists : OpenBatch(c, list)
       \/ WriteChunk(c)
       \/ WriteFails(c)
       \/ Acknowledge(c)

DbSpec == DbInit /\ [][DbNext]_dbVars

-----------------------------------------------------------------------------

(* An acknowledged revocation is in force: every fingerprint of a request   *)
(* that was answered with success is reported revoked from then on, for as  *)
(* long as keys live, whatever other requests failed half-way.              *)
AckedIsRevoked ==
  \A fp \in DOMAIN acked : backend.ttl = Forever \/ t < acked[fp] + backend.ttl => IsRevoked(fp)
=============================================================================
