# A1 (dyolo-kya): TLA+ models, checks and proofs

A1 lets a human principal delegate authority to software agents. A delegation is
a chain of signed certificates; each one narrows the scope (a Merkle root over
the allowed intents), the lifetime and the depth of its parent. A verifier checks
a chain, asks a revocation store about every certificate, consumes the nonces of
all certificates in a nonce store, and only then gives out a receipt. Around this
core stand passports and swarms (named sets of capabilities), negotiation between
agents, human approvals, a log of reasoning steps, a C interface, and a gateway
that offers all of it over HTTP, keeps passport files, and edits the configuration
of the agents it finds on the machine.

This directory models the system from the Rust sources, model-checks it with TLC on
small instances and proves with TLAPS, for every value of the constants, every safety
property that the passing runs check, the refinements of the abstract nonce store by
the three stores included. Liveness is model-checked only.

## 1. Inventory

| Part | Source | State | Operations | What makes it correct |
|---|---|---|---|---|
| Certificates, chain | `src/cert.rs`, `src/chain.rs` | list of certificates | `build`, `push`, `validate_structure` | authority only narrows; honest chains pass; agreement with `spec/A1-PROTOCOL.md` |
| Scope trees | `src/intent.rs` | none | `build`, `prove`, `verify_and_derive_root` | a path proves membership and nothing else, hop after hop |
| Policy | `src/policy.rs` | list of policies | `check_chain` | evaluated before anything else, for single requests |
| Authorization | `src/chain.rs`, `src/context.rs` | one task per request | `authorize`, `authorize_batch`, async forms | once only; revocation honoured; answered |
| Nonce stores | `src/registry.rs`, `a1-pg`, `a1-redis` | consumed nonces with their times | `try_consume`, `try_consume_batch`, `is_consumed`, pruning and expiry | a batch is taken whole or not at all; no nonce is won twice while it is remembered |
| Revocation stores | same | revoked fingerprints | `revoke`, `revoke_batch`, `is_revoked` | a growing set that readers see atomically; what was acknowledged is in force |
| Rate limiter | `src/registry.rs` | one bucket per principal | `check_and_record` | at most n calls per window |
| Audit | `src/audit.rs` | batch, channel | `emit`, `flush_batch` | events neither lost nor reordered while the sink lives |
| Passports, swarms | `src/passport`, `src/swarm.rs`, `src/identity/narrowing.rs` | members, masks | `issue_sub`, `guard`, `add_member`, `evict_expired`, `chain_for_member` | the guard grants only what every certificate grants; holders can act |
| Provenance | `src/provenance.rs` | step log | `record`, `finalize`, `step_proof`, `verify` | only recorded steps can be disclosed, and all of them can |
| Negotiation, approvals | `src/negotiate.rs`, `src/governance.rs` | none | request, offer, acceptance; sign, verify | what is honoured was signed in every field it relies on |
| C interface | `src/ffi.rs` | stores, last error per thread | `authorize_*`, `cert_revoke`, stores | once only, own error text |
| Gateway: certificates | `routes/cert.rs` | idempotency caches | issue, issue-batch, revoke | a request repeated while the first answer is kept signs nothing new |
| Gateway: JWT, MCP bridges | `routes/jwt_bridge.rs`, `routes/mcp.rs` | key cache | exchange, tool calls | withdrawn keys die out; one "authorized" per certificate |
| Gateway: passport files | `routes/passports.rs` | files, revocation store | issue, renew, list, read, restore, revoke | revoked passports stay away while the store answers; renewal grants what was asked for or what the file claims |
| Gateway: webhooks | `routes/webhook.rs`, `main.rs` | detached tasks | `dispatch`, `deliver`, shutdown | a grant is reported |
| Gateway: agents | `routes/agent_connect.rs`, `agent_patch.rs`, `agent_relay.rs`, `automagic.rs` | other programs' files, processes and login entries | scan, connect, disconnect, pull, write, probe, autostart | what the user wrote is lost by named causes only; streams end |
| Encodings, cryptography | `src/wire.rs`, `src/crypto.rs`, `src/did.rs`, `src/hybrid.rs`, `src/zk.rs`, `src/anchor.rs` | none | conversions | round trips |
| Clients | `a1-cli`, `sdk/*`, `studio` | none | HTTP calls | |

The parts interact by plain calls inside the library, by `await`ed calls from
authorization tasks to the two stores, by spawned tasks and channels (webhooks, audit
batches, install output), through files that nothing locks, and over HTTP. All tasks
of a gateway, and all gateways of a deployment, share the stores. The hard behaviours
are

* interleaving: between the awaits of one request other requests run, certificates
  are revoked and time passes; handlers read a file, await, and write it back; the
  in-memory stores read a Bloom filter without a lock;
* failure: a statement fails, a commit or a script takes effect but its answer is
  lost, the retry meets its own effects, a pipeline runs in part, a handler future is
  dropped, the gateway stops in the middle of a write;
* forgetting: Redis keys expire, PostgreSQL rows are pruned, in-memory entries lapse
  or vanish at a restart, while the certificates may still be valid;
* messages that are repeated, delayed or altered on the way;
* waiting: bounded channels and pipes, detached tasks, batches that never fill;
* boundaries: drift tolerance, strict and non-strict comparisons of seconds,
  saturating and wrapping sums, odd layers of a tree, depth counted from one end or
  the other.

`PROJECT.json` lists each of these hazards at the line where it bites, with the
properties that would catch it going wrong.

## 2. Modules

```
NonceLedger  <--implements--  MemoryNonceStore, RedisNonceStore (MCLibrary)
     ^       <--implements--  PgNonceStore                      (MCCompletion)
     | EXTENDS
Authorize --EXTENDS--> Policy --EXTENDS--> Chain <--EXTENDS-- Delegation
                                             ^
                             Swarm --EXTENDS--> Passport
GatewayClock <--EXTENDS-- Negotiation, Approval, Issuance, JwtBridge
Merkle       <--EXTENDS-- ScopeTree, Provenance

MCDelegation  Delegation
MCAuthorize   Authorize
MCLibrary     MemoryNonceStore, RedisNonceStore, DefaultNonceBatch,
              MemoryRevocationStore, DbRevocationStore, RateLimit,
              ScopeTree, Provenance, Ffi
MCCompletion  PgNonceStore, Webhook, AgentPull, SiemSink
MCPassports   PassportVault, Swarm
MCGateway     Negotiation, Approval, Issuance, JwtBridge, McpBridge,
              AgentConfig, AgentFiles, AgentProbe, Autostart

proofs about
Chain_proofs         Chain; lemmas that the next three share
Authorize_proofs     NonceLedger, Authorize
Delegation_proofs    Delegation
Passports_proofs     PassportVault, Passport, Swarm
Completion_proofs    the parts of MCCompletion
Library_proofs       the parts of MCLibrary; of ScopeTree and Provenance only the types
Trees_proofs         Merkle, ScopeTree, Provenance
Gateway_proofs       the parts of MCGateway
```

The last four MC modules put parts side by side that share no state in the program. The
variable `part` is chosen in the initial state and only that part moves, so the state
spaces add up instead of multiplying; the invariants of all parts are checked in one
run.

### The nonce stores

**NonceLedger** is the abstract specification of a nonce store: a call is made
(`Invoke`), and is later decided in one atomic step: all nonces fresh and consumed
(`Accept`), a nonce already known (`Reject`), or an error (`Fail`). `Burn` is the
case that makes real stores hard: the nonces are consumed but the caller does not
learn it, and the call goes on. `Elapse` lets time pass and lets the store forget
what is older than `Retention`. Consumption is dated anywhere between the call and
the decision, because PostgreSQL dates rows to the start of the transaction.

**MemoryNonceStore** models the critical section of `try_consume` and
`try_consume_batch` as one step (the write lock is held throughout, and the clock
is read under it) and `is_consumed` as two (filter without lock, map with lock).
`store[n]` is the expiry in the map; an expired entry stays until a writer evicts
it, so the refinement mapping ignores entries whose expiry has passed.

**PgNonceStore** takes a transaction apart: `Begin`, `Count` (which fixes the
snapshot), `Commit` (insert and commit), each of which may fail
(`StatementFails`), `CommitAckLost`, and the retry loop (`Retry`, `GiveUp`).
Serializable isolation is a flag: another commit of a shared nonce after the
snapshot makes the transaction `stale`, and a stale one cannot commit.
`try_consume` and pruning run beside it.

**RedisNonceStore** runs a script or a `SET NX PX` atomically at the server; the
connection may break before or after (`Unreachable`, `ReplyLost`). `PX` drops a key
at the instant its time to live ends, so the store is shown to keep nonces for
`PxTtl - 1` ticks.

**DefaultNonceBatch** is the batch that the store traits define for stores that do
not override it: one look-up per nonce, then one mark per nonce. It does not
implement the ledger, since overlapping calls can both win; what it does promise is
that a call which begins after another was answered loses (`RepeatsLose`).

### The revocation stores and the rate limiter

**MemoryRevocationStore** makes each atomic memory access a step: every `fetch_or`
of the first loop (`SetBit`), every insertion under a shard lock (`InsertFp`), the
three loads (`LoadBit`) and the exact lookup (`ReadShard`) of a reader. `revoke` is
a batch of one. Steps are sequentially consistent: `is_revoked` loads with
`Relaxed`, so the guarantees apply to readers that are ordered after the revocation
by other synchronisation, as a request that follows the answer of a revocation is.

**DbRevocationStore** is both database stores: they differ in how much one round trip
writes (500 rows, or one command of a pipeline) and in whether keys expire. The
connection may break anywhere in between. The batch route sets malformed fingerprints
aside and reports them; `Parsed` are the places of the list that are left, so that a
fingerprint which is listed twice is written twice.

**RateLimit**: a thread reads the clock, then waits for the lock, and counts itself
in the window it computed. The window is fixed, not sliding. `late` counts the calls that
were let through `Late`: by the time such a call had the lock, a call of the same principal
in a later window, or any call more than a window later (which evicts old counts), had been
there first.

### Chains, scopes, authorization

**Chain** is `validate_structure` as an operator: the checks of one certificate in
the order of the loop, the first error, the signature batch after the loop, the
intent last. `SpecAccepts` is the verification algorithm of
`spec/A1-PROTOCOL.md` 9.2, written from the document for comparison. **Delegation**
grows chains: `Grant` is `CertBuilder::build` by the present holder, `Push` adds a
certificate that is wrong in one field (linkage, version, signature, nonce, times,
scope root, sub-scope proof). Its invariants quantify over every agent, intent,
Merkle path and verifier clock. **Policy** is `DelegationPolicy::check_cert`,
`check_chain` and `PolicySet`.

**Merkle** has what the two kinds of Merkle tree in the library share: the hash of a
node, the position of a leaf layer by layer, its neighbour, and the hash that a leaf and
a path come to (`climb`). Hashes are terms, sequences of numbers in prefix form, so that
a tree, its paths and what can be proved with them are computed as the code does.
**ScopeTree** supports the abstraction of `Chain`, which says "the intent is in the
scope": its layers carry an odd last hash up unchanged; `below` holds every hash with a
path of bounded length to the current root, and `Narrow` is `verify_and_derive_root` with
any subset of them, inner nodes included.

**Authorize** composes the core. A request is one task: `Validate` (policy and
structure, no I/O), `CheckRevoked` once per certificate, `PartialBatch` for a batch
with an item out of scope, `Consume` (the call to `try_consume_batch`), `Store` (the
abstract ledger at work, even for a dropped task), `Answer`. `Drop` cancels a task
at an await, `Revoke` revokes a certificate of a chain in use, `Tick` passes time.
`Finish` emits the audit event that the single-request functions emit and batches do
not. The revocation store appears as a growing set, which `library` establishes for
the in-memory one.

**Passport** has the operators of passports: the mask with its colliding bits,
`issue_sub`, `guard`, `guard_local`. **Swarm** uses them: swarms are created and
replaced, members enrolled, replaced, removed and evicted, and one chain at a time
(`held`) is made for a member or by `issue_sub`, by the owner or by anybody else; the
invariants then ask what that chain authorises. A member's lifetime of zero makes
`CertBuilder` panic inside the mutex, which poisons the registry (`poisoned`).

### Signed messages

**Negotiation** and **Approval** let every message be repeated, delayed and altered
in any field; a signature verifies when that key signed exactly those bytes, and
`request_signable_bytes`, `offer_signable_bytes`, `approval_signable` say which fields
the bytes are made of. Two fields of a negotiation are not covered as one would expect.
The DID of a request is signed, but the key that verifies the signature stands beside it
and need not be the DID's (`did` and `pk` are fields of their own); and the lifetime of an
offer (`offer_ttl`) is not signed, and no code compares it with a clock, so that `Accept`
takes an offer of any age with any lifetime. **Provenance** is the other tree over `Merkle`, which repeats the
last leaf up to a power of two: steps are recorded, roots taken, and paths made for the
trace as it was or as it has become.

### Gateway

**Issuance**: look-up, signing and storing of an answer are three steps with the cache
lock released in between; caches are swept when full, entries expire, a restart
empties them. Certificate lifetimes are added in 64 bits (`% (U64Max + 1)`).
**JwtBridge**: every request that finds no fresh key set fetches it; answers arrive in
any order and overwrite the cache. `lastSeen` is a history variable: when the provider
last published a key. **McpBridge**: a tool call is an HTTP request of the gateway to
itself that may break before or after the route has worked; the bodies are the sets of
their fields, compared with what the route requires.

**PassportVault**: every file-system call and every await of the revocation store is a
step. A file is absent, torn, a passport that the gateway wrote, or a document that
somebody restored. Such a document carries any certificate, or none, and claims any
namespace and capabilities beside it, since restore verifies nothing; renewal signs what
the file claims. A listing reads each file twice, and its entry has the namespace and
capabilities of the first reading and the fingerprint of the second. It makes an entry also
when the second reading fails and when the store does not answer (`Entry.answered`), as
`unwrap_or(false)` does. Two namespaces share a file, because names are sanitised on the
way to the file system, except by restore.

**AgentConfig**: a configuration text is what the handlers tell apart (does it parse, is
there an `mcpServers` section, which servers are in it) and the user's other settings,
which they should not touch. A handler reads, computes a text, and writes it later in two
steps: `OpenFile` empties the file, `FillFile` fills it. In between the user may edit and
other requests may read the empty file or write it too; opening may fail (`OpenFails`), and
the filling may break off (`FillBreaksOff`), which leaves a text that does not parse.
**AgentFiles**: writes, copies and the edit of a `.gitignore` empty their target and fill
it in a second step in the same way; the gateway may stop between any two. A `.gitignore`
that cannot be read counts as empty (`GitignoreRead`).
**AgentPull**: the command, its two pipes, the two copying tasks, the bounded channel,
the waiting task, the client. **AgentProbe**: one port after the other while agents
come and go. **Autostart**: the entries of three platforms and the two pairs of routes.
**Webhook** and **SiemSink**: detached tasks, with shutdown and with failing writes.
**Ffi**: calls from several threads, one parse, check, consume or write per step; a chain
counts as `authorised` also when the answer does not fit the caller's buffer.

### Abstractions

Hashes and signatures are ideal; except in `ScopeTree` and `Provenance` a scope root is
the set it commits to and a Merkle path is the tree it was cut from; a fingerprint is
the certificate; an intent is a model value; namespaces only change the principal's
scope and are not distinguished in chains. Unix times are far below 2^64, so outside
`MemoryNonceStore` and `Issuance` sums of seconds are plain sums. One clock serves
verifier and store, as the drift tolerance is meant for the clocks of issuers. Requests
that end at once with an error and change nothing are left out where no property is
about them. Each module holds, next to a definition, the plausible mistakes that its
properties are able to tell from the code.

## 3. Runs

| Run | Result | Question |
|---|---|---|
| `delegation` | pass | With up to one certificate wrong in some field: does authority stay within every scope, could each delegator have acted itself, does the verifier accept only what the protocol document accepts, and is no honest chain refused? |
| `authorize` | pass | Does a certificate authorise once, is revocation honoured, do batches give out nothing extra? |
| `progress` | pass | Is each request that is not dropped answered? |
| `library` | pass | Do the in-memory and Redis nonce stores implement the ledger, and do unlocked probes miss nothing? Does the inherited batch refuse repetitions? Is the lock-free revocation store an atomic growing set, and is an acknowledged database revocation in force? Does the limiter keep its limit, and how much does a late call undo? Do Merkle paths prove membership and only that, under repeated narrowing and for every length of a trace? Does the C interface authorise once, short buffers included, and tell each thread its own error? |
| `completion` | pass | Do overlapping, failing and retried transactions implement the ledger, and does each call return? Is a grant reported, does an install stream end in order, does every audit event reach the wire? |
| `passports` | pass | Do revoked passports stay out of the listings the store answers and out of the directory, does renewal grant only what was asked for or what a restored document claims, is the guard sound in spite of colliding mask bits, and can holders act? |
| `gateway` | pass | Do negotiation and approval honour only what was signed? Is an issuance that is repeated while its answer is kept answered and not repeated? Do bridge certificates stay within their tokens and withdrawn keys die out? Do the routes that edit other programs' files lose what the user wrote by the named causes only? Is a scan complete and without repetition, is autostart off when it is said to be, is a model told "authorized" once? |
| `pg_ok_false` | violation | `Ok(false)` "none are inserted" fails when a commit acknowledgement is lost and the transaction is retried |
| `short_retention` | violation | A retention shorter than the lifetime of a certificate lets it authorise twice; the gateway's Redis store keeps nonces for a day, whatever the certificates say |
| `partial_batch` | violation | A partly refused batch hands out receipts without consuming nonces |
| `disconnect_removes` | violation | Connecting an agent whose `mcpServers` is empty writes a text that is no JSON, and disconnecting it reports success without removing A1 |
| `mcp_revoke` | violation | The MCP tool `a1_revoke` posts `fingerprint`, the route wants `fingerprint_hex`: nothing is revoked |

`AcceptedBySpec` leaves out two boundary cases in which the code is laxer than the
document: `chain.rs:296` still accepts at `expiration_unix = now - drift`, where
`spec/A1-PROTOCOL.md:318` asks for a strict inequality, and the verifier does not
reject `issued_at >= expiration_unix` (rule C3, line 495), which only the builder
checks. Everything else the code accepts, the document accepts.

**What the grouped properties say.** Where one question has two sides, or several parts
make the same promise, the runs check their conjunction; the conjuncts are defined and
explained next to it.

| Property | Conjuncts |
|---|---|
| `RevocationAtomic` | `RevokeTakesEffect`: what was acknowledged is seen; `ReadIsAtomic`: an answer about a fingerprint was true at an instant of the call (of one fingerprint; a batch becomes visible one by one) |
| `ScopeProofsExact` | `MembersProvable`, `ScopeNeverWidens`: a path for each granted intent, and for no other |
| `DisclosureExact` | `DisclosedWasRecorded`, `CoveredCanBeDisclosed`: the same of reasoning steps, at their own index |
| `ThreadsApart` | `AuthorisedOnceUnrevoked`, `OwnErrorText`: callers of the C interface neither share an authorisation, not even one whose answer did not fit, nor mix up their errors |
| `WorkFaithful` | `StreamFaithful`, `SiemInOrder`, `SiemForgetsNothing`: order and completeness of what goes through channels |
| `WorkEnds` | `GrantReported`, `PullEnds`, `SiemDelivers`: liveness of the background work; `GrantReported` promises nothing of a gateway that stops, which takes its detached tasks with it |
| `RevokedStaysAway` | `RevokedNotListed`, `RevokedStaysGone`: in listings that the store answers, and in the directory |
| `GuardExact` | `GuardSound`, `HolderCanAct`: the guard grants what every certificate grants, no more and no less |
| `HonouredWasSigned` | `OfferAuthentic` of negotiation (`CertWasAsked`: key, intent, nonce, recent, for no shorter a life, and listing only capabilities that the policy admits; `SameOfferAgreed`: every field but the lifetime), `HonouredWasGranted` of approvals |
| `IssuedAsAsked` | `NoReissue`: a request that begins after an answer under its key, while that answer is kept, signs nothing; `LivesAsAsked`: lifetimes do not wrap |
| `ExchangeCurrent` | `WithinToken`, `WithdrawnKeyDies`: the token and the key behind a certificate are current |
| `ConfigFaithful` | `UserEntriesKept`: the user's servers and other settings; `DisconnectedStaysOut`: A1's own entry |
| `TextsKept` | `BackupSurvives`: the file or its copy; `PatternsKept`: reported lines of the `.gitignore` |
| `ScanExact` | `ListedOnce`, `ProbeComplete` |

That no store lets a nonce be won twice while it is remembered is not checked store by
store: it follows from the refinements, which are both checked (`ImplementsLedger`,
`RedisImplementsLedger`) and proved (`MemoryStoreImplementsLedger`,
`RedisStoreImplementsLedger`, `PgStoreImplementsLedger`), together with the theorem
`LedgerNoDoubleWin` about the abstract ledger.

Several properties hold under a condition that names the race or the failure the code
does not handle, so that they say exactly how far it goes:

* `UserEntriesKept` says that what the user wrote is lost only by one of these: it was
  written after a request had read the file; the text had no `mcpServers` and was replaced
  as a whole, or could not be read; filling the file broke off; two requests wrote it at a
  time. `owed` holds the rest, entry by entry: a stale write takes out what it has not
  seen and nothing else.
* `PatternsKept` has the same causes, and a gateway that stops while the file is empty.
* `DisconnectedStaysOut` is about texts that parse; `disconnect_removes` shows the others.
* `BackupSurvives`: one request at a time, each with a backup.
* `WindowLimit`: each `Late` call lets at most one more limit through.
* `RevokedNotListed`: when the store answered. `RevokedStaysGone`: unless the certificate
  itself is restored. `NothingExtraGranted`: or claimed by a restored document.
* `CertWasAsked` does not say that the intent is one of the capabilities listed, nor that
  the request's DID is the key's; `SameOfferAgreed` leaves out the offer's lifetime.
* `ScanExact`: an agent that is up, or down, throughout. `OffMeansOff`: on Linux.

**Bounds.** Two nonces and three callers (two where transactions are taken apart)
let batches be equal, nested and overlapping, and let a third caller arrive after
two have met. Both nonces share the filter bit in the in-memory store; of the
fingerprints in the revocation store one has all its bits covered by the other two.
Times run a step past the point at which an entry lapses; `U64Max = 3` lets the expiry
sum saturate. `MaxRetries` is 2 in `completion` (3 in the code, and in `pg_ok_false`):
a first attempt, a retry that meets its own rows, and giving up all happen. The
in-memory instance has a time to live of one second; the store without one, the
gateway's default, differs only in the expiry it writes, `u64::MAX`. Chains have up to
three certificates, the first length at which a check against the parent differs from
one against the root and at which two depth limits meet; the verifier's clock runs
past the last expiry plus drift. `authorize` has two requests of six kinds (a single
sub-delegated one, batch, mixed batch, too deep for the policy, wrong agent, empty
batch) and five seconds, so that a certificate living from 1 to 2 with drift 1 can be
used, expire, and its nonce be forgotten after the retention of 4, the smallest that
`RetentionCovers` allows. `progress` uses the two kinds that take every path.

The rate limiter admits one call per window of two seconds, over three windows, to two
threads: a count is kept, begun anew, evicted and undone by a late call.
Database revocations are written in chunks of two and of one, with lists long enough
for a last, partial chunk. Scope trees have up to four leaves (one, odd and full
layers), two narrowings, and proofs of up to five hashes, longer than any honest path.
Traces have up to five steps, which pads a tree of four to eight. Channels and pipes
hold two and one items, with more lines to write than fit. `CacheLimit = 0` makes every
look-up of an issuance sweep, as it does in the code above a thousand entries; a batch
with a lifetime that overflows `U64Max = 7` is among the inputs. The key set rolls over
with and without key names, and the cached one lives two seconds. Three MCP calls let
two retries follow a lost answer. Negotiation has two requests, two offers and two
acceptances (`MaxMessages`), lifetimes within and beyond `MaxTtl`, and an offer that arrives
with its lifetime (`OfferTtl`) changed to `OtherTtl`. Four groups of agents cover each way of
finding a configuration and two agents that share one file; `Places` are the directories
that may exist, so that an agent has a first candidate and a later one, or a single one; the
user has one server and one other setting, and two requests overlap. Passport files: two
namespaces with one file and a second file, two requests, two certificates, and one upset
(`Upsets`): a restart, explored with the in-memory store, or a restored document, explored
with a database. A restored document carries an issued certificate, a foreign one or none,
and claims either namespace with all capabilities (`Claimed`). Swarms: two
keys, three capabilities of which two share a bit, chains of up to two certificates;
`Apart` (MCPassports) explores chains of `issue_sub` beside swarms without members
only, since members do not enter them.

Symmetry is used where the members of a set are interchangeable and no action chooses
among them: callers, threads and requests, the agents of `gateway`, the keys of `delegation`
and `passports`, the namespaces of `passports`. No run with a liveness property uses it.

**Fairness.** `progress` assumes weak fairness of each task, which the tokio executor
polls when it is woken, and of the store, whose client library either answers or
fails. `completion` assumes the same of each PostgreSQL call and of the webhook task,
whose request has a timeout of five seconds. For an install stream it is assumed of the
gateway's tasks, of a client that stays, and of the command: a command that hangs for
ever keeps the stream open, and the code sets no limit. For the audit sink,
`tokio::select!` picks a ready arm at random, hence strong fairness of `Recv` and
`SiemTick`; `SF(FlushOk)` says that a SIEM which is tried again and again is reached at
some time. No fairness is assumed of time, revocations, failures, shutdown or drops.

**Hold.** `Tick` lets no task outlast `Hold` seconds between validation and answer.
The gateway sets no time limit of its own, so `Hold` stands for an assumption about
the deployment. It enters `RetentionCovers`: a nonce must be kept for the lifetime of
the certificate, plus the drift on both sides, plus `Hold`. The advice at
`a1-redis/src/lib.rs:38` counts the drift once and leaves the rest to a safety
margin.

**Deadlock** checking is off: the clocks of the models stop at a bound, and a system
whose calls have all been answered rests. That something ends is stated as a liveness
property instead.

## 4. Proofs

The theorems hold for arbitrary sets of nonces, callers, keys, intents, files and
requests, for demands, chains and batches of any length, any policy, any retention
and any hold. They rest on the named assumptions of the modules (`...Assumption`). Most
of these only give a constant its type. The others are

* `DemandAssumption`: the nonces of the chains are nonces, and a single request has
  one item;
* `MemoryAssumption`, `IssuanceAssumption`, `JwtAssumption`, `DbAssumption`: the clock
  stops before 64 bits are used up, and before the value that stands for "never";
  `RedisAssumption`: a time to live is at least one tick;
* `DelegationAssumption`, `PassportAssumption`, `SwarmAssumption`: depths fit in a
  `u8` that can count to one; scopes and capability sets are finite; a passport
  without capabilities is not issued (`intent.rs:243` builds no empty tree);
* `ProbeAssumption`: no row of `AGENT_PROBES` for custom agents repeats the port of an
  earlier row, as is the case in the table of the code;
* `ConfigAssumption`, `NegotiationAssumption`, `FilesAssumption`, `PullAssumption`: names
  with a meaning of their own (`a1` among the user's servers, the gateway among the agents,
  the command among its pipes) and empty originals are left out; channels and pipes hold
  at least one item; the directory that `connect` falls back to is among the `Places`;
* `ScopeTreeAssumption`, `FfiAssumption`: there is an intent, and a nonce store.

Every theorem about a component's specification is of the form `Spec => []P`, except for
the refinements and action properties. The properties were checked by the runs before
they were proved; what each proof adds to them to be inductive is described here.

*The ledger* (Authorize_proofs). `NoDoubleWin` is not inductive: the state must also say that a
won nonce is still in the ledger, dated no earlier than its call, or that its
retention has elapsed (`WinRemembered`), and that calls win after they are made
(`WinTimes`). `LedgerInv` conjoins them; `LedgerInvariant` and `LedgerNoDoubleWin`
follow. `Burn` is why `WinRemembered` speaks of the ledger and not of the call: a
later burn of the same nonces must not be possible while they are remembered.

*The stores implement the ledger* (Library_proofs, Completion_proofs). For each store:
its initial states map to initial states of `NonceLedger`, and under its invariant each
step maps to a step of the ledger or to a stutter. `RedisInv`: a key was set `PxTtl`
ticks before it expires, which dates the consumption. `MemInv`: an entry of the map dates
from the last call that won its nonce (`EntryOfLastWin`); what was won keeps its filter
bit, and its entry until the retention is over (`WinKept`), from which `ProbeSeesWins`
follows too: the probe that does not lock misses no win that came before it. `PgInv`: the
transaction began after its call (`PgTimes`), and the count of a transaction that is not
stale still holds (`SnapshotHolds`), so that its commit is an atomic `Accept`; a commit
whose acknowledgement is lost is a `Burn`.

*Chain_proofs.* `OkMeans` turns the nested verdict of `validate_structure` into a
conjunction (`Passes`, which does not depend on the intent, and the intent check);
`OkWithinLifetimes` extracts that an accepted chain is within every lifetime, give or
take the drift. `VerdictType` says that an error is one of the declared ones. `Downwards`
is induction along a chain, from the least position at which the claim fails:
`ScopesNest` and `LifetimesNest` carry a comparison with the parent to all ancestors.

*Authorize_proofs*, beside the ledger.

* `AuthorizeOnceOnly`: the store's part of a behaviour is one of `NonceLedger`, by the
  way the model is composed (lemma `LedgerBehind`), so that `NoDoubleWin` holds of it.
  `TaskInv` follows a task from validation to its answer:
  within lifetimes at `vt`, at most `Hold` seconds ago, its call made with all nonces
  of its chain and after `vt`, authorized only by a call that won. If two authorized
  requests share a certificate, their calls share its nonce, and `NoDoubleWin` puts
  them more than `Retention` apart; but both were made and won between
  `issued_at - drift` and `expiration + drift + Hold`, which `RetentionCovers` makes
  no longer than `Retention`.
* `AuthorizeRevocationHonoured`: `CheckedInv`, a loop invariant: certificates before
  position `k` had not been revoked when the task began, and revocation only grows.
* `AuthorizeReceiptsValidated`: `ValidatedInv`, with `OkMeans`: the verdict on the
  first item carries over to any item whose intent check passes.
* `AuthorizeTypeCorrect`.

*Delegation_proofs.* Three of the four properties follow from the shape of an accepted
chain alone, whoever made it, by the lemmas of Chain_proofs, and so for chains of any
length: authority never widens, each delegator could have acted, the protocol document
accepts. That no honest chain is refused needs `DelegationInv`: as long as no
certificate was distorted, each one is as the builder made it for its parent (`Built`).

*Library_proofs*, beside the stores. `RevInv`: the bits of a batch are set before its
first fingerprint is inserted, hence what is in a shard has its bits (`ShardHasBits`), and
a reader's negative answer is true of what was there when it began (`ReaderProgress`).
`DbInv`: what was written and what was acknowledged outlives the request (`Lasting`).
`DnbInv`: what a call marked stays marked, and a call that passed its checks shares no
nonce with earlier winners. `RateInv`: as long as a call of a window would not be late, all
that was admitted in the window is in the principal's bucket (`Counted`) or forgiven, one
limit for each late call (`Forgiven`); and no window ever has more than one limit besides
what is forgiven (`LimitKept`). `FfiInv`: the nonce of a call that was authorised, whether
it could answer or not, stays consumed in its store (`AuthorisedConsumed`), and two calls
about to be answered are for different certificates (`WritersApart`).
`LibraryTypesAlways` adds the types of all parts, trees included, to these invariants; what
they leave open are bounds: that the expiry sum saturates within a `u64`, that a count
grows only below its limit and a window begins in the past, that a batch's position stays
within its slice, and that an error text is of a call the thread has made.

*Completion_proofs*, beside the PostgreSQL store. `SiemInv`: while the sink's task runs,
the batch and the channel together are the last events emitted, in order, and what was
written are the first events up to some place in the batch (`SiemQueues`). A write that fails
half-way moves that place and nothing else, so nothing is lost or overtakes, however often
the batch is written again. `PullInv`: of each pipe, what the stream has, what its task
holds and what is in the pipe are, one after the other, the lines the command has written
(`Copied`); and the closing "done" is sent once, by the waiting task, when the command's
success is settled (`DoneAtEnd`). `WorkFaithfulAlways` and `WorkTypesAlways`
follow for any number of lines and events and any size of the channels.

*Trees_proofs.* The theorems hold for trees and traces of every size. The library's
induction rules take an operator as their parameter, which the provers cannot supply, so
the proofs use induction over sets instead: a set of numbers without a least
counterexample is all of `Nat` (`NatInd`, from the well-foundedness of `<`). That a
recursive function exists and follows its equation is shown once, from the uniqueness of
its beginnings (`IterationExists`), and used for layers, positions, paths, `climb`,
powers of two and `Below`.
`ScopeProofsExactAlways` has two halves. A member can be proved: the position of a leaf
halves from layer to layer, and the hash climbed so far is the node at that position,
where an odd last hash has no neighbour and goes up as it is (`OneLayerUp`). Nothing else
can: the intents a hash is made of (`atoms`) are those of its two parts, so every hash
below a root is made of intents the root is made of (`BelowIs`), and narrowing to any such
hashes, inner nodes included, gives a root made of granted intents (`TreeInv`).
`DisclosureExactAlways`: all hashes of one layer are equally long, so a node determines its
two parts (`NodeSplits`), and a path that verifies leads, layer by layer downwards, to the
leaf at the claimed index (`VerifiedIsThere`); since a leaf binds index and content, the
claimed step is the recorded one, and a path made for a trace of another length is refused
because the number of steps is part of the root.

*Gateway_proofs.* `NegInv`: offers are told apart by their nonce, and agreements are
with offers that were made, in every field but the lifetime. `AppInv`: approvals were given in the past. `JwtInv`: a key
set in the cache, or on the way to it, was published when the provider answered. `IssInv`: the
cache remembers every answer younger than a cache entry (`Remembered`); that a lifetime
does not wrap unnoticed is arithmetic on a sum that is below both its terms. `McpInv`: a
call that was let through has spent its certificate, alone. `FilesInv`: how far a request
has come says which of file and backup holds the text (`Holds`). `GitInv`: a `.gitignore` that
is not empty has all the patterns that no named cause has lost; an empty one owes none, or
some request is filling it and has read them. `ProbeInv`: what was
found are rows already asked. `CfgInv`: what is owed to the user is in the file, or the
file is empty and it is in the text of every request that is filling it (`PathInv`); and
what a request is about to write has the entries of what it read (`CallInv`). `AutoInv`: on Linux both pairs of routes use one entry.
`GatewayTypesAlways` is the type invariant of the composed run. It is not inductive part by
part: a handler writes what it read some awaits earlier, so the state must also say that
the records of requests in flight hold keys, texts, certificates and times of the right
kind (`CallTyped`, `ExchangeTyped`, `CfgRequest`, `FilesTyped`), and that the sets of messages
whose size is bounded are finite.

*Passports_proofs.* `VaultInv`: a passport whose certificate nobody restored is in one
place: on its way to a file, or in one file, which is the one whoever revokes it will
remove, or nowhere (`Placed`); and whatever a file claims was asked for or is claimed by a
restored document (`NothingExtraGranted`, which is inductive with the types of the files).
An entry for which the store answered is of a certificate that was not revoked when the
listing began (`TaskOK`). `RevokedStaysAway` follows, through every interleaving of
listings, renewals, revocations, restores and restarts. `SwarmInv`: a passport's mask,
capabilities and certificate agree (`RootOK`), and a chain that was handed out ends
within them (`HeldOK`), although certificates signed by others may be among its earlier
ones; a certificate that is alone in its chain is as the signer built it (`SingleOK`).
`PassportTypesAlways` is the type invariant of the composed run.

Proving changed the models in four places. The condition of `WindowLimit` had been a
history of the clock; the proof needed, and `Late` now says, which calls undo a count,
and that each undoes one limit at most. A `CASE` with overlapping arms in `AgentConfig` had a value only because TLC takes
the first arm that applies; it is now an `IF`. The trees were written with recursive
operators and are now recursive functions over `Merkle`. `SiemSink` and `AgentPull` speak of
places in sequences where they filtered them, which made visible that the SIEM receives the
events in order (`SiemInOrder`), a property of its own.

**Only model-checked.** Liveness (`Answered`, `CallsReturn`, `WorkEnds`), which the prover
does not handle; and the five runs that end in a violation, whose counterexamples are what
they show. Every invariant, action property and refinement of the passing runs is stated
by a theorem.

## 5. Observations

Made while modelling, and not covered by a run of their own.

* `chain.rs:308` compares `max_depth` with the absolute position of a certificate;
  `spec/A1-PROTOCOL.md:186,319` counts what remains. The code is the stricter one.
* `authorize_batch` takes no audit sink (`chain.rs:503`); `wiki/SIEM-Integration.md:3`
  promises an event "for every authorization attempt".
* The rate limiter has fixed windows; its comment (`registry.rs:314`) says sliding.
* An approval token is valid as often as it is presented until it expires; nothing
  consumes it.
* `check_capability_policy` of the negotiation route looks at the listed capabilities,
  while the certificate is for the named intent.
* An idempotency key sent again with another body is answered with the first request's
  certificate.
* Renewal signs, with a new key, whatever namespace and capabilities the file claims
  (`passports.rs:440-476`). Restore writes JSON of any kind under any name (1054-1108), and
  neither verifies a certificate, so that a restored document, renewed, grants what nobody
  asked the gateway to issue. `NothingExtraGranted` says that nothing beyond that is granted.
* A listing shows a revoked passport, with status and capabilities, when the store does not
  answer (`passports.rs:295`, `unwrap_or(false)`), and without a fingerprint when the second
  reading of the file fails (289).
* Renewal leaves the old certificate valid. A renewal that races a revocation may write
  a passport after the file of the namespace was removed (with a new fingerprint, so
  `RevokedStaysGone` holds). The removal in a listing or revocation is by path and may
  hit a file that a renewal has just written.
* `passports.rs` revokes the one certificate in the file of a namespace; the
  documentation (`README.md:499`) speaks of all certificates issued under it.
* In the C interface `authorize_with_proof_json` sets no error text for a panic or a short buffer,
  against the contract at `ffi.rs:32`; in all functions a short buffer is found after
  the nonce is spent.
* `SiemHttpAuditSink` does not read the answer, keeps a batch of any size while the
  SIEM is away, and loses the last batch when it is dropped.
* `connect` may find `~/openclaw` while `disconnect` looks in `~/.openclaw`;
  `disconnect` looks for `.mcp.json` also for Claude Desktop, whose file has another
  name; the Python agents share the `.mcp.json` of the working directory. A
  configuration that cannot be read, or that has no `mcpServers`, is replaced as a whole,
  with every other setting in it (`agent_connect.rs:729, 833`).
* `gitignore_add_handler` takes a `.gitignore` that cannot be read for an empty one and
  replaces it (`passports.rs:1151, 1172`).
* The lifetime of an offer is not among its signed bytes, and nothing compares it with a
  clock (`negotiate.rs:142, 318`); and the DID of a request is not compared with the key beside
  it (82-101).
* A call of the rate limiter that waits for the lock while a later window begins undoes a
  count, and with it lets up to one more limit through.
* After a write that was interrupted, a second one copies the torn file over the good
  backup.
* On macOS the two pairs of autostart routes use different property lists, so that
  removing the one leaves the other.
* `a1_issue_cert` of the MCP bridge sends no `intents`, which the route requires.
* `POST /v1/passport/authorize` is the handler of `/v1/authorize`; the capability bound
  its comment mentions is not checked there.
* On platforms other than Unix the shutdown route exits at once.

## 6. Not modelled

* Wire format, certificate extensions, DIDs, anchoring, hybrid signatures and
  zero-knowledge traces: conversions and cryptography without state of their own; the
  models take what they provide as ideal.
* The claim checks of `a1-identity`, `check_intent`, governance and rotation policies,
  audit reports: pure functions that the modelled paths do not call.
* The sync-to-async adapters, which forward each call unchanged; the read-only
  operations of the database stores; lock poisoning of the in-memory stores (no code
  panics inside their critical sections).
* `agent_relay` and `ai_proxy` forward a request; `install_docker` and
  `remove_handler` run a command; the remaining routes answer from their input.
* The command line, the SDKs and the studio: clients of what is modelled.

`PROJECT.json` gives the reason part by part.

## 7. Plan

1. Done: nonce stores and their abstract specification; chain verification and
   issuance; authorization; proofs of once-only, revocation and batch soundness.
2. Done: revocation stores, inherited batch, rate limiter, scope trees, provenance,
   passports and swarms, negotiation, approvals, the C interface, and the gateway's
   stateful routes.
3. Done: the refinements of `NonceLedger` by the three stores; revocation; the rate
   limiter; the C interface; negotiation, approvals, issuance and the bridges; the
   routes that edit other programs' files; chains of any length; passport files; swarms.
4. Done: what goes through channels (`WorkFaithful`); Merkle trees and disclosures of any
   size; the type invariants of the composed runs.
5. Left: parts of section 6 that would need a finer model than ideal signatures and
   encodings; liveness, should a prover for it become available.
