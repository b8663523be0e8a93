------------------------------ MODULE Authorize ------------------------------
(***************************************************************************)
(* The authorization of requests (authorize, authorize_batch and their     *)
(* async forms in chain.rs, called through the contexts of context.rs and  *)
(* by the gateway) by any number of concurrent tasks that share a nonce    *)
(* store and a revocation store.                                           *)
(*                                                                         *)
(* A request is checked against policy and structure in one go, without    *)
(* I/O; then it asks the revocation store about one certificate at a time, *)
(* then it hands all its nonces to try_consume_batch.  Between these       *)
(* awaits other requests run, certificates are revoked, time passes, and   *)
(* the task may be dropped (its client went away, or the process died).    *)
(*                                                                         *)
(* The nonce store is the abstract NonceLedger, which the three            *)
(* implementations refine; the revocation store is a growing set.          *)
(***************************************************************************)
EXTENDS NonceLedger, Policy

CONSTANTS
  Demands,    \* Demands[k]: what a request of kind k asks for
  Policies,   \* the PolicySet of the context, a sequence
  Hold,       \* seconds that a task may take from validation to its answer
  MaxTime     \* bound: the model's clock stops here

Request == Caller

Item == [intent : Intent, path : Scope]

Demand == [chain : DyoloChain, agent : Key, items : Seq(Item), batch : BOOLEAN]

ASSUME DemandAssumption ==
  /\ Hold \in Nat
  /\ MaxTime \in Nat
  /\ Demands \in [DOMAIN Demands -> Demand]
  /\ \A k \in DOMAIN Demands :
       /\ SeenNonces(Demands[k].chain) \subseteq Nonce
       /\ ~ Demands[k].batch => Len(Demands[k].items) = 1

VARIABLES
  kind,       \* kind[r]: the kind of the request r
  req,        \* req[r]: progress of the task that serves r
  revoked,    \* the certificates whose fingerprints are revoked
  audit       \* audit[r]: the outcomes of the audit events emitted for r

authVars == <<kind, req, revoked, audit>>

vars == <<now, ledger, call, kind, req, revoked, audit>>

Asked(r) == Demands[kind[r]]

Certs(r) == Asked(r).chain.certs

CertSet(r) == {Certs(r)[i] : i \in DOMAIN Certs(r)}

InFlight(r) == req[r].pc \in {"checking", "consuming"}

StorageFailures == {"TransientStorageFailure", "PermanentStorageFailure"}

Results ==
  {"none", "ok", "partial", "PolicyViolation", "Revoked"} \cup A1Error \cup StorageFailures

Outcomes == {"Authorized", "PolicyViolation", "StorageError", "Denied"}

(* The type invariant.  Tasks, ledger and history have their types.          *)
TypeOK ==
  /\ LedgerTypeOK
  /\ kind \in [Request -> DOMAIN Demands]
  /\ req \in [Request -> [pc : {"idle", "checking", "consuming", "done", "dropped"},
                          vt : Nat,                       \* clock at validation
                          k : Nat,                        \* next fingerprint
                          before : SUBSET DelegationCert, \* revoked by then
                          result : Results,
                          receipts : SUBSET Nat]]         \* items with a receipt
  /\ \A r \in Request : req[r].k <= Len(Certs(r)) + 1
  /\ revoked \subseteq DelegationCert
  /\ audit \in [Request -> Seq(Outcomes)]

Init ==
  /\ LedgerInit
  /\ kind \in [Request -> DOMAIN Demands]
  /\ req = [r \in Request |-> [pc |-> "idle", vt |-> 0, k |-> 1, before |-> {},
                               result |-> "none", receipts |-> {}]]
  /\ revoked = {}
  /\ audit = [r \in Request |-> <<>>]

-----------------------------------------------------------------------------

Outcome(result) ==
  CASE result = "ok" -> "Authorized"
    [] result = "PolicyViolation" -> "PolicyViolation"
    [] result = "TransientStorageFailure" -> "StorageError"
    [] OTHER -> "Denied"

(* The end of a request: its answer and, unless it is a batch, the one      *)
(* audit event that the authorize functions emit.                           *)
Finish(r, result, receipts) ==
  /\ req' = [req EXCEPT ![r].pc = "done", ![r].result = result, ![r].receipts = receipts]
  /\ audit' = IF Asked(r).batch THEN audit
              ELSE [audit EXCEPT ![r] = Append(@, Outcome(result))]
  /\ UNCHANGED <<kind, revoked>>

(* The verdict on the first item, whose validation stands for the chain.    *)
FirstVerdict(r, t) ==
  LET d == Asked(r) IN
  validate_structure(d.chain, d.agent, d.items[1].intent, d.items[1].path, t)

(* Plausible mistake: the items are not checked one by one.                  *)
ItemsUnchecked(r) == DOMAIN Asked(r).items

(* The items for which the loop of authorize_batch makes out receipts.      *)
ItemsAuthorized(r) ==
  {i \in DOMAIN Asked(r).items :
     IntentAuthorized(Asked(r).items[i].intent, Asked(r).items[i].path,
                      LeafScope(Asked(r).chain))}

(* Policy, which batches skip, and structure; there is no I/O in between.   *)
Validate(r) ==
  /\ req[r].pc = "idle"
  /\ Asked(r).items # <<>>
  /\ \/ /\ ~ Asked(r).batch
        /\ ~ check_chain(Policies, Asked(r).chain)
        /\ Finish(r, "PolicyViolation", {})
     \/ /\ Asked(r).batch \/ check_chain(Policies, Asked(r).chain)
        /\ ~ FirstVerdict(r, now).ok
        /\ Finish(r, FirstVerdict(r, now).err, {})
     \/ /\ Asked(r).batch \/ check_chain(Policies, Asked(r).chain)
        /\ FirstVerdict(r, now).ok
        /\ req' = [req EXCEPT ![r].pc = "checking", ![r].vt = now, ![r].before = revoked]
        /\ UNCHANGED <<kind, revoked, audit>>
  /\ UNCHANGED ledgerVars

(* A batch without intents is authorized at once, with no receipts.         *)
EmptyBatch(r) ==
  /\ req[r].pc = "idle"
  /\ Asked(r).items = <<>>
  /\ Finish(r, "ok", {})
  /\ UNCHANGED ledgerVars

(* Plausible mistake: the iterator advances twice per lookup.                *)
CheckEveryOther(r) ==
  /\ req[r].pc = "checking"
  /\ req[r].k <= Len(Certs(r))
  /\ \/ Certs(r)[req[r].k] \in revoked /\ Finish(r, "Revoked", {})
     \/ /\ Certs(r)[req[r].k] \notin revoked
        /\ req' = [req EXCEPT ![r].k = @ + 2]
        /\ UNCHANGED <<kind, revoked, audit>>
  /\ UNCHANGED ledgerVars

(* One await of is_revoked.                                                 *)
CheckRevoked(r) ==
  /\ req[r].pc = "checking"
  /\ req[r].k <= Len(Certs(r))
  /\ \/ Certs(r)[req[r].k] \in revoked /\ Finish(r, "Revoked", {})
     \/ /\ Certs(r)[req[r].k] \notin revoked
        /\ req' = [req EXCEPT ![r].k = @ + 1]
        /\ UNCHANGED <<kind, revoked, audit>>
     \/ \E failure \in StorageFailures : Finish(r, failure, {})
  /\ UNCHANGED ledgerVars

(* A batch with an item out of scope returns here, with the receipts of     *)
(* the other items and without consuming any nonce.                         *)
PartialBatch(r) ==
  /\ req[r].pc = "checking"
  /\ req[r].k > Len(Certs(r))
  /\ ItemsAuthorized(r) # DOMAIN Asked(r).items
  /\ Finish(r, "partial", ItemsAuthorized(r))
  /\ UNCHANGED ledgerVars

(* try_consume_batch is called with the nonces of all certificates.         *)
Consume(r) ==
  /\ req[r].pc = "checking"
  /\ req[r].k > Len(Certs(r))
  /\ ItemsAuthorized(r) = DOMAIN Asked(r).items
  /\ Invoke(r, SeenNonces(Asked(r).chain))
  /\ req' = [req EXCEPT ![r].pc = "consuming"]
  /\ UNCHANGED <<kind, revoked, audit>>

(* The store at work, which goes on when the task has been dropped.         *)
Store(r) ==
  /\ Accept(r) \/ Burn(r) \/ Reject(r) \/ Fail(r)
  /\ UNCHANGED authVars

(* Plausible mistake: an error of the store counts as success.               *)
AnswerTrusts(r) ==
  /\ req[r].pc = "consuming"
  /\ \/ call[r].st \in {"won", "failed"} /\ Finish(r, "ok", DOMAIN Asked(r).items)
     \/ call[r].st = "lost" /\ Finish(r, "NonceReplay", {})
  /\ UNCHANGED ledgerVars

(* Plausible mistake: nothing is returned for a failed call.                 *)
AnswerSilent(r) ==
  /\ req[r].pc = "consuming"
  /\ \/ call[r].st = "won" /\ Finish(r, "ok", DOMAIN Asked(r).items)
     \/ call[r].st = "lost" /\ Finish(r, "NonceReplay", {})
  /\ UNCHANGED ledgerVars

Answer(r) ==
  /\ req[r].pc = "consuming"
  /\ \/ call[r].st = "won" /\ Finish(r, "ok", DOMAIN Asked(r).items)
     \/ call[r].st = "lost" /\ Finish(r, "NonceReplay", {})
     \/ call[r].st = "failed" /\ \E failure \in StorageFailures : Finish(r, failure, {})
  /\ UNCHANGED ledgerVars

(* The future is dropped at an await: no answer, no audit event.            *)
Drop(r) ==
  /\ InFlight(r)
  /\ req' = [req EXCEPT ![r].pc = "dropped"]
  /\ UNCHANGED <<kind, revoked, audit>>
  /\ UNCHANGED ledgerVars

Revoke ==
  /\ \E r \in Request : \E cert \in CertSet(r) : revoked' = revoked \cup {cert}
  /\ UNCHANGED <<kind, req, audit>>
  /\ UNCHANGED ledgerVars

(* No task in flight outlasts Hold.                                         *)
Tick ==
  /\ Elapse
  /\ now' <= MaxTime
  /\ \A r \in Request : InFlight(r) => now' <= req[r].vt + Hold
  /\ UNCHANGED authVars

Task(r) ==
  \/ Validate(r) \/ EmptyBatch(r) \/ CheckRevoked(r)
  \/ PartialBatch(r) \/ Consume(r) \/ Answer(r)

Next ==
  \/ \E r \in Request : Task(r) \/ Store(r) \/ Drop(r)
  \/ Revoke
  \/ Tick

Safety == Init /\ [][Next]_vars

(* A task that can run runs eventually, and the store answers eventually.   *)
Spec == Safety /\ \A r \in Request : WF_vars(Task(r)) /\ WF_vars(Store(r))

-----------------------------------------------------------------------------

(* Long enough for every certificate: it may first be used drift seconds    *)
(* before issued_at, and last be validated drift seconds after expiration,  *)
(* by a task that then takes Hold seconds to reach the store.               *)
RetentionCovers ==
  \A k \in DOMAIN Demands : \A i \in DOMAIN Demands[k].chain.certs :
    LET d == Demands[k]
        cert == d.chain.certs[i]
    IN cert.expiration + d.chain.drift + Hold <= cert.issued_at - d.chain.drift + Retention

(* An empty batch is answered Ok too, but with no receipt.                  *)
Authorized(r) == req[r].result = "ok" /\ req[r].receipts # {}

(* SECURITY.md: "same nonce rejected on second use".  Two requests whose    *)
(* chains have a certificate in common are never both authorized.           *)
AuthorizesOnce ==
  \A r, s \in Request :
    r # s /\ Authorized(r) /\ Authorized(s) => CertSet(r) \cap CertSet(s) = {}

(* A certificate authorises once, however tasks interleave, calls fail and  *)
(* answers get lost, and although the store forgets nonces in the end, as   *)
(* long as its retention covers the lifetime of the certificates.           *)
OnceOnly == RetentionCovers => AuthorizesOnce

(* No request obtains a receipt, not even in a partial batch, when a        *)
(* certificate of its chain had been revoked before the request began.      *)
RevocationHonoured ==
  \A r \in Request : req[r].receipts # {} => CertSet(r) \cap req[r].before = {}

(* A batch gives out no receipt that a single request would not have got:   *)
(* each item alone passes the structural validation, although the batch     *)
(* validates the chain for its first item only.                             *)
ReceiptsValidated ==
  \A r \in Request : \A i \in req[r].receipts :
    LET d == Asked(r) IN
    validate_structure(d.chain, d.agent, d.items[i].intent, d.items[i].path, req[r].vt).ok

(* Every request that was taken up is answered, unless it is dropped.       *)
Answered == \A r \in Request : InFlight(r) ~> ~ InFlight(r)

-----------------------------------------------------------------------------

(* What makes OnceOnly inductive: a task reaches the store only with a chain *)
(* it validated within the lifetimes of its certificates, at most Hold       *)
(* seconds ago, and is authorized only by a call that won with its nonces.   *)
WithinLifetimes(r) ==
  \A i \in DOMAIN Certs(r) :
    /\ Certs(r)[i].issued_at - Asked(r).chain.drift <= req[r].vt
    /\ req[r].vt <= Certs(r)[i].expiration + Asked(r).chain.drift

CalledInTime(r) ==
  /\ call[r].st # "idle"
  /\ call[r].batch = SeenNonces(Asked(r).chain)
  /\ req[r].vt <= call[r].since
  /\ call[r].st = "won" => call[r].at <= req[r].vt + Hold

TaskInv ==
  \A r \in Request :
    /\ req[r].pc \in {"idle", "checking"} => call[r].st = "idle"
    /\ InFlight(r) => /\ WithinLifetimes(r)
                      /\ req[r].vt <= now
                      /\ now <= req[r].vt + Hold
    /\ req[r].pc = "consuming" => CalledInTime(r)
    /\ Authorized(r) => WithinLifetimes(r) /\ CalledInTime(r) /\ call[r].st = "won"
    /\ req[r].pc # "done" => req[r].receipts = {}

(* What makes RevocationHonoured inductive: the certificates passed so far  *)
(* had not been revoked when the task began.                                *)
CheckedInv ==
  \A r \in Request :
    /\ req[r].before \subseteq revoked
    /\ req[r].pc = "idle" => req[r].k = 1
    /\ InFlight(r) => \A i \in DOMAIN Certs(r) : i < req[r].k => Certs(r)[i] \notin req[r].before
    /\ req[r].pc = "consuming" => req[r].k > Len(Certs(r))
    /\ req[r].receipts # {} => \A i \in DOMAIN Certs(r) : Certs(r)[i] \notin req[r].before

(* What makes ReceiptsValidated inductive: the chain passed for its first    *)
(* item, and only items within the leaf scope get a receipt.                 *)
ValidatedInv ==
  \A r \in Request :
    /\ InFlight(r) => FirstVerdict(r, req[r].vt).ok
    /\ req[r].pc = "consuming" => ItemsAuthorized(r) = DOMAIN Asked(r).items
    /\ req[r].receipts # {} => /\ FirstVerdict(r, req[r].vt).ok
                               /\ req[r].receipts \subseteq ItemsAuthorized(r)

-----------------------------------------------------------------------------

(* spec/A1-PROTOCOL.md, C6: "Mark nonces consumed atomically with receipt   *)
(* issuance".                                                               *)
ReceiptMeansConsumed ==
  \A r \in Request : req[r].receipts # {} => call[r].st = "won"
=============================================================================
