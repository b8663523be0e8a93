---------------------------- MODULE PassportVault ----------------------------
(***************************************************************************)
(* The passport files of the gateway (routes/passports.rs): one JSON file  *)
(* per namespace under ~/.a1/passports, issued, renewed, listed, read for  *)
(* backup, restored and revoked by HTTP handlers that take no lock.  Every *)
(* file-system call and every await of the revocation store is a step, so  *)
(* that handlers interleave the way threads of the runtime do.             *)
(*                                                                         *)
(* A passport is the number of its certificate, granted[fp] what it was    *)
(* issued for.  A file holds what the gateway wrote for a certificate, or  *)
(* JSON that somebody restored: nothing ties what such JSON claims beside  *)
(* the certificate to the certificate, and no handler verifies one.        *)
(* fs::write truncates and then writes.  The file of a namespace has a     *)
(* sanitised name (passport_path), restore takes any.                      *)
(***************************************************************************)
EXTENDS Integers, Sequences

CONSTANTS
  Namespace,     \* agent names
  Path,          \* files of the passports directory, without their suffix
  PathOf,        \* PathOf[ns]: the sanitised name, not injective
  Capability,    \* capability names
  Claimed,       \* what restored documents claim to be
  Request,       \* connections, each serving one request after another
  MaxPassports,  \* bound: certificates issued
  MaxRestores,   \* bound: files restored
  MaxRestarts    \* bound: restarts of the gateway

ASSUME VaultAssumption ==
  /\ Path # {}
  /\ PathOf \in [Namespace -> Path]
  /\ Claimed \subseteq [ns : Namespace, caps : SUBSET Capability]
  /\ MaxPassports \in Nat
  /\ MaxRestores \in Nat
  /\ MaxRestarts \in Nat

VARIABLES
  ephemeral,  \* the deployment keeps revocations in memory only
  disk,       \* disk[p]: content of the passport file p
  granted,    \* granted[fp]: namespace and capabilities of the certificate fp
  asked,      \* what operators have asked to be issued, for the properties
  revoked,    \* the revocation store
  ever,       \* everything that was ever revoked, restarts or not
  gone,       \* passports revoked by namespace with their file removed
  restored,   \* restored[k]: the k-th document that was restored
  task,       \* task[r]: progress of the handler that serves r
  restarts

vaultVars == <<ephemeral, disk, granted, asked, revoked, ever, gone, restored, task, restarts>>

Absent == -3          \* no such file
Torn == -2            \* empty or mixed up: not JSON
Stranger == -1        \* a certificate that was issued elsewhere
NoPassport == 0       \* JSON that DyoloPassport::load refuses

Doc(k) == -3 - k      \* the k-th restored document

Fp == 1 .. Len(granted)

Known == Fp \cup {Stranger}

Content == {Absent, Torn} \cup Fp \cup {Doc(k) : k \in DOMAIN restored}

Grant == [ns : Namespace, caps : SUBSET Capability]

(* DyoloPassport::load: the certificate that the JSON c carries, if any.     *)
Loaded(c) ==
  IF c < Absent THEN restored[-3 - c].fp ELSE IF c \in Fp THEN c ELSE NoPassport

(* The namespace and the capabilities that the JSON c claims; what names no  *)
(* namespace or capability that can be issued claims no capabilities.        *)
Claims(c) == IF c < Absent THEN restored[-3 - c].says ELSE granted[c]

RestoredFps == {restored[k].fp : k \in DOMAIN restored}

RestoredClaims == {restored[k].says : k \in DOMAIN restored}

(* PassportEntry: namespace, capabilities and status are from's, the         *)
(* fingerprint is fp's; answered when the store said that fp is not revoked. *)
Entry == [from : Content, fp : Known \cup {NoPassport}, answered : BOOLEAN]

NoEntry == [from |-> Absent, fp |-> NoPassport, answered |-> FALSE]

Idle ==
  [pc |-> "idle", path |-> CHOOSE p \in Path : TRUE, fp |-> NoPassport, from |-> Absent,
   todo |-> {}, shown |-> NoEntry, before |-> {}]

Task ==
  [pc : {"idle", "truncate", "fill", "list", "load", "check", "remove", "revoke", "unlink", "rename"},
   path : Path, fp : Content \cup Known \cup {NoPassport}, from : Content,
   todo : SUBSET Path, shown : Entry, before : SUBSET ever]

VaultTypeOK ==
  /\ ephemeral \in BOOLEAN
  /\ disk \in [Path -> Content]
  /\ granted \in Seq(Grant) /\ Len(granted) <= MaxPassports
  /\ asked \subseteq Grant
  /\ revoked \subseteq ever /\ ever \subseteq Known
  /\ gone \subseteq ever
  /\ restored \in Seq([fp : Known \cup {NoPassport}, says : Claimed])
  /\ Len(restored) <= MaxRestores
  /\ task \in [Request -> Task]
  /\ restarts \in 0 .. MaxRestarts

VaultInit ==
  /\ ephemeral \in BOOLEAN
  /\ disk = [p \in Path |-> Absent]
  /\ granted = <<>>
  /\ asked = {}
  /\ revoked = {} /\ ever = {} /\ gone = {}
  /\ restored = <<>>
  /\ task = [r \in Request |-> Idle]
  /\ restarts = 0

-----------------------------------------------------------------------------

At(r, pc) == task[r].pc = pc

Free(r) == At(r, "idle")

(* The handler's state is new.                                               *)
Begin(r, new) == task' = [task EXCEPT ![r] = new]

Finish(r) == task' = [task EXCEPT ![r] = Idle]

store == <<revoked, ever, gone>>

(* issue_passport_handler after its checks: a new key pair and certificate  *)
(* for g, to be saved at p; without capabilities, an error.                 *)
IssueAt(r, g, p) ==
  IF g.caps = {}
  THEN Finish(r) /\ UNCHANGED granted
  ELSE /\ Len(granted) < MaxPassports
       /\ granted' = Append(granted, g)
       /\ Begin(r, [Idle EXCEPT !.pc = "truncate", !.path = p, !.fp = Len(granted) + 1])

(* POST /v1/passports/issue, to the default path.                           *)
Issue(r, g) ==
  /\ Free(r)
  /\ IssueAt(r, g, PathOf[g.ns])
  /\ asked' = IF g.caps = {} THEN asked ELSE asked \cup {g}
  /\ UNCHANGED <<ephemeral, disk, store, restored, restarts>>

(* Plausible mistake: the namespace is taken from the file name.             *)
RenewByName(r, p) ==
  /\ Free(r)
  /\ \/ disk[p] \in {Absent, Torn} /\ Finish(r) /\ UNCHANGED granted
     \/ /\ disk[p] \notin {Absent, Torn}
        /\ \E ns \in Namespace :
             PathOf[ns] = p /\ IssueAt(r, [Claims(disk[p]) EXCEPT !.ns = ns], p)
  /\ UNCHANGED <<ephemeral, disk, asked, store, restored, restarts>>

(* POST /v1/passports/renew: one read gives namespace and capabilities, of   *)
(* whatever JSON there is; a new certificate, of a new key, replaces it.     *)
Renew(r, p) ==
  /\ Free(r)
  /\ \/ disk[p] \in {Absent, Torn} /\ Finish(r) /\ UNCHANGED granted
     \/ disk[p] \notin {Absent, Torn} /\ IssueAt(r, Claims(disk[p]), p)
  /\ UNCHANGED <<ephemeral, disk, asked, store, restored, restarts>>

(* fs::write opens and truncates, or fails.                                 *)
Truncate(r) ==
  /\ At(r, "truncate")
  /\ \/ /\ disk' = [disk EXCEPT ![task[r].path] = Torn]
        /\ task' = [task EXCEPT ![r].pc = "fill"]
     \/ Finish(r) /\ UNCHANGED disk
  /\ UNCHANGED <<ephemeral, granted, asked, store, restored, restarts>>

(* ... and writes.  When another writer has filled the file in the meantime *)
(* and wrote more, its tail stays.                                          *)
Fill(r) ==
  /\ At(r, "fill")
  /\ disk' \in {[disk EXCEPT ![task[r].path] = c] :
                  c \in {task[r].fp} \cup (IF disk[task[r].path] = Torn THEN {} ELSE {Torn})}
  /\ Finish(r)
  /\ UNCHANGED <<ephemeral, granted, asked, store, restored, restarts>>

-----------------------------------------------------------------------------

(* GET /v1/passports/list: the directory is read first.                     *)
List(r) ==
  /\ Free(r)
  /\ Begin(r, [Idle EXCEPT !.pc = "list", !.before = revoked,
                           !.todo = {p \in Path : disk[p] # Absent}])
  /\ UNCHANGED <<ephemeral, disk, granted, asked, store, restored, restarts>>

(* The next entry: its content is read; what is not JSON is skipped.        *)
ListRead(r, p) ==
  /\ At(r, "list")
  /\ p \in task[r].todo
  /\ task' = IF disk[p] \in {Absent, Torn}
             THEN [task EXCEPT ![r].todo = @ \ {p}]
             ELSE [task EXCEPT ![r].pc = "load", ![r].path = p, ![r].from = disk[p]]
  /\ UNCHANGED <<ephemeral, disk, granted, asked, store, restored, restarts>>

(* On to the next file, with an entry for this one or with NoEntry; the state *)
(* keeps the entry that was made last.                                       *)
Show(r, entry) ==
  Begin(r, [Idle EXCEPT !.pc = "list", !.todo = task[r].todo \ {task[r].path},
                        !.shown = entry, !.before = task[r].before])

(* DyoloPassport::load reads the file a second time.  What it cannot load by *)
(* then is an entry without a fingerprint.                                   *)
ListLoad(r) ==
  /\ At(r, "load")
  /\ LET fp == Loaded(disk[task[r].path]) IN
     \/ fp # NoPassport /\ task' = [task EXCEPT ![r].pc = "check", ![r].fp = fp]
     \/ /\ fp = NoPassport
        /\ Show(r, [from |-> task[r].from, fp |-> NoPassport, answered |-> FALSE])
  /\ UNCHANGED <<ephemeral, disk, granted, asked, store, restored, restarts>>

(* is_revoked, awaited; a store error counts as not revoked.                *)
ListCheck(r) ==
  /\ At(r, "check")
  /\ \/ task[r].fp \in revoked /\ task' = [task EXCEPT ![r].pc = "remove"]
     \/ \E answered \in BOOLEAN :
          /\ IF answered THEN task[r].fp \notin revoked ELSE ~ ephemeral
          /\ Show(r, [from |-> task[r].from, fp |-> task[r].fp, answered |-> answered])
  /\ UNCHANGED <<ephemeral, disk, granted, asked, store, restored, restarts>>

(* Plausible mistake: the loop goes on with the entry after the removal.     *)
RemoveAndShow(r) ==
  /\ At(r, "remove")
  /\ disk' = [disk EXCEPT ![task[r].path] = Absent]
  /\ Show(r, [from |-> task[r].from, fp |-> task[r].fp, answered |-> TRUE])
  /\ UNCHANGED <<ephemeral, granted, asked, store, restored, restarts>>

(* A revoked passport's file is removed, whatever it holds by now, or that  *)
(* fails.                                                                   *)
ListRemove(r) ==
  /\ At(r, "remove")
  /\ disk' \in {disk, [disk EXCEPT ![task[r].path] = Absent]}
  /\ Show(r, NoEntry)
  /\ UNCHANGED <<ephemeral, granted, asked, store, restored, restarts>>

ListEnd(r) ==
  /\ At(r, "list")
  /\ task[r].todo = {}
  /\ Finish(r)
  /\ UNCHANGED <<ephemeral, disk, granted, asked, store, restored, restarts>>

-----------------------------------------------------------------------------

(* Plausible mistake: the file is removed and the store is not told.         *)
RevokeUnlinkOnly(r, p) ==
  /\ Free(r)
  /\ IF Loaded(disk[p]) # NoPassport
     THEN Begin(r, [Idle EXCEPT !.pc = "unlink", !.path = p, !.fp = Loaded(disk[p])])
     ELSE Finish(r)
  /\ UNCHANGED <<ephemeral, disk, granted, asked, store, restored, restarts>>

(* POST /v1/passports/revoke-by-namespace: the passport of the default path *)
(* or of a given one, whatever namespace it names.                          *)
RevokeLoad(r, p) ==
  /\ Free(r)
  /\ IF Loaded(disk[p]) # NoPassport
     THEN Begin(r, [Idle EXCEPT !.pc = "revoke", !.path = p, !.fp = Loaded(disk[p])])
     ELSE Finish(r)
  /\ UNCHANGED <<ephemeral, disk, granted, asked, store, restored, restarts>>

(* revocation.revoke, awaited; with an error it may have taken effect.      *)
RevokeStore(r) ==
  /\ At(r, "revoke")
  /\ \/ /\ revoked' = revoked \cup {task[r].fp}
        /\ ever' = ever \cup {task[r].fp}
        /\ \/ task' = [task EXCEPT ![r].pc = "unlink"]
           \/ ~ ephemeral /\ Finish(r)
     \/ ~ ephemeral /\ Finish(r) /\ UNCHANGED <<revoked, ever>>
  /\ UNCHANGED <<ephemeral, disk, granted, asked, gone, restored, restarts>>

(* Plausible mistake: the file is left where it is.                          *)
RevokeKeepsFile(r) ==
  /\ At(r, "unlink")
  /\ gone' = gone \cup {task[r].fp}
  /\ Finish(r)
  /\ UNCHANGED <<ephemeral, disk, granted, asked, revoked, ever, restored, restarts>>

(* The file is removed; the handler reports success even if that fails.     *)
RevokeUnlink(r) ==
  /\ At(r, "unlink")
  /\ \/ /\ disk' = [disk EXCEPT ![task[r].path] = Absent]
        /\ gone' = gone \cup {task[r].fp}
     \/ UNCHANGED <<disk, gone>>
  /\ Finish(r)
  /\ UNCHANGED <<ephemeral, granted, asked, revoked, ever, restored, restarts>>

-----------------------------------------------------------------------------

(* POST /v1/passports/restore: JSON of any kind, a backup (the read route    *)
(* serves the files) or not, goes to the file that the request names.        *)
Restore(r, p, fp, claims) ==
  /\ Free(r)
  /\ Len(restored) < MaxRestores
  /\ restored' = Append(restored, [fp |-> fp, says |-> claims])
  /\ Begin(r, [Idle EXCEPT !.pc = "rename", !.path = p, !.fp = Doc(Len(restored) + 1)])
  /\ UNCHANGED <<ephemeral, disk, granted, asked, store, restarts>>

(* An existing file is renamed to .json.bak, which no handler reads, unless  *)
(* that fails.                                                               *)
RestoreRename(r) ==
  /\ At(r, "rename")
  /\ disk' \in {disk, [disk EXCEPT ![task[r].path] = Absent]}
  /\ task' = [task EXCEPT ![r].pc = "truncate"]
  /\ UNCHANGED <<ephemeral, granted, asked, store, restored, restarts>>

(* The gateway is restarted: handlers die where they are, an in-memory      *)
(* store starts empty.                                                      *)
Restart ==
  /\ restarts < MaxRestarts
  /\ restarts' = restarts + 1
  /\ revoked' = IF ephemeral THEN {} ELSE revoked
  /\ task' = [r \in Request |-> Idle]
  /\ UNCHANGED <<ephemeral, disk, granted, asked, ever, gone, restored>>

-----------------------------------------------------------------------------

(* The steps of a handler once its request has arrived.                     *)
Step(r) ==
  \/ Truncate(r) \/ Fill(r)
  \/ \E p \in Path : ListRead(r, p)
  \/ ListLoad(r) \/ ListCheck(r) \/ ListRemove(r) \/ ListEnd(r)
  \/ RevokeStore(r) \/ RevokeUnlink(r)
  \/ RestoreRename(r)

Arrive(r) ==
  \/ \E g \in Grant : Issue(r, g)
  \/ \E p \in Path : Renew(r, p) \/ RevokeLoad(r, p)
  \/ List(r)
  \/ \E p \in Path, fp \in Known \cup {NoPassport}, claims \in Claimed : Restore(r, p, fp, claims)

VaultNext == Restart \/ \E r \in Request : Arrive(r) \/ Step(r)

VaultSpec == VaultInit /\ [][VaultNext]_vaultVars

-----------------------------------------------------------------------------

(* A listing that begins after a passport was revoked shows its fingerprint *)
(* only when the store failed to answer, although each file is read twice,  *)
(* the store is awaited in between and other handlers replace the files     *)
(* (list_passports_handler).                                                *)
RevokedNotListed ==
  \A r \in Request : task[r].shown.answered => task[r].shown.fp \notin task[r].before

(* A passport that was revoked by namespace and removed does not come back  *)
(* into the directory, through renewals, listings and restarts that empty   *)
(* the revocation store, unless somebody restores its certificate.          *)
RevokedStaysGone == \A p \in Path : Loaded(disk[p]) \notin gone \ RestoredFps

(* Every certificate is for a namespace and capabilities that somebody asked *)
(* to be issued, or that a document claims which somebody restored: renewal *)
(* adds nothing, although namespaces share files and files change hands      *)
(* between a handler's steps (renew_passport_handler).                       *)
NothingExtraGranted == \A fp \in Fp : granted[fp] \in asked \cup RestoredClaims

(* Revoking a passport by its namespace gets rid of it, in listings and in   *)
(* the directory.                                                            *)
RevokedStaysAway == RevokedNotListed /\ RevokedStaysGone
=============================================================================
