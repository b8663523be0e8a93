--------------------------- MODULE Passports_proofs ---------------------------
(***************************************************************************)
(* Proofs about the passport files of the gateway, and about passports and *)
(* swarms in use, for any number of requests, files, passports, members,   *)
(* chains and restarts.                                                    *)
(***************************************************************************)
EXTENDS MCPassports, Chain_proofs, FiniteSetTheorems

(* r is about to write the passport fp, or between the steps of doing so.    *)
Writes(r, fp) == task[r].pc \in {"rename", "truncate", "fill"} /\ task[r].fp = fp

(* r is revoking the passport fp.                                            *)
Revokes(r, fp) == task[r].pc \in {"revoke", "unlink"} /\ task[r].fp = fp

(* A passport no backup of which was restored is in one place: on its way to *)
(* a file, or in one file, the one that whoever revokes it will remove, or   *)
(* nowhere.                                                                  *)
Placed(fp) ==
  /\ \A r \in Request : Writes(r, fp) =>
       /\ fp \notin gone
       /\ \A p \in Path : disk[p] # fp
       /\ \A s \in Request : (Writes(s, fp) => s = r) /\ ~ Revokes(s, fp)
  /\ \A p \in Path : disk[p] = fp =>
       /\ fp \notin gone
       /\ \A q \in Path : disk[q] = fp => q = p
       /\ \A s \in Request : Revokes(s, fp) => task[s].path = p

(* What a handler's state says about the stores.                             *)
TaskOK(r) ==
  /\ task[r].before \subseteq revoked
  /\ task[r].shown.answered => task[r].shown.fp \notin task[r].before
  /\ task[r].pc \in {"check", "revoke"} => task[r].fp \in Known
  /\ task[r].pc = "unlink" => task[r].fp \in ever
  /\ task[r].pc \in {"rename", "truncate", "fill"} => task[r].fp \in Content

TasksOK == \A r \in Request : TaskOK(r)

AllPlaced == \A fp \in Fp \ RestoredFps : Placed(fp)

VaultInv == VaultTypeOK /\ TasksOK /\ NothingExtraGranted /\ AllPlaced

-----------------------------------------------------------------------------

LEMMA NoEntryType ==
  /\ NoEntry \in Entry
  /\ NoEntry.from = Absent /\ NoEntry.fp = NoPassport /\ ~ NoEntry.answered
BY DEF NoEntry, Entry, Content

LEMMA IdleTask ==
  /\ Idle.pc = "idle" /\ Idle.path \in Path /\ Idle.fp = NoPassport /\ Idle.from = Absent
  /\ Idle.todo = {} /\ Idle.shown = NoEntry /\ Idle.before = {}
  /\ Idle = [pc |-> "idle", path |-> Idle.path, fp |-> NoPassport, from |-> Absent,
             todo |-> {}, shown |-> NoEntry, before |-> {}]
<1>1. (CHOOSE p \in Path : TRUE) \in Path
  BY VaultAssumption
<1>2. QED
  BY <1>1 DEF Idle

(* The state of a handler that begins with the passport c and the file b.    *)
LEMMA StartedTask ==
  ASSUME NEW a, NEW b, NEW c
  PROVE  [Idle EXCEPT !.pc = a, !.path = b, !.fp = c]
           \in [pc : {a}, path : {b}, fp : {c}, from : {Absent}, todo : {{}}, shown : {NoEntry},
                before : {{}}]
<1> DEFINE i == Idle.path
<1>1. Idle = [pc |-> "idle", path |-> i, fp |-> NoPassport, from |-> Absent, todo |-> {},
              shown |-> NoEntry, before |-> {}]
  BY IdleTask
<1> HIDE DEF i
<1>2. QED
  BY <1>1

(* The state of a handler that lists.                                        *)
LEMMA ListingTask ==
  ASSUME NEW a, NEW b, NEW c
  PROVE  [Idle EXCEPT !.pc = "list", !.todo = a, !.shown = b, !.before = c]
           \in [pc : {"list"}, path : Path, fp : {NoPassport}, from : {Absent}, todo : {a},
                shown : {b}, before : {c}]
<1> DEFINE i == Idle.path
<1>1. Idle = [pc |-> "idle", path |-> i, fp |-> NoPassport, from |-> Absent, todo |-> {},
              shown |-> NoEntry, before |-> {}]
  BY IdleTask
<1>2. i \in Path
  BY IdleTask
<1> HIDE DEF i
<1>3. QED
  BY <1>1, <1>2

LEMMA IdleType == Idle \in Task
<1>1. Absent \in Content
  BY DEF Content
<1>2. QED
  BY <1>1, IdleTask, NoEntryType DEF Task

LEMMA SeqGrows ==
  ASSUME NEW S, NEW T, S \subseteq T, NEW s \in Seq(S)
  PROVE  s \in Seq(T)
<1>1. \A i \in 1 .. Len(s) : s[i] \in T
  OBVIOUS
<1>2. s = [i \in 1 .. Len(s) |-> s[i]] /\ Len(s) \in Nat
  OBVIOUS
<1>3. QED
  BY <1>1, <1>2

(* The types only grow with the passports issued, revoked and restored.      *)
LEMMA TypesGrow ==
  ASSUME Fp \subseteq Fp', ever \subseteq ever', DOMAIN restored \subseteq DOMAIN restored'
  PROVE  /\ Task \subseteq Task' /\ Content \subseteq Content' /\ Known \subseteq Known'
<1>1. Content \subseteq Content' /\ Known \subseteq Known'
  BY DEF Content, Known, Doc
<1>2. Entry \subseteq Entry'
  BY <1>1 DEF Entry
<1>3. ASSUME NEW x \in Task PROVE x \in Task'
  <2>1. PICK a \in {"idle", "truncate", "fill", "list", "load", "check", "remove", "revoke",
                    "unlink", "rename"},
             b \in Path, c \in Content \cup Known \cup {NoPassport}, g \in Content,
             d \in SUBSET Path, e \in Entry, f \in SUBSET ever :
             x = [pc |-> a, path |-> b, fp |-> c, from |-> g, todo |-> d, shown |-> e, before |-> f]
    BY DEF Task
  <2>2. /\ c \in Content' \cup Known' \cup {NoPassport} /\ g \in Content'
        /\ e \in Entry' /\ f \in SUBSET ever'
    BY <1>1, <1>2
  <2>3. QED
    BY <2>1, <2>2 DEF Task
<1>4. QED
  BY <1>1, <1>3

LEMMA TypesSame ==
  ASSUME UNCHANGED <<granted, ever, restored>>
  PROVE  /\ Fp' = Fp /\ Known' = Known /\ Content' = Content /\ Entry' = Entry /\ Task' = Task
         /\ RestoredFps' = RestoredFps /\ RestoredClaims' = RestoredClaims
<1>1. Fp' = Fp /\ RestoredFps' = RestoredFps /\ RestoredClaims' = RestoredClaims
  BY DEF Fp, RestoredFps, RestoredClaims
<1>2. Known' = Known /\ Content' = Content
  BY <1>1 DEF Known, Content, Doc
<1>3. Entry' = Entry
  BY <1>2 DEF Entry
<1>4. Task' = Task
  BY <1>2, <1>3 DEF Task
<1>5. QED
  BY <1>1, <1>2, <1>3, <1>4

(* A certificate, a file that holds none and a restored document are never   *)
(* taken for one another.                                                    *)
LEMMA ContentKinds ==
  ASSUME VaultTypeOK, NEW c \in Content
  PROVE  \/ c \in {Absent, Torn} /\ c \notin Fp /\ ~ (c < Absent) /\ c # NoPassport
         \/ c \in Fp /\ ~ (c < Absent) /\ c # NoPassport /\ c # Stranger
         \/ /\ c < Absent /\ -3 - c \in DOMAIN restored
            /\ c \notin Fp /\ c \notin {Absent, Torn, NoPassport}
<1>1. CASE c \in {Absent, Torn}
  BY <1>1 DEF Absent, Torn, Fp, NoPassport
<1>2. CASE c \in Fp
  BY <1>2 DEF Absent, Torn, Fp, NoPassport, Stranger
<1>3. ASSUME NEW k \in DOMAIN restored, c = Doc(k)
      PROVE  c < Absent /\ -3 - c = k /\ c \notin Fp /\ c \notin {Absent, Torn, NoPassport}
  <2>1. k \in Nat /\ k > 0
    BY DEF VaultTypeOK
  <2>2. QED
    BY <1>3, <2>1 DEF Doc, Absent, Torn, Fp, NoPassport
<1>4. QED
  BY <1>1, <1>2, <1>3 DEF Content

LEMMA RestoredTypes ==
  ASSUME VaultTypeOK
  PROVE  /\ \A k \in DOMAIN restored :
              restored[k].fp \in Known \cup {NoPassport} /\ restored[k].says \in Claimed
         /\ RestoredFps \subseteq Known \cup {NoPassport} /\ RestoredClaims \subseteq Grant
<1> DEFINE T == [fp : Known \cup {NoPassport}, says : Claimed]
<1>1. \A k \in DOMAIN restored : restored[k] \in T
  <2>1. restored \in Seq(T)
    BY DEF VaultTypeOK
  <2> HIDE DEF T
  <2>2. QED
    BY <2>1
<1>2. \A k \in DOMAIN restored :
        restored[k].fp \in Known \cup {NoPassport} /\ restored[k].says \in Claimed
  BY <1>1
<1>3. Claimed \subseteq Grant
  BY VaultAssumption DEF Grant
<1>4. RestoredFps \subseteq Known \cup {NoPassport}
  BY <1>2 DEF RestoredFps
<1>5. RestoredClaims \subseteq Grant
  BY <1>2, <1>3 DEF RestoredClaims
<1>6. QED
  BY <1>2, <1>4, <1>5

(* Which certificate is in a file: the one that it was written for, or one   *)
(* that was restored.                                                        *)
LEMMA LoadedTypes ==
  ASSUME VaultTypeOK, NEW c \in Content
  PROVE  /\ Loaded(c) \in Known \cup {NoPassport}
         /\ c \in Fp => Loaded(c) = c
         /\ Loaded(c) \in Known \ RestoredFps => Loaded(c) = c /\ c \in Fp
<1>1. CASE c \in {Absent, Torn} /\ c \notin Fp /\ ~ (c < Absent)
  BY <1>1 DEF Loaded, Known, Fp, Stranger, NoPassport
<1>2. CASE c \in Fp /\ ~ (c < Absent)
  BY <1>2 DEF Loaded, Known
<1>3. CASE c < Absent /\ -3 - c \in DOMAIN restored /\ c \notin Fp
  BY <1>3, RestoredTypes DEF Loaded, RestoredFps
<1>4. QED
  BY <1>1, <1>2, <1>3, ContentKinds

(* Nothing but what was asked for, or what a restored document claims, can   *)
(* be read from a file.                                                      *)
LEMMA ClaimsKnown ==
  ASSUME VaultTypeOK, NothingExtraGranted, NEW c \in Content, c \notin {Absent, Torn}
  PROVE  Claims(c) \in asked \cup RestoredClaims /\ Claims(c) \in Grant
<1>1. CASE c \in Fp /\ ~ (c < Absent)
  BY <1>1, RestoredTypes DEF Claims, NothingExtraGranted, VaultTypeOK
<1>2. CASE c < Absent /\ -3 - c \in DOMAIN restored
  BY <1>2, RestoredTypes DEF Claims, RestoredClaims
<1>3. QED
  BY <1>1, <1>2, ContentKinds

NewShown(new) == new.shown.answered => new.shown.fp \notin new.before

(* Where a passport is stays right when nobody begins to write, revoke or    *)
(* remove it and it does not get into another file.                          *)
LEMMA QuietKeeps ==
  ASSUME NEW fp, Placed(fp), fp \in gone' => fp \in gone,
         \A p \in Path : disk'[p] = fp => disk[p] = fp,
         \A s \in Request : Writes(s, fp)' => Writes(s, fp),
         \A s \in Request : Revokes(s, fp)' => Revokes(s, fp) /\ task'[s].path = task[s].path
  PROVE  Placed(fp)'
<1>1. ASSUME NEW s \in Request, Writes(s, fp)'
      PROVE  /\ fp \notin gone'
             /\ \A p \in Path : disk'[p] # fp
             /\ \A u \in Request : (Writes(u, fp)' => u = s) /\ ~ Revokes(u, fp)'
  BY <1>1 DEF Placed
<1>2. ASSUME NEW p \in Path, disk'[p] = fp
      PROVE  /\ fp \notin gone'
             /\ \A q \in Path : disk'[q] = fp => q = p
             /\ \A u \in Request : Revokes(u, fp)' => task'[u].path = p
  BY <1>2 DEF Placed
<1>3. QED
  BY <1>1, <1>2, Zenon DEF Placed

(* One handler moves from its state to new and no passport is issued.        *)
LEMMA HandlerKeeps ==
  ASSUME VaultInv, NEW r \in Request, NEW new \in Task',
         task' = [task EXCEPT ![r] = new],
         UNCHANGED <<ephemeral, granted, asked, restored, restarts>>,
         disk' \in [Path -> Content],
         revoked \subseteq revoked', ever \subseteq ever',
         revoked' \subseteq ever', ever' \subseteq Known, gone' \subseteq ever',
         new.before \subseteq revoked', NewShown(new),
         new.pc \in {"check", "revoke"} => new.fp \in Known, new.pc = "unlink" => new.fp \in ever',
         new.pc \in {"rename", "truncate", "fill"} => new.fp \in Content, AllPlaced'
  PROVE  VaultInv'
<1>1. Fp' = Fp /\ Content' = Content /\ Known' = Known /\ RestoredClaims' = RestoredClaims
  BY DEF Fp, Content, Known, RestoredClaims, Doc
<1>2. Task \subseteq Task'
  BY <1>1, TypesGrow
<1>3. task' \in [Request -> Task']
  BY <1>2 DEF VaultInv, VaultTypeOK
<1>4. VaultTypeOK'
  BY <1>1, <1>3 DEF VaultInv, VaultTypeOK
<1>5. TasksOK'
  <2> SUFFICES ASSUME NEW s \in Request PROVE TaskOK(s)'
    BY DEF TasksOK
  <2>1. CASE s = r
    <3>1. task'[s] = new
      BY <2>1 DEF VaultInv, VaultTypeOK
    <3>2. QED
      BY <3>1, <1>1 DEF TaskOK, NewShown
  <2>2. CASE s # r
    <3>1. task'[s] = task[s] /\ TaskOK(s)
      BY <2>2 DEF VaultInv, VaultTypeOK, TasksOK
    <3>2. QED
      BY <3>1, <1>1 DEF TaskOK
  <2>3. QED
    BY <2>1, <2>2
<1>6. NothingExtraGranted'
  BY <1>1 DEF VaultInv, NothingExtraGranted
<1>7. QED
  BY <1>4, <1>5, <1>6 DEF VaultInv

(* ... and the handler neither begins to write or to revoke a passport, nor  *)
(* puts one into a file or says that one is gone.                            *)
LEMMA QuietHandlerKeeps ==
  ASSUME VaultInv, NEW r \in Request, NEW new \in Task',
         task' = [task EXCEPT ![r] = new],
         UNCHANGED <<ephemeral, granted, asked, gone, restored, restarts>>,
         disk' \in [Path -> Content],
         \A p \in Path : disk'[p] = disk[p] \/ disk'[p] \notin Fp,
         revoked \subseteq revoked', ever \subseteq ever',
         revoked' \subseteq ever', ever' \subseteq Known,
         new.before \subseteq revoked', NewShown(new),
         new.pc # "revoke", new.pc = "check" => new.fp \in Known, new.pc = "unlink" => new.fp \in ever',
         new.pc \in {"rename", "truncate", "fill"} => Writes(r, new.fp),
         new.pc = "unlink" => Revokes(r, new.fp) /\ new.path = task[r].path
  PROVE  VaultInv'
<1>1. Fp' = Fp
  BY DEF Fp
<1>2. task'[r] = new /\ \A s \in Request : s # r => task'[s] = task[s]
  BY DEF VaultInv, VaultTypeOK
<1>3. ASSUME NEW fp \in Fp \ RestoredFps PROVE Placed(fp)'
  <2>1. Placed(fp)
    BY DEF VaultInv, AllPlaced
  <2>2. ASSUME NEW s \in Request, Writes(s, fp)' PROVE Writes(s, fp)
    BY <1>2, <2>2 DEF Writes
  <2>3. ASSUME NEW s \in Request, Revokes(s, fp)'
        PROVE  Revokes(s, fp) /\ task'[s].path = task[s].path
    BY <1>2, <2>3 DEF Revokes
  <2>4. \A p \in Path : disk'[p] = fp => disk[p] = fp
    OBVIOUS
  <2>5. fp \in gone' => fp \in gone
    OBVIOUS
  <2>6. QED
    BY <2>1, <2>2, <2>3, <2>4, <2>5, QuietKeeps
<1>4. AllPlaced'
  BY <1>1, <1>3 DEF AllPlaced, RestoredFps
<1>5. gone' \subseteq ever'
  BY DEF VaultInv, VaultTypeOK
<1>6. new.pc \in {"rename", "truncate", "fill"} => new.fp \in Content
  BY DEF Writes, VaultInv, TasksOK, TaskOK
<1>7. new.pc \in {"check", "revoke"} => new.fp \in Known
  OBVIOUS
<1>8. QED
  BY <1>4, <1>5, <1>6, <1>7, HandlerKeeps

(* A handler is done, or fails, and leaves everything else alone.            *)
LEMMA FinishKeeps ==
  ASSUME VaultInv, NEW r \in Request, Finish(r),
         UNCHANGED <<ephemeral, disk, granted, asked, store, restored, restarts>>
  PROVE  VaultInv'
<1> DEFINE new == Idle
<1>1. Known' = Known /\ Task' = Task
  BY TypesSame DEF store
<1>2. new \in Task'
  BY <1>1, IdleType
<1>3. new.pc = "idle" /\ NewShown(new) /\ new.before = {}
  BY IdleTask DEF NewShown
<1>4. task' = [task EXCEPT ![r] = new]
  BY DEF Finish
<1> HIDE DEF new
<1>5. QED
  BY <1>2, <1>3, <1>4, QuietHandlerKeeps DEF VaultInv, VaultTypeOK, store

-----------------------------------------------------------------------------

(* A certificate is issued for what somebody asked for or a restored document *)
(* claims, and the handler goes on to save it; the new passport is nowhere else.                     *)
LEMMA IssueAtKeeps ==
  ASSUME VaultInv, NEW r \in Request, NEW g \in Grant, NEW p \in Path, g.caps # {},
         IssueAt(r, g, p), g \in asked' \cup RestoredClaims, asked \subseteq asked',
         asked' \subseteq Grant,
         UNCHANGED <<ephemeral, disk, store, restored, restarts>>
  PROVE  VaultInv'
<1> DEFINE n == Len(granted)
           new == [Idle EXCEPT !.pc = "truncate", !.path = p, !.fp = n + 1]
<1>1. granted' = Append(granted, g) /\ task' = [task EXCEPT ![r] = new] /\ n < MaxPassports
  BY DEF IssueAt, Begin
<1>2. granted \in Seq(Grant) /\ n \in Nat /\ MaxPassports \in Nat
  BY VaultAssumption DEF VaultInv, VaultTypeOK
<1>3. /\ granted' \in Seq(Grant) /\ Len(granted') = n + 1 /\ granted'[n + 1] = g
      /\ \A i \in 1 .. n : granted'[i] = granted[i]
  BY <1>1, <1>2
<1>4. Fp = 1 .. n /\ Fp' = 1 .. (n + 1)
  BY <1>3 DEF Fp
<1>5. /\ Fp \subseteq Fp' /\ n + 1 \in Fp' /\ n + 1 \notin Fp
      /\ n + 1 \notin {Absent, Torn, NoPassport, Stranger} /\ ~ (n + 1 < Absent)
      /\ Fp' = Fp \cup {n + 1}
  BY <1>2, <1>4 DEF Absent, Torn, NoPassport, Stranger
<1>6. ever' = ever /\ revoked' = revoked /\ gone' = gone /\ disk' = disk /\ restored' = restored
  BY DEF store
<1>7. new \in [pc : {"truncate"}, path : {p}, fp : {n + 1}, from : {Absent}, todo : {{}},
              shown : {NoEntry}, before : {{}}]
  BY StartedTask
<1>8. new.pc = "truncate" /\ new.fp = n + 1 /\ ~ new.shown.answered /\ new.before = {}
  BY <1>7, NoEntryType
<1>9. n + 1 \in Content' /\ Absent \in Content'
  BY <1>5 DEF Content
<1>11. Task \subseteq Task' /\ Content \subseteq Content' /\ Known \subseteq Known'
  BY <1>5, <1>6, TypesGrow
<1>10. new \in Task'
  <2>1. NoEntry \in Entry'
    BY <1>11, NoEntryType DEF Entry
  <2>2. QED
    BY <1>7, <1>9, <2>1 DEF Task
<1> HIDE DEF new
<1>12. task \in [Request -> Task] /\ disk \in [Path -> Content]
  BY DEF VaultInv, VaultTypeOK
<1>13. task' \in [Request -> Task']
  BY <1>1, <1>10, <1>11, <1>12
<1>14. disk' \in [Path -> Content'] /\ ever' \subseteq Known'
  BY <1>6, <1>11, <1>12 DEF VaultInv, VaultTypeOK
<1>15. restored' \in Seq([fp : Known' \cup {NoPassport}, says : Claimed])
  <2> DEFINE A == [fp : Known \cup {NoPassport}, says : Claimed]
             B == [fp : Known' \cup {NoPassport}, says : Claimed]
  <2>1. restored \in Seq(A)
    BY DEF VaultInv, VaultTypeOK
  <2>2. A \subseteq B
    BY <1>11
  <2> HIDE DEF A, B
  <2>3. restored \in Seq(B)
    BY <2>1, <2>2, SeqGrows
  <2>4. QED
    BY <1>6, <2>3 DEF B
<1>16. VaultTypeOK'
  BY <1>1, <1>2, <1>3, <1>5, <1>6, <1>13, <1>14, <1>15 DEF VaultInv, VaultTypeOK
<1>17. task'[r] = new /\ \A s \in Request : s # r => task'[s] = task[s]
  BY <1>1, <1>12
<1>18. TasksOK'
  <2> SUFFICES ASSUME NEW s \in Request PROVE TaskOK(s)'
    BY DEF TasksOK
  <2>1. CASE s = r
    BY <2>1, <1>8, <1>9, <1>17 DEF TaskOK
  <2>2. CASE s # r
    <3>1. task'[s] = task[s] /\ TaskOK(s)
      BY <2>2, <1>17 DEF VaultInv, TasksOK
    <3>2. QED
      BY <3>1, <1>6, <1>11 DEF TaskOK
  <2>3. QED
    BY <2>1, <2>2
<1>19. NothingExtraGranted'
  <2>1. RestoredClaims' = RestoredClaims
    BY <1>6 DEF RestoredClaims
  <2>2. QED
    BY <1>3, <1>4, <1>5, <2>1 DEF VaultInv, NothingExtraGranted
<1>21. n + 1 \notin Content /\ n + 1 \notin Known
  BY <1>5, ContentKinds DEF Known, VaultInv
<1>20. \A s \in Request : task[s].fp # n + 1
  BY <1>5, <1>12, <1>21 DEF Task
<1>22. ASSUME NEW fp \in Fp' \ RestoredFps PROVE Placed(fp)'
  <2>1. CASE fp \in Fp
    <3>1. Placed(fp)
      BY <2>1 DEF VaultInv, AllPlaced
    <3>2. fp # n + 1
      BY <2>1, <1>5
    <3>3. ASSUME NEW s \in Request, Writes(s, fp)' PROVE Writes(s, fp)
      BY <3>2, <3>3, <1>8, <1>17 DEF Writes
    <3>4. ASSUME NEW s \in Request, Revokes(s, fp)'
          PROVE  Revokes(s, fp) /\ task'[s].path = task[s].path
      BY <3>4, <1>8, <1>17 DEF Revokes
    <3>5. (\A q \in Path : disk'[q] = fp => disk[q] = fp) /\ (fp \in gone' => fp \in gone)
      BY <1>6
    <3>6. QED
      BY <3>1, <3>3, <3>4, <3>5, QuietKeeps
  <2>2. CASE fp \notin Fp
    <3>1. fp = n + 1
      BY <2>2, <1>5
    <3>2. fp \notin gone' /\ \A q \in Path : disk'[q] # fp
      BY <3>1, <1>6, <1>12, <1>21 DEF VaultInv, VaultTypeOK
    <3>3. \A s \in Request : Writes(s, fp)' => s = r
      BY <3>1, <1>17, <1>20 DEF Writes
    <3>4. \A s \in Request : ~ Revokes(s, fp)'
      BY <3>1, <1>8, <1>17, <1>20 DEF Revokes
    <3>5. QED
      BY <3>2, <3>3, <3>4 DEF Placed
  <2>3. QED
    BY <2>1, <2>2
<1>23. AllPlaced'
  BY <1>6, <1>22 DEF AllPlaced, RestoredFps
<1>24. QED
  BY <1>16, <1>18, <1>19, <1>23 DEF VaultInv

LEMMA IssueKeeps ==
  ASSUME VaultInv, NEW r \in Request, NEW g \in Grant, Issue(r, g)
  PROVE  VaultInv'
<1>1. UNCHANGED <<ephemeral, disk, store, restored, restarts>>
  BY DEF Issue
<1>2. CASE g.caps = {}
  <2>1. Finish(r) /\ granted' = granted /\ asked' = asked
    BY <1>2 DEF Issue, IssueAt
  <2>2. QED
    BY <1>1, <2>1, FinishKeeps
<1>3. CASE g.caps # {}
  <2>1. IssueAt(r, g, PathOf[g.ns]) /\ asked' = asked \cup {g}
    BY <1>3 DEF Issue
  <2>2. PathOf[g.ns] \in Path
    BY VaultAssumption DEF Grant
  <2>3. asked \subseteq Grant
    BY DEF VaultInv, VaultTypeOK
  <2>4. g \in asked' /\ asked \subseteq asked' /\ asked' \subseteq Grant
    BY <2>1, <2>3
  <2>5. QED
    BY <1>1, <1>3, <2>1, <2>2, <2>4, IssueAtKeeps
<1>4. QED
  BY <1>2, <1>3

LEMMA RenewKeeps ==
  ASSUME VaultInv, NEW r \in Request, NEW p \in Path, Renew(r, p)
  PROVE  VaultInv'
<1>1. UNCHANGED <<ephemeral, disk, asked, store, restored, restarts>>
  BY DEF Renew
<1>2. CASE Finish(r) /\ granted' = granted
  BY <1>1, <1>2, FinishKeeps
<1>3. CASE disk[p] \notin {Absent, Torn} /\ IssueAt(r, Claims(disk[p]), p)
  <2> DEFINE g == Claims(disk[p])
  <2>1. disk[p] \in Content /\ asked \subseteq Grant
    BY DEF VaultInv, VaultTypeOK
  <2>2. g \in asked \cup RestoredClaims /\ g \in Grant
    BY <1>3, <2>1, ClaimsKnown DEF VaultInv
  <2>3. IssueAt(r, g, p)
    BY <1>3
  <2>4. asked' = asked
    BY <1>1
  <2> HIDE DEF g
  <2>5. CASE g.caps = {}
    BY <1>2, <2>3, <2>5 DEF IssueAt
  <2>6. CASE g.caps # {}
    BY <1>1, <2>1, <2>2, <2>3, <2>4, <2>6, IssueAtKeeps
  <2>7. QED
    BY <2>5, <2>6
<1>4. QED
  BY <1>2, <1>3 DEF Renew

(* The file is truncated or it is not: either way the passport is on its way *)
(* still, or given up.                                                       *)
LEMMA TruncateKeeps ==
  ASSUME VaultInv, NEW r \in Request, Truncate(r)
  PROVE  VaultInv'
<1>1. UNCHANGED <<ephemeral, granted, asked, store, restored, restarts>> /\ task[r].pc = "truncate"
  BY DEF Truncate, At
<1>2. CASE Finish(r) /\ disk' = disk
  BY <1>1, <1>2, FinishKeeps
<1>3. CASE /\ disk' = [disk EXCEPT ![task[r].path] = Torn]
           /\ task' = [task EXCEPT ![r].pc = "fill"]
  <2> DEFINE new == [task[r] EXCEPT !.pc = "fill"]
  <2>1. task[r] \in Task /\ TaskOK(r) /\ disk \in [Path -> Content]
    BY DEF VaultInv, VaultTypeOK, TasksOK
  <2>2. Task' = Task
    BY <1>1, TypesSame DEF store
  <2>3. new \in Task'
    BY <2>1, <2>2 DEF Task
  <2>4. new.pc = "fill" /\ new.fp = task[r].fp /\ new.shown = task[r].shown /\ new.before = task[r].before
    BY <2>1 DEF Task
  <2>5. task' = [task EXCEPT ![r] = new]
    BY <1>3
  <2> HIDE DEF new
  <2>6. Torn \in Content /\ Torn \notin Fp /\ Known' = Known
    BY <1>1, TypesSame DEF Content, Torn, Fp, store
  <2>7. disk' \in [Path -> Content] /\ \A p \in Path : disk'[p] = disk[p] \/ disk'[p] \notin Fp
    BY <1>3, <2>1, <2>6
  <2>8. new.before \subseteq revoked' /\ NewShown(new)
    BY <1>1, <2>1, <2>4 DEF TaskOK, NewShown, store
  <2>9. new.pc \in {"rename", "truncate", "fill"} => Writes(r, new.fp)
    BY <1>1, <2>4 DEF Writes
  <2>10. /\ revoked \subseteq revoked' /\ ever \subseteq ever'
         /\ revoked' \subseteq ever' /\ ever' \subseteq Known /\ gone' = gone
    BY <1>1, <2>6 DEF store, VaultInv, VaultTypeOK
  <2>11. new.pc # "revoke" /\ new.pc # "check" /\ new.pc # "unlink"
    BY <2>4
  <2>12. QED
    BY <1>1, <2>3, <2>5, <2>7, <2>8, <2>9, <2>10, <2>11, QuietHandlerKeeps
<1>4. QED
  BY <1>2, <1>3 DEF Truncate

(* A step of a handler that changes nothing but the handler's own state.     *)
LEMMA ReaderKeeps ==
  ASSUME VaultInv, NEW r \in Request, NEW new \in Task,
         task' = [task EXCEPT ![r] = new],
         UNCHANGED <<ephemeral, disk, granted, asked, store, restored, restarts>>,
         new.before \subseteq revoked, NewShown(new),
         new.pc \in {"list", "load", "check", "remove"}, new.pc = "check" => new.fp \in Known
  PROVE  VaultInv'
<1>1. Task' = Task
  BY TypesSame DEF store
<1>2. /\ revoked \subseteq revoked' /\ ever \subseteq ever' /\ revoked' \subseteq ever' /\ ever' \subseteq Known
      /\ new.before \subseteq revoked' /\ disk' \in [Path -> Content] /\ gone' = gone
      /\ \A p \in Path : disk'[p] = disk[p] \/ disk'[p] \notin Fp
  BY DEF store, VaultInv, VaultTypeOK
<1>3. new \in Task'
  BY <1>1
<1>4. new.pc \notin {"rename", "truncate", "fill", "revoke", "unlink"}
  OBVIOUS
<1>5. QED
  BY <1>2, <1>3, <1>4, QuietHandlerKeeps

LEMMA ListKeeps ==
  ASSUME VaultInv, NEW r \in Request, List(r)
  PROVE  VaultInv'
<1> DEFINE todo == {p \in Path : disk[p] # Absent}
           i == Idle.path
           new == [Idle EXCEPT !.pc = "list", !.before = revoked, !.todo = todo]
<1>1. /\ task' = [task EXCEPT ![r] = new]
      /\ UNCHANGED <<ephemeral, disk, granted, asked, store, restored, restarts>>
  BY DEF List, Begin
<1>2. i \in Path /\ todo \in SUBSET Path
  BY IdleTask
<1>3. Idle = [pc |-> "idle", path |-> i, fp |-> NoPassport, from |-> Absent, todo |-> {},
              shown |-> NoEntry, before |-> {}]
  BY IdleTask
<1> HIDE DEF i, todo
<1>4. new \in [pc : {"list"}, path : {i}, fp : {NoPassport}, from : {Absent}, todo : {todo},
              shown : {NoEntry}, before : {revoked}]
  BY <1>3
<1> HIDE DEF new
<1>5. new.pc = "list" /\ NewShown(new) /\ new.before = revoked
  BY <1>4, NoEntryType DEF NewShown
<1>6. new \in Task
  <2>1. Absent \in Content /\ revoked \subseteq ever
    BY DEF Content, VaultInv, VaultTypeOK
  <2>2. QED
    BY <1>2, <1>4, <2>1, NoEntryType DEF Task
<1>7. QED
  BY <1>1, <1>5, <1>6, ReaderKeeps

LEMMA ListReadKeeps ==
  ASSUME VaultInv, NEW r \in Request, NEW p \in Path, ListRead(r, p)
  PROVE  VaultInv'
<1>1. /\ UNCHANGED <<ephemeral, disk, granted, asked, store, restored, restarts>>
      /\ task[r].pc = "list"
  BY DEF ListRead, At
<1>2. task[r] \in Task /\ TaskOK(r)
  BY DEF VaultInv, VaultTypeOK, TasksOK
<1>3. CASE disk[p] \in {Absent, Torn}
  <2> DEFINE new == [task[r] EXCEPT !.todo = task[r].todo \ {p}]
  <2>1. task' = [task EXCEPT ![r] = new]
    BY <1>3 DEF ListRead
  <2>2. new \in Task /\ new.pc = "list" /\ new.shown = task[r].shown /\ new.before = task[r].before
    BY <1>1, <1>2 DEF Task
  <2> HIDE DEF new
  <2>3. new.before \subseteq revoked /\ NewShown(new)
    BY <1>2, <2>2 DEF TaskOK, NewShown
  <2>4. QED
    BY <1>1, <2>1, <2>2, <2>3, ReaderKeeps
<1>4. CASE disk[p] \notin {Absent, Torn}
  <2> DEFINE new == [task[r] EXCEPT !.pc = "load", !.path = p, !.from = disk[p]]
  <2>1. task' = [task EXCEPT ![r] = new]
    BY <1>4 DEF ListRead
  <2>4. disk[p] \in Content
    BY DEF VaultInv, VaultTypeOK
  <2>2. new \in Task /\ new.pc = "load" /\ new.shown = task[r].shown /\ new.before = task[r].before
    BY <1>1, <1>2, <2>4 DEF Task
  <2> HIDE DEF new
  <2>3. new.before \subseteq revoked /\ NewShown(new)
    BY <1>2, <2>2 DEF TaskOK, NewShown
  <2>5. QED
    BY <1>1, <2>1, <2>2, <2>3, ReaderKeeps
<1>5. QED
  BY <1>3, <1>4

(* The next entry shows only what the store has just denied to be revoked,   *)
(* or what the store was not asked about.                                    *)
LEMMA ShowTask ==
  ASSUME VaultInv, NEW r \in Request, NEW e \in Entry, Show(r, e), e.answered => e.fp \notin revoked
  PROVE  \E new \in Task : /\ task' = [task EXCEPT ![r] = new]
                           /\ new.before \subseteq revoked /\ NewShown(new)
                           /\ new.pc = "list"
<1> DEFINE a == task[r].todo \ {task[r].path}
           c == task[r].before
           new == [Idle EXCEPT !.pc = "list", !.todo = a, !.shown = e, !.before = c]
<1>1. task[r] \in Task /\ TaskOK(r)
  BY DEF VaultInv, VaultTypeOK, TasksOK
<1>2. a \in SUBSET Path /\ c \in SUBSET ever /\ Absent \in Content
  BY <1>1 DEF Task, Content
<1>3. c \subseteq revoked
  BY <1>1 DEF TaskOK
<1>4. task' = [task EXCEPT ![r] = new]
  BY DEF Show, Begin
<1> HIDE DEF a, c
<1>5. new \in [pc : {"list"}, path : Path, fp : {NoPassport}, from : {Absent}, todo : {a},
              shown : {e}, before : {c}]
  BY ListingTask
<1> HIDE DEF new
<1>6. new.pc = "list" /\ new.shown = e /\ new.before = c
  BY <1>5
<1>7. new \in Task
  BY <1>2, <1>5 DEF Task
<1>8. NewShown(new)
  BY <1>3, <1>6 DEF NewShown
<1>9. QED
  BY <1>3, <1>4, <1>6, <1>7, <1>8

LEMMA ShowKeeps ==
  ASSUME VaultInv, NEW r \in Request, NEW e \in Entry, Show(r, e), e.answered => e.fp \notin revoked,
         UNCHANGED <<ephemeral, disk, granted, asked, store, restored, restarts>>
  PROVE  VaultInv'
<1>1. PICK new \in Task : /\ task' = [task EXCEPT ![r] = new]
                          /\ new.before \subseteq revoked /\ NewShown(new)
                          /\ new.pc = "list"
  BY ShowTask
<1>2. QED
  BY <1>1, ReaderKeeps

LEMMA ListLoadKeeps ==
  ASSUME VaultInv, NEW r \in Request, ListLoad(r)
  PROVE  VaultInv'
<1> DEFINE fp == Loaded(disk[task[r].path])
<1>1. UNCHANGED <<ephemeral, disk, granted, asked, store, restored, restarts>>
  BY DEF ListLoad
<1>2. task[r] \in Task /\ TaskOK(r)
  BY DEF VaultInv, VaultTypeOK, TasksOK
<1>3. fp \in Known \cup {NoPassport}
  <2>1. VaultTypeOK /\ disk[task[r].path] \in Content
    BY <1>2 DEF VaultInv, VaultTypeOK, Task
  <2>2. QED
    BY <2>1, LoadedTypes
<1> HIDE DEF fp
<1>4. CASE fp # NoPassport /\ task' = [task EXCEPT ![r].pc = "check", ![r].fp = fp]
  <2> DEFINE new == [task[r] EXCEPT !.pc = "check", !.fp = fp]
  <2>1. task' = [task EXCEPT ![r] = new]
    BY <1>4
  <2>2. /\ new \in Task /\ new.pc = "check" /\ new.fp = fp
       /\ new.shown = task[r].shown /\ new.before = task[r].before
    BY <1>2, <1>3 DEF Task
  <2> HIDE DEF new
  <2>3. new.before \subseteq revoked /\ NewShown(new)
    BY <1>2, <2>2 DEF TaskOK, NewShown
  <2>4. fp \in Known
    BY <1>3, <1>4
  <2>5. QED
    BY <1>1, <2>1, <2>2, <2>3, <2>4, ReaderKeeps
<1>5. CASE Show(r, [from |-> task[r].from, fp |-> NoPassport, answered |-> FALSE])
  <2> DEFINE e == [from |-> task[r].from, fp |-> NoPassport, answered |-> FALSE]
  <2>1. e \in Entry /\ ~ e.answered
    BY <1>2 DEF Entry, Task
  <2>2. Show(r, e)
    BY <1>5
  <2> HIDE DEF e
  <2>3. QED
    BY <1>1, <2>1, <2>2, ShowKeeps
<1>6. QED
  BY <1>4, <1>5 DEF ListLoad, fp

LEMMA ListCheckKeeps ==
  ASSUME VaultInv, NEW r \in Request, ListCheck(r)
  PROVE  VaultInv'
<1>1. /\ UNCHANGED <<ephemeral, disk, granted, asked, store, restored, restarts>>
      /\ task[r].pc = "check"
  BY DEF ListCheck, At
<1>2. task[r] \in Task /\ TaskOK(r)
  BY DEF VaultInv, VaultTypeOK, TasksOK
<1>3. CASE task' = [task EXCEPT ![r].pc = "remove"]
  <2> DEFINE new == [task[r] EXCEPT !.pc = "remove"]
  <2>1. task' = [task EXCEPT ![r] = new]
    BY <1>3
  <2>2. new \in Task /\ new.pc = "remove" /\ new.shown = task[r].shown /\ new.before = task[r].before
    BY <1>2 DEF Task
  <2> HIDE DEF new
  <2>3. new.before \subseteq revoked /\ NewShown(new)
    BY <1>2, <2>2 DEF TaskOK, NewShown
  <2>4. QED
    BY <1>1, <2>1, <2>2, <2>3, ReaderKeeps
<1>4. ASSUME NEW answered \in BOOLEAN,
             IF answered THEN task[r].fp \notin revoked ELSE ~ ephemeral,
             Show(r, [from |-> task[r].from, fp |-> task[r].fp, answered |-> answered])
      PROVE  VaultInv'
  <2> DEFINE e == [from |-> task[r].from, fp |-> task[r].fp, answered |-> answered]
  <2>1. e.answered => e.fp \notin revoked
    BY <1>4
  <2>2. e \in Entry
    BY <1>1, <1>2 DEF Entry, Task, VaultInv, TasksOK, TaskOK
  <2>3. Show(r, e)
    BY <1>4
  <2> HIDE DEF e
  <2>4. QED
    BY <1>1, <2>1, <2>2, <2>3, ShowKeeps
<1>5. QED
  BY <1>3, <1>4 DEF ListCheck

LEMMA ListRemoveKeeps ==
  ASSUME VaultInv, NEW r \in Request, ListRemove(r)
  PROVE  VaultInv'
<1>1. /\ UNCHANGED <<ephemeral, granted, asked, store, restored, restarts>>
      /\ disk' \in {disk, [disk EXCEPT ![task[r].path] = Absent]}
      /\ Show(r, NoEntry)
  BY DEF ListRemove
<1>2. PICK new \in Task : /\ task' = [task EXCEPT ![r] = new]
                          /\ new.before \subseteq revoked /\ NewShown(new)
                          /\ new.pc = "list"
  BY <1>1, ShowTask, NoEntryType
<1>3. disk \in [Path -> Content] /\ Absent \in Content /\ Absent \notin Fp
  BY DEF VaultInv, VaultTypeOK, Content, Absent, Fp
<1>4. /\ disk' \in [Path -> Content]
      /\ \A p \in Path : disk'[p] = disk[p] \/ disk'[p] \notin Fp
  BY <1>1, <1>3
<1>5. /\ revoked \subseteq revoked' /\ ever \subseteq ever' /\ revoked' \subseteq ever'
      /\ ever' \subseteq Known /\ new.before \subseteq revoked' /\ gone' = gone
  BY <1>1, <1>2 DEF store, VaultInv, VaultTypeOK
<1>6. new \in Task'
  BY <1>1, TypesSame DEF store
<1>7. new.pc \notin {"rename", "truncate", "fill", "check", "revoke", "unlink"}
  BY <1>2
<1>8. QED
  BY <1>1, <1>2, <1>4, <1>5, <1>6, <1>7, QuietHandlerKeeps

(* The only writer of a passport puts it into the only file that has it.     *)
LEMMA FillKeeps ==
  ASSUME VaultInv, NEW r \in Request, Fill(r)
  PROVE  VaultInv'
<1> DEFINE path == task[r].path
<1>1. /\ UNCHANGED <<ephemeral, granted, asked, revoked, ever, gone, restored, restarts>>
      /\ task[r].pc = "fill" /\ task' = [task EXCEPT ![r] = Idle]
  BY DEF Fill, At, store, Finish
<1>2. PICK c \in {task[r].fp, Torn} : disk' = [disk EXCEPT ![path] = c]
  BY DEF Fill
<1>3. /\ task[r] \in Task /\ disk \in [Path -> Content] /\ path \in Path
      /\ task[r].fp \in Content /\ Torn \in Content /\ Torn \notin Fp
  BY <1>1 DEF VaultInv, VaultTypeOK, TasksOK, TaskOK, Task, Content, Torn, Fp
<1> HIDE DEF path
<1>4. /\ disk' \in [Path -> Content] /\ disk'[path] = c
      /\ \A p \in Path : p # path => disk'[p] = disk[p]
  BY <1>2, <1>3
<1>5. task'[r].pc = "idle" /\ \A s \in Request : s # r => task'[s] = task[s]
  BY <1>1, IdleTask DEF VaultInv, VaultTypeOK
<1>6. ASSUME NEW fp \in Fp \ RestoredFps PROVE Placed(fp)'
  <2>1. Placed(fp)
    BY DEF VaultInv, AllPlaced
  <2>2. \A s \in Request : Writes(s, fp)' => Writes(s, fp) /\ s # r
    BY <1>5 DEF Writes
  <2>3. \A s \in Request : Revokes(s, fp)' => Revokes(s, fp) /\ task'[s].path = task[s].path
    BY <1>5 DEF Revokes
  <2>4. fp \in gone' => fp \in gone
    BY <1>1
  <2>5. CASE c # fp
    <3>1. \A p \in Path : disk'[p] = fp => disk[p] = fp
      BY <1>4, <2>5
    <3>2. QED
      BY <2>1, <2>2, <2>3, <2>4, <3>1, QuietKeeps
  <2>6. CASE c = fp
    <3>1. Writes(r, fp)
      BY <1>1, <1>3, <2>6 DEF Writes
    <3>2. /\ fp \notin gone /\ \A p \in Path : disk[p] # fp
          /\ \A s \in Request : (Writes(s, fp) => s = r) /\ ~ Revokes(s, fp)
      BY <2>1, <3>1 DEF Placed
    <3>3. fp \notin gone' /\ \A p \in Path : disk'[p] = fp => p = path
      BY <1>4, <2>4, <3>2
    <3>4. \A s \in Request : ~ Writes(s, fp)' /\ ~ Revokes(s, fp)'
      BY <2>2, <2>3, <3>2
    <3>5. QED
      BY <3>3, <3>4 DEF Placed
  <2>7. QED
    BY <2>5, <2>6
<1>7. AllPlaced'
  <2>1. Fp' = Fp /\ RestoredFps' = RestoredFps
    BY <1>1, TypesSame
  <2>2. QED
    BY <2>1, <1>6 DEF AllPlaced
<1> DEFINE new == Idle
<1>8. new \in Task' /\ new.pc = "idle" /\ NewShown(new) /\ new.before = {}
  <2>1. Task' = Task
    BY <1>1, TypesSame
  <2>2. QED
    BY <2>1, IdleType, IdleTask, NoEntryType DEF NewShown
<1>9. task' = [task EXCEPT ![r] = new]
  BY <1>1
<1> HIDE DEF new
<1>10. /\ revoked \subseteq revoked' /\ ever \subseteq ever' /\ revoked' \subseteq ever'
       /\ ever' \subseteq Known /\ gone' \subseteq ever'
  BY <1>1 DEF VaultInv, VaultTypeOK
<1>11. QED
  BY <1>1, <1>4, <1>7, <1>8, <1>9, <1>10, HandlerKeeps

(* The passport that is to be revoked is the one of this file, unless it was *)
(* restored into it.                                                         *)
LEMMA RevokeLoadKeeps ==
  ASSUME VaultInv, NEW r \in Request, NEW p \in Path, RevokeLoad(r, p)
  PROVE  VaultInv'
<1>1. UNCHANGED <<ephemeral, disk, granted, asked, store, restored, restarts>>
  BY DEF RevokeLoad
<1>2. CASE Loaded(disk[p]) = NoPassport
  BY <1>1, <1>2, FinishKeeps DEF RevokeLoad
<1>3. CASE Loaded(disk[p]) # NoPassport
  <2> DEFINE c == Loaded(disk[p])
             new == [Idle EXCEPT !.pc = "revoke", !.path = p, !.fp = c]
  <2>1. task' = [task EXCEPT ![r] = new]
    BY <1>3 DEF RevokeLoad, Begin
  <2>2. c \in Known /\ (c \in Fp \ RestoredFps => disk[p] = c)
    <3>1. disk[p] \in Content /\ VaultTypeOK
      BY DEF VaultInv, VaultTypeOK
    <3>2. QED
      BY <1>3, <3>1, LoadedTypes DEF Known
  <2> HIDE DEF c
  <2>4. new \in [pc : {"revoke"}, path : {p}, fp : {c}, from : {Absent}, todo : {{}},
                 shown : {NoEntry}, before : {{}}]
    BY StartedTask
  <2> HIDE DEF new
  <2>5. new.pc = "revoke" /\ new.path = p /\ new.fp = c /\ NewShown(new) /\ new.before = {}
    BY <2>4, NoEntryType DEF NewShown
  <2>6. /\ Task' = Task /\ Fp' = Fp /\ RestoredFps' = RestoredFps /\ disk' = disk /\ gone' = gone
        /\ revoked' = revoked /\ ever' = ever
    BY <1>1, TypesSame DEF store
  <2>7. new \in Task'
    <3>1. Absent \in Content
      BY DEF Content
    <3>2. QED
      <4>1. new \in Task
        BY <2>2, <2>4, <3>1, NoEntryType DEF Task
      <4>2. QED
        BY <2>6, <4>1
  <2>8. task'[r] = new /\ \A s \in Request : s # r => task'[s] = task[s]
    BY <2>1 DEF VaultInv, VaultTypeOK
  <2>9. ASSUME NEW fp \in Fp \ RestoredFps PROVE Placed(fp)'
    <3>1. Placed(fp)
      BY DEF VaultInv, AllPlaced
    <3>2. \A s \in Request : Writes(s, fp)' => Writes(s, fp)
      BY <2>5, <2>8 DEF Writes
    <3>3. (fp \in gone' => fp \in gone) /\ \A q \in Path : disk'[q] = fp => disk[q] = fp
      BY <2>6
    <3>4. CASE fp # c
      <4>1. \A s \in Request : Revokes(s, fp)' => Revokes(s, fp) /\ task'[s].path = task[s].path
        BY <2>5, <2>8, <3>4 DEF Revokes
      <4>2. QED
        BY <3>1, <3>2, <3>3, <4>1, QuietKeeps
    <3>5. CASE fp = c
      <4>1. /\ fp \notin gone /\ \A q \in Path : disk[q] = fp => q = p
            /\ \A s \in Request : Revokes(s, fp) => task[s].path = p
        BY <2>2, <3>1, <3>5 DEF Placed
      <4>2. \A s \in Request : ~ Writes(s, fp)
        BY <2>2, <3>1, <3>5 DEF Placed
      <4>3. \A s \in Request : Revokes(s, fp)' => task'[s].path = p
        BY <2>5, <2>8, <4>1 DEF Revokes
      <4>4. QED
        BY <2>6, <3>2, <4>1, <4>2, <4>3 DEF Placed
    <3>6. QED
      BY <3>4, <3>5
  <2>10. AllPlaced'
    BY <2>6, <2>9 DEF AllPlaced
  <2>11. /\ revoked \subseteq revoked' /\ ever \subseteq ever' /\ revoked' \subseteq ever'
         /\ ever' \subseteq Known /\ gone' \subseteq ever' /\ disk' \in [Path -> Content]
    BY <2>6 DEF VaultInv, VaultTypeOK
  <2>12. QED
    BY <1>1, <2>1, <2>2, <2>5, <2>7, <2>10, <2>11, HandlerKeeps
<1>4. QED
  BY <1>2, <1>3

LEMMA RevokeStoreKeeps ==
  ASSUME VaultInv, NEW r \in Request, RevokeStore(r)
  PROVE  VaultInv'
<1>1. /\ UNCHANGED <<ephemeral, disk, granted, asked, gone, restored, restarts>>
      /\ task[r].pc = "revoke"
  BY DEF RevokeStore, At
<1>2. task[r] \in Task /\ TaskOK(r) /\ task[r].fp \in Known
  BY <1>1 DEF VaultInv, VaultTypeOK, TasksOK, TaskOK
<1>3. Fp' = Fp /\ DOMAIN restored' = DOMAIN restored
  BY <1>1 DEF Fp
<1>4. CASE Finish(r) /\ UNCHANGED <<revoked, ever>>
  BY <1>1, <1>4, FinishKeeps DEF store
<1>5. CASE revoked' = revoked \cup {task[r].fp} /\ ever' = ever \cup {task[r].fp}
  <2>1. /\ revoked \subseteq revoked' /\ ever \subseteq ever' /\ revoked' \subseteq ever'
        /\ ever' \subseteq Known /\ disk' \in [Path -> Content]
        /\ \A p \in Path : disk'[p] = disk[p] \/ disk'[p] \notin Fp
    BY <1>1, <1>2, <1>5 DEF VaultInv, VaultTypeOK
  <2>2. Task \subseteq Task'
    BY <1>3, <2>1, TypesGrow
  <2>3. CASE Finish(r)
    <3> DEFINE new == Idle
    <3>1. new \in Task' /\ new.pc = "idle" /\ NewShown(new) /\ new.before = {}
      BY <2>2, IdleType, IdleTask, NoEntryType DEF NewShown
    <3>2. task' = [task EXCEPT ![r] = new]
      BY <2>3 DEF Finish
    <3> HIDE DEF new
    <3>3. new.before \subseteq revoked' /\ NewShown(new)
      BY <3>1
    <3>4. new.pc \notin {"rename", "truncate", "fill", "check", "revoke", "unlink"}
      BY <3>1
    <3>5. QED
      BY <1>1, <2>1, <3>1, <3>2, <3>3, <3>4, QuietHandlerKeeps
  <2>4. CASE task' = [task EXCEPT ![r].pc = "unlink"]
    <3> DEFINE new == [task[r] EXCEPT !.pc = "unlink"]
    <3>1. task' = [task EXCEPT ![r] = new]
      BY <2>4
    <3>2. /\ new \in Task /\ new.pc = "unlink" /\ new.fp = task[r].fp /\ new.path = task[r].path
          /\ new.shown = task[r].shown /\ new.before = task[r].before
      BY <1>2 DEF Task
    <3> HIDE DEF new
    <3>3. new.before \subseteq revoked' /\ NewShown(new) /\ new.fp \in ever'
      BY <1>2, <1>5, <3>2 DEF TaskOK, NewShown
    <3>4. Revokes(r, new.fp)
      BY <1>1, <3>2 DEF Revokes
    <3>5. new \in Task' /\ new.pc \notin {"rename", "truncate", "fill", "check", "revoke"}
      BY <2>2, <3>2
    <3>6. QED
      BY <1>1, <2>1, <3>1, <3>2, <3>3, <3>4, <3>5, QuietHandlerKeeps
  <2>5. QED
    BY <1>4, <1>5, <2>3, <2>4 DEF RevokeStore
<1>6. QED
  BY <1>4, <1>5 DEF RevokeStore

(* The file that is removed is the only one that has the passport.           *)
LEMMA RevokeUnlinkKeeps ==
  ASSUME VaultInv, NEW r \in Request, RevokeUnlink(r)
  PROVE  VaultInv'
<1> DEFINE path == task[r].path
           c == task[r].fp
<1>1. /\ UNCHANGED <<ephemeral, granted, asked, revoked, ever, restored, restarts>>
      /\ task[r].pc = "unlink" /\ Finish(r)
  BY DEF RevokeUnlink, At
<1>2. CASE UNCHANGED <<disk, gone>>
  BY <1>1, <1>2, FinishKeeps DEF store
<1>3. CASE disk' = [disk EXCEPT ![path] = Absent] /\ gone' = gone \cup {c}
  <2>1. /\ task[r] \in Task /\ disk \in [Path -> Content] /\ path \in Path /\ c \in ever
        /\ Absent \in Content /\ Absent \notin Fp
    BY <1>1 DEF VaultInv, VaultTypeOK, TasksOK, TaskOK, Task, Content, Absent, Fp
  <2>2. Revokes(r, c) /\ task[r].path = path
    BY <1>1 DEF Revokes
  <2> HIDE DEF path, c
  <2>3. /\ disk' \in [Path -> Content] /\ disk'[path] = Absent
        /\ \A p \in Path : p # path => disk'[p] = disk[p]
    BY <1>3, <2>1
  <2>4. task'[r].pc = "idle" /\ \A s \in Request : s # r => task'[s] = task[s]
    BY <1>1, IdleTask DEF VaultInv, VaultTypeOK, Finish
  <2>5. ASSUME NEW fp \in Fp \ RestoredFps PROVE Placed(fp)'
    <3>1. Placed(fp)
      BY DEF VaultInv, AllPlaced
    <3>2. \A s \in Request : Writes(s, fp)' => Writes(s, fp)
      BY <2>4 DEF Writes
    <3>3. \A s \in Request : Revokes(s, fp)' => Revokes(s, fp) /\ task'[s].path = task[s].path
      BY <2>4 DEF Revokes
    <3>4. \A p \in Path : disk'[p] = fp => disk[p] = fp /\ p # path
      BY <2>1, <2>3
    <3>5. CASE fp # c
      <4>1. fp \in gone' => fp \in gone
        BY <1>3, <3>5
      <4>2. QED
        BY <3>1, <3>2, <3>3, <3>4, <4>1, QuietKeeps
    <3>6. CASE fp = c
      <4>1. \A s \in Request : ~ Writes(s, fp)
        BY <2>2, <3>1, <3>6 DEF Placed
      <4>2. \A p \in Path : disk[p] = fp => p = path
        BY <2>2, <3>1, <3>6 DEF Placed
      <4>3. \A p \in Path : disk'[p] # fp
        BY <3>4, <4>2
      <4>4. QED
        BY <3>2, <4>1, <4>3 DEF Placed
    <3>7. QED
      BY <3>5, <3>6
  <2>6. AllPlaced'
    <3>1. Fp' = Fp /\ RestoredFps' = RestoredFps
      BY <1>1, TypesSame
    <3>2. QED
      BY <3>1, <2>5 DEF AllPlaced
  <2> DEFINE new == Idle
  <2>7. new \in Task' /\ new.pc = "idle" /\ NewShown(new) /\ new.before = {}
    <3>1. Task' = Task
      BY <1>1, TypesSame
    <3>2. QED
      BY <3>1, IdleType, IdleTask, NoEntryType DEF NewShown
  <2>8. task' = [task EXCEPT ![r] = new]
    BY <1>1 DEF Finish
  <2> HIDE DEF new
  <2>9. /\ revoked \subseteq revoked' /\ ever \subseteq ever' /\ revoked' \subseteq ever'
        /\ ever' \subseteq Known /\ gone' \subseteq ever'
    BY <1>1, <1>3, <2>1 DEF VaultInv, VaultTypeOK
  <2>10. QED
    BY <1>1, <2>3, <2>6, <2>7, <2>8, <2>9, HandlerKeeps
<1>4. QED
  BY <1>2, <1>3 DEF RevokeUnlink

(* A passport that is restored may be in several places from then on: it is  *)
(* no longer one of those that Placed speaks of.                             *)
LEMMA RestoreKeeps ==
  ASSUME VaultInv, NEW r \in Request, NEW path \in Path, NEW fp \in Known \cup {NoPassport},
         NEW claims \in Claimed, Restore(r, path, fp, claims)
  PROVE  VaultInv'
<1> DEFINE d == [fp |-> fp, says |-> claims]
           n == Len(restored)
           new == [Idle EXCEPT !.pc = "rename", !.path = path, !.fp = Doc(n + 1)]
           T == [fp : Known \cup {NoPassport}, says : Claimed]
<1>1. /\ UNCHANGED <<ephemeral, disk, granted, asked, revoked, ever, gone, restarts>>
      /\ task' = [task EXCEPT ![r] = new]
      /\ n < MaxRestores /\ restored' = Append(restored, d)
  BY DEF Restore, Begin, store
<1>2. restored \in Seq(T) /\ d \in T /\ n \in Nat /\ MaxRestores \in Nat
  BY VaultAssumption DEF VaultInv, VaultTypeOK
<1> HIDE DEF T
<1>3. d.fp = fp
  OBVIOUS
<1> HIDE DEF d
<1>4. /\ restored' \in Seq(T) /\ Len(restored') = n + 1 /\ restored'[n + 1] = d
      /\ \A i \in 1 .. n : restored'[i] = restored[i]
  BY <1>1, <1>2
<1>5. DOMAIN restored = 1 .. n /\ DOMAIN restored' = 1 .. (n + 1) /\ n + 1 \in DOMAIN restored'
      /\ DOMAIN restored \subseteq DOMAIN restored'
  BY <1>2, <1>4
<1>6. /\ RestoredFps \subseteq RestoredFps' /\ fp \in RestoredFps'
      /\ RestoredClaims \subseteq RestoredClaims'
  BY <1>3, <1>4, <1>5 DEF RestoredFps, RestoredClaims
<1>7. Fp' = Fp /\ Known' = Known
  BY <1>1 DEF Fp, Known
<1>8. Task \subseteq Task' /\ Content \subseteq Content' /\ Doc(n + 1) \in Content'
  <2>1. Doc(n + 1) \in Content'
    BY <1>5 DEF Content, Doc
  <2>2. QED
    BY <1>1, <1>5, <1>7, <2>1, TypesGrow
<1>9. new \in [pc : {"rename"}, path : {path}, fp : {Doc(n + 1)}, from : {Absent}, todo : {{}},
              shown : {NoEntry}, before : {{}}]
  BY StartedTask
<1> HIDE DEF new
<1>10. /\ new.pc = "rename" /\ new.fp = Doc(n + 1) /\ ~ new.shown.answered /\ new.before = {}
       /\ Doc(n + 1) \notin Fp
  BY <1>2, <1>9, NoEntryType DEF Doc, Fp
<1>11. /\ task' \in [Request -> Task'] /\ task'[r] = new
       /\ \A s \in Request : s # r => task'[s] = task[s]
  <2>1. NoEntry \in Entry' /\ Absent \in Content'
    <3>1. Entry' = [from : Content', fp : Known' \cup {NoPassport}, answered : BOOLEAN]
      BY DEF Entry
    <3>2. Absent \in Content'
      BY DEF Content
    <3>3. QED
      BY <3>1, <3>2 DEF NoEntry
  <2>2. new \in Task'
    BY <1>8, <1>9, <2>1 DEF Task
  <2>3. task \in [Request -> Task]
    BY DEF VaultInv, VaultTypeOK
  <2>4. QED
    BY <1>1, <1>8, <2>2, <2>3
<1>12. Len(restored') <= MaxRestores /\ disk' \in [Path -> Content']
       /\ restored' \in Seq([fp : Known' \cup {NoPassport}, says : Claimed])
  BY <1>1, <1>2, <1>4, <1>7, <1>8 DEF VaultInv, VaultTypeOK, T
<1>13. VaultTypeOK'
  BY <1>1, <1>7, <1>11, <1>12 DEF VaultInv, VaultTypeOK
<1>14. TasksOK'
  <2> SUFFICES ASSUME NEW s \in Request PROVE TaskOK(s)'
    BY DEF TasksOK
  <2>1. CASE s = r
    BY <2>1, <1>8, <1>10, <1>11 DEF TaskOK
  <2>2. CASE s # r
    <3>1. task'[s] = task[s] /\ TaskOK(s)
      BY <2>2, <1>11 DEF VaultInv, TasksOK
    <3>2. QED
      BY <3>1, <1>1, <1>7, <1>8 DEF TaskOK
  <2>3. QED
    BY <2>1, <2>2
<1>15. NothingExtraGranted'
  BY <1>1, <1>6, <1>7 DEF VaultInv, NothingExtraGranted
<1>16. ASSUME NEW f \in Fp' \ RestoredFps' PROVE Placed(f)'
  <2>1. Placed(f) /\ f # new.fp
    BY <1>6, <1>7, <1>10, <1>16 DEF VaultInv, AllPlaced
  <2>2. \A s \in Request : Writes(s, f)' => Writes(s, f)
    BY <2>1, <1>10, <1>11 DEF Writes
  <2>3. \A s \in Request : Revokes(s, f)' => Revokes(s, f) /\ task'[s].path = task[s].path
    BY <1>10, <1>11 DEF Revokes
  <2>4. (f \in gone' => f \in gone) /\ \A p \in Path : disk'[p] = f => disk[p] = f
    BY <1>1
  <2>5. QED
    BY <2>1, <2>2, <2>3, <2>4, QuietKeeps
<1>17. AllPlaced'
  BY <1>16 DEF AllPlaced
<1>18. QED
  BY <1>13, <1>14, <1>15, <1>17 DEF VaultInv

LEMMA RestoreRenameKeeps ==
  ASSUME VaultInv, NEW r \in Request, RestoreRename(r)
  PROVE  VaultInv'
<1>1. /\ UNCHANGED <<ephemeral, granted, asked, store, restored, restarts>>
      /\ task[r].pc = "rename" /\ disk' \in {disk, [disk EXCEPT ![task[r].path] = Absent]}
  BY DEF RestoreRename, At
<1> DEFINE new == [task[r] EXCEPT !.pc = "truncate"]
<1>2. task[r] \in Task /\ TaskOK(r) /\ disk \in [Path -> Content]
  BY DEF VaultInv, VaultTypeOK, TasksOK
<1>3. Task' = Task
  BY <1>1, TypesSame DEF store
<1>4. /\ new \in Task' /\ new.pc = "truncate" /\ new.fp = task[r].fp /\ new.shown = task[r].shown
      /\ new.before = task[r].before
  BY <1>2, <1>3 DEF Task
<1>5. task' = [task EXCEPT ![r] = new]
  BY DEF RestoreRename
<1> HIDE DEF new
<1>6. Absent \in Content /\ Absent \notin Fp
  BY DEF Content, Absent, Fp
<1>7. disk' \in [Path -> Content] /\ \A p \in Path : disk'[p] = disk[p] \/ disk'[p] \notin Fp
  BY <1>1, <1>2, <1>6
<1>8. new.before \subseteq revoked' /\ NewShown(new)
  BY <1>1, <1>2, <1>4 DEF TaskOK, NewShown, store
<1>9. new.pc \in {"rename", "truncate", "fill"} => Writes(r, new.fp)
  BY <1>1, <1>4 DEF Writes
<1>10. /\ revoked \subseteq revoked' /\ ever \subseteq ever'
       /\ revoked' \subseteq ever' /\ ever' \subseteq Known /\ gone' = gone
  BY <1>1 DEF store, VaultInv, VaultTypeOK
<1>11. new.pc # "revoke" /\ new.pc # "unlink"
  BY <1>4
<1>12. QED
  BY <1>1, <1>4, <1>5, <1>7, <1>8, <1>9, <1>10, <1>11, QuietHandlerKeeps

(* What a restart forgets, nobody is in the middle of using.                 *)
LEMMA RestartKeeps ==
  ASSUME VaultInv, Restart
  PROVE  VaultInv'
<1>1. /\ UNCHANGED <<ephemeral, disk, granted, asked, ever, gone, restored>>
      /\ restarts < MaxRestarts /\ restarts' = restarts + 1
      /\ revoked' = (IF ephemeral THEN {} ELSE revoked)
      /\ task' = [r \in Request |-> Idle]
  BY DEF Restart
<1>2. /\ Task' = Task /\ Fp' = Fp /\ Content' = Content /\ Known' = Known
      /\ RestoredFps' = RestoredFps /\ RestoredClaims' = RestoredClaims
  BY <1>1, TypesSame
<1>3. revoked' \subseteq ever' /\ restarts' \in 0 .. MaxRestarts
  BY <1>1, VaultAssumption DEF VaultInv, VaultTypeOK
<1>4. task' \in [Request -> Task]
  BY <1>1, IdleType
<1>5. VaultTypeOK'
  BY <1>1, <1>2, <1>3, <1>4 DEF VaultInv, VaultTypeOK
<1>6. \A s \in Request : task'[s] = Idle
  BY <1>1
<1>7. TasksOK'
  BY <1>6, IdleTask, NoEntryType DEF TasksOK, TaskOK
<1>8. NothingExtraGranted'
  BY <1>1, <1>2 DEF VaultInv, NothingExtraGranted
<1>9. ASSUME NEW fp \in Fp \ RestoredFps PROVE Placed(fp)'
  <2>1. Placed(fp)
    BY DEF VaultInv, AllPlaced
  <2>2. \A s \in Request : ~ Writes(s, fp)' /\ ~ Revokes(s, fp)'
    BY <1>6, IdleTask DEF Writes, Revokes
  <2>3. (fp \in gone' => fp \in gone) /\ \A p \in Path : disk'[p] = fp => disk[p] = fp
    BY <1>1
  <2>4. QED
    BY <2>1, <2>2, <2>3, QuietKeeps
<1>10. AllPlaced'
  BY <1>1, <1>2, <1>9 DEF AllPlaced
<1>11. QED
  BY <1>5, <1>7, <1>8, <1>10 DEF VaultInv

-----------------------------------------------------------------------------

LEMMA VaultInvInit == VaultInit => VaultInv
<1> SUFFICES ASSUME VaultInit PROVE VaultInv
  OBVIOUS
<1>1. granted = <<>> /\ Len(granted) = 0 /\ granted \in Seq(Grant)
  BY DEF VaultInit
<1>2. Fp = {}
  BY <1>1 DEF Fp
<1>3. restored \in Seq([fp : Known \cup {NoPassport}, says : Claimed]) /\ Len(restored) = 0
  BY DEF VaultInit
<1>4. task \in [Request -> Task] /\ disk \in [Path -> Content]
  BY IdleType DEF VaultInit, Content
<1>5. VaultTypeOK
  BY <1>1, <1>3, <1>4, VaultAssumption DEF VaultInit, VaultTypeOK
<1>6. TasksOK
  BY IdleTask, NoEntryType DEF VaultInit, TasksOK, TaskOK
<1>7. QED
  BY <1>2, <1>5, <1>6 DEF VaultInv, NothingExtraGranted, AllPlaced

LEMMA VaultInvNext == VaultInv /\ [VaultNext]_vaultVars => VaultInv'
<1> SUFFICES ASSUME VaultInv, [VaultNext]_vaultVars PROVE VaultInv'
  OBVIOUS
<1>1. CASE UNCHANGED vaultVars
  <2>1. UNCHANGED <<ephemeral, disk, granted, asked, revoked, ever, gone, restored, task, restarts>>
    BY <1>1 DEF vaultVars
  <2>8. /\ Fp' = Fp /\ Known' = Known /\ Content' = Content /\ Task' = Task
        /\ RestoredFps' = RestoredFps /\ RestoredClaims' = RestoredClaims
    BY <2>1, TypesSame
  <2>2. VaultTypeOK'
    BY <2>1, <2>8 DEF VaultInv, VaultTypeOK
  <2>3. TasksOK'
    BY <2>1, <2>8 DEF VaultInv, TasksOK, TaskOK
  <2>4. NothingExtraGranted'
    BY <2>1, <2>8 DEF VaultInv, NothingExtraGranted
  <2>5. ASSUME NEW fp, Placed(fp) PROVE Placed(fp)'
    BY <2>1, <2>5 DEF Placed, Writes, Revokes
  <2>6. AllPlaced'
    BY <2>5, <2>8 DEF VaultInv, AllPlaced
  <2>7. QED
    BY <2>2, <2>3, <2>4, <2>6 DEF VaultInv
<1>2. CASE Restart
  BY <1>2, RestartKeeps
<1>3. ASSUME NEW r \in Request, Arrive(r) PROVE VaultInv'
  <2>1. ASSUME NEW g \in Grant, Issue(r, g) PROVE VaultInv'
    BY <2>1, IssueKeeps
  <2>2. ASSUME NEW p \in Path, Renew(r, p) PROVE VaultInv'
    BY <2>2, RenewKeeps
  <2>3. ASSUME NEW p \in Path, RevokeLoad(r, p) PROVE VaultInv'
    BY <2>3, RevokeLoadKeeps
  <2>4. CASE List(r)
    BY <2>4, ListKeeps
  <2>5. ASSUME NEW p \in Path, NEW fp \in Known \cup {NoPassport}, NEW claims \in Claimed,
               Restore(r, p, fp, claims)
        PROVE  VaultInv'
    BY <2>5, RestoreKeeps
  <2>6. QED
    BY <1>3, <2>1, <2>2, <2>3, <2>4, <2>5 DEF Arrive
<1>4. ASSUME NEW r \in Request, Step(r) PROVE VaultInv'
  <2>1. CASE Truncate(r)
    BY <2>1, TruncateKeeps
  <2>2. CASE Fill(r)
    BY <2>2, FillKeeps
  <2>3. ASSUME NEW p \in Path, ListRead(r, p) PROVE VaultInv'
    BY <2>3, ListReadKeeps
  <2>4. CASE ListLoad(r)
    BY <2>4, ListLoadKeeps
  <2>5. CASE ListCheck(r)
    BY <2>5, ListCheckKeeps
  <2>6. CASE ListRemove(r)
    BY <2>6, ListRemoveKeeps
  <2>7. CASE ListEnd(r)
    BY <2>7, FinishKeeps DEF ListEnd
  <2>8. CASE RevokeStore(r)
    BY <2>8, RevokeStoreKeeps
  <2>9. CASE RevokeUnlink(r)
    BY <2>9, RevokeUnlinkKeeps
  <2>10. CASE RestoreRename(r)
    BY <2>10, RestoreRenameKeeps
  <2>11. QED
    BY <1>4, <2>1, <2>2, <2>3, <2>4, <2>5, <2>6, <2>7, <2>8, <2>9, <2>10 DEF Step
<1>5. QED
  BY <1>1, <1>2, <1>3, <1>4 DEF VaultNext

LEMMA VaultInvAlways == VaultSpec => []VaultInv
BY VaultInvInit, VaultInvNext, PTL DEF VaultSpec

(* However renewals interleave with the handlers that replace, remove and    *)
(* restore the files they read: every certificate is for a namespace and     *)
(* capabilities that somebody asked to be issued, or that a document which   *)
(* somebody restored claims; no handler verifies those claims                *)
(* (renew_passport_handler, restore_passports_handler).                      *)
THEOREM NothingExtraGrantedAlways == VaultSpec => []NothingExtraGranted
<1>1. VaultInv => NothingExtraGranted
  BY DEF VaultInv
<1>2. QED
  BY <1>1, VaultInvAlways, PTL

(* A listing that the store answers does not show the fingerprint of what    *)
(* was revoked before it began, and a passport that was revoked by its       *)
(* namespace and removed does not come back, through any interleaving of     *)
(* writers, listings, revocations and restarts, unless its certificate is    *)
(* restored (list_passports_handler, revoke_by_namespace_handler).           *)
THEOREM RevokedStaysAwayAlways == VaultSpec => []RevokedStaysAway
<1>1. VaultInv => RevokedStaysAway
  <2> SUFFICES ASSUME VaultInv PROVE RevokedStaysAway
    OBVIOUS
  <2>1. RevokedNotListed
    BY DEF VaultInv, TasksOK, TaskOK, RevokedNotListed
  <2>2. ASSUME NEW p \in Path, Loaded(disk[p]) \in gone \ RestoredFps PROVE FALSE
    <3>1. VaultTypeOK /\ disk[p] \in Content /\ gone \subseteq Known
      BY DEF VaultInv, VaultTypeOK
    <3>2. disk[p] \in Fp /\ disk[p] = Loaded(disk[p])
      BY <2>2, <3>1, LoadedTypes
    <3>3. Placed(disk[p])
      BY <2>2, <3>2 DEF VaultInv, AllPlaced
    <3>4. QED
      BY <2>2, <3>2, <3>3 DEF Placed
  <2>3. QED
    BY <2>1, <2>2 DEF RevokedStaysAway, RevokedStaysGone
<1>2. QED
  BY <1>1, VaultInvAlways, PTL

-----------------------------------------------------------------------------
(* Passports in use                                                          *)

(* A passport as issue makes it: mask, capabilities and certificate agree.   *)
RootOK(root) ==
  /\ root \in DyoloPassport
  /\ root.capability_mask = from_capabilities(root.capabilities)
  /\ root.cert.scope = root.capabilities
  /\ IsFiniteSet(root.capabilities)

(* The only certificate of a chain, as its signer built it for the holder.   *)
SingleOK(h) ==
  LET cert == h.chain.certs[1] IN
  /\ cert.delegate = h.agent /\ cert.version = CertVersion /\ cert.signed
  /\ cert.issued_at <= now
  /\ ScopeDerives(cert, h.chain.scope)
  /\ IsFiniteSet(cert.scope)

(* What is known of a chain that was handed out. Certificates that others    *)
(* have signed may be among the earlier ones.                                *)
HeldOK(h) ==
  /\ h \in Held
  /\ RootOK(h.root)
  /\ Len(h.chain.certs) # 0
  /\ LeafScope(h.chain) \subseteq h.root.capabilities
  /\ Len(h.chain.certs) = 1 => SingleOK(h)

SwarmInv ==
  /\ SwarmTypeOK
  /\ \A id \in DOMAIN swarms : RootOK(swarms[id].root)
  /\ held # Nothing => HeldOK(held)

LEMMA PassthroughType == Passthrough \in SubScopeProof /\ Passthrough.intents = {}
BY DEF Passthrough, SubScopeProof, Scope

LEMMA MaskType ==
  ASSUME NEW caps \in Scope
  PROVE  from_capabilities(caps) \in NarrowingMatrix
BY PassportAssumption DEF from_capabilities, NarrowingMatrix, Scope

LEMMA IssuedRoot ==
  ASSUME NEW owner \in Key, NEW caps \in RootCaps, NEW t \in Nat
  PROVE  RootOK(issue(owner, caps, 0, t, MaxTime + 1))
<1> DEFINE cert == Built(owner, owner, caps, Passthrough, 0, t, MaxTime + 1, U8Max)
           mask == from_capabilities(caps)
<1>1. caps \in Scope /\ IsFiniteSet(caps) /\ MaxTime + 1 \in Nat /\ U8Max \in Nat
  BY SwarmAssumption, U8MaxAssumption
<1>2. cert \in DelegationCert /\ cert.scope = caps
  <2>1. Passthrough \in SubScopeProof /\ 0 \in Nat
    BY PassthroughType
  <2>2. cert = Built(owner, owner, caps, Passthrough, 0, t, MaxTime + 1, U8Max)
    OBVIOUS
  <2> HIDE DEF cert
  <2>3. QED
    BY <1>1, <2>1, <2>2, PassportAssumption DEF Built, DelegationCert
<1>3. mask \in NarrowingMatrix
  BY <1>1, MaskType
<1>4. issue(owner, caps, 0, t, MaxTime + 1) = [capability_mask |-> mask, capabilities |-> caps, cert |-> cert]
  BY DEF issue
<1>5. mask = from_capabilities(caps)
  OBVIOUS
<1> HIDE DEF cert, mask
<1>6. QED
  BY <1>1, <1>2, <1>3, <1>4, <1>5 DEF RootOK, DyoloPassport

-----------------------------------------------------------------------------

(* One swarm is put into the map, nothing is handed out.                     *)
LEMMA PutKeeps ==
  ASSUME SwarmInv, NEW id \in SwarmId, NEW root, NEW members, RootOK(root),
         id[2] = root.capability_mask, DOMAIN members \subseteq Key,
         \A k \in DOMAIN members : members[k] \in Member,
         swarms' = Extend(swarms, id, [root |-> root, members |-> members]),
         UNCHANGED <<now, poisoned, held>>
  PROVE  SwarmInv'
<1> DEFINE new == [root |-> root, members |-> members]
<1>1. new.root = root /\ new.members = members
  OBVIOUS
<1>2. swarms' = [y \in DOMAIN swarms \cup {id} |-> IF y = id THEN new ELSE swarms[y]]
  BY DEF Extend
<1> HIDE DEF new
<1>3. /\ DOMAIN swarms' = DOMAIN swarms \cup {id} /\ swarms'[id] = new
      /\ \A y \in DOMAIN swarms : y # id => swarms'[y] = swarms[y]
  BY <1>2
<1>4. root \in DyoloPassport
  BY DEF RootOK
<1>5. ASSUME NEW y \in DOMAIN swarms'
      PROVE  /\ swarms'[y].root \in DyoloPassport
             /\ y[2] = swarms'[y].root.capability_mask
             /\ DOMAIN swarms'[y].members \subseteq Key
             /\ \A k \in DOMAIN swarms'[y].members : swarms'[y].members[k] \in Member
             /\ RootOK(swarms'[y].root)
  <2>1. CASE y = id
    BY <2>1, <1>1, <1>3, <1>4
  <2>2. CASE y # id
    <3>1. y \in DOMAIN swarms /\ swarms'[y] = swarms[y]
      BY <2>2, <1>3, <1>5
    <3>2. QED
      BY <3>1 DEF SwarmInv, SwarmTypeOK
  <2>3. QED
    BY <2>1, <2>2
<1>6. SwarmTypeOK'
  BY <1>3, <1>5 DEF SwarmInv, SwarmTypeOK
<1>7. held' # Nothing => HeldOK(held)'
  BY DEF SwarmInv, HeldOK, SingleOK
<1>8. QED
  BY <1>5, <1>6, <1>7 DEF SwarmInv

LEMMA SetMembersKeeps ==
  ASSUME SwarmInv, NEW id \in DOMAIN swarms, NEW members, DOMAIN members \subseteq Key,
         \A k \in DOMAIN members : members[k] \in Member,
         SetMembers(id, members), UNCHANGED <<now, poisoned, held>>
  PROVE  SwarmInv'
<1>1. id \in SwarmId /\ RootOK(swarms[id].root) /\ id[2] = swarms[id].root.capability_mask
  BY DEF SwarmInv, SwarmTypeOK
<1>2. swarms' = Extend(swarms, id, [root |-> swarms[id].root, members |-> members])
  BY DEF SetMembers
<1>3. QED
  BY <1>1, <1>2, PutKeeps

LEMMA CreateKeeps ==
  ASSUME SwarmInv, NEW name \in Name, NEW owner \in Key, NEW caps \in RootCaps,
         Create(name, owner, caps)
  PROVE  SwarmInv'
<1> DEFINE root == issue(owner, caps, 0, now, MaxTime + 1)
           id == <<name, root.capability_mask>>
           none == << >>
<1>1. now \in Nat
  BY SwarmAssumption DEF SwarmInv, SwarmTypeOK
<1>2. RootOK(root)
  BY <1>1, IssuedRoot
<1>3. root.capability_mask \in SUBSET {BitOf[c] : c \in Intent}
  <2>1. root.capability_mask = {BitOf[c] : c \in caps} /\ caps \subseteq Intent
    BY SwarmAssumption DEF issue, from_capabilities, Scope
  <2>2. QED
    BY <2>1
<1>4. swarms' = Extend(swarms, id, [root |-> root, members |-> none])
  BY DEF Create, SwarmPassport
<1>5. UNCHANGED <<now, poisoned, held>>
  BY DEF Create
<1>6. DOMAIN none = {}
  OBVIOUS
<1> HIDE DEF root, none
<1>7. id \in SwarmId /\ id[2] = root.capability_mask
  BY <1>3 DEF SwarmId
<1> HIDE DEF id
<1>8. DOMAIN none \subseteq Key /\ \A k \in DOMAIN none : none[k] \in Member
  BY <1>6
<1>9. QED
  BY <1>2, <1>4, <1>5, <1>7, <1>8, PutKeeps

LEMMA AddMemberKeeps ==
  ASSUME SwarmInv, NEW id \in SwarmId, NEW agent \in Key, NEW role \in Role,
         NEW caps \in MemberCaps, NEW ttl \in Ttl, AddMember(id, agent, role, caps, ttl)
  PROVE  SwarmInv'
<1>1. id \in DOMAIN swarms
  BY DEF AddMember
<1>2. CASE ttl = 0
  <2>1. poisoned' = TRUE /\ UNCHANGED <<now, swarms, held>>
    BY <1>2 DEF AddMember
  <2>2. QED
    BY <2>1 DEF SwarmInv, SwarmTypeOK, HeldOK, SingleOK
<1>3. CASE ttl # 0
  <2> DEFINE old == swarms[id].members
             member == [role |-> role, caps |-> RoleCaps(role, caps), expires |-> now + ttl]
             new == Enrolled(old, agent, role, caps, ttl)
  <2>1. SetMembers(id, new) /\ UNCHANGED <<now, poisoned, held>>
    BY <1>3 DEF AddMember
  <2>2. now \in Nat /\ ttl \in Nat /\ caps \in Scope /\ RoleCaps(role, caps) \in Scope
    BY SwarmAssumption DEF SwarmInv, SwarmTypeOK, RoleCaps, Scope
  <2>3. member \in Member
    BY <2>2 DEF Member
  <2>4. DOMAIN old \subseteq Key /\ \A k \in DOMAIN old : old[k] \in Member
    BY <1>1 DEF SwarmInv, SwarmTypeOK
  <2>5. new = [y \in DOMAIN old \cup {agent} |-> IF y = agent THEN member ELSE old[y]]
    BY DEF Enrolled, Extend
  <2> HIDE DEF old, new, member
  <2>6. DOMAIN new \subseteq Key /\ \A k \in DOMAIN new : new[k] \in Member
    BY <2>3, <2>4, <2>5
  <2>7. QED
    BY <1>1, <2>1, <2>6, SetMembersKeeps
<1>4. QED
  BY <1>2, <1>3

(* Members leave, on request or because their time is over.                  *)
LEMMA LeaveKeeps ==
  ASSUME SwarmInv, NEW id \in DOMAIN swarms, NEW S, SetMembers(id, Without(swarms[id].members, S)),
         UNCHANGED <<now, poisoned, held>>
  PROVE  SwarmInv'
<1> DEFINE old == swarms[id].members
           new == Without(old, S)
<1>1. DOMAIN old \subseteq Key /\ \A k \in DOMAIN old : old[k] \in Member
  BY DEF SwarmInv, SwarmTypeOK
<1>2. SetMembers(id, new)
  OBVIOUS
<1>3. new = [y \in DOMAIN old \ S |-> old[y]]
  BY DEF Without
<1> HIDE DEF old, new
<1>4. DOMAIN new \subseteq Key /\ \A k \in DOMAIN new : new[k] \in Member
  BY <1>1, <1>3
<1>5. QED
  BY <1>2, <1>4, SetMembersKeeps

-----------------------------------------------------------------------------

(* A chain is handed out, the map and the clock stay as they are.            *)
LEMMA HandKeeps ==
  ASSUME SwarmInv, NEW h, held' = h, HeldOK(h), UNCHANGED <<now, swarms, poisoned>>
  PROVE  SwarmInv'
<1>1. HeldOK(held)'
  BY DEF HeldOK, SingleOK
<1>2. held' \in Held
  BY DEF HeldOK
<1>3. SwarmTypeOK'
  BY <1>2 DEF SwarmInv, SwarmTypeOK
<1>4. QED
  BY <1>1, <1>3 DEF SwarmInv

LEMMA RootTypes ==
  ASSUME NEW root, RootOK(root)
  PROVE  /\ root.capabilities \in Scope /\ root.cert.delegator \in Key
         /\ root.cert.scope = root.capabilities /\ root \in DyoloPassport
<1>1. root \in DyoloPassport
  BY DEF RootOK
<1>2. root.capabilities \in Scope /\ root.cert \in DelegationCert
  BY <1>1 DEF DyoloPassport
<1>3. root.cert.delegator \in Key
  BY <1>2 DEF DelegationCert
<1>4. QED
  BY <1>1, <1>2, <1>3 DEF RootOK

LEMMA ChainForMemberKeeps ==
  ASSUME SwarmInv, NEW id \in SwarmId, NEW agent \in Key, NEW ttl \in Ttl, NEW signer \in Key,
         ChainForMember(id, agent, ttl, signer)
  PROVE  SwarmInv'
<1> DEFINE root == swarms[id].root
           member == swarms[id].members[agent]
           depth == MaxDepth(member.role)
           scope == root.capabilities
           cert == Built(signer, agent, scope, Passthrough, 1, now, ttl, depth)
           certs == <<cert>>
           chain == [principal |-> signer, scope |-> scope, certs |-> certs, drift |-> DefaultDrift]
           h == [chain |-> chain, agent |-> agent, root |-> root, caps |-> member.caps, by |-> "swarm"]
<1>1. id \in DOMAIN swarms /\ agent \in DOMAIN swarms[id].members /\ held' = h
  BY DEF ChainForMember, Hand
<1>2. UNCHANGED <<now, swarms, poisoned>>
  BY DEF ChainForMember
<1>3. RootOK(root) /\ member \in Member /\ now \in Nat /\ ttl \in Nat
  BY <1>1, SwarmAssumption DEF SwarmInv, SwarmTypeOK
<1>4. member.role \in Role /\ member.caps \in Scope
  BY <1>3 DEF Member
<1>5. depth \in Nat
  BY <1>4 DEF MaxDepth, Role
<1>6. scope \in Scope /\ root \in DyoloPassport /\ IsFiniteSet(scope)
  BY <1>3, RootTypes DEF RootOK
<1>7. DefaultDrift \in Nat /\ CertVersion \in Nat
  BY PassportAssumption
<1>8. scope = root.capabilities
  OBVIOUS
<1> HIDE DEF root, member, depth, scope
<1>9. /\ cert \in DelegationCert /\ cert.delegate = agent /\ cert.version = CertVersion
      /\ cert.signed /\ cert.issued_at = now /\ cert.scope = scope /\ cert.proof = Passthrough
  BY <1>3, <1>5, <1>6, <1>7, PassthroughType DEF Built, DelegationCert
<1> HIDE DEF cert
<1>10. certs \in Seq(DelegationCert) /\ Len(certs) = 1 /\ certs[1] = cert
  BY <1>9
<1> HIDE DEF certs
<1>11. chain \in DyoloChain /\ chain.certs = certs /\ chain.scope = scope
  BY <1>6, <1>7, <1>10 DEF DyoloChain
<1> HIDE DEF chain
<1>12. h \in Held /\ h.chain = chain /\ h.agent = agent /\ h.root = root
  BY <1>4, <1>6, <1>11 DEF Held
<1> HIDE DEF h
<1>13. ScopeDerives(cert, scope)
  BY <1>9, PassthroughType DEF ScopeDerives
<1>14. SingleOK(h)
  BY <1>3, <1>6, <1>9, <1>10, <1>11, <1>12, <1>13 DEF SingleOK
<1>15. LeafScope(h.chain) = scope /\ Len(h.chain.certs) = 1
  BY <1>9, <1>10, <1>11, <1>12 DEF LeafScope
<1>16. HeldOK(h)
  BY <1>3, <1>8, <1>12, <1>14, <1>15 DEF HeldOK
<1>17. QED
  BY <1>1, <1>2, <1>16, HandKeeps

(* issue_sub extends a chain by a certificate for part of the passport's     *)
(* capabilities; a chain of one certificate is one that began empty, with    *)
(* the passport's own scope.                                                 *)
LEMMA IssueSubKeeps ==
  ASSUME SwarmInv, NEW id \in SwarmId, NEW chain \in DyoloChain, NEW signer \in Key, NEW agent \in Key,
         NEW caps \in MemberCaps, NEW ttl \in Ttl, IssueSub(id, chain, signer, agent, caps, ttl),
         Len(chain.certs) = 0 => chain.scope = swarms[id].root.capabilities
  PROVE  SwarmInv'
<1> DEFINE root == swarms[id].root
           scope == root.capabilities
           proof == [intents |-> caps, from |-> scope, ragged |-> FALSE]
           nonce == Len(chain.certs) + 1
           cert == Built(signer, agent, caps, proof, nonce, now, ttl, DefaultDepth)
           longer == [chain EXCEPT !.certs = Append(chain.certs, cert)]
           h == [chain |-> longer, agent |-> agent, root |-> root, caps |-> caps, by |-> "issue_sub"]
<1>1. id \in DOMAIN swarms /\ SubGranted(root, caps, ttl) /\ held' = h
  BY DEF IssueSub, Hand, push, issue_sub, Fresh
<1>2. UNCHANGED <<now, swarms, poisoned>>
  BY DEF IssueSub
<1>3. RootOK(root) /\ now \in Nat /\ ttl \in Nat /\ caps \in Scope /\ IsFiniteSet(caps)
  BY <1>1, SwarmAssumption DEF SwarmInv, SwarmTypeOK
<1>4. caps # {} /\ caps \subseteq scope
  BY <1>1 DEF SubGranted
<1>5. scope \in Scope /\ root \in DyoloPassport
  BY <1>3, RootTypes
<1>6. chain.certs \in Seq(DelegationCert) /\ Len(chain.certs) \in Nat /\ nonce \in Nat
  <2>1. chain.certs \in Seq(DelegationCert)
    BY DEF DyoloChain
  <2>2. QED
    BY <2>1
<1>7. DefaultDepth \in Nat /\ CertVersion \in Nat
  BY PassportAssumption
<1>8. Len(chain.certs) = 0 => chain.scope = scope
  OBVIOUS
<1>9. scope = root.capabilities
  OBVIOUS
<1> HIDE DEF root, scope
<1>10. proof \in SubScopeProof /\ proof.intents = caps /\ proof.from = scope /\ ~ proof.ragged
  BY <1>3, <1>5 DEF SubScopeProof
<1> HIDE DEF proof, nonce
<1>11. /\ cert \in DelegationCert /\ cert.delegate = agent /\ cert.version = CertVersion
       /\ cert.signed /\ cert.issued_at = now /\ cert.scope = caps /\ cert.proof = proof
  BY <1>3, <1>6, <1>7, <1>10 DEF Built, DelegationCert
<1> HIDE DEF cert
<1>12. /\ longer \in DyoloChain /\ longer.scope = chain.scope
       /\ Len(longer.certs) = Len(chain.certs) + 1
       /\ longer.certs[Len(chain.certs) + 1] = cert
  <2>1. longer = [chain EXCEPT !.certs = Append(@, cert)]
    OBVIOUS
  <2> HIDE DEF longer
  <2>2. QED
    BY <1>11, <2>1, Appended
<1> HIDE DEF longer
<1>13. h \in Held /\ h.chain = longer /\ h.agent = agent /\ h.root = root
  BY <1>3, <1>5, <1>12 DEF Held
<1> HIDE DEF h
<1>14. ScopeDerives(cert, scope)
  BY <1>4, <1>10, <1>11 DEF ScopeDerives
<1>15. ASSUME Len(h.chain.certs) = 1 PROVE SingleOK(h)
  <2>1. Len(chain.certs) = 0 /\ h.chain.certs[1] = cert /\ h.chain.scope = scope
    BY <1>6, <1>8, <1>12, <1>13, <1>15
  <2>2. QED
    BY <1>3, <1>11, <1>13, <1>14, <2>1 DEF SingleOK
<1>16. LeafScope(h.chain) = caps /\ Len(h.chain.certs) # 0
  BY <1>6, <1>11, <1>12, <1>13 DEF LeafScope
<1>17. HeldOK(h)
  BY <1>3, <1>4, <1>9, <1>13, <1>15, <1>16 DEF HeldOK
<1>18. QED
  BY <1>1, <1>2, <1>17, HandKeeps

LEMMA NewChain ==
  ASSUME NEW root, RootOK(root)
  PROVE  /\ new_chain(root) \in DyoloChain /\ new_chain(root).scope = root.capabilities
         /\ Len(new_chain(root).certs) = 0
<1> DEFINE pk == root.cert.delegator
           scope == root.cert.scope
<1>1. pk \in Key /\ scope \in Scope /\ scope = root.capabilities /\ DefaultDrift \in Nat
  BY RootTypes, PassportAssumption
<1>2. new_chain(root) = [principal |-> pk, scope |-> scope, certs |-> <<>>, drift |-> DefaultDrift]
  BY DEF new_chain
<1> HIDE DEF pk, scope
<1>3. <<>> \in Seq(DelegationCert) /\ Len(<<>>) = 0
  OBVIOUS
<1>4. QED
  BY <1>1, <1>2, <1>3 DEF DyoloChain

LEMMA TickKeeps ==
  ASSUME SwarmInv, Tick
  PROVE  SwarmInv'
<1>1. UNCHANGED <<swarms, poisoned, held>> /\ now < MaxTime /\ now' = now + 1
  BY DEF Tick
<1>2. now \in 0 .. MaxTime /\ MaxTime \in Nat
  BY SwarmAssumption DEF SwarmInv, SwarmTypeOK
<1>3. now' \in 0 .. MaxTime
  BY <1>1, <1>2
<1>4. SwarmTypeOK'
  BY <1>1, <1>3 DEF SwarmInv, SwarmTypeOK
<1>5. ASSUME held # Nothing PROVE HeldOK(held)'
  <2>1. HeldOK(held)
    BY <1>5 DEF SwarmInv
  <2>2. ASSUME Len(held.chain.certs) = 1 PROVE SingleOK(held)'
    <3>1. held.chain \in DyoloChain /\ SingleOK(held)
      BY <2>1, <2>2 DEF HeldOK, Held
    <3>2. held.chain.certs[1].issued_at \in Nat
      BY <2>2, <3>1, CertTypes
    <3>3. held.chain.certs[1].issued_at <= now'
      BY <1>1, <1>2, <3>1, <3>2 DEF SingleOK
    <3>4. QED
      BY <1>1, <3>1, <3>3 DEF SingleOK
  <2>3. QED
    BY <1>1, <2>1, <2>2 DEF HeldOK
<1>6. QED
  BY <1>1, <1>4, <1>5 DEF SwarmInv

-----------------------------------------------------------------------------

LEMMA SwarmInvInit == SwarmInit => SwarmInv
<1> SUFFICES ASSUME SwarmInit PROVE SwarmInv
  OBVIOUS
<1>1. DOMAIN swarms = {} /\ now \in 0 .. MaxTime
  BY SwarmAssumption DEF SwarmInit
<1>2. QED
  BY <1>1 DEF SwarmInit, SwarmInv, SwarmTypeOK

LEMMA SwarmInvNext == SwarmInv /\ [SwarmNext]_swarmVars => SwarmInv'
<1> SUFFICES ASSUME SwarmInv, [SwarmNext]_swarmVars PROVE SwarmInv'
  OBVIOUS
<1>1. CASE UNCHANGED swarmVars
  BY <1>1 DEF swarmVars, SwarmInv, SwarmTypeOK, HeldOK, SingleOK
<1>2. CASE Tick
  BY <1>2, TickKeeps
<1>3. ASSUME NEW name \in Name, NEW owner \in Key, NEW caps \in RootCaps, Create(name, owner, caps)
      PROVE  SwarmInv'
  BY <1>3, CreateKeeps
<1>4. ASSUME NEW id \in SwarmId, NEW agent \in Key, RemoveMember(id, agent) PROVE SwarmInv'
  BY <1>4, LeaveKeeps DEF RemoveMember
<1>5. ASSUME NEW id \in SwarmId, EvictExpired(id) PROVE SwarmInv'
  BY <1>5, LeaveKeeps DEF EvictExpired
<1>6. ASSUME NEW id \in SwarmId, NEW agent \in Key, NEW ttl \in Ttl, NEW caps \in MemberCaps,
             NEW role \in Role, AddMember(id, agent, role, caps, ttl)
      PROVE  SwarmInv'
  BY <1>6, AddMemberKeeps
<1>7. ASSUME NEW id \in SwarmId, NEW agent \in Key, NEW signer \in Key, NEW ttl \in Ttl,
             ChainForMember(id, agent, ttl, signer)
      PROVE  SwarmInv'
  BY <1>7, ChainForMemberKeeps
<1>8. ASSUME NEW id \in SwarmId, NEW agent \in Key, NEW signer \in Key, NEW ttl \in Ttl,
             NEW caps \in MemberCaps, id \in DOMAIN swarms,
             IssueSub(id, new_chain(swarms[id].root), signer, agent, caps, ttl)
      PROVE  SwarmInv'
  <2> DEFINE chain == new_chain(swarms[id].root)
  <2>1. RootOK(swarms[id].root)
    BY <1>8 DEF SwarmInv
  <2>2. chain \in DyoloChain /\ chain.scope = swarms[id].root.capabilities
    BY <2>1, NewChain
  <2>3. IssueSub(id, chain, signer, agent, caps, ttl)
    BY <1>8
  <2> HIDE DEF chain
  <2>4. QED
    BY <2>2, <2>3, IssueSubKeeps
<1>9. ASSUME NEW id \in SwarmId, NEW agent \in Key, NEW signer \in Key, NEW ttl \in Ttl,
             NEW caps \in MemberCaps, held # Nothing,
             IssueSub(id, held.chain, signer, agent, caps, ttl)
      PROVE  SwarmInv'
  <2>1. held.chain \in DyoloChain /\ Len(held.chain.certs) # 0
    BY <1>9 DEF SwarmInv, HeldOK, Held
  <2>2. QED
    BY <1>9, <2>1, IssueSubKeeps
<1>10. QED
  BY <1>1, <1>2, <1>3, <1>4, <1>5, <1>6, <1>7, <1>8, <1>9 DEF SwarmNext

LEMMA SwarmInvAlways == SwarmSpec => []SwarmInv
BY SwarmInvInit, SwarmInvNext, PTL DEF SwarmSpec

(* What guard says of the chain.                                             *)
LEMMA GuardMeans ==
  ASSUME NEW p, NEW chain, NEW agent, NEW intent, NEW path, NEW t,
         guard(p, chain, agent, intent, path, t), Len(chain.certs) \in Nat
  PROVE  \A i \in 1 .. Len(chain.certs) : intent \in chain.certs[i].scope
<1>1. validate_structure(chain, agent, intent, path, t).ok
  BY DEF guard
<1>2. /\ Len(chain.certs) # 0
      /\ \A i \in 1 .. Len(chain.certs) : Sound(chain, i, t)
      /\ IntentAuthorized(intent, path, LeafScope(chain))
  BY <1>1, OkSound
<1>3. intent \in chain.certs[Len(chain.certs)].scope
  BY <1>2, AuthorizedInScope DEF LeafScope
<1>4. \A i \in 1 .. Len(chain.certs) : ScopeDerives(chain.certs[i], ParentScope(chain, i))
  BY <1>2 DEF Sound
<1>5. Len(chain.certs) \in 1 .. Len(chain.certs)
  BY <1>2
<1>6. \A i \in 1 .. Len(chain.certs) : chain.certs[Len(chain.certs)].scope \subseteq chain.certs[i].scope
  BY <1>4, <1>5, ScopesNest
<1>7. QED
  BY <1>3, <1>6

LEMMA HeldSound ==
  ASSUME HeldOK(held), NEW intent, Authorises(intent)
  PROVE  /\ intent \in held.root.capabilities
         /\ \A i \in DOMAIN held.chain.certs : intent \in held.chain.certs[i].scope
<1> DEFINE chain == held.chain
           n == Len(chain.certs)
<1>1. chain \in DyoloChain
  BY DEF HeldOK, Held
<1>2. chain.certs \in Seq(DelegationCert)
  BY <1>1 DEF DyoloChain
<1>3. n \in Nat /\ DOMAIN chain.certs = 1 .. n
  BY <1>2
<1>4. PICK agent, path : guard(held.root, chain, agent, intent, path, now)
  BY DEF Authorises
<1>5. \A i \in 1 .. n : intent \in chain.certs[i].scope
  BY <1>3, <1>4, GuardMeans
<1>6. n # 0 /\ LeafScope(chain) \subseteq held.root.capabilities
  BY DEF HeldOK
<1>7. n \in 1 .. n
  BY <1>3, <1>6
<1>8. intent \in LeafScope(chain)
  BY <1>5, <1>7 DEF LeafScope
<1>9. QED
  BY <1>3, <1>5, <1>6, <1>8

(* The only certificate of a chain, signed by the chain's principal, passes  *)
(* every check until it expires.                                             *)
LEMMA SinglePasses ==
  ASSUME HeldOK(held), now \in Nat, Len(held.chain.certs) = 1,
         held.chain.certs[1].delegator = held.chain.principal,
         now <= held.chain.certs[1].expiration
  PROVE  Sound(held.chain, 1, now)
<1> DEFINE chain == held.chain
           cert == chain.certs[1]
<1>1. chain \in DyoloChain /\ SingleOK(held)
  BY DEF HeldOK, Held
<1>2. cert.issued_at \in Nat /\ cert.expiration \in Nat /\ chain.drift \in Nat
  BY <1>1, CertTypes
<1>3. cert.version = CertVersion /\ cert.issued_at <= now /\ ScopeDerives(cert, chain.scope)
  BY <1>1 DEF SingleOK
<1>4. ~ NotYetValid(cert, now, chain.drift) /\ ~ Expired(cert, now, chain.drift)
  BY <1>2, <1>3 DEF NotYetValid, Expired
<1>5. ~ OutlivesParent(chain, 1) /\ ~ DepthExceeded(chain, 1) /\ ~ NonceRepeated(chain, 1)
  BY DEF OutlivesParent, DepthExceeded, NonceRepeated
<1>6. ExpectedDelegator(chain, 1) = chain.principal /\ ParentScope(chain, 1) = chain.scope
  BY DEF ExpectedDelegator, ParentScope
<1>7. QED
  BY <1>3, <1>4, <1>5, <1>6 DEF Sound

LEMMA HeldCanAct ==
  ASSUME HeldOK(held), now \in Nat, Len(held.chain.certs) = 1,
         held.chain.certs[1].delegator = held.chain.principal,
         now <= held.chain.certs[1].expiration,
         NEW intent \in held.chain.certs[1].scope, NEW path,
         IntentAuthorized(intent, path, held.chain.certs[1].scope)
  PROVE  guard(held.root, held.chain, held.agent, intent, path, now)
<1> DEFINE chain == held.chain
           cert == chain.certs[1]
<1>1. Sound(chain, 1, now)
  BY SinglePasses
<1>2. \A i \in 1 .. Len(chain.certs) : i = 1
  OBVIOUS
<1>3. SingleOK(held) /\ RootOK(held.root) /\ LeafScope(chain) \subseteq held.root.capabilities
  BY DEF HeldOK
<1>4. cert.delegate = held.agent /\ cert.signed
  BY <1>3 DEF SingleOK
<1>5. LeafScope(chain) = cert.scope
  BY DEF LeafScope
<1>6. Len(chain.certs) # 0 /\ ~ (Len(chain.certs) > U8Max)
  BY PassportAssumption, U8MaxAssumption
<1>7. \A i \in 1 .. Len(chain.certs) : Sound(chain, i, now)
  BY <1>1, <1>2
<1>8. ~ \E i \in 1 .. Len(chain.certs) : ~ chain.certs[i].signed
  BY <1>2, <1>4
<1>9. chain.certs[Len(chain.certs)].delegate = held.agent
  BY <1>4
<1>10. validate_structure(chain, held.agent, intent, path, now).ok
  <2>1. IntentAuthorized(intent, path, LeafScope(chain)) /\ chain.certs[1].delegator = chain.principal
    BY <1>5
  <2>2. QED
    BY <1>6, <1>7, <1>8, <1>9, <2>1, OkSound, Zenon
<1>11. intent \in held.root.capabilities
  BY <1>3, <1>5
<1>12. enforce_narrowing(from_capabilities({intent}), held.root.capability_mask)
  BY <1>3, <1>11 DEF RootOK, enforce_narrowing, from_capabilities
<1>13. QED
  BY <1>10, <1>12 DEF guard

(* Whatever chains are put together, with members' certificates, by whoever  *)
(* signs, on whatever swarm's passport, and although capabilities share bits *)
(* of the mask: guard authorises a capability only when the passport and     *)
(* every certificate grant it, and what the owner or the orchestrator        *)
(* granted can be used until it expires (passport/mod.rs guard, guard_local, *)
(* issue_sub; swarm.rs chain_for_member).                                    *)
THEOREM GuardExactAlways == SwarmSpec => []GuardExact
<1>1. SwarmInv => GuardExact
  <2> SUFFICES ASSUME SwarmInv, held # Nothing PROVE GuardExact
    BY DEF GuardExact, GuardSound, HolderCanAct
  <2>1. HeldOK(held) /\ now \in Nat
    BY SwarmAssumption DEF SwarmInv, SwarmTypeOK
  <2>2. GuardSound
    BY <2>1, HeldSound DEF GuardSound
  <2>3. HolderCanAct
    <3> DEFINE cert == held.chain.certs[1]
    <3> SUFFICES ASSUME Len(held.chain.certs) = 1, cert.delegator = held.chain.principal,
                        NEW intent \in held.caps \cap cert.scope, now <= cert.expiration
                 PROVE  IF Cardinality(cert.scope) = 1
                        THEN guard_local(held.root, held.chain, held.agent, intent, now)
                        ELSE guard(held.root, held.chain, held.agent, intent, cert.scope, now)
      BY DEF HolderCanAct
    <3>1. CASE Cardinality(cert.scope) = 1
      <4>1. IsFiniteSet(cert.scope)
        BY <2>1 DEF HeldOK, SingleOK
      <4>2. cert.scope = {intent}
        <5>1. PICK y : cert.scope = {y}
          BY <3>1, <4>1, FS_Singleton
        <5>2. QED
          BY <5>1
      <4>3. IntentAuthorized(intent, {}, cert.scope)
        BY <4>2 DEF IntentAuthorized
      <4>4. QED
        BY <2>1, <3>1, <4>3, HeldCanAct DEF guard_local
    <3>2. CASE Cardinality(cert.scope) # 1
      <4>1. IntentAuthorized(intent, cert.scope, cert.scope)
        BY DEF IntentAuthorized
      <4>2. QED
        BY <2>1, <3>2, <4>1, HeldCanAct
    <3>3. QED
      BY <3>1, <3>2
  <2>4. QED
    BY <2>2, <2>3 DEF GuardExact
<1>2. QED
  BY <1>1, SwarmInvAlways, PTL

(* Every variable of the two parts has its type, in the behaviours that the  *)
(* passports run explores.                                                   *)
THEOREM PassportTypesAlways == Spec => []TypeOK
<1>1. Init => VaultInit /\ SwarmInit
  BY DEF Init
<1>2. [Next]_vars => [VaultNext]_vaultVars /\ [SwarmNext]_swarmVars
  BY DEF Next, vars
<1>3. VaultInv /\ SwarmInv => TypeOK
  BY DEF VaultInv, SwarmInv, TypeOK
<1>4. QED
  BY <1>1, <1>2, <1>3, VaultInvInit, VaultInvNext, SwarmInvInit, SwarmInvNext, PTL DEF Spec
=============================================================================
