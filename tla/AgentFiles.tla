----------------------------- MODULE AgentFiles ------------------------------
(* routes/agent_patch.rs: an assistant reads an agent's source file, edits   *)
(* it and writes it back; a copy is made first. Also the gateway's edit of a *)
(* .gitignore (routes/passports.rs). Files are rewritten in place, without a *)
(* lock or a rename: std::fs::write and std::fs::copy empty their target and *)
(* fill it afterwards, and the gateway may stop in between. Reading and      *)
(* listing files change nothing.                                             *)
EXTENDS Naturals, FiniteSets

CONSTANTS
  Writer,          \* concurrent requests
  Name,            \* paths a request may name
  Target,          \* files
  Resolves(_),     \* the file a name resolves to, links and .. followed
  Missing,         \* what a name of nothing resolves to
  BelowRoot,       \* files below the home, temporary or working directory
  System,          \* files in the system's directories
  Original, Empty, \* contents: before any write; in the middle of one
  FileText,        \* contents a request may carry
  Pattern,         \* lines of a .gitignore
  MaxWrites        \* bound on accepted writes

ASSUME FilesAssumption == Original # Empty /\ MaxWrites \in Nat

VARIABLES
  disk,      \* target -> content
  bak,       \* target -> content of its .bak
  job,       \* request -> what it is doing
  writes,    \* accepted writes
  exposed,   \* targets where the copy cannot be relied on
  ignore,    \* lines of the .gitignore
  adding,    \* request -> the .gitignore it has read, and its pattern
  reported   \* patterns reported as present, that no named cause has lost

gitVars == <<ignore, adding, reported>>
filesVars == <<disk, bak, job, writes, exposed, gitVars>>

(* validate_path: the path must resolve to something that exists; what it    *)
(* resolves to must lie below the home, a temporary or the working           *)
(* directory, and outside the system's directories.                          *)
ValidatePath(n) == Resolves(n) # Missing /\ Resolves(n) \in BelowRoot \ System

Busy(t) == \E w \in Writer : job[w].at # "idle" /\ job[w].target = t

FileIdle == [at |-> "idle"]

FilesInit ==
  /\ disk = [t \in Target |-> Original]
  /\ bak = [t \in Target |-> Empty]
  /\ job = [w \in Writer |-> FileIdle]
  /\ writes = 0 /\ exposed = {}
  /\ ignore = {} /\ reported = {}
  /\ adding = [w \in Writer |-> FileIdle]

(* write_file_handler: a path that does not validate is refused. Without a   *)
(* backup the write comes next. The copy cannot be relied on when the        *)
(* request asks for none, when another one is at the same file, and when an  *)
(* earlier write was cut short and left the file empty.                      *)
StartWrite(w, n, c, backup) ==
  /\ job[w].at = "idle"
  /\ writes < MaxWrites
  /\ ValidatePath(n)
  /\ LET t == Resolves(n)
     IN  /\ job' = [job EXCEPT ![w] = [at |-> IF backup THEN "copy" ELSE "write",
                                       target |-> t, content |-> c]]
         /\ exposed' = IF backup /\ ~Busy(t) /\ disk[t] # Empty THEN exposed
                       ELSE exposed \cup {t}
  /\ writes' = writes + 1
  /\ UNCHANGED <<disk, bak, gitVars>>

Advance(w, to) == job' = [job EXCEPT ![w] = IF to = "idle" THEN FileIdle ELSE [@ EXCEPT !.at = to]]

(* Plausible mistake: the copy is made from the emptied file: write first,   *)
(* back up afterwards.                                                       *)
WriteThenCopy(w) ==
  /\ job[w].at = "copy"
  /\ disk' = [disk EXCEPT ![job[w].target] = Empty]
  /\ Advance(w, "copying")
  /\ UNCHANGED <<bak, writes, exposed, gitVars>>

(* std::fs::copy to the .bak opens and empties it, then copies what the file *)
(* holds at that time. A copy that fails ends the request before the write.  *)
CopyOpen(w) ==
  /\ job[w].at = "copy"
  /\ \/ /\ bak' = [bak EXCEPT ![job[w].target] = Empty]
        /\ Advance(w, "copying")
     \/ Advance(w, "idle") /\ UNCHANGED bak
  /\ UNCHANGED <<disk, writes, exposed, gitVars>>

CopyFill(w) ==
  /\ job[w].at = "copying"
  /\ \/ /\ bak' = [bak EXCEPT ![job[w].target] = disk[job[w].target]]
        /\ Advance(w, "write")
     \/ Advance(w, "idle") /\ UNCHANGED bak
  /\ UNCHANGED <<disk, writes, exposed, gitVars>>

(* std::fs::write; it may fail at once, or after the file was emptied.       *)
WriteOpen(w) ==
  /\ job[w].at = "write"
  /\ \/ /\ disk' = [disk EXCEPT ![job[w].target] = Empty]
        /\ Advance(w, "writing")
     \/ Advance(w, "idle") /\ UNCHANGED disk
  /\ UNCHANGED <<bak, writes, exposed, gitVars>>

WriteFill(w) ==
  /\ job[w].at = "writing"
  /\ disk' \in {[disk EXCEPT ![job[w].target] = job[w].content], disk}
  /\ Advance(w, "idle")
  /\ UNCHANGED <<bak, writes, exposed, gitVars>>

fileOnly == <<disk, bak, job, writes, exposed>>

(* gitignore_add_handler reads the whole file; one that is not there, that   *)
(* may not be read or is not UTF-8 counts as empty. A pattern that is there  *)
(* is answered with success at once.                                         *)
GitignoreRead(w, p) ==
  /\ adding[w].at = "idle"
  /\ \E seen \in {ignore, {}} :
       \/ /\ p \in seen
          /\ reported' = reported \cup {p}
          /\ UNCHANGED adding
       \/ /\ p \notin seen
          /\ adding' = [adding EXCEPT ![w] = [at |-> "write", seen |-> seen, pattern |-> p]]
          /\ UNCHANGED reported
  /\ UNCHANGED <<fileOnly, ignore>>

(* Plausible mistake: the pattern is written without what was there.         *)
AppendedAlone(seen, p) == {p}

(* The text it writes: the pattern after what was read.                      *)
Appended(seen, p) == seen \cup {p}

AddingText(w) == Appended(adding[w].seen, adding[w].pattern)

(* std::fs::write opens the file and empties it. What was written since the  *)
(* request read it is lost here, and all of it when another request is       *)
(* filling the file.                                                         *)
GitignoreOpen(w) ==
  /\ adding[w].at = "write"
  /\ adding' = [adding EXCEPT ![w].at = "writing"]
  /\ ignore' = {}
  /\ reported' = IF \E v \in Writer : adding[v].at = "writing" THEN {}
                 ELSE reported \cap adding[w].seen
  /\ UNCHANGED fileOnly

(* It fills the file. Of what another request has filled in meanwhile, an    *)
(* end that is longer stays; the patterns it reported may be lost.           *)
GitignoreFill(w) ==
  /\ adding[w].at = "writing"
  /\ adding' = [adding EXCEPT ![w] = FileIdle]
  /\ \E rest \in SUBSET ignore : ignore' = AddingText(w) \cup rest
  /\ reported' = {adding[w].pattern} \cup
       (IF ignore = {} THEN reported ELSE reported \cap adding[w].seen)
  /\ UNCHANGED fileOnly

(* It cannot open the file; or the disk is full while it fills it, and some  *)
(* of the lines are gone. The answer is an error.                            *)
GitignoreFails(w) ==
  /\ \/ /\ adding[w].at = "write"
        /\ UNCHANGED <<ignore, reported>>
     \/ /\ adding[w].at = "writing"
        /\ ignore' \in SUBSET (AddingText(w) \cup ignore)
        /\ reported' = {}
  /\ adding' = [adding EXCEPT ![w] = FileIdle]
  /\ UNCHANGED fileOnly

(* The gateway stops; the requests are gone and the files stay as they are:  *)
(* a .gitignore that was to be filled stays empty.                           *)
Crash ==
  /\ \E w \in Writer : job[w].at # "idle" \/ adding[w].at # "idle"
  /\ job' = [w \in Writer |-> FileIdle]
  /\ adding' = [w \in Writer |-> FileIdle]
  /\ reported' = IF \E w \in Writer : adding[w].at = "writing" THEN {} ELSE reported
  /\ UNCHANGED <<disk, bak, writes, exposed, ignore>>

FilesNext ==
  \/ \E w \in Writer, n \in Name, c \in FileText, b \in BOOLEAN : StartWrite(w, n, c, b)
  \/ \E w \in Writer : CopyOpen(w) \/ CopyFill(w) \/ WriteOpen(w) \/ WriteFill(w)
  \/ Crash

GitNext ==
  \/ \E w \in Writer, p \in Pattern : GitignoreRead(w, p)
  \/ \E w \in Writer : GitignoreOpen(w) \/ GitignoreFill(w) \/ GitignoreFails(w)
  \/ Crash

FilesSpec == FilesInit /\ [][FilesNext \/ GitNext]_filesVars

(* Contents are contents, and no request works on a file it may not write.   *)
FilesTypeOK ==
  /\ \A t \in Target : {disk[t], bak[t]} \subseteq FileText \cup {Original, Empty}
  /\ \A w \in Writer : job[w].at # "idle" => job[w].target \in BelowRoot \ System
  /\ ignore \subseteq Pattern /\ reported \subseteq Pattern
  /\ writes <= MaxWrites

(* write_file_handler makes the copy before it empties the file: one request *)
(* at a time, each with a backup, never leaves a file that is lost in both   *)
(* places, even when the gateway stops or the disk fails between two of its  *)
(* steps.                                                                    *)
BackupSurvives ==
  \A t \in Target \ exposed : disk[t] # Empty \/ bak[t] # Empty

(* A pattern that gitignore_add_handler reported as present is lost only by  *)
(* one of these: a request that had read the file before the pattern was     *)
(* written, or could not read it, writes; filling the file breaks off, or    *)
(* the gateway stops meanwhile; two requests fill it at a time. Otherwise it *)
(* is there whenever no request is filling the file.                         *)
PatternsKept ==
  \/ \E w \in Writer : adding[w].at = "writing"
  \/ reported \subseteq ignore

(* What the routes that rewrite files in place keep: write_file_handler a    *)
(* whole copy, gitignore_add_handler the patterns it reported, but for the   *)
(* causes that are named.                                                    *)
TextsKept == BackupSurvives /\ PatternsKept
=============================================================================
