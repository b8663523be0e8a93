----------------------------- MODULE AgentConfig -----------------------------
(* routes/agent_connect.rs: finding an installed agent, writing A1 into the  *)
(* agent's configuration file and taking it out again. Nothing locks a file: *)
(* a handler reads it, computes a new text, empties the file and fills it    *)
(* again, while another request, the agent or its user may write it too, the *)
(* disk may be full, or the gateway may stop.                                *)
(*                                                                           *)
(* A text is what the handlers tell apart: does it parse as JSON, does it    *)
(* have an "mcpServers" object, which servers are in it; and the user's      *)
(* other settings, which they should not touch.                              *)
EXTENDS Naturals, FiniteSets, Sequences

CONSTANTS
  Call,      \* concurrent requests
  Server,    \* servers the user configures; A1's own entry is "a1"
  Setting,   \* what else the user configures
  Groups,    \* sets of agents that may share files
  Places,    \* bound: the directories that may exist
  Absent     \* no file

VARIABLES
  group,     \* the agents this behaviour is about
  dirs,      \* directories that exist
  inPath,    \* agents whose program runs
  file,      \* path -> text or Absent
  call,      \* call -> what it is about to write
  owed,      \* path -> what the user put there and no named cause has lost
  spoiled,   \* paths where a write broke off or met another
  removed    \* path -> is A1's entry reported as removed, and from what text

cfgVars == <<group, dirs, inPath, file, call, owed, spoiled, removed>>

Text == [json : BOOLEAN, section : BOOLEAN, servers : SUBSET (Server \cup {"a1"}),
         settings : SUBSET Setting]

Entries(text) == (text.servers \ {"a1"}) \cup text.settings

(* The directories find_* try, in their order. The Python agents use the     *)
(* working directory.                                                        *)
Candidates(a) ==
  CASE a = "openclaw" ->
         <<"~/.openclaw", "~/openclaw", "~/.config/openclaw", "~/AppData/Roaming/openclaw">>
    [] a = "ironclaw" -> <<"~/.ironclaw", "~/ironclaw", "~/.config/ironclaw">>
    [] a = "claude_code" -> <<"~/.claude", "~/.config/claude", "~/AppData/Roaming/claude">>
    [] a = "claude_desktop" ->
         <<"~/Library/Application Support/Claude", "~/.config/Claude", "~/AppData/Roaming/Claude">>
    [] a = "ollama" -> <<"~/.ollama", "~/Library/Application Support/Ollama">>
    [] OTHER -> <<"cwd">>

(* Where connect_handler puts a configuration when it finds no directory;    *)
(* for Claude Desktop, on anything but macOS.                                *)
Fallback(a) == IF a = "claude_desktop" THEN "~/.config/Claude" ELSE Candidates(a)[1]

ASSUME ConfigAssumption ==
  /\ "a1" \notin Server
  /\ Absent \notin Text
  /\ \A g \in Groups : \A a \in g : Fallback(a) \in Places

ConfigName(a) ==
  CASE a = "ironclaw" -> "a1_plugin.toml"
    [] a = "claude_desktop" -> "claude_desktop_config.json"
    [] OTHER -> ".mcp.json"

CandidateDirs(a) == {Candidates(a)[i] : i \in 1..Len(Candidates(a))} \cap Places

Paths(a) == {<<d, n>> : d \in CandidateDirs(a), n \in {ConfigName(a), ".mcp.json"}}

Path == UNION {Paths(a) : a \in group}

(* find_*: the first candidate that is a directory; failing that, a program  *)
(* in PATH makes the first candidate the answer (and creates it). Claude     *)
(* Desktop is not looked for in PATH, a Python package only there.           *)
Find(a, existing) ==
  LET here == {i \in 1..Len(Candidates(a)) : Candidates(a)[i] \in existing}
  IN  IF Fallback(a) = "cwd" THEN (IF a \in inPath THEN {"cwd"} ELSE {})
      ELSE IF here # {} THEN {Candidates(a)[CHOOSE i \in here : \A j \in here : i <= j]}
      ELSE IF a \in inPath /\ a # "claude_desktop" THEN {Fallback(a)} ELSE {}

(* mcp_json_content, ironclaw_toml_content *)
ContentFor == [json |-> TRUE, section |-> TRUE, servers |-> {"a1"}, settings |-> {}]

(* A file that std::fs::write has emptied and not filled yet.                *)
Emptied == [json |-> FALSE, section |-> FALSE, servers |-> {}, settings |-> {}]

(* What is left when filling a file breaks off: it does not parse, and all   *)
(* that is ever asked of it is whether the section and A1's name are there.  *)
CutOff(text) ==
  {t \in Text : /\ ~ t.json /\ t.settings = {}
                /\ t.section => text.section
                /\ t.servers \subseteq text.servers \cap {"a1"}
                /\ t.servers # {} => t.section}

(* Plausible mistake: the merge forgets the servers that were there.         *)
MergeReplaces(text) == ContentFor

(* merge_mcp_json: the entry and a comma go in front of the first server; a  *)
(* text without the section has no place for it, and is replaced as a whole, *)
(* with all its settings. After the comma JSON wants another entry.          *)
Merge(text) ==
  IF text.section
    THEN [text EXCEPT !.servers = @ \cup {"a1"}, !.json = @ /\ text.servers # {}]
    ELSE ContentFor

(* Plausible mistake: the removal keeps A1's entry.                          *)
RemoveNothing(text) == text

(* remove_a1_from_mcp_json, or the text as it was when it does not parse     *)
RemoveA1(text) ==
  IF text.json THEN [text EXCEPT !.servers = @ \ {"a1"}] ELSE text

(* What connect_handler writes over what it read.                            *)
Connected(a, text) ==
  IF a # "claude_desktop" /\ "a1" \in text.servers THEN text
  ELSE Merge(text)

CallIdle == [op |-> "idle"]

CfgInit ==
  /\ group \in Groups
  /\ dirs \in SUBSET (UNION {CandidateDirs(a) : a \in group})
  /\ "cwd" \in UNION {CandidateDirs(a) : a \in group} => "cwd" \in dirs
  /\ inPath \in SUBSET group
  /\ file = [p \in Path |-> Absent]
  /\ call = [c \in Call |-> CallIdle]
  /\ owed = [p \in Path |-> {}]
  /\ spoiled = {}
  /\ removed = [p \in Path |-> "no"]

(* scan_handler: detection creates the directory of an agent it finds only   *)
(* in PATH.                                                                  *)
Scan ==
  /\ dirs' = dirs \cup UNION {Find(a, dirs) : a \in group}
  /\ UNCHANGED <<group, inPath, file, call, owed, spoiled, removed>>

(* Plausible mistake: the plugin file of an agent that is only in PATH goes  *)
(* to a directory nobody created.                                            *)
ConnectWithoutDir(c, a) ==
  /\ call[c].op = "idle"
  /\ call' = [call EXCEPT ![c] = [op |-> "connect", path |-> <<"nowhere", ConfigName(a)>>,
                                  base |-> Emptied, text |-> ContentFor]]
  /\ UNCHANGED <<group, dirs, inPath, file, owed, spoiled, removed>>

(* connect_handler up to its write. The caller may name the directory; else  *)
(* it is found, and the fallback is created. A text that cannot be read (no  *)
(* permission, not UTF-8) is treated as missing, and is replaced like it;    *)
(* IronClaw's plugin file is not read.                                       *)
ConnectRead(c, a) ==
  /\ call[c].op = "idle"
  /\ \E given \in BOOLEAN, d \in CandidateDirs(a), readable \in BOOLEAN :
       LET found == IF Fallback(a) = "cwd" THEN {"cwd"} ELSE Find(a, dirs)
           p == <<d, ConfigName(a)>>
           unread == ~ readable \/ file[p] = Absent \/ a = "ironclaw"
       IN  /\ given \/ d \in found \/ (found = {} /\ d = Fallback(a))
           /\ dirs' = IF given THEN dirs ELSE dirs \cup {d}
           /\ readable \/ file[p] # Absent
           /\ call' = [call EXCEPT ![c] =
                [op |-> "connect", path |-> p, base |-> IF unread THEN Emptied ELSE file[p],
                 text |-> IF unread THEN ContentFor ELSE Connected(a, file[p])]]
  /\ UNCHANGED <<group, inPath, file, owed, spoiled, removed>>

(* disconnect_handler. Without a directory from the caller it takes the      *)
(* first candidate, whatever connect found, and gives up on Claude Desktop.  *)
(* It looks for .mcp.json even where connect wrote another file. The early   *)
(* returns change nothing and are left out.                                  *)
DisconnectRead(c, a) ==
  /\ call[c].op = "idle"
  /\ a # "ironclaw"
  /\ \E given \in BOOLEAN, d \in CandidateDirs(a) :
       LET p == <<d, ".mcp.json">>
       IN  /\ given \/ (d = Fallback(a) /\ a # "claude_desktop")
           /\ file[p] # Absent
           /\ "a1" \in file[p].servers
           /\ call' = [call EXCEPT ![c] =
                [op |-> "disconnect", path |-> p, base |-> file[p], text |-> RemoveA1(file[p])]]
  /\ UNCHANGED <<group, dirs, inPath, file, owed, spoiled, removed>>

(* IronClaw's plugin file is removed as a whole, which may fail.             *)
DisconnectUnlink ==
  /\ "ironclaw" \in group
  /\ \E d \in CandidateDirs("ironclaw") :
       LET p == <<d, ConfigName("ironclaw")>>
       IN  /\ file[p] # Absent
           /\ file' = [file EXCEPT ![p] = Absent]
           /\ removed' = [removed EXCEPT ![p] = "parsed"]
  /\ UNCHANGED <<group, dirs, inPath, call, owed, spoiled>>

-----------------------------------------------------------------------------
(* std::fs::write opens the file and empties it, then fills it.              *)

Filling(c, p) == call[c].op \in {"connecting", "disconnecting"} /\ call[c].path = p

(* What a request can be held to keep of the user's: what it has read, and   *)
(* in a text with the section.                                               *)
Promised(base) == IF base.section THEN Entries(base) ELSE {}

(* The file is opened and empty. What the user wrote since the request read  *)
(* it is lost here; so is all of it when two requests write at a time.       *)
OpenFile(c) ==
  /\ call[c].op \in {"connect", "disconnect"}
  /\ LET p == call[c].path
         met == \E e \in Call : Filling(e, p)
     IN  /\ p[1] \in dirs
         /\ file' = [file EXCEPT ![p] = Emptied]
         /\ owed' = [owed EXCEPT ![p] = IF met THEN {} ELSE @ \cap Promised(call[c].base)]
         /\ spoiled' = IF met THEN spoiled \cup {p} ELSE spoiled
  /\ call' = [call EXCEPT ![c].op = IF @ = "connect" THEN "connecting" ELSE "disconnecting"]
  /\ UNCHANGED <<group, dirs, inPath, removed>>

(* It is filled, and the answer reports success. When the file has been      *)
(* filled or edited meanwhile, the two texts may be mixed; one that was      *)
(* removed meanwhile stays removed.                                          *)
FillFile(c) ==
  /\ call[c].op \in {"connecting", "disconnecting"}
  /\ LET p == call[c].path
         met == file[p] # Emptied
     IN  \E text \in IF file[p] = Absent THEN {Absent}
                      ELSE {call[c].text} \cup
                           (IF met THEN CutOff(call[c].text) \cup CutOff(file[p]) ELSE {}) :
           /\ file' = [file EXCEPT ![p] = text]
           /\ owed' = [owed EXCEPT ![p] = IF met THEN {} ELSE @]
           /\ spoiled' = IF met THEN spoiled \cup {p} ELSE spoiled
           /\ removed' = [removed EXCEPT ![p] =
                IF call[c].op = "connecting" \/ text # call[c].text THEN "no"
                ELSE IF call[c].base.json THEN "parsed" ELSE "unparsed"]
  /\ call' = [call EXCEPT ![c] = CallIdle]
  /\ UNCHANGED <<group, dirs, inPath>>

(* The file cannot be opened, and stays as it is; the answer is an error.    *)
OpenFails(c) ==
  /\ call[c].op \in {"connect", "disconnect"}
  /\ call' = [call EXCEPT ![c] = CallIdle]
  /\ UNCHANGED <<group, dirs, inPath, file, owed, spoiled, removed>>

(* The disk is full or the gateway stops while the file is filled.           *)
FillBreaksOff(c) ==
  /\ call[c].op \in {"connecting", "disconnecting"}
  /\ LET p == call[c].path
         left == IF file[p] = Absent THEN {Absent} ELSE CutOff(call[c].text) \cup CutOff(file[p])
     IN  \E text \in left :
           /\ file' = [file EXCEPT ![p] = text]
           /\ owed' = [owed EXCEPT ![p] = {}]
           /\ spoiled' = spoiled \cup {p}
           /\ removed' = [removed EXCEPT ![p] = "no"]
  /\ call' = [call EXCEPT ![c] = CallIdle]
  /\ UNCHANGED <<group, dirs, inPath>>

-----------------------------------------------------------------------------

(* The agent's user starts a configuration, or adds to one that parses.      *)
UserEdit(p) ==
  /\ p[1] \in dirs
  /\ p[2] # "a1_plugin.toml"
  /\ \/ /\ file[p] = Absent
        /\ \E s \in SUBSET Server, o \in SUBSET Setting, sec \in BOOLEAN :
             /\ s # {} => sec
             /\ file' = [file EXCEPT ![p] =
                           [json |-> TRUE, section |-> sec, servers |-> s, settings |-> o]]
             /\ owed' = [owed EXCEPT ![p] = s \cup o]
     \/ /\ file[p] # Absent
        /\ file[p].json
        /\ \/ \E s \in Server \ file[p].servers :
                /\ file' = [file EXCEPT ![p].section = TRUE, ![p].servers = @ \cup {s}]
                /\ owed' = [owed EXCEPT ![p] = @ \cup {s}]
           \/ \E o \in Setting \ file[p].settings :
                /\ file' = [file EXCEPT ![p].settings = @ \cup {o}]
                /\ owed' = [owed EXCEPT ![p] = @ \cup {o}]
  /\ UNCHANGED <<group, dirs, inPath, call, spoiled, removed>>

(* pull_handler's and remove_handler's commands, or the user, install and    *)
(* uninstall the program; its first start creates a directory of its choice. *)
Install(a) ==
  /\ inPath' \in {inPath \cup {a}, inPath \ {a}}
  /\ inPath' # inPath
  /\ \E made \in SUBSET CandidateDirs(a) : dirs' = dirs \cup made
  /\ UNCHANGED <<group, file, call, owed, spoiled, removed>>

CfgNext ==
  \/ Scan
  \/ \E c \in Call, a \in group : ConnectRead(c, a) \/ DisconnectRead(c, a)
  \/ DisconnectUnlink
  \/ \E c \in Call : OpenFile(c) \/ FillFile(c) \/ OpenFails(c) \/ FillBreaksOff(c)
  \/ \E p \in Path : UserEdit(p)
  \/ \E a \in group : Install(a)

CfgSpec == CfgInit /\ [][CfgNext]_cfgVars

(* A file is only where there is a directory, and a call holds a text.       *)
CfgTypeOK ==
  /\ group \in Groups
  /\ dirs \subseteq Places
  /\ inPath \subseteq group
  /\ DOMAIN file = Path
  /\ spoiled \subseteq Path
  /\ \A p \in Path : /\ file[p] \in Text \cup {Absent}
                     /\ file[p] # Absent => p[1] \in dirs
                     /\ owed[p] \subseteq Server \cup Setting
                     /\ removed[p] \in {"no", "parsed", "unparsed"}
  /\ \A c \in Call : call[c].op # "idle" => call[c].path \in Path /\ call[c].text \in Text

(* connect_handler and disconnect_handler lose a server or another setting   *)
(* of the user's only by one of these: the user wrote it after the request   *)
(* had read the file; the text had no "mcpServers" and was replaced as a     *)
(* whole, or could not be read; filling the file broke off; two requests     *)
(* wrote it at a time. All the rest is there whenever no request is filling  *)
(* the file, through any interleaving of connecting, disconnecting and       *)
(* editing, stale writes included.                                           *)
UserEntriesKept ==
  \A p \in Path :
    \/ \E c \in Call : Filling(c, p)
    \/ owed[p] \subseteq IF file[p] = Absent THEN {} ELSE Entries(file[p])

(* After disconnect_handler reports the entry removed from a file it could   *)
(* parse, A1 stays out of that file until a connect writes it again, even    *)
(* when stale writes and broken ones come in between.                        *)
DisconnectedStaysOut ==
  \A p \in Path :
    removed[p] = "parsed" => file[p] = Absent \/ "a1" \notin file[p].servers

(* The header of the file says of disconnect: "Remove A1 from an agent's     *)
(* config". A text left by a connect to an empty "mcpServers" does not       *)
(* parse, is written back unchanged, and the answer is still a success.      *)
DisconnectRemoves ==
  \A p \in Path \ spoiled :
    removed[p] # "no" => file[p] = Absent \/ "a1" \notin file[p].servers

(* connect_handler and disconnect_handler lose nothing of the user's but by  *)
(* the causes that are named, and change A1's own entry as they report.      *)
ConfigFaithful == UserEntriesKept /\ DisconnectedStaysOut
=============================================================================
