------------------------------ MODULE Autostart ------------------------------
(* Starting the gateway at login. Two pairs of routes manage it:             *)
(* routes/automagic.rs enables it and reports a status, and                  *)
(* routes/passports.rs installs and removes it. They share the operating     *)
(* system's entries, and on some platforms the same one.                     *)
EXTENDS FiniteSets

CONSTANT Platform   \* subset of {"linux", "macos", "windows"}

VARIABLES
  platform,  \* where this gateway runs
  units,     \* entries whose file (or task) exists
  loaded,    \* entries the service manager has been told to start
  marker,    \* ~/.a1/autostart-enabled
  said       \* what the last install or remove answered

autoVars == <<platform, units, loaded, marker, said>>

(* The entry each of the two files writes: on macOS two names.               *)
EnableUnit ==
  CASE platform = "macos" -> "com.a1.gateway"
    [] platform = "linux" -> "a1-gateway.service"
    [] OTHER -> "A1Gateway"

(* Plausible mistake: the two routes name the Linux unit differently, as     *)
(* they do on macOS.                                                         *)
OtherUnit == IF platform = "linux" THEN "com.dyolo.a1-gateway" ELSE EnableUnit

InstallUnit == IF platform = "macos" THEN "com.dyolo.a1-gateway" ELSE EnableUnit

(* At login the service manager starts what is both written and loaded.      *)
Starts == units \cap loaded # {}

AutoInit ==
  /\ platform \in Platform
  /\ units = {} /\ loaded = {} /\ marker = FALSE
  /\ said = "nothing"

(* try_enable_autostart: a unit file that cannot be written, a service       *)
(* manager that cannot be run, and on Windows one that reports a failure,    *)
(* end it; what the service manager made of it is not looked at elsewhere.   *)
EnableAutostart ==
  /\ UNCHANGED platform
  /\ \/ said' = "error" /\ UNCHANGED <<units, loaded, marker>>
     \/ /\ platform # "windows"
        /\ units' = units \cup {EnableUnit}
        /\ \/ said' = "error" /\ UNCHANGED <<loaded, marker>>
           \/ /\ loaded' \in {loaded, loaded \cup {EnableUnit}}
              /\ marker' = TRUE /\ said' = "on"
     \/ /\ platform = "windows"
        /\ units' = units \cup {EnableUnit} /\ loaded' = loaded \cup {EnableUnit}
        /\ marker' = TRUE /\ said' = "on"

(* install_autostart_handler: only the unit file, or on Windows the task,    *)
(* decides the answer.                                                       *)
InstallAutostart ==
  /\ UNCHANGED <<platform, marker>>
  /\ \/ said' = "error" /\ UNCHANGED <<units, loaded>>
     \/ /\ units' = units \cup {InstallUnit}
        /\ loaded' \in IF platform = "windows" THEN {loaded \cup {InstallUnit}}
                       ELSE {loaded, loaded \cup {InstallUnit}}
        /\ said' = "on"

(* remove_autostart_handler: unloads and removes the file entries it knows,  *)
(* and asks for the task to be deleted whatever the platform. A file that    *)
(* cannot be removed is not reported as removed.                             *)
RemoveAutostart ==
  /\ UNCHANGED <<platform, marker>>
  /\ \E unloaded, gone \in BOOLEAN :
       LET mine == units \cap {InstallUnit}
           file == mine \ {"A1Gateway"}
       IN  /\ platform = "windows" => unloaded = gone
           /\ loaded' = IF unloaded THEN loaded \ mine ELSE loaded
           /\ units' = IF gone THEN units \ mine ELSE units
           /\ said' = IF file = {} \/ ~gone THEN "none found" ELSE "off"

(* The user or the system drops the entry behind the gateway's back.         *)
Dropped ==
  /\ \E u \in units : units' = units \ {u} /\ loaded' = loaded \ {u}
  /\ UNCHANGED <<platform, marker, said>>

AutoNext == EnableAutostart \/ InstallAutostart \/ RemoveAutostart \/ Dropped

AutoSpec == AutoInit /\ [][AutoNext]_autoVars

(* On Windows a task is created and loaded at once.                          *)
AutoTypeOK ==
  /\ units \subseteq {"com.a1.gateway", "com.dyolo.a1-gateway", "a1-gateway.service", "A1Gateway"}
  /\ said \in {"nothing", "error", "on", "off", "none found"}
  /\ platform = "windows" => units \subseteq loaded

(* remove_autostart_handler answers "A1 will no longer start automatically". *)
(* Whichever of the two routes set it up, and however often, that is true on *)
(* Linux, where both write one file.                                         *)
OffMeansOff == said = "off" /\ platform = "linux" => ~Starts
=============================================================================
