----------------------------- MODULE MCPassports -----------------------------
(* The passport files of the gateway, and passports in use, one at a time:   *)
(* part is chosen in the initial state, so the state spaces add up instead   *)
(* of multiplying.                                                           *)
(*                                                                           *)
(* Two namespaces, a.b and a-b, whose sanitised file names are equal, and a  *)
(* second file, which only restored documents and renewals of them get into. *)
(* Capabilities pay and scan share a bit of the mask, so that the two sets   *)
(* swarms are created with have the same mask and the same swarm id.         *)
EXTENDS PassportVault, Swarm, TLC

CONSTANTS dotted, dashed, dotFile, dashFile, pay, read, scan

VARIABLE part

MCPathOf == [ns \in Namespace |-> dashFile]

MCClaimed == [ns : Namespace, caps : {Capability}]

MCBitOf == (pay :> 1) @@ (read :> 2) @@ (scan :> 1)

MCRootCaps == {{pay, read}, {scan, read}}

MCMemberCaps == {{read}, {pay}}

(* Bound: chains made by issue_sub are explored beside swarms without        *)
(* members, chains of members beside every swarm.                            *)
Apart ==
  held # Nothing /\ held.by = "issue_sub" =>
    /\ ~ poisoned
    /\ \A id \in DOMAIN swarms : swarms[id].members = << >>

(* Bound: restarts are explored with stores in memory, restored documents    *)
(* with a database, which does all that a store in memory does without them. *)
Upsets == IF ephemeral THEN restored = << >> ELSE restarts = 0

vars == <<part, vaultVars, swarmVars>>

Init ==
  /\ part \in {"vault", "swarm"}
  /\ VaultInit /\ SwarmInit
  /\ part = "swarm" => ephemeral

Next ==
  /\ UNCHANGED part
  /\ \/ part = "vault" /\ VaultNext /\ Upsets' /\ UNCHANGED swarmVars
     \/ part = "swarm" /\ SwarmNext /\ Apart' /\ UNCHANGED vaultVars

Spec == Init /\ [][Next]_vars

(* The types of both parts.                                                  *)
TypeOK == VaultTypeOK /\ SwarmTypeOK

Symmetry == Permutations(Request) \cup Permutations(Key) \cup Permutations(Namespace)
=============================================================================
