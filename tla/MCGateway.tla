------------------------------ MODULE MCGateway ------------------------------
(* The parts of the gateway that share nothing but the clock, one at a time: *)
(* part is chosen in the initial state, so the state spaces add up instead   *)
(* of multiplying, and the parts that are not chosen stay in one of their    *)
(* initial states.                                                           *)
EXTENDS Negotiation, Approval, Issuance, JwtBridge, McpBridge, AgentConfig, AgentFiles, AgentProbe,
        Autostart, TLC

CONSTANTS a1, a2, pay, read, k1, k2, plain, link, etc, gone, script, passwd

VARIABLE part

negOnly == <<requests, offers, agreed>>
appOnly == <<granted, honoured>>
issOnly == <<cache, calls, signedN, given, answer>>
jwtOnly == <<published, lastSeen, jwks, exchanges, exchanged>>

clockVars == <<now, negOnly, appOnly, issOnly, jwtOnly>>
agentVars == <<mcpVars, cfgVars, filesVars, probeVars, autoVars>>

vars == <<part, clockVars, agentVars>>

MCCapLists == {{pay}, {pay, read}}

(* A batch whose second lifetime leaves the 64 bits, and an empty one.       *)
MCBatches == {<<2>>, <<2, 7>>, << >>}

One(k) == [kid |-> k, key |-> k]

(* The provider rolls from k1 to k2; in one set the keys have no name.       *)
MCKeySets ==
  {<<One(k1)>>, <<One(k1), One(k2)>>, <<[kid |-> NoKid, key |-> k2], [kid |-> NoKid, key |-> k1]>>}

MCToken ==
  {[kid |-> k1, key |-> k1, sub |-> "user", exp |-> x] : x \in {2, Never}}
    \cup {[kid |-> NoKid, key |-> k2, sub |-> s, exp |-> 3] : s \in {"", "user"}}

MCGroups == {{"openclaw"}, {"ironclaw"}, {"claude_desktop"}, {"langchain", "crewai"}}

(* A link in the home directory that leads out of it, and a name of nothing. *)
MCResolves(n) == CASE n = plain -> script [] n \in {link, etc} -> passwd [] OTHER -> Missing

(* Two agents are looked for at one port.                                    *)
MCProbes ==
  <<[agent |-> "openai_agents", port |-> 8000], [agent |-> "openai", port |-> 8000],
    [agent |-> "custom", port |-> 5000]>>

MCExtraPorts == {<< >>, <<8000, 9>>, <<9, 9>>}

AnyOf(S) == CHOOSE x \in S : TRUE

(* One initial state for each part that is not chosen.                       *)
AtRest ==
  /\ part # "jwt" => published = <<One(k1)>>
  /\ part # "config" => group = {"openclaw"} /\ dirs = {} /\ inPath = {}
  /\ part # "probe" => serving = [p \in PortOf |-> "none"] /\ filter = All /\ extra = << >>
  /\ part # "autostart" => platform = AnyOf(Platform)

Init ==
  /\ part \in {"negotiation", "approval", "issuance", "jwt", "mcp", "config", "files",
               "gitignore", "probe", "autostart"}
  /\ AtRest
  /\ NegInit /\ AppInit /\ IssInit /\ JwtInit
  /\ McpInit /\ CfgInit /\ FilesInit /\ ProbeInit /\ AutoInit

Next ==
  /\ UNCHANGED part
  /\ \/ /\ UNCHANGED agentVars
        /\ \/ part = "negotiation" /\ NegNext /\ UNCHANGED <<appOnly, issOnly, jwtOnly>>
           \/ part = "approval" /\ AppNext /\ UNCHANGED <<negOnly, issOnly, jwtOnly>>
           \/ part = "issuance" /\ IssNext /\ UNCHANGED <<negOnly, appOnly, jwtOnly>>
           \/ part = "jwt" /\ JwtNext /\ UNCHANGED <<negOnly, appOnly, issOnly>>
     \/ /\ UNCHANGED clockVars
        /\ \/ part = "mcp" /\ McpNext /\ UNCHANGED <<cfgVars, filesVars, probeVars, autoVars>>
           \/ part = "config" /\ CfgNext /\ UNCHANGED <<mcpVars, filesVars, probeVars, autoVars>>
           \/ part = "files" /\ FilesNext /\ UNCHANGED <<mcpVars, cfgVars, probeVars, autoVars>>
           \/ part = "gitignore" /\ GitNext /\ UNCHANGED <<mcpVars, cfgVars, probeVars, autoVars>>
           \/ part = "probe" /\ ProbeNext /\ UNCHANGED <<mcpVars, cfgVars, filesVars, autoVars>>
           \/ part = "autostart" /\ AutoNext /\ UNCHANGED <<mcpVars, cfgVars, filesVars, probeVars>>

Spec == Init /\ [][Next]_vars

(* The types of all parts.                                                   *)
TypeOK ==
  /\ NegTypeOK /\ AppTypeOK /\ IssTypeOK /\ JwtTypeOK
  /\ McpTypeOK /\ CfgTypeOK /\ FilesTypeOK /\ ProbeTypeOK /\ AutoTypeOK

(* What the gateway honours was signed: a certificate that it offers was     *)
(* asked for by its holder's key, an offer that is accepted is the gateway's *)
(* in all that is signed of it, and an approval that is honoured was given   *)
(* for that action (routes/negotiate.rs, routes/governance.rs).              *)
HonouredWasSigned == OfferAuthentic /\ HonouredWasGranted

Symmetry == Permutations(Agent) \cup Permutations(Request)
=============================================================================
