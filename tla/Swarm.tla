-------------------------------- MODULE Swarm --------------------------------
(***************************************************************************)
(* Passports in use: sub-certificates by issue_sub, and swarms             *)
(* (SwarmPassport in swarm.rs, kept by routes/swarm.rs in one map behind a *)
(* mutex).  Each handler holds the mutex from lookup to answer, so each is *)
(* one step; a handler that panics poisons the mutex and with it every     *)
(* later request, because the handlers unwrap the lock.                    *)
(***************************************************************************)
EXTENDS Passport

CONSTANTS
  Name,        \* names of swarms
  Ttl,         \* lifetimes asked for, in seconds
  RootCaps,    \* capability sets that swarms are created with
  MemberCaps,  \* capability sets that members and sub-agents are given
  MaxMembers,  \* bound: members of a swarm
  MaxTime,     \* bound: the clock stops here
  MaxLength    \* bound: certificates in a chain

ASSUME SwarmAssumption ==
  /\ Ttl \subseteq Nat
  /\ RootCaps \subseteq Scope \ {{}}
  /\ MemberCaps \subseteq Scope
  /\ \A caps \in RootCaps \cup MemberCaps : IsFiniteSet(caps)
  /\ MaxMembers \in Nat
  /\ MaxTime \in Nat
  /\ MaxLength \in Nat

VARIABLES
  now,
  swarms,      \* SWARM_STORE: swarm_id -> root passport and members
  poisoned,    \* a handler has panicked with the mutex held
  held         \* the chain last handed out, with the grant it came from

swarmVars == <<now, swarms, poisoned, held>>

(* compute_swarm_id hashes the name and the mask.                           *)
SwarmId == Name \X SUBSET {BitOf[c] : c \in Intent}

Role == {"orchestrator", "auditor", "supervisor", "worker"}

(* SwarmRole::max_depth.                                                    *)
MaxDepth(role) == CASE role = "orchestrator" -> 16
                    [] role = "supervisor" -> 4
                    [] OTHER -> 0

(* SwarmRole::capabilities: an orchestrator or auditor lists none.          *)
RoleCaps(role, caps) == IF role \in {"worker", "supervisor"} THEN caps ELSE {}

Member == [role : Role, caps : Scope, expires : Nat]

Nothing == [by |-> "nobody"]

Held == [chain : DyoloChain, agent : Key, root : DyoloPassport, caps : Scope,
         by : {"issue_sub", "swarm"}]

SwarmTypeOK ==
  /\ now \in 0 .. MaxTime
  /\ DOMAIN swarms \subseteq SwarmId
  /\ \A id \in DOMAIN swarms :
       /\ swarms[id].root \in DyoloPassport
       /\ id[2] = swarms[id].root.capability_mask
       /\ DOMAIN swarms[id].members \subseteq Key
       /\ \A k \in DOMAIN swarms[id].members : swarms[id].members[k] \in Member
  /\ held \in Held \cup {Nothing}
  /\ poisoned \in BOOLEAN

SwarmInit ==
  /\ now = 0
  /\ swarms = << >>
  /\ poisoned = FALSE
  /\ held = Nothing

-----------------------------------------------------------------------------

Extend(f, x, v) == [y \in DOMAIN f \cup {x} |-> IF y = x THEN v ELSE f[y]]

Without(f, S) == [y \in DOMAIN f \ S |-> f[y]]

(* Nonces are random: no two certificates of a chain share one.             *)
Fresh(chain) == Len(chain.certs) + 1

(* SwarmPassport::new.                                                      *)
SwarmPassport(root) == [root |-> root, members |-> << >>]

(* What add_member makes of the members: an agent that is one already is    *)
(* overwritten.                                                             *)
Enrolled(members, agent, role, caps, ttl) ==
  Extend(members, agent, [role |-> role, caps |-> RoleCaps(role, caps), expires |-> now + ttl])

(* The swarm id has other members and the same passport.                    *)
SetMembers(id, members) ==
  swarms' = Extend(swarms, id, [root |-> swarms[id].root, members |-> members])

(* POST /v1/swarm/create: a swarm of the same name and mask is replaced.    *)
(* The new passport's lifetime is at least a day, so it never lapses here.  *)
Create(name, owner, caps) ==
  /\ ~ poisoned
  /\ caps # {}
  /\ LET root == issue(owner, caps, 0, now, MaxTime + 1) IN
     swarms' = Extend(swarms, <<name, root.capability_mask>>, SwarmPassport(root))
  /\ UNCHANGED <<now, poisoned, held>>

(* POST /v1/swarm/member/add.  The role's mask must narrow; the certificate *)
(* is built for the scope root of the whole passport; sign expects a        *)
(* positive lifetime.                                                       *)
AddMember(id, agent, role, caps, ttl) ==
  /\ ~ poisoned
  /\ id \in DOMAIN swarms
  /\ Cardinality(DOMAIN swarms[id].members \cup {agent}) <= MaxMembers
  /\ enforce_narrowing(from_capabilities(RoleCaps(role, caps)),
                       swarms[id].root.capability_mask)
  /\ IF ttl = 0 THEN poisoned' = TRUE /\ UNCHANGED <<now, swarms, held>>
     ELSE /\ SetMembers(id, Enrolled(swarms[id].members, agent, role, caps, ttl))
          /\ UNCHANGED <<now, poisoned, held>>

(* POST /v1/swarm/member/remove.                                            *)
RemoveMember(id, agent) ==
  /\ ~ poisoned
  /\ id \in DOMAIN swarms
  /\ agent \in DOMAIN swarms[id].members
  /\ SetMembers(id, Without(swarms[id].members, {agent}))
  /\ UNCHANGED <<now, poisoned, held>>

(* SwarmPassport::evict_expired.                                            *)
EvictExpired(id) ==
  /\ ~ poisoned
  /\ id \in DOMAIN swarms
  /\ LET m == swarms[id].members IN
     SetMembers(id, Without(m, {k \in DOMAIN m : now >= m[k].expires}))
  /\ UNCHANGED <<now, poisoned, held>>

Hand(chain, agent, root, caps, by) ==
  held' = [chain |-> chain, agent |-> agent, root |-> root, caps |-> caps, by |-> by]

(* SwarmPassport::chain_for_member: a chain of one certificate, by whoever  *)
(* signs, for the scope root of the whole passport.                         *)
ChainForMember(id, agent, ttl, signer) ==
  /\ id \in DOMAIN swarms
  /\ agent \in DOMAIN swarms[id].members
  /\ ttl > 0
  /\ LET root == swarms[id].root
         member == swarms[id].members[agent]
         cert == Built(signer, agent, root.capabilities, Passthrough, 1, now, ttl,
                       MaxDepth(member.role))
     IN Hand([principal |-> signer, scope |-> root.capabilities, certs |-> <<cert>>,
              drift |-> DefaultDrift], agent, root, member.caps, "swarm")
  /\ UNCHANGED <<now, swarms, poisoned>>

(* DyoloPassport::issue_sub on a swarm's passport, by its owner or another  *)
(* signer, on the chain of the passport or on one that is held.             *)
IssueSub(id, chain, signer, agent, caps, ttl) ==
  /\ id \in DOMAIN swarms
  /\ Len(chain.certs) < MaxLength
  /\ SubGranted(swarms[id].root, caps, ttl)
  /\ Hand(push(chain, issue_sub(swarms[id].root, agent, caps, Fresh(chain), now, ttl, signer)),
          agent, swarms[id].root, caps, "issue_sub")
  /\ UNCHANGED <<now, swarms, poisoned>>

Tick ==
  /\ now < MaxTime
  /\ now' = now + 1
  /\ UNCHANGED <<swarms, poisoned, held>>

SwarmNext ==
  \/ Tick
  \/ \E name \in Name, owner \in Key, caps \in RootCaps : Create(name, owner, caps)
  \/ \E id \in SwarmId, agent \in Key :
       \/ RemoveMember(id, agent)
       \/ \E ttl \in Ttl, caps \in MemberCaps, role \in Role : AddMember(id, agent, role, caps, ttl)
       \/ \E signer \in Key, ttl \in Ttl :
            \/ ChainForMember(id, agent, ttl, signer)
            \/ \E caps \in MemberCaps :
                 \/ id \in DOMAIN swarms /\ IssueSub(id, new_chain(swarms[id].root), signer, agent, caps, ttl)
                 \/ held # Nothing /\ IssueSub(id, held.chain, signer, agent, caps, ttl)
  \/ \E id \in SwarmId : EvictExpired(id)

SwarmSpec == SwarmInit /\ [][SwarmNext]_swarmVars

-----------------------------------------------------------------------------

(* A request made now with the chain that is held is authorised.            *)
Authorises(intent) ==
  \E agent \in Key, path \in {{}, LeafScope(held.chain), held.root.capabilities} :
    guard(held.root, held.chain, agent, intent, path, now)

(* guard authorises only capabilities of the passport that every            *)
(* certificate of the chain grants, even where capabilities share bits of   *)
(* the mask and certificates were signed by others (passport/mod.rs guard). *)
GuardSound ==
  held # Nothing =>
    \A intent \in Intent :
      \/ /\ intent \in held.root.capabilities
         /\ \A i \in DOMAIN held.chain.certs : intent \in held.chain.certs[i].scope
      \/ ~ Authorises(intent)

(* What was granted can be used: the holder of a chain that the owner of    *)
(* the passport, or the orchestrator of the swarm, has signed is authorised *)
(* for each granted capability until the certificate expires, by            *)
(* guard_local when the scope is a single capability.                       *)
HolderCanAct ==
  held # Nothing =>
    LET cert == held.chain.certs[1] IN
    Len(held.chain.certs) = 1 /\ cert.delegator = held.chain.principal =>
      \A intent \in held.caps \cap cert.scope :
        now <= cert.expiration =>
          IF Cardinality(cert.scope) = 1
          THEN guard_local(held.root, held.chain, held.agent, intent, now)
          ELSE guard(held.root, held.chain, held.agent, intent, cert.scope, now)

(* guard and guard_local authorise what was granted, no more and no less.    *)
GuardExact == GuardSound /\ HolderCanAct
=============================================================================
