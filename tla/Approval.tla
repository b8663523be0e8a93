------------------------------- MODULE Approval -------------------------------
(***************************************************************************)
(* Human approvals (ApprovalToken in governance.rs) and POST               *)
(* /v1/governance/approval/verify, which keeps no state: a token is        *)
(* verified as often as it is presented.  Tokens may be altered in any     *)
(* field on the way; signatures are ideal.                                 *)
(***************************************************************************)
EXTENDS GatewayClock

CONSTANTS
  Approver,    \* keys of people who approve
  Action,      \* identifiers of actions
  Terms,       \* lifetimes of approvals
  MaxTokens    \* bound: approvals that are given

ASSUME ApprovalAssumption == Terms \subseteq Nat /\ MaxTokens \in Nat

VARIABLES
  granted,     \* tokens that approvers have signed
  honoured     \* what the verifier has called valid, and when

appVars == <<now, granted, honoured>>

ApprovalToken ==
  [capability : Capability, approver : Approver, agent : Agent, action : Action,
   granted_at : Nat, expires_at : Nat, nonce : 1 .. MaxTokens]

AppTypeOK ==
  /\ ClockOK
  /\ granted \subseteq ApprovalToken
  /\ \A h \in honoured : h.token \in ApprovalToken /\ h.at \in 0 .. now

AppInit ==
  /\ now = 0
  /\ granted = {}
  /\ honoured = {}

(* Plausible mistake: the action is left out of the signed bytes.            *)
SignableForAnyAction(t) ==
  <<t.capability, t.approver, t.agent, t.granted_at, t.expires_at, t.nonce>>

approval_signable(t) ==
  <<t.capability, t.approver, t.agent, t.action, t.granted_at, t.expires_at, t.nonce>>

(* ApprovalToken::issue.                                                    *)
IssueApproval(approver, capability, agent, action, term) ==
  /\ Cardinality(granted) < MaxTokens
  /\ granted' = granted \cup
       {[capability |-> capability, approver |-> approver, agent |-> agent, action |-> action,
         granted_at |-> now, expires_at |-> now + term, nonce |-> Cardinality(granted) + 1]}
  /\ UNCHANGED <<now, honoured>>

(* ApprovalToken::verify, as verify_approval_handler calls it.              *)
verify(t) ==
  /\ now <= t.expires_at
  /\ \E g \in granted : g.approver = t.approver /\ approval_signable(g) = approval_signable(t)

VerifyApproval(t) ==
  /\ verify(t)
  /\ honoured' = honoured \cup {[token |-> t, at |-> now]}
  /\ UNCHANGED <<now, granted>>

(* A token as it arrives.                                                   *)
AlteredTokens(t) ==
  {t} \cup {[t EXCEPT !.action = a] : a \in Action}
      \cup {[t EXCEPT !.approver = k] : k \in Approver}
      \cup {[t EXCEPT !.expires_at = x] : x \in 0 .. MaxTime}

AppTick == Tick /\ UNCHANGED <<granted, honoured>>

AppNext ==
  \/ AppTick
  \/ \E approver \in Approver, capability \in Capability, agent \in Agent,
        action \in Action, term \in Terms :
       IssueApproval(approver, capability, agent, action, term)
  \/ \E g \in granted : \E t \in AlteredTokens(g) : VerifyApproval(t)

AppSpec == AppInit /\ [][AppNext]_appVars

-----------------------------------------------------------------------------

(* Whatever the verifier calls valid was approved: that approver approved   *)
(* that action of that agent, for a term that had begun and not yet ended   *)
(* (governance.rs ApprovalToken::verify).                                   *)
HonouredWasGranted ==
  \A h \in honoured : \E g \in granted :
    /\ g.approver = h.token.approver
    /\ g.capability = h.token.capability
    /\ g.agent = h.token.agent
    /\ g.action = h.token.action
    /\ h.at \in g.granted_at .. g.expires_at
=============================================================================
