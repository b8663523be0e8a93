----------------------------- MODULE McpBridge -------------------------------
(* POST /mcp of routes/mcp.rs: the tools of the gateway as a model calls     *)
(* them. a1_authorize, a1_issue_cert and a1_revoke are sent on to the        *)
(* gateway's own REST routes, through a connection that may break before or  *)
(* after the route did its work, and a caller that was told of an error may  *)
(* call again.                                                               *)
(*                                                                           *)
(* A chain is one certificate. What /v1/authorize checks besides the nonce   *)
(* and the revocation is the module Authorize.                               *)
EXTENDS Naturals, FiniteSets

CONSTANTS
  McpCall,
  McpCert,
  Secret       \* what A1_ADMIN_SECRET is in this process: "right" or "wrong"

VARIABLES
  mcp,         \* call -> where it stands
  spent,       \* certificates whose nonce /v1/authorize consumed
  withdrawn,   \* certificates revoked
  issued       \* how many certificates /v1/cert/issue made

mcpVars == <<mcp, spent, withdrawn, issued>>

Tool == {"a1_authorize", "a1_issue_cert", "a1_revoke"}

(* The fields post_handler puts in the request of each tool.                 *)
Body(tool) ==
  CASE tool = "a1_authorize" -> {"chain", "intent_name", "executor_pk_hex", "intent_params"}
    [] tool = "a1_issue_cert" -> {"delegate_pk_hex", "capabilities", "ttl_seconds"}
    [] tool = "a1_revoke" -> {"fingerprint"}

(* The fields without a default that the route's request type has; a body    *)
(* without one of them is refused before the handler runs.                   *)
Required(tool) ==
  CASE tool = "a1_authorize" -> {"chain", "intent_name", "executor_pk_hex"}
    [] tool = "a1_issue_cert" -> {"delegate_pk_hex", "intents"}
    [] tool = "a1_revoke" -> {"fingerprint_hex"}

McpInit ==
  /\ \E x \in McpCert : mcp = [c \in McpCall |-> [pc |-> "idle", tool |-> "a1_authorize", cert |-> x]]
  /\ spent = {} /\ withdrawn = {} /\ issued = 0

Moves(c, a) == mcp' = [mcp EXCEPT ![c].pc = a]

(* tools/call. a1_authorize without an intent or a key is an error at once.  *)
Invoke(c, tool, x) ==
  /\ mcp[c].pc \in {"idle", "error"}
  /\ mcp' = [mcp EXCEPT ![c] = [pc |-> "sent", tool |-> tool, cert |-> x]]
  /\ UNCHANGED <<spent, withdrawn, issued>>

InvokeIncomplete(c) ==
  /\ mcp[c].pc = "idle"
  /\ Moves(c, "invalid")
  /\ UNCHANGED <<spent, withdrawn, issued>>

(* The request does not reach the route, or its answer does not come back.   *)
Break(c) ==
  /\ mcp[c].pc \in {"sent", "200", "refused"}
  /\ Moves(c, "error")
  /\ UNCHANGED <<spent, withdrawn, issued>>

(* Plausible mistake: the route grants what was granted before.              *)
ServeAgain(c) ==
  /\ mcp[c].pc = "sent" /\ mcp[c].tool = "a1_authorize"
  /\ mcp[c].cert \notin withdrawn
  /\ spent' = spent \cup {mcp[c].cert} /\ Moves(c, "200")
  /\ UNCHANGED <<withdrawn, issued>>

(* /v1/authorize, which needs no secret.                                     *)
ServeAuthorize(c) ==
  /\ mcp[c].pc = "sent" /\ mcp[c].tool = "a1_authorize"
  /\ IF mcp[c].cert \in spent \cup withdrawn
       THEN Moves(c, "refused") /\ UNCHANGED spent
       ELSE Moves(c, "200") /\ spent' = spent \cup {mcp[c].cert}
  /\ UNCHANGED <<withdrawn, issued>>

Admitted(c) == Secret = "right" /\ Required(mcp[c].tool) \subseteq Body(mcp[c].tool)

(* /v1/cert/issue and /v1/cert/revoke.                                       *)
ServeAdmin(c) ==
  /\ mcp[c].pc = "sent" /\ mcp[c].tool \in {"a1_issue_cert", "a1_revoke"}
  /\ Moves(c, IF Admitted(c) THEN "200" ELSE "refused")
  /\ withdrawn' = IF Admitted(c) /\ mcp[c].tool = "a1_revoke" THEN withdrawn \cup {mcp[c].cert} ELSE withdrawn
  /\ issued' = IF Admitted(c) /\ mcp[c].tool = "a1_issue_cert" THEN issued + 1 ELSE issued
  /\ UNCHANGED spent

(* Somebody else revokes, straight at the route.                             *)
RevokedElsewhere(x) ==
  /\ withdrawn' = withdrawn \cup {x}
  /\ UNCHANGED <<mcp, spent, issued>>

(* Only the status decides; a body that cannot be read becomes an empty one. *)
Reply(c) ==
  /\ mcp[c].pc \in {"200", "refused"}
  /\ Moves(c, IF mcp[c].pc = "200" THEN "done" ELSE "denied")
  /\ UNCHANGED <<spent, withdrawn, issued>>

McpNext ==
  \/ \E c \in McpCall :
       \/ \E tool \in Tool, x \in McpCert : Invoke(c, tool, x)
       \/ InvokeIncomplete(c) \/ Break(c) \/ ServeAuthorize(c) \/ ServeAdmin(c) \/ Reply(c)
  \/ \E x \in McpCert : RevokedElsewhere(x)

McpTypeOK ==
  /\ \A c \in McpCall :
       mcp[c].pc \in {"idle", "sent", "200", "refused", "invalid", "error", "done", "denied"}
  /\ \A c \in McpCall : mcp[c].pc = "200" /\ mcp[c].tool = "a1_authorize" => mcp[c].cert \in spent

(* The calls that told their model "Authorized" for a certificate.           *)
ToldAuthorized(x) == {c \in McpCall : mcp[c].tool = "a1_authorize" /\ mcp[c].pc = "done" /\ mcp[c].cert = x}

(* Through lost answers and calls made again, at most one call is told that  *)
(* a certificate is authorized, and then its nonce is spent.                 *)
ToldAuthorizedOnce ==
  \A x \in McpCert :
    Cardinality(ToldAuthorized(x)) <= 1 /\ (ToldAuthorized(x) # {} => x \in spent)

(* mcp.rs:164, the tool's own description: "Revoke a certificate by its      *)
(* fingerprint. After revocation, the cert cannot be used for                *)
(* authorization." When no message is lost and the secret is right, the call *)
(* ends with the certificate revoked. Not so: the body has no                *)
(* fingerprint_hex.                                                          *)
RevokeToolRevokes ==
  \A c \in McpCall :
    mcp[c].tool = "a1_revoke" /\ mcp[c].pc \in {"done", "denied"} => mcp[c].cert \in withdrawn

McpSpec == McpInit /\ [][McpNext]_mcpVars
=============================================================================
