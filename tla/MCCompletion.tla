----------------------------- MODULE MCCompletion -----------------------------
(* The work that has to come to an end: calls to the PostgreSQL nonce store, *)
(* webhook deliveries, install commands and audit batches, one kind at a     *)
(* time.                                                                     *)
EXTENDS PgNonceStore, Webhook, AgentPull, SiemSink

VARIABLE part

MCLines == [stdout |-> 2, stderr |-> 2]

MCInit ==
  /\ part \in {"postgres", "webhook", "pull", "siem"}
  /\ Init /\ WhInit /\ PullInit /\ SiemInit

MCNext ==
  /\ UNCHANGED part
  /\ \/ part = "postgres" /\ Next /\ UNCHANGED <<whVars, pullVars, siemVars>>
     \/ part = "webhook" /\ WhNext /\ UNCHANGED <<vars, pullVars, siemVars>>
     \/ part = "pull" /\ PullNext /\ UNCHANGED <<vars, whVars, siemVars>>
     \/ part = "siem" /\ SiemNext /\ UNCHANGED <<vars, whVars, pullVars>>

(* The fairness of each kind. In their initial states none of the others has *)
(* a step it would be owed.                                                  *)
MCSpec ==
  /\ MCInit /\ [][MCNext]_<<part, vars, whVars, pullVars, siemVars>>
  /\ \A c \in Caller : WF_vars(Serve(c))
  /\ WhFairness /\ SiemFair /\ PullFair

(* The types of all kinds.                                                   *)
WorkTypeOK == TypeOK /\ WhTypeOK /\ PullTypeOK /\ SiemTypeOK

(* Nothing that goes through a channel is lost or changes places: the lines  *)
(* of an install command (pull_handler) and audit events                     *)
(* (SiemHttpAuditSink).                                                      *)
WorkFaithful == StreamFaithful /\ SiemInOrder /\ SiemForgetsNothing

(* The work that the gateway and the library do in the background is done at *)
(* last: webhooks (dispatch), install commands (pull_handler), audit events  *)
(* (SiemHttpAuditSink).                                                      *)
WorkEnds == GrantReported /\ PullEnds /\ SiemDelivers
=============================================================================
