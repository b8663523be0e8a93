------------------------------- MODULE Webhook -------------------------------
(***************************************************************************)
(* Webhook delivery (a1-gateway routes/webhook.rs): the authorize handler  *)
(* (routes/authorize.rs) spawns a task for each granted request and does   *)
(* not wait for it.  A graceful shutdown waits for requests, not for the   *)
(* tasks they spawned.                                                     *)
(***************************************************************************)
EXTENDS Integers, FiniteSets

CONSTANTS
  Event,       \* requests to /v1/authorize, one event each at most
  Configured   \* A1_WEBHOOK_URL is set

VARIABLES
  result,      \* what /v1/authorize has answered, or "open"
  task,        \* the spawned task: "none", "queued", "sent", "ended"
  arrived,     \* how often the endpoint has received the event
  up           \* "up", then "draining" after the signal, then "down"

whVars == <<result, task, arrived, up>>

WhTypeOK ==
  /\ result \in [Event -> {"open", "granted", "denied", "unavailable", "refused"}]
  /\ task \in [Event -> {"none", "queued", "sent", "ended"}]
  /\ arrived \in [Event -> 0 .. 1]
  /\ up \in {"up", "draining", "down"}

WhInit ==
  /\ result = [e \in Event |-> "open"]
  /\ task = [e \in Event |-> "none"]
  /\ arrived = [e \in Event |-> 0]
  /\ up = "up"

(* The authorize handler; test_handler sends the same event unconditionally.*)
Authorized(e) ==
  /\ up # "down"
  /\ result[e] = "open"
  /\ result' = [result EXCEPT ![e] = "granted"]
  /\ task' = [task EXCEPT ![e] = IF Configured THEN "queued" ELSE "none"]
  /\ UNCHANGED <<arrived, up>>

(* A refusal, or a store that fails, is logged and answered: no event.      *)
Denied(e) ==
  /\ up # "down"
  /\ result[e] = "open"
  /\ \E r \in {"denied", "unavailable"} : result' = [result EXCEPT ![e] = r]
  /\ UNCHANGED <<task, arrived, up>>

(* Plausible mistake: nothing is posted once the signal has come.            *)
DeliverWhileUp(e) ==
  /\ up = "up"
  /\ task[e] = "queued"
  /\ task' = [task EXCEPT ![e] = "sent"]
  /\ \E n \in 0 .. 1 : arrived' = [arrived EXCEPT ![e] = n]
  /\ UNCHANGED <<result, up>>

(* deliver posts the event once; it arrives or is lost.                     *)
Deliver(e) ==
  /\ up # "down"
  /\ task[e] = "queued"
  /\ task' = [task EXCEPT ![e] = "sent"]
  /\ \E n \in 0 .. 1 : arrived' = [arrived EXCEPT ![e] = n]
  /\ UNCHANGED <<result, up>>

(* The answer, an error status or the timeout of five seconds ends the task.*)
Settled(e) ==
  /\ up # "down"
  /\ task[e] = "sent"
  /\ task' = [task EXCEPT ![e] = "ended"]
  /\ UNCHANGED <<result, arrived, up>>

(* SIGTERM or system_shutdown_handler: no new requests.                     *)
Shutdown ==
  /\ up = "up"
  /\ up' = "draining"
  /\ UNCHANGED <<result, task, arrived>>

(* The listener is closed once no request is open; the runtime drops tasks. *)
Exit ==
  /\ up = "draining"
  /\ up' = "down"
  /\ result' = [e \in Event |-> IF result[e] = "open" THEN "refused" ELSE result[e]]
  /\ task' = [e \in Event |-> IF task[e] = "queued" THEN "none" ELSE task[e]]
  /\ UNCHANGED arrived

WhNext ==
  \/ Shutdown
  \/ Exit
  \/ \E e \in Event : Authorized(e) \/ Denied(e) \/ Deliver(e) \/ Settled(e)

(* The runtime polls spawned tasks, and a post ends after five seconds.     *)
WhFairness == \A e \in Event : WF_whVars(Deliver(e)) /\ WF_whVars(Settled(e))

WhSpec == WhInit /\ [][WhNext]_whVars /\ WhFairness

-----------------------------------------------------------------------------

(* An authorisation is reported: an attempt to deliver its event is made    *)
(* and comes to an end, unless the gateway is stopped first (dispatch,      *)
(* deliver).                                                                *)
GrantReported ==
  Configured => \A e \in Event : result[e] = "granted" ~> (task[e] = "ended" \/ up = "down")
=============================================================================
