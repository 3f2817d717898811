------------------------------ MODULE JobStore ------------------------------
(***************************************************************************)
(* The directory of ONE job below <store>/jobs, as snooze_core/store.py    *)
(* keeps it: metadata.json, result.json, delivery.json and                 *)
(* delivery_payload.json, with the two transition tables that              *)
(* update_metadata and update_delivery enforce.  Every write of            *)
(* persistence.py is a temporary file renamed into place, so a file        *)
(* changes in one step and a reader sees the old or the new content.       *)
(*                                                                         *)
(* Processes are one-shot: a run of the supervisor, of `recover`, of       *)
(* `deliver`.  A run writes at most one result, so the fresh UUID it       *)
(* stores as completion_event_id is represented by the run itself.         *)
(***************************************************************************)
CONSTANTS Supervisors,   \* runs of `supervisor --run JOB`
          Recoveries,    \* runs of `recover JOB`
          None           \* JSON null, and "no such file"

ASSUME RunsAreDistinct ==
  /\ Supervisors \cap Recoveries = {}
  /\ None \notin Supervisors \cup Recoveries

Event == Supervisors \cup Recoveries

(* How the command ended: wait()'s return code, zero or not, or a signal.  *)
ExitStatus == {"zero", "nonzero", "sigterm", "othersignal"}

(* None is a constant, so nothing says it is not one of these strings.     *)
ASSUME NoneIsNoStatus == None \notin ExitStatus

-----------------------------------------------------------------------------
(* models.py and the transition tables of store.py.                        *)

TerminalState ==
  {"COMPLETED", "COMPLETED_STALE", "FAILED", "CANCELLED", "LOST", "ORPHANED"}

ExecutionState == {"SUBMITTED", "STARTING", "RUNNING"} \cup TerminalState

ExecutionTransitions ==
  [s \in ExecutionState |->
     CASE s = "SUBMITTED" -> {"STARTING", "FAILED"}
       [] s = "STARTING"  -> {"RUNNING", "FAILED", "LOST"}
       [] s = "RUNNING"   -> TerminalState
       [] OTHER           -> {}]

DeliveryState ==
  {"NOT_READY", "PENDING", "CLAIMED", "SENDING",
   "SENT_UNCONFIRMED", "ACKED", "RETRY_WAIT", "FAILED"}

DeliveryTransitions ==
  [s \in DeliveryState |->
     CASE s = "NOT_READY"        -> {"PENDING"}
       [] s = "PENDING"          -> {"CLAIMED", "FAILED"}
       [] s = "CLAIMED"          -> {"SENDING", "PENDING", "FAILED"}
       [] s = "SENDING"          -> {"SENT_UNCONFIRMED", "PENDING", "RETRY_WAIT", "FAILED"}
       [] s = "SENT_UNCONFIRMED" -> {"ACKED", "PENDING", "RETRY_WAIT", "CLAIMED"}
       [] s = "ACKED"            -> {}
       [] s = "RETRY_WAIT"       -> {"PENDING", "CLAIMED", "FAILED"}
       [] s = "FAILED"           -> {"PENDING", "CLAIMED"}]

(* result_state of a finished job: why it has its execution state.         *)
ResultState ==
  {"SUCCESS", "NONZERO_EXIT", "SIGNAL", "CANCELLED", "INFRASTRUCTURE_ERROR",
   "SUPERVISOR_EXCEPTION", "SUPERVISOR_LOST", "SUPERVISOR_ORPHANED"}

(* The supervisor and process fields stand for the recorded identities     *)
(* (pid, group, start time); the command belongs to the run that forks it. *)
Metadata ==
  [state        : ExecutionState,
   result_state : ResultState \cup {None},
   exit         : ExitStatus \cup {None},
   supervisor   : Supervisors \cup {None},
   process      : Supervisors \cup {None},
   cancel       : BOOLEAN]

Result ==
  [event        : Event,
   state        : TerminalState,
   result_state : ResultState,
   exit         : ExitStatus \cup {None},
   process      : Supervisors \cup {None}]

Delivery == [state : DeliveryState, event : Event \cup {None}]

(* A missing file is no file content.                                      *)
ASSUME NoneIsNoContent == None \notin Result \cup Delivery

-----------------------------------------------------------------------------
VARIABLES meta,      \* metadata.json
          result,    \* result.json, None while it does not exist
          delivery,  \* delivery.json
          payload,   \* the event delivery_payload.json announces, or None
          dead       \* the supervisor runs that were killed: they take no more steps

storeVars == <<meta, result, delivery, payload, dead>>

StoreTypeOK ==
  /\ meta     \in Metadata
  /\ result   \in Result \cup {None}
  /\ delivery \in Delivery
  /\ payload  \in Event \cup {None}
  /\ dead     \subseteq Supervisors

(* JobStore.create: the job is submitted and nothing has run.              *)
StoreInit ==
  /\ meta = [state |-> "SUBMITTED", result_state |-> None, exit |-> None,
             supervisor |-> None, process |-> None, cancel |-> FALSE]
  /\ result = None
  /\ delivery = [state |-> "NOT_READY", event |-> None]
  /\ payload = None
  /\ dead = {}

Terminal == meta.state \in TerminalState

(* Mutant of CanExecute: update_metadata stores any state it is given.     *)
AnyExecution(target) == target \in ExecutionState

(* The check of update_metadata: staying in a state is always allowed.     *)
CanExecute(target) ==
  target = meta.state \/ target \in ExecutionTransitions[meta.state]

(* Mutant of CanDeliver: update_delivery stores any state it is given.     *)
AnyDelivery(target) == target \in DeliveryState

(* The check of update_delivery.                                           *)
CanDeliver(target) ==
  target = delivery.state \/ target \in DeliveryTransitions[delivery.state]

(* update_delivery(state=target): under the lock, check and write.         *)
UpdateDelivery(target) ==
  /\ CanDeliver(target)
  /\ delivery' = [delivery EXCEPT !.state = target]

(* reconcile_metadata_from_result: copy the result, whatever the state is. *)
ReconcileMetadata(res) ==
  meta' = [meta EXCEPT !.state        = res.state,
                       !.result_state = res.result_state,
                       !.exit         = res.exit,
                       !.process      = IF res.process = None THEN @ ELSE res.process]

(* write_delivery(Delivery(..., PENDING)): overwrite, no check at all.     *)
AnnounceResult(event) == delivery' = [state |-> "PENDING", event |-> event]
=============================================================================
