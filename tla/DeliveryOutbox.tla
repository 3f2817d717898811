--------------------------- MODULE DeliveryOutbox ---------------------------
(***************************************************************************)
(* snooze_controller/controller.py: DeliveryController, the outbox that    *)
(* announces a result.  `deliver` writes delivery_payload.json for an      *)
(* operator to forward; `resume` sends it through `codex exec resume`.     *)
(* Every claim and state update is one locked step of JobStore; the reads  *)
(* that precede them are not locked with them.                             *)
(***************************************************************************)
EXTENDS JobStore

CONSTANTS Deliveries,  \* runs of `deliver JOB` and `resume JOB`
          Acks,      \* runs of `ack JOB [--event-id E]`
          Retries    \* runs of `retry JOB [--allow-duplicate]`

VARIABLES dlv,       \* dlv[d]: the delivery run d
          ack,       \* ack[a]: the acknowledgement run a
          retry,     \* retry[t]: the retry run t
          received   \* <<d, e>>: the receiver got event e from the run d

dlvVars == <<dlv, ack, retry, received>>

DlvPc == {"idle", "claim", "sending", "read", "payload", "send",
          "sent", "failed", "done", "error", "stopped"}

DlvTypeOK ==
  /\ dlv \in [Deliveries -> [pc : DlvPc, cli : BOOLEAN, dup : BOOLEAN,
                             event : Event \cup {None}]]
  /\ ack \in [Acks -> {"idle", "write", "done", "error"}]
  /\ retry \in [Retries -> [pc : {"idle", "write", "done", "error"}, dup : BOOLEAN]]
  /\ received \subseteq Deliveries \X Event

DlvInit ==
  /\ dlv = [d \in Deliveries |->
              [pc |-> "idle", cli |-> FALSE, dup |-> FALSE, event |-> None]]
  /\ ack = [a \in Acks |-> "idle"]
  /\ retry = [t \in Retries |-> [pc |-> "idle", dup |-> FALSE]]
  /\ received = {}

DlvAt(d, pc) == dlv[d].pc = pc

DlvGoto(d, pc) == dlv' = [dlv EXCEPT ![d].pc = pc]

(* An attempt is in flight from its claim to the record of its outcome.    *)
InFlight(d) ==
  dlv[d].pc \in {"sending", "read", "payload", "send", "sent", "failed"}

-----------------------------------------------------------------------------
(* _prepare_delivery, with allow_duplicate or without it.                  *)

(* Mutant of Claimable: --allow-duplicate is not looked at.                *)
ClaimableAnyway(dup) == {"PENDING", "RETRY_WAIT", "FAILED", "SENT_UNCONFIRMED"}

Claimable(dup) ==
  {"PENDING", "RETRY_WAIT", "FAILED"} \cup (IF dup THEN {"SENT_UNCONFIRMED"} ELSE {})

(* The unlocked look at result and delivery that rejects early.            *)
DeliverCheck(d) ==
  /\ DlvAt(d, "idle")
  /\ \E cli \in BOOLEAN, dup \in BOOLEAN :
       dlv' = [dlv EXCEPT ![d] =
         [pc    |-> IF result # None /\ delivery.state \in Claimable(dup)
                      THEN "claim" ELSE "error",
          cli   |-> cli, dup |-> dup, event |-> None]]
  /\ UNCHANGED <<storeVars, ack, retry, received>>

(* Mutant of Claim: the early look is trusted, the lock rechecks nothing.  *)
ClaimUnchecked(d) ==
  /\ DlvAt(d, "claim")
  /\ delivery' = [delivery EXCEPT !.state = "CLAIMED"]
  /\ DlvGoto(d, "sending")
  /\ UNCHANGED <<meta, result, payload, dead, ack, retry, received>>

(* claim_delivery: under the lock, so two runs cannot both claim PENDING.  *)
Claim(d) ==
  /\ DlvAt(d, "claim")
  /\ IF /\ delivery.state \in Claimable(dlv[d].dup)
        /\ "CLAIMED" \in DeliveryTransitions[delivery.state]
       THEN delivery' = [delivery EXCEPT !.state = "CLAIMED"] /\ DlvGoto(d, "sending")
       ELSE DlvGoto(d, "error") /\ UNCHANGED delivery
  /\ UNCHANGED <<meta, result, payload, dead, ack, retry, received>>

(* update_delivery(target), then next; a refused transition ends the run.  *)
UpdateOrFail(d, target, next) ==
  \/ UpdateDelivery(target) /\ DlvGoto(d, next)
  \/ ~CanDeliver(target) /\ DlvGoto(d, "error") /\ UNCHANGED delivery

StartSending(d) ==
  /\ DlvAt(d, "sending")
  /\ UpdateOrFail(d, "SENDING", "read")
  /\ UNCHANGED <<meta, result, payload, dead, ack, retry, received>>

(* _event_payload takes the event from result.json, not from the claim.    *)
ReadEvent(d) ==
  /\ DlvAt(d, "read")
  /\ dlv' = [dlv EXCEPT ![d] = [@ EXCEPT !.pc = "payload", !.event = result.event]]
  /\ UNCHANGED <<storeVars, ack, retry, received>>

(* The payload file is the manual outbox: writing it publishes the event.  *)
WritePayload(d) ==
  /\ DlvAt(d, "payload")
  /\ payload' = dlv[d].event
  /\ IF dlv[d].cli
       THEN DlvGoto(d, "send") /\ UNCHANGED received
       ELSE /\ DlvGoto(d, "sent")
            /\ received' = received \cup {<<d, dlv[d].event>>}
  /\ UNCHANGED <<meta, result, delivery, dead, ack, retry>>

(* `codex exec resume` exits 0 having taken the prompt; when it fails or   *)
(* times out, the session may or may not have taken it.                    *)
CliResume(d) ==
  /\ DlvAt(d, "send")
  /\ \E taken \in BOOLEAN, next \in {"sent", "failed"} :
       /\ next = "sent" => taken
       /\ received' = IF taken THEN received \cup {<<d, dlv[d].event>>} ELSE received
       /\ DlvGoto(d, next)
  /\ UNCHANGED <<storeVars, ack, retry>>

RecordSent(d) ==
  /\ DlvAt(d, "sent")
  /\ UpdateOrFail(d, "SENT_UNCONFIRMED", "done")
  /\ UNCHANGED <<meta, result, payload, dead, ack, retry, received>>

(* Mutant of RecordFailed: a failed send is not recorded.                  *)
ForgetFailed(d) ==
  /\ DlvAt(d, "failed")
  /\ DlvGoto(d, "done")
  /\ UNCHANGED <<storeVars, ack, retry, received>>

RecordFailed(d) ==
  /\ DlvAt(d, "failed")
  /\ UpdateOrFail(d, "RETRY_WAIT", "done")
  /\ UNCHANGED <<meta, result, payload, dead, ack, retry, received>>

(* The run is killed, or any read, write or call of it raises, also inside *)
(* the handlers of resume_cli: nothing takes a claim back.                 *)
StopDelivery(d) ==
  /\ \/ dlv[d].pc = "claim" /\ DlvGoto(d, "error")
     \/ InFlight(d) /\ DlvGoto(d, "stopped")
  /\ UNCHANGED <<storeVars, ack, retry, received>>

-----------------------------------------------------------------------------
(* acknowledge and retry: an unlocked read, then a locked update.          *)

AckRead(a) ==
  /\ ack[a] = "idle"
  /\ \E event \in Event \cup {None} :
       ack' = [ack EXCEPT ![a] =
         CASE delivery.state = "ACKED" -> "done"
           [] delivery.state = "SENT_UNCONFIRMED" /\ event \in {None, delivery.event}
                -> "write"
           [] OTHER -> "error"]
  /\ UNCHANGED <<storeVars, dlv, retry, received>>

AckWrite(a) ==
  /\ ack[a] = "write"
  /\ \/ UpdateDelivery("ACKED") /\ ack' = [ack EXCEPT ![a] = "done"]
     \/ /\ ~CanDeliver("ACKED")
        /\ ack' = [ack EXCEPT ![a] = "error"] /\ UNCHANGED delivery
  /\ UNCHANGED <<meta, result, payload, dead, dlv, retry, received>>

Retryable(dup) ==
  {"RETRY_WAIT", "FAILED", "CLAIMED", "SENDING"}
    \cup (IF dup THEN {"SENT_UNCONFIRMED"} ELSE {})

RetryRead(t) ==
  /\ retry[t].pc = "idle"
  /\ \E dup \in BOOLEAN :
       retry' = [retry EXCEPT ![t] =
         [pc |-> IF delivery.state \in Retryable(dup) THEN "write" ELSE "error",
          dup |-> dup]]
  /\ UNCHANGED <<storeVars, dlv, ack, received>>

RetryWrite(t) ==
  /\ retry[t].pc = "write"
  /\ \/ UpdateDelivery("PENDING") /\ retry' = [retry EXCEPT ![t].pc = "done"]
     \/ /\ ~CanDeliver("PENDING")
        /\ retry' = [retry EXCEPT ![t].pc = "error"] /\ UNCHANGED delivery
  /\ UNCHANGED <<meta, result, payload, dead, dlv, ack, received>>

-----------------------------------------------------------------------------
DlvContinue(d) ==
  \/ Claim(d) \/ StartSending(d) \/ ReadEvent(d) \/ WritePayload(d)
  \/ CliResume(d) \/ RecordSent(d) \/ RecordFailed(d)

DlvNext ==
  \/ \E d \in Deliveries : DeliverCheck(d) \/ DlvContinue(d) \/ StopDelivery(d)
  \/ \E a \in Acks : AckRead(a) \/ AckWrite(a)
  \/ \E t \in Retries : RetryRead(t) \/ RetryWrite(t)
-----------------------------------------------------------------------------
(* The outbox on its own: a supervisor left a completed job and is gone,   *)
(* and nobody recovers.                                                    *)

OutboxInit ==
  /\ \E s \in Supervisors :
       /\ result = [event |-> s, state |-> "COMPLETED", result_state |-> "SUCCESS",
                    exit |-> "zero", process |-> s]
       /\ meta = [state |-> "COMPLETED", result_state |-> "SUCCESS", exit |-> "zero",
                  supervisor |-> s, process |-> s, cancel |-> FALSE]
       /\ delivery = [state |-> "PENDING", event |-> s]
  /\ payload = None
  /\ dead = {}
  /\ DlvInit

outboxVars == <<storeVars, dlvVars>>

OutboxFairness == \A d \in Deliveries : WF_outboxVars(DlvContinue(d))

OutboxSpec == OutboxInit /\ [][DlvNext]_outboxVars /\ OutboxFairness

-----------------------------------------------------------------------------
(* Properties.                                                             *)

(* The claim admits one delivery at a time until an operator retries: of   *)
(* two runs in flight, a retry let the second one in.                      *)
OneInFlightUnlessRetried ==
  (\A t \in Retries : retry[t].pc # "done") =>
    \A d1, d2 \in Deliveries : InFlight(d1) /\ InFlight(d2) => d1 = d2

(* The receiver gets an event twice only if one of the two runs allowed a  *)
(* duplicate or went through the CLI, which may fail after the session     *)
(* took the prompt; or somebody retried; or a run of both kinds, let in    *)
(* between, recorded its failure as RETRY_WAIT over SENT_UNCONFIRMED.      *)
(* README.md: "Retrying a SENT_UNCONFIRMED event requires                  *)
(* --allow-duplicate".                                                     *)
NoUnaskedDuplicate ==
  \A m1, m2 \in received :
    m1 # m2 /\ m1[2] = m2[2] =>
      \/ \E d \in {m1[1], m2[1]} : dlv[d].dup \/ dlv[d].cli
      \/ \E t \in Retries : retry[t].pc = "done"
      \/ \E d \in Deliveries : dlv[d].dup /\ dlv[d].cli /\ dlv[d].pc = "done"

(* A delivery recorded as sent or acknowledged was published: the payload  *)
(* file announces the very event the delivery is about.                    *)
UnconfirmedIsPublished ==
  delivery.state \in {"SENT_UNCONFIRMED", "ACKED"} => payload = delivery.event

(* ACKED is final, and stays the acknowledgement of the same event.        *)
AckedIsFinal ==
  [][delivery.state = "ACKED" => UNCHANGED delivery]_<<storeVars, dlvVars>>

(* The outbox stays usable: a claim is given up again, by every ending of  *)
(* its attempt (refused, timed out, failed, overtaken by a retry) but a    *)
(* kill or an exception in the middle of one.                              *)
ClaimIsReleased ==
  delivery.state \in {"CLAIMED", "SENDING"} ~>
    \/ delivery.state \notin {"CLAIMED", "SENDING"}
    \/ \E d \in Deliveries : dlv[d].pc = "stopped"
=============================================================================
