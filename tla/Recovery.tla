------------------------------ MODULE Recovery ------------------------------
(***************************************************************************)
(* snooze_core/recovery.py: recover_job.  A run reads metadata, then       *)
(* result.json, then the process table, and acts on what it READ: nothing  *)
(* locks the job meanwhile, so rec[r] keeps each thing read until the      *)
(* write that uses it.                                                     *)
(***************************************************************************)
EXTENDS Supervisor

VARIABLE rec   \* rec[r]: the run r: pc and what it has read and decided

RecPc == {"idle", "result", "probe", "loss_result", "loss_meta", "loss_delivery",
          "reconcile", "repair_read", "repair_payload", "repair_write",
          "running", "done", "stopped"}

RecTypeOK ==
  rec \in [Recoveries -> [pc       : RecPc,
                          meta     : Metadata \cup {None},
                          result   : Result \cup {None},
                          delivery : Delivery \cup {None}]]

Idle == [pc |-> "idle", meta |-> None, result |-> None, delivery |-> None]

RecInit == rec = [r \in Recoveries |-> Idle]

RecAt(r, pc) == rec[r].pc = pc

RecSet(r, value) == rec' = [rec EXCEPT ![r] = value]

RecGoto(r, pc) == RecSet(r, [rec[r] EXCEPT !.pc = pc])

(* The run ends: "running" reports a live supervisor, "done" a repair; one *)
(* that is "stopped" was killed or reports an exception.                   *)
RecEnd(r, pc) == RecSet(r, [Idle EXCEPT !.pc = pc])

-----------------------------------------------------------------------------
RecoverMeta(r) ==
  /\ RecAt(r, "idle")
  /\ RecSet(r, [rec[r] EXCEPT !.pc = "result", !.meta = meta])
  /\ UNCHANGED <<storeVars, supVars>>

(* Mutant of SyntheticLoss: the missing exit status is guessed.            *)
GuessedLoss(r, state) ==
  [event |-> r, state |-> state, exit |-> "nonzero", process |-> None,
   result_state |-> "SUPERVISOR_LOST"]

(* Mutant of SyntheticLoss: the execution state is used as result state.   *)
MislabelledLoss(r, state) ==
  [event |-> r, state |-> state, exit |-> None, process |-> None,
   result_state |-> state]

(* _write_synthetic_loss: a result with no exit status.                    *)
SyntheticLoss(r, state) ==
  [event |-> r, state |-> state, exit |-> None, process |-> None,
   result_state |-> IF state = "ORPHANED" THEN "SUPERVISOR_ORPHANED"
                                          ELSE "SUPERVISOR_LOST"]

(* Mutant of RecoverResult: only the execution state is compared.          *)
RecoverComparesState(r) ==
  /\ RecAt(r, "result")
  /\ LET m == rec[r].meta
         goOn(pc, res) == RecSet(r, [rec[r] EXCEPT !.pc = pc, !.result = res])
     IN  \/ result # None /\ m.state # result.state /\ goOn("reconcile", result)
         \/ result # None /\ m.state = result.state /\ goOn("repair_read", result)
         \/ /\ result = None /\ m.state \in TerminalState
            /\ goOn("loss_result", SyntheticLoss(r, "LOST"))
         \/ result = None /\ m.state \notin TerminalState /\ goOn("probe", None)
  /\ UNCHANGED <<storeVars, supVars>>

(* Mutant of RecoverResult: terminal metadata is judged before the result. *)
RecoverTerminalFirst(r) ==
  /\ RecAt(r, "result")
  /\ LET m == rec[r].meta
         lost == m.state \in TerminalState /\ (result # None => result.state # m.state)
         goOn(pc, res) == RecSet(r, [rec[r] EXCEPT !.pc = pc, !.result = res])
     IN  \/ lost /\ goOn("loss_result", SyntheticLoss(r, "LOST"))
         \/ ~lost /\ result # None /\ goOn("reconcile", result)
         \/ ~lost /\ result = None /\ goOn("probe", None)
  /\ UNCHANGED <<storeVars, supVars>>

(* A result wins over metadata; terminal metadata without one is a loss.   *)
RecoverResult(r) ==
  /\ RecAt(r, "result")
  /\ LET m == rec[r].meta
         differs == m.state # result.state \/ m.result_state # result.result_state
         goOn(pc, res) == RecSet(r, [rec[r] EXCEPT !.pc = pc, !.result = res])
     IN  \/ result # None /\ differs  /\ goOn("reconcile", result)
         \/ result # None /\ ~differs /\ goOn("repair_read", result)
         \/ /\ result = None /\ m.state \in TerminalState
            /\ goOn("loss_result", SyntheticLoss(r, "LOST"))
         \/ result = None /\ m.state \notin TerminalState /\ goOn("probe", None)
  /\ UNCHANGED <<storeVars, supVars>>

(* _supervisor_alive and _child_alive, for the identities read before.     *)
Probe(r) ==
  /\ RecAt(r, "probe")
  /\ LET m == rec[r].meta
         alive == m.supervisor # None /\ Holds(m.supervisor)
         orphaned == \/ m.state = "SUBMITTED"
                     \/ m.process # None /\ ChildExists(m.process)
     IN  IF alive
           THEN RecEnd(r, "running")
           ELSE RecSet(r, [rec[r] EXCEPT !.pc = "loss_result", !.result =
                             SyntheticLoss(r, IF orphaned THEN "ORPHANED" ELSE "LOST")])
  /\ UNCHANGED <<storeVars, supVars>>

LossResult(r) ==
  /\ RecAt(r, "loss_result")
  /\ result' = rec[r].result
  /\ RecGoto(r, "loss_meta")
  /\ UNCHANGED <<meta, delivery, payload, dead, supVars>>

(* Mutant of LossMeta: metadata is left as it was.                         *)
LossWithoutMeta(r) ==
  /\ RecAt(r, "loss_meta")
  /\ RecGoto(r, "loss_delivery")
  /\ UNCHANGED <<storeVars, supVars>>

LossMeta(r) ==
  /\ RecAt(r, "loss_meta")
  /\ ReconcileMetadata(rec[r].result)
  /\ RecGoto(r, "loss_delivery")
  /\ UNCHANGED <<result, delivery, payload, dead, supVars>>

LossDelivery(r) ==
  /\ RecAt(r, "loss_delivery")
  /\ AnnounceResult(r)
  /\ RecEnd(r, "done")
  /\ UNCHANGED <<meta, result, payload, dead, supVars>>

Reconcile(r) ==
  /\ RecAt(r, "reconcile")
  /\ ReconcileMetadata(rec[r].result)
  /\ RecGoto(r, "repair_read")
  /\ UNCHANGED <<result, delivery, payload, dead, supVars>>

(* _repair_delivery reads delivery.json without the lock ...               *)
RepairRead(r) ==
  /\ RecAt(r, "repair_read")
  /\ LET read == [delivery EXCEPT !.event = rec[r].result.event]
     IN  RecSet(r, [rec[r] EXCEPT !.pc = "repair_payload", !.delivery = read])
  /\ UNCHANGED <<storeVars, supVars>>

(* Mutant of RepairedState: an attempt in flight counts as sent.           *)
RepairedAsSent(state, payloadValid) ==
  CASE state \in {"CLAIMED", "SENDING"} -> "SENT_UNCONFIRMED"
    [] state = "NOT_READY" -> "PENDING"
    [] state = "SENT_UNCONFIRMED" /\ ~payloadValid -> "RETRY_WAIT"
    [] OTHER -> state

(* ... decides from the payload file ...                                   *)
RepairedState(state, payloadValid) ==
  CASE state \in {"CLAIMED", "SENDING"} ->
         IF payloadValid THEN "SENT_UNCONFIRMED" ELSE "RETRY_WAIT"
    [] state = "NOT_READY" -> "PENDING"
    [] state = "SENT_UNCONFIRMED" /\ ~payloadValid -> "RETRY_WAIT"
    [] OTHER -> state

RepairPayload(r) ==
  /\ RecAt(r, "repair_payload")
  /\ LET read == rec[r].delivery
         repaired == [read EXCEPT
           !.state = RepairedState(read.state, payload = rec[r].result.event)]
     IN  RecSet(r, [rec[r] EXCEPT !.pc = "repair_write", !.delivery = repaired])
  /\ UNCHANGED <<storeVars, supVars>>

(* Mutant of RepairWrite: the repaired delivery is announced afresh.       *)
RepairAnnounces(r) ==
  /\ RecAt(r, "repair_write")
  /\ AnnounceResult(rec[r].result.event)
  /\ RecEnd(r, "done")
  /\ UNCHANGED <<meta, result, payload, dead, supVars>>

(* ... and overwrites whatever delivery.json holds by then.                *)
RepairWrite(r) ==
  /\ RecAt(r, "repair_write")
  /\ delivery' = rec[r].delivery
  /\ RecEnd(r, "done")
  /\ UNCHANGED <<meta, result, payload, dead, supVars>>

RecoveryUnderWay(r) == rec[r].pc \notin {"idle", "running", "done", "stopped"}

(* The run is killed, or a read or write of recover_job raises, which      *)
(* recover_store reports as recovery_error; both leave the job as it is.   *)
StopRecovery(r) ==
  /\ RecoveryUnderWay(r)
  /\ RecEnd(r, "stopped")
  /\ UNCHANGED <<storeVars, supVars>>

-----------------------------------------------------------------------------
(* The steps of a run after its first one: a scheduled process takes them. *)
RecContinue(r) ==
  \/ RecoverResult(r) \/ Probe(r)
  \/ LossResult(r) \/ LossMeta(r) \/ LossDelivery(r)
  \/ Reconcile(r) \/ RepairRead(r) \/ RepairPayload(r) \/ RepairWrite(r)

RecNext == \E r \in Recoveries : RecoverMeta(r) \/ RecContinue(r) \/ StopRecovery(r)
=============================================================================
