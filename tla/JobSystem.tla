------------------------------ MODULE JobSystem ------------------------------
(***************************************************************************)
(* One job with everything that acts on it: supervisors and their command, *)
(* cancellations (Supervisor), recoveries (Recovery), deliveries,          *)
(* acknowledgements and retries (DeliveryOutbox), interleaved on the files *)
(* of JobStore.                                                            *)
(***************************************************************************)
EXTENDS Naturals, Recovery, DeliveryOutbox

vars == <<storeVars, supVars, rec, dlvVars>>

TypeOK == StoreTypeOK /\ SupTypeOK /\ RecTypeOK /\ DlvTypeOK

Init == StoreInit /\ SupInit /\ RecInit /\ DlvInit

Next ==
  \/ SupNext /\ UNCHANGED <<rec, dlvVars>>
  \/ RecNext /\ UNCHANGED dlvVars
  \/ DlvNext /\ UNCHANGED <<supVars, rec>>

Spec == Init /\ [][Next]_vars

-----------------------------------------------------------------------------
(* The operator's discipline: `recover` is an answer to a crash, run when  *)
(* no other run on the job is under way, and a supervisor is run again     *)
(* only for a job that crashed without a result.  The code does not        *)
(* enforce it: the preflight of any later run may fail, and its report     *)
(* then replaces the result and the delivery of an earlier one.            *)

SupUnderWay == \E s \in Supervisors : Holds(s)
RecUnderWay == \E r \in Recoveries : RecoveryUnderWay(r)
DlvUnderWay ==
  \/ \E d \in Deliveries : dlv[d].pc = "claim" \/ InFlight(d)
  \/ \E a \in Acks : ack[a] = "write"
  \/ \E t \in Retries : retry[t].pc = "write"

(* A recovery begins alone, no delivery step falls into it, and nobody     *)
(* starts the job's supervisor once it has a result or was recovered.      *)
Disciplined ==
  /\ \A r \in Recoveries : rec[r].pc = "idle" /\ rec'[r].pc # "idle" =>
       ~SupUnderWay /\ ~RecUnderWay /\ ~DlvUnderWay
  /\ result # None \/ (\E r \in Recoveries : rec[r].pc # "idle") =>
       \A s \in Supervisors : sup[s].pc = "idle" => sup'[s].pc = "idle"
  /\ RecUnderWay => UNCHANGED dlvVars

DisciplinedNext == Next /\ Disciplined

RecFairness == \A r \in Recoveries : WF_vars(RecContinue(r) /\ UNCHANGED dlvVars)

DisciplinedSpec == Init /\ [][DisciplinedNext]_vars /\ RecFairness
-----------------------------------------------------------------------------
(* Properties of every interleaving.                                       *)

Progress(state) ==
  CASE state = "SUBMITTED" -> 0
    [] state = "STARTING"  -> 1
    [] state = "RUNNING"   -> 2
    [] OTHER               -> 3

(* metadata never goes back to an earlier phase, although recovery writes  *)
(* around the transition table: a job declared over stays over.            *)
NeverBackwards == [][Progress(meta.state) <= Progress(meta'.state)]_vars

(* Nothing is announced before there is something to announce.             *)
AnnouncedHasResult ==
  /\ delivery.state # "NOT_READY" => result # None /\ delivery.event # None
  /\ payload # None => result # None
  /\ received # {} => result # None

(* test_recovery_does_not_claim_a_live_job: while a supervisor waits for   *)
(* its running command, no recovery has declared the job LOST or ORPHANED. *)
LiveJobIsNotClaimed ==
  result # None /\ result.event \in Recoveries =>
    ~\E s \in Supervisors : At(s, "wait") /\ child[s] = "running"

-----------------------------------------------------------------------------
(* Properties under the discipline.                                        *)

(* When a recovery ends, the three files tell one story: metadata and the  *)
(* delivery agree with the result, and no delivery is stuck in flight.     *)
RecoveryReconciles ==
  [][\A r \in Recoveries : rec[r].pc # "done" /\ rec'[r].pc = "done" =>
       /\ result' # None
       /\ meta'.state = result'.state /\ meta'.result_state = result'.result_state
       /\ delivery'.event = result'.event
       /\ delivery'.state \notin {"NOT_READY", "CLAIMED", "SENDING"}]_vars

(* A result is the truth recovery works from: once written, nothing        *)
(* replaces it, in particular no synthetic loss.                           *)
ResultIsWrittenOnce == [][result # None => result' = result]_vars

(* An acknowledgement survives the crash of anyone and every recovery.     *)
AckSurvives == [][delivery.state = "ACKED" => UNCHANGED delivery]_vars

(* A recovery that no kill and no exception stops ends, and one that finds *)
(* no live supervisor leaves a terminal job with a result, although the    *)
(* supervisor and an earlier recovery may have stopped anywhere.           *)
RecoveryEnds ==
  \A r \in Recoveries :
    rec[r].pc = "result" ~>
      \/ rec[r].pc \in {"stopped", "running"}
      \/ rec[r].pc = "done" /\ Terminal /\ result # None
=============================================================================
