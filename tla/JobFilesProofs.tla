--------------------------- MODULE JobFilesProofs ---------------------------
(***************************************************************************)
(* How the four files of a job depend on each other, for any sets of runs  *)
(* and every interleaving of JobSystem!Spec: the phases of metadata.json,  *)
(* and what an announcement and a terminal state stand on.                 *)
(***************************************************************************)
EXTENDS JobSystemProofs

-----------------------------------------------------------------------------
(* The transition table never leads to an earlier phase.                   *)
LEMMA TableAdvances ==
  ASSUME NEW target, CanExecute(target), meta.state \in ExecutionState
  PROVE  Progress(meta.state) <= Progress(target)
BY DEF CanExecute, ExecutionTransitions, ExecutionState, TerminalState, Progress

(* How a step may change metadata.json: not at all, by a cancel request,   *)
(* along the transition table, or by the copy of a result that exists.     *)
(* What the last two make of it is all that the theorems below need.       *)
FailureIsItsOwn ==
  meta'.result_state \in {"INFRASTRUCTURE_ERROR", "SUPERVISOR_EXCEPTION"}

MetaStep ==
  \/ meta'.state = meta.state /\ meta'.result_state = meta.result_state
  \/ /\ CanExecute(meta'.state)
     /\ meta'.state \in TerminalState => FailureIsItsOwn \/ result # None
  \/ meta'.state \in TerminalState /\ result # None

LEMMA SupervisorMetaStep ==
  ASSUME TypeInv, NEW s \in Supervisors,
         RunStep(s)
  PROVE  MetaStep
<1>0. meta \in Metadata
  BY DEF TypeInv, TypeOK, StoreTypeOK
<1>1. CASE FailMeta(s)
  BY <1>0, <1>1 DEF FailMeta, MetaStep, FailureIsItsOwn, Metadata
<1>2. CASE Starting(s)
  BY <1>0, <1>2 DEF Starting, MetaStep, Metadata, TerminalState
<1>3. CASE RecordRunning(s)
  BY <1>0, <1>3 DEF RecordRunning, MetaStep, Metadata, TerminalState
<1>4. CASE WriteMeta(s)
  <2>1. result # None
    BY <1>4 DEF WriteMeta, At, TypeInv, Presence, SupPresence
  <2>2. UNCHANGED meta \/ (meta'.state = sup[s].result.state
                            /\ CanExecute(sup[s].result.state))
    BY <1>0, <1>4 DEF WriteMeta, Metadata
  <2>3. QED
    BY <2>1, <2>2 DEF MetaStep
<1>5. CASE Lose(s)
  BY <1>0, <1>5 DEF Lose, MetaStep, FailureIsItsOwn, Metadata
<1>6. CASE UNCHANGED meta
  BY <1>6 DEF MetaStep
<1>7. QED
  BY <1>1, <1>2, <1>3, <1>4, <1>5, <1>6 DEF RunStep, SupStep, Lock, Preflight, FailRead,
    FailResult, FailDelivery, Popen, Wait, Join, Decide, WriteResult, WriteDelivery, Raise, GiveUp,
    HandleException, KillSupervisor, ChildExit, OutputCloses, storeVars

LEMMA NextMetaStep ==
  ASSUME TypeInv, [Next]_vars
  PROVE  MetaStep
<1>0. meta \in Metadata
  BY DEF TypeInv, TypeOK, StoreTypeOK
<1>1. ASSUME NEW c \in Cancels, CancelStep(c) PROVE MetaStep
  <2>1. UNCHANGED meta \/ meta' = [meta EXCEPT !.cancel = TRUE]
    BY <1>1 DEF CancelStep, CancelRead, CancelRequest, CancelTerm, CancelGrace,
      CancelKill, storeVars
  <2>2. QED
    BY <1>0, <2>1 DEF MetaStep, Metadata
<1>2. ASSUME NEW r \in Recoveries, LossMeta(r) \/ Reconcile(r) PROVE MetaStep
  <2>1. result # None /\ rec[r].result \in Result
    BY <1>2 DEF LossMeta, Reconcile, RecAt, TypeInv, TypeOK, RecTypeOK, Presence,
      RecPresence
  <2>2. meta'.state = rec[r].result.state
    BY <1>0, <1>2 DEF LossMeta, Reconcile, ReconcileMetadata, Metadata
  <2>3. QED
    BY <2>1, <2>2 DEF MetaStep, Result
<1>3. ASSUME NEW r \in Recoveries, RecoverMeta(r) \/ RecContinue(r) \/ StopRecovery(r)
      PROVE  MetaStep
  <2>1. LossMeta(r) \/ Reconcile(r) \/ UNCHANGED meta
    BY <1>3 DEF RecContinue, RecoverMeta, RecoverResult, Probe, LossResult,
      LossDelivery, RepairRead, RepairPayload, RepairWrite, StopRecovery, storeVars
  <2>2. QED
    BY <1>2, <2>1 DEF MetaStep
<1>4. ASSUME DlvNext PROVE MetaStep
  <2>1. UNCHANGED meta
    BY <1>4 DEF DlvNext, DlvContinue, DeliverCheck, Claim, StartSending, ReadEvent,
      WritePayload, CliResume, RecordSent, RecordFailed, StopDelivery, AckRead,
      AckWrite, RetryRead, RetryWrite, storeVars
  <2>2. QED
    BY <2>1 DEF MetaStep
<1>5. ASSUME UNCHANGED vars PROVE MetaStep
  BY <1>5 DEF vars, storeVars, MetaStep
<1>6. QED
  BY <1>1, <1>3, <1>4, <1>5, SupervisorMetaStep DEF Next, SupNext, RecNext

(* metadata.json never goes back to an earlier phase, whoever writes it:   *)
(* neither the transition table nor the writes of recovery around it make  *)
(* a job that is over run again.                                           *)
THEOREM PhasesAdvance == Spec => NeverBackwards
<1>1. TypeInv /\ [Next]_vars => [Progress(meta.state) <= Progress(meta'.state)]_vars
  <2> SUFFICES ASSUME TypeInv, [Next]_vars
               PROVE  Progress(meta.state) <= Progress(meta'.state)
    OBVIOUS
  <2>1. MetaStep
    BY NextMetaStep
  <2>2. meta.state \in ExecutionState
    BY DEF TypeInv, TypeOK, StoreTypeOK, Metadata
  <2>3. CASE meta'.state = meta.state
    BY <2>3 DEF Progress
  <2>4. CASE CanExecute(meta'.state)
    BY <2>2, <2>4, TableAdvances
  <2>5. CASE meta'.state \in TerminalState
    BY <2>2, <2>5 DEF Progress, TerminalState, ExecutionState
  <2>6. QED
    BY <2>1, <2>3, <2>4, <2>5 DEF MetaStep
<1>2. QED
  BY <1>1, AlwaysTypeInv, PTL DEF Spec, NeverBackwards

(* A terminal state stands on result.json, unless it reports the failure   *)
(* of the supervisor itself: the write order of run_job and of recovery    *)
(* survives every interleaving of the two.                                 *)
THEOREM TerminalStandsOnResult == Spec => []TerminalHasResult
<1>1. Init => TerminalHasResult
  BY DEF Init, StoreInit, TerminalHasResult, Terminal, TerminalState
<1>2. TypeInv /\ TerminalHasResult /\ [Next]_vars => TerminalHasResult'
  <2> SUFFICES ASSUME TypeInv, TerminalHasResult, [Next]_vars, meta'.state \in TerminalState
               PROVE  FailureIsItsOwn \/ result' # None
    BY DEF TerminalHasResult, Terminal, FailureIsItsOwn
  <2>1. result # None => result' # None
    BY NextTypeInv
  <2>2. MetaStep
    BY NextMetaStep
  <2>3. QED
    BY <2>1, <2>2 DEF MetaStep, TerminalHasResult, Terminal, FailureIsItsOwn
<1>3. QED
  BY <1>1, <1>2, AlwaysTypeInv, PTL DEF Spec

-----------------------------------------------------------------------------
(* An announcement stands on a result.  A retry that has decided to write  *)
(* PENDING saw a delivery that was announced, and none is withdrawn.       *)
RetrySawAnnouncement ==
  \A t \in Retries : retry[t].pc = "write" => delivery.state # "NOT_READY"

AnnounceInv == AnnouncedHasResult /\ RetrySawAnnouncement

(* How a step may change delivery.json: keep it announced, or announce.    *)
DeliveryStep ==
  \/ UNCHANGED delivery
  \/ delivery'.state # "NOT_READY" /\ delivery'.event # None /\ result' # None

LEMMA AnnounceStep ==
  ASSUME TypeInv, AnnounceInv, DeliveryStep, result # None => result' # None,
         payload' # payload => result' # None,
         received' # received => result' # None,
         \A t \in Retries : retry'[t].pc = "write" =>
           retry[t].pc = "write" \/ delivery.state # "NOT_READY"
  PROVE  AnnounceInv'
BY DEF AnnounceInv, AnnouncedHasResult, RetrySawAnnouncement, DeliveryStep

LEMMA SupervisorAnnounces ==
  ASSUME TypeInv, NEW s \in Supervisors,
         RunStep(s)
  PROVE  DeliveryStep /\ UNCHANGED payload
<1>1. CASE FailDelivery(s) \/ WriteDelivery(s)
  <2>1. result # None /\ UNCHANGED result
    <3>1. CASE FailDelivery(s)
      BY <3>1 DEF FailDelivery, At, TypeInv, Presence, SupPresence
    <3>2. CASE WriteDelivery(s)
      BY <3>2 DEF WriteDelivery, At, TypeInv, Presence, SupPresence
    <3>3. QED
      BY <1>1, <3>1, <3>2
  <2>2. s # None
    BY RunsAreDistinct
  <2>3. QED
    BY <1>1, <2>1, <2>2 DEF FailDelivery, WriteDelivery, AnnounceResult, DeliveryStep
<1>2. CASE UNCHANGED <<delivery, payload>>
  BY <1>2 DEF DeliveryStep
<1>3. QED
  BY <1>1, <1>2 DEF RunStep, SupStep, Lock, Preflight, FailRead, FailMeta, FailResult, Starting,
    Popen, RecordRunning, Wait, Join, Decide, WriteResult, WriteMeta, Raise, GiveUp,
    HandleException, Lose, KillSupervisor, ChildExit, OutputCloses, storeVars

LEMMA RecoveryAnnounces ==
  ASSUME TypeInv, NEW r \in Recoveries,
         RecoverMeta(r) \/ RecContinue(r) \/ StopRecovery(r)
  PROVE  DeliveryStep /\ UNCHANGED payload
<1>1. CASE LossDelivery(r)
  <2>1. result # None /\ UNCHANGED result /\ r # None
    BY <1>1, RunsAreDistinct
    DEF LossDelivery, RecAt, TypeInv, Presence, RecPresence
  <2>2. QED
    BY <1>1, <2>1 DEF LossDelivery, AnnounceResult, DeliveryStep
<1>2. CASE RepairWrite(r)
  BY <1>2 DEF RepairWrite, RecAt, TypeInv, Presence, RecPresence, DeliveryStep
<1>3. CASE UNCHANGED <<delivery, payload>>
  BY <1>3 DEF DeliveryStep
<1>4. QED
  BY <1>1, <1>2, <1>3 DEF RecContinue, RecoverMeta, RecoverResult, Probe, LossResult,
    LossMeta, Reconcile, RepairRead, RepairPayload, StopRecovery, storeVars

(* An update of an announced delivery keeps it announced: NOT_READY is in  *)
(* no row of the transition table, and leads only to PENDING.              *)
LEMMA UpdateKeepsAnnounced ==
  ASSUME TypeInv, AnnounceInv, UNCHANGED result, NEW target \in DeliveryState,
         target # "NOT_READY", target = "PENDING" => delivery.state # "NOT_READY",
         UpdateDelivery(target)
  PROVE  DeliveryStep
<1>1. delivery \in Delivery
  BY DEF TypeInv, TypeOK, StoreTypeOK
<1>2. delivery.state # "NOT_READY"
  BY <1>1 DEF UpdateDelivery, CanDeliver, DeliveryTransitions, DeliveryState, Delivery
<1>3. delivery.event # None /\ result # None
  BY <1>2 DEF AnnounceInv, AnnouncedHasResult
<1>4. QED
  BY <1>1, <1>3 DEF UpdateDelivery, DeliveryStep, Delivery

LEMMA OutboxAnnounces ==
  ASSUME TypeInv, AnnounceInv, DlvNext
  PROVE  AnnounceInv'
<1> USE DEF TypeInv, TypeOK, Presence
<1>1. UNCHANGED result
  BY DEF DlvNext, DlvContinue, DeliverCheck, Claim, StartSending, ReadEvent,
    WritePayload, CliResume, RecordSent, RecordFailed, StopDelivery, AckRead,
    AckWrite, RetryRead, RetryWrite, storeVars
<1>2. ASSUME NEW d \in Deliveries, DeliverCheck(d) \/ DlvContinue(d) \/ StopDelivery(d)
      PROVE  AnnounceInv'
  <2>1. DeliveryStep
    <3>1. CASE Claim(d)
      <4>1. ASSUME UpdateDelivery("CLAIMED") PROVE DeliveryStep
        BY <1>1, <4>1, UpdateKeepsAnnounced DEF DeliveryState
      <4>2. UNCHANGED delivery \/ UpdateDelivery("CLAIMED")
        BY <3>1 DEF Claim, UpdateDelivery, CanDeliver
      <4>3. QED
        BY <4>1, <4>2 DEF DeliveryStep
    <3>2. ASSUME NEW target \in {"SENDING", "SENT_UNCONFIRMED", "RETRY_WAIT"}, NEW next,
                 UpdateOrFail(d, target, next)
          PROVE  DeliveryStep
      BY <1>1, <3>2, UpdateKeepsAnnounced DEF UpdateOrFail, DeliveryState, DeliveryStep
    <3>3. CASE StartSending(d) \/ RecordSent(d) \/ RecordFailed(d)
      BY <3>2, <3>3 DEF StartSending, RecordSent, RecordFailed
    <3>4. CASE UNCHANGED delivery
      BY <3>4 DEF DeliveryStep
    <3>5. QED
      BY <1>2, <3>1, <3>3, <3>4 DEF DlvContinue, DeliverCheck, ReadEvent, WritePayload,
        CliResume, StopDelivery, storeVars
  <2>2. payload' # payload \/ received' # received => result # None
    <3>1. CASE WritePayload(d) \/ CliResume(d)
      BY <3>1 DEF WritePayload, CliResume, DlvAt, DlvPresence
    <3>2. CASE UNCHANGED <<payload, received>>
      BY <3>2
    <3>3. QED
      BY <1>2, <3>1, <3>2 DEF DlvContinue, DeliverCheck, Claim, StartSending, ReadEvent,
        RecordSent, RecordFailed, StopDelivery, storeVars, dlvVars
  <2>3. UNCHANGED retry
    BY <1>2 DEF DlvContinue, DeliverCheck, Claim, StartSending, ReadEvent, WritePayload,
      CliResume, RecordSent, RecordFailed, StopDelivery, dlvVars
  <2>4. QED
    BY <1>1, <2>1, <2>2, <2>3, AnnounceStep
<1>3. ASSUME NEW a \in Acks, AckRead(a) \/ AckWrite(a)
      PROVE  AnnounceInv'
  <2>1. DeliveryStep
    BY <1>1, <1>3, UpdateKeepsAnnounced
    DEF AckRead, AckWrite, DeliveryStep, DeliveryState, storeVars
  <2>2. UNCHANGED <<payload, received, retry>>
    BY <1>3 DEF AckRead, AckWrite, storeVars
  <2>3. QED
    BY <1>1, <2>1, <2>2, AnnounceStep
<1>4. ASSUME NEW t \in Retries, RetryRead(t)
      PROVE  AnnounceInv'
  <2>1. UNCHANGED <<delivery, payload, received>>
    BY <1>4 DEF RetryRead, storeVars
  <2>2. \A u \in Retries : retry'[u].pc = "write" =>
          retry[u].pc = "write" \/ delivery.state # "NOT_READY"
    BY <1>4 DEF RetryRead, Retryable, DlvTypeOK
  <2>3. QED
    BY <1>1, <2>1, <2>2, AnnounceStep DEF DeliveryStep
<1>5. ASSUME NEW t \in Retries, RetryWrite(t)
      PROVE  AnnounceInv'
  <2>1. delivery.state # "NOT_READY"
    BY <1>5 DEF RetryWrite, AnnounceInv, RetrySawAnnouncement
  <2>2. DeliveryStep
    BY <1>1, <1>5, <2>1, UpdateKeepsAnnounced DEF RetryWrite, DeliveryStep, DeliveryState
  <2>3. UNCHANGED <<payload, received>>
    BY <1>5 DEF RetryWrite
  <2>4. QED
    BY <1>1, <2>1, <2>2, <2>3, AnnounceStep
<1>6. QED
  BY <1>2, <1>3, <1>4, <1>5 DEF DlvNext

LEMMA NextAnnounceInv ==
  ASSUME TypeInv, AnnounceInv, [Next]_vars
  PROVE  AnnounceInv'
<1>0. result # None => result' # None
  BY NextTypeInv
<1>1. CASE SupNext /\ UNCHANGED <<rec, dlvVars>>
  <2>1. DeliveryStep /\ UNCHANGED payload
    <3>1. ASSUME NEW c \in Cancels, CancelStep(c) PROVE UNCHANGED <<delivery, payload>>
      BY <3>1 DEF CancelStep, CancelRead, CancelRequest, CancelTerm, CancelGrace,
        CancelKill, storeVars
    <3>2. QED
      BY <1>1, <3>1, SupervisorAnnounces DEF SupNext, DeliveryStep
  <2>2. QED
    BY <1>0, <1>1, <2>1, AnnounceStep DEF dlvVars
<1>2. CASE RecNext /\ UNCHANGED dlvVars
  <2>1. DeliveryStep /\ UNCHANGED payload
    BY <1>2, RecoveryAnnounces DEF RecNext
  <2>2. QED
    BY <1>0, <1>2, <2>1, AnnounceStep DEF dlvVars
<1>3. CASE DlvNext
  BY <1>3, OutboxAnnounces
<1>4. CASE UNCHANGED vars
  BY <1>0, <1>4, AnnounceStep DEF vars, storeVars, dlvVars, DeliveryStep
<1>5. QED
  BY <1>1, <1>2, <1>3, <1>4 DEF Next

(* Nothing is announced, published or received before result.json exists,  *)
(* and what is announced names an event: of all the interleavings, no      *)
(* retry and no repair brings an announcement forward.                     *)
THEOREM AnnouncedStandsOnResult == Spec => []AnnouncedHasResult
<1>1. Init => AnnounceInv
  BY DEF Init, StoreInit, DlvInit, AnnounceInv, AnnouncedHasResult, RetrySawAnnouncement
<1>2. TypeInv /\ AnnounceInv /\ [Next]_vars => AnnounceInv'
  BY NextAnnounceInv
<1>3. AnnounceInv => AnnouncedHasResult
  BY DEF AnnounceInv
<1>4. QED
  BY <1>1, <1>2, <1>3, AlwaysTypeInv, PTL DEF Spec

-----------------------------------------------------------------------------
(* What was cancelled had a cause: the request stays in metadata.json, and *)
(* every copy of a result that says CANCELLED was made with it, or of a    *)
(* command that died of SIGTERM.                                           *)
Caused(m, res) ==
  res # None /\ res.state = "CANCELLED" => m.cancel \/ res.exit = "sigterm"

SupCaused == Caused(meta, result) /\ \A s \in Supervisors : Caused(meta, sup[s].result)
RecCaused == \A r \in Recoveries : Caused(meta, rec[r].result)

(* The request is never withdrawn, by whoever writes metadata.json.        *)
RequestStays == meta.cancel => meta'.cancel

(* The result a run builds when its command has ended.                     *)
LEMMA OutcomeIsCaused ==
  ASSUME NEW s \in Supervisors, Decide(s), SupTypeOK
  PROVE  /\ \A t \in Supervisors \ {s} : sup'[t].result = sup[t].result
         /\ sup'[s].result.state = "CANCELLED" =>
              meta.cancel \/ sup'[s].result.exit = "sigterm"
<1>1. PICK stale \in BOOLEAN :
        LET outcome == Outcome(meta.cancel, sup[s].exit, stale)
            built == [event |-> s, state |-> outcome[1], result_state |-> outcome[2],
                      exit |-> sup[s].exit, process |-> s]
        IN  sup' = [sup EXCEPT ![s] = [@ EXCEPT !.pc = "write_result", !.result = built]]
  BY DEF Decide
<1> DEFINE outcome == Outcome(meta.cancel, sup[s].exit, stale)
<1>2. outcome[1] = "CANCELLED" => meta.cancel \/ sup[s].exit = "sigterm"
  BY DEF Outcome
<1> HIDE DEF outcome
<1>3. /\ sup'[s].result.state = outcome[1] /\ sup'[s].result.exit = sup[s].exit
      /\ \A t \in Supervisors \ {s} : sup'[t].result = sup[t].result
  BY <1>1 DEF SupTypeOK, outcome
<1>4. QED
  BY <1>2, <1>3

LEMMA SupervisorCauses ==
  ASSUME StoreTypeOK, SupTypeOK, SupCaused, NEW s \in Supervisors,
         RunStep(s)
  PROVE  RequestStays /\ SupCaused'
<1>1. RequestStays
  BY DEF RunStep, SupStep, Lock, Preflight, FailRead, FailMeta, FailResult, FailDelivery, Starting,
    Popen, RecordRunning, Wait, Join, Decide, WriteResult, WriteMeta, WriteDelivery, Raise, GiveUp,
    HandleException, Lose, KillSupervisor, ChildExit, OutputCloses, storeVars, StoreTypeOK, Metadata,
    RequestStays
<1>2. CASE Decide(s)
  <2>1. UNCHANGED <<meta, result>>
    BY <1>2 DEF Decide, storeVars
  <2>2. Caused(meta, sup'[s].result)
    BY <1>2, OutcomeIsCaused DEF Caused
  <2>3. \A t \in Supervisors : Caused(meta, sup'[t].result)
    BY <1>2, <2>2, OutcomeIsCaused DEF SupCaused
  <2>4. QED
    BY <1>1, <2>1, <2>3 DEF SupCaused
<1>3. CASE ~Decide(s)
  <2>0. \/ UNCHANGED sup
        \/ sup' = [sup EXCEPT ![s] = [@ EXCEPT !.pc = "join", !.exit = child[s]]]
        \/ \E pc : Goto(s, pc)
    BY <1>3 DEF RunStep, SupStep, Lock, Preflight, FailRead, FailMeta, FailResult, FailDelivery,
      Starting, Popen, RecordRunning, Wait, Join, WriteResult, WriteMeta, WriteDelivery, Raise,
      GiveUp, HandleException, Lose, KillSupervisor, ChildExit, OutputCloses, supVars
  <2>1. \A t \in Supervisors : sup'[t].result = sup[t].result
    <3>1. ASSUME NEW pc, Goto(s, pc)
          PROVE  \A t \in Supervisors : sup'[t].result = sup[t].result
      BY <3>1 DEF SupTypeOK, Goto
    <3>2. CASE sup' = [sup EXCEPT ![s] = [@ EXCEPT !.pc = "join", !.exit = child[s]]]
      BY <3>2 DEF SupTypeOK
    <3>3. QED
      BY <2>0, <3>1, <3>2
  <2>2. result' \in {result, FailureResult(s), sup[s].result}
    BY <1>3 DEF RunStep, SupStep, Lock, Preflight, FailRead, FailMeta, FailResult, FailDelivery,
      Starting, Popen, RecordRunning, Wait, Join, WriteResult, WriteMeta, WriteDelivery, Raise,
      GiveUp, HandleException, Lose, KillSupervisor, ChildExit, OutputCloses, storeVars
  <2>3. FailureResult(s).state # "CANCELLED"
    BY DEF FailureResult
  <2>4. QED
    BY <1>1, <2>1, <2>2, <2>3 DEF SupCaused, Caused, RequestStays
<1>4. QED
  BY <1>1, <1>2, <1>3

LEMMA CancelCauses ==
  ASSUME StoreTypeOK, SupCaused, NEW c \in Cancels, CancelStep(c)
  PROVE  RequestStays /\ SupCaused'
<1>1. UNCHANGED <<result, sup>>
  BY DEF CancelStep, CancelRead, CancelRequest, CancelTerm, CancelGrace, CancelKill, storeVars
<1>2. RequestStays
  BY DEF CancelStep, CancelRead, CancelRequest, CancelTerm, CancelGrace, CancelKill,
    storeVars, StoreTypeOK, Metadata, RequestStays
<1>3. QED
  BY <1>1, <1>2 DEF SupCaused, Caused, RequestStays

LEMMA SupNextCauses ==
  ASSUME StoreTypeOK, SupTypeOK, SupCaused, [SupNext]_supervisionVars
  PROVE  RequestStays /\ SupCaused'
<1>1. CASE UNCHANGED supervisionVars
  BY <1>1 DEF supervisionVars, storeVars, supVars, RequestStays, SupCaused, Caused
<1>2. QED
  BY <1>1, SupervisorCauses, CancelCauses DEF SupNext

LEMMA RecoveryCauses ==
  ASSUME TypeInv, SupCaused, RecCaused, NEW r \in Recoveries,
         RecoverMeta(r) \/ RecContinue(r) \/ StopRecovery(r)
  PROVE  SupCaused' /\ RecCaused'
<1> USE DEF TypeInv, TypeOK
<1>1. UNCHANGED sup
  BY DEF RecContinue, RecoverMeta, RecoverResult, Probe, LossResult, LossMeta,
    LossDelivery, Reconcile, RepairRead, RepairPayload, RepairWrite, StopRecovery, supVars
<1>2. RequestStays
  <2>1. UNCHANGED meta \/ \E res : ReconcileMetadata(res)
    BY DEF RecContinue, RecoverMeta, RecoverResult, Probe, LossResult, LossMeta,
      LossDelivery, Reconcile, RepairRead, RepairPayload, RepairWrite, StopRecovery, storeVars
  <2>2. QED
    BY <2>1 DEF ReconcileMetadata, RequestStays, StoreTypeOK, Metadata
<1>3. result' \in {result, rec[r].result}
  BY DEF RecContinue, RecoverMeta, RecoverResult, Probe, LossResult, LossMeta,
    LossDelivery, Reconcile, RepairRead, RepairPayload, RepairWrite, StopRecovery, storeVars
<1>4. /\ \A q \in Recoveries \ {r} : rec'[q] = rec[q]
      /\ \/ rec'[r].result \in {None, result, rec[r].result}
         \/ \E state \in {"LOST", "ORPHANED"} : rec'[r].result = SyntheticLoss(r, state)
  <2>1. CASE RecoverResult(r)
    BY <2>1 DEF RecoverResult, RecSet, RecTypeOK
  <2>2. CASE Probe(r)
    BY <2>2 DEF Probe, RecSet, RecEnd, Idle, RecTypeOK
  <2>3. CASE RecoverMeta(r) \/ LossResult(r) \/ LossMeta(r) \/ Reconcile(r)
    BY <2>3 DEF RecoverMeta, LossResult, LossMeta, Reconcile, RecSet, RecGoto, RecTypeOK
  <2>4. CASE RepairRead(r) \/ RepairPayload(r)
    BY <2>4 DEF RepairRead, RepairPayload, RecSet, RecTypeOK
  <2>5. CASE LossDelivery(r) \/ RepairWrite(r)
    BY <2>5 DEF LossDelivery, RepairWrite, RecSet, RecEnd, Idle, RecTypeOK
  <2>6. CASE StopRecovery(r)
    BY <2>6 DEF StopRecovery, RecSet, RecEnd, Idle, RecTypeOK
  <2>7. QED
    BY <2>1, <2>2, <2>3, <2>4, <2>5, <2>6 DEF RecContinue
<1>5. \A state \in {"LOST", "ORPHANED"} : SyntheticLoss(r, state).state # "CANCELLED"
  BY DEF SyntheticLoss
<1>6. \A res : Caused(meta, res) => Caused(meta', res)
  BY <1>2 DEF Caused, RequestStays
<1>7. Caused(meta', result')
  BY <1>3, <1>6 DEF SupCaused, RecCaused
<1>8. Caused(meta', rec'[r].result)
  <2>1. CASE rec'[r].result \in {None, result, rec[r].result}
    BY <1>6, <2>1 DEF SupCaused, RecCaused, Caused
  <2>2. CASE \E state \in {"LOST", "ORPHANED"} : rec'[r].result = SyntheticLoss(r, state)
    BY <1>5, <2>2 DEF Caused
  <2>3. QED
    BY <1>4, <2>1, <2>2
<1>9. \A q \in Recoveries : Caused(meta', rec'[q].result)
  BY <1>4, <1>6, <1>8 DEF RecCaused
<1>10. \A s \in Supervisors : Caused(meta', sup'[s].result)
  BY <1>1, <1>6 DEF SupCaused
<1>11. QED
  BY <1>7, <1>9, <1>10 DEF SupCaused, RecCaused

(* A CANCELLED result has a cause, while recoveries copy results, write    *)
(* their own and overwrite metadata.json beside cancel_job and run_job.    *)
THEOREM CancellationsAreCaused == Spec => []CancelledForCause
<1>1. Init => SupCaused /\ RecCaused
  BY DEF Init, StoreInit, SupInit, RecInit, Idle, SupCaused, RecCaused, Caused
<1>2. ASSUME TypeInv, SupCaused, RecCaused, [Next]_vars PROVE SupCaused' /\ RecCaused'
  <2>1. CASE SupNext /\ UNCHANGED <<rec, dlvVars>>
    <3>1. RequestStays /\ SupCaused'
      BY <1>2, <2>1, SupNextCauses DEF TypeInv, TypeOK
    <3>2. QED
      BY <1>2, <2>1, <3>1 DEF RecCaused, Caused, RequestStays
  <2>2. CASE RecNext /\ UNCHANGED dlvVars
    BY <1>2, <2>2, RecoveryCauses DEF RecNext
  <2>3. CASE DlvNext /\ UNCHANGED <<supVars, rec>>
    <3>1. UNCHANGED <<meta, result>>
      BY <2>3 DEF DlvNext, DlvContinue, DeliverCheck, Claim, StartSending, ReadEvent,
        WritePayload, CliResume, RecordSent, RecordFailed, StopDelivery, AckRead,
        AckWrite, RetryRead, RetryWrite, storeVars
    <3>2. QED
      BY <1>2, <2>3, <3>1 DEF SupCaused, RecCaused, Caused, supVars
  <2>4. CASE UNCHANGED vars
    BY <1>2, <2>4 DEF SupCaused, RecCaused, Caused, vars, storeVars, supVars
  <2>5. QED
    BY <1>2, <2>1, <2>2, <2>3, <2>4 DEF Next
<1>3. SupCaused => CancelledForCause
  BY DEF SupCaused, Caused, CancelledForCause
<1>4. QED
  BY <1>1, <1>2, <1>3, AlwaysTypeInv, PTL DEF Spec

-----------------------------------------------------------------------------
(* A supervisor on its own.  One run at a time holds supervisor.lock; the  *)
(* one about to fork has made the job STARTING, and no command is recorded *)
(* in a job that is not further: RUNNING is written together with it.      *)
SupervisionTypes == StoreTypeOK /\ SupTypeOK /\ SupPresence /\ CancelPresence

OneHolder == \A s, t \in Supervisors : Holds(s) /\ Holds(t) => s = t

UnrecordedYet == meta.state = "STARTING" /\ meta.process = None

RecordedIsRunning == meta.process # None => meta.state \notin {"SUBMITTED", "STARTING"}

ForkInv ==
  /\ OneHolder
  /\ \A s \in Supervisors : At(s, "popen") => UnrecordedYet
  /\ RecordedIsRunning

LEMMA SupervisionTypesStep ==
  ASSUME SupervisionTypes, [SupNext]_supervisionVars
  PROVE  SupervisionTypes'
<1> USE DEF SupervisionTypes
<1>1. CASE UNCHANGED supervisionVars
  <2>1. StoreTypeOK'
    BY <1>1 DEF supervisionVars, storeVars, StoreTypeOK
  <2>2. UNCHANGED supVars /\ (result # None => result' # None)
    BY <1>1 DEF supervisionVars, storeVars
  <2>3. QED
    BY <2>1, <2>2, SupFrame
<1>2. QED
  BY <1>1, SupervisorTypeInv, CancelTypeInv DEF SupNext

(* Where a run goes, and that it keeps its result.                         *)
LEMMA GotoMoves ==
  ASSUME SupTypeOK, NEW s \in Supervisors, NEW pc, Goto(s, pc)
  PROVE  /\ sup'[s].pc = pc
         /\ \A t \in Supervisors : sup'[t].result = sup[t].result
BY DEF Goto, SupTypeOK

(* Only Lock takes the lock, and a step moves no run but its own.          *)
LEMMA LockIsTaken ==
  ASSUME SupTypeOK, NEW s \in Supervisors,
         RunStep(s)
  PROVE  /\ \A t \in Supervisors \ {s} : sup'[t] = sup[t]
         /\ dead \subseteq dead'
         /\ Lock(s) \/ (Holds(s)' => Holds(s))
<1>1. CASE Lock(s)
  BY <1>1 DEF Lock, Goto, SupTypeOK, storeVars
<1>2. CASE KillSupervisor(s) \/ ChildExit(s) \/ OutputCloses(s)
  BY <1>2 DEF KillSupervisor, ChildExit, OutputCloses, supVars, storeVars, Holds
<1>3. CASE SupStep(s) \/ Raise(s) \/ GiveUp(s)
  <2>1. sup[s].pc \in LockedPc /\ s \notin dead /\ UNCHANGED dead
    BY <1>3 DEF RunStep, SupStep, Preflight, FailRead, FailMeta, FailResult, FailDelivery, Starting,
      Popen, RecordRunning, Wait, Join, Decide, WriteResult, WriteMeta, WriteDelivery, Raise, GiveUp,
      HandleException, Lose, At, LockedPc, TryPc, UnguardedPc, storeVars
  <2>2. (\E pc : Goto(s, pc)) \/ (\E value : sup' = [sup EXCEPT ![s] = value])
    <3>1. CASE Wait(s)
      BY <3>1 DEF Wait
    <3>2. CASE Decide(s)
      BY <3>2 DEF Decide
    <3>3. QED
      BY <1>3, <3>1, <3>2 DEF RunStep, SupStep, Preflight, FailRead, FailMeta, FailResult,
        FailDelivery, Starting, Popen, RecordRunning, Join, WriteResult, WriteMeta,
        WriteDelivery, Raise, GiveUp, HandleException, Lose
  <2>3. \A t \in Supervisors \ {s} : sup'[t] = sup[t]
    BY <2>2 DEF Goto, SupTypeOK
  <2>4. QED
    BY <2>1, <2>3 DEF Holds
<1>4. QED
  BY <1>1, <1>2, <1>3 DEF RunStep

LEMMA SupervisorHolders ==
  ASSUME SupTypeOK, OneHolder, NEW s \in Supervisors,
         RunStep(s)
  PROVE  OneHolder'
<1>1. \A t \in Supervisors \ {s} : Holds(t)' => Holds(t)
  BY LockIsTaken DEF Holds
<1>2. CASE Lock(s)
  <2>1. (\E t \in Supervisors : Holds(t)) => ~Holds(s)'
    BY <1>2 DEF Lock, Goto, Holds, SupTypeOK, LockedPc, TryPc, UnguardedPc
  <2>2. QED
    BY <1>1, <2>1 DEF OneHolder
<1>3. CASE ~Lock(s)
  <2>1. Holds(s)' => Holds(s)
    BY <1>3, LockIsTaken
  <2>2. QED
    BY <1>1, <2>1 DEF OneHolder
<1>4. QED
  BY <1>2, <1>3

(* What a run may make of metadata.json, and where it is then.             *)
LEMMA SupervisorRecords ==
  ASSUME StoreTypeOK, SupTypeOK, SupPresence, RecordedIsRunning, NEW s \in Supervisors,
         RunStep(s)
  PROVE  /\ RecordedIsRunning'
         /\ UNCHANGED meta \/ Holds(s)
         /\ At(s, "popen")' => UnrecordedYet' \/ (At(s, "popen") /\ UNCHANGED meta)
<1>0. meta \in Metadata
  BY DEF StoreTypeOK
<1>1. CASE Starting(s)
  <2>1. Holds(s)
    BY <1>1 DEF Starting, At, Holds, LockedPc, TryPc, UnguardedPc
  <2>2. CASE CanExecute("STARTING")
    <3>1. meta.state \in {"SUBMITTED", "STARTING"}
      BY <1>0, <2>2 DEF CanExecute, ExecutionTransitions, ExecutionState, TerminalState,
        Metadata
    <3>2. meta' = [meta EXCEPT !.state = "STARTING", !.supervisor = s]
      BY <1>1, <2>2 DEF Starting
    <3>3. meta'.state = "STARTING" /\ meta'.process = meta.process
      BY <1>0, <3>2 DEF Metadata
    <3>4. QED
      BY <2>1, <3>1, <3>3 DEF RecordedIsRunning, UnrecordedYet
  <2>3. CASE ~CanExecute("STARTING")
    <3>1. UNCHANGED meta /\ sup'[s].pc # "popen"
      BY <1>1, <2>3 DEF Starting, Goto, SupTypeOK
    <3>2. QED
      BY <3>1 DEF RecordedIsRunning, At
  <2>4. QED
    BY <2>2, <2>3
<1>2. CASE RecordRunning(s) \/ FailMeta(s) \/ Lose(s)
  <2>1. Holds(s)
    BY <1>2 DEF RecordRunning, FailMeta, Lose, At, Holds, LockedPc, TryPc, UnguardedPc
  <2>2. \E pc \in {"wait", "fail_result", "exited", "exception"} : Goto(s, pc)
    BY <1>2 DEF RecordRunning, FailMeta, Lose
  <2>3. sup'[s].pc # "popen"
    BY <2>2 DEF Goto, SupTypeOK
  <2>4. UNCHANGED meta \/ meta'.state \in {"RUNNING", "FAILED", "LOST"}
    BY <1>0, <1>2 DEF RecordRunning, FailMeta, Lose, Metadata
  <2>5. QED
    BY <2>1, <2>3, <2>4 DEF RecordedIsRunning, At
<1>3. CASE WriteMeta(s)
  <2>1. sup[s].result \in Result
    BY <1>3 DEF WriteMeta, At, SupPresence, SupTypeOK
  <2>2. Holds(s) /\ sup'[s].pc # "popen"
    BY <1>3 DEF WriteMeta, At, Holds, LockedPc, TryPc, UnguardedPc, Goto, SupTypeOK
  <2>3. UNCHANGED meta \/ meta'.state = sup[s].result.state
    BY <1>0, <1>3 DEF WriteMeta, Metadata
  <2>4. sup[s].result.state \notin {"SUBMITTED", "STARTING"}
    BY <2>1 DEF Result, TerminalState
  <2>5. QED
    BY <2>2, <2>3, <2>4 DEF RecordedIsRunning, At
<1>4. CASE \/ Lock(s) \/ Preflight(s) \/ FailRead(s) \/ FailResult(s) \/ FailDelivery(s)
           \/ Popen(s) \/ Join(s) \/ WriteResult(s) \/ WriteDelivery(s)
           \/ Raise(s) \/ GiveUp(s) \/ HandleException(s)
  <2>1. UNCHANGED meta /\ sup'[s].pc # "popen"
    BY <1>4 DEF Lock, Preflight, FailRead, FailResult, FailDelivery, Popen, Join, WriteResult,
      WriteDelivery, Raise, GiveUp, HandleException, Goto, SupTypeOK, storeVars
  <2>2. QED
    BY <2>1 DEF RecordedIsRunning, At
<1>5. CASE Wait(s) \/ Decide(s)
  <2>1. UNCHANGED meta /\ sup'[s].pc # "popen"
    <3>1. CASE Wait(s)
      BY <3>1 DEF Wait, SupTypeOK, storeVars
    <3>2. CASE Decide(s)
      BY <3>2 DEF Decide, SupTypeOK, storeVars
    <3>3. QED
      BY <1>5, <3>1, <3>2
  <2>2. QED
    BY <2>1 DEF RecordedIsRunning, At
<1>6. CASE KillSupervisor(s) \/ ChildExit(s) \/ OutputCloses(s)
  <2>1. UNCHANGED <<meta, sup>> /\ dead \subseteq dead'
    BY <1>6 DEF KillSupervisor, ChildExit, OutputCloses, supVars, storeVars
  <2>2. QED
    BY <2>1 DEF RecordedIsRunning, At
<1>7. QED
  BY <1>1, <1>2, <1>3, <1>4, <1>5, <1>6 DEF RunStep, SupStep

LEMMA SupervisorForkInv ==
  ASSUME SupervisionTypes, ForkInv, NEW s \in Supervisors,
         RunStep(s)
  PROVE  ForkInv'
<1> USE DEF SupervisionTypes, ForkInv
<1>1. OneHolder' /\ RecordedIsRunning'
  BY SupervisorHolders, SupervisorRecords
<1>2. ASSUME NEW t \in Supervisors, At(t, "popen")' PROVE UnrecordedYet'
  <2>1. CASE t = s
    BY <1>2, <2>1, SupervisorRecords DEF UnrecordedYet
  <2>2. CASE t # s
    <3>1. At(t, "popen") /\ Holds(t)
      BY <1>2, <2>2, LockIsTaken DEF At, Holds, LockedPc, TryPc, UnguardedPc
    <3>2. ~Holds(s)
      BY <2>2, <3>1 DEF OneHolder
    <3>3. UNCHANGED meta
      BY <3>2, SupervisorRecords
    <3>4. QED
      BY <3>1, <3>3 DEF UnrecordedYet
  <2>3. QED
    BY <2>1, <2>2
<1>3. QED
  BY <1>1, <1>2

LEMMA SupNextForkInv ==
  ASSUME SupervisionTypes, ForkInv, [SupNext]_supervisionVars
  PROVE  ForkInv'
<1>1. ASSUME NEW c \in Cancels, CancelStep(c) PROVE ForkInv'
  <2>1. UNCHANGED <<sup, dead>>
    BY <1>1 DEF CancelStep, CancelRead, CancelRequest, CancelTerm, CancelGrace,
      CancelKill, storeVars
  <2>2. meta'.state = meta.state /\ meta'.process = meta.process
    BY <1>1 DEF CancelStep, CancelRead, CancelRequest, CancelTerm, CancelGrace,
      CancelKill, storeVars, SupervisionTypes, StoreTypeOK, Metadata
  <2>3. QED
    BY <2>1, <2>2 DEF ForkInv, OneHolder, Holds, At, UnrecordedYet, RecordedIsRunning
<1>2. CASE UNCHANGED supervisionVars
  BY <1>2 DEF ForkInv, OneHolder, Holds, At, UnrecordedYet, RecordedIsRunning,
    supervisionVars, supVars, storeVars
<1>3. QED
  BY <1>1, <1>2, SupervisorForkInv DEF SupNext

LEMMA SupervisionInvariants ==
  SupervisionSpec => [](SupervisionTypes /\ ForkInv /\ SupCaused)
<1>1. SupervisionInit => SupervisionTypes /\ ForkInv /\ SupCaused
  <2> SUFFICES ASSUME SupervisionInit PROVE SupervisionTypes /\ ForkInv /\ SupCaused
    OBVIOUS
  <2> USE DEF SupervisionInit, StoreInit, SupInit
  <2>1. StoreTypeOK
    BY DEF StoreTypeOK, Metadata, Delivery, ExecutionState, DeliveryState
  <2>2. SupTypeOK
    BY DEF SupTypeOK, LockedPc, TryPc, UnguardedPc, CancelPc
  <2>3. SupPresence /\ CancelPresence
    BY DEF SupPresence, CancelPresence
  <2>4. ForkInv
    BY DEF ForkInv, OneHolder, Holds, At, RecordedIsRunning, LockedPc, TryPc, UnguardedPc
  <2>5. SupCaused
    BY DEF SupCaused, Caused
  <2>6. QED
    BY <2>1, <2>2, <2>3, <2>4, <2>5 DEF SupervisionTypes
<1>2. SupervisionTypes /\ ForkInv /\ SupCaused /\ [SupNext]_supervisionVars
        => (SupervisionTypes /\ ForkInv /\ SupCaused)'
  BY SupervisionTypesStep, SupNextForkInv, SupNextCauses DEF SupervisionTypes
<1>3. QED
  BY <1>1, <1>2, PTL DEF SupervisionSpec

(* The same as above of the supervisor on its own, the specification the   *)
(* supervision run checks.                                                 *)
THEOREM SupervisedCancellationsAreCaused == SupervisionSpec => []CancelledForCause
<1>1. SupCaused => CancelledForCause
  BY DEF SupCaused, Caused, CancelledForCause
<1>2. QED
  BY <1>1, SupervisionInvariants, PTL

(* A run forks its command in a job that is STARTING and has no recorded   *)
(* command: however many runs crash and are started again, only a command  *)
(* whose fork was never recorded is repeated.                              *)
THEOREM ForksAreRecordedOnce == SupervisionSpec => RecordedCommandIsNotRepeated
<1> DEFINE Forks == \A s \in Supervisors : child[s] = "unborn" /\ child'[s] # "unborn" =>
                      meta.state = "STARTING" /\ meta.process = None
<1>1. ASSUME SupervisionTypes, ForkInv, SupNext PROVE Forks
  <2>1. ASSUME NEW s \in Supervisors,
               RunStep(s)
        PROVE  Forks
    <3>1. CASE Popen(s)
      BY <1>1, <3>1 DEF Popen, ForkInv, UnrecordedYet
    <3>2. CASE ChildExit(s)
      BY <1>1, <3>2 DEF ChildExit, SupervisionTypes, SupTypeOK
    <3>3. CASE UNCHANGED child
      BY <3>3
    <3>4. QED
      BY <2>1, <3>1, <3>2, <3>3 DEF RunStep, SupStep, Lock, Preflight, FailRead, FailMeta,
        FailResult, FailDelivery, Starting, RecordRunning, Wait, Join, Decide, WriteResult,
        WriteMeta, WriteDelivery, Raise, GiveUp, HandleException, Lose, KillSupervisor, OutputCloses, supVars
  <2>2. ASSUME NEW c \in Cancels, CancelStep(c) PROVE Forks
    BY <2>2 DEF CancelStep, CancelRead, CancelRequest, CancelTerm, CancelGrace, CancelKill
  <2>3. QED
    BY <1>1, <2>1, <2>2 DEF SupNext
<1>2. SupervisionTypes /\ ForkInv /\ [SupNext]_supervisionVars => [Forks]_supervisionVars
  BY <1>1
<1>3. RecordedCommandIsNotRepeated <=> [][Forks]_supervisionVars
  BY DEF RecordedCommandIsNotRepeated
<1> HIDE DEF Forks
<1>4. QED
  BY <1>2, <1>3, SupervisionInvariants, PTL DEF SupervisionSpec

-----------------------------------------------------------------------------
(* A report of a failed preflight is written without a look at the result  *)
(* it replaces (_write_terminal_failure, supervisor.py:105); the result of *)
(* a command that ended is never written over another one.                 *)
IsOutcome(res) == res # None /\ res.exit # None

Begun == meta.state \notin {"SUBMITTED", "STARTING"}

LatePc == {"wait", "join", "decide", "write_result"}
ForkPc == {"popen", "record"} \cup LatePc

OutcomeInv ==
  /\ IsOutcome(result) => Begun
  /\ \A s \in Supervisors : Holds(s) =>
       /\ sup[s].pc \in ForkPc => ~IsOutcome(result)
       /\ sup[s].pc \in LatePc => Begun

OutcomeIsReplacedByReports ==
  [][IsOutcome(result) /\ result' # result =>
       \E s \in Supervisors : result' = FailureResult(s)]_supervisionVars

(* Where a step of a run comes from and what it does to both files.        *)
LEMMA SupervisorPlaces ==
  ASSUME SupervisionTypes, NEW s \in Supervisors,
         RunStep(s)
  PROVE  /\ sup'[s].pc \in ForkPc => UNCHANGED result /\ (sup[s].pc \in ForkPc \/ ~Begun)
         /\ sup'[s].pc \in LatePc => sup[s].pc \in LatePc \/ Begun'
         /\ Begun => Begun'
         /\ UNCHANGED result \/ result' = FailureResult(s) \/ sup[s].pc = "write_result"
         /\ UNCHANGED <<result, meta>> \/ Holds(s)
<1> USE DEF SupervisionTypes
<1>0. meta \in Metadata
  BY DEF StoreTypeOK
<1>1. CASE Starting(s)
  <2>1. Holds(s) /\ UNCHANGED result
    BY <1>1 DEF Starting, At, Holds, LockedPc, TryPc, UnguardedPc
  <2>2. CASE CanExecute("STARTING")
    <3>1. ~Begun
      BY <1>0, <2>2 DEF CanExecute, ExecutionTransitions, ExecutionState, TerminalState,
        Metadata, Begun
    <3>2. sup'[s].pc = "popen"
      BY <1>1, <2>2, GotoMoves DEF Starting
    <3>3. QED
      BY <2>1, <3>1, <3>2 DEF LatePc
  <2>3. CASE ~CanExecute("STARTING")
    <3>1. UNCHANGED meta /\ sup'[s].pc = "exception"
      BY <1>1, <2>3, GotoMoves DEF Starting
    <3>2. QED
      BY <2>1, <3>1 DEF ForkPc, LatePc, Begun
  <2>4. QED
    BY <2>2, <2>3
<1>2. CASE RecordRunning(s)
  <2>1. Holds(s) /\ sup[s].pc = "record" /\ UNCHANGED result
    BY <1>2 DEF RecordRunning, At, Holds, LockedPc, TryPc, UnguardedPc
  <2>2. \/ sup'[s].pc = "wait" /\ meta'.state = "RUNNING"
        \/ sup'[s].pc = "exception" /\ UNCHANGED meta
    BY <1>0, <1>2, GotoMoves DEF RecordRunning, Metadata
  <2>3. QED
    BY <2>1, <2>2 DEF ForkPc, LatePc, Begun
<1>3. CASE FailMeta(s) \/ Lose(s) \/ WriteMeta(s)
  <2>1. Holds(s) /\ UNCHANGED result
    BY <1>3 DEF FailMeta, Lose, WriteMeta, At, Holds, LockedPc, TryPc, UnguardedPc
  <2>2. sup'[s].pc \in {"fail_result", "exited", "exception", "write_delivery"}
    BY <1>3, GotoMoves DEF FailMeta, Lose, WriteMeta
  <2>3. UNCHANGED meta \/ meta'.state \in TerminalState
    <3>1. CASE FailMeta(s) \/ Lose(s)
      BY <1>0, <3>1 DEF FailMeta, Lose, Metadata, TerminalState
    <3>2. CASE WriteMeta(s)
      <4>1. sup[s].result \in Result
        BY <3>2 DEF WriteMeta, At, SupPresence, SupTypeOK
      <4>2. QED
        BY <1>0, <3>2, <4>1 DEF WriteMeta, Metadata, Result
    <3>3. QED
      BY <1>3, <3>1, <3>2
  <2>4. QED
    BY <2>1, <2>2, <2>3 DEF ForkPc, LatePc, Begun, TerminalState
<1>4. CASE FailResult(s) \/ WriteResult(s)
  <2>1. Holds(s) /\ UNCHANGED meta /\ sup'[s].pc \in {"fail_delivery", "write_meta"}
    BY <1>4, GotoMoves DEF FailResult, WriteResult, At, Holds, LockedPc, TryPc, UnguardedPc
  <2>2. result' = FailureResult(s) \/ sup[s].pc = "write_result"
    BY <1>4 DEF FailResult, WriteResult, At
  <2>3. QED
    BY <2>1, <2>2 DEF ForkPc, LatePc, Begun
<1>5. CASE Wait(s) \/ Join(s) \/ Decide(s) \/ Popen(s)
  <2>1. UNCHANGED <<result, meta>>
    BY <1>5 DEF Wait, Join, Decide, Popen, storeVars
  <2>2. /\ sup[s].pc \in ForkPc
        /\ sup'[s].pc \in LatePc => sup[s].pc \in LatePc
    <3>1. CASE Wait(s)
      BY <3>1 DEF Wait, At, ForkPc, LatePc
    <3>2. CASE Decide(s)
      BY <3>2 DEF Decide, At, ForkPc, LatePc
    <3>3. CASE Popen(s)
      BY <3>3, GotoMoves DEF Popen, At, ForkPc, LatePc
    <3>4. CASE Join(s)
      BY <3>4, GotoMoves DEF Join, At, ForkPc, LatePc
    <3>5. QED
      BY <1>5, <3>1, <3>2, <3>3, <3>4
  <2>3. QED
    BY <2>1, <2>2 DEF Begun
<1>6. CASE \/ Lock(s) \/ Preflight(s) \/ FailRead(s) \/ FailDelivery(s)
           \/ WriteDelivery(s) \/ Raise(s) \/ GiveUp(s) \/ HandleException(s)
  <2>1. UNCHANGED <<result, meta>>
    BY <1>6 DEF Lock, Preflight, FailRead, FailDelivery, WriteDelivery, Raise, GiveUp,
      HandleException, storeVars
  <2>2. sup'[s].pc \notin ForkPc /\ sup'[s].pc \notin LatePc
    BY <1>6, GotoMoves DEF Lock, Preflight, FailRead, FailDelivery, WriteDelivery, Raise, GiveUp,
      HandleException, ForkPc, LatePc
  <2>3. QED
    BY <2>1, <2>2 DEF Begun
<1>7. CASE KillSupervisor(s) \/ ChildExit(s) \/ OutputCloses(s)
  BY <1>7 DEF KillSupervisor, ChildExit, OutputCloses, storeVars, supVars, Begun
<1>8. QED
  BY <1>1, <1>2, <1>3, <1>4, <1>5, <1>6, <1>7 DEF RunStep, SupStep

LEMMA SupervisorOutcomes ==
  ASSUME SupervisionTypes, ForkInv, OutcomeInv, NEW s \in Supervisors,
         RunStep(s)
  PROVE  /\ OutcomeInv'
         /\ IsOutcome(result) => UNCHANGED result \/ result' = FailureResult(s)
<1> DEFINE Places ==
      /\ sup'[s].pc \in ForkPc => UNCHANGED result /\ (sup[s].pc \in ForkPc \/ ~Begun)
      /\ sup'[s].pc \in LatePc => sup[s].pc \in LatePc \/ Begun'
      /\ Begun => Begun'
      /\ UNCHANGED result \/ result' = FailureResult(s) \/ sup[s].pc = "write_result"
      /\ UNCHANGED <<result, meta>> \/ Holds(s)
<1>1. Places
  BY SupervisorPlaces
<1>2. /\ \A t \in Supervisors \ {s} : sup'[t] = sup[t] /\ (Holds(t)' => Holds(t))
      /\ Lock(s) \/ (Holds(s)' => Holds(s))
  BY LockIsTaken DEF SupervisionTypes, Holds
<1>3. Holds(s) /\ sup[s].pc = "write_result" => Begun /\ ~IsOutcome(result)
  BY DEF OutcomeInv, ForkPc, LatePc
<1>4. ~IsOutcome(FailureResult(s))
  BY DEF IsOutcome, FailureResult
<1>5. IsOutcome(result)' => Begun'
  BY <1>1, <1>3, <1>4 DEF OutcomeInv, IsOutcome
<1>6. ASSUME NEW t \in Supervisors, Holds(t)'
      PROVE  /\ sup'[t].pc \in ForkPc => ~IsOutcome(result)'
             /\ sup'[t].pc \in LatePc => Begun'
  <2>1. CASE t # s
    <3>1. Holds(t) /\ sup'[t] = sup[t]
      BY <1>2, <1>6, <2>1
    <3>2. UNCHANGED <<result, meta>>
      BY <1>1, <2>1, <3>1 DEF ForkInv, OneHolder
    <3>3. QED
      BY <3>1, <3>2 DEF OutcomeInv, IsOutcome, Begun
  <2>2. CASE t = s /\ Lock(s)
    BY <2>2, GotoMoves DEF Lock, SupervisionTypes, ForkPc, LatePc
  <2>3. CASE t = s /\ ~Lock(s)
    <3>1. Holds(s)
      BY <1>2, <1>6, <2>3
    <3>2. sup'[s].pc \in ForkPc => UNCHANGED result /\ ~IsOutcome(result)
      BY <1>1, <3>1 DEF OutcomeInv
    <3>3. sup'[s].pc \in LatePc => Begun'
      BY <1>1, <3>1 DEF OutcomeInv
    <3>4. QED
      BY <2>3, <3>2, <3>3 DEF IsOutcome
  <2>4. QED
    BY <2>1, <2>2, <2>3
<1>7. OutcomeInv'
  BY <1>5, <1>6 DEF OutcomeInv
<1>8. QED
  BY <1>1, <1>3, <1>7

LEMMA SupNextOutcomes ==
  ASSUME SupervisionTypes, ForkInv, OutcomeInv, [SupNext]_supervisionVars
  PROVE  /\ OutcomeInv'
         /\ IsOutcome(result) /\ result' # result =>
              \E s \in Supervisors : result' = FailureResult(s)
<1>1. ASSUME UNCHANGED <<result, sup, dead>>, meta'.state = meta.state
      PROVE  OutcomeInv'
  BY <1>1 DEF OutcomeInv, IsOutcome, Begun, Holds
<1>2. ASSUME NEW c \in Cancels, CancelStep(c)
      PROVE  UNCHANGED <<result, sup, dead>> /\ meta'.state = meta.state
  BY <1>2 DEF CancelStep, CancelRead, CancelRequest, CancelTerm, CancelGrace,
    CancelKill, storeVars, SupervisionTypes, StoreTypeOK, Metadata
<1>3. CASE UNCHANGED supervisionVars
  BY <1>1, <1>3 DEF supervisionVars, supVars, storeVars
<1>4. QED
  BY <1>1, <1>2, <1>3, SupervisorOutcomes DEF SupNext

(* What a command's end left in result.json only a rerun whose preflight   *)
(* fails can replace, however many runs crash and are started again: no    *)
(* second outcome, of another fork, ever stands in its place.              *)
THEOREM OutcomesYieldToReports == SupervisionSpec => OutcomeIsReplacedByReports
<1> DEFINE Replaced == IsOutcome(result) /\ result' # result =>
                         \E s \in Supervisors : result' = FailureResult(s)
           Inv == SupervisionTypes /\ ForkInv /\ SupCaused
<1>1. SupervisionInit => OutcomeInv
  BY DEF SupervisionInit, StoreInit, SupInit, OutcomeInv, IsOutcome, Holds, LockedPc, TryPc, UnguardedPc
<1>2. Inv /\ OutcomeInv /\ [SupNext]_supervisionVars => OutcomeInv'
  BY SupNextOutcomes
<1>3. Inv /\ OutcomeInv /\ [SupNext]_supervisionVars => [Replaced]_supervisionVars
  BY SupNextOutcomes
<1>4. OutcomeIsReplacedByReports <=> [][Replaced]_supervisionVars
  BY DEF OutcomeIsReplacedByReports
<1>5. SupervisionSpec => []Inv
  BY SupervisionInvariants
<1> HIDE DEF Replaced, Inv
<1>6. QED
  BY <1>1, <1>2, <1>3, <1>4, <1>5, PTL DEF SupervisionSpec

-----------------------------------------------------------------------------
(* The files under the operator's discipline: who is under way, what each  *)
(* place of a run says of the files, and that all announce one event.      *)
Started == \E r \in Recoveries : rec[r].pc # "idle"

TurnsInv ==
  /\ OneHolder
  /\ Started => ~SupUnderWay
  /\ \A r, q \in Recoveries : RecoveryUnderWay(r) /\ RecoveryUnderWay(q) => r = q
  /\ RecUnderWay => ~DlvUnderWay

(* The places of a supervisor's run before it has written a result, and    *)
(* those between its result and its announcement.                          *)
BeforeResult == {"preflight", "fail_read", "fail_meta", "fail_result", "starting",
                 "popen", "record", "wait", "join", "decide", "write_result"}
AfterResult == {"fail_delivery", "write_meta", "write_delivery"}

SupFiles ==
  \A s \in Supervisors :
    /\ sup[s].result # None => sup[s].result.event = s
    /\ Holds(s) /\ sup[s].pc \in BeforeResult => result = None
    /\ Holds(s) /\ sup[s].pc \in AfterResult =>
         result # None /\ result.event = s /\ delivery.state = "NOT_READY"

MetaAgrees(content) ==
  meta.state = content.state /\ meta.result_state = content.result_state

(* What a recovery has read is still so when it writes.                    *)
RecHasRead(r) ==
  /\ rec[r].pc = "result" => MetaAgrees(rec[r].meta)
  /\ rec[r].pc \in {"probe", "loss_result"} => result = None
  /\ rec[r].pc = "loss_result" => rec[r].result.event = r
  /\ rec[r].pc \in {"loss_meta", "loss_delivery"} =>
       result = rec[r].result /\ result.event = r /\ delivery.state = "NOT_READY"
  /\ rec[r].pc \in {"reconcile", "repair_read", "repair_payload", "repair_write"} =>
       result = rec[r].result
  /\ rec[r].pc \in {"loss_delivery", "repair_read", "repair_payload", "repair_write"} =>
       MetaAgrees(result)
  /\ rec[r].pc = "repair_payload" =>
       rec[r].delivery.event = result.event /\ rec[r].delivery.state = delivery.state
  /\ rec[r].pc = "repair_write" =>
       /\ rec[r].delivery.event = result.event
       /\ rec[r].delivery.state = RepairedState(delivery.state, payload = result.event)

RecFiles == \A r \in Recoveries : RecoveryUnderWay(r) => RecHasRead(r)

(* Whatever names an event names that of the result.                       *)
EventFiles ==
  /\ delivery.state # "NOT_READY" => delivery.event = result.event
  /\ payload # None => payload = result.event
  /\ \A d \in Deliveries :
       /\ dlv[d].event # None => result # None /\ dlv[d].event = result.event
       /\ dlv[d].pc \in {"send", "sent", "failed"} => payload # None

FilesInv == TurnsInv /\ SupFiles /\ RecFiles /\ EventFiles /\ UnconfirmedIsPublished

JobInv == TypeInv /\ AnnounceInv /\ FilesInv

(* A step that changes no file but a flag of metadata, and moves nobody.   *)
LEMMA FilesFrame ==
  ASSUME FilesInv, UNCHANGED <<result, delivery, payload, sup, rec, dlvVars>>,
         meta'.state = meta.state, meta'.result_state = meta.result_state,
         dead \subseteq dead'
  PROVE  FilesInv'
<1>1. \A s \in Supervisors : Holds(s)' => Holds(s)
  BY DEF Holds
<1>2. \A r \in Recoveries : RecoveryUnderWay(r)' => RecoveryUnderWay(r)
  BY DEF RecoveryUnderWay
<1>3. TurnsInv'
  <2>1. OneHolder' /\ (Started' => ~SupUnderWay')
    BY <1>1 DEF FilesInv, TurnsInv, OneHolder, Started, SupUnderWay
  <2>2. \A r, q \in Recoveries : RecoveryUnderWay(r)' /\ RecoveryUnderWay(q)' => r = q
    BY <1>2 DEF FilesInv, TurnsInv
  <2>3. (RecUnderWay' => RecUnderWay) /\ (DlvUnderWay' => DlvUnderWay)
    BY <1>2 DEF RecUnderWay, DlvUnderWay, InFlight, dlvVars
  <2>4. QED
    BY <2>1, <2>2, <2>3 DEF FilesInv, TurnsInv
<1>4. SupFiles'
  BY <1>1 DEF FilesInv, SupFiles
<1>5. RecFiles'
  BY <1>2 DEF FilesInv, RecFiles, RecHasRead, MetaAgrees
<1>6. EventFiles' /\ UnconfirmedIsPublished'
  BY DEF FilesInv, EventFiles, UnconfirmedIsPublished, dlvVars
<1>7. QED
  BY <1>3, <1>4, <1>5, <1>6 DEF FilesInv

-----------------------------------------------------------------------------
(* What a supervisor's step does to the files: it writes its result, it    *)
(* announces it, or it leaves them and stays on its side of the result.    *)
WritesResult(s) ==
  /\ sup[s].pc \in BeforeResult /\ sup'[s].pc \in AfterResult
  /\ result' # None /\ result'.event = s
  /\ UNCHANGED <<delivery, payload>>

Announces(s) ==
  /\ sup[s].pc \in AfterResult /\ sup'[s].pc = "exited"
  /\ delivery' = [state |-> "PENDING", event |-> s]
  /\ UNCHANGED <<result, payload>>

GoesOn(s) ==
  /\ UNCHANGED <<result, delivery, payload>>
  /\ sup'[s].pc \in BeforeResult => sup[s].pc \in BeforeResult \cup {"idle"}
  /\ sup'[s].pc \in AfterResult => sup[s].pc \in AfterResult

LEMMA StepHolds ==
  ASSUME NEW s \in Supervisors, SupStep(s) \/ Raise(s) \/ GiveUp(s) \/ KillSupervisor(s)
  PROVE  Holds(s)
BY DEF RunStep, SupStep, Preflight, FailRead, FailMeta, FailResult, FailDelivery, Starting, Popen,
  RecordRunning, Wait, Join, Decide, WriteResult, WriteMeta, WriteDelivery, Raise, GiveUp,
  HandleException, Lose, KillSupervisor, At, Holds, LockedPc, TryPc, UnguardedPc

LEMMA SupervisorFiles ==
  ASSUME SupTypeOK, SupPresence, SupFiles, NEW s \in Supervisors, SupStep(s) \/ Raise(s) \/ GiveUp(s)
  PROVE  /\ WritesResult(s) \/ Announces(s) \/ GoesOn(s)
         /\ \A t \in Supervisors :
              sup'[t].result = sup[t].result \/ (t = s /\ sup'[s].result.event = s)
         /\ UNCHANGED dead
<1>0. UNCHANGED dead
  BY DEF RunStep, SupStep, Preflight, FailRead, FailMeta, FailResult, FailDelivery, Starting, Popen,
    RecordRunning, Wait, Join, Decide, WriteResult, WriteMeta, WriteDelivery, Raise, GiveUp,
    HandleException, Lose, storeVars
<1> USE DEF BeforeResult, AfterResult
<1>1. CASE FailResult(s)
  <2>1. /\ sup[s].pc = "fail_result" /\ sup'[s].pc = "fail_delivery"
        /\ \A t \in Supervisors : sup'[t].result = sup[t].result
    BY <1>1, GotoMoves DEF FailResult, At
  <2>2. result' = FailureResult(s) /\ UNCHANGED <<delivery, payload>>
    BY <1>1 DEF FailResult
  <2>3. FailureResult(s) \in Result /\ FailureResult(s).event = s
    BY DEF FailureResult, Result, TerminalState, ResultState, Event
  <2>4. result' # None /\ result'.event = s
    BY <2>2, <2>3, NoneIsNoContent
  <2>5. QED
    BY <1>0, <2>1, <2>2, <2>4 DEF WritesResult
<1>2. CASE WriteResult(s)
  <2>1. /\ sup[s].pc = "write_result" /\ sup'[s].pc = "write_meta"
        /\ \A t \in Supervisors : sup'[t].result = sup[t].result
    BY <1>2, GotoMoves DEF WriteResult, At
  <2>2. result' = sup[s].result /\ UNCHANGED <<delivery, payload>>
    BY <1>2 DEF WriteResult
  <2>3. sup[s].result # None /\ sup[s].result.event = s
    BY <2>1 DEF SupPresence, SupFiles
  <2>4. QED
    BY <1>0, <2>1, <2>2, <2>3 DEF WritesResult
<1>3. CASE FailDelivery(s) \/ WriteDelivery(s)
  <2>1. /\ sup[s].pc \in {"fail_delivery", "write_delivery"} /\ sup'[s].pc = "exited"
        /\ \A t \in Supervisors : sup'[t].result = sup[t].result
    BY <1>3, GotoMoves DEF FailDelivery, WriteDelivery, At
  <2>2. QED
    BY <1>0, <1>3, <2>1 DEF FailDelivery, WriteDelivery, AnnounceResult, Announces
<1>4. CASE Wait(s)
  <2>1. /\ sup[s].pc = "wait" /\ sup'[s].pc = "join"
        /\ \A t \in Supervisors : sup'[t].result = sup[t].result
    BY <1>4 DEF Wait, At, SupTypeOK
  <2>2. QED
    BY <1>0, <1>4, <2>1 DEF Wait, storeVars, GoesOn
<1>5. CASE Decide(s)
  <2>1. /\ sup[s].pc = "decide" /\ sup'[s].pc = "write_result" /\ sup'[s].result.event = s
        /\ \A t \in Supervisors \ {s} : sup'[t].result = sup[t].result
    BY <1>5 DEF Decide, At, SupTypeOK
  <2>2. QED
    BY <1>0, <1>5, <2>1 DEF Decide, storeVars, GoesOn
<1>6. ASSUME NEW pc, Goto(s, pc), UNCHANGED <<result, delivery, payload>>,
             pc \in BeforeResult => sup[s].pc \in BeforeResult,
             pc \in AfterResult => sup[s].pc \in AfterResult
      PROVE  GoesOn(s) /\ \A t \in Supervisors : sup'[t].result = sup[t].result
  BY <1>6, GotoMoves DEF GoesOn
<1>7. CASE FailRead(s) \/ FailMeta(s)
  <2>1. sup[s].pc \in {"fail_read", "fail_meta"} /\ UNCHANGED <<result, delivery, payload>>
    BY <1>7 DEF FailRead, FailMeta, At, storeVars
  <2>2. PICK pc \in {"fail_meta", "fail_result", "exception"} : Goto(s, pc)
    BY <1>7 DEF FailRead, FailMeta
  <2>3. QED
    BY <1>0, <1>6, <2>1, <2>2
<1>8. CASE Preflight(s) \/ Starting(s) \/ Popen(s) \/ RecordRunning(s) \/ Join(s)
  <2>1. /\ sup[s].pc \in {"preflight", "starting", "popen", "record", "join"}
        /\ UNCHANGED <<result, delivery, payload>>
    BY <1>8 DEF Preflight, Starting, Popen, RecordRunning, Join, At, storeVars
  <2>2. PICK pc \in {"fail_read", "starting", "popen", "record", "wait", "decide", "exception"} :
          Goto(s, pc)
    BY <1>8 DEF Preflight, Starting, Popen, RecordRunning, Join
  <2>3. QED
    BY <1>0, <1>6, <2>1, <2>2
<1>9. CASE WriteMeta(s)
  <2>1. sup[s].pc = "write_meta" /\ UNCHANGED <<result, delivery, payload>>
    BY <1>9 DEF WriteMeta, At
  <2>2. PICK pc \in {"write_delivery", "exception"} : Goto(s, pc)
    BY <1>9 DEF WriteMeta
  <2>3. QED
    BY <1>0, <1>6, <2>1, <2>2
<1>10. CASE Raise(s) \/ GiveUp(s) \/ HandleException(s) \/ Lose(s)
  <2>1. UNCHANGED <<result, delivery, payload>>
    BY <1>10 DEF Raise, GiveUp, HandleException, Lose, storeVars
  <2>2. PICK pc \in {"exception", "lose", "exited", "unrecorded"} : Goto(s, pc)
    BY <1>10 DEF Raise, GiveUp, HandleException, Lose
  <2>3. QED
    BY <1>0, <1>6, <2>1, <2>2
<1>11. QED
  BY <1>1, <1>2, <1>3, <1>4, <1>5, <1>7, <1>8, <1>9, <1>10 DEF RunStep, SupStep

(* No recovery has begun: a step of a supervisor, which then is the one    *)
(* that holds the lock, or takes it while there is no result.              *)
LEMMA NothingRecovers ==
  ASSUME ~Started, UNCHANGED rec
  PROVE  RecFiles' /\ ~Started' /\ ~RecUnderWay'
         /\ \A r \in Recoveries : ~RecoveryUnderWay(r)'
BY DEF Started, RecFiles, RecoveryUnderWay, RecUnderWay

LEMMA NoResultNoEvents ==
  ASSUME JobInv, result = None
  PROVE  /\ delivery.state = "NOT_READY" /\ payload = None
         /\ \A d \in Deliveries : dlv[d].event = None
BY DEF JobInv, AnnounceInv, AnnouncedHasResult, FilesInv, EventFiles

LEMMA SupervisorStepFiles ==
  ASSUME JobInv, ~Started, NEW s \in Supervisors, SupStep(s) \/ Raise(s) \/ GiveUp(s),
         UNCHANGED <<rec, dlvVars>>
  PROVE  FilesInv'
<1> USE DEF JobInv, TypeInv, TypeOK, Presence, FilesInv
<1>0. /\ Holds(s) /\ UNCHANGED dead
      /\ WritesResult(s) \/ Announces(s) \/ GoesOn(s)
      /\ \A t \in Supervisors :
           sup'[t].result = sup[t].result \/ (t = s /\ sup'[s].result.event = s)
  BY StepHolds, SupervisorFiles
<1>1. \A t \in Supervisors \ {s} : sup'[t] = sup[t] /\ ~Holds(t)'
  <2>1. \A t \in Supervisors \ {s} : sup'[t] = sup[t] /\ ~Holds(t)
    BY <1>0, LockIsTaken DEF TurnsInv, OneHolder, RunStep
  <2>2. QED
    BY <1>0, <2>1 DEF Holds
<1>2. TurnsInv'
  BY <1>1, NothingRecovers DEF TurnsInv, OneHolder
<1>3. \A t \in Supervisors : sup'[t].result # None => sup'[t].result.event = t
  BY <1>0 DEF SupFiles
<1>4. CASE WritesResult(s)
  <2>1. result = None
    BY <1>0, <1>4 DEF WritesResult, SupFiles
  <2>2. /\ delivery.state = "NOT_READY" /\ payload = None
        /\ \A d \in Deliveries : dlv[d].event = None
    BY <2>1, NoResultNoEvents
  <2>3. SupFiles'
    BY <1>1, <1>3, <1>4, <2>2 DEF WritesResult, SupFiles, BeforeResult, AfterResult
  <2>4. EventFiles' /\ UnconfirmedIsPublished'
    <3>1. UNCHANGED <<delivery, payload, dlv>>
      BY <1>4 DEF WritesResult, dlvVars
    <3>2. QED
      BY <2>2, <3>1 DEF EventFiles, UnconfirmedIsPublished
  <2>5. QED
    BY <1>2, <2>3, <2>4, NothingRecovers
<1>5. CASE Announces(s)
  <2>1. result.event = s /\ result # None
    BY <1>0, <1>5 DEF Announces, SupFiles
  <2>2. SupFiles'
    BY <1>1, <1>3, <1>5 DEF Announces, SupFiles, BeforeResult, AfterResult
  <2>3. EventFiles' /\ UnconfirmedIsPublished'
    <3>1. UNCHANGED <<result, payload, dlv>> /\ delivery' = [state |-> "PENDING", event |-> s]
      BY <1>5 DEF Announces, dlvVars
    <3>2. QED
      BY <2>1, <3>1 DEF EventFiles, UnconfirmedIsPublished
  <2>4. QED
    BY <1>2, <2>2, <2>3, NothingRecovers
<1>6. CASE GoesOn(s)
  <2>1. UNCHANGED <<result, delivery, payload, dlv>>
    BY <1>6 DEF GoesOn, dlvVars
  <2>2. sup[s].pc # "idle"
    BY <1>0 DEF Holds, LockedPc, TryPc, UnguardedPc
  <2>3. SupFiles'
    BY <1>0, <1>1, <1>3, <1>6, <2>1, <2>2 DEF GoesOn, SupFiles
  <2>4. EventFiles' /\ UnconfirmedIsPublished'
    BY <2>1 DEF EventFiles, UnconfirmedIsPublished
  <2>5. QED
    BY <1>2, <2>3, <2>4, NothingRecovers
<1>7. QED
  BY <1>0, <1>4, <1>5, <1>6

LEMMA LockFiles ==
  ASSUME JobInv, ~Started, NEW s \in Supervisors, Lock(s), result = None,
         UNCHANGED <<rec, dlvVars>>
  PROVE  FilesInv'
<1> USE DEF JobInv, TypeInv, TypeOK, FilesInv
<1>1. /\ UNCHANGED <<result, delivery, payload, dead, dlv>>
      /\ sup'[s].pc \in {"preflight", "exited"}
      /\ \A t \in Supervisors : sup'[t].result = sup[t].result
      /\ \A t \in Supervisors \ {s} : sup'[t] = sup[t]
  BY GotoMoves DEF Lock, storeVars, dlvVars, Goto, SupTypeOK
<1>2. OneHolder'
  BY SupervisorHolders DEF TurnsInv, RunStep
<1>3. TurnsInv'
  BY <1>2, NothingRecovers DEF TurnsInv
<1>4. SupFiles'
  <2>1. \A t \in Supervisors \ {s} : Holds(t)' => Holds(t)
    BY <1>1 DEF Holds
  <2>2. QED
    BY <1>1, <2>1 DEF SupFiles, BeforeResult, AfterResult
<1>5. EventFiles' /\ UnconfirmedIsPublished'
  BY <1>1 DEF EventFiles, UnconfirmedIsPublished
<1>6. QED
  BY <1>3, <1>4, <1>5, NothingRecovers

(* Supervisors, their commands and cancellations, under the discipline:    *)
(* once a recovery has begun, none of them touches the files.              *)
LEMMA SupNextFiles ==
  ASSUME JobInv, SupNext, UNCHANGED <<rec, dlvVars>>, Disciplined
  PROVE  FilesInv'
<1> USE DEF JobInv, TypeInv, TypeOK, FilesInv
<1>1. ASSUME NEW s \in Supervisors, KillSupervisor(s) \/ ChildExit(s) \/ OutputCloses(s) PROVE FilesInv'
  <2>1. UNCHANGED <<meta, result, delivery, payload, sup>> /\ dead \subseteq dead'
    BY <1>1 DEF KillSupervisor, ChildExit, OutputCloses, storeVars, supVars
  <2>2. QED
    BY <2>1, FilesFrame
<1>2. ASSUME NEW c \in Cancels, CancelStep(c) PROVE FilesInv'
  <2>1. UNCHANGED <<result, delivery, payload, dead, sup>>
    BY <1>2 DEF CancelStep, CancelRead, CancelRequest, CancelTerm, CancelGrace,
      CancelKill, storeVars
  <2>2. meta'.state = meta.state /\ meta'.result_state = meta.result_state
    BY <1>2 DEF CancelStep, CancelRead, CancelRequest, CancelTerm, CancelGrace,
      CancelKill, storeVars, StoreTypeOK, Metadata
  <2>3. QED
    BY <2>1, <2>2, FilesFrame
<1>3. ASSUME NEW s \in Supervisors, SupStep(s) \/ Raise(s) \/ GiveUp(s) PROVE FilesInv'
  <2>1. ~Started
    BY <1>3, StepHolds DEF TurnsInv, SupUnderWay
  <2>2. QED
    BY <1>3, <2>1, SupervisorStepFiles
<1>4. ASSUME NEW s \in Supervisors, Lock(s) PROVE FilesInv'
  <2>1. sup[s].pc = "idle" /\ sup'[s].pc # "idle"
    <3>1. Goto(s, "exited") \/ Goto(s, "preflight")
      BY <1>4 DEF Lock
    <3>2. QED
      BY <1>4, <3>1, GotoMoves DEF Lock, At
  <2>2. result = None /\ ~Started
    BY <2>1 DEF Disciplined, Started
  <2>3. QED
    BY <1>4, <2>2, LockFiles
<1>5. QED
  BY <1>1, <1>2, <1>3, <1>4 DEF SupNext, RunStep

-----------------------------------------------------------------------------
(* Deliveries, acknowledgements and retries.                               *)

(* How they may change delivery.json: not once it is ACKED, not before it  *)
(* is announced, and to "sent" only when the payload file was written.     *)
Updates ==
  \/ UNCHANGED delivery
  \/ /\ delivery.state \notin {"NOT_READY", "ACKED"} /\ delivery'.state # "NOT_READY"
     /\ delivery'.event = delivery.event
     /\ delivery'.state \in {"SENT_UNCONFIRMED", "ACKED"} => payload # None

LEMMA TableUpdates ==
  ASSUME TypeInv, NEW target \in DeliveryState \ {"NOT_READY"}, UpdateDelivery(target),
         target = "PENDING" => delivery.state # "NOT_READY",
         target \in {"SENT_UNCONFIRMED", "ACKED"} => payload # None
  PROVE  Updates
<1>1. delivery \in Delivery
  BY DEF TypeInv, TypeOK, StoreTypeOK
<1>2. delivery' = [delivery EXCEPT !.state = target]
  BY DEF UpdateDelivery
<1>3. CASE target = delivery.state
  BY <1>1, <1>2, <1>3 DEF Updates, Delivery
<1>4. CASE target # delivery.state
  <2>1. target \in DeliveryTransitions[delivery.state]
    BY <1>4 DEF UpdateDelivery, CanDeliver
  <2>2. delivery.state \notin {"NOT_READY", "ACKED"}
    BY <1>1, <2>1 DEF DeliveryTransitions, DeliveryState, Delivery
  <2>3. delivery'.state = target /\ delivery'.event = delivery.event
    BY <1>1, <1>2 DEF Delivery
  <2>4. QED
    BY <2>2, <2>3 DEF Updates
<1>5. QED
  BY <1>3, <1>4

(* The step of one run d, or of none.                                      *)
RunFiles(d) ==
  /\ \A o \in Deliveries \ {d} : dlv'[o] = dlv[o]
  /\ dlv'[d].event # None =>
       dlv'[d].event = dlv[d].event \/ (result # None /\ dlv'[d].event = result.event)
  /\ dlv'[d].pc \in {"send", "sent", "failed"} => payload' # None
  /\ UNCHANGED payload \/ (payload' # None /\ payload' = dlv[d].event)

LEMMA GoesTo ==
  ASSUME DlvTypeOK, NEW d \in Deliveries, NEW pc, DlvGoto(d, pc)
  PROVE  /\ dlv'[d].pc = pc /\ dlv'[d].event = dlv[d].event
         /\ \A o \in Deliveries \ {d} : dlv'[o] = dlv[o]
BY DEF DlvTypeOK, DlvGoto

LEMMA DeliveryRunFiles ==
  ASSUME JobInv, NEW d \in Deliveries, DeliverCheck(d) \/ DlvContinue(d) \/ StopDelivery(d)
  PROVE  Updates /\ RunFiles(d) /\ UNCHANGED <<meta, result, dead>>
<1> USE DEF JobInv, TypeInv, TypeOK, Presence, FilesInv
<1>0. UNCHANGED <<meta, result, dead>>
  BY DEF DlvContinue, DeliverCheck, Claim, StartSending, ReadEvent, WritePayload, CliResume,
    RecordSent, RecordFailed, StopDelivery, storeVars
<1>1. ASSUME NEW pc, DlvGoto(d, pc), UNCHANGED payload,
             pc \in {"send", "sent", "failed"} => dlv[d].pc \in {"send", "sent", "failed"}
      PROVE  RunFiles(d)
  BY <1>1, GoesTo DEF RunFiles, EventFiles
<1>2. CASE DeliverCheck(d)
  BY <1>0, <1>2 DEF DeliverCheck, Updates, RunFiles, DlvTypeOK, storeVars
<1>3. CASE Claim(d)
  <2>1. (\E pc \in {"sending", "error"} : DlvGoto(d, pc)) /\ UNCHANGED payload
    BY <1>3 DEF Claim
  <2>2. UNCHANGED delivery \/ UpdateDelivery("CLAIMED")
    BY <1>3 DEF Claim, UpdateDelivery, CanDeliver
  <2>3. Updates
    BY <2>2, TableUpdates DEF DeliveryState, Updates
  <2>4. QED
    BY <1>0, <1>1, <2>1, <2>3
<1>4. CASE StartSending(d)
  <2>1. (\E pc \in {"read", "error"} : DlvGoto(d, pc)) /\ UNCHANGED payload
    BY <1>4 DEF StartSending, UpdateOrFail
  <2>2. UNCHANGED delivery \/ UpdateDelivery("SENDING")
    BY <1>4 DEF StartSending, UpdateOrFail
  <2>3. Updates
    BY <2>2, TableUpdates DEF DeliveryState, Updates
  <2>4. QED
    BY <1>0, <1>1, <2>1, <2>3
<1>5. CASE ReadEvent(d)
  <2>1. result # None
    BY <1>5 DEF ReadEvent, DlvAt, DlvPresence
  <2>2. QED
    BY <1>0, <1>5, <2>1 DEF ReadEvent, Updates, RunFiles, DlvTypeOK, storeVars
<1>6. CASE WritePayload(d)
  <2>1. dlv[d].event # None
    BY <1>6 DEF WritePayload, DlvAt, DlvPresence
  <2>2. PICK pc \in {"send", "sent"} : DlvGoto(d, pc)
    BY <1>6 DEF WritePayload
  <2>3. payload' = dlv[d].event /\ UNCHANGED delivery
    BY <1>6 DEF WritePayload
  <2>4. QED
    BY <1>0, <2>1, <2>2, <2>3, GoesTo DEF Updates, RunFiles
<1>7. CASE CliResume(d)
  <2>1. (\E pc \in {"sent", "failed"} : DlvGoto(d, pc)) /\ UNCHANGED <<delivery, payload>>
    BY <1>7 DEF CliResume, storeVars
  <2>2. dlv[d].pc = "send"
    BY <1>7 DEF CliResume, DlvAt
  <2>3. QED
    BY <1>0, <1>1, <2>1, <2>2 DEF Updates
<1>8. CASE RecordSent(d)
  <2>1. (\E pc \in {"done", "error"} : DlvGoto(d, pc)) /\ UNCHANGED payload
    BY <1>8 DEF RecordSent, UpdateOrFail
  <2>2. UNCHANGED delivery \/ UpdateDelivery("SENT_UNCONFIRMED")
    BY <1>8 DEF RecordSent, UpdateOrFail
  <2>3. payload # None
    BY <1>8 DEF RecordSent, DlvAt, EventFiles
  <2>4. Updates
    BY <2>2, <2>3, TableUpdates DEF DeliveryState, Updates
  <2>5. QED
    BY <1>0, <1>1, <2>1, <2>4
<1>9. CASE RecordFailed(d)
  <2>1. (\E pc \in {"done", "error"} : DlvGoto(d, pc)) /\ UNCHANGED payload
    BY <1>9 DEF RecordFailed, UpdateOrFail
  <2>2. UNCHANGED delivery \/ UpdateDelivery("RETRY_WAIT")
    BY <1>9 DEF RecordFailed, UpdateOrFail
  <2>3. Updates
    BY <2>2, TableUpdates DEF DeliveryState, Updates
  <2>4. QED
    BY <1>0, <1>1, <2>1, <2>3
<1>10. CASE StopDelivery(d)
  <2>1. (\E pc \in {"error", "stopped"} : DlvGoto(d, pc)) /\ UNCHANGED <<delivery, payload>>
    BY <1>10 DEF StopDelivery, storeVars
  <2>2. QED
    BY <1>0, <1>1, <2>1 DEF Updates
<1>11. QED
  BY <1>2, <1>3, <1>4, <1>5, <1>6, <1>7, <1>8, <1>9, <1>10 DEF DlvContinue

LEMMA OtherDeliveryFiles ==
  ASSUME JobInv,
         \/ \E a \in Acks : AckRead(a) \/ AckWrite(a)
         \/ \E t \in Retries : RetryRead(t) \/ RetryWrite(t)
  PROVE  Updates /\ UNCHANGED <<meta, result, payload, dead, dlv>>
<1> USE DEF JobInv, TypeInv, TypeOK, Presence, FilesInv
<1>1. ASSUME NEW a \in Acks, AckWrite(a) PROVE Updates
  <2>1. CASE UpdateDelivery("ACKED")
    <3>1. delivery.state \in {"SENT_UNCONFIRMED", "ACKED"}
      BY <2>1 DEF UpdateDelivery, CanDeliver, DeliveryTransitions, DeliveryState,
        StoreTypeOK, Delivery
    <3>2. payload # None
      BY <3>1 DEF UnconfirmedIsPublished, AnnounceInv, AnnouncedHasResult
    <3>3. QED
      BY <2>1, <3>2, TableUpdates DEF DeliveryState
  <2>2. QED
    BY <1>1, <2>1 DEF AckWrite, Updates
<1>2. ASSUME NEW t \in Retries, RetryWrite(t) PROVE Updates
  <2>1. delivery.state # "NOT_READY"
    BY <1>2 DEF RetryWrite, AnnounceInv, RetrySawAnnouncement
  <2>2. UNCHANGED delivery \/ UpdateDelivery("PENDING")
    BY <1>2 DEF RetryWrite
  <2>3. QED
    BY <2>1, <2>2, TableUpdates DEF DeliveryState, Updates
<1>3. QED
  BY <1>1, <1>2 DEF AckRead, AckWrite, RetryRead, RetryWrite, Updates, storeVars

(* What such a step leaves of the invariant when no recovery is under way. *)
LEMMA UpdateFiles ==
  ASSUME JobInv, ~RecUnderWay, UNCHANGED <<supVars, rec, result, dead>>, Updates,
         UNCHANGED <<payload, dlv>> \/ \E d \in Deliveries : RunFiles(d)
  PROVE  FilesInv'
<1> USE DEF JobInv, FilesInv
<1>1. /\ UNCHANGED sup
      /\ \A s \in Supervisors : Holds(s)' <=> Holds(s)
      /\ \A r \in Recoveries : ~RecoveryUnderWay(r) /\ ~RecoveryUnderWay(r)'
  BY DEF supVars, Holds, RecoveryUnderWay, RecUnderWay
<1>2. TurnsInv' /\ RecFiles'
  <2>1. ~RecUnderWay'
    BY <1>1 DEF RecUnderWay, RecoveryUnderWay
  <2>2. QED
    BY <1>1, <2>1 DEF TurnsInv, OneHolder, Started, SupUnderWay, RecFiles
<1>3. SupFiles'
  <2>1. delivery.state = "NOT_READY" => UNCHANGED delivery
    BY DEF Updates
  <2>2. QED
    BY <1>1, <2>1 DEF SupFiles
<1>4. payload # None => payload' # None
  BY DEF RunFiles
<1>5. payload' # None => payload' = result.event
  BY DEF RunFiles, EventFiles
<1>6. delivery'.state # "NOT_READY" => delivery'.event = result.event
  BY DEF Updates, EventFiles
<1>7. ASSUME NEW o \in Deliveries
      PROVE  /\ dlv'[o].event # None => result # None /\ dlv'[o].event = result.event
             /\ dlv'[o].pc \in {"send", "sent", "failed"} => payload' # None
  <2>1. CASE UNCHANGED <<payload, dlv>>
    BY <2>1 DEF EventFiles
  <2>2. ASSUME NEW d \in Deliveries, RunFiles(d), d = o
        PROVE  /\ dlv'[o].event # None => result # None /\ dlv'[o].event = result.event
               /\ dlv'[o].pc \in {"send", "sent", "failed"} => payload' # None
    BY <2>2 DEF RunFiles, EventFiles
  <2>3. ASSUME NEW d \in Deliveries, RunFiles(d), d # o
        PROVE  /\ dlv'[o].event # None => result # None /\ dlv'[o].event = result.event
               /\ dlv'[o].pc \in {"send", "sent", "failed"} => payload' # None
    <3>1. dlv'[o] = dlv[o]
      BY <2>3 DEF RunFiles
    <3>2. QED
      BY <1>4, <3>1 DEF EventFiles
  <2>4. QED
    BY <2>1, <2>2, <2>3
<1>8. EventFiles'
  BY <1>5, <1>6, <1>7 DEF EventFiles
<1>9. UnconfirmedIsPublished'
  <2>1. delivery'.state \in {"SENT_UNCONFIRMED", "ACKED"} =>
          payload # None /\ delivery'.event = result.event
    <3>1. CASE UNCHANGED delivery
      BY <1>6, <3>1 DEF UnconfirmedIsPublished, AnnounceInv, AnnouncedHasResult
    <3>2. CASE delivery' # delivery
      BY <1>6, <3>2 DEF Updates
    <3>3. QED
      BY <3>1, <3>2
  <2>2. QED
    BY <1>4, <1>5, <2>1 DEF UnconfirmedIsPublished
<1>10. QED
  BY <1>2, <1>3, <1>8, <1>9

(* While a recovery is under way no run of these kinds is past its look.   *)
LEMMA DlvNextFiles ==
  ASSUME JobInv, DlvNext, UNCHANGED <<supVars, rec>>, Disciplined
  PROVE  FilesInv' /\ Updates /\ UNCHANGED result
<1> USE DEF JobInv, FilesInv
<1>1. /\ Updates /\ UNCHANGED <<meta, result, dead>>
      /\ UNCHANGED <<payload, dlv>> \/ \E d \in Deliveries : RunFiles(d)
  BY DeliveryRunFiles, OtherDeliveryFiles DEF DlvNext
<1>2. CASE ~RecUnderWay
  BY <1>1, <1>2, UpdateFiles
<1>3. CASE RecUnderWay
  <2>1. UNCHANGED dlvVars
    BY <1>3 DEF Disciplined
  <2>2. ~DlvUnderWay
    BY <1>3 DEF TurnsInv
  <2>3. UNCHANGED storeVars
    BY <2>2 DEF DlvUnderWay, InFlight, DlvNext, DlvContinue, DeliverCheck, Claim, StartSending,
      ReadEvent, WritePayload, CliResume, RecordSent, RecordFailed, StopDelivery, AckRead,
      AckWrite, RetryRead, RetryWrite, DlvAt
  <2>4. UNCHANGED <<meta, result, delivery, payload, dead, sup>>
    BY <2>3 DEF storeVars, supVars
  <2>5. QED
    BY <2>1, <2>4, FilesFrame DEF Updates
<1>4. QED
  BY <1>2, <1>3

-----------------------------------------------------------------------------
(* A recovery: it runs alone, and reads what nobody writes meanwhile.      *)
LEMMA RecMoves ==
  ASSUME RecTypeOK, NEW r \in Recoveries
  PROVE  /\ \A pc : RecGoto(r, pc) =>
              /\ rec'[r].pc = pc /\ rec'[r].meta = rec[r].meta
              /\ rec'[r].result = rec[r].result /\ rec'[r].delivery = rec[r].delivery
         /\ \A pc : RecEnd(r, pc) => rec'[r].pc = pc
BY DEF RecTypeOK, RecGoto, RecEnd, RecSet, Idle

LEMMA RecoveryMoves ==
  ASSUME RecTypeOK, NEW r \in Recoveries, RecoverMeta(r) \/ RecContinue(r) \/ StopRecovery(r)
  PROVE  /\ \A q \in Recoveries \ {r} : rec'[q] = rec[q]
         /\ UNCHANGED <<sup, payload, dead>>
         /\ RecoverMeta(r) => rec[r].pc = "idle" /\ rec'[r].pc = "result"
         /\ RecContinue(r) \/ StopRecovery(r) => RecoveryUnderWay(r)
<1>1. CASE RecoverMeta(r)
  <2>1. ~RecContinue(r) /\ ~StopRecovery(r)
    BY <1>1 DEF RecoverMeta, RecContinue, RecoverResult, Probe, LossResult, LossMeta,
      LossDelivery, Reconcile, RepairRead, RepairPayload, RepairWrite, RecAt,
      StopRecovery, RecoveryUnderWay
  <2>2. QED
    BY <1>1, <2>1 DEF RecoverMeta, RecAt, RecSet, RecTypeOK, storeVars, supVars
<1>2. CASE RecContinue(r) \/ StopRecovery(r)
  <2>1. RecoveryUnderWay(r) /\ ~RecoverMeta(r)
    BY <1>2 DEF RecoverMeta, RecContinue, RecoverResult, Probe, LossResult, LossMeta,
      LossDelivery, Reconcile, RepairRead, RepairPayload, RepairWrite, RecAt,
      StopRecovery, RecoveryUnderWay
  <2>2. UNCHANGED <<sup, payload, dead>>
    BY <1>2 DEF RecContinue, RecoverResult, Probe, LossResult, LossMeta, LossDelivery,
      Reconcile, RepairRead, RepairPayload, RepairWrite, StopRecovery, storeVars, supVars
  <2>3. \A value : RecSet(r, value) => \A q \in Recoveries \ {r} : rec'[q] = rec[q]
    BY DEF RecSet, RecTypeOK
  <2>4. \E value : RecSet(r, value)
    BY <1>2 DEF RecContinue, RecoverResult, Probe, LossResult, LossMeta, LossDelivery,
      Reconcile, RepairRead, RepairPayload, RepairWrite, StopRecovery, RecGoto, RecEnd
  <2>5. QED
    BY <2>1, <2>2, <2>3, <2>4
<1>3. QED
  BY <1>1, <1>2

(* Of its step only what concerns itself and the events is left to show.   *)
LEMMA RecoveryFrame ==
  ASSUME JobInv, NEW r \in Recoveries, RecoverMeta(r) \/ RecContinue(r) \/ StopRecovery(r),
         UNCHANGED dlvVars, Disciplined,
         RecoveryUnderWay(r)' => RecHasRead(r)', EventFiles', UnconfirmedIsPublished'
  PROVE  FilesInv'
<1> USE DEF JobInv, TypeInv, TypeOK, FilesInv
<1>1. /\ \A q \in Recoveries \ {r} : rec'[q] = rec[q]
      /\ UNCHANGED <<sup, payload, dead>>
      /\ RecoverMeta(r) => rec[r].pc = "idle" /\ rec'[r].pc = "result"
      /\ RecContinue(r) \/ StopRecovery(r) => RecoveryUnderWay(r)
  BY RecoveryMoves
<1>2. RecUnderWay <=> \E q \in Recoveries : RecoveryUnderWay(q)
  BY DEF RecUnderWay, RecoveryUnderWay
<1>3. ~SupUnderWay /\ ~DlvUnderWay /\ \A q \in Recoveries \ {r} : ~RecoveryUnderWay(q)
  <2>1. CASE RecoverMeta(r)
    BY <1>1, <1>2, <2>1 DEF Disciplined
  <2>2. CASE RecContinue(r) \/ StopRecovery(r)
    <3>1. RecoveryUnderWay(r) /\ rec[r].pc # "idle"
      BY <1>1, <2>2 DEF RecoveryUnderWay
    <3>2. QED
      BY <1>2, <3>1 DEF TurnsInv, Started
  <2>3. QED
    BY <2>1, <2>2
<1>4. ~SupUnderWay' /\ \A s \in Supervisors : ~Holds(s)'
  BY <1>1, <1>3 DEF SupUnderWay, Holds
<1>5. ~DlvUnderWay'
  BY <1>3 DEF DlvUnderWay, InFlight, dlvVars
<1>6. \A q \in Recoveries \ {r} : ~RecoveryUnderWay(q)'
  BY <1>1, <1>3 DEF RecoveryUnderWay
<1>7. TurnsInv'
  BY <1>4, <1>5, <1>6 DEF TurnsInv, OneHolder
<1>8. SupFiles' /\ RecFiles'
  BY <1>1, <1>4, <1>6 DEF SupFiles, RecFiles
<1>9. QED
  BY <1>7, <1>8

LEMMA SameDelivery ==
  ASSUME NEW x \in Delivery, NEW y \in Delivery, x.state = y.state, x.event = y.event
  PROVE  x = y
BY DEF Delivery

(* The three files tell one story.                                         *)
Reconciled ==
  /\ result # None /\ MetaAgrees(result)
  /\ delivery.event = result.event
  /\ delivery.state \notin {"NOT_READY", "CLAIMED", "SENDING"}

RecoveryKeeps ==
  /\ EventFiles' /\ UnconfirmedIsPublished'
  /\ result # None => UNCHANGED result
  /\ delivery.state = "ACKED" => UNCHANGED delivery

LEMMA RecoveryReads ==
  ASSUME JobInv, NEW r \in Recoveries, UNCHANGED dlvVars,
         \/ RecoverMeta(r) \/ RecoverResult(r) \/ Probe(r)
         \/ RepairRead(r) \/ RepairPayload(r)
  PROVE  RecHasRead(r)' /\ RecoveryKeeps /\ rec'[r].pc # "done"
<1> USE DEF JobInv, TypeInv, TypeOK, Presence, FilesInv
<1>1. UNCHANGED <<meta, result, delivery, payload, dlv>>
  BY DEF RecoverMeta, RecoverResult, Probe, RepairRead, RepairPayload, storeVars, dlvVars
<1>2. RecoveryKeeps
  BY <1>1 DEF RecoveryKeeps, EventFiles, UnconfirmedIsPublished
<1>3. rec[r].pc # "idle" => RecHasRead(r)
  <2>1. rec[r].pc # "idle" => RecoveryUnderWay(r)
    BY DEF RecoverMeta, RecoverResult, Probe, RepairRead, RepairPayload, RecAt, RecoveryUnderWay
  <2>2. QED
    BY <2>1 DEF RecFiles
<1>4. CASE RecoverMeta(r)
  <2>1. rec'[r].pc = "result" /\ rec'[r].meta = meta
    BY <1>4 DEF RecoverMeta, RecSet, RecTypeOK
  <2>2. QED
    BY <1>1, <1>2, <2>1 DEF RecHasRead, MetaAgrees
<1>5. CASE RecoverResult(r)
  <2>1. rec[r].pc = "result" /\ MetaAgrees(rec[r].meta)
    BY <1>3, <1>5 DEF RecoverResult, RecAt, RecHasRead
  <2>2. \A pc, res : RecSet(r, [rec[r] EXCEPT !.pc = pc, !.result = res]) =>
          rec'[r].pc = pc /\ rec'[r].result = res
    BY DEF RecSet, RecTypeOK
  <2>3. \/ /\ result # None /\ rec'[r].pc = "reconcile" /\ rec'[r].result = result
        \/ /\ result # None /\ MetaAgrees(result)
           /\ rec'[r].pc = "repair_read" /\ rec'[r].result = result
        \/ /\ result = None /\ rec'[r].pc = "loss_result"
           /\ rec'[r].result = SyntheticLoss(r, "LOST")
        \/ result = None /\ rec'[r].pc = "probe"
    BY <1>5, <2>1, <2>2 DEF RecoverResult, MetaAgrees
  <2>4. SyntheticLoss(r, "LOST").event = r
    BY DEF SyntheticLoss
  <2>5. QED
    BY <1>1, <1>2, <2>3, <2>4 DEF RecHasRead, MetaAgrees
<1>6. CASE Probe(r)
  <2>1. result = None
    BY <1>3, <1>6 DEF Probe, RecAt, RecHasRead
  <2>2. \A res : RecSet(r, [rec[r] EXCEPT !.pc = "loss_result", !.result = res]) =>
          rec'[r].pc = "loss_result" /\ rec'[r].result = res
    BY DEF RecSet, RecTypeOK
  <2>3. RecEnd(r, "running") => rec'[r].pc = "running"
    BY RecMoves
  <2>4. \A state : SyntheticLoss(r, state).event = r
    BY DEF SyntheticLoss
  <2>5. \/ rec'[r].pc = "running"
        \/ rec'[r].pc = "loss_result" /\ rec'[r].result.event = r
    BY <1>6, <2>2, <2>3, <2>4 DEF Probe
  <2>6. QED
    BY <1>1, <1>2, <2>1, <2>5 DEF RecHasRead
<1>7. CASE RepairRead(r)
  <2>1. result = rec[r].result /\ MetaAgrees(result)
    BY <1>3, <1>7 DEF RepairRead, RecAt, RecHasRead
  <2>2. /\ rec'[r].pc = "repair_payload" /\ rec'[r].result = result
        /\ rec'[r].delivery = [delivery EXCEPT !.event = result.event]
    BY <1>7, <2>1 DEF RepairRead, RecSet, RecTypeOK
  <2>3. rec'[r].delivery.event = result.event /\ rec'[r].delivery.state = delivery.state
    BY <2>2 DEF StoreTypeOK, Delivery
  <2>4. QED
    BY <1>1, <1>2, <2>1, <2>2, <2>3 DEF RecHasRead, MetaAgrees
<1>8. CASE RepairPayload(r)
  <2>1. /\ rec[r].pc = "repair_payload" /\ result = rec[r].result /\ MetaAgrees(result)
        /\ rec[r].delivery.event = result.event
        /\ rec[r].delivery.state = delivery.state
    BY <1>3, <1>8 DEF RepairPayload, RecAt, RecHasRead
  <2>2. rec[r].delivery \in Delivery
    BY <2>1 DEF RecTypeOK, RecPresence
  <2> DEFINE st == RepairedState(delivery.state, payload = result.event)
  <2> HIDE DEF st
  <2>3. /\ rec'[r].pc = "repair_write" /\ rec'[r].result = result
        /\ rec'[r].delivery = [rec[r].delivery EXCEPT !.state = st]
    BY <1>8, <2>1 DEF RepairPayload, RecSet, RecTypeOK, st
  <2>4. rec'[r].delivery.event = result.event /\ rec'[r].delivery.state = st
    BY <2>1, <2>2, <2>3 DEF Delivery
  <2>5. st' = st
    BY <1>1 DEF st
  <2>6. rec'[r].delivery.state = st'
    BY <2>4, <2>5
  <2>7. QED
    BY <1>1, <1>2, <2>1, <2>3, <2>4, <2>6 DEF RecHasRead, MetaAgrees, st
<1>9. QED
  BY <1>4, <1>5, <1>6, <1>7, <1>8

LEMMA RecoveryWrites ==
  ASSUME JobInv, NEW r \in Recoveries, UNCHANGED dlvVars,
         \/ LossResult(r) \/ LossMeta(r) \/ LossDelivery(r)
         \/ Reconcile(r) \/ RepairWrite(r)
  PROVE  /\ RecoveryUnderWay(r)' => RecHasRead(r)'
         /\ RecoveryKeeps
         /\ rec'[r].pc = "done" => Reconciled'
<1> USE DEF JobInv, TypeInv, TypeOK, Presence, FilesInv
<1>1. RecoveryUnderWay(r) /\ RecHasRead(r)
  <2>1. RecoveryUnderWay(r)
    BY DEF LossResult, LossMeta, LossDelivery, Reconcile, RepairWrite, RecAt, RecoveryUnderWay
  <2>2. QED
    BY <2>1 DEF RecFiles
<1>2. UNCHANGED <<payload, dlv>>
  BY DEF LossResult, LossMeta, LossDelivery, Reconcile, RepairWrite, dlvVars
<1>3. rec[r].result # None => rec[r].result \in Result
  BY DEF RecTypeOK
<1>4. CASE LossResult(r)
  <2>1. /\ result = None /\ rec[r].result # None /\ rec[r].result.event = r
    BY <1>1, <1>4 DEF LossResult, RecAt, RecHasRead, RecPresence
  <2>2. /\ delivery.state = "NOT_READY" /\ payload = None
        /\ \A d \in Deliveries : dlv[d].event = None
    BY <2>1, NoResultNoEvents
  <2>3. result' = rec[r].result /\ UNCHANGED delivery
    BY <1>4 DEF LossResult
  <2>4. rec'[r].pc = "loss_meta" /\ rec'[r].result = rec[r].result
    BY <1>4, RecMoves DEF LossResult
  <2>5. EventFiles' /\ UnconfirmedIsPublished'
    <3>1. \A d \in Deliveries : dlv[d].pc \notin {"send", "sent", "failed"}
      BY <2>2 DEF DlvPresence
    <3>2. QED
      BY <1>2, <2>2, <2>3, <3>1 DEF EventFiles, UnconfirmedIsPublished
  <2>6. RecHasRead(r)'
    BY <2>1, <2>2, <2>3, <2>4 DEF RecHasRead
  <2>7. QED
    BY <2>1, <2>2, <2>3, <2>4, <2>5, <2>6 DEF RecoveryKeeps
<1>5. CASE LossMeta(r) \/ Reconcile(r)
  <2>1. UNCHANGED <<result, delivery>> /\ result = rec[r].result
    BY <1>1, <1>5 DEF LossMeta, Reconcile, RecAt, RecHasRead
  <2>2. MetaAgrees(result)'
    BY <1>5, <2>1 DEF LossMeta, Reconcile, ReconcileMetadata, MetaAgrees, StoreTypeOK, Metadata
  <2>3. /\ rec'[r].pc = IF LossMeta(r) THEN "loss_delivery" ELSE "repair_read"
        /\ rec'[r].result = rec[r].result
    BY <1>5, RecMoves DEF LossMeta, Reconcile
  <2>4. LossMeta(r) => result.event = r /\ delivery.state = "NOT_READY"
    BY <1>1 DEF LossMeta, RecAt, RecHasRead
  <2>5. RecHasRead(r)'
    BY <2>1, <2>2, <2>3, <2>4 DEF RecHasRead
  <2>6. RecoveryKeeps
    BY <1>2, <2>1 DEF RecoveryKeeps, EventFiles, UnconfirmedIsPublished
  <2>7. QED
    BY <2>3, <2>5, <2>6
<1>6. CASE LossDelivery(r)
  <2>1. /\ result # None /\ result.event = r /\ MetaAgrees(result)
        /\ delivery.state = "NOT_READY"
    BY <1>1, <1>6 DEF LossDelivery, RecAt, RecHasRead, RecPresence
  <2>2. delivery' = [state |-> "PENDING", event |-> r] /\ UNCHANGED <<meta, result>>
    BY <1>6 DEF LossDelivery, AnnounceResult
  <2>3. rec'[r].pc = "done"
    BY <1>6, RecMoves DEF LossDelivery
  <2>4. Reconciled'
    BY <2>1, <2>2 DEF Reconciled, MetaAgrees
  <2>5. RecoveryKeeps
    BY <1>2, <2>1, <2>2 DEF RecoveryKeeps, EventFiles, UnconfirmedIsPublished
  <2>6. QED
    BY <2>3, <2>4, <2>5 DEF RecoveryUnderWay
<1>7. CASE RepairWrite(r)
  <2> DEFINE new == rec[r].delivery
             st  == RepairedState(delivery.state, payload = result.event)
  <2>1. /\ result # None /\ MetaAgrees(result)
        /\ new.event = result.event /\ new.state = st
        /\ new \in Delivery /\ new.state # "NOT_READY"
    BY <1>1, <1>7 DEF RepairWrite, RecAt, RecHasRead, RecPresence, RecTypeOK
  <2>2. delivery' = new /\ UNCHANGED <<meta, result>> /\ delivery \in Delivery
    BY <1>7 DEF RepairWrite, StoreTypeOK
  <2>3. rec'[r].pc = "done"
    BY <1>7, RecMoves DEF RepairWrite
  <2>4. /\ st \notin {"CLAIMED", "SENDING"}
        /\ st \in {"SENT_UNCONFIRMED", "ACKED"} =>
             payload = result.event \/ (delivery.state = "ACKED" /\ st = "ACKED")
        /\ delivery.state = "ACKED" => st = "ACKED"
    BY DEF RepairedState
  <2> HIDE DEF new, st
  <2>5. Reconciled'
    BY <2>1, <2>2, <2>4 DEF Reconciled, MetaAgrees
  <2>6. delivery.state = "ACKED" => delivery.event = result.event /\ payload = result.event
    BY DEF EventFiles, UnconfirmedIsPublished
  <2>7. delivery.state = "ACKED" => UNCHANGED delivery
    BY <2>1, <2>2, <2>4, <2>6, SameDelivery
  <2>8. EventFiles' /\ UnconfirmedIsPublished'
    BY <1>2, <2>1, <2>2, <2>4, <2>6 DEF EventFiles, UnconfirmedIsPublished
  <2>9. RecoveryKeeps
    BY <2>2, <2>7, <2>8 DEF RecoveryKeeps
  <2>10. QED
    BY <2>3, <2>5, <2>9 DEF RecoveryUnderWay
<1>8. QED
  BY <1>4, <1>5, <1>6, <1>7

(* Recoveries under the discipline keep the files in step, and end with    *)
(* them reconciled.                                                        *)
LEMMA RecNextFiles ==
  ASSUME JobInv, RecNext, UNCHANGED dlvVars, Disciplined
  PROVE  /\ FilesInv'
         /\ result # None => UNCHANGED result
         /\ delivery.state = "ACKED" => UNCHANGED delivery
         /\ \A r \in Recoveries : rec[r].pc # "done" /\ rec'[r].pc = "done" => Reconciled'
<1> USE DEF JobInv, TypeInv, TypeOK, FilesInv
<1>1. ASSUME NEW r \in Recoveries, StopRecovery(r)
      PROVE  ~RecoveryUnderWay(r)' /\ RecoveryKeeps /\ rec'[r].pc # "done"
  <2>1. rec'[r].pc = "stopped"
    BY <1>1, RecMoves DEF StopRecovery
  <2>2. UNCHANGED <<result, delivery, payload, dlv>>
    BY <1>1 DEF StopRecovery, storeVars, dlvVars
  <2>3. RecoveryKeeps
    BY <2>2 DEF RecoveryKeeps, EventFiles, UnconfirmedIsPublished
  <2>4. QED
    BY <2>1, <2>3 DEF RecoveryUnderWay
<1>2. ASSUME NEW r \in Recoveries, RecoverMeta(r) \/ RecContinue(r) \/ StopRecovery(r)
      PROVE  /\ FilesInv' /\ RecoveryKeeps
             /\ rec'[r].pc = "done" => Reconciled'
             /\ \A q \in Recoveries \ {r} : rec'[q] = rec[q]
  <2>1. /\ RecoveryUnderWay(r)' => RecHasRead(r)'
        /\ RecoveryKeeps
        /\ rec'[r].pc = "done" => Reconciled'
    BY <1>1, <1>2, RecoveryReads, RecoveryWrites DEF RecContinue
  <2>2. FilesInv'
    BY <1>2, <2>1, RecoveryFrame DEF RecoveryKeeps
  <2>3. QED
    BY <1>2, <2>1, <2>2, RecoveryMoves
<1>3. QED
  BY <1>2 DEF RecNext, RecoveryKeeps

-----------------------------------------------------------------------------
(* The discipline's invariant, and what it gives.                          *)

LEMMA SupNextKeeps ==
  ASSUME JobInv, SupNext
  PROVE  /\ result # None => UNCHANGED result
         /\ delivery.state = "ACKED" => UNCHANGED delivery
<1> USE DEF JobInv, TypeInv, TypeOK, Presence, FilesInv
<1>1. ASSUME NEW s \in Supervisors, SupStep(s) \/ Raise(s) \/ GiveUp(s)
      PROVE  /\ result # None => UNCHANGED result
             /\ delivery.state = "ACKED" => UNCHANGED delivery
  <2>1. Holds(s) /\ (WritesResult(s) \/ Announces(s) \/ GoesOn(s))
    BY <1>1, StepHolds, SupervisorFiles
  <2>2. QED
    BY <2>1 DEF WritesResult, Announces, GoesOn, SupFiles
<1>2. ASSUME NEW s \in Supervisors, Lock(s) \/ KillSupervisor(s) \/ ChildExit(s) \/ OutputCloses(s)
      PROVE  UNCHANGED <<result, delivery>>
  BY <1>2 DEF Lock, KillSupervisor, ChildExit, OutputCloses, storeVars
<1>3. ASSUME NEW c \in Cancels, CancelStep(c) PROVE UNCHANGED <<result, delivery>>
  BY <1>3 DEF CancelStep, CancelRead, CancelRequest, CancelTerm, CancelGrace,
    CancelKill, storeVars
<1>4. QED
  BY <1>1, <1>2, <1>3 DEF SupNext, RunStep

LEMMA DisciplinedStep ==
  ASSUME JobInv, DisciplinedNext
  PROVE  /\ JobInv'
         /\ result # None => UNCHANGED result
         /\ delivery.state = "ACKED" => UNCHANGED delivery
         /\ \A r \in Recoveries : rec[r].pc # "done" /\ rec'[r].pc = "done" => Reconciled'
<1>1. Next /\ Disciplined
  BY DEF DisciplinedNext
<1>2. TypeInv' /\ AnnounceInv'
  BY <1>1, NextTypeInv, NextAnnounceInv DEF JobInv
<1>3. CASE SupNext /\ UNCHANGED <<rec, dlvVars>>
  BY <1>1, <1>2, <1>3, SupNextFiles, SupNextKeeps DEF JobInv
<1>4. CASE RecNext /\ UNCHANGED dlvVars
  BY <1>1, <1>2, <1>4, RecNextFiles DEF JobInv
<1>5. CASE DlvNext /\ UNCHANGED <<supVars, rec>>
  BY <1>1, <1>2, <1>5, DlvNextFiles DEF JobInv, Updates
<1>6. QED
  BY <1>1, <1>3, <1>4, <1>5 DEF Next

LEMMA InitJobInv == Init => JobInv
<1> SUFFICES ASSUME Init PROVE JobInv
  OBVIOUS
<1> USE DEF Init, StoreInit, SupInit, RecInit, DlvInit, Idle
<1>1. TypeInv /\ AnnounceInv
  BY InitTypeInv DEF AnnounceInv, AnnouncedHasResult, RetrySawAnnouncement
<1>2. /\ \A s \in Supervisors : sup[s].result = None /\ ~Holds(s)
      /\ \A r \in Recoveries : rec[r].pc = "idle" /\ ~RecoveryUnderWay(r)
      /\ ~RecUnderWay
  BY DEF Holds, LockedPc, TryPc, UnguardedPc, RecoveryUnderWay, RecUnderWay
<1>3. TurnsInv
  BY <1>2 DEF TurnsInv, OneHolder, Started
<1>4. SupFiles /\ RecFiles
  BY <1>2 DEF SupFiles, RecFiles
<1>5. EventFiles /\ UnconfirmedIsPublished
  BY DEF EventFiles, UnconfirmedIsPublished
<1>6. QED
  BY <1>1, <1>3, <1>4, <1>5 DEF JobInv, FilesInv

LEMMA StutterJobInv ==
  ASSUME JobInv, UNCHANGED vars
  PROVE  JobInv'
<1>1. TypeInv' /\ AnnounceInv'
  BY NextTypeInv, NextAnnounceInv DEF JobInv
<1>2. /\ UNCHANGED <<meta, result, delivery, payload, sup, rec, dlvVars>>
      /\ dead \subseteq dead'
  BY DEF vars, storeVars, supVars
<1>3. QED
  BY <1>1, <1>2, FilesFrame DEF JobInv

LEMMA DisciplinedInvariant == DisciplinedSpec => []JobInv
<1>1. JobInv /\ [DisciplinedNext]_vars => JobInv'
  BY DisciplinedStep, StutterJobInv
<1>2. QED
  BY <1>1, InitJobInv, PTL DEF DisciplinedSpec

(* An announcement marked sent or acknowledged has its payload file, of    *)
(* the same event, whatever was repaired: supervisors, recoveries and      *)
(* deliveries write delivery.json without each other's knowledge           *)
(* (store.py's write_delivery checks nothing), the discipline makes them   *)
(* take turns.                                                             *)
THEOREM PublishedUnderDiscipline == DisciplinedSpec => []UnconfirmedIsPublished
<1>1. JobInv => UnconfirmedIsPublished
  BY DEF JobInv, FilesInv
<1>2. QED
  BY <1>1, DisciplinedInvariant, PTL

(* write_result replaces the file without a look at it (store.py); as long *)
(* as the operator takes turns, nobody has a second result to write.       *)
THEOREM ResultIsTheFirst == DisciplinedSpec => ResultIsWrittenOnce
<1>1. JobInv /\ [DisciplinedNext]_vars => [result # None => result' = result]_vars
  BY DisciplinedStep
<1>2. QED
  BY <1>1, DisciplinedInvariant, PTL DEF DisciplinedSpec, ResultIsWrittenOnce

(* An acknowledgement is not undone: no repair, no failure report and no   *)
(* late delivery overwrites an ACKED delivery.json.                        *)
THEOREM AcknowledgementSurvives == DisciplinedSpec => AckSurvives
<1>1. JobInv /\ [DisciplinedNext]_vars =>
        [delivery.state = "ACKED" => UNCHANGED delivery]_vars
  BY DisciplinedStep
<1>2. QED
  BY <1>1, DisciplinedInvariant, PTL DEF DisciplinedSpec, AckSurvives

(* recover_job keeps its promise: when it returns, result, metadata and    *)
(* delivery tell one story and no delivery is stuck in flight.             *)
THEOREM RecoveryKeepsItsPromise == DisciplinedSpec => RecoveryReconciles
<1> DEFINE Promise ==
      \A r \in Recoveries : rec[r].pc # "done" /\ rec'[r].pc = "done" =>
        /\ result' # None
        /\ meta'.state = result'.state /\ meta'.result_state = result'.result_state
        /\ delivery'.event = result'.event
        /\ delivery'.state \notin {"NOT_READY", "CLAIMED", "SENDING"}
<1>1. ASSUME JobInv, DisciplinedNext PROVE Promise
  BY <1>1, DisciplinedStep DEF Reconciled, MetaAgrees
<1>2. JobInv /\ [DisciplinedNext]_vars => [Promise]_vars
  BY <1>1
<1>3. RecoveryReconciles <=> [][Promise]_vars
  BY DEF RecoveryReconciles
<1> HIDE DEF Promise
<1>4. QED
  BY <1>2, <1>3, DisciplinedInvariant, PTL DEF DisciplinedSpec
=============================================================================
