--------------------------- MODULE JobSystemProofs ---------------------------
(***************************************************************************)
(* Invariants of JobSystem!Spec, for any sets of runs: every interleaving  *)
(* of supervisors, cancellations, recoveries, deliveries, acknowledgements *)
(* and retries on one job, with any of them killed at any point.           *)
(***************************************************************************)
EXTENDS JobSystem, TLAPS

(* What a run's place in its code says about what it has read and written. *)
(* A field used by the next step is there: without this, types are not     *)
(* inductive (a run could copy fields of a result nobody wrote).           *)
SupPresence ==
  \A s \in Supervisors :
    /\ sup[s].pc \in {"write_result", "write_meta", "write_delivery"} =>
         sup[s].result # None
    /\ sup[s].pc \in {"write_meta", "write_delivery", "fail_delivery"} => result # None

CancelPresence ==
  \A c \in Cancels :
    cancel[c].pc \in {"term", "grace", "kill"} => cancel[c].process # None

RecPresence ==
  \A r \in Recoveries :
    /\ rec[r].pc \in {"loss_result", "loss_meta", "loss_delivery", "reconcile",
                      "repair_read", "repair_payload", "repair_write"} =>
         rec[r].result # None
    /\ rec[r].pc \in {"loss_meta", "loss_delivery", "reconcile",
                      "repair_read", "repair_payload", "repair_write"} =>
         result # None
    /\ rec[r].pc \in {"repair_payload", "repair_write"} =>
         rec[r].delivery # None /\ rec[r].delivery.event # None
    /\ rec[r].pc = "repair_write" => rec[r].delivery.state # "NOT_READY"

DlvPresence ==
  /\ \A d \in Deliveries :
       /\ dlv[d].pc \notin {"idle", "error"} => result # None
       /\ dlv[d].pc \in {"payload", "send", "sent", "failed"} => dlv[d].event # None

Presence == SupPresence /\ CancelPresence /\ RecPresence /\ DlvPresence

TypeInv == TypeOK /\ Presence

USE DEF ExitStatus, Event

-----------------------------------------------------------------------------
(* The initial state satisfies the type invariant.                         *)
LEMMA InitTypeInv == Init => TypeInv
<1> SUFFICES ASSUME Init PROVE TypeInv
  OBVIOUS
<1> USE DEF Init, StoreInit, SupInit, RecInit, DlvInit
<1>1. StoreTypeOK
  BY DEF StoreTypeOK, Metadata, Delivery, ExecutionState, DeliveryState
<1>2. SupTypeOK
  BY DEF SupTypeOK, LockedPc, TryPc, UnguardedPc, CancelPc
<1>3. RecTypeOK
  BY DEF RecTypeOK, RecPc, Idle
<1>4. DlvTypeOK
  BY DEF DlvTypeOK, DlvPc
<1>5. Presence
  BY DEF Presence, SupPresence, CancelPresence, RecPresence, DlvPresence, Idle
<1>6. QED
  BY <1>1, <1>2, <1>3, <1>4, <1>5 DEF TypeInv, TypeOK

-----------------------------------------------------------------------------
(* Frames: a step of one kind of run leaves the invariants of the others,  *)
(* provided result.json does not disappear.                                *)
LEMMA RecFrame ==
  ASSUME RecTypeOK, RecPresence, UNCHANGED rec, result # None => result' # None
  PROVE  RecTypeOK' /\ RecPresence'
BY DEF RecTypeOK, RecPresence

LEMMA DlvFrame ==
  ASSUME DlvTypeOK, DlvPresence, UNCHANGED dlvVars, result # None => result' # None
  PROVE  DlvTypeOK' /\ DlvPresence'
BY DEF DlvTypeOK, DlvPresence, dlvVars

LEMMA SupFrame ==
  ASSUME SupTypeOK, SupPresence, CancelPresence, UNCHANGED supVars,
         result # None => result' # None
  PROVE  SupTypeOK' /\ SupPresence' /\ CancelPresence'
BY DEF SupTypeOK, SupPresence, CancelPresence, supVars

(* Moving a run on keeps its type.                                         *)
LEMMA GotoTypes ==
  ASSUME SupTypeOK, NEW s \in Supervisors, NEW pc \in LockedPc \cup {"idle", "exited", "unrecorded"},
         Goto(s, pc), UNCHANGED <<child, held, killed, cancel>>
  PROVE  SupTypeOK'
BY DEF SupTypeOK, Goto

LEMMA RecSetTypes ==
  ASSUME RecTypeOK, NEW r \in Recoveries, NEW pc \in RecPc,
         RecGoto(r, pc) \/ RecEnd(r, pc)
  PROVE  RecTypeOK'
BY DEF RecTypeOK, RecGoto, RecEnd, RecSet, Idle

LEMMA DlvGotoTypes ==
  ASSUME DlvTypeOK, NEW d \in Deliveries, NEW pc \in DlvPc,
         DlvGoto(d, pc), UNCHANGED <<ack, retry>>,
         received' \subseteq received \cup (Deliveries \X Event)
  PROVE  DlvTypeOK'
BY DEF DlvTypeOK, DlvGoto

LEMMA DlvGotoPresence ==
  ASSUME DlvTypeOK, DlvPresence, NEW d \in Deliveries, NEW pc,
         DlvGoto(d, pc), UNCHANGED result,
         pc \notin {"idle", "error"} => result # None,
         pc \in {"payload", "send", "sent", "failed"} => dlv[d].event # None
  PROVE  DlvPresence'
BY DEF DlvTypeOK, DlvPresence, DlvGoto

(* The supervisor's steps keep the types of the files and of the runs.     *)
LEMMA SupervisorTypeInv ==
  ASSUME StoreTypeOK, SupTypeOK, SupPresence, CancelPresence,
         NEW s \in Supervisors,
         RunStep(s)
  PROVE  /\ StoreTypeOK' /\ SupTypeOK' /\ SupPresence' /\ CancelPresence'
         /\ result # None => result' # None
<1>1. CASE Lock(s)
  <2>1. StoreTypeOK'
    BY <1>1, RunsAreDistinct DEF Lock, StoreTypeOK, storeVars
  <2>2. SupTypeOK'
    BY <1>1, GotoTypes DEF Lock, LockedPc, TryPc, UnguardedPc
  <2>3. SupPresence' /\ CancelPresence' /\ (result # None => result' # None)
    BY <1>1, <2>1, NoneIsNoContent
    DEF Lock, SupPresence, CancelPresence, StoreTypeOK, SupTypeOK, At, Goto, storeVars
  <2>4. QED
    BY <2>1, <2>2, <2>3
<1>2. CASE Preflight(s)
  <2>1. StoreTypeOK'
    BY <1>2, RunsAreDistinct DEF Preflight, StoreTypeOK, storeVars
  <2>2. SupTypeOK'
    BY <1>2, GotoTypes DEF Preflight, LockedPc, TryPc, UnguardedPc
  <2>3. SupPresence' /\ CancelPresence' /\ (result # None => result' # None)
    BY <1>2, <2>1, NoneIsNoContent
    DEF Preflight, SupPresence, CancelPresence, StoreTypeOK, SupTypeOK, At, Goto, storeVars
  <2>4. QED
    BY <2>1, <2>2, <2>3
<1>3. CASE FailRead(s)
  <2>1. StoreTypeOK'
    BY <1>3, RunsAreDistinct DEF FailRead, StoreTypeOK, storeVars
  <2>2. SupTypeOK'
    BY <1>3, GotoTypes DEF FailRead, LockedPc, TryPc, UnguardedPc
  <2>3. SupPresence' /\ CancelPresence' /\ (result # None => result' # None)
    BY <1>3, <2>1, NoneIsNoContent
    DEF FailRead, SupPresence, CancelPresence, StoreTypeOK, SupTypeOK, At, Goto, storeVars
  <2>4. QED
    BY <2>1, <2>2, <2>3
<1>4. CASE FailMeta(s)
  <2>1. StoreTypeOK'
    <3>1. "FAILED" \in ExecutionState /\ "INFRASTRUCTURE_ERROR" \in ResultState
      BY DEF ExecutionState, TerminalState, ResultState
    <3>2. UNCHANGED meta \/ meta' = [meta EXCEPT !.state = "FAILED", !.result_state = "INFRASTRUCTURE_ERROR"]
      BY <1>4 DEF FailMeta
    <3>3. meta' \in Metadata
      BY <3>1, <3>2 DEF StoreTypeOK, Metadata
    <3>4. QED
      BY <1>4, <3>3 DEF FailMeta, StoreTypeOK
  <2>2. SupTypeOK'
    BY <1>4, GotoTypes DEF FailMeta, LockedPc, TryPc, UnguardedPc
  <2>3. SupPresence' /\ CancelPresence' /\ (result # None => result' # None)
    BY <1>4, <2>1, NoneIsNoContent
    DEF FailMeta, SupPresence, CancelPresence, StoreTypeOK, SupTypeOK, At, Goto, storeVars
  <2>4. QED
    BY <2>1, <2>2, <2>3
<1>5. CASE FailResult(s)
  <2>0. result' \in Result
    BY <1>5 DEF FailResult, FailureResult, Result, TerminalState, ResultState
  <2>1. StoreTypeOK'
    BY <1>5, <2>0 DEF FailResult, StoreTypeOK
  <2>2. SupTypeOK'
    BY <1>5, GotoTypes DEF FailResult, LockedPc, TryPc, UnguardedPc
  <2>3. SupPresence' /\ CancelPresence' /\ (result # None => result' # None)
    BY <1>5, <2>0, NoneIsNoContent
    DEF FailResult, SupPresence, CancelPresence, StoreTypeOK, SupTypeOK, At, Goto, storeVars
  <2>4. QED
    BY <2>1, <2>2, <2>3
<1>6. CASE FailDelivery(s)
  <2>1. StoreTypeOK'
    BY <1>6, RunsAreDistinct DEF FailDelivery, StoreTypeOK, AnnounceResult, Delivery, DeliveryState
  <2>2. SupTypeOK'
    BY <1>6, GotoTypes DEF FailDelivery, LockedPc, TryPc, UnguardedPc
  <2>3. SupPresence' /\ CancelPresence' /\ (result # None => result' # None)
    BY <1>6, <2>1, NoneIsNoContent
    DEF FailDelivery, SupPresence, CancelPresence, StoreTypeOK, SupTypeOK, At, Goto, storeVars
  <2>4. QED
    BY <2>1, <2>2, <2>3
<1>7. CASE Starting(s)
  <2>1. StoreTypeOK'
    <3>1. "STARTING" \in ExecutionState
      BY DEF ExecutionState, TerminalState, ResultState
    <3>2. UNCHANGED meta \/ meta' = [meta EXCEPT !.state = "STARTING", !.supervisor = s]
      BY <1>7 DEF Starting
    <3>3. meta' \in Metadata
      BY <3>1, <3>2 DEF StoreTypeOK, Metadata
    <3>4. QED
      BY <1>7, <3>3 DEF Starting, StoreTypeOK
  <2>2. SupTypeOK'
    BY <1>7, GotoTypes DEF Starting, LockedPc, TryPc, UnguardedPc
  <2>3. SupPresence' /\ CancelPresence' /\ (result # None => result' # None)
    BY <1>7, <2>1, NoneIsNoContent
    DEF Starting, SupPresence, CancelPresence, StoreTypeOK, SupTypeOK, At, Goto, storeVars
  <2>4. QED
    BY <2>1, <2>2, <2>3
<1>8. CASE Popen(s)
  <2>1. StoreTypeOK'
    BY <1>8, RunsAreDistinct DEF Popen, StoreTypeOK, storeVars
  <2>2. SupTypeOK'
    BY <1>8 DEF Popen, SupTypeOK, Goto, LockedPc, TryPc, UnguardedPc

  <2>3. SupPresence' /\ CancelPresence' /\ (result # None => result' # None)
    BY <1>8, <2>1, NoneIsNoContent
    DEF Popen, SupPresence, CancelPresence, StoreTypeOK, SupTypeOK, At, Goto, storeVars
  <2>4. QED
    BY <2>1, <2>2, <2>3
<1>9. CASE RecordRunning(s)
  <2>1. StoreTypeOK'
    <3>1. "RUNNING" \in ExecutionState
      BY DEF ExecutionState, TerminalState, ResultState
    <3>2. UNCHANGED meta \/ meta' = [meta EXCEPT !.state = "RUNNING", !.process = s]
      BY <1>9 DEF RecordRunning
    <3>3. meta' \in Metadata
      BY <3>1, <3>2 DEF StoreTypeOK, Metadata
    <3>4. QED
      BY <1>9, <3>3 DEF RecordRunning, StoreTypeOK
  <2>2. SupTypeOK'
    BY <1>9, GotoTypes DEF RecordRunning, LockedPc, TryPc, UnguardedPc
  <2>3. SupPresence' /\ CancelPresence' /\ (result # None => result' # None)
    BY <1>9, <2>1, NoneIsNoContent
    DEF RecordRunning, SupPresence, CancelPresence, StoreTypeOK, SupTypeOK, At, Goto, storeVars
  <2>4. QED
    BY <2>1, <2>2, <2>3
<1>10. CASE Wait(s)
  <2>1. StoreTypeOK'
    BY <1>10, RunsAreDistinct DEF Wait, StoreTypeOK, storeVars
  <2>2. SupTypeOK'
    <3>1. "join" \in LockedPc
      BY DEF LockedPc, TryPc, UnguardedPc
    <3>2. /\ sup' = [sup EXCEPT ![s] = [@ EXCEPT !.pc = "join", !.exit = child[s]]]
          /\ child[s] \in ExitStatus /\ UNCHANGED <<child, held, killed, cancel>>
      BY <1>10 DEF Wait
    <3>3. QED
      BY <3>1, <3>2 DEF SupTypeOK
  <2>3. SupPresence' /\ CancelPresence' /\ (result # None => result' # None)
    BY <1>10, <2>1, NoneIsNoContent
    DEF Wait, SupPresence, CancelPresence, StoreTypeOK, SupTypeOK, At, Goto, storeVars
  <2>4. QED
    BY <2>1, <2>2, <2>3
<1>11. CASE Decide(s)
  <2> DEFINE built(stale) ==
        [event        |-> s,
         state        |-> Outcome(meta.cancel, sup[s].exit, stale)[1],
         result_state |-> Outcome(meta.cancel, sup[s].exit, stale)[2],
         exit         |-> sup[s].exit,
         process      |-> s]
  <2>0. \A stale \in BOOLEAN : built(stale) \in Result
    BY DEF Outcome, Result, TerminalState, ResultState, SupTypeOK
  <2>1. PICK b \in Result :
          sup' = [sup EXCEPT ![s] = [@ EXCEPT !.pc = "write_result", !.result = b]]
    BY <1>11, <2>0 DEF Decide
  <2>2. StoreTypeOK' /\ UNCHANGED <<child, held, killed, cancel, result>>
    BY <1>11 DEF Decide, StoreTypeOK, storeVars
  <2>3. SupTypeOK'
    <3>1. "write_result" \in LockedPc
      BY DEF LockedPc, TryPc, UnguardedPc
    <3>2. QED
      BY <2>1, <2>2, <3>1 DEF SupTypeOK
  <2>4. SupPresence' /\ CancelPresence'
    BY <2>1, <2>2, NoneIsNoContent DEF SupPresence, CancelPresence, SupTypeOK
  <2>5. QED
    BY <2>2, <2>3, <2>4
<1>12. CASE WriteResult(s)
  <2>1. StoreTypeOK'
    BY <1>12, RunsAreDistinct DEF WriteResult, StoreTypeOK, SupTypeOK, SupPresence, At
  <2>2. SupTypeOK'
    BY <1>12, GotoTypes DEF WriteResult, LockedPc, TryPc, UnguardedPc
  <2>3. SupPresence' /\ CancelPresence' /\ (result # None => result' # None)
    BY <1>12, <2>1, NoneIsNoContent
    DEF WriteResult, SupPresence, CancelPresence, StoreTypeOK, SupTypeOK, At, Goto, storeVars
  <2>4. QED
    BY <2>1, <2>2, <2>3
<1>13. CASE WriteMeta(s)
  <2>0. sup[s].result \in Result
    BY <1>13 DEF WriteMeta, SupTypeOK, SupPresence, At
  <2>1. StoreTypeOK'
    BY <1>13, <2>0
    DEF WriteMeta, StoreTypeOK, Metadata, ExecutionState, Result
  <2>2. SupTypeOK'
    BY <1>13, GotoTypes DEF WriteMeta, LockedPc, TryPc, UnguardedPc
  <2>3. SupPresence' /\ CancelPresence' /\ (result # None => result' # None)
    BY <1>13, <2>1, NoneIsNoContent
    DEF WriteMeta, SupPresence, CancelPresence, StoreTypeOK, SupTypeOK, At, Goto, storeVars
  <2>4. QED
    BY <2>1, <2>2, <2>3
<1>14. CASE WriteDelivery(s)
  <2>1. StoreTypeOK'
    BY <1>14, RunsAreDistinct DEF WriteDelivery, StoreTypeOK, AnnounceResult, Delivery, DeliveryState
  <2>2. SupTypeOK'
    BY <1>14, GotoTypes DEF WriteDelivery, LockedPc, TryPc, UnguardedPc
  <2>3. SupPresence' /\ CancelPresence' /\ (result # None => result' # None)
    BY <1>14, <2>1, NoneIsNoContent
    DEF WriteDelivery, SupPresence, CancelPresence, StoreTypeOK, SupTypeOK, At, Goto, storeVars
  <2>4. QED
    BY <2>1, <2>2, <2>3
<1>15. CASE Raise(s)
  <2>1. StoreTypeOK'
    BY <1>15, RunsAreDistinct DEF Raise, GiveUp, StoreTypeOK, storeVars
  <2>2. SupTypeOK'
    BY <1>15, GotoTypes DEF Raise, GiveUp, LockedPc, TryPc, UnguardedPc
  <2>3. SupPresence' /\ CancelPresence' /\ (result # None => result' # None)
    BY <1>15, <2>1, NoneIsNoContent
    DEF Raise, GiveUp, SupPresence, CancelPresence, StoreTypeOK, SupTypeOK, At, Goto, storeVars
  <2>4. QED
    BY <2>1, <2>2, <2>3
<1>16. CASE HandleException(s)
  <2>1. StoreTypeOK'
    BY <1>16, RunsAreDistinct DEF HandleException, StoreTypeOK, storeVars
  <2>2. SupTypeOK'
    BY <1>16, GotoTypes DEF HandleException, LockedPc, TryPc, UnguardedPc
  <2>3. SupPresence' /\ CancelPresence' /\ (result # None => result' # None)
    BY <1>16, <2>1, NoneIsNoContent
    DEF HandleException, SupPresence, CancelPresence, StoreTypeOK, SupTypeOK, At, Goto, storeVars
  <2>4. QED
    BY <2>1, <2>2, <2>3
<1>17. CASE Lose(s)
  <2>1. StoreTypeOK'
    BY <1>17, RunsAreDistinct DEF Lose, StoreTypeOK, Metadata, ExecutionState, TerminalState, ResultState
  <2>2. SupTypeOK'
    BY <1>17, GotoTypes DEF Lose, LockedPc, TryPc, UnguardedPc
  <2>3. SupPresence' /\ CancelPresence' /\ (result # None => result' # None)
    BY <1>17, <2>1, NoneIsNoContent
    DEF Lose, SupPresence, CancelPresence, StoreTypeOK, SupTypeOK, At, Goto, storeVars
  <2>4. QED
    BY <2>1, <2>2, <2>3
<1>18. CASE KillSupervisor(s)
  <2>1. StoreTypeOK'
    BY <1>18, RunsAreDistinct DEF KillSupervisor, StoreTypeOK
  <2>2. SupTypeOK'
    BY <1>18 DEF KillSupervisor, SupTypeOK, Goto, LockedPc, TryPc, UnguardedPc, supVars
  <2>3. SupPresence' /\ CancelPresence' /\ (result # None => result' # None)
    BY <1>18, <2>1, NoneIsNoContent
    DEF KillSupervisor, SupPresence, CancelPresence, StoreTypeOK, SupTypeOK, At, Goto, supVars
  <2>4. QED
    BY <2>1, <2>2, <2>3
<1>19. CASE ChildExit(s)
  <2>1. StoreTypeOK'
    BY <1>19, RunsAreDistinct DEF ChildExit, StoreTypeOK, storeVars
  <2>2. SupTypeOK'
    BY <1>19 DEF ChildExit, SupTypeOK, Goto, LockedPc, TryPc, UnguardedPc

  <2>3. SupPresence' /\ CancelPresence' /\ (result # None => result' # None)
    BY <1>19, <2>1, NoneIsNoContent
    DEF ChildExit, SupPresence, CancelPresence, StoreTypeOK, SupTypeOK, At, Goto, storeVars
  <2>4. QED
    BY <2>1, <2>2, <2>3
<1>20. CASE Join(s)
  <2>1. StoreTypeOK'
    BY <1>20 DEF Join, StoreTypeOK, storeVars
  <2>2. SupTypeOK'
    BY <1>20, GotoTypes DEF Join, LockedPc, TryPc, UnguardedPc
  <2>3. SupPresence' /\ CancelPresence' /\ (result # None => result' # None)
    BY <1>20, <2>1, NoneIsNoContent
    DEF Join, UnguardedPc, SupPresence, CancelPresence, StoreTypeOK, SupTypeOK, At, Goto, storeVars
  <2>4. QED
    BY <2>1, <2>2, <2>3
<1>21. CASE GiveUp(s)
  <2>1. StoreTypeOK'
    BY <1>21 DEF GiveUp, StoreTypeOK, storeVars
  <2>2. SupTypeOK'
    BY <1>21, GotoTypes DEF GiveUp, LockedPc, TryPc, UnguardedPc
  <2>3. SupPresence' /\ CancelPresence' /\ (result # None => result' # None)
    BY <1>21, <2>1, NoneIsNoContent
    DEF GiveUp, UnguardedPc, SupPresence, CancelPresence, StoreTypeOK, SupTypeOK, At, Goto, storeVars
  <2>4. QED
    BY <2>1, <2>2, <2>3
<1>22. CASE OutputCloses(s)
  <2>1. StoreTypeOK'
    BY <1>22 DEF OutputCloses, StoreTypeOK, storeVars
  <2>2. SupTypeOK'
    BY <1>22 DEF OutputCloses, SupTypeOK
  <2>3. SupPresence' /\ CancelPresence' /\ (result # None => result' # None)
    BY <1>22, <2>1, NoneIsNoContent
    DEF OutputCloses, UnguardedPc, SupPresence, CancelPresence, StoreTypeOK, SupTypeOK, At, Goto, storeVars
  <2>4. QED
    BY <2>1, <2>2, <2>3
<1>23. QED
  BY <1>1, <1>2, <1>3, <1>4, <1>5, <1>6, <1>7, <1>8, <1>9, <1>10, <1>11, <1>12, <1>13, <1>14, <1>15, <1>16, <1>17, <1>18, <1>19, <1>20, <1>21, <1>22 DEF RunStep, SupStep

(* The same of cancellations.                                              *)
LEMMA CancelTypeInv ==
  ASSUME StoreTypeOK, SupTypeOK, SupPresence, CancelPresence,
         NEW c \in Cancels, CancelStep(c)
  PROVE  /\ StoreTypeOK' /\ SupTypeOK' /\ SupPresence' /\ CancelPresence'
         /\ UNCHANGED <<result, delivery>>
<1>1. CASE CancelRead(c)
  <2>1. StoreTypeOK' /\ UNCHANGED <<result, delivery>>
    BY <1>1 DEF CancelRead, StoreTypeOK, Metadata, storeVars
  <2>2. SupTypeOK'
    BY <1>1 DEF CancelRead, SupTypeOK, StoreTypeOK, Metadata, CancelPc, CancelGoto, CancelPresence
  <2>3. SupPresence' /\ CancelPresence'
    BY <1>1 DEF CancelRead, SupPresence, CancelPresence, SupTypeOK, CancelGoto, storeVars
  <2>4. QED
    BY <2>1, <2>2, <2>3
<1>2. CASE CancelRequest(c)
  <2>1. StoreTypeOK' /\ UNCHANGED <<result, delivery>>
    BY <1>2 DEF CancelRequest, StoreTypeOK, Metadata, storeVars
  <2>2. SupTypeOK'
    BY <1>2 DEF CancelRequest, SupTypeOK, StoreTypeOK, Metadata, CancelPc, CancelGoto, CancelPresence
  <2>3. SupPresence' /\ CancelPresence'
    BY <1>2 DEF CancelRequest, SupPresence, CancelPresence, SupTypeOK, CancelGoto, storeVars
  <2>4. QED
    BY <2>1, <2>2, <2>3
<1>3. CASE CancelTerm(c)
  <2>1. StoreTypeOK' /\ UNCHANGED <<result, delivery>>
    BY <1>3 DEF CancelTerm, StoreTypeOK, Metadata, storeVars
  <2>2. SupTypeOK'
    BY <1>3 DEF CancelTerm, SupTypeOK, StoreTypeOK, Metadata, CancelPc, CancelGoto, CancelPresence
  <2>3. SupPresence' /\ CancelPresence'
    BY <1>3 DEF CancelTerm, SupPresence, CancelPresence, SupTypeOK, CancelGoto, storeVars
  <2>4. QED
    BY <2>1, <2>2, <2>3
<1>4. CASE CancelGrace(c)
  <2>1. StoreTypeOK' /\ UNCHANGED <<result, delivery>>
    BY <1>4 DEF CancelGrace, StoreTypeOK, Metadata, storeVars
  <2>2. SupTypeOK'
    BY <1>4 DEF CancelGrace, SupTypeOK, StoreTypeOK, Metadata, CancelPc, CancelGoto, CancelPresence
  <2>3. SupPresence' /\ CancelPresence'
    BY <1>4 DEF CancelGrace, SupPresence, CancelPresence, SupTypeOK, CancelGoto, storeVars
  <2>4. QED
    BY <2>1, <2>2, <2>3
<1>5. CASE CancelKill(c)
  <2>1. StoreTypeOK' /\ UNCHANGED <<result, delivery>>
    BY <1>5 DEF CancelKill, StoreTypeOK, Metadata, storeVars
  <2>2. SupTypeOK'
    BY <1>5 DEF CancelKill, SupTypeOK, StoreTypeOK, Metadata, CancelPc, CancelGoto, CancelPresence
  <2>3. SupPresence' /\ CancelPresence'
    BY <1>5 DEF CancelKill, SupPresence, CancelPresence, SupTypeOK, CancelGoto, storeVars
  <2>4. QED
    BY <2>1, <2>2, <2>3
<1>6. QED
  BY <1>1, <1>2, <1>3, <1>4, <1>5 DEF CancelStep

(* What a recovery writes for a lost job is a result.                      *)
LEMMA SyntheticLossType ==
  ASSUME NEW r \in Recoveries, NEW state \in {"LOST", "ORPHANED"}
  PROVE  SyntheticLoss(r, state) \in Result
BY DEF SyntheticLoss, Result, TerminalState, ResultState

(* Recovery's steps keep the types of the files and of the recoveries.     *)
LEMMA RecoveryTypeInv ==
  ASSUME StoreTypeOK, RecTypeOK, RecPresence, NEW r \in Recoveries,
         RecoverMeta(r) \/ RecContinue(r) \/ StopRecovery(r)
  PROVE  /\ StoreTypeOK' /\ RecTypeOK' /\ RecPresence'
         /\ result # None => result' # None
<1> USE NoneIsNoContent
<1>1. CASE RecoverMeta(r)
  <2>1. StoreTypeOK'
    BY <1>1 DEF RecoverMeta, StoreTypeOK, storeVars
  <2>2. RecTypeOK'
    BY <1>1 DEF RecoverMeta, RecTypeOK, StoreTypeOK, RecPc, RecSet, RecGoto, RecEnd, Idle
  <2>3. RecPresence' /\ (result # None => result' # None)
    BY <1>1 DEF RecoverMeta, RecPresence, RecTypeOK, StoreTypeOK, RecAt, RecSet, RecGoto, RecEnd, Idle, storeVars
  <2>4. QED
    BY <2>1, <2>2, <2>3
<1>2. CASE RecoverResult(r)
  <2>1. PICK pc \in RecPc, res \in Result \cup {None} :
          /\ RecSet(r, [rec[r] EXCEPT !.pc = pc, !.result = res])
          /\ \/ pc = "probe"
             \/ pc \in {"loss_result", "reconcile", "repair_read"} /\ res # None
          /\ pc \in {"reconcile", "repair_read"} => result # None
    BY <1>2, SyntheticLossType DEF RecoverResult, StoreTypeOK, RecPc
  <2>2. StoreTypeOK' /\ UNCHANGED result
    BY <1>2 DEF RecoverResult, StoreTypeOK, storeVars
  <2>3. RecTypeOK'
    BY <2>1 DEF RecTypeOK, RecSet
  <2>4. RecPresence'
    BY <2>1, <2>2 DEF RecTypeOK, RecSet, RecPresence
  <2>5. QED
    BY <2>2, <2>3, <2>4
<1>3. CASE Probe(r)
  <2>1. PICK v \in [pc : RecPc, meta : Metadata \cup {None},
                    result : Result \cup {None}, delivery : Delivery \cup {None}] :
          /\ RecSet(r, v)
          /\ v.pc = "running" \/ (v.pc = "loss_result" /\ v.result # None)
    <3>1. CASE RecEnd(r, "running")
      BY <3>1 DEF RecEnd, Idle, RecPc
    <3>2. CASE \E state \in {"LOST", "ORPHANED"} :
                 RecSet(r, [rec[r] EXCEPT !.pc = "loss_result",
                                          !.result = SyntheticLoss(r, state)])
      <4>1. PICK state \in {"LOST", "ORPHANED"} :
              RecSet(r, [rec[r] EXCEPT !.pc = "loss_result",
                                       !.result = SyntheticLoss(r, state)])
        BY <3>2
      <4>2. SyntheticLoss(r, state) \in Result
        BY SyntheticLossType
      <4> DEFINE v == [rec[r] EXCEPT !.pc = "loss_result",
                                     !.result = SyntheticLoss(r, state)]
      <4>3. /\ v \in [pc : RecPc, meta : Metadata \cup {None},
                      result : Result \cup {None}, delivery : Delivery \cup {None}]
            /\ v.pc = "loss_result" /\ v.result # None
        BY <4>2 DEF RecTypeOK, RecPc
      <4>4. QED
        BY <4>1, <4>3
    <3>3. QED
      BY <1>3, <3>1, <3>2 DEF Probe
  <2>2. StoreTypeOK' /\ UNCHANGED result
    BY <1>3 DEF Probe, StoreTypeOK, storeVars
  <2>3. RecTypeOK'
    BY <2>1 DEF RecTypeOK, RecSet
  <2>4. RecPresence'
    BY <2>1, <2>2 DEF RecTypeOK, RecSet, RecPresence
  <2>5. QED
    BY <2>2, <2>3, <2>4
<1>4. CASE LossResult(r)
  <2>1. StoreTypeOK'
    BY <1>4 DEF LossResult, StoreTypeOK, RecTypeOK, RecPresence, RecAt
  <2>2. RecTypeOK'
    BY <1>4, RecSetTypes DEF LossResult, RecPc
  <2>3. RecPresence' /\ (result # None => result' # None)
    BY <1>4 DEF LossResult, RecPresence, RecTypeOK, StoreTypeOK, RecAt, RecSet, RecGoto, RecEnd, Idle, storeVars
  <2>4. QED
    BY <2>1, <2>2, <2>3
<1>5. CASE LossMeta(r)
  <2>1. StoreTypeOK'
    BY <1>5 DEF LossMeta, StoreTypeOK, RecTypeOK, RecPresence, RecAt, ReconcileMetadata, Result, Metadata, ExecutionState
  <2>2. RecTypeOK'
    BY <1>5, RecSetTypes DEF LossMeta, RecPc
  <2>3. RecPresence' /\ (result # None => result' # None)
    BY <1>5 DEF LossMeta, RecPresence, RecTypeOK, StoreTypeOK, RecAt, RecSet, RecGoto, RecEnd, Idle, storeVars
  <2>4. QED
    BY <2>1, <2>2, <2>3
<1>6. CASE LossDelivery(r)
  <2>1. StoreTypeOK'
    BY <1>6 DEF LossDelivery, StoreTypeOK, AnnounceResult, Delivery, DeliveryState
  <2>2. RecTypeOK'
    BY <1>6, RecSetTypes DEF LossDelivery, RecPc
  <2>3. RecPresence' /\ (result # None => result' # None)
    BY <1>6 DEF LossDelivery, RecPresence, RecTypeOK, StoreTypeOK, RecAt, RecSet, RecGoto, RecEnd, Idle, storeVars
  <2>4. QED
    BY <2>1, <2>2, <2>3
<1>7. CASE Reconcile(r)
  <2>1. StoreTypeOK'
    BY <1>7 DEF Reconcile, StoreTypeOK, RecTypeOK, RecPresence, RecAt, ReconcileMetadata, Result, Metadata, ExecutionState
  <2>2. RecTypeOK'
    BY <1>7, RecSetTypes DEF Reconcile, RecPc
  <2>3. RecPresence' /\ (result # None => result' # None)
    BY <1>7 DEF Reconcile, RecPresence, RecTypeOK, StoreTypeOK, RecAt, RecSet, RecGoto, RecEnd, Idle, storeVars
  <2>4. QED
    BY <2>1, <2>2, <2>3
<1>8. CASE RepairRead(r)
  <2>1. rec[r].result \in Result /\ result # None
    BY <1>8 DEF RepairRead, RecTypeOK, RecPresence, RecAt
  <2>a. rec[r].result.event \in Event /\ rec[r].result.event # None
    BY <2>1, RunsAreDistinct DEF Result
  <2>b. [delivery EXCEPT !.event = rec[r].result.event] \in Delivery
    BY <2>a DEF StoreTypeOK, Delivery
  <2>2. PICK read \in Delivery :
          /\ RecSet(r, [rec[r] EXCEPT !.pc = "repair_payload", !.delivery = read])
          /\ read.event # None
    BY <1>8, <2>a, <2>b DEF RepairRead, StoreTypeOK, Delivery
  <2>3. StoreTypeOK' /\ UNCHANGED result
    BY <1>8 DEF RepairRead, StoreTypeOK, storeVars
  <2>4. RecTypeOK'
    BY <2>2 DEF RecTypeOK, RecSet, RecPc
  <2>5. RecPresence'
    BY <2>1, <2>2, <2>3 DEF RecTypeOK, RecSet, RecPresence
  <2>6. QED
    BY <2>3, <2>4, <2>5
<1>9. CASE RepairPayload(r)
  <2>1. /\ rec[r].result \in Result /\ result # None
        /\ rec[r].delivery \in Delivery /\ rec[r].delivery.event # None
    BY <1>9 DEF RepairPayload, RecTypeOK, RecPresence, RecAt
  <2>2. \A state \in DeliveryState, valid \in BOOLEAN :
          RepairedState(state, valid) \in DeliveryState \ {"NOT_READY"}
    BY DEF RepairedState, DeliveryState
  <2>3. PICK state \in DeliveryState \ {"NOT_READY"} :
          RecSet(r, [rec[r] EXCEPT !.pc = "repair_write",
                       !.delivery = [rec[r].delivery EXCEPT !.state = state]])
    BY <1>9, <2>1, <2>2 DEF RepairPayload, Delivery
  <2>4. StoreTypeOK' /\ UNCHANGED result
    BY <1>9 DEF RepairPayload, StoreTypeOK, storeVars
  <2>5. RecTypeOK'
    <3>1. "repair_write" \in RecPc
      BY DEF RecPc
    <3>2. [rec[r].delivery EXCEPT !.state = state] \in Delivery
      BY <2>1, <2>3 DEF Delivery
    <3>3. QED
      BY <2>3, <3>1, <3>2 DEF RecTypeOK, RecSet
  <2>6. RecPresence'
    BY <2>1, <2>3, <2>4 DEF RecTypeOK, RecSet, RecPresence, Delivery
  <2>7. QED
    BY <2>4, <2>5, <2>6
<1>10. CASE RepairWrite(r)
  <2>1. StoreTypeOK'
    BY <1>10 DEF RepairWrite, StoreTypeOK, RecTypeOK, RecPresence, RecAt
  <2>2. RecTypeOK'
    BY <1>10, RecSetTypes DEF RepairWrite, RecPc
  <2>3. RecPresence' /\ (result # None => result' # None)
    BY <1>10 DEF RepairWrite, RecPresence, RecTypeOK, StoreTypeOK, RecAt, RecSet, RecGoto, RecEnd, Idle, storeVars
  <2>4. QED
    BY <2>1, <2>2, <2>3
<1>11. CASE StopRecovery(r)
  <2>1. StoreTypeOK'
    BY <1>11 DEF StopRecovery, StoreTypeOK, storeVars
  <2>2. RecTypeOK'
    BY <1>11, RecSetTypes DEF StopRecovery, RecPc
  <2>3. RecPresence' /\ (result # None => result' # None)
    BY <1>11 DEF StopRecovery, RecPresence, RecTypeOK, StoreTypeOK, RecAt, RecSet, RecGoto, RecEnd, Idle, storeVars
  <2>4. QED
    BY <2>1, <2>2, <2>3
<1>12. QED
  BY <1>1, <1>2, <1>3, <1>4, <1>5, <1>6, <1>7, <1>8, <1>9, <1>10, <1>11 DEF RecContinue

(* The outbox's steps keep the types of the files and of its runs.         *)
LEMMA OutboxTypeInv ==
  ASSUME StoreTypeOK, DlvTypeOK, DlvPresence, DlvNext
  PROVE  StoreTypeOK' /\ DlvTypeOK' /\ DlvPresence' /\ UNCHANGED result
<1> USE NoneIsNoContent
<1>1. ASSUME NEW d \in Deliveries, DeliverCheck(d)
      PROVE  StoreTypeOK' /\ DlvTypeOK' /\ DlvPresence' /\ UNCHANGED result
  <2>1. StoreTypeOK' /\ UNCHANGED result
    BY <1>1 DEF DeliverCheck, StoreTypeOK, DlvTypeOK, DlvPresence, DlvAt, storeVars
  <2>2. DlvTypeOK'
    <3>1. PICK pc \in {"claim", "error"}, cli \in BOOLEAN, dup \in BOOLEAN :
            dlv' = [dlv EXCEPT ![d] = [pc |-> pc, cli |-> cli, dup |-> dup, event |-> None]]
      BY <1>1 DEF DeliverCheck
    <3>2. UNCHANGED <<ack, retry, received>> /\ {"claim", "error"} \subseteq DlvPc
      BY <1>1 DEF DeliverCheck, DlvPc
    <3>3. QED
      BY <3>1, <3>2 DEF DlvTypeOK
  <2>3. DlvPresence'
    BY <1>1, <2>1 DEF DeliverCheck, DlvPresence, DlvTypeOK, DlvGoto, DlvAt, StoreTypeOK, storeVars
  <2>4. QED
    BY <2>1, <2>2, <2>3
<1>2. ASSUME NEW d \in Deliveries, Claim(d)
      PROVE  StoreTypeOK' /\ DlvTypeOK' /\ DlvPresence' /\ UNCHANGED result
  <2>1. StoreTypeOK' /\ UNCHANGED result
    BY <1>2 DEF Claim, StoreTypeOK, DlvTypeOK, DlvPresence, DlvAt, Delivery, DeliveryState
  <2>2. DlvTypeOK'
    BY <1>2 DEF Claim, DlvTypeOK, DlvPc, DlvGoto, DlvPresence, DlvAt, StoreTypeOK, Delivery, DeliveryState
  <2>3. DlvPresence'
    BY <1>2, <2>1 DEF Claim, DlvPresence, DlvTypeOK, DlvGoto, DlvAt, StoreTypeOK, Delivery, DeliveryState
  <2>4. QED
    BY <2>1, <2>2, <2>3
<1>3. ASSUME NEW d \in Deliveries, StartSending(d)
      PROVE  StoreTypeOK' /\ DlvTypeOK' /\ DlvPresence' /\ UNCHANGED result
  <2>1. StoreTypeOK' /\ UNCHANGED result
    BY <1>3 DEF StartSending, StoreTypeOK, DlvTypeOK, DlvPresence, DlvAt, UpdateOrFail, UpdateDelivery, CanDeliver, Delivery, DeliveryState
  <2>2. DlvTypeOK'
    BY <1>3, DlvGotoTypes DEF StartSending, UpdateOrFail, DlvPc
  <2>3. DlvPresence'
    BY <1>3, <2>1, DlvGotoPresence DEF StartSending, UpdateOrFail, DlvPresence, DlvAt
  <2>4. QED
    BY <2>1, <2>2, <2>3
<1>4. ASSUME NEW d \in Deliveries, ReadEvent(d)
      PROVE  StoreTypeOK' /\ DlvTypeOK' /\ DlvPresence' /\ UNCHANGED result
  <2>1. result # None /\ result.event \in Event /\ result.event # None
    BY <1>4, RunsAreDistinct DEF ReadEvent, DlvPresence, DlvAt, StoreTypeOK, Result
  <2>2. PICK event \in Event :
          /\ dlv' = [dlv EXCEPT ![d] = [@ EXCEPT !.pc = "payload", !.event = event]]
          /\ event # None
    BY <1>4, <2>1 DEF ReadEvent
  <2>3. StoreTypeOK' /\ UNCHANGED <<result, ack, retry, received>>
    BY <1>4 DEF ReadEvent, StoreTypeOK, storeVars
  <2>4. DlvTypeOK'
    <3>1. "payload" \in DlvPc
      BY DEF DlvPc
    <3>2. QED
      BY <2>2, <2>3, <3>1 DEF DlvTypeOK
  <2>5. DlvPresence'
    BY <2>1, <2>2, <2>3 DEF DlvPresence, DlvTypeOK
  <2>6. QED
    BY <2>3, <2>4, <2>5
<1>5. ASSUME NEW d \in Deliveries, WritePayload(d)
      PROVE  StoreTypeOK' /\ DlvTypeOK' /\ DlvPresence' /\ UNCHANGED result
  <2>1. StoreTypeOK' /\ UNCHANGED result
    BY <1>5 DEF WritePayload, StoreTypeOK, DlvTypeOK, DlvPresence, DlvAt, storeVars
  <2>2. DlvTypeOK'
    <3>1. <<d, dlv[d].event>> \in Deliveries \X Event
      BY <1>5 DEF WritePayload, DlvAt, DlvTypeOK, DlvPresence
    <3>2. {"send", "sent", "failed"} \subseteq DlvPc
      BY DEF DlvPc
    <3>3. QED
      BY <1>5, <3>1, <3>2, DlvGotoTypes DEF WritePayload
  <2>3. DlvPresence'
    BY <1>5, <2>1, DlvGotoPresence DEF WritePayload, DlvPresence, DlvAt
  <2>4. QED
    BY <2>1, <2>2, <2>3
<1>6. ASSUME NEW d \in Deliveries, CliResume(d)
      PROVE  StoreTypeOK' /\ DlvTypeOK' /\ DlvPresence' /\ UNCHANGED result
  <2>1. StoreTypeOK' /\ UNCHANGED result
    BY <1>6 DEF CliResume, StoreTypeOK, DlvTypeOK, DlvPresence, DlvAt, storeVars
  <2>2. DlvTypeOK'
    <3>1. <<d, dlv[d].event>> \in Deliveries \X Event
      BY <1>6 DEF CliResume, DlvAt, DlvTypeOK, DlvPresence
    <3>2. {"send", "sent", "failed"} \subseteq DlvPc
      BY DEF DlvPc
    <3>3. QED
      BY <1>6, <3>1, <3>2, DlvGotoTypes DEF CliResume
  <2>3. DlvPresence'
    BY <1>6, <2>1, DlvGotoPresence DEF CliResume, DlvPresence, DlvAt
  <2>4. QED
    BY <2>1, <2>2, <2>3
<1>7. ASSUME NEW d \in Deliveries, RecordSent(d)
      PROVE  StoreTypeOK' /\ DlvTypeOK' /\ DlvPresence' /\ UNCHANGED result
  <2>1. StoreTypeOK' /\ UNCHANGED result
    BY <1>7 DEF RecordSent, StoreTypeOK, DlvTypeOK, DlvPresence, DlvAt, UpdateOrFail, UpdateDelivery, CanDeliver, Delivery, DeliveryState
  <2>2. DlvTypeOK'
    BY <1>7, DlvGotoTypes DEF RecordSent, UpdateOrFail, DlvPc
  <2>3. DlvPresence'
    BY <1>7, <2>1, DlvGotoPresence DEF RecordSent, UpdateOrFail, DlvPresence, DlvAt
  <2>4. QED
    BY <2>1, <2>2, <2>3
<1>8. ASSUME NEW d \in Deliveries, RecordFailed(d)
      PROVE  StoreTypeOK' /\ DlvTypeOK' /\ DlvPresence' /\ UNCHANGED result
  <2>1. StoreTypeOK' /\ UNCHANGED result
    BY <1>8 DEF RecordFailed, StoreTypeOK, DlvTypeOK, DlvPresence, DlvAt, UpdateOrFail, UpdateDelivery, CanDeliver, Delivery, DeliveryState
  <2>2. DlvTypeOK'
    BY <1>8, DlvGotoTypes DEF RecordFailed, UpdateOrFail, DlvPc
  <2>3. DlvPresence'
    BY <1>8, <2>1, DlvGotoPresence DEF RecordFailed, UpdateOrFail, DlvPresence, DlvAt
  <2>4. QED
    BY <2>1, <2>2, <2>3
<1>9. ASSUME NEW d \in Deliveries, StopDelivery(d)
      PROVE  StoreTypeOK' /\ DlvTypeOK' /\ DlvPresence' /\ UNCHANGED result
  <2>1. StoreTypeOK' /\ UNCHANGED result
    BY <1>9 DEF StopDelivery, StoreTypeOK, storeVars
  <2>2. DlvTypeOK'
    BY <1>9, DlvGotoTypes DEF StopDelivery, DlvPc
  <2>3. DlvPresence'
    BY <1>9, <2>1, DlvGotoPresence DEF StopDelivery, InFlight, DlvPresence
  <2>4. QED
    BY <2>1, <2>2, <2>3
<1>10. ASSUME NEW a \in Acks, AckRead(a)
      PROVE  StoreTypeOK' /\ DlvTypeOK' /\ DlvPresence' /\ UNCHANGED result
  <2>1. StoreTypeOK' /\ UNCHANGED result
    BY <1>10 DEF AckRead, StoreTypeOK, DlvTypeOK, DlvPresence, DlvAt, storeVars
  <2>2. DlvTypeOK'
    BY <1>10 DEF AckRead, DlvTypeOK, DlvPc, DlvGoto, DlvPresence, DlvAt, StoreTypeOK, storeVars
  <2>3. DlvPresence'
    BY <1>10, <2>1 DEF AckRead, DlvPresence, DlvTypeOK, DlvGoto, DlvAt, StoreTypeOK, storeVars
  <2>4. QED
    BY <2>1, <2>2, <2>3
<1>11. ASSUME NEW a \in Acks, AckWrite(a)
      PROVE  StoreTypeOK' /\ DlvTypeOK' /\ DlvPresence' /\ UNCHANGED result
  <2>1. StoreTypeOK' /\ UNCHANGED result
    BY <1>11 DEF AckWrite, StoreTypeOK, DlvTypeOK, DlvPresence, DlvAt, UpdateDelivery, Delivery, DeliveryState
  <2>2. DlvTypeOK'
    BY <1>11 DEF AckWrite, DlvTypeOK, DlvPc, DlvGoto, DlvPresence, DlvAt, StoreTypeOK, UpdateDelivery, Delivery, DeliveryState
  <2>3. DlvPresence'
    BY <1>11, <2>1 DEF AckWrite, DlvPresence, DlvTypeOK, DlvGoto, DlvAt, StoreTypeOK, UpdateDelivery, Delivery, DeliveryState
  <2>4. QED
    BY <2>1, <2>2, <2>3
<1>12. ASSUME NEW t \in Retries, RetryRead(t)
      PROVE  StoreTypeOK' /\ DlvTypeOK' /\ DlvPresence' /\ UNCHANGED result
  <2>1. StoreTypeOK' /\ UNCHANGED result
    BY <1>12 DEF RetryRead, StoreTypeOK, DlvTypeOK, DlvPresence, DlvAt, storeVars
  <2>2. DlvTypeOK'
    BY <1>12 DEF RetryRead, DlvTypeOK, DlvPc, DlvGoto, DlvPresence, DlvAt, StoreTypeOK, storeVars
  <2>3. DlvPresence'
    BY <1>12, <2>1 DEF RetryRead, DlvPresence, DlvTypeOK, DlvGoto, DlvAt, StoreTypeOK, storeVars
  <2>4. QED
    BY <2>1, <2>2, <2>3
<1>13. ASSUME NEW t \in Retries, RetryWrite(t)
      PROVE  StoreTypeOK' /\ DlvTypeOK' /\ DlvPresence' /\ UNCHANGED result
  <2>1. StoreTypeOK' /\ UNCHANGED result
    BY <1>13 DEF RetryWrite, StoreTypeOK, DlvTypeOK, DlvPresence, DlvAt, UpdateDelivery, Delivery, DeliveryState
  <2>2. DlvTypeOK'
    BY <1>13 DEF RetryWrite, DlvTypeOK, DlvPc, DlvGoto, DlvPresence, DlvAt, StoreTypeOK, UpdateDelivery, Delivery, DeliveryState
  <2>3. DlvPresence'
    BY <1>13, <2>1 DEF RetryWrite, DlvPresence, DlvTypeOK, DlvGoto, DlvAt, StoreTypeOK, UpdateDelivery, Delivery, DeliveryState
  <2>4. QED
    BY <2>1, <2>2, <2>3
<1>14. QED
  BY <1>1, <1>2, <1>3, <1>4, <1>5, <1>6, <1>7, <1>8, <1>9, <1>10, <1>11, <1>12, <1>13 DEF DlvNext, DlvContinue

-----------------------------------------------------------------------------
(* Every step keeps the type invariant, and result.json never disappears.  *)
LEMMA NextTypeInv ==
  ASSUME TypeInv, [Next]_vars
  PROVE  TypeInv' /\ (result # None => result' # None)
<1> USE DEF TypeInv, TypeOK, Presence
<1>1. ASSUME SupNext, UNCHANGED <<rec, dlvVars>>
      PROVE  TypeInv' /\ (result # None => result' # None)
  <2>1. /\ StoreTypeOK' /\ SupTypeOK' /\ SupPresence' /\ CancelPresence'
        /\ result # None => result' # None
    BY <1>1, SupervisorTypeInv, CancelTypeInv DEF SupNext
  <2>2. QED
    BY <1>1, <2>1, RecFrame, DlvFrame
<1>2. ASSUME RecNext, UNCHANGED dlvVars
      PROVE  TypeInv' /\ (result # None => result' # None)
  <2>1. /\ StoreTypeOK' /\ RecTypeOK' /\ RecPresence'
        /\ result # None => result' # None
    BY <1>2, RecoveryTypeInv DEF RecNext
  <2>2. UNCHANGED supVars
    BY <1>2 DEF RecNext, RecContinue, RecoverMeta, RecoverResult, Probe, LossResult,
      LossMeta, LossDelivery, Reconcile, RepairRead, RepairPayload, RepairWrite,
      StopRecovery
  <2>3. QED
    BY <1>2, <2>1, <2>2, SupFrame, DlvFrame
<1>3. ASSUME DlvNext, UNCHANGED <<supVars, rec>>
      PROVE  TypeInv' /\ (result # None => result' # None)
  BY <1>3, OutboxTypeInv, SupFrame, RecFrame
<1>4. ASSUME UNCHANGED vars
      PROVE  TypeInv' /\ (result # None => result' # None)
  <2>1. StoreTypeOK'
    BY <1>4 DEF vars, storeVars, StoreTypeOK
  <2>2. QED
    BY <1>4, <2>1, SupFrame, RecFrame, DlvFrame DEF vars, storeVars
<1>5. QED
  BY <1>1, <1>2, <1>3, <1>4 DEF Next

(* Type correctness, with what each run's place in its code guarantees: no *)
(* run ever uses a field of a result, a delivery or an identity it has not *)
(* got (the None that Python would trip over).                             *)
THEOREM AlwaysTypeInv == Spec => []TypeInv
<1>1. TypeInv /\ [Next]_vars => TypeInv'
  BY NextTypeInv
<1>2. QED
  BY <1>1, InitTypeInv, PTL DEF Spec

(* Every file and every run's state has its type in every reachable state. *)
THEOREM TypeCorrect == Spec => []TypeOK
<1>1. TypeInv => TypeOK
  BY DEF TypeInv
<1>2. QED
  BY <1>1, AlwaysTypeInv, PTL

-----------------------------------------------------------------------------
(* No exit is invented.  A run's own copies are as honest as the files, and *)
(* a command is forked once: an exit, once it happened, stays.             *)
SupExitInv ==
  \A s \in Supervisors :
    /\ sup[s].pc \in {"idle", "preflight", "starting", "popen", "fail_read",
                      "fail_meta", "fail_result", "fail_delivery"} =>
         child[s] = "unborn"
    /\ sup[s].exit # None => child[s] = sup[s].exit
    /\ Honest(sup[s].result, child)

RecExitInv == \A r \in Recoveries : Honest(rec[r].result, child)

ExitInv == NoInventedExit /\ SupExitInv /\ RecExitInv

LEMMA InitExitInv == Init => ExitInv
BY DEF Init, StoreInit, SupInit, RecInit, Idle, ExitInv, SupExitInv, RecExitInv,
       NoInventedExit, Honest

(* Exits only happen: what is honest now stays honest.                     *)
ExitsStay == \A s \in Supervisors : child[s] \in ExitStatus => child'[s] = child[s]

LEMMA HonestStays ==
  ASSUME ExitsStay, NEW res \in Result \cup {None}, Honest(res, child)
  PROVE  Honest(res, child')
BY NoneIsNoStatus DEF ExitsStay, Honest, Result

LEMMA NextExitsStay ==
  ASSUME TypeInv, SupExitInv, [Next]_vars
  PROVE  ExitsStay
<1> USE DEF TypeInv, TypeOK, SupTypeOK
<1>1. ASSUME NEW s \in Supervisors, Popen(s) PROVE ExitsStay
  BY <1>1 DEF Popen, SupExitInv, At, ExitsStay
<1>2. ASSUME NEW s \in Supervisors, ChildExit(s) PROVE ExitsStay
  BY <1>2 DEF ChildExit, ExitsStay
<1>3. ASSUME UNCHANGED child PROVE ExitsStay
  BY <1>3 DEF ExitsStay
<1>4. ASSUME NEW s \in Supervisors,
             RunStep(s)
      PROVE  Popen(s) \/ ChildExit(s) \/ UNCHANGED child
  BY <1>4 DEF RunStep, SupStep, Lock, Preflight, FailRead, FailMeta, FailResult, FailDelivery,
    Starting, RecordRunning, Wait, Join, Decide, WriteResult, WriteMeta, WriteDelivery,
    Raise, GiveUp, HandleException, Lose, KillSupervisor, OutputCloses, supVars
<1>5. ASSUME NEW c \in Cancels, CancelStep(c) PROVE UNCHANGED child
  BY <1>5 DEF CancelStep, CancelRead, CancelRequest, CancelTerm, CancelGrace, CancelKill
<1>6. ASSUME RecNext PROVE UNCHANGED child
  BY <1>6 DEF RecNext, RecContinue, RecoverMeta, RecoverResult, Probe, LossResult,
    LossMeta, LossDelivery, Reconcile, RepairRead, RepairPayload, RepairWrite,
    StopRecovery, supVars
<1>7. QED
  BY <1>1, <1>2, <1>3, <1>4, <1>5, <1>6 DEF Next, SupNext, vars, supVars

(* The supervisor's steps report only exits that happened.                 *)
LEMMA SupervisorExitInv ==
  ASSUME TypeInv, ExitInv, ExitsStay, NEW s \in Supervisors,
         RunStep(s)
  PROVE  NoInventedExit' /\ SupExitInv'
<1>a. \A res \in Result \cup {None} : Honest(res, child) => Honest(res, child')
  BY HonestStays
<1>b. /\ result \in Result \cup {None}
      /\ \A t \in Supervisors : sup[t].result \in Result \cup {None}
  BY DEF TypeInv, TypeOK, StoreTypeOK, SupTypeOK
<1>1. CASE Lock(s)
  <2>1. NoInventedExit'
    BY <1>1, <1>a, <1>b DEF Lock, ExitInv, NoInventedExit, ExitsStay, TypeInv, TypeOK, StoreTypeOK, Metadata, storeVars
  <2>2. SupExitInv'
    BY <1>1, <1>a, <1>b DEF Lock, ExitInv, SupExitInv, ExitsStay, TypeInv, TypeOK, SupTypeOK, At, Goto, TryPc
  <2>3. QED
    BY <2>1, <2>2
<1>2. CASE Preflight(s)
  <2>1. NoInventedExit'
    BY <1>2, <1>a, <1>b DEF Preflight, ExitInv, NoInventedExit, ExitsStay, TypeInv, TypeOK, StoreTypeOK, Metadata, storeVars
  <2>2. SupExitInv'
    BY <1>2, <1>a, <1>b DEF Preflight, ExitInv, SupExitInv, ExitsStay, TypeInv, TypeOK, SupTypeOK, At, Goto, TryPc
  <2>3. QED
    BY <2>1, <2>2
<1>3. CASE FailRead(s)
  <2>1. NoInventedExit'
    BY <1>3, <1>a, <1>b DEF FailRead, ExitInv, NoInventedExit, ExitsStay, TypeInv, TypeOK, StoreTypeOK, Metadata, storeVars
  <2>2. SupExitInv'
    BY <1>3, <1>a, <1>b DEF FailRead, ExitInv, SupExitInv, ExitsStay, TypeInv, TypeOK, SupTypeOK, At, Goto, TryPc
  <2>3. QED
    BY <2>1, <2>2
<1>4. CASE FailMeta(s)
  <2>1. NoInventedExit'
    BY <1>4, <1>a, <1>b DEF FailMeta, ExitInv, NoInventedExit, ExitsStay, TypeInv, TypeOK, StoreTypeOK, Metadata, storeVars
  <2>2. SupExitInv'
    BY <1>4, <1>a, <1>b DEF FailMeta, ExitInv, SupExitInv, ExitsStay, TypeInv, TypeOK, SupTypeOK, At, Goto, TryPc
  <2>3. QED
    BY <2>1, <2>2
<1>5. CASE FailResult(s)
  <2>1. Honest(result', child) /\ UNCHANGED <<meta, child>>
    BY <1>5 DEF FailResult, FailureResult, Honest
  <2>2. NoInventedExit'
    BY <2>1 DEF ExitInv, NoInventedExit, Honest
  <2>3. SupExitInv'
    BY <1>5, <1>a, <1>b DEF FailResult, ExitInv, SupExitInv, ExitsStay, TypeInv, TypeOK, SupTypeOK, At, Goto, TryPc
  <2>4. QED
    BY <2>2, <2>3
<1>6. CASE FailDelivery(s)
  <2>1. NoInventedExit'
    BY <1>6, <1>a, <1>b DEF FailDelivery, ExitInv, NoInventedExit, ExitsStay, TypeInv, TypeOK, StoreTypeOK, Metadata, storeVars
  <2>2. SupExitInv'
    BY <1>6, <1>a, <1>b DEF FailDelivery, ExitInv, SupExitInv, ExitsStay, TypeInv, TypeOK, SupTypeOK, At, Goto, TryPc
  <2>3. QED
    BY <2>1, <2>2
<1>7. CASE Starting(s)
  <2>1. NoInventedExit'
    BY <1>7, <1>a, <1>b DEF Starting, ExitInv, NoInventedExit, ExitsStay, TypeInv, TypeOK, StoreTypeOK, Metadata, storeVars
  <2>2. PICK pc \in {"popen", "exception"} : sup' = [sup EXCEPT ![s].pc = pc]
    BY <1>7 DEF Starting, Goto
  <2>3. sup[s].pc = "starting" /\ UNCHANGED child
    BY <1>7 DEF Starting, At
  <2>4. \A t \in Supervisors : /\ sup'[t].exit = sup[t].exit
                               /\ sup'[t].result = sup[t].result
                               /\ t # s => sup'[t].pc = sup[t].pc
    BY <2>2 DEF TypeInv, TypeOK, SupTypeOK
  <2>5. child[s] = "unborn"
    BY <2>3 DEF ExitInv, SupExitInv
  <2>6. SupExitInv'
    BY <2>3, <2>4, <2>5 DEF ExitInv, SupExitInv, Honest
  <2>7. QED
    BY <2>1, <2>6
<1>8. CASE Popen(s)
  <2>1. NoInventedExit'
    BY <1>8, <1>a, <1>b DEF Popen, ExitInv, NoInventedExit, ExitsStay, TypeInv, TypeOK, StoreTypeOK, Metadata, storeVars
  <2>2. SupExitInv'
    <3>1. /\ sup' = [sup EXCEPT ![s].pc = "record"] /\ sup[s].pc = "popen"
          /\ child' = [child EXCEPT ![s] = "running"]
      BY <1>8 DEF Popen, At, Goto
    <3>2. \A t \in Supervisors : Honest(sup[t].result, child')
      BY <1>a, <1>b DEF ExitInv, SupExitInv
    <3>3. sup[s].exit = None
      BY <3>1 DEF ExitInv, SupExitInv, TypeInv, TypeOK, SupTypeOK
    <3>4. QED
      BY <3>1, <3>2, <3>3 DEF ExitInv, SupExitInv, TypeInv, TypeOK, SupTypeOK
  <2>3. QED
    BY <2>1, <2>2
<1>9. CASE RecordRunning(s)
  <2>1. NoInventedExit'
    BY <1>9, <1>a, <1>b DEF RecordRunning, ExitInv, NoInventedExit, ExitsStay, TypeInv, TypeOK, StoreTypeOK, Metadata, storeVars
  <2>2. SupExitInv'
    BY <1>9, <1>a, <1>b DEF RecordRunning, ExitInv, SupExitInv, ExitsStay, TypeInv, TypeOK, SupTypeOK, At, Goto, TryPc
  <2>3. QED
    BY <2>1, <2>2
<1>10. CASE Wait(s)
  <2>1. NoInventedExit'
    BY <1>10, <1>a, <1>b DEF Wait, ExitInv, NoInventedExit, ExitsStay, TypeInv, TypeOK, StoreTypeOK, Metadata, storeVars
  <2>2. SupExitInv'
    BY <1>10, <1>a, <1>b DEF Wait, ExitInv, SupExitInv, ExitsStay, TypeInv, TypeOK, SupTypeOK, At, Goto, TryPc
  <2>3. QED
    BY <2>1, <2>2
<1>11. CASE Decide(s)
  <2> DEFINE built(stale) ==
        [event        |-> s,
         state        |-> Outcome(meta.cancel, sup[s].exit, stale)[1],
         result_state |-> Outcome(meta.cancel, sup[s].exit, stale)[2],
         exit         |-> sup[s].exit,
         process      |-> s]
  <2>1. ASSUME NEW stale \in BOOLEAN PROVE Honest(built(stale), child)
    <3>1. sup[s].exit # None => child[s] = sup[s].exit
      BY DEF ExitInv, SupExitInv
    <3>2. Outcome(meta.cancel, sup[s].exit, stale)[1] \in {"COMPLETED", "COMPLETED_STALE"} =>
            sup[s].exit = "zero"
      BY DEF Outcome
    <3>3. QED
      BY <3>1, <3>2 DEF Honest
  <2>2. PICK stale \in BOOLEAN :
          sup' = [sup EXCEPT ![s] = [@ EXCEPT !.pc = "write_result", !.result = built(stale)]]
    BY <1>11 DEF Decide
  <2>3. UNCHANGED <<meta, result, child>>
    BY <1>11 DEF Decide, storeVars
  <2>4. NoInventedExit'
    BY <2>3 DEF ExitInv, NoInventedExit, Honest
  <2> HIDE DEF built
  <2>5. SupExitInv'
    <3>1. ASSUME NEW t \in Supervisors
          PROVE  /\ Honest(sup'[t].result, child)
                 /\ sup'[t].exit = sup[t].exit
                 /\ sup'[t].pc = sup[t].pc \/ sup'[t].pc = "write_result"
      BY <2>1, <2>2 DEF ExitInv, SupExitInv, TypeInv, TypeOK, SupTypeOK
    <3>2. QED
      BY <2>3, <3>1 DEF ExitInv, SupExitInv
  <2>6. QED
    BY <2>4, <2>5
<1>12. CASE WriteResult(s)
  <2>1. UNCHANGED <<meta, child>> /\ Goto(s, "write_meta") /\ result' = sup[s].result
    BY <1>12 DEF WriteResult
  <2>2. Honest(sup[s].result, child)
    BY DEF ExitInv, SupExitInv
  <2>3. NoInventedExit'
    BY <2>1, <2>2 DEF ExitInv, NoInventedExit, Honest
  <2>4. SupExitInv'
    BY <2>1 DEF ExitInv, SupExitInv, TypeInv, TypeOK, SupTypeOK, Goto
  <2>5. QED
    BY <2>3, <2>4
<1>13. CASE WriteMeta(s)
  <2>1. sup[s].result \in Result /\ Honest(sup[s].result, child)
    BY <1>13 DEF WriteMeta, ExitInv, SupExitInv, TypeInv, TypeOK, SupTypeOK, Presence,
      SupPresence, At
  <2>2. /\ UNCHANGED <<result, child>>
        /\ Goto(s, "write_delivery") \/ Goto(s, "exception")
    BY <1>13 DEF WriteMeta
  <2>3. \/ UNCHANGED meta
        \/ meta' = [meta EXCEPT !.state = sup[s].result.state, !.exit = sup[s].result.exit,
                                !.result_state = sup[s].result.result_state]
    BY <1>13 DEF WriteMeta
  <2>4. \/ UNCHANGED meta
        \/ meta'.exit = sup[s].result.exit /\ meta'.state = sup[s].result.state
    BY <2>3 DEF TypeInv, TypeOK, StoreTypeOK, Metadata
  <2>5. NoInventedExit'
    BY <2>1, <2>2, <2>4, NoneIsNoContent DEF ExitInv, NoInventedExit, Honest, Result
  <2>6. SupExitInv'
    BY <2>2 DEF ExitInv, SupExitInv, TypeInv, TypeOK, SupTypeOK, Goto
  <2>7. QED
    BY <2>5, <2>6
<1>14. CASE WriteDelivery(s)
  <2>1. NoInventedExit'
    BY <1>14, <1>a, <1>b DEF WriteDelivery, ExitInv, NoInventedExit, ExitsStay, TypeInv, TypeOK, StoreTypeOK, Metadata, storeVars
  <2>2. SupExitInv'
    BY <1>14, <1>a, <1>b DEF WriteDelivery, ExitInv, SupExitInv, ExitsStay, TypeInv, TypeOK, SupTypeOK, At, Goto, TryPc
  <2>3. QED
    BY <2>1, <2>2
<1>15. CASE Raise(s)
  <2>1. NoInventedExit'
    BY <1>15, <1>a, <1>b DEF Raise, GiveUp, ExitInv, NoInventedExit, ExitsStay, TypeInv, TypeOK, StoreTypeOK, Metadata, storeVars
  <2>2. SupExitInv'
    BY <1>15, <1>a, <1>b DEF Raise, GiveUp, ExitInv, SupExitInv, ExitsStay, TypeInv, TypeOK, SupTypeOK, At, Goto, TryPc
  <2>3. QED
    BY <2>1, <2>2
<1>16. CASE HandleException(s)
  <2>1. NoInventedExit'
    BY <1>16, <1>a, <1>b DEF HandleException, ExitInv, NoInventedExit, ExitsStay, TypeInv, TypeOK, StoreTypeOK, Metadata, storeVars
  <2>2. SupExitInv'
    BY <1>16, <1>a, <1>b DEF HandleException, ExitInv, SupExitInv, ExitsStay, TypeInv, TypeOK, SupTypeOK, At, Goto, TryPc
  <2>3. QED
    BY <2>1, <2>2
<1>17. CASE Lose(s)
  <2>1. NoInventedExit'
    BY <1>17, <1>a, <1>b DEF Lose, ExitInv, NoInventedExit, ExitsStay, TypeInv, TypeOK, StoreTypeOK, Metadata, storeVars
  <2>2. SupExitInv'
    BY <1>17, <1>a, <1>b DEF Lose, ExitInv, SupExitInv, ExitsStay, TypeInv, TypeOK, SupTypeOK, At, Goto, TryPc
  <2>3. QED
    BY <2>1, <2>2
<1>18. CASE KillSupervisor(s)
  <2>1. NoInventedExit'
    BY <1>18, <1>a, <1>b DEF KillSupervisor, ExitInv, NoInventedExit, ExitsStay, TypeInv, TypeOK, StoreTypeOK, Metadata, storeVars, supVars
  <2>2. SupExitInv'
    BY <1>18, <1>a, <1>b DEF KillSupervisor, ExitInv, SupExitInv, ExitsStay, TypeInv, TypeOK, SupTypeOK, At, Goto, TryPc, supVars
  <2>3. QED
    BY <2>1, <2>2
<1>19. CASE ChildExit(s)
  <2>1. NoInventedExit'
    BY <1>19, <1>a, <1>b DEF ChildExit, ExitInv, NoInventedExit, ExitsStay, TypeInv, TypeOK, StoreTypeOK, Metadata, storeVars
  <2>2. SupExitInv'
    BY <1>19, <1>a, <1>b DEF ChildExit, ExitInv, SupExitInv, ExitsStay, TypeInv, TypeOK, SupTypeOK, At, Goto, TryPc
  <2>3. QED
    BY <2>1, <2>2
<1>20. CASE Join(s)
  <2>1. NoInventedExit'
    BY <1>20, <1>a, <1>b DEF Join, ExitInv, NoInventedExit, storeVars
  <2>2. SupExitInv'
    BY <1>20, <1>a, <1>b DEF Join, UnguardedPc, ExitInv, SupExitInv, TypeInv, TypeOK, SupTypeOK, At, Goto, TryPc
  <2>3. QED
    BY <2>1, <2>2
<1>21. CASE GiveUp(s)
  <2>1. NoInventedExit'
    BY <1>21, <1>a, <1>b DEF GiveUp, ExitInv, NoInventedExit, storeVars
  <2>2. SupExitInv'
    BY <1>21, <1>a, <1>b DEF GiveUp, UnguardedPc, ExitInv, SupExitInv, TypeInv, TypeOK, SupTypeOK, At, Goto, TryPc
  <2>3. QED
    BY <2>1, <2>2
<1>22. CASE OutputCloses(s)
  <2>1. NoInventedExit'
    BY <1>22, <1>a, <1>b DEF OutputCloses, ExitInv, NoInventedExit, storeVars
  <2>2. SupExitInv'
    BY <1>22, <1>a, <1>b DEF OutputCloses, UnguardedPc, ExitInv, SupExitInv, TypeInv, TypeOK, SupTypeOK, At, Goto, TryPc
  <2>3. QED
    BY <2>1, <2>2
<1>23. QED
  BY <1>1, <1>2, <1>3, <1>4, <1>5, <1>6, <1>7, <1>8, <1>9, <1>10, <1>11, <1>12, <1>13, <1>14, <1>15, <1>16, <1>17, <1>18, <1>19, <1>20, <1>21, <1>22 DEF RunStep, SupStep

(* Recovery writes a result that says nothing of the exit, or one it read. *)
LEMMA RecoveryExitInv ==
  ASSUME TypeInv, NoInventedExit, RecExitInv, NEW r \in Recoveries,
         RecoverMeta(r) \/ RecContinue(r) \/ StopRecovery(r)
  PROVE  NoInventedExit' /\ RecExitInv'
<1>1. /\ Honest(result, child) /\ Honest(rec[r].result, child) /\ Honest(None, child)
      /\ \A state \in {"LOST", "ORPHANED"} : Honest(SyntheticLoss(r, state), child)
  BY DEF NoInventedExit, RecExitInv, Honest, SyntheticLoss
<1>2. UNCHANGED child
  BY DEF RecContinue, RecoverMeta, RecoverResult, Probe, LossResult, LossMeta,
    LossDelivery, Reconcile, RepairRead, RepairPayload, RepairWrite, StopRecovery,
    supVars
<1>3. RecTypeOK
  BY DEF TypeInv, TypeOK
<1>4. RecExitInv'
  <2>1. SUFFICES rec = rec' \/ (/\ Honest(rec'[r].result, child)
                               /\ \A q \in Recoveries \ {r} : rec'[q] = rec[q])
    BY <1>2 DEF RecExitInv
  <2>2. CASE RecoverMeta(r)
    BY <2>2, <1>1, <1>3 DEF RecoverMeta, RecSet, RecTypeOK
  <2>3. CASE RecoverResult(r)
    BY <2>3, <1>1, <1>3 DEF RecoverResult, RecSet, RecTypeOK
  <2>4. CASE Probe(r)
    BY <2>4, <1>1, <1>3 DEF Probe, RecSet, RecEnd, Idle, RecTypeOK
  <2>5. CASE LossResult(r)
    BY <2>5, <1>1, <1>3 DEF LossResult, RecGoto, RecSet, RecTypeOK
  <2>6. CASE LossMeta(r)
    BY <2>6, <1>1, <1>3 DEF LossMeta, RecGoto, RecSet, RecTypeOK
  <2>7. CASE LossDelivery(r)
    BY <2>7, <1>1, <1>3 DEF LossDelivery, RecEnd, RecSet, Idle, RecTypeOK
  <2>8. CASE Reconcile(r)
    BY <2>8, <1>1, <1>3 DEF Reconcile, RecGoto, RecSet, RecTypeOK
  <2>9. CASE RepairRead(r)
    BY <2>9, <1>1, <1>3 DEF RepairRead, RecSet, RecTypeOK
  <2>10. CASE RepairPayload(r)
    BY <2>10, <1>1, <1>3 DEF RepairPayload, RecSet, RecTypeOK
  <2>11. CASE RepairWrite(r)
    BY <2>11, <1>1, <1>3 DEF RepairWrite, RecEnd, RecSet, Idle, RecTypeOK
  <2>12. CASE StopRecovery(r)
    BY <2>12, <1>1, <1>3 DEF StopRecovery, RecEnd, RecSet, Idle, RecTypeOK
  <2>13. QED
    BY <2>2, <2>3, <2>4, <2>5, <2>6, <2>7, <2>8, <2>9, <2>10, <2>11, <2>12 DEF RecContinue
<1>5. Honest(result', child)
  BY <1>1 DEF RecContinue, RecoverMeta, RecoverResult, Probe, LossResult, LossMeta,
    LossDelivery, Reconcile, RepairRead, RepairPayload, RepairWrite, StopRecovery,
    storeVars
<1>6. \/ UNCHANGED meta
      \/ meta'.exit = rec[r].result.exit /\ meta'.state = rec[r].result.state
  <2>1. ReconcileMetadata(rec[r].result) =>
          meta'.exit = rec[r].result.exit /\ meta'.state = rec[r].result.state
    BY DEF ReconcileMetadata, TypeInv, TypeOK, StoreTypeOK, Metadata
  <2>2. QED
    BY <2>1 DEF RecContinue, RecoverMeta, RecoverResult, Probe, LossResult, LossMeta,
      LossDelivery, Reconcile, RepairRead, RepairPayload, RepairWrite, StopRecovery,
      storeVars
<1>7. NoInventedExit'
  <2>1. CASE UNCHANGED meta
    BY <2>1, <1>2, <1>5 DEF NoInventedExit
  <2>2. CASE LossMeta(r) \/ Reconcile(r)
    <3>1. rec[r].result # None
      BY <2>2 DEF TypeInv, Presence, RecPresence, LossMeta, Reconcile, RecAt
    <3>2. rec[r].result.exit # None => \E s \in Supervisors : child[s] = rec[r].result.exit
      BY <3>1, <1>1 DEF Honest
    <3>3. rec[r].result.state \in {"COMPLETED", "COMPLETED_STALE"} =>
            rec[r].result.exit = "zero"
      BY <3>1, <1>1 DEF Honest
    <3>4. QED
      BY <3>2, <3>3, <1>2, <1>5, <1>6 DEF NoInventedExit
  <2>3. QED
    BY <2>1, <2>2 DEF RecContinue, RecoverMeta, RecoverResult, Probe, LossResult,
      LossDelivery, RepairRead, RepairPayload, RepairWrite, StopRecovery, storeVars
<1>8. QED
  BY <1>4, <1>7

(* What leaves the results, the commands and the runs' copies alone leaves *)
(* them honest.                                                            *)
LEMMA ExitFrame ==
  ASSUME ExitInv, UNCHANGED <<result, sup, child, rec>>,
         meta'.exit = meta.exit, meta'.state = meta.state
  PROVE  ExitInv'
<1>1. NoInventedExit'
  BY DEF ExitInv, NoInventedExit
<1>2. SupExitInv' /\ RecExitInv'
  BY DEF ExitInv, SupExitInv, RecExitInv
<1>3. QED
  BY <1>1, <1>2 DEF ExitInv

LEMMA NextExitInv ==
  ASSUME TypeInv, ExitInv, [Next]_vars
  PROVE  ExitInv'
<1>0. ExitsStay
  BY NextExitsStay DEF ExitInv
<1>1. ASSUME NEW s \in Supervisors, UNCHANGED <<rec, dlvVars>>,
             RunStep(s)
      PROVE  ExitInv'
  <2>1. NoInventedExit' /\ SupExitInv'
    BY <1>0, <1>1, SupervisorExitInv
  <2>2. \A r \in Recoveries : Honest(rec[r].result, child')
    BY <1>0, HonestStays DEF ExitInv, RecExitInv, TypeInv, TypeOK, RecTypeOK
  <2>3. QED
    BY <1>1, <2>1, <2>2 DEF ExitInv, RecExitInv
<1>2. ASSUME NEW c \in Cancels, CancelStep(c), UNCHANGED <<rec, dlvVars>>
      PROVE  ExitInv'
  <2>1. UNCHANGED <<result, sup, child>>
    BY <1>2 DEF CancelStep, CancelRead, CancelRequest, CancelTerm, CancelGrace,
      CancelKill, storeVars
  <2>2. meta'.exit = meta.exit /\ meta'.state = meta.state
    BY <1>2 DEF CancelStep, CancelRead, CancelRequest, CancelTerm, CancelGrace,
      CancelKill, storeVars, TypeInv, TypeOK, StoreTypeOK, Metadata
  <2>3. QED
    BY <1>2, <2>1, <2>2, ExitFrame
<1>3. ASSUME NEW r \in Recoveries, UNCHANGED dlvVars,
             RecoverMeta(r) \/ RecContinue(r) \/ StopRecovery(r)
      PROVE  ExitInv'
  <2>1. NoInventedExit' /\ RecExitInv'
    BY <1>3, RecoveryExitInv DEF ExitInv
  <2>2. UNCHANGED supVars
    BY <1>3 DEF RecContinue, RecoverMeta, RecoverResult, Probe, LossResult, LossMeta,
      LossDelivery, Reconcile, RepairRead, RepairPayload, RepairWrite, StopRecovery
  <2>3. QED
    BY <2>1, <2>2 DEF ExitInv, SupExitInv, supVars
<1>4. ASSUME DlvNext, UNCHANGED <<supVars, rec>>
      PROVE  ExitInv'
  <2>1. UNCHANGED <<result, meta>>
    BY <1>4 DEF DlvNext, DlvContinue, DeliverCheck, Claim, StartSending, ReadEvent,
      WritePayload, CliResume, RecordSent, RecordFailed, StopDelivery, AckRead,
      AckWrite, RetryRead, RetryWrite, UpdateOrFail, UpdateDelivery, storeVars
  <2>2. QED
    BY <1>4, <2>1, ExitFrame DEF supVars
<1>5. CASE UNCHANGED vars
  BY <1>5, ExitFrame DEF vars, storeVars, supVars
<1>6. QED
  BY <1>1, <1>2, <1>3, <1>4, <1>5 DEF Next, SupNext, RecNext

(* Whatever the order of crashes, reruns, cancellations, recoveries and    *)
(* deliveries: result.json and metadata.json report only exits that        *)
(* happened, and success only for exit 0.                                  *)
THEOREM NoExitIsInvented == Spec => []NoInventedExit
<1>1. TypeInv /\ ExitInv /\ [Next]_vars => ExitInv'
  BY NextExitInv
<1>2. ExitInv => NoInventedExit
  BY DEF ExitInv
<1>3. QED
  BY <1>1, <1>2, InitExitInv, AlwaysTypeInv, PTL DEF Spec
=============================================================================
