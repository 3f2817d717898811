----------------------------- MODULE Supervisor -----------------------------
(***************************************************************************)
(* snooze_core/supervisor.py: run_job, the command it forks, and           *)
(* cancel_job, on the job directory of JobStore.                           *)
(*                                                                         *)
(* A step of a run is one access to a file another process writes, or one  *)
(* system call another process can see.  supervisor.lock is a flock held   *)
(* from Lock to the end of the run; the kernel drops it when the run dies, *)
(* so it has no variable of its own.                                       *)
(***************************************************************************)
EXTENDS JobStore

CONSTANT Cancels   \* runs of `supervisor --cancel JOB`

VARIABLES sup,     \* sup[s]: the run s: pc, wait()'s status, the result it built
          child,   \* child[s]: the command s forked: unborn, running or its exit
          held,    \* commands that ended with a descendant holding their output
          killed,  \* the commands that were sent SIGKILL
          cancel   \* cancel[c]: the run c: pc, the process identity it read

supVars == <<sup, child, held, killed, cancel>>

(* The try block of run_job, where an exception leads to its handler.      *)
TryPc == {"fail_read", "fail_meta", "fail_result", "fail_delivery", "starting",
          "popen", "record", "wait", "join", "decide",
          "write_result", "write_meta", "write_delivery"}
(* Where nothing is left that would record a failure: outside the try      *)
(* block (the failure path is called there, and inside it), or in its      *)
(* handler.                                                                *)
UnguardedPc == {"preflight", "fail_read", "fail_meta", "fail_result",
                "fail_delivery", "exception", "lose"}
LockedPc == TryPc \cup {"preflight", "exception", "lose"}
CancelPc == {"idle", "request", "term", "grace", "kill", "ok", "refused"}

SupTypeOK ==
  /\ sup    \in [Supervisors -> [pc     : LockedPc \cup {"idle", "exited", "unrecorded"},
                                 exit   : ExitStatus \cup {None},
                                 result : Result \cup {None}]]
  /\ child  \in [Supervisors -> ExitStatus \cup {"unborn", "running"}]
  /\ held   \subseteq Supervisors
  /\ killed \subseteq Supervisors
  /\ cancel \in [Cancels -> [pc : CancelPc, process : Supervisors \cup {None}]]

SupInit ==
  /\ sup    = [s \in Supervisors |-> [pc |-> "idle", exit |-> None, result |-> None]]
  /\ child  = [s \in Supervisors |-> "unborn"]
  /\ held   = {}
  /\ killed = {}
  /\ cancel = [c \in Cancels |-> [pc |-> "idle", process |-> None]]

Holds(s) == sup[s].pc \in LockedPc /\ s \notin dead

(* identity_matches on a command: it runs, or it is a zombie its           *)
(* supervisor has not waited for.                                          *)
ChildExists(s) ==
  \/ child[s] = "running"
  \/ child[s] \in ExitStatus /\ Holds(s) /\ sup[s].exit = None

At(s, pc) == sup[s].pc = pc /\ s \notin dead

Goto(s, pc) == sup' = [sup EXCEPT ![s].pc = pc]

-----------------------------------------------------------------------------
(* run_job: the lock, the preflight checks and their failure path.         *)

(* A second supervisor is refused while the first holds supervisor.lock.   *)
Lock(s) ==
  /\ At(s, "idle")
  /\ Goto(s, IF \E t \in Supervisors : Holds(t) THEN "exited" ELSE "preflight")
  /\ UNCHANGED <<storeVars, child, held, killed, cancel>>

(* Tampered spec, unsafe permissions, unusable logs, cwd or shell, or none. *)
Preflight(s) ==
  /\ At(s, "preflight")
  /\ \E next \in {"fail_read", "starting"} : Goto(s, next)
  /\ UNCHANGED <<storeVars, child, held, killed, cancel>>

(* _write_terminal_failure reads metadata, then updates it: two accesses.  *)
FailRead(s) ==
  /\ At(s, "fail_read")
  /\ Goto(s, IF meta.state = "SUBMITTED" THEN "fail_meta" ELSE "fail_result")
  /\ UNCHANGED <<storeVars, child, held, killed, cancel>>

FailMeta(s) ==
  /\ At(s, "fail_meta")
  /\ IF CanExecute("FAILED")
       THEN /\ meta' = [meta EXCEPT !.state = "FAILED",
                                    !.result_state = "INFRASTRUCTURE_ERROR"]
            /\ Goto(s, "fail_result")
       ELSE Goto(s, "exception") /\ UNCHANGED meta
  /\ UNCHANGED <<result, delivery, payload, dead, child, held, killed, cancel>>

FailureResult(s) ==
  [event |-> s, state |-> "FAILED", result_state |-> "INFRASTRUCTURE_ERROR",
   exit |-> None, process |-> None]

(* Mutant of FailResult: the failure is announced, its result not written. *)
FailWithoutResult(s) ==
  /\ At(s, "fail_result")
  /\ Goto(s, "fail_delivery")
  /\ UNCHANGED <<storeVars, child, held, killed, cancel>>

FailResult(s) ==
  /\ At(s, "fail_result")
  /\ result' = FailureResult(s)
  /\ Goto(s, "fail_delivery")
  /\ UNCHANGED <<meta, delivery, payload, dead, child, held, killed, cancel>>

FailDelivery(s) ==
  /\ At(s, "fail_delivery")
  /\ AnnounceResult(s)
  /\ Goto(s, "exited")
  /\ UNCHANGED <<meta, result, payload, dead, child, held, killed, cancel>>

-----------------------------------------------------------------------------
(* run_job: fork the command, wait for it, write the three files.          *)

Starting(s) ==
  /\ At(s, "starting")
  /\ IF CanExecute("STARTING")
       THEN /\ meta' = [meta EXCEPT !.state = "STARTING", !.supervisor = s]
            /\ Goto(s, "popen")
       ELSE Goto(s, "exception") /\ UNCHANGED meta
  /\ UNCHANGED <<result, delivery, payload, dead, child, held, killed, cancel>>

Popen(s) ==
  /\ At(s, "popen")
  /\ child' = [child EXCEPT ![s] = "running"]
  /\ Goto(s, "record")
  /\ UNCHANGED <<storeVars, held, killed, cancel>>

RecordRunning(s) ==
  /\ At(s, "record")
  /\ IF CanExecute("RUNNING")
       THEN /\ meta' = [meta EXCEPT !.state = "RUNNING", !.process = s]
            /\ Goto(s, "wait")
       ELSE Goto(s, "exception") /\ UNCHANGED meta
  /\ UNCHANGED <<result, delivery, payload, dead, child, held, killed, cancel>>

(* process.wait() reaps the command ...                                    *)
Wait(s) ==
  /\ At(s, "wait")
  /\ child[s] \in ExitStatus
  /\ sup' = [sup EXCEPT ![s] = [@ EXCEPT !.pc = "join", !.exit = child[s]]]
  /\ UNCHANGED <<storeVars, child, held, killed, cancel>>

(* ... and the two readers are joined, without a timeout: they read until  *)
(* the last process that holds the command's output has closed it.         *)
Join(s) ==
  /\ At(s, "join")
  /\ s \notin held
  /\ Goto(s, "decide")
  /\ UNCHANGED <<storeVars, child, held, killed, cancel>>

(* Mutant of Outcome: every signal is taken for a cancellation.            *)
OutcomeAnySignal(cancelled, exit, stale) ==
  CASE cancelled \/ exit \in {"sigterm", "othersignal"} -> <<"CANCELLED", "SIGNAL">>
    [] ~cancelled /\ exit = "zero" ->
         <<IF stale THEN "COMPLETED_STALE" ELSE "COMPLETED", "SUCCESS">>
    [] OTHER -> <<"FAILED", "NONZERO_EXIT">>

(* The outcome: a requested cancellation hides what the command returned.  *)
Outcome(cancelled, exit, stale) ==
  CASE cancelled          -> <<"CANCELLED", "CANCELLED">>
    [] ~cancelled /\ exit = "zero" ->
         <<IF stale THEN "COMPLETED_STALE" ELSE "COMPLETED", "SUCCESS">>
    [] ~cancelled /\ exit = "sigterm"     -> <<"CANCELLED", "SIGNAL">>
    [] ~cancelled /\ exit = "othersignal" -> <<"FAILED", "SIGNAL">>
    [] OTHER              -> <<"FAILED", "NONZERO_EXIT">>

Decide(s) ==
  /\ At(s, "decide")
  /\ \E stale \in BOOLEAN :
       LET outcome == Outcome(meta.cancel, sup[s].exit, stale)
           built == [event |-> s, state |-> outcome[1], result_state |-> outcome[2],
                     exit |-> sup[s].exit, process |-> s]
       IN  sup' = [sup EXCEPT ![s] = [@ EXCEPT !.pc = "write_result", !.result = built]]
  /\ UNCHANGED <<storeVars, child, held, killed, cancel>>

(* Mutant of WriteResult: metadata is written first, the result never.     *)
MetadataFirst(s) ==
  /\ At(s, "write_result")
  /\ Goto(s, "write_meta")
  /\ UNCHANGED <<storeVars, child, held, killed, cancel>>

WriteResult(s) ==
  /\ At(s, "write_result")
  /\ result' = sup[s].result
  /\ Goto(s, "write_meta")
  /\ UNCHANGED <<meta, delivery, payload, dead, child, held, killed, cancel>>

WriteMeta(s) ==
  /\ At(s, "write_meta")
  /\ LET res == sup[s].result
     IN  IF CanExecute(res.state)
           THEN /\ meta' = [meta EXCEPT !.state = res.state, !.exit = res.exit,
                                        !.result_state = res.result_state]
                /\ Goto(s, "write_delivery")
           ELSE Goto(s, "exception") /\ UNCHANGED meta
  /\ UNCHANGED <<result, delivery, payload, dead, child, held, killed, cancel>>

WriteDelivery(s) ==
  /\ At(s, "write_delivery")
  /\ AnnounceResult(s)
  /\ Goto(s, "exited")
  /\ UNCHANGED <<meta, result, payload, dead, child, held, killed, cancel>>

-----------------------------------------------------------------------------
(* What can go wrong: an exception, the handler, a kill.                   *)

(* Any statement of the try block may raise: a full disk, a failed fork, a *)
(* failed log flush, an interrupt.                                         *)
Raise(s) ==
  /\ sup[s].pc \in TryPc /\ s \notin dead
  /\ Goto(s, "exception")
  /\ UNCHANGED <<storeVars, child, held, killed, cancel>>

(* A preflight read that raises, a failure path that cannot write its      *)
(* report, a handler whose log, read or update of metadata fails (it       *)
(* swallows the latter): the run ends and nothing says so.                 *)
GiveUp(s) ==
  /\ sup[s].pc \in UnguardedPc /\ s \notin dead
  /\ Goto(s, "unrecorded")
  /\ UNCHANGED <<storeVars, child, held, killed, cancel>>

(* Mutant of HandleException: a job that is still STARTING is forgotten.   *)
HandleOnlyRunning(s) ==
  /\ At(s, "exception")
  /\ Goto(s, IF meta.state = "RUNNING" THEN "lose" ELSE "exited")
  /\ UNCHANGED <<storeVars, child, held, killed, cancel>>

(* Mutant of HandleException: the handler leaves metadata as it is.        *)
HandleNothing(s) ==
  /\ At(s, "exception")
  /\ Goto(s, "exited")
  /\ UNCHANGED <<storeVars, child, held, killed, cancel>>

(* The handler sends SIGTERM to a command whose fingerprint still matches  *)
(* (ChildExit may then end it) and reads metadata.                         *)
HandleException(s) ==
  /\ At(s, "exception")
  /\ Goto(s, IF meta.state \in {"STARTING", "RUNNING"} THEN "lose" ELSE "exited")
  /\ UNCHANGED <<storeVars, child, held, killed, cancel>>

(* A refused transition is swallowed by the handler.                       *)
Lose(s) ==
  /\ At(s, "lose")
  /\ meta' = IF CanExecute("LOST")
               THEN [meta EXCEPT !.state = "LOST",
                                 !.result_state = "SUPERVISOR_EXCEPTION"]
               ELSE meta
  /\ Goto(s, "exited")
  /\ UNCHANGED <<result, delivery, payload, dead, child, held, killed, cancel>>

(* The run is killed; the command survives it in its own session.          *)
KillSupervisor(s) ==
  /\ Holds(s)
  /\ dead' = dead \cup {s}
  /\ UNCHANGED <<meta, result, delivery, payload, supVars>>

(* The command ends by itself or by a signal from anywhere.  A descendant  *)
(* in a process group of its own may go on and hold its output, which only *)
(* matters to a supervisor that is there to read it.                       *)
ChildExit(s) ==
  /\ child[s] = "running"
  /\ \E status \in ExitStatus : child' = [child EXCEPT ![s] = status]
  /\ held' = held \/ (Holds(s) /\ held' = held \cup {s})
  /\ UNCHANGED <<storeVars, sup, killed, cancel>>

(* The descendant closes the output or ends; nothing makes it.             *)
OutputCloses(s) ==
  /\ s \in held
  /\ held' = held \ {s}
  /\ UNCHANGED <<storeVars, sup, child, killed, cancel>>

-----------------------------------------------------------------------------
(* cancel_job.                                                             *)

CancelGoto(c, pc) == cancel' = [cancel EXCEPT ![c].pc = pc]

(* The identity used to the end is the one read here.                      *)
CancelRead(c) ==
  /\ cancel[c].pc = "idle"
  /\ cancel' = [cancel EXCEPT ![c] =
       IF Terminal THEN [pc |-> "ok",      process |-> None]
                   ELSE [pc |-> "request", process |-> meta.process]]
  /\ UNCHANGED <<storeVars, sup, child, held, killed>>

CancelRequest(c) ==
  /\ cancel[c].pc = "request"
  /\ meta' = [meta EXCEPT !.cancel = TRUE]
  /\ CancelGoto(c, IF cancel[c].process = None THEN "refused" ELSE "term")
  /\ UNCHANGED <<result, delivery, payload, dead, sup, child, held, killed>>

(* SIGTERM: the command may then end (ChildExit), or handle it and go on.  *)
CancelTerm(c) ==
  /\ cancel[c].pc = "term"
  /\ CancelGoto(c, IF ChildExists(cancel[c].process) THEN "grace" ELSE "refused")
  /\ UNCHANGED <<storeVars, sup, child, held, killed>>

(* The grace period ends because the process is gone, or by the clock.     *)
CancelGrace(c) ==
  /\ cancel[c].pc = "grace"
  /\ \/ ~ChildExists(cancel[c].process) /\ CancelGoto(c, "ok")
     \/ ChildExists(cancel[c].process) /\ CancelGoto(c, "kill")
  /\ UNCHANGED <<storeVars, sup, child, held, killed>>

CancelKill(c) ==
  /\ cancel[c].pc = "kill"
  /\ killed' = IF ChildExists(cancel[c].process)
                 THEN killed \cup {cancel[c].process} ELSE killed
  /\ CancelGoto(c, "ok")
  /\ UNCHANGED <<storeVars, sup, child, held>>

-----------------------------------------------------------------------------
(* The steps a run takes once it holds the lock; a scheduled process takes *)
(* them.  Lock, Raise, GiveUp and KillSupervisor may never happen.         *)
SupStep(s) ==
  \/ Preflight(s) \/ FailRead(s) \/ FailMeta(s) \/ FailResult(s) \/ FailDelivery(s)
  \/ Starting(s) \/ Popen(s) \/ RecordRunning(s) \/ Wait(s) \/ Join(s) \/ Decide(s)
  \/ WriteResult(s) \/ WriteMeta(s) \/ WriteDelivery(s)
  \/ HandleException(s) \/ Lose(s)

CancelStep(c) ==
  CancelRead(c) \/ CancelRequest(c) \/ CancelTerm(c) \/ CancelGrace(c) \/ CancelKill(c)

(* What a run does, what stops it, and what its command does.              *)
RunStep(s) ==
  \/ Lock(s) \/ SupStep(s) \/ Raise(s) \/ GiveUp(s) \/ KillSupervisor(s)
  \/ ChildExit(s) \/ OutputCloses(s)

SupNext ==
  \/ \E s \in Supervisors : RunStep(s)
  \/ \E c \in Cancels : CancelStep(c)

(* A supervisor on its own: nobody runs `recover`, nobody delivers.        *)
supervisionVars == <<storeVars, supVars>>
SupervisionInit == StoreInit /\ SupInit

(* SIGKILL cannot be handled: a command that got it ends.                  *)
SupFairness ==
  \A s \in Supervisors :
    /\ WF_supervisionVars(SupStep(s))
    /\ WF_supervisionVars(s \in killed /\ ChildExit(s))

SupervisionSpec == SupervisionInit /\ [][SupNext]_supervisionVars /\ SupFairness
-----------------------------------------------------------------------------
(* Properties.                                                             *)

(* A result never reports an exit its command did not have, and success    *)
(* only with exit 0 (README: `recover` "never invents an exit code").      *)
Honest(res, exits) ==
  res # None =>
    /\ res.exit # None => res.event \in Supervisors /\ exits[res.event] = res.exit
    /\ res.state \in {"COMPLETED", "COMPLETED_STALE"} => res.exit = "zero"

(* The same of both files: whatever the order of crash, rerun, cancel and  *)
(* recovery, result.json and metadata.json only report exits that happened.*)
NoInventedExit ==
  /\ Honest(result, child)
  /\ meta.exit # None => \E s \in Supervisors : child[s] = meta.exit
  /\ meta.state \in {"COMPLETED", "COMPLETED_STALE"} => meta.exit = "zero"

(* A CANCELLED result has a cause: cancel_job had recorded its request, or *)
(* the command died of SIGTERM.                                            *)
CancelledForCause ==
  result # None /\ result.state = "CANCELLED" =>
    meta.cancel \/ result.exit = "sigterm"

(* Write order of run_job and recovery: metadata turns terminal after      *)
(* result.json exists, except on the two paths that report a failure of    *)
(* the supervisor itself.                                                  *)
TerminalHasResult ==
  Terminal => \/ result # None
              \/ meta.result_state \in {"INFRASTRUCTURE_ERROR", "SUPERVISOR_EXCEPTION"}

(* The command is forked while the job is STARTING and no earlier run      *)
(* recorded its own: a rerun after a crash repeats only an unrecorded one. *)
RecordedCommandIsNotRepeated ==
  [][\A s \in Supervisors : child[s] = "unborn" /\ child'[s] # "unborn" =>
       meta.state = "STARTING" /\ meta.process = None]_supervisionVars

(* What keeps a supervisor from settling its job: it was killed, its       *)
(* handler failed as well, or a descendant of the command never lets go of *)
(* the output that run_job waits for without a timeout.                    *)
Hindered(s) == s \in dead \/ sup[s].pc = "unrecorded" \/ [](s \in held)

(* Once the command has ended, its supervisor makes the job terminal,      *)
(* whatever its try block raised, unless it is hindered.                   *)
EndedCommandIsSettled ==
  \A s \in Supervisors : child[s] \in ExitStatus ~> (Terminal \/ Hindered(s))

(* A cancellation that reached SIGKILL settles the job: the command ends   *)
(* and the run returns from a terminal job, unless it is hindered.         *)
KilledCommandIsSettled ==
  \A s \in Supervisors :
    s \in killed ~> ((sup[s].pc = "exited" /\ Terminal) \/ Hindered(s))
=============================================================================
