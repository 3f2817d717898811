------------------------------- MODULE Handoff -------------------------------
(***************************************************************************)
(* The handoff of a running command: `codex-snooze handoff` (submit of     *)
(* snooze_core/cli.py) detaches it and writes a marker; a controller       *)
(* (snooze_controller/handoff.py) finds the marker in the notifications of *)
(* its App Server or in the job store, closes the turn, waits for the job  *)
(* and continues the thread.  Every turn runs one command, whose job bears *)
(* the name of the turn, and has one HandoffController.  The turns of a    *)
(* thread share an AgentController, hence its buffer of notifications; all *)
(* share the job store and the registry.                                   *)
(***************************************************************************)
EXTENDS Naturals, Sequences

CONSTANTS Turns, Threads,
          ThreadOf,    \* the thread of each turn
          MaxEvents,   \* the length of the buffer of notifications
          MaxOthers,   \* bound: notifications about something else, per thread
          None

ASSUME TurnsHaveThreads == ThreadOf \in [Turns -> Threads]
ASSUME LengthsAreNat    == MaxEvents \in Nat \ {0} /\ MaxOthers \in Nat
ASSUME NoneIsNoTurn     == None \notin Turns

VARIABLES
  turn,        \* turn[u]: as the App Server has it
  launcher,    \* launcher[u]: the place of the command that submits the job u
  job,         \* job[u]: its supervisor and whether it left a result
  marked,      \* the jobs with a handoff.json
  notes,       \* notes[h]: the buffer of notifications
  others,      \* others[h]: how many were about something else
  ctl,         \* ctl[u]: the controller of the turn u
  registry,    \* registry[h][u]: the handoff of the job u in the record of h
  lost,        \* history: threads whose buffer dropped a notification
  news         \* history: turns whose job was marked since their last search

worldVars   == <<turn, launcher, job, marked, notes, others, lost>>
handoffVars == <<worldVars, ctl, registry, news>>

Phase == {"HANDOFF_REQUESTED", "TURN_INTERRUPTED", "HANDOFF_TURN_CLOSED", "JOB_COMPLETED",
          "CONTINUATION_STARTED", "CONTINUATION_COMPLETED", "FAILED"}

Note == [kind : {"marker", "completed"}, turn : Turns] \cup {[kind |-> "other", turn |-> None]}

Controller == [pc    : {"none", "built", "search", "closed", "short", "record", "close",
                        "interrupt", "raced", "wait", "update", "handed", "continue", "route",
                        "done", "raised"},
               known : SUBSET Turns,         \* jobs older than the controller
               job   : Turns \cup {None},    \* the job of the marker it found
               phase : Phase \cup {None},
               index : 0..MaxEvents]         \* of wait_for_notification

HandoffTypeOK ==
  /\ turn     \in [Turns -> {"none", "active", "closing", "closed"}]
  /\ launcher \in [Turns -> {"none", "polling", "detach", "print", "returned", "killed"}]
  /\ job      \in [Turns -> {"none", "running", "result", "lost"}]
  /\ marked   \subseteq Turns
  /\ notes    \in [Threads -> Seq(Note)]
  /\ \A h \in Threads : Len(notes[h]) <= MaxEvents
  /\ others   \in [Threads -> 0..MaxOthers]
  /\ ctl      \in [Turns -> Controller]
  /\ registry \in [Threads -> [Turns -> [turn : Turns, phase : Phase] \cup {None}]]
  /\ lost     \subseteq Threads
  /\ news     \subseteq Turns

HandoffInit ==
  /\ turn     = [u \in Turns |-> "none"]
  /\ launcher = [u \in Turns |-> "none"]
  /\ job      = [u \in Turns |-> "none"]
  /\ marked   = {}
  /\ notes    = [h \in Threads |-> <<>>]
  /\ others   = [h \in Threads |-> 0]
  /\ ctl      = [u \in Turns |->
                   [pc |-> "none", known |-> {}, job |-> None, phase |-> None, index |-> 0]]
  /\ registry = [h \in Threads |-> [u \in Turns |-> None]]
  /\ lost     = {}
  /\ news     = {}

(* Mutant of Notify: the buffer grows without a bound.                     *)
NotifyUnbounded(h, kind, u) ==
  /\ notes' = [notes EXCEPT ![h] = Append(@, [kind |-> kind, turn |-> u])]
  /\ UNCHANGED lost

(* A deque of bounded length drops its first entry for the new one.        *)
Notify(h, kind, u) ==
  LET full == Len(notes[h]) = MaxEvents
  IN  /\ notes' = [notes EXCEPT ![h] = Append(IF full THEN Tail(@) ELSE @,
                                              [kind |-> kind, turn |-> u])]
      /\ lost' = IF full THEN lost \cup {h} ELSE lost

Seen(u, kind) == \E i \in DOMAIN notes[ThreadOf[u]] :
                    notes[ThreadOf[u]][i] = [kind |-> kind, turn |-> u]

-----------------------------------------------------------------------------
(* The turn, its command, and the job: what the controller watches.        *)

Controls == <<ctl, registry, news>>

(* HandoffController.__init__: the jobs that are in the store are known.   *)
Build(u) ==
  /\ ctl[u].pc = "none"
  /\ ctl' = [ctl EXCEPT ![u].pc = "built", ![u].known = {v \in Turns : job[v] # "none"}]
  /\ UNCHANGED <<worldVars, registry, news>>

StartTurn(u) ==
  /\ turn[u] = "none"
  /\ ctl[u].pc = "built"
  /\ \A v \in Turns : ThreadOf[v] = ThreadOf[u] => turn[v] \in {"none", "closed"}
  /\ turn' = [turn EXCEPT ![u] = "active"]
  /\ ctl'  = [ctl EXCEPT ![u].pc = "search"]
  /\ UNCHANGED <<launcher, job, marked, notes, others, lost, registry, news>>

(* JobStore.create and the supervisor's Popen.                             *)
Launch(u) ==
  /\ turn[u] = "active"
  /\ launcher[u] = "none"
  /\ launcher' = [launcher EXCEPT ![u] = "polling"]
  /\ job'      = [job EXCEPT ![u] = "running"]
  /\ UNCHANGED <<turn, marked, notes, others, lost, Controls>>

(* The threshold passed, and poll found the supervisor running.            *)
Threshold(u) ==
  /\ launcher[u] = "polling"
  /\ job[u] = "running"
  /\ launcher' = [launcher EXCEPT ![u] = "detach"]
  /\ UNCHANGED <<turn, job, marked, notes, others, lost, Controls>>

WriteMarker(u) ==
  /\ launcher[u] = "detach"
  /\ marked'   = marked \cup {u}
  /\ news'     = news \cup {u}
  /\ launcher' = [launcher EXCEPT ![u] = "print"]
  /\ UNCHANGED <<turn, job, notes, others, lost, ctl, registry>>

PrintMarker(u) ==
  /\ launcher[u] = "print"
  /\ Notify(ThreadOf[u], "marker", u)
  /\ launcher' = [launcher EXCEPT ![u] = "returned"]
  /\ UNCHANGED <<turn, job, marked, others, Controls>>

(* The supervisor ended before the threshold: its result, or its loss, is  *)
(* printed.                                                                *)
PrintResult(u) ==
  /\ launcher[u] = "polling"
  /\ job[u] \in {"result", "lost"}
  /\ launcher' = [launcher EXCEPT ![u] = "returned"]
  /\ UNCHANGED <<turn, job, marked, notes, others, lost, Controls>>

KillLauncher(u) ==
  /\ launcher[u] \in {"polling", "detach", "print"}
  /\ launcher' = [launcher EXCEPT ![u] = "killed"]
  /\ UNCHANGED <<turn, job, marked, notes, others, lost, Controls>>

JobEnds(u) ==
  /\ job[u] = "running"
  /\ \E end \in {"result", "lost"} : job' = [job EXCEPT ![u] = end]
  /\ UNCHANGED <<turn, launcher, marked, notes, others, lost, Controls>>

(* The model ends the turn when its command returned; an interrupt does    *)
(* not wait for the command.                                               *)
TurnCloses(u) ==
  /\ \/ turn[u] = "active" /\ launcher[u] \in {"none", "returned", "killed"}
     \/ turn[u] = "closing"
  /\ turn' = [turn EXCEPT ![u] = "closed"]
  /\ Notify(ThreadOf[u], "completed", u)
  /\ UNCHANGED <<launcher, job, marked, others, Controls>>

OtherNote(h) ==
  /\ others[h] < MaxOthers
  /\ others' = [others EXCEPT ![h] = @ + 1]
  /\ Notify(h, "other", None)
  /\ UNCHANGED <<turn, launcher, job, marked, Controls>>

-----------------------------------------------------------------------------
(* wait_for_handoff.                                                       *)

At(u, place)   == ctl[u].pc = place
Goes(u, place) == ctl' = [ctl EXCEPT ![u].pc = place]
Raise(u)       == Goes(u, "raised")

(* _event_marker: the first marker in the buffer, whosever it is.  The     *)
(* buffer of events, searched next, repeats the notifications.             *)
IsFirstMarker(u, j) ==
  LET buffer == notes[ThreadOf[u]]
  IN  \E i \in DOMAIN buffer :
        /\ buffer[i] = [kind |-> "marker", turn |-> j]
        /\ \A k \in 1..i - 1 : buffer[k].kind # "marker"

NoMarkerNoted(u) == \A j \in Turns : ~IsFirstMarker(u, j)

(* Mutant of StoredMarkers: the store is not searched.                     *)
StoredMarkersIgnored(u) == {}

(* _new_job_marker: of the jobs that came after the controller.            *)
StoredMarkers(u) == marked \ ctl[u].known

Found(u, j) == ctl' = [ctl EXCEPT ![u].pc = "record", ![u].job = j,
                                  ![u].phase = "HANDOFF_REQUESTED"]

Search(u) ==
  /\ At(u, "search")
  /\ \/ \E j \in Turns : IsFirstMarker(u, j) /\ Found(u, j)
     \/ NoMarkerNoted(u) /\ \E j \in StoredMarkers(u) : Found(u, j)
     \/ NoMarkerNoted(u) /\ StoredMarkers(u) = {} /\ Goes(u, "closed")
  /\ news' = news \ {u}
  /\ UNCHANGED <<worldVars, registry>>

CheckClosed(u) ==
  /\ At(u, "closed")
  /\ Goes(u, IF Seen(u, "completed") THEN "short" ELSE "search")
  /\ UNCHANGED <<worldVars, registry, news>>

(* A short command, or the error "turn completed without a structured      *)
(* handoff marker".                                                        *)
CheckResults(u) ==
  /\ At(u, "short")
  /\ IF \E j \in Turns \ ctl[u].known : job[j] = "result"
       THEN Goes(u, "done")
       ELSE Raise(u)
  /\ UNCHANGED <<worldVars, registry, news>>

HandoffTimesOut(u) ==
  /\ At(u, "search")
  /\ Raise(u)
  /\ UNCHANGED <<worldVars, registry, news>>

(* Mutant of Bindable: a job is bound anew, whatever it was bound to.      *)
BindableAnew(h, j, u) == TRUE

(* record_handoff: a job that another turn has is refused.                 *)
Bindable(h, j, u) == registry[h][j] # None => registry[h][j].turn = u

RecordHandoff(u) ==
  /\ At(u, "record")
  /\ LET h == ThreadOf[u]  j == ctl[u].job
     IN  IF Bindable(h, j, u)
           THEN /\ registry' = [registry EXCEPT ![h][j] =
                                  [turn |-> u, phase |-> "HANDOFF_REQUESTED"]]
                /\ Goes(u, "close")
           ELSE Raise(u) /\ UNCHANGED registry
  /\ UNCHANGED <<worldVars, news>>

-----------------------------------------------------------------------------
(* _close_current_turn.                                                    *)

CloseTurn(u) ==
  /\ At(u, "close")
  /\ IF Seen(u, "completed")
       THEN ctl' = [ctl EXCEPT ![u].pc = "update", ![u].phase = "HANDOFF_TURN_CLOSED"]
       ELSE Goes(u, "interrupt")
  /\ UNCHANGED <<worldVars, registry, news>>

(* Mutant of Interrupt: the end of the turn is not waited for.             *)
InterruptNoWait(u) ==
  /\ At(u, "interrupt")
  /\ turn[u] = "active"
  /\ turn' = [turn EXCEPT ![u] = "closing"]
  /\ ctl'  = [ctl EXCEPT ![u].pc = "update", ![u].phase = "TURN_INTERRUPTED"]
  /\ UNCHANGED <<launcher, job, marked, notes, others, lost, registry, news>>

Interrupt(u) ==
  /\ At(u, "interrupt")
  /\ turn[u] = "active"
  /\ turn' = [turn EXCEPT ![u] = "closing"]
  /\ ctl'  = [ctl EXCEPT ![u].pc = "wait", ![u].phase = "TURN_INTERRUPTED", ![u].index = 0]
  /\ UNCHANGED <<launcher, job, marked, notes, others, lost, registry, news>>

(* The answer is an error: the turn is over, or is not.  Or it comes too   *)
(* late, an AppServerProcessError, which is not caught.                    *)
InterruptFails(u) ==
  /\ At(u, "interrupt")
  /\ turn' \in {turn, [turn EXCEPT ![u] = IF @ = "active" THEN "closing" ELSE @]}
  /\ Goes(u, "raced") \/ Raise(u)
  /\ UNCHANGED <<launcher, job, marked, notes, others, lost, registry, news>>

Raced(u) ==
  /\ At(u, "raced")
  /\ IF Seen(u, "completed")
       THEN ctl' = [ctl EXCEPT ![u].pc = "wait", ![u].phase = "HANDOFF_TURN_CLOSED",
                               ![u].index = 0]
       ELSE Raise(u)
  /\ UNCHANGED <<worldVars, registry, news>>

(* Mutant of Unread: what came before the wait is skipped.                 *)
UnreadFromNow(u) ==
  {i \in DOMAIN notes[ThreadOf[u]] : i > ctl[u].index /\ ctl[u].index > 0}

(* wait_for_notification: entries beyond the index.                        *)
Unread(u) == {i \in DOMAIN notes[ThreadOf[u]] : i > ctl[u].index}

CompletionUnread(u) ==
  \E i \in Unread(u) : notes[ThreadOf[u]][i] = [kind |-> "completed", turn |-> u]

WaitTurn(u) ==
  /\ At(u, "wait")
  /\ IF CompletionUnread(u)
       THEN Goes(u, "update")
       ELSE ctl' = [ctl EXCEPT ![u].index = Len(notes[ThreadOf[u]])]
  /\ UNCHANGED <<worldVars, registry, news>>

WaitTimesOut(u) ==
  /\ At(u, "wait")
  /\ ~CompletionUnread(u)
  /\ Raise(u)
  /\ UNCHANGED <<worldVars, registry, news>>

UpdateHandoff(u, phase) ==
  registry' = [registry EXCEPT ![ThreadOf[u]][ctl[u].job].phase = phase]

HandoffReturns(u) ==
  /\ At(u, "update")
  /\ UpdateHandoff(u, ctl[u].phase)
  /\ Goes(u, "handed")
  /\ UNCHANGED <<worldVars, news>>

-----------------------------------------------------------------------------
(* wait_for_job and continue_after_job.                                    *)

WaitForJob(u) ==
  /\ At(u, "handed")
  /\ job[ctl[u].job] = "result"
  /\ UpdateHandoff(u, "JOB_COMPLETED")
  /\ Goes(u, "continue")
  /\ UNCHANGED <<worldVars, news>>

JobTimesOut(u) ==
  /\ At(u, "handed")
  /\ Raise(u)
  /\ UNCHANGED <<worldVars, registry, news>>

StartContinuation(u) ==
  /\ At(u, "continue")
  /\ UpdateHandoff(u, "CONTINUATION_STARTED")
  /\ Goes(u, "route")
  /\ UNCHANGED <<worldVars, news>>

(* What CompletionRouter.route returns or raises; of what it raises, only  *)
(* errors of the router and of the controller are recorded.                *)
Routed(u) ==
  /\ At(u, "route")
  /\ \/ UpdateHandoff(u, "CONTINUATION_COMPLETED") /\ Goes(u, "done")
     \/ UpdateHandoff(u, "FAILED") /\ Raise(u)
     \/ UNCHANGED registry /\ Raise(u)
  /\ UNCHANGED <<worldVars, news>>

(* The registry cannot be written, and nothing catches that.               *)
RegistryFails(u) ==
  /\ ctl[u].pc \in {"record", "update", "handed", "continue"}
  /\ Raise(u)
  /\ UNCHANGED <<worldVars, registry, news>>

-----------------------------------------------------------------------------
Prepare(u) == Build(u) \/ StartTurn(u)

World(u) ==
  \/ Prepare(u) \/ Launch(u) \/ Threshold(u) \/ WriteMarker(u) \/ PrintMarker(u)
  \/ PrintResult(u) \/ KillLauncher(u) \/ JobEnds(u) \/ TurnCloses(u)

Control(u) ==
  \/ Search(u) \/ CheckClosed(u) \/ CheckResults(u) \/ RecordHandoff(u) \/ CloseTurn(u)
  \/ Interrupt(u) \/ InterruptFails(u) \/ Raced(u) \/ WaitTurn(u)
  \/ HandoffReturns(u) \/ WaitForJob(u) \/ StartContinuation(u) \/ Routed(u)
  \/ RegistryFails(u)

TimesOut(u) == HandoffTimesOut(u) \/ WaitTimesOut(u) \/ JobTimesOut(u)

HandoffNext ==
  \/ \E u \in Turns : World(u) \/ Control(u) \/ TimesOut(u)
  \/ \E h \in Threads : OtherNote(h)

HandoffSpec == HandoffInit /\ [][HandoffNext]_handoffVars

-----------------------------------------------------------------------------
(* Properties.                                                             *)

(* The controller waits for the job and starts a continuation only when    *)
(* its own turn is over at the App Server, whichever way the race between  *)
(* the interrupt and the completion went (handoff.py, lines 414-433).      *)
NoContinuationInTurn ==
  \A u \in Turns : ctl[u].pc \in {"handed", "continue", "route"} => turn[u] = "closed"

(* Waiting for a turn that is over fails only if the buffer dropped a      *)
(* notification: an end that was notified before the wait began, or before *)
(* its deadline, is seen (app_server_process.py, lines 464-490).           *)
WaitMissesOnlyDropped ==
  [][\A u \in Turns :
       At(u, "wait") /\ ctl'[u].pc = "raised" /\ turn[u] = "closed" =>
         ThreadOf[u] \in lost]_handoffVars

(* "turn completed without a structured handoff marker" is only raised if  *)
(* the command of the turn wrote none, or wrote it after the last search   *)
(* (line 474); that its launcher was killed before it printed the marker,  *)
(* or the buffer dropped it, is no excuse.                                 *)
MarkerIsNotMissed ==
  [][\A u \in Turns :
       At(u, "short") /\ ctl'[u].pc = "raised" /\ u \in marked => u \in news]_handoffVars

(* The record of a thread binds a job to one turn for good, although the   *)
(* controller of a later turn of the thread finds the old marker first     *)
(* (handoff.py, line 395; thread_registry.py, lines 129-133).              *)
BindingIsKept ==
  [][\A h \in Threads, j \in Turns :
       registry[h][j] # None => registry'[h][j].turn = registry[h][j].turn]_handoffVars

(* V0.4_HANDOFF_ARCHITECTURE.md: "The controller interrupts only the turn  *)
(* that produced the marker."                                              *)
InterruptsOwnTurn ==
  \A u \in Turns : ctl[u].phase = "TURN_INTERRUPTED" => ctl[u].job = u
=============================================================================
