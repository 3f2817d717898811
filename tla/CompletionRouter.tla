-------------------------- MODULE CompletionRouter --------------------------
(***************************************************************************)
(* snooze_controller/completion_router.py: the file of completion events,  *)
(* and the calls route, acknowledge and retry on it.  A controller process *)
(* has its own instance of the router, with a lock that only orders the    *)
(* threads of that process; the file is common to all instances.           *)
(***************************************************************************)
EXTENDS Naturals, FiniteSets

CONSTANTS Routes, Acks, Retries,  \* the calls, each made once
          Instances,              \* router objects, one per controller process
          Events, Threads,        \* completion events, App Server threads
          InstanceOf, EventOf,    \* the instance and the event of each call
          None

Calls == Routes \cup Acks \cup Retries

ASSUME CallsAreDistinct ==
  Routes \cap Acks = {} /\ Routes \cap Retries = {} /\ Acks \cap Retries = {}
ASSUME CallsAreTyped ==
  InstanceOf \in [Calls -> Instances] /\ EventOf \in [Calls -> Events]

State  == {"CLAIMED", "STARTING", "SENT_UNCONFIRMED", "RETRY_WAIT", "ACKED"}
Record == [state : State, thread : Threads, attempts : Nat, turn : Routes \cup {None}]
ASSUME NoneIsNothing == None \notin Record \cup Routes

VARIABLES events,   \* the file: the record of each event, None if it has none
          call,     \* call[c]: pc, and the copy of the file it is changing
          thread,   \* thread[r]: controller.thread_id of the route r
          allow,    \* allow[c]: the argument allow_duplicate
          started,  \* routes whose prompt the App Server took: their turns
          crashed   \* calls whose process was killed

routerVars == <<events, call, thread, allow, started, crashed>>

(* Places between reading the file and writing it, under the lock.         *)
LockedPc == {"claim", "start", "sent", "inner", "outer", "ack", "reopen"}
EndedPc  == {"done", "rejected", "failed", "broken"}
RoutePc  == {"start_read", "start", "start_turn", "sent_read", "sent", "wait",
             "inner_read", "inner", "outer_read", "outer"}

Nothing == [e \in Events |-> None]

RouterTypeOK ==
  /\ events  \in [Events -> Record \cup {None}]
  /\ call    \in [Calls -> [pc   : {"idle"} \cup LockedPc \cup EndedPc \cup RoutePc,
                            seen : [Events -> Record \cup {None}]]]
  /\ thread  \in [Routes -> Threads]
  /\ allow   \in [Routes \cup Retries -> BOOLEAN]
  /\ started \subseteq Routes
  /\ crashed \subseteq Calls

RouterInit ==
  /\ events  = Nothing
  /\ call    = [c \in Calls |-> [pc |-> "idle", seen |-> Nothing]]
  /\ thread  \in [Routes -> Threads]
  /\ allow   \in [Routes \cup Retries -> BOOLEAN]
  /\ started = {}
  /\ crashed = {}

Live(c) == c \notin crashed

At(c, pc) == call[c].pc = pc /\ Live(c)

(* The call is under way; the route has its claim.                         *)
Active(c)   == call[c].pc \notin EndedPc \cup {"idle"} /\ Live(c)
InFlight(r) == call[r].pc \in RoutePc /\ Live(r)
Attempting(r) ==
  call[r].pc \in {"start_read", "start", "start_turn", "sent_read", "sent", "wait"} /\ Live(r)

-----------------------------------------------------------------------------
(* `with self._lock`: read the file, then write the changed copy.          *)

(* The RLock of the instance, which goes with its process.                 *)
Free(c) ==
  \A o \in Calls \ {c} :
    InstanceOf[o] = InstanceOf[c] /\ Live(o) => call[o].pc \notin LockedPc

Leave(c, pc) == call' = [call EXCEPT ![c] = [@ EXCEPT !.pc = pc, !.seen = Nothing]]

Read(c, pc) == call' = [call EXCEPT ![c] = [@ EXCEPT !.pc = pc, !.seen = events]]

Current(c) == events[EventOf[c]]
Seen(c)    == call[c].seen[EventOf[c]]

(* atomic_write_json replaces the whole file; it may raise, before or      *)
(* after the file is replaced.                                             *)
Write(c, record, pc, onError) ==
  \/ /\ events' = [call[c].seen EXCEPT ![EventOf[c]] = record]
     /\ \E next \in {pc, onError} : Leave(c, next)
  \/ UNCHANGED events /\ Leave(c, onError)

(* A step that reads: to pc if the event has a record, else to missing.    *)
ReadRecord(c, from, pc, missing) ==
  /\ At(c, from)
  /\ Free(c)
  /\ IF Current(c) # None THEN Read(c, pc) ELSE Leave(c, missing)
  /\ UNCHANGED <<events, thread, allow, started, crashed>>

WriteRecord(c, from, record, pc, onError) ==
  /\ At(c, from)
  /\ Write(c, record, pc, onError)
  /\ UNCHANGED <<thread, allow, started, crashed>>

-----------------------------------------------------------------------------
(* route: claim the event, mark it STARTING, start the turn, record it.    *)

(* Mutant of Claimable: an event in flight is not protected.               *)
ClaimableInFlight(r, record) ==
  record # None =>
    /\ record.thread = thread[r]
    /\ record.state # "ACKED"
    /\ record.state = "SENT_UNCONFIRMED" => allow[r]

(* Mutant of Claimable: the binding of the event is not compared.          *)
ClaimableByAnyone(r, record) ==
  record # None =>
    /\ record.state # "ACKED"
    /\ record.state \in {"CLAIMED", "STARTING", "SENT_UNCONFIRMED"} => allow[r]

(* Mutant of Claimable: an acknowledged event is not protected.            *)
ClaimableAcked(r, record) ==
  record # None =>
    /\ record.thread = thread[r]
    /\ record.state \in {"CLAIMED", "STARTING", "SENT_UNCONFIRMED"} => allow[r]

Claimable(r, record) ==
  record # None =>
    /\ record.thread = thread[r]
    /\ record.state # "ACKED"
    /\ record.state \in {"CLAIMED", "STARTING", "SENT_UNCONFIRMED"} => allow[r]

ClaimRead(r) ==
  /\ At(r, "idle")
  /\ Free(r)
  /\ IF Claimable(r, Current(r)) THEN Read(r, "claim") ELSE Leave(r, "rejected")
  /\ UNCHANGED <<events, thread, allow, started, crashed>>

(* Mutant of Claimed: a renewed claim is not counted.                      *)
ClaimedUncounted(r, record) ==
  IF record = None
    THEN [state |-> "CLAIMED", thread |-> thread[r], attempts |-> 1, turn |-> None]
    ELSE [record EXCEPT !.state = "CLAIMED"]

(* Mutant of Claimed: the state of the claim is not among the states.      *)
ClaimedAsRunning(r, record) ==
  [state |-> "RUNNING", thread |-> thread[r], attempts |-> 1, turn |-> None]

Claimed(r, record) ==
  IF record = None
    THEN [state |-> "CLAIMED", thread |-> thread[r], attempts |-> 1, turn |-> None]
    ELSE [record EXCEPT !.state = "CLAIMED", !.attempts = @ + 1]

ClaimWrite(r) == WriteRecord(r, "claim", Claimed(r, Seen(r)), "start_read", "broken")

(* Outside the try block: an error here leaves the event as it is.         *)
StartRead(r)  == ReadRecord(r, "start_read", "start", "broken")
StartWrite(r) ==
  WriteRecord(r, "start", [Seen(r) EXCEPT !.state = "STARTING"], "start_turn", "broken")

(* Mutant of StartTurn: a turn that is not confirmed is not marked.        *)
StartTurnUnmarked(r) ==
  /\ At(r, "start_turn")
  /\ \E taken \in BOOLEAN, pc \in {"sent_read", "failed"} :
       /\ pc = "sent_read" => taken
       /\ started' = IF taken THEN started \cup {r} ELSE started
       /\ Leave(r, pc)
  /\ UNCHANGED <<events, thread, allow, crashed>>

(* turn/start fails or times out: the App Server may still have taken it.  *)
StartTurn(r) ==
  /\ At(r, "start_turn")
  /\ \E taken \in BOOLEAN, pc \in {"sent_read", "outer_read"} :
       /\ pc = "sent_read" => taken
       /\ started' = IF taken THEN started \cup {r} ELSE started
       /\ Leave(r, pc)
  /\ UNCHANGED <<events, thread, allow, crashed>>

(* A KeyError is not among the exceptions the handler catches.             *)
SentRead(r)  == ReadRecord(r, "sent_read", "sent", "broken")
SentWrite(r) ==
  WriteRecord(r, "sent", [Seen(r) EXCEPT !.state = "SENT_UNCONFIRMED", !.turn = r],
              "wait", "outer_read")

(* The turn completes, or is not seen to complete, or another error.       *)
WaitTurn(r) ==
  /\ At(r, "wait")
  /\ \E pc \in {"done", "inner_read", "outer_read"} : Leave(r, pc)
  /\ UNCHANGED <<events, thread, allow, started, crashed>>

(* mark_retry: first where wait_turn failed, then again in the handler.    *)
Retrying(record) == [record EXCEPT !.state = "RETRY_WAIT"]

InnerMarkRead(r)  == ReadRecord(r, "inner_read", "inner", "outer_read")
InnerMarkWrite(r) == WriteRecord(r, "inner", Retrying(Seen(r)), "outer_read", "outer_read")
OuterMarkRead(r)  == ReadRecord(r, "outer_read", "outer", "broken")

(* Mutant of OuterMarkWrite: the mark is repeated until it can be written. *)
OuterMarkRepeated(r) == WriteRecord(r, "outer", Retrying(Seen(r)), "failed", "outer_read")

OuterMarkWrite(r) == WriteRecord(r, "outer", Retrying(Seen(r)), "failed", "broken")

-----------------------------------------------------------------------------
(* acknowledge, with a turn id or without, and retry.                      *)

AckRead(a) ==
  /\ At(a, "idle")
  /\ Free(a)
  /\ \E turn \in Routes \cup {None} :
       IF /\ Current(a) # None
          /\ Current(a).state = "SENT_UNCONFIRMED"
          /\ turn \in {None, Current(a).turn}
         THEN Read(a, "ack") ELSE Leave(a, "rejected")
  /\ UNCHANGED <<events, thread, allow, started, crashed>>

AckWrite(a) == WriteRecord(a, "ack", [Seen(a) EXCEPT !.state = "ACKED"], "done", "failed")

Retryable(t, record) ==
  /\ record # None
  /\ record.state # "ACKED"
  /\ record.state = "SENT_UNCONFIRMED" => allow[t]

RetryRead(t) ==
  /\ At(t, "idle")
  /\ Free(t)
  /\ IF Retryable(t, Current(t)) THEN Read(t, "reopen") ELSE Leave(t, "rejected")
  /\ UNCHANGED <<events, thread, allow, started, crashed>>

RetryWrite(t) == WriteRecord(t, "reopen", Retrying(Seen(t)), "done", "failed")

(* The controller process is killed: its calls stop. The calls of the      *)
(* instance that begin later are those of the process started in its place.*)
KillInstance(i) ==
  /\ \E c \in Calls : InstanceOf[c] = i /\ Active(c)
  /\ crashed' = crashed \cup {c \in Calls : InstanceOf[c] = i /\ Active(c)}
  /\ UNCHANGED <<events, call, thread, allow, started>>

-----------------------------------------------------------------------------
RouteContinue(r) ==
  \/ ClaimWrite(r) \/ StartRead(r) \/ StartWrite(r) \/ StartTurn(r)
  \/ SentRead(r) \/ SentWrite(r) \/ WaitTurn(r)
  \/ InnerMarkRead(r) \/ InnerMarkWrite(r) \/ OuterMarkRead(r) \/ OuterMarkWrite(r)

Begin(c) ==
  \/ c \in Routes  /\ ClaimRead(c)
  \/ c \in Acks    /\ AckRead(c)
  \/ c \in Retries /\ RetryRead(c)

Continue(c) ==
  \/ c \in Routes  /\ RouteContinue(c)
  \/ c \in Acks    /\ AckWrite(c)
  \/ c \in Retries /\ RetryWrite(c)

RouterNext ==
  \/ \E c \in Calls : Begin(c) \/ Continue(c)
  \/ \E i \in Instances : KillInstance(i)

RouterSpec == RouterInit /\ [][RouterNext]_routerVars

(* One controller at a time: a process uses the file when every call of    *)
(* the other processes has ended, or its process has.                      *)
Alone(c) == \A o \in Calls : Active(o) => InstanceOf[o] = InstanceOf[c]

AloneNext ==
  \/ \E c \in Calls : Alone(c) /\ Begin(c)
  \/ \E c \in Calls : Continue(c)
  \/ \E i \in Instances : KillInstance(i)

(* Every call of a live process is scheduled; turn/start and the wait for  *)
(* the turn have timeouts.                                                 *)
RouterFairness == \A c \in Calls : WF_routerVars(Continue(c))

AloneSpec == RouterInit /\ [][AloneNext]_routerVars /\ RouterFairness

-----------------------------------------------------------------------------
(* Properties.                                                             *)

(* The claim admits one attempt at a time: the second of two in flight was *)
(* allowed to duplicate, or the event was reopened, by a retry or by a     *)
(* third attempt that failed: it records its failure twice, and another    *)
(* claim may come between (the marks of lines 147 and 159).                *)
Overlap(r1, r2) ==
  r1 # r2 /\ EventOf[r1] = EventOf[r2] /\ Attempting(r1) /\ Attempting(r2)

OneAttemptUnlessReopened ==
  \A r1, r2 \in Routes :
    Overlap(r1, r2) =>
      \/ allow[r1] \/ allow[r2]
      \/ \E t \in Retries : EventOf[t] = EventOf[r1] /\ call[t].pc \in {"done", "failed"}
      \/ \E r3 \in Routes :
           EventOf[r3] = EventOf[r1] /\ call[r3].pc \in {"outer_read", "outer", "failed", "broken"}

(* The marker precedes the continuation: every turn that was started for   *)
(* an event was counted as an attempt before.                              *)
TurnsAreCounted ==
  \A e \in Events :
    LET turns == {r \in started : EventOf[r] = e}
    IN  turns # {} => events[e] # None /\ Cardinality(turns) <= events[e].attempts

(* All continuations of an event go to the thread it is bound to.          *)
TurnsStayOnThread ==
  \A r \in started :
    events[EventOf[r]] # None => events[EventOf[r]].thread = thread[r]

(* An event is CLAIMED or STARTING only while an attempt is under way (or  *)
(* was, when its process died), or after one that could not write the      *)
(* file: no other ending of route forgets its claim.                       *)
ClaimHasAnAttempt ==
  \A e \in Events :
    events[e] # None /\ events[e].state \in {"CLAIMED", "STARTING"} =>
      \E r \in Routes : EventOf[r] = e /\ call[r].pc \in RoutePc \cup {"broken"}

(* A step that undoes an acknowledgement is one of a route of the event,   *)
(* in an attempt that it has claimed and not ended: what route writes      *)
(* after its claim, by itself or with mark_retry, overwrites any state     *)
(* (lines 121-126, 137-143, 162-172).  No other call undoes it, while an   *)
(* attempt is in flight or not: not a new claim, not a retry, not another  *)
(* acknowledgement.                                                        *)
OnlyAttemptsUndoAcks ==
  [][\A e \in Events :
       /\ events[e] # None /\ events[e].state = "ACKED"
       /\ events'[e] # events[e]
       => \E r \in Routes : EventOf[r] = e /\ InFlight(r) /\ call'[r] # call[r]]_routerVars

(* Every call that begins ends (each is made once).                         *)
CallsEnd == <>[](\A c \in Calls : ~Active(c))

(* V0.4_CONTINUATION_REPORT.md: "An existing CLAIMED, STARTING or SENDING   *)
(* event rejects a second claim", as long as nobody retries or allows it.  *)
InFlightRejectsClaim ==
  (\A r \in Routes : ~allow[r]) /\ (\A t \in Retries : call[t].pc = "idle") =>
    \A r1, r2 \in Routes : ~Overlap(r1, r2)
=============================================================================
