--------------------------- MODULE OwnershipLedger ---------------------------
(***************************************************************************)
(* snooze_controller/v05_backend.py: the durable ledger of backend owners. *)
(* Every call of create and transition enters the RLock of its ledger      *)
(* object, then takes the flock of the lock file, reads the whole file,    *)
(* decides, and replaces the whole file.                                   *)
(***************************************************************************)
EXTENDS Naturals

CONSTANTS Jobs,
          Creates, Transitions,   \* the calls, each made once
          Instances,              \* ledger objects, one per process
          InstanceOf, JobOf,      \* the object and the job of each call
          Handoffs,               \* the records callers ask to create
          None

Calls == Creates \cup Transitions

Backend == {"THREAD_NATIVE_TERMINAL", "SANDBOX_DESCENDANT_SUPERVISOR",
            "CONTROLLER_COMMAND_EXEC", "CLI_RESUME_FALLBACK"}

State == {"FOREGROUND", "HANDOFF_PENDING", "NATIVE_BACKGROUND", "SUPERVISOR_BACKGROUND",
          "COMPLETING", "COMPLETED", "FAILED"}

OwnershipTransitions ==
  [s \in State |->
     CASE s = "FOREGROUND"      -> {"HANDOFF_PENDING", "FAILED"}
       [] s = "HANDOFF_PENDING" ->
            {"NATIVE_BACKGROUND", "SUPERVISOR_BACKGROUND", "COMPLETING", "FAILED"}
       [] s \in {"NATIVE_BACKGROUND", "SUPERVISOR_BACKGROUND"} -> {"COMPLETING", "FAILED"}
       [] s = "COMPLETING"      -> {"COMPLETED", "FAILED"}
       [] OTHER                 -> {}]

Record == [state : State, backend : Backend]

ASSUME CallsAreDistinct == Creates \cap Transitions = {}
ASSUME CallsAreTyped    == InstanceOf \in [Calls -> Instances] /\ JobOf \in [Calls -> Jobs]
ASSUME HandoffsAreRecords == Handoffs \subseteq Record
ASSUME NoneIsNothing    ==
  None \notin Calls \cup State \cup Backend \cup Record \cup {"ok", "error"}

VARIABLES ledger,    \* the file: the record of each job, None if it has none
          call,      \* call[c]: where it is, what it read, and what it asks for
          entered,   \* entered[i]: the call inside the RLock of i, or None
          flocked    \* the call that holds the flock, or None

ledgerVars == <<ledger, call, entered, flocked>>

Ledger == [Jobs -> Record \cup {None}]
Empty  == [j \in Jobs |-> None]

Idle == [pc |-> "idle", seen |-> Empty, expected |-> None, record |-> None, answer |-> None]

LedgerTypeOK ==
  /\ ledger  \in Ledger
  /\ call    \in [Calls -> [pc       : {"idle", "entered", "locked", "write", "leave",
                                        "ended", "killed"},
                            seen     : Ledger,
                            expected : State \cup {None},
                            record   : Record \cup {None},
                            answer   : {"ok", "error", None}]]
  /\ entered \in [Instances -> Calls \cup {None}]
  /\ flocked \in Calls \cup {None}

LedgerInit ==
  /\ ledger  = Empty
  /\ call    = [c \in Calls |-> Idle]
  /\ entered = [i \in Instances |-> None]
  /\ flocked = None

-----------------------------------------------------------------------------
(* `with self._thread_lock, self.lock_path.open("a+") as handle: flock`.   *)

Enter(c) ==
  /\ call[c].pc = "idle"
  /\ entered[InstanceOf[c]] = None
  /\ entered' = [entered EXCEPT ![InstanceOf[c]] = c]
  /\ call'    = [call EXCEPT ![c].pc = "entered"]
  /\ UNCHANGED <<ledger, flocked>>

(* Mutant of Flock: the lock file is opened, and locked for reading only.  *)
FlockShared(c) ==
  /\ call[c].pc = "entered"
  /\ flocked' = c
  /\ call'    = [call EXCEPT ![c].pc = "locked"]
  /\ UNCHANGED <<ledger, entered>>

Flock(c) ==
  /\ call[c].pc = "entered"
  /\ flocked = None
  /\ flocked' = c
  /\ call'    = [call EXCEPT ![c].pc = "locked"]
  /\ UNCHANGED <<ledger, entered>>

(* The lock file cannot be opened: the call leaves the RLock.              *)
OpenFails(c) ==
  /\ call[c].pc = "entered"
  /\ entered' = [entered EXCEPT ![InstanceOf[c]] = None]
  /\ call'    = [call EXCEPT ![c].pc = "ended", ![c].answer = "error"]
  /\ UNCHANGED <<ledger, flocked>>

Unlocked(c) ==
  /\ flocked' = None
  /\ entered' = [entered EXCEPT ![InstanceOf[c]] = None]

(* Mutant of Unlock: the flock is not released.                            *)
UnlockForgotten(c) ==
  /\ call[c].pc = "leave"
  /\ call' = [call EXCEPT ![c].pc = "ended"]
  /\ entered' = [entered EXCEPT ![InstanceOf[c]] = None]
  /\ UNCHANGED <<ledger, flocked>>

Unlock(c) ==
  /\ call[c].pc = "leave"
  /\ call' = [call EXCEPT ![c].pc = "ended"]
  /\ Unlocked(c)
  /\ UNCHANGED ledger

-----------------------------------------------------------------------------
(* Under the lock: read and decide, then replace the file.                 *)

(* Mutant of Refuse: the error carries the state it found for an answer.   *)
RefuseWithState(c) ==
  call' = [call EXCEPT ![c] = [Idle EXCEPT !.pc = "leave", !.answer = "COMPLETED"]]

Refuse(c) == call' = [call EXCEPT ![c] = [Idle EXCEPT !.pc = "leave", !.answer = "error"]]

Ask(c, expected, record) ==
  call' = [call EXCEPT ![c] = [@ EXCEPT !.pc = "write", !.seen = ledger,
                                        !.expected = expected, !.record = record]]

Current(c) == ledger[JobOf[c]]

(* The record is the caller's PendingHandoff as it is: FOREGROUND is only  *)
(* the default of its state, and nothing compares that with its backend.   *)
CreateRead(c) ==
  /\ call[c].pc = "locked"
  /\ \E record \in Handoffs :
       IF Current(c) = None THEN Ask(c, None, record) ELSE Refuse(c)
  /\ UNCHANGED <<ledger, entered, flocked>>

(* The backend a background state belongs to.                              *)
BackendOf(target) ==
  IF target = "NATIVE_BACKGROUND" THEN "THREAD_NATIVE_TERMINAL"
                                  ELSE "SANDBOX_DESCENDANT_SUPERVISOR"

Background(target) == target \in {"NATIVE_BACKGROUND", "SUPERVISOR_BACKGROUND"}

(* Mutant of Swappable: the state is not compared with the expected one.   *)
SwappableUnexpected(record, expected, target) ==
  target = expected \/ target \in OwnershipTransitions[expected]

(* The compare of compare-and-swap; a swap for the same state is admitted. *)
Swappable(record, expected, target) ==
  /\ record.state = expected
  /\ target = expected \/ target \in OwnershipTransitions[expected]

(* backend is the argument, None when the caller gives none.               *)
OwnerKept(record, target, backend) ==
  /\ Background(target) => backend = BackendOf(target)
  /\ backend # None => backend = record.backend

TransitionRead(c) ==
  /\ call[c].pc = "locked"
  /\ \E expected \in State, target \in State, backend \in Backend \cup {None} :
       IF /\ Current(c) # None
          /\ Swappable(Current(c), expected, target)
          /\ OwnerKept(Current(c), target, backend)
         THEN Ask(c, expected, [Current(c) EXCEPT !.state = target])
         ELSE Refuse(c)
  /\ UNCHANGED <<ledger, entered, flocked>>

Replaced(c) == [call[c].seen EXCEPT ![JobOf[c]] = call[c].record]

Answer(c, answer) ==
  call' = [call EXCEPT ![c] = [@ EXCEPT !.pc = "leave", !.seen = Empty, !.answer = answer]]

WriteLedger(c) ==
  /\ call[c].pc = "write"
  /\ ledger' = Replaced(c)
  /\ Answer(c, "ok")
  /\ UNCHANGED <<entered, flocked>>

(* atomic_write_json raises, before or after the file is replaced.         *)
WriteFails(c) ==
  /\ call[c].pc = "write"
  /\ ledger' \in {ledger, Replaced(c)}
  /\ Answer(c, "error")
  /\ UNCHANGED <<entered, flocked>>

-----------------------------------------------------------------------------
(* The process of the object is killed: its calls stop, its locks go.      *)

Running(c) == call[c].pc \in {"entered", "locked", "write", "leave"}

KillInstance(i) ==
  /\ \E c \in Calls : InstanceOf[c] = i /\ Running(c)
  /\ call'    = [c \in Calls |-> IF InstanceOf[c] = i /\ call[c].pc # "ended"
                                   THEN [call[c] EXCEPT !.pc = "killed", !.seen = Empty]
                                   ELSE call[c]]
  /\ entered' = [entered EXCEPT ![i] = None]
  /\ flocked' = IF flocked # None /\ InstanceOf[flocked] = i THEN None ELSE flocked
  /\ UNCHANGED ledger

Continue(c) ==
  \/ Flock(c) \/ Unlock(c) \/ WriteLedger(c)
  \/ c \in Creates /\ CreateRead(c)
  \/ c \in Transitions /\ TransitionRead(c)

LedgerNext ==
  \/ \E c \in Calls : Enter(c) \/ Continue(c) \/ OpenFails(c) \/ WriteFails(c)
  \/ \E i \in Instances : KillInstance(i)

(* A process that lives is scheduled, and the kernel grants a free flock;  *)
(* nothing makes a call fail.                                              *)
LedgerFairness == \A c \in Calls : WF_ledgerVars(Continue(c))

LedgerSpec == LedgerInit /\ [][LedgerNext]_ledgerVars /\ LedgerFairness

-----------------------------------------------------------------------------
(* Properties.                                                             *)

StageOf(s) ==
  CASE s \in {"FOREGROUND", "HANDOFF_PENDING"}                  -> "foreground"
    [] s \in {"NATIVE_BACKGROUND", "SUPERVISOR_BACKGROUND"}     -> "background"
    [] s = "COMPLETING"                                         -> "settling"
    [] OTHER                                                    -> "over"

(* The ledger as the promise sees it: the records, whatever the calls do.  *)
Abstract ==
  INSTANCE Ownership WITH
    Backends   <- Backend,
    Detachable <- {"THREAD_NATIVE_TERMINAL", "SANDBOX_DESCENDANT_SUPERVISOR"},
    Nobody     <- None,
    owner      <- [j \in Jobs |-> IF ledger[j] = None THEN None ELSE ledger[j].backend],
    stage      <- [j \in Jobs |-> IF ledger[j] = None THEN "none" ELSE StageOf(ledger[j].state)]

(* Every write of a call, made from a copy it read before, is one move of  *)
(* one job that the promise admits in the state it is made in:             *)
(* V0.5_NATIVE_TERMINAL_ARCHITECTURE.md, "A job record has one backend     *)
(* owner and cannot change backend during transfer".                       *)
OneOwner == Abstract!OwnershipSpec

(* "one winner and one CAS rejection": of the calls that ask to take a job *)
(* out of one and the same state, one is told that it did.                 *)
OneWinner ==
  \A c, d \in Transitions :
    LET won(t) == call[t].answer = "ok" /\ call[t].record.state # call[t].expected
    IN  won(c) /\ won(d) /\ JobOf[c] = JobOf[d]
          /\ call[c].expected = call[d].expected => c = d

(* A job that is moved into the background is moved into that of its own   *)
(* backend.                                                                *)
TransfersReachOwners ==
  [][\A j \in Jobs :
       /\ ledger[j] # None /\ ledger'[j].state # ledger[j].state
       /\ Background(ledger'[j].state)
       => ledger'[j].backend = BackendOf(ledger'[j].state)]_ledgerVars

(* A call that enters gets both locks and answers, unless it is killed.    *)
CallsAnswer == \A c \in Calls : Running(c) ~> ~Running(c)
=============================================================================
