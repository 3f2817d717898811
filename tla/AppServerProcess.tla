-------------------------- MODULE AppServerProcess --------------------------
(***************************************************************************)
(* snooze_controller/app_server_process.py: one owned App Server, spawned  *)
(* again after each stop or crash.  The owner's thread starts, stops and   *)
(* restarts it; every spawned process has a thread that reads its stdout   *)
(* and one that polls it; other threads send requests and wait for their   *)
(* answers.  What they share is the state, the table of pending requests   *)
(* and the flag _closed_by_owner.                                          *)
(***************************************************************************)
EXTENDS Naturals

CONSTANTS Requests,     \* requests of the threads other than the owner's
          MaxSpawns,    \* bound: processes spawned
          MaxRestarts,  \* the argument max_restarts
          Frail         \* bound: the processes whose stdout may be closed while they run,
                        \* or kept open by a child of theirs after they ended

Spawns == 1..MaxSpawns

ASSUME BoundsAreNat == MaxSpawns \in Nat /\ MaxRestarts \in Nat

Lifecycle == {"STOPPED", "STARTING", "INITIALIZING", "READY", "CRASHED", "RESTARTING", "FAILED"}

(* The initialize request of a process is named by the process.            *)
Initialize(g) == <<"initialize", g>>
Calls    == Requests \cup {Initialize(g) : g \in Spawns}
Watchers == {"reader", "monitor"} \X Spawns
Reader(g)  == <<"reader", g>>
Monitor(g) == <<"monitor", g>>

(* The threads that watch a process are not those that send requests.      *)
ASSUME RequestsAreNoWatchers == Requests \cap Watchers = {}

VARIABLES
  state,      \* the lifecycle state
  owner,      \* where the owner's thread is, and what follows its stop
  process,    \* the current process, 0 for None
  spawned,    \* how many processes were spawned
  restarts,   \* _restart_count
  closed,     \* _closed_by_owner
  alive,      \* processes that run
  shut,       \* processes whose stdin was closed by stop
  held,       \* processes whose stdout a child of theirs keeps open
  pc,         \* the place of every watcher and of every call
  to,         \* to[c]: the process the call c writes to
  pending,    \* the table of pending requests
  mailbox,    \* mailbox[c]: the queue of size one the call c waits on
  outcome,    \* outcome[c]: what the call c returns or raises
  inbox,      \* requests in the stdin of their process
  pipe,       \* answers in the stdout of their process
  holding,    \* holding[g]: the call, if any, whose answer the reader of g is putting
  before,     \* before[c]: history, the processes reported gone when c entered the table
  lingering   \* history: processes whose threads outlived the next spawn

serverVars == <<alive, shut, held, inbox, pipe>>
callVars   == <<to, pending, mailbox, outcome, before>>
ownerVars  == <<owner, process, spawned, restarts, closed, lingering>>
appVars    == <<state, ownerVars, serverVars, pc, callVars, holding>>

CrashPc   == {"crash_read", "crash_set", "crash_tell"}
WatcherPc == {"none", "read", "put", "poll", "done"} \cup CrashPc
CallPc    == {"idle", "register", "capture", "write", "wait", "pop", "ended"} \cup CrashPc

AppTypeOK ==
  /\ state     \in Lifecycle
  /\ owner     \in [pc   : {"idle", "start", "spawn", "initializing", "await", "ready",
                            "stop", "reap", "join"},
                    next : {"idle", "start"}]
  /\ process   \in 0..MaxSpawns /\ spawned \in 0..MaxSpawns /\ restarts \in 0..MaxRestarts
  /\ closed    \in BOOLEAN
  /\ alive     \subseteq Spawns /\ shut \subseteq Spawns /\ held \subseteq Spawns
  /\ pc        \in [Watchers \cup Calls -> WatcherPc \cup CallPc]
  /\ to        \in [Calls -> 0..MaxSpawns]
  /\ pending   \subseteq Calls
  /\ mailbox   \in [Calls -> {"empty", "answer", "crash"}]
  /\ outcome   \in [Calls -> {"none", "answer", "crash", "timeout", "unsent"}]
  /\ inbox     \subseteq Calls /\ pipe \subseteq Calls
  /\ holding   \in [Spawns -> SUBSET Calls]
  /\ before    \in [Calls -> SUBSET Spawns]
  /\ lingering \subseteq Spawns

AppInit ==
  /\ state = "STOPPED"
  /\ owner = [pc |-> "idle", next |-> "idle"]
  /\ process = 0 /\ spawned = 0 /\ restarts = 0
  /\ closed = FALSE
  /\ alive = {} /\ shut = {} /\ held = {}
  /\ pc = [t \in Watchers \cup Calls |-> IF t \in Watchers THEN "none" ELSE "idle"]
  /\ to = [c \in Calls |-> 0]
  /\ pending = {}
  /\ mailbox = [c \in Calls |-> "empty"]
  /\ outcome = [c \in Calls |-> "none"]
  /\ inbox = {} /\ pipe = {}
  /\ holding = [g \in Spawns |-> {}]
  /\ before = [c \in Calls |-> {}]
  /\ lingering = {}

Goes(t, place) == pc' = [pc EXCEPT ![t] = place]

-----------------------------------------------------------------------------
(* The owner: start, stop, restart.                                        *)

OwnerAt(place) == owner.pc = place
OwnerGoes(place) == owner' = [owner EXCEPT !.pc = place]

(* Mutant of Startable: a running process may be started again.            *)
StartableRunning == state \notin {"STARTING", "FAILED"}

Startable == state \in {"STOPPED", "CRASHED", "RESTARTING"}

Start ==
  /\ \/ OwnerAt("start")
     \/ OwnerAt("idle") /\ Startable /\ spawned < MaxSpawns
  /\ IF Startable
       THEN state' = "STARTING" /\ OwnerGoes("spawn")
       ELSE UNCHANGED state /\ OwnerGoes("idle")
  /\ UNCHANGED <<process, spawned, restarts, closed, lingering, serverVars, pc, callVars,
                 holding>>

SpawnFails ==
  /\ OwnerAt("spawn")
  /\ state' = "FAILED"
  /\ OwnerGoes("idle")
  /\ UNCHANGED <<process, spawned, restarts, closed, lingering, serverVars, pc, callVars,
                 holding>>

(* The reader waits for a stdout that a child of the process keeps open,   *)
(* or for room in the mailbox of its call.                                 *)
Blocked(g) ==
  \/ pc[Reader(g)] = "read" /\ g \in held /\ {c \in pipe : to[c] = g} = {}
  \/ pc[Reader(g)] = "put" /\ \E c \in holding[g] : mailbox[c] # "empty"

(* What nobody joins and may still act for the process g: its threads if   *)
(* it was not stopped, its reader if the join of it timed out, a call that *)
(* writes to it or found it gone.                                          *)
LeftBehind(g) ==
  \/ pc[Reader(g)] # "done"
  \/ pc[Monitor(g)] # "done" /\ g \notin shut
  \/ \E c \in Calls : to[c] = g /\ pc[c] \in {"write"} \cup CrashPc

(* Popen, then the flag is reset, then the threads start.                  *)
Spawn ==
  /\ OwnerAt("spawn")
  /\ spawned < MaxSpawns
  /\ spawned' = spawned + 1
  /\ process' = spawned'
  /\ closed'  = FALSE
  /\ alive'   = alive \cup {spawned'}
  /\ pc'      = [pc EXCEPT ![Reader(spawned')] = "read", ![Monitor(spawned')] = "poll"]
  /\ lingering' = lingering \cup {g \in 1..spawned : LeftBehind(g)}
  /\ OwnerGoes("initializing")
  /\ UNCHANGED <<state, restarts, shut, held, inbox, pipe, callVars, holding>>

Initializing ==
  /\ OwnerAt("initializing")
  /\ state' = "INITIALIZING"
  /\ OwnerGoes("await")
  /\ UNCHANGED <<process, spawned, restarts, closed, lingering, serverVars, pc, callVars,
                 holding>>

(* The server accepts; or it rejects, or the error of a crash is the       *)
(* answer; or the request raised.                                          *)
Initialized ==
  /\ OwnerAt("await")
  /\ pc[Initialize(spawned)] = "ended"
  /\ \/ /\ outcome[Initialize(spawned)] = "answer"
        /\ OwnerGoes("ready")
        /\ UNCHANGED state
     \/ /\ owner' = [pc |-> "stop", next |-> "idle"]
        /\ state' = "FAILED"
  /\ UNCHANGED <<process, spawned, restarts, closed, lingering, serverVars, pc, callVars,
                 holding>>

Ready ==
  /\ OwnerAt("ready")
  /\ state' = "READY"
  /\ OwnerGoes("idle")
  /\ UNCHANGED <<process, spawned, restarts, closed, lingering, serverVars, pc, callVars,
                 holding>>

StopCall ==
  /\ OwnerAt("idle")
  /\ process # 0
  /\ owner' = [pc |-> "stop", next |-> "idle"]
  /\ UNCHANGED <<state, process, spawned, restarts, closed, lingering, serverVars, pc,
                 callVars, holding>>

(* Mutant of MayRestart: the limit is passed by one.                       *)
MayRestartOnceMore == restarts <= MaxRestarts

MayRestart == restarts < MaxRestarts

RestartCall ==
  /\ OwnerAt("idle")
  /\ MayRestart
  /\ spawned < MaxSpawns
  /\ restarts' = restarts + 1
  /\ state' = "RESTARTING"
  /\ owner' = [pc |-> "stop", next |-> "start"]
  /\ UNCHANGED <<process, spawned, closed, lingering, serverVars, pc, callVars,
                 holding>>

(* What follows a stop: the end of the call, or the start of a restart.    *)
Stopped ==
  /\ state' = IF owner.next = "start" THEN "RESTARTING" ELSE "STOPPED"
  /\ OwnerGoes(owner.next)

Stop ==
  /\ OwnerAt("stop")
  /\ IF process = 0
       THEN Stopped /\ UNCHANGED <<closed, shut>>
       ELSE /\ closed' = TRUE
            /\ shut' = shut \cup {process}
            /\ OwnerGoes("reap")
            /\ UNCHANGED state
  /\ UNCHANGED <<process, spawned, restarts, lingering, alive, held, inbox, pipe, pc,
                 callVars, holding>>

(* What a process that ends leaves: a child that holds its stdout, or not. *)
Dies(g) ==
  /\ alive' = alive \ {g}
  /\ held' \in {held, held \cup ({g} \cap Frail)}

(* It ends at the end of its input, or is terminated, or is killed.        *)
Reap ==
  /\ OwnerAt("reap")
  /\ IF process \in alive THEN Dies(process) ELSE UNCHANGED <<alive, held>>
  /\ OwnerGoes("join")
  /\ UNCHANGED <<state, process, spawned, restarts, closed, lingering, shut, inbox, pipe, pc,
                 callVars, holding>>

(* Mutant of Join: the threads are not joined.                             *)
JoinNot ==
  /\ OwnerAt("join")
  /\ process' = 0
  /\ Stopped
  /\ UNCHANGED <<spawned, restarts, closed, lingering, serverVars, pc, callVars,
                 holding>>

(* Mutant of Join: the threads are joined without a timeout.               *)
JoinForever ==
  /\ OwnerAt("join")
  /\ pc[Monitor(process)] = "done"
  /\ pc[Reader(process)] = "done"
  /\ process' = 0
  /\ Stopped
  /\ UNCHANGED <<spawned, restarts, closed, lingering, serverVars, pc, callVars,
                 holding>>

(* A thread that can run ends within the timeout of its join.              *)
Join ==
  /\ OwnerAt("join")
  /\ pc[Monitor(process)] = "done"
  /\ pc[Reader(process)] = "done" \/ Blocked(process)
  /\ process' = 0
  /\ Stopped
  /\ UNCHANGED <<spawned, restarts, closed, lingering, serverVars, pc, callVars,
                 holding>>

-----------------------------------------------------------------------------
(* _mark_crashed, called by watchers and by calls that could not write.    *)
(* It returns at once if the owner stops the server.                       *)

Watcher(t) == t \in Watchers

Return(t) ==
  /\ Goes(t, IF Watcher(t) THEN "done" ELSE "pop")
  /\ outcome' = IF Watcher(t) THEN outcome ELSE [outcome EXCEPT ![t] = "unsent"]

MarkCrashed(t) ==
  IF closed THEN Return(t) ELSE Goes(t, "crash_read") /\ UNCHANGED outcome

CrashRead(t) ==
  /\ pc[t] = "crash_read"
  /\ Goes(t, IF state \in {"STOPPED", "FAILED", "CRASHED"} THEN "crash_tell" ELSE "crash_set")
  /\ UNCHANGED <<state, ownerVars, serverVars, callVars, holding>>

CrashSet(t) ==
  /\ pc[t] = "crash_set"
  /\ state' = "CRASHED"
  /\ Goes(t, "crash_tell")
  /\ UNCHANGED <<ownerVars, serverVars, callVars, holding>>

(* Mutant of Told: nobody is told.                                         *)
ToldNobody == mailbox

(* put_nowait: a mailbox that has its answer keeps it.                     *)
Told == [c \in Calls |-> IF c \in pending /\ mailbox[c] = "empty" THEN "crash" ELSE mailbox[c]]

CrashTell(t) ==
  /\ pc[t] = "crash_tell"
  /\ mailbox' = Told
  /\ Return(t)
  /\ UNCHANGED <<state, ownerVars, serverVars, to, pending, before, holding>>

Crash(t) == CrashRead(t) \/ CrashSet(t) \/ CrashTell(t)

-----------------------------------------------------------------------------
(* The threads of the process g.                                           *)

(* An answer to a request that left the table goes to _messages, which     *)
(* nobody reads.                                                           *)
ReadLine(g) ==
  /\ pc[Reader(g)] = "read"
  /\ \E c \in pipe :
       /\ to[c] = g
       /\ pipe' = pipe \ {c}
       /\ IF c \in pending
            THEN /\ holding' = [holding EXCEPT ![g] = {c}]
                 /\ Goes(Reader(g), "put")
            ELSE UNCHANGED <<holding, pc>>
  /\ UNCHANGED <<state, ownerVars, alive, shut, held, inbox, callVars>>

(* Queue.put blocks while the mailbox is full.                             *)
Put(g) ==
  /\ pc[Reader(g)] = "put"
  /\ \E c \in holding[g] :
       /\ mailbox[c] = "empty"
       /\ mailbox' = [mailbox EXCEPT ![c] = "answer"]
  /\ holding' = [holding EXCEPT ![g] = {}]
  /\ Goes(Reader(g), "read")
  /\ UNCHANGED <<state, ownerVars, serverVars, to, pending, outcome, before>>

EndOfFile(g) ==
  /\ pc[Reader(g)] = "read"
  /\ g \notin alive \cup held
  /\ {c \in pipe : to[c] = g} = {}
  /\ MarkCrashed(Reader(g))
  /\ UNCHANGED <<state, ownerVars, serverVars, to, pending, mailbox, before, holding>>

(* The server closed its stdout, or a read or the handling of a line       *)
(* failed: whether the process runs is not asked.                          *)
ReadFails(g) ==
  /\ g \in Frail
  /\ pc[Reader(g)] = "read"
  /\ MarkCrashed(Reader(g))
  /\ UNCHANGED <<state, ownerVars, serverVars, to, pending, mailbox, before, holding>>

Poll(g) ==
  /\ pc[Monitor(g)] = "poll"
  /\ g \notin alive \/ closed
  /\ MarkCrashed(Monitor(g))
  /\ UNCHANGED <<state, ownerVars, serverVars, to, pending, mailbox, before, holding>>

-----------------------------------------------------------------------------
(* request, by the owner for initialize and by any thread for the others.  *)

(* The state is read before the table is locked.                           *)
Ask(c) ==
  /\ pc[c] = "idle"
  /\ IF c \in Requests THEN state \in {"READY", "INITIALIZING"}
                       ELSE OwnerAt("await") /\ c = Initialize(spawned)
  /\ Goes(c, "register")
  /\ UNCHANGED <<state, ownerVars, serverVars, callVars, holding>>

(* A watcher of the process g has told every request in the table.         *)
Reported(g) == pc[Reader(g)] = "done" \/ pc[Monitor(g)] = "done"

(* Mutant of Register: the request is not put into the table.              *)
RegisterNothing(c) ==
  /\ pc[c] = "register"
  /\ before' = [before EXCEPT ![c] = {g \in Spawns : Reported(g)}]
  /\ Goes(c, "capture")
  /\ UNCHANGED <<state, ownerVars, serverVars, to, pending, mailbox, outcome, holding>>

Register(c) ==
  /\ pc[c] = "register"
  /\ pending' = pending \cup {c}
  /\ before' = [before EXCEPT ![c] = {g \in Spawns : Reported(g)}]
  /\ Goes(c, "capture")
  /\ UNCHANGED <<state, ownerVars, serverVars, to, mailbox, outcome, holding>>

(* _send_raw: the process it writes to is the current one.                 *)
Capture(c) ==
  /\ pc[c] = "capture"
  /\ to' = [to EXCEPT ![c] = process]
  /\ Goes(c, IF process = 0 THEN "pop" ELSE "write")
  /\ outcome' = IF process = 0 THEN [outcome EXCEPT ![c] = "unsent"] ELSE outcome
  /\ UNCHANGED <<state, ownerVars, serverVars, pending, mailbox, before, holding>>

(* A stdin that stop closed raises ValueError, which is not taken for a    *)
(* crash.  One that the server closed, running or not, raises EPIPE; but a *)
(* child of a server that ended may hold it open, and then nobody reads.   *)
WriteLine(c) ==
  /\ pc[c] = "write"
  /\ \/ to[c] \in shut /\ Return(c) /\ UNCHANGED inbox
     \/ to[c] \notin shut /\ MarkCrashed(c) /\ UNCHANGED inbox
     \/ /\ to[c] \notin shut
        /\ Goes(c, "wait")
        /\ inbox' = inbox \cup {c}
        /\ UNCHANGED outcome
  /\ UNCHANGED <<state, ownerVars, alive, shut, held, pipe, to, pending, mailbox,
                 before, holding>>

Take(c) ==
  /\ pc[c] = "wait"
  /\ mailbox[c] # "empty"
  /\ mailbox' = [mailbox EXCEPT ![c] = "empty"]
  /\ outcome' = [outcome EXCEPT ![c] = mailbox[c]]
  /\ Goes(c, "pop")
  /\ UNCHANGED <<state, ownerVars, serverVars, to, pending, before, holding>>

Timeout(c) ==
  /\ pc[c] = "wait"
  /\ mailbox[c] = "empty"
  /\ outcome' = [outcome EXCEPT ![c] = "timeout"]
  /\ Goes(c, "pop")
  /\ UNCHANGED <<state, ownerVars, serverVars, to, pending, mailbox, before, holding>>

Pop(c) ==
  /\ pc[c] = "pop"
  /\ pending' = pending \ {c}
  /\ before'  = [before EXCEPT ![c] = {}]
  /\ Goes(c, "ended")
  /\ UNCHANGED <<state, ownerVars, serverVars, to, mailbox, outcome, holding>>

-----------------------------------------------------------------------------
(* The server, which is not ours.                                          *)

ServerAnswers(c) ==
  /\ c \in inbox /\ to[c] \in alive
  /\ inbox' = inbox \ {c}
  /\ pipe'  = pipe \cup {c}
  /\ UNCHANGED <<state, ownerVars, alive, shut, held, pc, callVars, holding>>

ServerDies(g) ==
  /\ g \in alive
  /\ Dies(g)
  /\ UNCHANGED <<state, ownerVars, shut, inbox, pipe, pc, callVars, holding>>

HolderEnds(g) ==
  /\ g \in held
  /\ held' = held \ {g}
  /\ UNCHANGED <<state, ownerVars, alive, shut, inbox, pipe, pc, callVars, holding>>

-----------------------------------------------------------------------------
OwnerCalls     == OwnerAt("idle") /\ (Start \/ StopCall \/ RestartCall)
OwnerContinues ==
  \/ OwnerAt("start") /\ Start
  \/ Spawn \/ Initializing \/ Initialized \/ Ready \/ Stop \/ Reap \/ Join
WatcherSteps(g) ==
  \/ ReadLine(g) \/ Put(g) \/ EndOfFile(g) \/ ReadFails(g) \/ Poll(g)
  \/ Crash(Reader(g)) \/ Crash(Monitor(g))
CallContinues(c) ==
  \/ c \notin Requests /\ Ask(c)
  \/ Register(c) \/ Capture(c) \/ WriteLine(c) \/ Crash(c) \/ Take(c) \/ Timeout(c) \/ Pop(c)

AppNext ==
  \/ OwnerCalls \/ OwnerContinues \/ SpawnFails
  \/ \E g \in Spawns : WatcherSteps(g) \/ ServerDies(g) \/ HolderEnds(g)
  \/ \E c \in Calls : Ask(c) \/ CallContinues(c) \/ ServerAnswers(c)

(* What threads do by themselves; the server owes nothing.                 *)
ThreadsGoOn ==
  \/ OwnerContinues
  \/ \E g \in Spawns : ReadLine(g) \/ Put(g) \/ EndOfFile(g) \/ Crash(Reader(g))
                      \/ Poll(g) \/ Crash(Monitor(g))
  \/ \E c \in Calls : CallContinues(c)

(* No more is assumed than that some thread runs as long as one can.       *)
AppFairness == WF_appVars(ThreadsGoOn)

AppSpec == AppInit /\ [][AppNext]_appVars /\ AppFairness

-----------------------------------------------------------------------------
(* No answer is lost while its caller waits: a request is before its       *)
(* server, its answer in the pipe or in the hand of the reader, or there   *)
(* is something in its mailbox; for the request enters the table before it *)
(* is written, and leaves it when it no longer waits (lines 318-324,       *)
(* 427-440).  So nobody but a request that timed out, or that finds the    *)
(* report of a crash in its mailbox, misses an answer that was read.       *)
WaitersMissNoAnswer ==
  \A c \in Calls :
    pc[c] = "wait" =>
      \/ c \in inbox \cup pipe
      \/ pc[Reader(to[c])] = "put" /\ c \in holding[to[c]]
      \/ mailbox[c] # "empty"

(* Once one of the threads that watch a process has ended, no request to   *)
(* it that was in the table when that thread told them still waits for its *)
(* timeout (lines 512-523).  This holds of the current process unless it   *)
(* was stopped, and of the earlier ones unless something of one of them    *)
(* was left behind, which the flag of the current one may silence.  A      *)
(* request that entered the table later may wait out its timeout: nobody   *)
(* tells it, if a child that holds the stdin lets its write succeed.       *)
CrashReachesWaiters ==
  \A c \in Calls :
    /\ pc[c] = "wait"
    /\ to[c] \notin shut \cup before[c]
    /\ to[c] = spawned \/ lingering = {}
    /\ Reported(to[c])
    => mailbox[c] # "empty"

(* The reader of the process g saw the end of its output, or a call could  *)
(* not write to it.                                                        *)
Accused(g) ==
  \/ pc[Reader(g)] \in CrashPc \cup {"done"}
  \/ \E c \in Calls :
       /\ to[c] = g
       /\ pc[c] \in CrashPc \/ outcome[c] = "unsent"

(* A server that runs beside a later one was never stopped, and was taken  *)
(* for crashed by its reader or by a write to it, which do not ask whether *)
(* it runs (lines 215, 262-276, 399-405); or something of a process before *)
(* it was left behind and called it crashed.  A stop, a restart or the     *)
(* monitor leaves no server running.                                       *)
StraysWereAccused ==
  \A g \in alive :
    g < spawned => /\ g \notin shut
                   /\ (\A h \in lingering : h >= g) => Accused(g)

(* A state becomes CRASHED by a thread that watches the current process,   *)
(* by its monitor only if it has ended, or by a call that could not write; *)
(* never by a thread of a process that was stopped before: stop joins them *)
(* before the flag that silences them is reset (lines 505, 555-557, 183).  *)
(* What start leaves behind is excepted.                                   *)
CrashIsOfTheCurrent ==
  [][state # "CRASHED" /\ state' = "CRASHED" /\ lingering = {}
       => \/ process # 0 /\ pc[Reader(process)] = "crash_set"
          \/ process \in Spawns \ alive /\ pc[Monitor(process)] = "crash_set"
          \/ \E c \in Calls : pc[c] = "crash_set"]_appVars

(* start, stop and restart return, whatever the server, its children and   *)
(* the threads that read it do: the join of a reader that is stuck, in a   *)
(* read or in a full mailbox, times out (lines 321, 555-557).              *)
OwnerReturns == ~OwnerAt("idle") ~> OwnerAt("idle")

(* Asserted by test_crash_state_is_separate_from_thread_state: after a     *)
(* crash the state is CRASHED or FAILED.  Here: once both threads that     *)
(* watch a process have ended with it, the server is not said to be ready. *)
CrashIsNotForgotten ==
  ~ /\ state = "READY" /\ OwnerAt("idle")
    /\ process \notin alive
    /\ pc[Reader(process)] = "done" /\ pc[Monitor(process)] = "done"
=============================================================================
