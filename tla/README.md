# Codex Snooze: TLA+ specifications and proofs

Codex Snooze runs a long command outside the agent's turn: a detached
*supervisor* forks it, waits for it and writes what happened into a job
directory; a *delivery* step announces the result, and a *controller* that owns
an App Server interrupts the turn that started the command and continues the
thread when the job has ended. What coordinates these processes is the files of
the directory, a few `flock`s, the process table and a JSON-RPC pipe. This
directory specifies that system, checks it with TLC and proves its main
invariants with TLAPS.

## 1. The system

| Component | State it keeps | Operations | What makes it correct |
|---|---|---|---|
| Job store, `snooze_core/store.py`, `models.py`, `persistence.py` | per job: `spec.json`, `metadata.json`, `result.json`, `delivery.json`, `delivery_payload.json`, `handoff.json`; lock files | `create`, `update_metadata`, `write_result`, `write_delivery`, `update_delivery`, `claim_delivery`, `reconcile_metadata_from_result` | transitions follow the tables; every file is old or new, never torn |
| Supervisor, `supervisor.py`, `process_identity.py` | `supervisor.lock`, the child process, pipes, logs | `run_job`, `cancel_job` | the recorded outcome is the real one; a job whose command ended is settled, unless the supervisor is killed or cannot record it; a recorded command is not run twice |
| Recovery, `recovery.py` | none (reads all of the above) | `recover_job` | after a crash the files tell one story; nothing is invented; a finished recovery leaves a usable delivery |
| Delivery outbox, `snooze_controller/controller.py` | `delivery.json`, `delivery_payload.json` | `deliver`, `resume`, `ack`, `retry` | at-least-once, duplicates only with permission, ACKED is final |
| Submission, `cli.py` | the launcher's wait and the handoff marker | `submit`, `handoff`, `wait` | a job is either detached with a marker or waited for; the marker outlives its launcher |
| Completion router, `completion_router.py` | a file of events, one in-process lock per instance | `route`, `mark_retry`, `acknowledge`, `retry` | one continuation per event and permission, ACKED is final |
| Ownership ledger, `v05_backend.py` | a file of owners under a `flock` and an `RLock` | `create`, `transition`, `select_backend` | one backend owns a job, for good; of two transfers one wins |
| Thread registry, `thread_registry.py` | a file of threads, turns, handoffs | `register`, `append_turn`, `update_turn`, `record_handoff` | a job belongs to one thread and turn; no turn is lost |
| App Server process, `app_server_process.py` | lifecycle, pending requests, notification buffer, three threads | `start`, `request`, `stop`, `restart`, `wait_for_notification` | no answer passes a caller that waits; a crash reaches those in the table; only a server taken for crashed runs beside its successor; the owner's calls return |
| Agent and handoff controllers, `agent.py`, `handoff.py` | phase, current turn, known jobs | `start_turn`, `wait_turn`, `wait_for_handoff`, `continue_after_job` | the thread is continued only when the controller's own turn is over; no end and no marker is missed; a job stays with its turn |
| Bounded logs, `logging.py` | written bytes, preview, truncation flags | `write`, `close` | limits hold; truncation is reported exactly when it happened, also when a write fails |
| Fingerprint, gate, native backends, hooks | none that outlives a call | pure functions, external calls | |

They interact through files (supervisor, recovery, outbox), through signals and
the process table (cancel and recovery against supervisor and command), through
a JSON-RPC pipe (agent against App Server) and through shared JSON files with a
lock per object (router, registry).

The hard behaviours are: a crash between any two of the supervisor's writes; a
recovery that acts on metadata and a delivery state it read earlier; a cancellation
that holds an old process identity; operators who retry and acknowledge while a
delivery is in flight; timeouts of a send that was taken; two watcher threads that
outlive the server they watch; an interrupt that races the end of its turn;
notifications that a bounded buffer drops. `PROJECT.json` lists them one by one with
the line where each bites.

## 2. Modules

| Module | Models | Kind |
|---|---|---|
| `JobStore` | the files of one job, the two transition tables, the locked updates | component |
| `Supervisor` | `run_job`, the command, `cancel_job` | component, properties |
| `Recovery` | `recover_job` | component |
| `DeliveryOutbox` | `deliver`, `resume`, `ack`, `retry` | component, properties |
| `JobSystem` | all of them on one job; the operator's discipline | composition, properties |
| `CompletionRouter` | `route`, `mark_retry`, `acknowledge`, `retry` on the file of completion events | component, properties |
| `Ownership` | one owner per job, handed over once, one job at a time | abstract specification |
| `OwnershipLedger` | `create` and `transition` on the ledger file, its two locks; refines `Ownership` | component, properties |
| `AppServerProcess` | the owner's `start`, `stop`, `restart`, the reader and the monitor of every spawned server, requests | component, properties |
| `Handoff` | launcher, marker, turn, buffer of notifications, registry and `HandoffController` | composition, properties |
| `BoundedLogs` | `write` of the bounded logs, with both limits' arithmetic and its failures | component, properties |
| `MCCompletionRouter`, `MCHandoff`, `MCOwnershipLedger` | which call or turn belongs to which instance, event, job or thread | for TLC |
| `JobSystemProofs` | types and honest exits | proofs |
| `JobFilesProofs` | phases, terminal states, announcements; causes, forks and outcomes of supervisors; the files under the operator's discipline | proofs |
| `DeliveryOutboxProofs` | one delivery in flight, duplicates, publication, ACKED | proofs |
| `CompletionRouterProofs` | types, binding, claims, acknowledgements, counted turns and overlapping attempts of the router | proofs |
| `OwnershipLedgerProofs` | types, the refinement of `Ownership`, one winner | proofs |
| `HandoffProofs` | types, bindings, ends, markers, no continuation in the controller's own turn | proofs |
| `AppServerProcessProofs` | types, answers and who waits for them, reports of a crash, servers left running | proofs |
| `BoundedLogsProofs` | the limits, and what the logging state says | proofs |

`JobSystem` composes the four modules of a job. `Handoff` takes a job as far as
the launcher and the controller see it (running, with a result, lost) and stops
where `CompletionRouter` begins: its step `Routed` is one call of `route`. The
ledger, the App Server process and the logs share no state with them.

### A job and its files

**State.** `meta`, `result`, `delivery` and `payload` are the four files, reduced to
the fields that control depends on. `dead` is the set of supervisor runs that were
killed, `held` the set of commands that ended while a descendant of theirs keeps
their output open. One model covers one job: the code never reads one job's files
while it handles another, so jobs do not interact.

**Runs.** A process is a member of `Supervisors`, `Cancels`, `Recoveries`,
`Deliveries`, `Acks` or `Retries` and runs its command line once; several
members are several invocations, concurrent or one after the other. `sup[s].pc`
and its like are the place in the code, the other fields are the local
variables it still needs: `rec[r].meta`, `.result`, `.delivery` are what a
recovery *read*, which may be stale when it writes. A run writes at most one
result, so the run itself stands for the UUID `completion_event_id`.

**Steps.** A step is one access to a file other processes write, or one system
call others can observe. `atomic_write` replaces a file by rename, so a write is
one step; `update_metadata`, `update_delivery` and `claim_delivery` read and
write under a `flock`, so each is one step as well. `read_metadata`,
`read_result`, `read_delivery` take no lock and are steps of their own wherever
their result is used later. `supervisor.lock` is held by a run from `Lock` to
its end or death (`Holds`), as the kernel does it.

**Abstractions.** The exit of the command is `zero`, `nonzero`, `sigterm` or
`othersignal`; the fingerprint is a Boolean, stale or not; a process identity
(pid, group, start time) is the run that forked it, and `identity_matches` is
true of a command that runs or is an unreaped zombie; identities are not
confused by reuse of a pid, which the start time in them excludes. Preflight
checks are one choice between passing and failing. Logging, timestamps,
attempts and messages are left out. Hand-edited results (`_valid_result`) are
not modelled: recovery only reports them.

**Errors.** `Raise` sends a supervisor to its handler from any place of its try
block. `GiveUp` ends it where nothing is left that would record the failure: in the
preflight reads before the try block, in the failure path that reports a failed
preflight, and in the handler itself, whose read may raise and which swallows what its
update raises (`supervisor.py:414-425`); such a run is `unrecorded`. A refused
transition is the `ELSE` branch of the step that asks for it. `KillSupervisor` stops a
run where it is; its command goes on in its own session. `Wait` reaps the command and
`Join` waits for the readers of its output, without a timeout, so a descendant in
`held` stops the supervisor there until it lets go (`OutputCloses`), which nothing
forces.

`StopRecovery` ends a recovery at any step, by a kill or by an exception, which
`recover_store` turns into `recovery_error`; what was written stays. `StopDelivery`
ends a delivery in the middle of its attempt in the same two ways: a payload that
cannot be written, a session that cannot be read or a subprocess that cannot be
started leave `CLAIMED` or `SENDING` as a kill does. `CliResume` may fail whether or
not the session took the prompt.

### The completion router

**State.** `events` is the file, a record per event reduced to its state, the
thread it is bound to, the count of attempts and the turn last recorded.
`call[c]` is where a call of `route`, `acknowledge` or `retry` is, with the copy
of the whole file it read and is about to write back (`seen`). `thread[r]` is
the thread of the route's controller, `started` the routes whose prompt the App
Server took, `crashed` the calls whose process was killed: their instance goes on
as the process that is started in its place, and its later calls run in that.

**Steps.** Each `with self._lock` section is a step that reads the file and one
that writes it: the lock (`Free`) belongs to one router object, so the sections
of one process exclude each other and those of two processes do not. A write
replaces the whole file or raises, before the replacement or after it (`fsync`
of the directory). `StartTurn` may fail whether or not the App Server took the
prompt. `WaitTurn` fails the way `wait_turn` does, into the inner `mark_retry`
and from there into the handler's, or by another error straight into the
handler's. What the handler does not catch ends the call (`broken`). The
deadlines are not modelled, only that a wait ends. `SENDING`, which `claim`
tests for, is written nowhere and left out; the job id of an event is compared
like its thread id and left out with it.

**Specifications.** `RouterSpec` lets controllers of several processes use one
file at any time, as the code allows. `AloneSpec` adds that a call begins only
when no call of another living process is under way: one controller after the
other, with any number of concurrent threads in each.

### The ownership ledger

**State.** `ledger` is the file, a record (state, backend) per job; `call[c]` the
place of a call of `create` or `transition` with the copy of the whole ledger it
read (`seen`) and the record it decided to write; `entered[i]` who is inside the
`RLock` of the ledger object `i`, `flocked` who holds the `flock`. The arguments
of a transition (expected state, target, optional backend) are chosen when it
reads, from all their values. What `create` writes is the `PendingHandoff` of its
caller, as it is (`v05_backend.py:175-186`): `FOREGROUND` is no more than the default
of a dataclass field, and nothing compares the state with the backend. The constant
`Handoffs` is the set of records callers bring, any set of records in the proofs.

**Steps.** Entering the object, taking the `flock`, reading and deciding, the
write, giving up the `flock`, leaving. Opening the lock file may raise; a write
may raise before or after the file was replaced. `KillInstance` ends a process
anywhere: the kernel frees its `flock`, the file keeps what was renamed.

**Promise.** `Ownership` has no file, no locks and no calls: a job gets an owner
once, with a first stage its creator chooses (`Own`); from there it may be detached
once and only by a backend that can be detached, settles and ends; a step moves one
job. `OneOwner` says that the ledger implements it, with `owner` and `stage` read
off the file. A write made from a stale copy would move two jobs at once, or a job
back, and is not a step of `Ownership`.

### The App Server process

**State.** `state` is the lifecycle, `owner` the place of the owner's thread in
`start`, `stop` or `restart`, `process` and `spawned` the current and the last
server (servers are numbered), `closed` the flag `_closed_by_owner`. Every server
has a reader and a monitor thread (`pc[Reader(g)]`, `pc[Monitor(g)]`); `pending`,
`mailbox` and `outcome` are the requests, `inbox` and `pipe` what is on its way.
Two variables are history: `lingering`, the servers whose threads, or requests that
wrote to them, were not through when the next one was spawned, and `before[c]`, the
servers that a watcher had reported when `c` entered the table.

**Steps.** A step is one access to what threads share: reset or test of the flag,
a change of the state, an entry into or out of the table, a put into a queue of
size one. `_mark_crashed`, the same in reader, monitor and request, tests the flag in
the step that found the failure, then reads the state, sets it, and copies the table
and tells everyone in it. A server dies at any moment, with or without a child that
keeps its pipes open (`held`), and answers any request, late ones included, or none.

**Failing pipes.** The reader calls a crash what it takes for the end of a server's
output: the true end (`EndOfFile`), but also an output that a running server closed,
or a line it could not handle (`ReadFails`); nobody asks whether the process runs. A
write (`WriteLine`) has three outcomes: a stdin that `stop` closed raises
`ValueError`, which is no crash; EPIPE is one, and may come from a running server
too; or the write succeeds, also into the stdin of a server that ended, when a child of
it holds that open. Its caller then waits, and if the report of the crash came before
it entered the table, nobody tells it anything but its timeout: `before` is what
`CrashReachesWaiters` excepts. Whatever `start` reads as CRASHED may therefore still
run, and the next server is spawned beside it: `StraysWereAccused` says that this is
the only way to leave one running, as long as no earlier server left a thread behind.

**Assumptions.** A watcher that finds the flag unset uses `self._process` in the same
step. A write does not block. stderr, `notify`, `respond`, requests by the server and
`wait_for_event` are left out. The constant `Frail` bounds which servers close their
pipes while they run or leave a child behind; the proofs allow any set.

### The handoff

**State.** `turn[u]` is a turn at the App Server, `launcher[u]` its command
(`submit --handoff-after`), `job[u]` the job this submits, `marked` the jobs with a
`handoff.json`, `notes[h]` the bounded buffer of notifications of a thread,
`ctl[u]` the `HandoffController` of the turn and `registry[h]` the handoffs in the
record of the thread. `lost` (threads whose buffer dropped something) and `news`
(jobs marked since the last search of their controller) are history variables.

**Steps.** A controller is built (`Build`), which notes the jobs already in the
store, before its turn starts (`StartTurn`); jobs of other turns come in between.
The launcher's poll, its `handoff.json` and its output are three steps between which
it may be killed. The controller searches buffer and store in one step (`Search`)
and looks for the end of the turn in the next (`CheckClosed`), records the handoff,
interrupts, and waits with an index into the buffer, as `wait_for_notification`
does. An interrupt that is answered with an error leads to `Raced`, whether or not
the turn is ending; one that is answered too late raises `AppServerProcessError`,
which nothing catches, and ends the controller at once. So does a registry that
cannot be written (`RegistryFails`). `Routed` records FAILED for the errors
`continue_after_job` names; any other leaves CONTINUATION_STARTED in the registry.

**Assumptions.** A controller exists before the command of its turn runs, as it does
with every caller in the repository; one built later would take the job for an old
one. The turns of a thread run one after the other in one `AgentController`; each
thread has its own App Server; the turns share one store and one registry, whose
calls are one step each (one process). The buffer of events, which repeats the
notifications, is left out. A turn ends by itself when its command has returned.

### The bounded logs

`BoundedLogs` is arithmetic: how many bytes reached each of the three files and the
preview, how many were meant to (`received`, a history variable), and the three
kinds of truncation flags. A payload is a number of bytes, cut into lines of any
size; the lock of `write` is `step # "idle"`. A write to a file may raise, after
which the reader goes on with its next payload. The module is about one run of a
supervisor. What it promises is proved and no configuration is kept for it.

## 3. Runs

| Run | Instance | Shows | States |
|---|---|---|---|
| `supervision` | 2 supervisor runs, 1 cancellation | causes of CANCELLED, results behind terminal states, no repeated recorded command; liveness: an ended or SIGKILLed command is settled, unless its supervisor is killed, cannot record its failure, or waits for an output nobody closes | 338 k |
| `outbox` | 3 deliveries, 1 ack, 1 retry | no second delivery in flight, no unasked duplicate, ACKED final, claims released unless the attempt is killed or raises | 1.2 M |
| `job_anytime` | 1 supervisor, recovery, delivery, ack, retry | types, honest outcomes, advancing phases, announcements on results, with recovery at *any* moment | 1.05 M |
| `recovery_disciplined` | 1 supervisor, 2 recoveries, 1 delivery, 1 ack | after a crash, under an assumed discipline: files reconciled, results kept, ACKED kept, a recovery nothing stops ends | 462 k |
| `router` | 2 routes, ack, retry in one controller that may be killed and started again; 2 threads | one attempt at a time unless reopened or allowed, turns counted and on their thread, claims with their attempts, ACKED undone only by an attempt in flight; every call ends | 1.1 M |
| `ledger` | 2 creates, 2 transitions, 2 processes, 2 jobs | every write is a move `Ownership` admits, one winner, every call gets its locks and answers | 327 k |
| `app_server` | 2 servers, 1 restart, the initialize requests | no answer passes a request that waits, a report of a crash reaches those in the table, only a server taken for crashed runs beside its successor, a crash is of the current server, the owner's calls return | 1.1 M |
| `handoff` | 2 turns of 1 thread, a buffer of 2, 1 unrelated notification | no continuation in the controller's own running turn, no end and no marker missed but what the buffer dropped, bindings kept | 4.3 M |

Bounds. Two supervisor runs are the crash and the rerun; the lock admits one at a
time and a dead run leaves only the files, and what a third may do to these is left
to the proofs. Two deliveries are the race for a claim; the third is one that opens
the outbox, by the failure it records, to another that then repeats the first. Two
recoveries are a recovery that is killed and the one that repairs after it. One ack
and one retry each race everything else. The six kinds never all appear together
with more than one member: the properties that need two members of a kind relate
them to at most two other kinds, which are in the same run. The proofs of section 4
remove these bounds for the invariants they cover. `job_anytime` has one supervisor
run; what its properties say of reruns and cancellations rests on the proofs, which
cover all of them, and on `supervision`.

In `router` two routes race for a claim, with an acknowledgement and a retry to
overtake them; a call that begins after a kill is a call of the next controller,
so the same four calls are the restart as well. Two threads are a right and a
wrong one. One event is enough where controllers take turns, since every call
changes the record of its own event only.

In `ledger` each process has calls of both kinds, so that every pair of calls meets
inside an object and across processes; the two jobs are what a stale copy of the
whole file would lose; `Handoffs` has every backend, in the foreground, at the end,
and in a background that is not its own. In `app_server` two servers are the one
that is left and the one that replaces it, which is all that `lingering` tells
apart, and every spawn has its own request, the initialize. The first server is the
frail one: what its pipes do meets the second, and the second has no successor to
meet. A third kind of thread with an ordinary request (the constant `Requests`)
multiplies the instance past what the run can hold, and differs from the initialize
only in that nobody stops the server when it fails. In `handoff` two turns of a
thread are a marker and a completion that are old when the second controller looks;
a buffer of two with one unrelated notification is dropped from in every position.

Fairness. `supervision` assumes weak fairness of a supervisor's own steps (a process
that is not killed is scheduled; `wait` returns when the child ended) and that a
command that got SIGKILL ends. The readers' join is not assumed to return while a
descendant holds the output: both liveness properties except a supervisor that is
`Hindered` by that for ever, by a kill, or by a handler that fails. Nothing forces a
command to end by itself, a run to start, or an exception or a kill to happen.
`outbox` assumes the same of a delivery run (`codex exec resume` has a timeout), and
`recovery_disciplined` of a recovery run (it never waits). `router` assumes weak
fairness of every step of a call after its first: its process lives and schedules
it, `turn/start` and the wait for the turn have timeouts, and the lock is held for a
read and a write only. `ledger` assumes that a process that lives is scheduled and
that the kernel grants a free `flock`; weak fairness is enough because every holder
gives it up and each call is made once. `app_server` assumes no more than that some
thread takes a step as long as one can, waits and joins with a timeout included
(`WF` of their disjunction), and nothing of the server: it may never answer, never
die, and leave a child that never ends. No fairness is assumed of operators and
cancellations, nor of the acknowledgements and retries of the outbox; `handoff`
assumes none.

`CHECK_DEADLOCK FALSE` everywhere: every run is one-shot, so the system stops
when all of them have ended or are dead.

`recovery_disciplined` restricts the environment, not the code, by a discipline that
is an assumption of this project: a recovery starts only when no supervisor,
recovery, delivery, ack or retry is under way, no delivery step falls into a
recovery, and no supervisor is started for a job that has a result or a recovery.
README.md:156-164 and 201-203 show `recover` without saying when it may be run, and
nothing in the code enforces it. So the run and its theorems say what an operator
who keeps it gets, and nothing about a recovery beside a live run. The condition on
results is needed without any recovery too: a run whose preflight fails writes its
report over the result and the delivery of an earlier run (`supervisor.py:105-107`).
`job_anytime` drops the restriction, and `live_job_claimed` shows what then goes
wrong. In the same way `AloneSpec` restricts who uses the router's file, not the
code: `HandoffController` gives every controller of a job store the same default
file. `CrashIsOfTheCurrent`, and what `CrashReachesWaiters` and `StraysWereAccused`
say of earlier servers, hold as long as no earlier server left anything behind
(`lingering`): `start` after a crash does not join the old threads, which may then
mark the new server CRASHED.

### Disagreements found

| Run | Property | What happens |
|---|---|---|
| `live_job_claimed` | `LiveJobIsNotClaimed` | recovery reads SUBMITTED, the supervisor starts, recovery probes the supervisor of the old metadata (none) and writes ORPHANED while the command runs |
| `router_double_mark` | `InFlightRejectsClaim` | a wait fails and marks RETRY_WAIT, another route claims, the handler marks RETRY_WAIT a second time over the claim, a third route claims beside it |
| `crash_forgotten` | `CrashIsNotForgotten` | the server ends right after its initialize answer, both watchers set CRASHED and end, `start` sets READY |
| `foreign_handoff` | `InterruptsOwnTurn` | a controller whose turn has no marker yet takes the job of another thread from the shared store, and interrupts its own turn for it |

Further disagreements, each found as a counterexample to the named lines and
kept here without a configuration:

- `repair` (`recovery.py:127`) writes back a delivery state it read before an
  acknowledgement, which is lost; IMPLEMENTATION_REPORT.md:152-153 says the
  updates are serialized by the `flock` files. `AckSurvives` holds under the
  operator's discipline and fails without it.
- `retry` (`controller.py:263`) decides on an unlocked read; the event may become
  SENT_UNCONFIRMED before its update, which then reopens it without the
  permission README.md:168-169 asks for.
- A wait that fails after an acknowledgement puts RETRY_WAIT over ACKED
  (`completion_router.py:168`), which the diagram of V0.4_CONTINUATION_REPORT.md:12-13
  has last.
- Two controllers of one store write the whole router file over each other
  (`completion_router.py:41`), so that a turn may run whose marker is gone;
  SECURITY_ANALYSIS.md:97 says that event ids are persisted before continuation.
- A rerun whose preflight fails reports FAILED for a job that stays STARTING: only
  SUBMITTED metadata is updated (`supervisor.py:66`). The next run is admitted,
  forks, and replaces the announced report by its own result. What holds is
  `OutcomesYieldToReports`, the other direction.
- A rerun of the supervisor appends to the logs of the first one and counts from
  zero (`logging.py:32-43`), so a file may exceed `max_log_bytes`, by which
  README.md:230 says files are bounded. This one is read off the code.

IMPLEMENTATION_REPORT.md also says the result is written "before metadata and
delivery"; the failure paths of the supervisor write metadata first, or write no
result at all, which is the exception `TerminalHasResult` makes.

## 4. Proofs

For any sets of runs, every interleaving and every kill (`JobSystem!Spec`):

| Theorem | Says |
|---|---|
| `TypeCorrect` | `[]TypeOK` |
| `NoExitIsInvented` | `[]NoInventedExit`: result and metadata report only exits that happened, success only for exit 0 |
| `PhasesAdvance` | `NeverBackwards`: no step takes metadata to an earlier phase |
| `TerminalStandsOnResult` | `[]TerminalHasResult` |
| `AnnouncedStandsOnResult` | `[]AnnouncedHasResult` |
| `CancellationsAreCaused` | `[]CancelledForCause` |

For any sets of supervisor runs and cancellations of a job that nobody recovers
or delivers (`Supervisor!SupervisionSpec`):

| Theorem | Says |
|---|---|
| `SupervisedCancellationsAreCaused` | `[]CancelledForCause` |
| `ForksAreRecordedOnce` | `RecordedCommandIsNotRepeated`: a run forks only in a job that is STARTING and has no recorded command |
| `OutcomesYieldToReports` | `OutcomeIsReplacedByReports`: only the report of a failed preflight replaces the result of a command that ended |

For any sets of runs that keep the operator's discipline, and every kill
(`JobSystem!DisciplinedSpec`):

| Theorem | Says |
|---|---|
| `RecoveryKeepsItsPromise` | `RecoveryReconciles`: a recovery that returns leaves result, metadata and delivery in agreement |
| `ResultIsTheFirst` | `ResultIsWrittenOnce` |
| `AcknowledgementSurvives` | `AckSurvives` |
| `PublishedUnderDiscipline` | `[]UnconfirmedIsPublished`: what is marked sent or ACKED has the payload file of its event |

For any sets of deliveries, acknowledgements and retries of a finished job, every
interleaving and kill (`DeliveryOutbox!OutboxSpec`):

| Theorem | Says |
|---|---|
| `OneInFlight` | `[]OneInFlightUnlessRetried` |
| `NoDuplicateUnlessAsked` | `[]NoUnaskedDuplicate` |
| `SentIsPublished` | `[]UnconfirmedIsPublished` |
| `AcknowledgementIsFinal` | `AckedIsFinal` |

For any sets of calls, controllers, events and threads, every interleaving
inside a controller, every kill and failing write (`CompletionRouter!AloneSpec`):

| Theorem | Says |
|---|---|
| `RouterTypes` | `[]RouterTypeOK` |
| `StaysOnThread` | `[]TurnsStayOnThread`: all continuations of an event are on the thread it is bound to |
| `ClaimsHaveAttempts` | `[]ClaimHasAnAttempt`: only a killed process or a failed write leaves a claim behind |
| `AcksAreUndoneByAttempts` | `OnlyAttemptsUndoAcks`: a step that changes an ACKED record is one of a route of that event, in an attempt it has claimed and not ended |
| `TurnsCounted` | `[]TurnsAreCounted`: a record counts every continuation that was started |
| `OneAttempt` | `[]OneAttemptUnlessReopened`: attempts overlap only with permission, or after a retry or the double mark of a third route |

For any sets of jobs, calls and processes, every interleaving, kill and failing
write (`OwnershipLedger!LedgerSpec`):

| Theorem | Says |
|---|---|
| `LedgerTypes` | `[]LedgerTypeOK` |
| `LedgerImplementsOwnership` | `OneOwner`: the ledger implements `Ownership!OwnershipSpec` |
| `OneWinnerHolds` | `[]OneWinner`: of the calls that take a job out of the same state one is told so |
| `TransfersAreOwners` | `TransfersReachOwners`: a transfer, unlike a creation, puts a job only in the background of its own backend |

For any sets of turns and threads, any length of the buffer of notifications, any
number of unrelated notifications, a launcher killed at any place and a registry that
cannot be written (`Handoff!HandoffSpec`):

| Theorem | Says |
|---|---|
| `HandoffTypes` | `[]HandoffTypeOK` |
| `ContinuationsWait` | `[]NoContinuationInTurn`: no controller goes on while its own turn runs |
| `EndsSeen` | `WaitMissesOnlyDropped`: an end is missed only if the buffer dropped a notification |
| `MarkersFound` | `MarkerIsNotMissed`: a marker written before the last search is found |
| `BindingsHold` | `BindingIsKept`: a job stays with the turn the thread's record binds it to |

For any sets of requests, any number of servers and restarts, servers that end,
answer late, close their pipes while they run or leave a child that holds them
(`AppServerProcess!AppSpec`):

| Theorem | Says |
|---|---|
| `AppTypesAreKept` | `[]AppTypeOK` |
| `NoWaiterIsPassedBy` | `[]WaitersMissNoAnswer`: a request that waits has its message before the server, on its way, or in its mailbox |
| `StraysAreAccused` | `[]StraysWereAccused`: a server that runs beside a later one was not stopped and was taken for crashed, unless something of an earlier one was left behind |
| `WaitersAreTold` | `[]CrashReachesWaiters`: when one watcher is through, every request that was in the table by then has an answer or the report |
| `CrashIsTheCurrentOnes` | `CrashIsOfTheCurrent`: CRASHED is set for the current server, by its monitor only if it ended |

For any limits that `LogLimits` accepts, payloads of any size cut anywhere, and
writes that raise (`BoundedLogs!LogSpec`):

| Theorem | Says |
|---|---|
| `LogTypes` | `[]LogTypeOK` |
| `BoundsHold` | `[]LogsAreBounded`: no file and no preview grows past its limits |
| `HonestyHolds` | `[]StateIsHonest`: after each payload OK means nothing is missing, TRUNCATED that something is |

The assumptions are those of the component modules: runs, and calls, of different
kinds are different; every call has an instance and an event or a job; what callers
bring to `create` are records of the ledger; requests are not watchers; and `None`
is neither a run, a call, a status, an answer nor a file content. The limits of the
logs are a hypothesis of their theorems.

*Types.* `TypeOK` alone is not inductive: a step that copies a field of a result
needs the result to be there. `Presence` says, for each place in the code, what
has been read and written by then: a supervisor that writes metadata has built
its result and `result.json` exists; a recovery about to repair holds a result
and never writes NOT_READY; a delivery past its check has a result to announce.
`TypeInv == TypeOK /\ Presence` is inductive (`AlwaysTypeInv`). Frame lemmas
(`SupFrame`, `RecFrame`, `DlvFrame`) carry it over the steps of the other kinds
of runs, given that `result.json` never disappears.

*Honest exits.* `NoInventedExit` speaks of the files; what goes into them comes
from local copies. `ExitInv` adds that every copy a supervisor (`SupExitInv`) or
recovery (`RecExitInv`) holds is honest, and that a run forks only while its own
command is unborn, so an exit that happened stays (`NextExitsStay`).

*Phases and terminal states.* `MetaStep` classifies what a step does to
`metadata.json`: nothing to its state, a move along the table, or the copy of
a result that exists. Both theorems follow from it and `TypeInv`.

*Announcements.* `AnnounceInv` adds that a retry about to write PENDING saw an
announced delivery: PENDING is the only way out of NOT_READY in the table, so
this is what keeps a retry from announcing a job without a result.

*Supervisors.* `SupCaused` and `RecCaused` carry the cause of a cancellation with
every copy of a result: the request in `metadata.json` is never withdrawn, so a
copy made with it keeps its cause. `ForkInv`: one run holds the lock
(`OneHolder`), at `popen` the job is STARTING with no command recorded
(`UnrecordedYet`), and a recorded command and RUNNING are written together
(`RecordedIsRunning`), which no later step takes back to STARTING. `OutcomeInv`:
once a command's result is written the job has left SUBMITTED and STARTING, so no
later run passes `Starting`.

*The discipline.* `FilesInv` has four parts. `TurnsInv`: one holder of the lock, one
recovery, no supervisor once a recovery has begun, no delivery beside one.
`SupFiles`: a run holds the lock before its result is written only while there is no
result, and between its result and its announcement the delivery is NOT_READY.
`RecFiles`: what a recovery read is still so when it writes, place by place, although
it holds no lock. `EventFiles`: delivery, payload file and every delivery run name
the event of the one result. Each property speaks of one step that needs all four,
e.g. `RepairWrite` overwrites the delivery with what it read and is harmless to ACKED
because what it read is what is there. A step of a supervisor is `WritesResult`,
`Announces` or `GoesOn`, one of the outbox `Updates` the delivery or runs (`RunFiles`);
the invariant is proved for these classes, not for each action.

*Outbox.* Before a retry the state of the delivery tells where the run in flight is
(`Claimed`), hence there is one (`Alone`). After a delivery without permission and
without the CLI the state stays among those a claim with permission only can leave
(`OnceUnlessAsked`), until a retry or a run of both kinds that recorded its outcome.

*Router.* `RouterInv` adds to the types that the calls under way belong to one
process (`OneProcess`), that at most one of them is in a locked section
(`Mutex`) with a copy equal to the file (`Fresh`), that what admitted a claim,
an acknowledgement or a retry still holds when it writes (`Admitted`), and that
a record, once bound to the thread of a route, stays bound (`Bound`). The
properties speak of the file alone and none is inductive: without `Fresh` a
write could restore anything. Every step is one of four `Kinds`, entering the
lock, moving, writing, or a kill; `NextKinds` classifies the actions once, and
each invariant is then proved for four kinds instead of sixteen actions.
`CountInv` counts, for an event, the routes that have claimed or started
(`Turns`): a claim adds one and adds one attempt, nothing else adds any.
`OverlapInv` follows from `ReopenInv`, by which RETRY_WAIT has an author: a route past
its failure, or a retry.

*Ledger.* `LockInv` says what the locks are for: whoever is between reading and
leaving holds the `flock` (`Held`), and for a call that is about to write its copy
*is* the file and what admitted its record still holds (`WritersReady`). Without it
no write could be shown to move one job only. From it every step of the ledger is
either no change of the file or one move of one job (`StepMoves`), a move maps to an
action of `Ownership`, or to a stutter when state and stage stay, and the temporal
refinement combines the two. `OneWinner` is not about the file alone: `Rank` orders
the states of a job and every transition raises it (`RankRises`), so once a winner
has moved a job on (`Left`) the file never says again what the second asker expects;
`WinInv` carries this along.

*Handoff.* `HoldsJob` says what a controller holds at each place: a job from the
search on, its binding in the registry from the record on. `ControlSteps` classifies
every step of a controller once, `WorldSteps` every other; each invariant follows
from these and from what one notification does to a buffer (`NotifyNotes`).
`EndInv`: an end that was notified is an end (`NotesTrue`), and the places after the
wait are reached through one only (`OverClosed`). `MarkerInv`: no controller takes
the job of its own turn for an older one, because it is built before the turn
starts, and the turn before its command does; so the search of the store covers it.
`WaitInv`: as long as a thread's buffer dropped nothing, it has the end of every
turn that is over, and nothing a wait has passed is the end it waits for; a dropped
entry shifts the buffer under the index, hence the condition.

*App Server process.* `OwnerInv`, `Unspawned` and `TableInv` say what belongs to which
server and request. `MonitorIsRight`: a monitor, unlike a reader or a write, takes only
a server that ended for crashed. `StopJoins`: what was closed has a monitor that is
through, once `stop` has joined it. `NothingLeft`: of an earlier server that does not
linger no thread acts any more. `AllAreTold` extends `CrashReachesWaiters` to requests
that have entered the table and not written yet: a watcher ends `_mark_crashed` only
after it told everyone in the table, and `before` names those that were through by
then. `StraysInv` extends `StraysWereAccused` to the moments at which the next server
may be spawned (`NextMayStart`): a running server's state is CRASHED only because its
reader or a write to it said so, and what said so stays to be seen. `HandsInv`: the
reader has one answer in its hand, so that an answer that leaves the pipe while its
caller waits is on its way to the mailbox.

*Logs.* `LogInv` relates what was written to what was meant to be, in the middle
of a payload as well: `Due` are the bytes still to be written to the file of the
stream, `left` those still to be shown. A file or preview is short by more
than that exactly when its flag is set, unless a write failed.

Some statements were corrected because no inductive invariant could be found for
them; a larger instance then showed the counterexample the earlier one was too
small for. `NoUnaskedDuplicate` needed its third exception (three deliveries),
`OneAttemptUnlessReopened` the double mark of a third route (three routes),
`CrashReachesWaiters` the servers that are not the current one, and the discipline its
condition on results (two supervisor runs). The run `router` keeps two routes, since a
third is past what it can hold; the theorem covers them. `recovery_disciplined` keeps
one supervisor run for the same reason.

Model-checked only: all liveness (`EndedCommandIsSettled`, `KilledCommandIsSettled`,
`ClaimIsReleased`, `RecoveryEnds`, `CallsAnswer`, `CallsEnd`, `OwnerReturns`), since
fairness and ENABLED are beyond the prover. Every safety property of a passing run
is a theorem. Proved only, with no configuration kept for them, are the theorems
about `BoundedLogs`, `TransfersReachOwners`, `OutcomesYieldToReports`, and
`CancelledForCause` beside recoveries (`CancellationsAreCaused`).

## 5. Not modelled, and the plan

Next, in this order:

1. An abstract specification of the durable event, which the outbox, and one
   router, refine.
2. `create`'s three writes and a launcher killed between them, `submit --detach`
   and `wait`; composed with `Supervisor`.
3. The turns of the thread registry (`append_turn`, `update_turn`), and two
   processes on one registry or router file at once.
4. `select_backend`, the gate and the fingerprint as pure operators against
   reference definitions.

Left out of the modelled parts: pids that are reused (a start time in the
identity excludes them), files edited by hand, `fsync` and power loss beyond a
write that raises, descriptor numbers of closed pipes, opening and closing of
the logs, the contents of their envelopes.

Left out for good: the plugin hooks (inert); probes, tools and recorded results
(no part of the running system); the text of prompts, payloads and logs; git and
`ps` themselves. The TypeScript files under `probes/` and `results/` are the App
Server's generated protocol types: declarations without behaviour. The program
is the Python of `snooze_core` and `snooze_controller`, and that is what the
modules translate.
