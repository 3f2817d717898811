----------------------- MODULE CompletionRouterProofs -----------------------
(***************************************************************************)
(* Invariants of CompletionRouter!AloneSpec for any number of calls,       *)
(* threads, events and controller processes that use the file one after    *)
(* the other: concurrency inside a process, kills, and failing writes.     *)
(***************************************************************************)
EXTENDS CompletionRouter, FiniteSetTheorems, TLAPS

(* The calls under way belong to one process.                              *)
OneProcess ==
  \A c, d \in Calls : Active(c) /\ Active(d) => InstanceOf[c] = InstanceOf[d]

Locked(c) == call[c].pc \in LockedPc /\ Live(c)

(* The lock works, and what was read under it is still what the file says. *)
Mutex == \A c, d \in Calls : Locked(c) /\ Locked(d) => c = d
Fresh == \A c \in Calls : Locked(c) => call[c].seen = events

(* What made the read admit the call is true until the call writes.        *)
Admitted ==
  \A c \in Calls : Live(c) =>
    /\ call[c].pc = "claim" => c \in Routes /\ Claimable(c, Current(c))
    /\ call[c].pc = "ack" =>
         c \in Acks /\ Current(c) # None /\ Current(c).state = "SENT_UNCONFIRMED"
    /\ call[c].pc = "reopen" =>
         c \in Retries /\ Current(c) # None /\ Retryable(c, Current(c))

(* A route that has claimed, or whose turn was started, is bound for good. *)
Bound ==
  \A r \in Routes :
    call[r].pc \in RoutePc \/ r \in started =>
      Current(r) # None /\ Current(r).thread = thread[r]

(* Only routes are at the places of a route.                               *)
Places == \A c \in Calls : call[c].pc \in RoutePc => c \in Routes

RouterInv == RouterTypeOK /\ OneProcess /\ Mutex /\ Fresh /\ Admitted /\ Bound /\ Places

-----------------------------------------------------------------------------
(* The kinds of step: a call enters the lock with a copy of the file,      *)
(* moves without changing it, or leaves the lock with a changed record.    *)

EnterStep(c, pc) ==
  /\ Live(c) /\ Free(c) /\ (Active(c) \/ Alone(c))
  /\ pc \in LockedPc /\ Read(c, pc) /\ UNCHANGED <<events, crashed>>

MoveStep(c, pc) ==
  /\ Live(c) /\ (Active(c) \/ Alone(c))
  /\ pc \in EndedPc \cup (RoutePc \ LockedPc)
  /\ Leave(c, pc) /\ UNCHANGED <<events, crashed>>

PutStep(c, pc, record) ==
  /\ Locked(c)
  /\ pc \in EndedPc \cup (RoutePc \ LockedPc)
  /\ events' = [call[c].seen EXCEPT ![EventOf[c]] = record]
  /\ Leave(c, pc) /\ UNCHANGED crashed

KillStep == UNCHANGED <<events, call>> /\ crashed \subseteq crashed'

LEMMA EntersOneProcess ==
  ASSUME RouterTypeOK, OneProcess, Mutex, Fresh,
         NEW c \in Calls, NEW pc, EnterStep(c, pc)
  PROVE  OneProcess' /\ Mutex' /\ Fresh'
<1>1. \A o \in Calls : Active(o) => InstanceOf[o] = InstanceOf[c]
  BY DEF EnterStep, OneProcess, Alone
<1>2. \A o \in Calls \ {c} : ~Locked(o)
  <2>1. \A o \in Calls : Locked(o) => Active(o)
    BY DEF Locked, Active, LockedPc, EndedPc
  <2>2. QED
    BY <1>1, <2>1 DEF EnterStep, Free, Locked
<1>3. /\ call'[c].pc \in LockedPc /\ call'[c].seen = events
      /\ \A o \in Calls \ {c} : call'[o] = call[o]
      /\ UNCHANGED <<events, crashed>>
  BY DEF EnterStep, Read, RouterTypeOK
<1>4. OneProcess'
  BY <1>1, <1>3 DEF OneProcess, Active, Live
<1>5. Mutex'
  BY <1>2, <1>3 DEF Mutex, Locked, Live
<1>6. Fresh'
  BY <1>2, <1>3 DEF Fresh, Locked, Live
<1>7. QED
  BY <1>4, <1>5, <1>6

LEMMA UnlockedPlaces == (EndedPc \cup (RoutePc \ LockedPc)) \cap LockedPc = {}
BY DEF EndedPc, RoutePc, LockedPc

LEMMA MovesOneProcess ==
  ASSUME RouterTypeOK, OneProcess, Mutex, Fresh,
         NEW c \in Calls, NEW pc, MoveStep(c, pc)
  PROVE  OneProcess' /\ Mutex' /\ Fresh'
<1>1. \A o \in Calls : Active(o) => InstanceOf[o] = InstanceOf[c]
  BY DEF MoveStep, OneProcess, Alone
<1>2. /\ call'[c].pc \notin LockedPc
      /\ \A o \in Calls \ {c} : call'[o] = call[o]
      /\ UNCHANGED <<events, crashed>>
  BY UnlockedPlaces DEF MoveStep, Leave, RouterTypeOK
<1>3. OneProcess'
  BY <1>1, <1>2 DEF OneProcess, Active, Live
<1>4. Mutex'
  BY <1>2 DEF Mutex, Locked, Live
<1>5. Fresh'
  BY <1>2 DEF Fresh, Locked, Live
<1>6. QED
  BY <1>3, <1>4, <1>5

LEMMA PutsOneProcess ==
  ASSUME RouterTypeOK, OneProcess, Mutex, Fresh,
         NEW c \in Calls, NEW pc, NEW record, PutStep(c, pc, record)
  PROVE  /\ OneProcess' /\ Mutex' /\ Fresh'
         /\ events' = [events EXCEPT ![EventOf[c]] = record]
<1>0. Active(c)
  BY DEF PutStep, Locked, Active, LockedPc, EndedPc
<1>1. \A o \in Calls : Active(o) => InstanceOf[o] = InstanceOf[c]
  BY <1>0 DEF OneProcess
<1>2. \A o \in Calls \ {c} : ~Locked(o)
  BY DEF PutStep, Mutex
<1>3. /\ call'[c].pc \notin LockedPc
      /\ \A o \in Calls \ {c} : call'[o] = call[o]
      /\ UNCHANGED crashed
  BY UnlockedPlaces DEF PutStep, Leave, RouterTypeOK
<1>4. OneProcess'
  BY <1>1, <1>3, <1>0 DEF OneProcess, Active, Live
<1>5. Mutex' /\ Fresh'
  BY <1>2, <1>3 DEF Mutex, Fresh, Locked, Live
<1>6. events' = [events EXCEPT ![EventOf[c]] = record]
  BY DEF PutStep, Fresh
<1>7. QED
  BY <1>4, <1>5, <1>6

-----------------------------------------------------------------------------
(* What the steps of each kind respect.                                    *)

(* Where a route is whose last write made its event CLAIMED, or STARTING.  *)
ClaimedPc  == {"start_read", "start", "broken"}
StartingPc == {"start_turn", "sent_read", "sent", "outer_read", "outer", "broken"}

Keeps(c, pc) ==
  /\ call[c].pc \in ClaimedPc => pc \in ClaimedPc
  /\ call[c].pc \in StartingPc => pc \in StartingPc

Enters(c, pc) ==
  /\ EnterStep(c, pc) /\ UNCHANGED <<thread, allow, started>>
  /\ Keeps(c, pc)
  /\ pc \in RoutePc => call[c].pc \in RoutePc
  /\ pc = "claim" => c \in Routes /\ Claimable(c, Current(c))
  /\ pc = "ack" => c \in Acks /\ Current(c) # None /\ Current(c).state = "SENT_UNCONFIRMED"
  /\ pc = "reopen" => c \in Retries /\ Current(c) # None /\ Retryable(c, Current(c))

Moves(c, pc) ==
  /\ MoveStep(c, pc) /\ UNCHANGED <<thread, allow>>
  /\ Keeps(c, pc)
  /\ pc \in RoutePc => call[c].pc \in RoutePc
  /\ \/ UNCHANGED started
     \/ started' = started \cup {c} /\ call[c].pc \in RoutePc

Puts(c, pc, record) ==
  /\ PutStep(c, pc, record) /\ UNCHANGED <<thread, allow, started>>
  /\ Current(c) # None => record.thread = Current(c).thread
  /\ pc \in RoutePc => c \in Routes /\ record.thread = thread[c]
  /\ record.state = "CLAIMED" => c \in Routes /\ pc \in ClaimedPc
  /\ record.state = "STARTING" => c \in Routes /\ pc \in StartingPc

Kills == KillStep /\ UNCHANGED <<thread, allow, started>> /\ crashed' \subseteq Calls

Kinds ==
  \/ \E c \in Calls, pc \in LockedPc : Enters(c, pc)
  \/ \E c \in Calls, pc \in EndedPc \cup RoutePc : Moves(c, pc)
  \/ \E c \in Calls, pc \in EndedPc \cup RoutePc, record \in Record : Puts(c, pc, record)
  \/ Kills

(* A locked read of a route, and a write, are steps of these kinds.        *)
LEMMA ReadKind ==
  ASSUME RouterInv, NEW c \in Routes, NEW from \in RoutePc, NEW pc \in LockedPc \cap RoutePc,
         NEW missing \in EndedPc \cup (RoutePc \ LockedPc),
         from \in ClaimedPc => pc \in ClaimedPc /\ missing \in ClaimedPc,
         from \in StartingPc => pc \in StartingPc /\ missing \in StartingPc,
         ReadRecord(c, from, pc, missing)
  PROVE  Kinds
<1>1. Active(c) /\ Live(c) /\ Free(c) /\ call[c].pc = from /\ c \in Calls
  BY DEF ReadRecord, At, Active, RoutePc, EndedPc, Calls
<1>2. pc \notin {"claim", "ack", "reopen"}
  BY DEF RoutePc
<1>3. CASE Read(c, pc)
  <2>1. Enters(c, pc)
    BY <1>1, <1>2, <1>3 DEF Enters, EnterStep, Keeps, ReadRecord
  <2>2. QED
    BY <1>1, <2>1 DEF Kinds
<1>4. CASE Leave(c, missing)
  <2>1. Moves(c, missing)
    BY <1>1, <1>4 DEF Moves, MoveStep, Keeps, ReadRecord
  <2>2. QED
    BY <1>1, <2>1 DEF Kinds
<1>5. QED
  BY <1>3, <1>4 DEF ReadRecord

LEMMA WriteKind ==
  ASSUME RouterInv, NEW c \in Calls, NEW from \in LockedPc, NEW record \in Record,
         NEW pc \in EndedPc \cup (RoutePc \ LockedPc),
         NEW onError \in EndedPc \cup (RoutePc \ LockedPc),
         WriteRecord(c, from, record, pc, onError),
         from \in ClaimedPc => onError \in ClaimedPc,
         from \in StartingPc => onError \in StartingPc,
         onError \in RoutePc => from \in RoutePc,
         Current(c) # None => record.thread = Current(c).thread,
         \A next \in {pc, onError} :
           /\ next \in RoutePc => c \in Routes /\ record.thread = thread[c]
           /\ record.state = "CLAIMED" => c \in Routes /\ next \in ClaimedPc
           /\ record.state = "STARTING" => c \in Routes /\ next \in StartingPc
  PROVE  Kinds
<1>1. Active(c) /\ Locked(c) /\ Live(c) /\ call[c].pc = from
  BY DEF WriteRecord, At, Active, Locked, LockedPc, EndedPc
<1>2. ASSUME NEW next \in {pc, onError}, Leave(c, next),
             events' = [call[c].seen EXCEPT ![EventOf[c]] = record]
      PROVE  Kinds
  <2>1. Puts(c, next, record)
    BY <1>1, <1>2 DEF Puts, PutStep, WriteRecord
  <2>2. QED
    BY <2>1 DEF Kinds
<1>3. CASE UNCHANGED events /\ Leave(c, onError)
  <2>1. Moves(c, onError)
    BY <1>1, <1>3 DEF Moves, MoveStep, Keeps, WriteRecord
  <2>2. QED
    BY <2>1 DEF Kinds
<1>4. QED
  BY <1>2, <1>3 DEF WriteRecord, Write

(* Under the lock the copy is the file.                                    *)
LEMMA SeenIsCurrent ==
  ASSUME RouterInv, NEW c \in Calls, Locked(c)
  PROVE  Seen(c) = Current(c)
BY DEF RouterInv, Fresh, Seen, Current

(* A route at its places has a record to change, bound to its thread.      *)
LEMMA RouteHasRecord ==
  ASSUME RouterInv, NEW c \in Routes, call[c].pc \in RoutePc
  PROVE  Current(c) \in Record /\ Current(c).thread = thread[c]
BY CallsAreTyped DEF RouterInv, Bound, RouterTypeOK, Current, Calls

LEMMA RoutesAreCalls == Routes \subseteq Calls /\ Acks \subseteq Calls /\ Retries \subseteq Calls
BY DEF Calls

(* Every step of a route that has its claim is of one of the kinds.        *)
LEMMA RouteContinueKinds ==
  ASSUME RouterInv, NEW c \in Routes, RouteContinue(c)
  PROVE  Kinds
<1>1. CASE ClaimWrite(c)
  <2>1. Locked(c) /\ call[c].pc = "claim"
    BY <1>1 DEF ClaimWrite, WriteRecord, At, Locked, LockedPc
  <2>2. Seen(c) = Current(c) /\ Current(c) \in Record \cup {None} /\ Claimable(c, Current(c))
    BY <2>1, RoutesAreCalls, SeenIsCurrent, CallsAreTyped
    DEF RouterInv, RouterTypeOK, Admitted, Locked, Current
  <2>3. /\ Claimed(c, Seen(c)) \in Record
        /\ Claimed(c, Seen(c)).thread = thread[c]
        /\ Claimed(c, Seen(c)).state = "CLAIMED"
    <3>1. thread[c] \in Threads
      BY DEF RouterInv, RouterTypeOK
    <3>2. CASE Current(c) = None
      BY <2>2, <3>1, <3>2 DEF Claimed, Record, State
    <3>3. CASE Current(c) \in Record
      <4>1. Current(c) # None /\ Current(c).thread = thread[c]
        BY <2>2, <3>3, NoneIsNothing DEF Claimable
      <4>2. Current(c).attempts + 1 \in Nat
        BY <3>3 DEF Record
      <4>3. [Current(c) EXCEPT !.state = "CLAIMED", !.attempts = @ + 1] \in Record
        BY <3>3, <4>2 DEF Record, State
      <4>4. QED
        BY <2>2, <3>3, <4>1, <4>3 DEF Claimed, Record
    <3>4. QED
      BY <2>2, <3>2, <3>3
  <2>4. Current(c) # None => Current(c).thread = thread[c]
    BY <2>2 DEF Claimable
  <2>5. QED
    BY <1>1, <2>3, <2>4, RoutesAreCalls, WriteKind
    DEF ClaimWrite, ClaimedPc, StartingPc, RoutePc, LockedPc, EndedPc
<1>2. CASE StartRead(c)
  BY <1>2, ReadKind DEF StartRead, ClaimedPc, StartingPc, RoutePc, LockedPc, EndedPc
<1>3. CASE StartWrite(c)
  <2>1. Locked(c) /\ call[c].pc \in RoutePc
    BY <1>3 DEF StartWrite, WriteRecord, At, Locked, LockedPc, RoutePc
  <2>2. Seen(c) = Current(c) /\ Current(c) \in Record /\ Current(c).thread = thread[c]
    BY <2>1, RoutesAreCalls, SeenIsCurrent, RouteHasRecord
  <2> DEFINE record == [Seen(c) EXCEPT !.state = "STARTING"]
  <2>3. record \in Record /\ record.thread = thread[c] /\ record.state = "STARTING"
    BY <2>2 DEF Record, State, Retrying
  <2>4. record.state # "CLAIMED"
    BY <2>3
  <2>5. WriteRecord(c, "start", record, "start_turn", "broken")
    BY <1>3 DEF StartWrite
  <2> HIDE DEF record
  <2>6. QED
    BY <2>2, <2>3, <2>4, <2>5, RoutesAreCalls, WriteKind
    DEF ClaimedPc, StartingPc, RoutePc, LockedPc, EndedPc
<1>4. CASE StartTurn(c)
  <2>1. PICK pc \in {"sent_read", "outer_read"} : Leave(c, pc)
    BY <1>4 DEF StartTurn
  <2>2. Moves(c, pc)
    BY <1>4, <2>1, RoutesAreCalls
    DEF StartTurn, Moves, MoveStep, Keeps, At, Active, ClaimedPc, StartingPc,
        RoutePc, LockedPc, EndedPc
  <2>3. QED
    BY <2>2, RoutesAreCalls DEF Kinds, RoutePc
<1>5. CASE SentRead(c)
  BY <1>5, ReadKind DEF SentRead, ClaimedPc, StartingPc, RoutePc, LockedPc, EndedPc
<1>6. CASE SentWrite(c)
  <2>1. Locked(c) /\ call[c].pc \in RoutePc
    BY <1>6 DEF SentWrite, WriteRecord, At, Locked, LockedPc, RoutePc
  <2>2. Seen(c) = Current(c) /\ Current(c) \in Record /\ Current(c).thread = thread[c]
    BY <2>1, RoutesAreCalls, SeenIsCurrent, RouteHasRecord
  <2> DEFINE record == [Seen(c) EXCEPT !.state = "SENT_UNCONFIRMED", !.turn = c]
  <2>3. record \in Record /\ record.thread = thread[c] /\ record.state = "SENT_UNCONFIRMED"
    BY <2>2 DEF Record, State, Retrying
  <2>4. record.state \notin {"CLAIMED", "STARTING"}
    BY <2>3
  <2>5. WriteRecord(c, "sent", record, "wait", "outer_read")
    BY <1>6 DEF SentWrite
  <2> HIDE DEF record
  <2>6. QED
    BY <2>2, <2>3, <2>4, <2>5, RoutesAreCalls, WriteKind
    DEF ClaimedPc, StartingPc, RoutePc, LockedPc, EndedPc
<1>7. CASE WaitTurn(c)
  <2>1. PICK pc \in {"done", "inner_read", "outer_read"} : Leave(c, pc)
    BY <1>7 DEF WaitTurn
  <2>2. Moves(c, pc)
    BY <1>7, <2>1, RoutesAreCalls
    DEF WaitTurn, Moves, MoveStep, Keeps, At, Active, ClaimedPc, StartingPc,
        RoutePc, LockedPc, EndedPc
  <2>3. QED
    BY <2>2, RoutesAreCalls DEF Kinds, RoutePc, EndedPc
<1>8. CASE InnerMarkRead(c)
  BY <1>8, ReadKind DEF InnerMarkRead, ClaimedPc, StartingPc, RoutePc, LockedPc, EndedPc
<1>9. CASE InnerMarkWrite(c)
  <2>1. Locked(c) /\ call[c].pc \in RoutePc
    BY <1>9 DEF InnerMarkWrite, WriteRecord, At, Locked, LockedPc, RoutePc
  <2>2. Seen(c) = Current(c) /\ Current(c) \in Record /\ Current(c).thread = thread[c]
    BY <2>1, RoutesAreCalls, SeenIsCurrent, RouteHasRecord
  <2> DEFINE record == Retrying(Seen(c))
  <2>3. record \in Record /\ record.thread = thread[c] /\ record.state = "RETRY_WAIT"
    BY <2>2 DEF Record, State, Retrying
  <2>4. record.state \notin {"CLAIMED", "STARTING"}
    BY <2>3
  <2>5. WriteRecord(c, "inner", record, "outer_read", "outer_read")
    BY <1>9 DEF InnerMarkWrite
  <2> HIDE DEF record
  <2>6. QED
    BY <2>2, <2>3, <2>4, <2>5, RoutesAreCalls, WriteKind
    DEF ClaimedPc, StartingPc, RoutePc, LockedPc, EndedPc
<1>10. CASE OuterMarkRead(c)
  BY <1>10, ReadKind DEF OuterMarkRead, ClaimedPc, StartingPc, RoutePc, LockedPc, EndedPc
<1>11. CASE OuterMarkWrite(c)
  <2>1. Locked(c) /\ call[c].pc \in RoutePc
    BY <1>11 DEF OuterMarkWrite, WriteRecord, At, Locked, LockedPc, RoutePc
  <2>2. Seen(c) = Current(c) /\ Current(c) \in Record /\ Current(c).thread = thread[c]
    BY <2>1, RoutesAreCalls, SeenIsCurrent, RouteHasRecord
  <2> DEFINE record == Retrying(Seen(c))
  <2>3. record \in Record /\ record.thread = thread[c] /\ record.state = "RETRY_WAIT"
    BY <2>2 DEF Record, State, Retrying
  <2>4. record.state \notin {"CLAIMED", "STARTING"}
    BY <2>3
  <2>5. WriteRecord(c, "outer", record, "failed", "broken")
    BY <1>11 DEF OuterMarkWrite
  <2> HIDE DEF record
  <2>6. QED
    BY <2>2, <2>3, <2>4, <2>5, RoutesAreCalls, WriteKind
    DEF ClaimedPc, StartingPc, RoutePc, LockedPc, EndedPc
<1>12. QED
  BY <1>1, <1>2, <1>3, <1>4, <1>5, <1>6, <1>7, <1>8, <1>9, <1>10, <1>11 DEF RouteContinue

LEMMA NextKinds ==
  ASSUME RouterInv, AloneNext
  PROVE  Kinds
<1>1. ASSUME NEW c \in Calls, Alone(c), Begin(c) PROVE Kinds
  <2>1. At(c, "idle") /\ Free(c) /\ UNCHANGED <<events, thread, allow, started, crashed>>
    BY <1>1 DEF Begin, ClaimRead, AckRead, RetryRead
  <2>2. \/ Leave(c, "rejected")
        \/ Read(c, "claim") /\ c \in Routes /\ Claimable(c, Current(c))
        \/ Read(c, "ack") /\ c \in Acks /\ Current(c) # None
             /\ Current(c).state = "SENT_UNCONFIRMED"
        \/ Read(c, "reopen") /\ c \in Retries /\ Retryable(c, Current(c))
    BY <1>1 DEF Begin, ClaimRead, AckRead, RetryRead
  <2>3. CASE Leave(c, "rejected")
    <3>1. Moves(c, "rejected")
      BY <1>1, <2>1, <2>3
      DEF Moves, MoveStep, Keeps, At, ClaimedPc, StartingPc, RoutePc, LockedPc, EndedPc
    <3>2. QED
      BY <3>1 DEF Kinds, EndedPc
  <2>4. ASSUME NEW pc \in {"claim", "ack", "reopen"}, Read(c, pc),
               pc = "claim" => c \in Routes /\ Claimable(c, Current(c)),
               pc = "ack" => c \in Acks /\ Current(c) # None
                               /\ Current(c).state = "SENT_UNCONFIRMED",
               pc = "reopen" => c \in Retries /\ Current(c) # None /\ Retryable(c, Current(c))
        PROVE  Kinds
    <3>1. Enters(c, pc)
      BY <1>1, <2>1, <2>4
      DEF Enters, EnterStep, Keeps, At, ClaimedPc, StartingPc, RoutePc, LockedPc
    <3>2. QED
      BY <3>1 DEF Kinds, LockedPc
  <2>5. QED
    BY <2>2, <2>3, <2>4 DEF Retryable
<1>2. ASSUME NEW c \in Routes, RouteContinue(c) PROVE Kinds
  BY <1>2, RouteContinueKinds
<1>3. ASSUME NEW c \in Acks, AckWrite(c) PROVE Kinds
  <2>1. Locked(c) /\ call[c].pc = "ack" /\ c \in Calls
    BY <1>3, RoutesAreCalls DEF AckWrite, WriteRecord, At, Locked, LockedPc
  <2>2. Seen(c) = Current(c) /\ Current(c) \in Record
    BY <2>1, SeenIsCurrent, CallsAreTyped DEF RouterInv, RouterTypeOK, Admitted, Locked, Current
  <2> DEFINE record == [Seen(c) EXCEPT !.state = "ACKED"]
  <2>3. record \in Record /\ record.thread = Current(c).thread /\ record.state = "ACKED"
    BY <2>2 DEF Record, State
  <2>4. record.state \notin {"CLAIMED", "STARTING"} /\ {"done", "failed"} \cap RoutePc = {}
    BY <2>3 DEF RoutePc
  <2>5. WriteRecord(c, "ack", record, "done", "failed")
    BY <1>3 DEF AckWrite
  <2> HIDE DEF record
  <2>6. QED
    BY <2>1, <2>3, <2>4, <2>5, WriteKind
    DEF ClaimedPc, StartingPc, LockedPc, EndedPc
<1>4. ASSUME NEW c \in Retries, RetryWrite(c) PROVE Kinds
  <2>1. Locked(c) /\ call[c].pc = "reopen" /\ c \in Calls
    BY <1>4, RoutesAreCalls DEF RetryWrite, WriteRecord, At, Locked, LockedPc
  <2>2. Seen(c) = Current(c) /\ Current(c) \in Record
    BY <2>1, SeenIsCurrent, CallsAreTyped DEF RouterInv, RouterTypeOK, Admitted, Locked, Current
  <2> DEFINE record == Retrying(Seen(c))
  <2>3. record \in Record /\ record.thread = Current(c).thread /\ record.state = "RETRY_WAIT"
    BY <2>2 DEF Record, State, Retrying
  <2>4. record.state \notin {"CLAIMED", "STARTING"} /\ {"done", "failed"} \cap RoutePc = {}
    BY <2>3 DEF RoutePc
  <2>5. WriteRecord(c, "reopen", record, "done", "failed")
    BY <1>4 DEF RetryWrite
  <2> HIDE DEF record
  <2>6. QED
    BY <2>1, <2>3, <2>4, <2>5, WriteKind
    DEF ClaimedPc, StartingPc, LockedPc, EndedPc
<1>5. ASSUME NEW i \in Instances, KillInstance(i) PROVE Kinds
  BY <1>5 DEF KillInstance, Kinds, Kills, KillStep, RouterInv, RouterTypeOK
<1>6. QED
  BY <1>1, <1>2, <1>3, <1>4, <1>5 DEF AloneNext, Continue

-----------------------------------------------------------------------------
(* RouterInv is an invariant.                                              *)

LEMMA InitRouterInv == RouterInit => RouterInv
<1> SUFFICES ASSUME RouterInit PROVE RouterInv
  OBVIOUS
<1>1. /\ \A c \in Calls : call[c].pc = "idle" /\ ~Active(c) /\ ~Locked(c)
      /\ started = {}
  BY DEF RouterInit, Active, Locked, LockedPc
<1>2. RouterTypeOK
  BY DEF RouterInit, RouterTypeOK, Nothing
<1>3. OneProcess /\ Mutex /\ Fresh
  BY <1>1 DEF OneProcess, Mutex, Fresh
<1>4. Admitted
  BY <1>1 DEF Admitted
<1>5. Bound /\ Places
  BY <1>1, RoutesAreCalls DEF Bound, Places, RoutePc
<1>6. QED
  BY <1>2, <1>3, <1>4, <1>5 DEF RouterInv

LEMMA EntersInv ==
  ASSUME RouterInv, NEW c \in Calls, NEW pc \in LockedPc, Enters(c, pc)
  PROVE  RouterInv'
<1>1. /\ call' = [call EXCEPT ![c] = [@ EXCEPT !.pc = pc, !.seen = events]]
      /\ UNCHANGED <<events, thread, allow, started, crashed>>
  BY DEF Enters, EnterStep, Read
<1>2. /\ call'[c].pc = pc
      /\ \A d \in Calls \ {c} : call'[d] = call[d]
  BY <1>1 DEF RouterInv, RouterTypeOK
<1>3. RouterTypeOK'
  BY <1>1 DEF RouterInv, RouterTypeOK
<1>4. OneProcess' /\ Mutex' /\ Fresh'
  BY EntersOneProcess DEF Enters, RouterInv
<1>5. Admitted'
  <2>1. \A d \in Calls : /\ Current(d)' = Current(d)
                         /\ Live(d)' = Live(d)
                         /\ Claimable(d, Current(d))' = Claimable(d, Current(d))
                         /\ Retryable(d, Current(d))' = Retryable(d, Current(d))
    BY <1>1 DEF Current, Live, Claimable, Retryable
  <2>2. QED
    BY <1>2, <2>1 DEF RouterInv, Admitted, Enters
<1>6. Bound' /\ Places'
  BY <1>1, <1>2, RoutesAreCalls DEF RouterInv, Bound, Places, Current, Enters
<1>7. QED
  BY <1>3, <1>4, <1>5, <1>6 DEF RouterInv

LEMMA MovesInv ==
  ASSUME RouterInv, NEW c \in Calls, NEW pc \in EndedPc \cup RoutePc, Moves(c, pc)
  PROVE  RouterInv'
<1>1. /\ call' = [call EXCEPT ![c] = [@ EXCEPT !.pc = pc, !.seen = Nothing]]
      /\ UNCHANGED <<events, thread, allow, crashed>>
      /\ UNCHANGED started \/ (started' = started \cup {c} /\ call[c].pc \in RoutePc)
  BY Zenon DEF Moves, MoveStep, Leave
<1>2. /\ call'[c].pc = pc
      /\ \A d \in Calls \ {c} : call'[d] = call[d]
      /\ pc \notin LockedPc
  BY <1>1, UnlockedPlaces DEF RouterInv, RouterTypeOK, Moves, MoveStep
<1>3. RouterTypeOK'
  BY <1>1 DEF RouterInv, RouterTypeOK, Nothing, Places
<1>4. OneProcess' /\ Mutex' /\ Fresh'
  BY MovesOneProcess DEF Moves, RouterInv
<1>5. Admitted'
  <2>1. \A d \in Calls : /\ Current(d)' = Current(d)
                         /\ Live(d)' = Live(d)
                         /\ Claimable(d, Current(d))' = Claimable(d, Current(d))
                         /\ Retryable(d, Current(d))' = Retryable(d, Current(d))
    BY <1>1 DEF Current, Live, Claimable, Retryable
  <2>2. pc \notin {"claim", "ack", "reopen"}
    BY <1>2 DEF LockedPc
  <2>3. QED
    BY <1>2, <2>1, <2>2 DEF RouterInv, Admitted
<1>6. Bound' /\ Places'
  BY <1>1, <1>2, RoutesAreCalls DEF RouterInv, Bound, Places, Current, Moves
<1>7. QED
  BY <1>3, <1>4, <1>5, <1>6 DEF RouterInv

LEMMA PutsInv ==
  ASSUME RouterInv, NEW c \in Calls, NEW pc \in EndedPc \cup RoutePc, NEW record \in Record,
         Puts(c, pc, record)
  PROVE  RouterInv'
<1>1. /\ call' = [call EXCEPT ![c] = [@ EXCEPT !.pc = pc, !.seen = Nothing]]
      /\ UNCHANGED <<thread, allow, started, crashed>>
      /\ Locked(c)
  BY DEF Puts, PutStep, Leave
<1>2. /\ call'[c].pc = pc
      /\ \A d \in Calls \ {c} : call'[d] = call[d]
      /\ pc \notin LockedPc
  BY <1>1, UnlockedPlaces DEF RouterInv, RouterTypeOK, Puts, PutStep
<1>3. /\ OneProcess' /\ Mutex' /\ Fresh'
      /\ events' = [events EXCEPT ![EventOf[c]] = record]
  BY PutsOneProcess DEF Puts, RouterInv
<1>4. \A d \in Calls : EventOf[d] \in Events
  BY CallsAreTyped
<1>5. RouterTypeOK'
  BY <1>1, <1>3 DEF RouterInv, RouterTypeOK, Nothing
<1>6. Admitted'
  <2>1. \A d \in Calls \ {c} : ~Locked(d)
    BY <1>1 DEF RouterInv, Mutex
  <2>2. \A d \in Calls : Live(d)' => call'[d].pc \notin LockedPc
    BY <1>1, <1>2, <2>1 DEF Locked, Live
  <2>3. QED
    BY <2>2 DEF Admitted, LockedPc
<1>7. Bound'
  <2> SUFFICES ASSUME NEW r \in Routes, call'[r].pc \in RoutePc \/ r \in started'
               PROVE  Current(r)' # None /\ Current(r)'.thread = thread[r]
    BY <1>1 DEF Bound
  <2>1. CASE EventOf[r] # EventOf[c]
    <3>1. Current(r)' = Current(r) /\ r # c
      BY <1>3, <2>1 DEF Current
    <3>2. QED
      BY <1>1, <1>2, <3>1, RoutesAreCalls DEF RouterInv, Bound
  <2>2. CASE EventOf[r] = EventOf[c]
    <3>1. Current(r)' = record /\ Current(r) = Current(c) /\ record # None
      BY <1>3, <1>4, <2>2, NoneIsNothing, RoutesAreCalls
      DEF Current, RouterInv, RouterTypeOK
    <3>2. CASE call[r].pc \in RoutePc \/ r \in started
      BY <3>1, <3>2 DEF RouterInv, Bound, Puts
    <3>3. CASE r = c /\ pc \in RoutePc
      BY <3>1, <3>3 DEF Puts
    <3>4. QED
      BY <1>1, <1>2, <3>2, <3>3, RoutesAreCalls
  <2>3. QED
    BY <2>1, <2>2
<1>8. Places'
  BY <1>2 DEF RouterInv, Places, Puts
<1>9. QED
  BY <1>3, <1>5, <1>6, <1>7, <1>8 DEF RouterInv

LEMMA KillsInv == ASSUME RouterInv, Kills PROVE RouterInv'
<1>1. /\ UNCHANGED <<events, call, thread, allow, started>>
      /\ \A c \in Calls : (Live(c)' => Live(c)) /\ Current(c)' = Current(c)
  BY DEF Kills, KillStep, Live, Current
<1>2. RouterTypeOK'
  BY <1>1 DEF Kills, RouterInv, RouterTypeOK
<1>3. OneProcess' /\ Mutex' /\ Fresh'
  BY <1>1 DEF RouterInv, OneProcess, Mutex, Fresh, Active, Locked
<1>4. Admitted'
  BY <1>1 DEF RouterInv, Admitted, Claimable, Retryable
<1>5. Bound' /\ Places'
  BY <1>1, RoutesAreCalls DEF RouterInv, Bound, Places
<1>6. QED
  BY <1>2, <1>3, <1>4, <1>5 DEF RouterInv

LEMMA StuttersAreKills == RouterInv /\ UNCHANGED routerVars => Kills
BY DEF routerVars, Kills, KillStep, RouterInv, RouterTypeOK

LEMMA NextRouterInv == RouterInv /\ [AloneNext]_routerVars => RouterInv' /\ Kinds
<1> SUFFICES ASSUME RouterInv, [AloneNext]_routerVars PROVE RouterInv' /\ Kinds
  OBVIOUS
<1>1. Kinds
  BY NextKinds, StuttersAreKills DEF Kinds
<1>2. QED
  BY <1>1, EntersInv, MovesInv, PutsInv, KillsInv DEF Kinds

-----------------------------------------------------------------------------
(* A claim in the file has its route.                                      *)

ClaimInv ==
  \A e \in Events : events[e] # None =>
    /\ events[e].state = "CLAIMED" =>
         \E r \in Routes : EventOf[r] = e /\ call[r].pc \in ClaimedPc
    /\ events[e].state = "STARTING" =>
         \E r \in Routes : EventOf[r] = e /\ call[r].pc \in StartingPc

LEMMA KindsClaimInv == RouterInv /\ ClaimInv /\ Kinds => ClaimInv'
<1> SUFFICES ASSUME RouterInv, ClaimInv, Kinds PROVE ClaimInv'
  OBVIOUS
<1>1. ASSUME NEW c \in Calls, NEW pc, Keeps(c, pc), UNCHANGED events,
             call'[c].pc = pc, \A d \in Calls \ {c} : call'[d] = call[d]
      PROVE  ClaimInv'
  <2>1. \A r \in Routes : /\ call[r].pc \in ClaimedPc => call'[r].pc \in ClaimedPc
                          /\ call[r].pc \in StartingPc => call'[r].pc \in StartingPc
    BY <1>1, RoutesAreCalls DEF Keeps
  <2>2. QED
    BY <1>1, <2>1 DEF ClaimInv
<1>2. ASSUME NEW c \in Calls, NEW pc \in LockedPc, Enters(c, pc) PROVE ClaimInv'
  BY <1>1, <1>2 DEF Enters, EnterStep, Read, RouterInv, RouterTypeOK
<1>3. ASSUME NEW c \in Calls, NEW pc \in EndedPc \cup RoutePc, Moves(c, pc) PROVE ClaimInv'
  BY <1>1, <1>3 DEF Moves, MoveStep, Leave, RouterInv, RouterTypeOK
<1>4. ASSUME NEW c \in Calls, NEW pc \in EndedPc \cup RoutePc, NEW record \in Record,
             Puts(c, pc, record)
      PROVE  ClaimInv'
  <2>1. events' = [events EXCEPT ![EventOf[c]] = record]
    BY <1>4, PutsOneProcess DEF Puts, RouterInv
  <2>2. /\ call'[c].pc = pc
        /\ \A d \in Calls \ {c} : call'[d] = call[d]
    BY <1>4 DEF Puts, PutStep, Leave, RouterInv, RouterTypeOK
  <2>3. ASSUME NEW e \in Events, e # EventOf[c] PROVE events'[e] = events[e]
    BY <2>1, <2>3
  <2>4. EventOf[c] \in Events /\ events'[EventOf[c]] = record
    BY <2>1, CallsAreTyped DEF RouterInv, RouterTypeOK
  <2>5. ASSUME NEW e \in Events, e # EventOf[c]
        PROVE  \A r \in Routes : EventOf[r] = e => call'[r] = call[r]
    BY <2>2, <2>5, RoutesAreCalls
  <2>6. /\ record.state = "CLAIMED" => c \in Routes /\ call'[c].pc \in ClaimedPc
        /\ record.state = "STARTING" => c \in Routes /\ call'[c].pc \in StartingPc
    BY <1>4, <2>2 DEF Puts
  <2> SUFFICES ASSUME NEW e \in Events, events'[e] # None
               PROVE  /\ events'[e].state = "CLAIMED" =>
                           \E r \in Routes : EventOf[r] = e /\ call'[r].pc \in ClaimedPc
                      /\ events'[e].state = "STARTING" =>
                           \E r \in Routes : EventOf[r] = e /\ call'[r].pc \in StartingPc
    BY DEF ClaimInv
  <2>7. CASE e = EventOf[c]
    BY <2>4, <2>6, <2>7
  <2>8. CASE e # EventOf[c]
    BY <2>3, <2>5, <2>8 DEF ClaimInv
  <2>9. QED
    BY <2>7, <2>8
<1>5. ASSUME Kills PROVE ClaimInv'
  BY <1>5 DEF Kills, KillStep, ClaimInv
<1>6. QED
  BY <1>2, <1>3, <1>4, <1>5 DEF Kinds

-----------------------------------------------------------------------------
(* What a step of the call c does to places, counts and states.            *)

AttemptPc == {"start_read", "start", "start_turn", "sent_read", "sent", "wait"}
ReopenPc  == {"outer_read", "outer", "failed", "broken"}

(* The write of c: only a claim counts, only a failure or a retry reopens. *)
Changes(c, record) ==
  /\ events' = [events EXCEPT ![EventOf[c]] = record]
  /\ IF call[c].pc = "claim"
       THEN \/ Current(c) = None /\ record.attempts = 1
            \/ Current(c) \in Record /\ record.attempts = Current(c).attempts + 1
       ELSE Current(c) \in Record /\ record.attempts = Current(c).attempts
  /\ record.state = "RETRY_WAIT" =>
       \/ c \in Routes /\ call'[c].pc \in ReopenPc
       \/ c \in Retries /\ call'[c].pc \in {"done", "failed"}

Trace(c) ==
  /\ \A d \in Calls \ {c} : call'[d] = call[d]
  /\ UNCHANGED <<allow, crashed>>
  /\ call[c].pc \notin EndedPc
  /\ call[c].pc \in ReopenPc => call'[c].pc \in ReopenPc
  /\ call'[c].pc \in AttemptPc =>
       call[c].pc \in AttemptPc \/ (c \in Routes /\ call[c].pc = "claim" /\ Locked(c))
  /\ call'[c].pc \in RoutePc => call[c].pc \in RoutePc \cup {"claim"}
  /\ started' = started \/ (started' = started \cup {c} /\ call[c].pc \in RoutePc)
  /\ \/ /\ UNCHANGED events
        /\ call[c].pc = "claim" => call'[c].pc \notin RoutePc
     \/ \E record \in Record : Changes(c, record)

LEMMA LeaveTrace ==
  ASSUME RouterInv, NEW c \in Calls, NEW pc, Leave(c, pc)
  PROVE  call'[c].pc = pc /\ \A d \in Calls \ {c} : call'[d] = call[d]
BY DEF Leave, RouterInv, RouterTypeOK

LEMMA ReadTrace ==
  ASSUME RouterInv, NEW c \in Calls, NEW from, NEW pc, NEW missing,
         ReadRecord(c, from, pc, missing)
  PROVE  /\ call[c].pc = from /\ call'[c].pc \in {pc, missing}
         /\ \A d \in Calls \ {c} : call'[d] = call[d]
         /\ UNCHANGED <<events, allow, started, crashed>>
<1>1. /\ call[c].pc = from /\ UNCHANGED <<events, allow, started, crashed>>
      /\ Read(c, pc) \/ Leave(c, missing)
  BY DEF ReadRecord, At
<1>2. CASE Read(c, pc)
  BY <1>1, <1>2 DEF Read, RouterInv, RouterTypeOK
<1>3. CASE Leave(c, missing)
  BY <1>1, <1>3, LeaveTrace
<1>4. QED
  BY <1>1, <1>2, <1>3

LEMMA WriteTrace ==
  ASSUME RouterInv, NEW c \in Calls, NEW from \in LockedPc, NEW record, NEW pc, NEW onError,
         WriteRecord(c, from, record, pc, onError)
  PROVE  /\ call[c].pc = from /\ Locked(c)
         /\ Seen(c) = Current(c)
         /\ \A d \in Calls \ {c} : call'[d] = call[d]
         /\ UNCHANGED <<allow, started, crashed>>
         /\ \/ UNCHANGED events /\ call'[c].pc = onError
            \/ /\ events' = [events EXCEPT ![EventOf[c]] = record]
               /\ call'[c].pc \in {pc, onError}
<1>1. call[c].pc = from /\ Locked(c) /\ UNCHANGED <<allow, started, crashed>>
  BY DEF WriteRecord, At, Locked
<1>2. Seen(c) = Current(c) /\ call[c].seen = events
  BY <1>1, SeenIsCurrent DEF RouterInv, Fresh
<1>3. \/ UNCHANGED events /\ Leave(c, onError)
      \/ /\ events' = [events EXCEPT ![EventOf[c]] = record]
         /\ Leave(c, pc) \/ Leave(c, onError)
  BY <1>2 DEF WriteRecord, Write
<1>4. QED
  BY <1>1, <1>2, <1>3, LeaveTrace

LEMMA ClaimedRecord ==
  ASSUME NEW r \in Routes, thread[r] \in Threads, NEW old \in Record \cup {None}
  PROVE  /\ Claimed(r, old) \in Record /\ Claimed(r, old).state = "CLAIMED"
         /\ \/ old = None /\ Claimed(r, old).attempts = 1
            \/ old \in Record /\ Claimed(r, old).attempts = old.attempts + 1
<1>1. CASE old = None
  BY <1>1 DEF Claimed, Record, State
<1>2. CASE old \in Record
  <2>1. old # None /\ old.attempts + 1 \in Nat
    BY <1>2, NoneIsNothing DEF Record
  <2>2. Claimed(r, old) = [old EXCEPT !.state = "CLAIMED", !.attempts = old.attempts + 1]
    BY <1>2, <2>1 DEF Claimed, Record
  <2>3. QED
    BY <1>2, <2>1, <2>2 DEF Record, State
<1>3. QED
  BY <1>1, <1>2

LEMMA RouteTrace ==
  ASSUME RouterInv, NEW c \in Routes, RouteContinue(c)
  PROVE  Trace(c)
<1>0. c \in Calls /\ Current(c) \in Record \cup {None} /\ thread[c] \in Threads
  BY RoutesAreCalls, CallsAreTyped DEF RouterInv, RouterTypeOK, Current
<1>r. call[c].pc \in RoutePc => Current(c) \in Record
  BY RouteHasRecord
<1> USE DEF AttemptPc, ReopenPc, RoutePc, EndedPc
<1>1. CASE ClaimWrite(c)
  <2>1. /\ call[c].pc = "claim" /\ Locked(c) /\ Seen(c) = Current(c)
        /\ \A d \in Calls \ {c} : call'[d] = call[d]
        /\ UNCHANGED <<allow, started, crashed>>
        /\ \/ UNCHANGED events /\ call'[c].pc = "broken"
           \/ /\ events' = [events EXCEPT ![EventOf[c]] = Claimed(c, Seen(c))]
              /\ call'[c].pc \in {"start_read", "broken"}
    BY <1>0, <1>1, WriteTrace DEF ClaimWrite, LockedPc
  <2> DEFINE record == Claimed(c, Current(c))
  <2>2. /\ record \in Record /\ record.state = "CLAIMED"
        /\ \/ Current(c) = None /\ record.attempts = 1
           \/ Current(c) \in Record /\ record.attempts = Current(c).attempts + 1
    BY <1>0, ClaimedRecord
  <2>3. events' = [events EXCEPT ![EventOf[c]] = record] => Changes(c, record)
    BY <2>1, <2>2 DEF Changes
  <2> HIDE DEF record
  <2>4. \/ UNCHANGED events /\ call'[c].pc = "broken"
        \/ (\E r \in Record : Changes(c, r)) /\ call'[c].pc \in {"start_read", "broken"}
    BY <2>1, <2>2, <2>3 DEF record
  <2>5. QED
    BY <2>1, <2>4 DEF Trace
<1>2. CASE \/ StartRead(c) \/ SentRead(c) \/ InnerMarkRead(c) \/ OuterMarkRead(c)
  <2>1. PICK from \in {"start_read", "sent_read", "inner_read", "outer_read"} :
          /\ call[c].pc = from
          /\ from = "start_read" => call'[c].pc \in {"start", "broken"}
          /\ from = "sent_read"  => call'[c].pc \in {"sent", "broken"}
          /\ from = "inner_read" => call'[c].pc \in {"inner", "outer_read"}
          /\ from = "outer_read" => call'[c].pc \in {"outer", "broken"}
          /\ \A d \in Calls \ {c} : call'[d] = call[d]
          /\ UNCHANGED <<events, allow, started, crashed>>
    BY <1>0, <1>2, ReadTrace DEF StartRead, SentRead, InnerMarkRead, OuterMarkRead
  <2>2. QED
    BY <2>1 DEF Trace
<1>3. ASSUME NEW from \in {"start", "sent", "inner", "outer"}, NEW record \in Record,
             NEW pc, NEW onError,
             WriteRecord(c, from, record, pc, onError),
             record.attempts = Current(c).attempts,
             \A next \in {pc, onError} :
               /\ from = "start" => next \in {"start_turn", "broken"}
               /\ from = "sent"  => next \in {"wait", "outer_read"}
               /\ from \in {"inner", "outer"} => next \in ReopenPc,
             record.state = "RETRY_WAIT" => from \in {"inner", "outer"}
      PROVE  Trace(c)
  <2>1. /\ call[c].pc = from /\ Locked(c)
        /\ \A d \in Calls \ {c} : call'[d] = call[d]
        /\ UNCHANGED <<allow, started, crashed>>
        /\ call'[c].pc \in {pc, onError}
        /\ UNCHANGED events \/ events' = [events EXCEPT ![EventOf[c]] = record]
    BY <1>0, <1>3, WriteTrace DEF LockedPc
  <2>2. Current(c) \in Record /\ from # "claim"
    BY <1>r, <2>1
  <2>3. /\ from = "start" => call'[c].pc \in {"start_turn", "broken"}
        /\ from = "sent"  => call'[c].pc \in {"wait", "outer_read"}
        /\ from \in {"inner", "outer"} => call'[c].pc \in ReopenPc
    BY <1>3, <2>1
  <2>4. UNCHANGED events \/ Changes(c, record)
    BY <1>3, <2>1, <2>2, <2>3 DEF Changes
  <2>5. QED
    BY <2>1, <2>2, <2>3, <2>4 DEF Trace
<1>4. ASSUME NEW from \in {"start", "sent", "inner", "outer"}, NEW record, NEW pc, NEW onError,
             WriteRecord(c, from, record, pc, onError)
      PROVE  Current(c) \in Record /\ Seen(c) = Current(c)
  BY <1>0, <1>r, <1>4, WriteTrace DEF LockedPc
<1>5. CASE StartWrite(c)
  <2> DEFINE record == [Seen(c) EXCEPT !.state = "STARTING"]
  <2>1. WriteRecord(c, "start", record, "start_turn", "broken")
    BY <1>5 DEF StartWrite
  <2>2. Current(c) \in Record /\ Seen(c) = Current(c)
    BY <1>4, <2>1
  <2>3. record \in Record /\ record.attempts = Current(c).attempts /\ record.state = "STARTING"
    BY <2>2 DEF Record, State
  <2> HIDE DEF record
  <2>4. QED
    BY <1>3, <2>1, <2>3
<1>6. CASE SentWrite(c)
  <2> DEFINE record == [Seen(c) EXCEPT !.state = "SENT_UNCONFIRMED", !.turn = c]
  <2>1. WriteRecord(c, "sent", record, "wait", "outer_read")
    BY <1>6 DEF SentWrite
  <2>2. Current(c) \in Record /\ Seen(c) = Current(c)
    BY <1>4, <2>1
  <2>3. /\ record \in Record /\ record.attempts = Current(c).attempts
        /\ record.state = "SENT_UNCONFIRMED"
    BY <2>2 DEF Record, State
  <2> HIDE DEF record
  <2>4. QED
    BY <1>3, <2>1, <2>3
<1>7. CASE InnerMarkWrite(c) \/ OuterMarkWrite(c)
  <2> DEFINE record == Retrying(Seen(c))
  <2>1. \/ WriteRecord(c, "inner", record, "outer_read", "outer_read")
        \/ WriteRecord(c, "outer", record, "failed", "broken")
    BY <1>7 DEF InnerMarkWrite, OuterMarkWrite
  <2>2. Current(c) \in Record /\ Seen(c) = Current(c)
    BY <1>4, <2>1
  <2>3. record \in Record /\ record.attempts = Current(c).attempts
    BY <2>2 DEF Record, State, Retrying
  <2> HIDE DEF record
  <2>4. QED
    BY <1>3, <2>1, <2>3
<1>8. CASE StartTurn(c) \/ WaitTurn(c)
  <2>1. PICK pc \in {"sent_read", "outer_read", "inner_read", "done"} :
          /\ Leave(c, pc)
          /\ \/ call[c].pc = "start_turn" /\ (started' = started \/ started' = started \cup {c})
             \/ call[c].pc = "wait" /\ pc # "sent_read" /\ UNCHANGED started
          /\ UNCHANGED <<events, allow, crashed>>
    BY <1>8 DEF StartTurn, WaitTurn, At
  <2>2. call'[c].pc = pc /\ \A d \in Calls \ {c} : call'[d] = call[d]
    BY <1>0, <2>1, LeaveTrace
  <2>3. QED
    BY <2>1, <2>2 DEF Trace
<1>9. QED
  BY <1>1, <1>2, <1>5, <1>6, <1>7, <1>8 DEF RouteContinue

LEMMA OtherTrace ==
  ASSUME RouterInv, NEW c \in Calls,
         Begin(c) \/ (c \in Acks /\ AckWrite(c)) \/ (c \in Retries /\ RetryWrite(c))
  PROVE  Trace(c)
<1> USE DEF AttemptPc, ReopenPc, RoutePc, EndedPc
<1>1. CASE Begin(c)
  <2>1. /\ call[c].pc = "idle" /\ UNCHANGED <<events, allow, started, crashed>>
        /\ \E pc \in {"rejected", "claim", "ack", "reopen"} : Leave(c, pc) \/ Read(c, pc)
    BY <1>1 DEF Begin, ClaimRead, AckRead, RetryRead, At
  <2>2. /\ call'[c].pc \in {"rejected", "claim", "ack", "reopen"}
        /\ \A d \in Calls \ {c} : call'[d] = call[d]
    BY <2>1 DEF Leave, Read, RouterInv, RouterTypeOK
  <2>3. QED
    BY <2>1, <2>2 DEF Trace
<1>2. ASSUME NEW from \in {"ack", "reopen"}, NEW record,
             WriteRecord(c, from, record, "done", "failed")
      PROVE  Current(c) \in Record /\ Seen(c) = Current(c)
  BY <1>2, WriteTrace, CallsAreTyped
     DEF LockedPc, RouterInv, RouterTypeOK, Admitted, Locked, Current
<1>3. ASSUME NEW from \in {"ack", "reopen"}, NEW record \in Record,
             WriteRecord(c, from, record, "done", "failed"),
             record.attempts = Current(c).attempts,
             record.state = "RETRY_WAIT" => c \in Retries
      PROVE  Trace(c)
  <2>1. /\ call[c].pc = from
        /\ \A d \in Calls \ {c} : call'[d] = call[d]
        /\ UNCHANGED <<allow, started, crashed>>
        /\ call'[c].pc \in {"done", "failed"}
        /\ UNCHANGED events \/ events' = [events EXCEPT ![EventOf[c]] = record]
    BY <1>3, WriteTrace DEF LockedPc
  <2>2. UNCHANGED events \/ Changes(c, record)
    BY <1>2, <1>3, <2>1 DEF Changes
  <2>3. QED
    BY <2>1, <2>2 DEF Trace
<1>4. CASE c \in Acks /\ AckWrite(c)
  <2> DEFINE record == [Seen(c) EXCEPT !.state = "ACKED"]
  <2>1. WriteRecord(c, "ack", record, "done", "failed")
    BY <1>4 DEF AckWrite
  <2>2. Current(c) \in Record /\ Seen(c) = Current(c)
    BY <1>2, <2>1
  <2>3. record \in Record /\ record.attempts = Current(c).attempts /\ record.state = "ACKED"
    BY <2>2 DEF Record, State
  <2> HIDE DEF record
  <2>4. QED
    BY <1>3, <2>1, <2>3
<1>5. CASE c \in Retries /\ RetryWrite(c)
  <2> DEFINE record == Retrying(Seen(c))
  <2>1. WriteRecord(c, "reopen", record, "done", "failed")
    BY <1>5 DEF RetryWrite
  <2>2. Current(c) \in Record /\ Seen(c) = Current(c)
    BY <1>2, <2>1
  <2>3. record \in Record /\ record.attempts = Current(c).attempts
    BY <2>2 DEF Record, State, Retrying
  <2> HIDE DEF record
  <2>4. QED
    BY <1>3, <1>5, <2>1, <2>3
<1>6. QED
  BY <1>1, <1>4, <1>5

LEMMA NextTrace ==
  ASSUME RouterInv, [AloneNext]_routerVars
  PROVE  (\E c \in Calls : Trace(c)) \/ Kills
BY RouteTrace, OtherTrace, StuttersAreKills, RoutesAreCalls
   DEF AloneNext, Continue, KillInstance, Kills, KillStep, RouterInv, RouterTypeOK

-----------------------------------------------------------------------------
(* Turns are counted: the routes that have claimed or started, of an event.*)

Turns(e) == {r \in Routes : EventOf[r] = e /\ (r \in started \/ call[r].pc \in RoutePc)}

CountInv ==
  \A e \in Events :
    /\ IsFiniteSet(Turns(e))
    /\ events[e] # None => Cardinality(Turns(e)) <= events[e].attempts

LEMMA NoRecordNoTurns ==
  ASSUME RouterInv, NEW e \in Events, events[e] = None
  PROVE  Turns(e) = {}
BY DEF Turns, RouterInv, Bound, Current

(* Only a claim that is written makes a turn possible, and for its event.  *)
LEMMA TurnsGrow ==
  ASSUME RouterInv, NEW c \in Calls, Trace(c), NEW e \in Events
  PROVE  \/ Turns(e)' \subseteq Turns(e)
         \/ /\ call[c].pc = "claim" /\ EventOf[c] = e
            /\ \E record \in Record : Changes(c, record)
            /\ Turns(e)' \subseteq Turns(e) \cup {c}
<1>1. ASSUME NEW r \in Turns(e)', r \notin Turns(e)
      PROVE  r = c /\ EventOf[c] = e /\ call[c].pc = "claim" /\ call'[c].pc \in RoutePc
  <2>1. r \in Routes /\ EventOf[r] = e /\ r \in Calls
    BY <1>1, RoutesAreCalls DEF Turns
  <2>2. r \notin started /\ call[r].pc \notin RoutePc
    BY <1>1, <2>1 DEF Turns
  <2>3. r \in started' \/ call'[r].pc \in RoutePc
    BY <1>1 DEF Turns
  <2>4. r \notin started'
    BY <2>2 DEF Trace
  <2>5. r = c
    BY <2>1, <2>2, <2>3, <2>4 DEF Trace
  <2>6. call[c].pc \in RoutePc \cup {"claim"}
    BY <2>3, <2>4, <2>5 DEF Trace
  <2>7. QED
    BY <2>1, <2>2, <2>3, <2>4, <2>5, <2>6
<1>2. CASE Turns(e)' \subseteq Turns(e)
  BY <1>2
<1>3. CASE ~(Turns(e)' \subseteq Turns(e))
  <2>1. EventOf[c] = e /\ call[c].pc = "claim" /\ call'[c].pc \in RoutePc
    BY <1>1, <1>3
  <2>2. Turns(e)' \subseteq Turns(e) \cup {c}
    BY <1>1
  <2>3. \E record \in Record : Changes(c, record)
    BY <2>1 DEF Trace
  <2>4. QED
    BY <2>1, <2>2, <2>3
<1>4. QED
  BY <1>2, <1>3

(* The count of an event that a step does not claim stays.                 *)
LEMMA CountsAreKept ==
  ASSUME RouterInv, NEW c \in Calls, Trace(c), NEW e \in Events,
         events[e] # None, ~(call[c].pc = "claim" /\ EventOf[c] = e)
  PROVE  events'[e].attempts = events[e].attempts
<1>1. events[e] \in Record /\ EventOf[c] \in Events
  BY CallsAreTyped DEF RouterInv, RouterTypeOK
<1>2. ASSUME NEW record \in Record, Changes(c, record)
      PROVE  events'[e].attempts = events[e].attempts
  <2>1. events' = [events EXCEPT ![EventOf[c]] = record]
    BY <1>2 DEF Changes
  <2>2. CASE EventOf[c] # e
    BY <2>1, <2>2
  <2>3. CASE EventOf[c] = e
    <3>1. record.attempts = events[e].attempts
      BY <1>2, <2>3 DEF Changes, Current
    <3>2. events'[e] = record
      BY <2>1, <2>3 DEF RouterInv, RouterTypeOK
    <3>3. QED
      BY <3>1, <3>2
  <2>4. QED
    BY <2>2, <2>3
<1>3. QED
  BY <1>2 DEF Trace

(* A claim of an event gives it a record that counts one more.             *)
LEMMA ClaimsCount ==
  ASSUME RouterInv, NEW c \in Calls, NEW e \in Events, call[c].pc = "claim",
         EventOf[c] = e, NEW record \in Record, Changes(c, record)
  PROVE  /\ events'[e].attempts \in Nat
         /\ \/ events[e] = None /\ events'[e].attempts = 1
            \/ events[e] \in Record /\ events'[e].attempts = events[e].attempts + 1
<1>1. events' = [events EXCEPT ![e] = record]
  BY DEF Changes
<1>2. events'[e] = record
  BY <1>1 DEF RouterInv, RouterTypeOK
<1>3. \/ events[e] = None /\ record.attempts = 1
      \/ events[e] \in Record /\ record.attempts = events[e].attempts + 1
  BY DEF Changes, Current
<1>4. record.attempts \in Nat
  BY DEF Record
<1>5. QED
  BY <1>2, <1>3, <1>4

LEMMA TraceCounts ==
  ASSUME RouterInv, RouterTypeOK', CountInv, NEW c \in Calls, Trace(c), NEW e \in Events
  PROVE  /\ IsFiniteSet(Turns(e)')
         /\ events'[e] # None => Cardinality(Turns(e)') <= events'[e].attempts
<1>1. IsFiniteSet(Turns(e)) /\ Cardinality(Turns(e)) \in Nat
  BY FS_CardinalityType DEF CountInv
<1>2. events[e] \in Record \cup {None} /\ events'[e] \in Record \cup {None}
  BY DEF RouterInv, RouterTypeOK
<1>3. CASE Turns(e)' \subseteq Turns(e) /\ ~(call[c].pc = "claim" /\ EventOf[c] = e)
  <2>1. IsFiniteSet(Turns(e)') /\ Cardinality(Turns(e)') <= Cardinality(Turns(e))
    BY <1>1, <1>3, FS_Subset
  <2>2. Cardinality(Turns(e)') \in Nat
    BY <2>1, FS_CardinalityType
  <2>3. CASE events[e] # None
    <3>1. events'[e].attempts = events[e].attempts
      BY <1>3, <2>3, CountsAreKept
    <3>2. Cardinality(Turns(e)) <= events[e].attempts /\ events[e].attempts \in Nat
      BY <1>2, <2>3 DEF CountInv, Record
    <3>3. QED
      BY <1>1, <2>1, <2>2, <3>1, <3>2
  <2>4. CASE events[e] = None
    <3>1. Turns(e)' = {}
      BY <1>3, <2>4, NoRecordNoTurns
    <3>2. Cardinality(Turns(e)') = 0
      BY <3>1, FS_EmptySet
    <3>3. events'[e] # None => events'[e].attempts \in Nat
      BY <1>2 DEF Record
    <3>4. QED
      BY <2>1, <3>2, <3>3
  <2>5. QED
    BY <2>3, <2>4
<1>4. CASE /\ call[c].pc = "claim" /\ EventOf[c] = e
           /\ UNCHANGED events /\ call'[c].pc \notin RoutePc
  <2>1. Turns(e)' \subseteq Turns(e)
    <3>1. call'[c].pc \notin RoutePc /\ started' \subseteq started
      BY <1>4 DEF Trace, RoutePc
    <3>2. \A d \in Calls \ {c} : call'[d] = call[d]
      BY DEF Trace
    <3>3. QED
      BY <3>1, <3>2, RoutesAreCalls DEF Turns
  <2>2. IsFiniteSet(Turns(e)') /\ Cardinality(Turns(e)') <= Cardinality(Turns(e))
    BY <1>1, <2>1, FS_Subset
  <2>3. Cardinality(Turns(e)') \in Nat
    BY <2>2, FS_CardinalityType
  <2>4. events[e] # None => Cardinality(Turns(e)) <= events[e].attempts /\ events[e].attempts \in Nat
    BY <1>2 DEF CountInv, Record
  <2>5. QED
    BY <1>1, <1>4, <2>2, <2>3, <2>4
<1>5. CASE /\ call[c].pc = "claim" /\ EventOf[c] = e
           /\ \E record \in Record : Changes(c, record)
  <2>1. /\ events'[e].attempts \in Nat
        /\ \/ events[e] = None /\ events'[e].attempts = 1
           \/ events[e] \in Record /\ events'[e].attempts = events[e].attempts + 1
    BY <1>5, ClaimsCount
  <2>2. Turns(e)' \subseteq Turns(e) \cup {c}
    BY TurnsGrow
  <2>3. IsFiniteSet(Turns(e) \cup {c}) /\ Cardinality(Turns(e) \cup {c}) <= Cardinality(Turns(e)) + 1
    BY <1>1, FS_AddElement
  <2>4. /\ IsFiniteSet(Turns(e)')
        /\ Cardinality(Turns(e)') <= Cardinality(Turns(e) \cup {c})
    BY <2>2, <2>3, FS_Subset
  <2>5. Cardinality(Turns(e)') \in Nat /\ Cardinality(Turns(e) \cup {c}) \in Nat
    BY <2>3, <2>4, FS_CardinalityType
  <2>6. Cardinality(Turns(e)') <= Cardinality(Turns(e)) + 1
    BY <1>1, <2>3, <2>4, <2>5
  <2>7. CASE events[e] = None
    <3>1. Cardinality(Turns(e)) = 0
      BY <2>7, NoRecordNoTurns, FS_EmptySet
    <3>2. events'[e].attempts = 1
      BY <2>1, <2>7, NoneIsNothing
    <3>3. QED
      BY <2>4, <2>5, <2>6, <3>1, <3>2
  <2>8. CASE events[e] # None
    <3>1. events'[e].attempts = events[e].attempts + 1 /\ events[e].attempts \in Nat
      BY <1>2, <2>1, <2>8 DEF Record
    <3>2. Cardinality(Turns(e)) <= events[e].attempts
      BY <2>8 DEF CountInv
    <3>3. QED
      BY <1>1, <2>4, <2>5, <2>6, <3>1, <3>2
  <2>9. QED
    BY <2>7, <2>8
<1>6. QED
  BY <1>3, <1>4, <1>5, TurnsGrow DEF Trace

LEMMA NextCounts ==
  ASSUME RouterInv, RouterTypeOK', CountInv, [AloneNext]_routerVars
  PROVE  CountInv'
<1>1. ASSUME NEW c \in Calls, Trace(c) PROVE CountInv'
  BY <1>1, TraceCounts DEF CountInv
<1>2. CASE Kills
  <2>1. UNCHANGED <<events, call, started>>
    BY <1>2 DEF Kills, KillStep
  <2>2. \A e \in Events : Turns(e)' = Turns(e)
    BY <2>1 DEF Turns
  <2>3. QED
    BY <2>1, <2>2 DEF CountInv
<1>3. QED
  BY <1>1, <1>2, NextTrace

-----------------------------------------------------------------------------
(* One attempt at a time, unless the event was reopened.                   *)

Reopened(e) ==
  \/ \E t \in Retries : EventOf[t] = e /\ call[t].pc \in {"done", "failed"}
  \/ \E r \in Routes : EventOf[r] = e /\ call[r].pc \in ReopenPc

(* A failure mark or a retry, and nothing else, makes RETRY_WAIT.         *)
ReopenInv ==
  \A e \in Events : events[e] # None /\ events[e].state = "RETRY_WAIT" => Reopened(e)

LEMMA ReopenedStays ==
  ASSUME NEW c \in Calls, Trace(c), NEW e \in Events, Reopened(e)
  PROVE  Reopened(e)'
<1>1. CASE \E t \in Retries : EventOf[t] = e /\ call[t].pc \in {"done", "failed"}
  <2>1. PICK t \in Retries : EventOf[t] = e /\ call[t].pc \in {"done", "failed"}
    BY <1>1
  <2>2. t # c /\ t \in Calls
    BY <2>1, RoutesAreCalls DEF Trace, EndedPc
  <2>3. call'[t] = call[t]
    BY <2>2 DEF Trace
  <2>4. QED
    BY <2>1, <2>3 DEF Reopened
<1>2. CASE \E r \in Routes : EventOf[r] = e /\ call[r].pc \in ReopenPc
  <2>1. PICK r \in Routes : EventOf[r] = e /\ call[r].pc \in ReopenPc
    BY <1>2
  <2>2. call'[r].pc \in ReopenPc
    BY <2>1, RoutesAreCalls DEF Trace
  <2>3. QED
    BY <2>1, <2>2 DEF Reopened
<1>3. QED
  BY <1>1, <1>2 DEF Reopened

LEMMA TraceReopens ==
  ASSUME RouterInv, ReopenInv, NEW c \in Calls, Trace(c)
  PROVE  ReopenInv'
<1> SUFFICES ASSUME NEW e \in Events, events'[e] # None, events'[e].state = "RETRY_WAIT"
             PROVE  Reopened(e)'
  BY DEF ReopenInv
<1>1. CASE events'[e] = events[e]
  BY <1>1, ReopenedStays DEF ReopenInv
<1>2. CASE events'[e] # events[e]
  <2>1. PICK record \in Record : Changes(c, record)
    BY <1>2 DEF Trace
  <2>2. events' = [events EXCEPT ![EventOf[c]] = record]
    BY <2>1 DEF Changes
  <2>3. EventOf[c] = e /\ events'[e] = record
    BY <1>2, <2>2 DEF RouterInv, RouterTypeOK
  <2>4. \/ c \in Routes /\ call'[c].pc \in ReopenPc
        \/ c \in Retries /\ call'[c].pc \in {"done", "failed"}
    BY <2>1, <2>3 DEF Changes
  <2>5. QED
    BY <2>3, <2>4 DEF Reopened
<1>3. QED
  BY <1>1, <1>2

(* Two attempts that overlap: one was allowed, or the event was reopened.  *)
Excused(r1, r2) == allow[r1] \/ allow[r2] \/ Reopened(EventOf[r1])
OverlapInv == \A r1, r2 \in Routes : Overlap(r1, r2) => Excused(r1, r2)

(* A route that claims while another attempts was admitted for a reason.   *)
LEMMA ClaimIsExcused ==
  ASSUME RouterInv, ReopenInv, NEW c \in Routes, NEW r \in Routes,
         Locked(c), call[c].pc = "claim", EventOf[c] = EventOf[r],
         call[r].pc \in AttemptPc
  PROVE  Excused(c, r) /\ Excused(r, c)
<1>1. Claimable(c, Current(c))
  BY RoutesAreCalls DEF RouterInv, Admitted, Locked
<1>2. Current(c) # None /\ Current(c) \in Record /\ EventOf[c] \in Events
  <2>1. call[r].pc \in RoutePc
    BY DEF AttemptPc, RoutePc
  <2>2. Current(r) \in Record /\ Current(r) = Current(c)
    BY <2>1, RouteHasRecord DEF Current
  <2>3. QED
    BY <2>2, NoneIsNothing, CallsAreTyped, RoutesAreCalls
<1>3. Current(c).state \in State
  BY <1>2 DEF Record
<1>4. allow[c] \/ Current(c).state = "RETRY_WAIT"
  BY <1>1, <1>2, <1>3 DEF Claimable, State
<1>5. Current(c).state = "RETRY_WAIT" => Reopened(EventOf[c])
  BY <1>2 DEF ReopenInv, Current
<1>6. QED
  BY <1>4, <1>5 DEF Excused

LEMMA TraceOverlaps ==
  ASSUME RouterInv, ReopenInv, OverlapInv, NEW c \in Calls, Trace(c)
  PROVE  OverlapInv'
<1> SUFFICES ASSUME NEW r1 \in Routes, NEW r2 \in Routes, Overlap(r1, r2)'
             PROVE  Excused(r1, r2)'
  BY DEF OverlapInv
<1>0. /\ r1 \in Calls /\ r2 \in Calls /\ r1 # r2 /\ EventOf[r1] = EventOf[r2]
      /\ EventOf[r1] \in Events
      /\ call'[r1].pc \in AttemptPc /\ call'[r2].pc \in AttemptPc
      /\ Live(r1) /\ Live(r2)
  BY RoutesAreCalls, CallsAreTyped DEF Overlap, Attempting, AttemptPc, Live, Trace
<1>1. \A r \in {r1, r2} :
        call[r].pc \notin AttemptPc => r = c /\ Locked(c) /\ call[c].pc = "claim"
  BY <1>0 DEF Trace
<1>2. Excused(r1, r2)
  <2>1. CASE call[r1].pc \in AttemptPc /\ call[r2].pc \in AttemptPc
    <3>1. Overlap(r1, r2)
      BY <1>0, <2>1 DEF Overlap, Attempting, AttemptPc
    <3>2. QED
      BY <3>1 DEF OverlapInv
  <2>2. CASE call[r1].pc \notin AttemptPc
    <3>1. r1 = c /\ Locked(r1) /\ call[r1].pc = "claim" /\ call[r2].pc \in AttemptPc
      BY <1>0, <1>1, <2>2
    <3>2. QED
      BY <1>0, <3>1, ClaimIsExcused
  <2>3. CASE call[r2].pc \notin AttemptPc
    <3>1. r2 = c /\ Locked(r2) /\ call[r2].pc = "claim" /\ call[r1].pc \in AttemptPc
      BY <1>0, <1>1, <2>3
    <3>2. QED
      BY <1>0, <3>1, ClaimIsExcused
  <2>4. QED
    BY <2>1, <2>2, <2>3
<1>3. allow' = allow /\ (Reopened(EventOf[r1]) => Reopened(EventOf[r1])')
  BY <1>0, ReopenedStays DEF Trace
<1>4. QED
  BY <1>2, <1>3 DEF Excused

LEMMA NextOverlaps ==
  ASSUME RouterInv, ReopenInv, OverlapInv, [AloneNext]_routerVars
  PROVE  ReopenInv' /\ OverlapInv'
<1>1. ASSUME NEW c \in Calls, Trace(c) PROVE ReopenInv' /\ OverlapInv'
  BY <1>1, TraceReopens, TraceOverlaps
<1>2. CASE Kills
  <2>1. UNCHANGED <<events, call, allow>> /\ crashed \subseteq crashed'
    BY <1>2 DEF Kills, KillStep
  <2>2. \A e \in Events : Reopened(e)' = Reopened(e)
    BY <2>1 DEF Reopened
  <2>3. \A r1, r2 \in Routes : Overlap(r1, r2)' => Overlap(r1, r2)
    BY <2>1 DEF Overlap, Attempting, Live
  <2>4. \A r1, r2 \in Routes : Excused(r1, r2) => Excused(r1, r2)'
    BY <2>1 DEF Excused, Reopened
  <2>5. ReopenInv'
    BY <2>1, <2>2 DEF ReopenInv
  <2>6. OverlapInv'
    BY <2>3, <2>4 DEF OverlapInv
  <2>7. QED
    BY <2>5, <2>6
<1>3. QED
  BY <1>1, <1>2, NextTrace

LEMMA AttemptInvariants == AloneSpec => [](RouterInv /\ CountInv /\ ReopenInv /\ OverlapInv)
<1>1. RouterInit => RouterInv /\ CountInv /\ ReopenInv /\ OverlapInv
  <2> SUFFICES ASSUME RouterInit PROVE RouterInv /\ CountInv /\ ReopenInv /\ OverlapInv
    OBVIOUS
  <2>1. \A e \in Events : events[e] = None
    BY DEF RouterInit, Nothing
  <2>2. \A r \in Routes : call[r].pc = "idle" /\ r \notin started
    BY RoutesAreCalls DEF RouterInit
  <2>3. RouterInv
    BY InitRouterInv DEF RouterInit
  <2>4. CountInv
    BY <2>1, <2>3, NoRecordNoTurns, FS_EmptySet DEF CountInv
  <2>5. OverlapInv
    BY <2>2 DEF OverlapInv, Overlap, Attempting
  <2>6. QED
    BY <2>1, <2>3, <2>4, <2>5 DEF ReopenInv
<1>2. RouterInv /\ CountInv /\ ReopenInv /\ OverlapInv /\ [AloneNext]_routerVars
        => (RouterInv /\ CountInv /\ ReopenInv /\ OverlapInv)'
  <2>1. RouterInv /\ [AloneNext]_routerVars => RouterInv'
    BY NextRouterInv
  <2>2. RouterInv' => RouterTypeOK'
    BY DEF RouterInv
  <2>3. QED
    BY <2>1, <2>2, NextCounts, NextOverlaps
<1>3. QED
  BY <1>1, <1>2, PTL DEF AloneSpec

-----------------------------------------------------------------------------
(* The theorems.                                                           *)

LEMMA Invariants == AloneSpec => [](RouterInv /\ ClaimInv)
<1>1. RouterInit => RouterInv /\ ClaimInv
  BY InitRouterInv DEF RouterInit, ClaimInv, Nothing
<1>2. RouterInv /\ ClaimInv /\ [AloneNext]_routerVars => (RouterInv /\ ClaimInv)'
  BY NextRouterInv, KindsClaimInv
<1>3. QED
  BY <1>1, <1>2, PTL DEF AloneSpec

(* Every record of the file and every place of a call has its type, with   *)
(* writes that fail and processes that are killed at any step.             *)
THEOREM RouterTypes == AloneSpec => []RouterTypeOK
<1>1. RouterInv => RouterTypeOK
  BY DEF RouterInv
<1>2. QED
  BY <1>1, Invariants, PTL

(* Every turn that route started for an event was started on the thread    *)
(* the record of the event is bound to.                                    *)
THEOREM StaysOnThread == AloneSpec => []TurnsStayOnThread
<1>1. RouterInv => TurnsStayOnThread
  BY DEF RouterInv, RouterTypeOK, Bound, TurnsStayOnThread, Current
<1>2. QED
  BY <1>1, Invariants, PTL

(* A record in CLAIMED or STARTING has a route that is under way, or that  *)
(* died with its process, or ended because the file could not be written.  *)
THEOREM ClaimsHaveAttempts == AloneSpec => []ClaimHasAnAttempt
<1>1. RouterInv /\ ClaimInv => ClaimHasAnAttempt
  BY DEF ClaimInv, ClaimHasAnAttempt, ClaimedPc, StartingPc, RoutePc
<1>2. QED
  BY <1>1, Invariants, PTL

(* A step that changes an ACKED record is one of a route that has claimed  *)
(* the event and whose attempt has not ended; no claim, acknowledgement or *)
(* retry takes such a step, whatever else is in flight.                    *)
THEOREM AcksAreUndoneByAttempts == AloneSpec => OnlyAttemptsUndoAcks
<1> DEFINE Kept == \A e \in Events :
             /\ events[e] # None /\ events[e].state = "ACKED"
             /\ events'[e] # events[e]
             => \E r \in Routes : EventOf[r] = e /\ InFlight(r) /\ call'[r] # call[r]
<1>1. ASSUME RouterInv, Kinds PROVE Kept
  <2>1. ASSUME NEW c \in Calls, NEW pc \in EndedPc \cup RoutePc, NEW record \in Record,
               Puts(c, pc, record)
        PROVE  Kept
    <3>1. Locked(c)
      BY <2>1 DEF Puts, PutStep
    <3>2. events' = [events EXCEPT ![EventOf[c]] = record]
      BY <1>1, <2>1, PutsOneProcess DEF Puts, RouterInv
    <3>3. ASSUME NEW e \in Events, events[e] # None, events[e].state = "ACKED",
                 events'[e] # events[e]
          PROVE  EventOf[c] = e /\ c \in Routes /\ InFlight(c) /\ call'[c] # call[c]
      <4>1. EventOf[c] = e
        BY <3>2, <3>3
      <4>2. Current(c) # None /\ Current(c).state = "ACKED"
        BY <3>3, <4>1 DEF Current
      <4>3. call[c].pc \notin {"claim", "ack", "reopen"}
        BY <1>1, <3>1, <4>2 DEF RouterInv, Admitted, Claimable, Retryable, Locked
      <4>4. call[c].pc \in RoutePc /\ Live(c)
        BY <3>1, <4>3 DEF Locked, LockedPc, RoutePc
      <4>5. call'[c] # call[c]
        <5>1. call'[c].pc = pc /\ pc \notin LockedPc
          BY <1>1, <2>1, UnlockedPlaces DEF Puts, PutStep, Leave, RouterInv, RouterTypeOK
        <5>2. QED
          BY <3>1, <5>1 DEF Locked
      <4>6. QED
        BY <1>1, <4>1, <4>4, <4>5 DEF InFlight, RouterInv, Places
    <3>4. QED
      BY <3>3
  <2>2. CASE UNCHANGED events
    BY <2>2
  <2>3. QED
    BY <1>1, <2>1, <2>2
    DEF Kinds, Enters, EnterStep, Moves, MoveStep, Kills, KillStep
<1>2. RouterInv /\ [AloneNext]_routerVars => [Kept]_routerVars
  BY <1>1, NextRouterInv
<1>3. OnlyAttemptsUndoAcks <=> [][Kept]_routerVars
  BY DEF OnlyAttemptsUndoAcks
<1> HIDE DEF Kept
<1>4. QED
  BY <1>2, <1>3, Invariants, PTL DEF AloneSpec

(* Every turn of an event was counted in its record before it was started, *)
(* whatever failed or was killed in between: attempts bounds the turns.    *)
THEOREM TurnsCounted == AloneSpec => []TurnsAreCounted
<1>1. RouterInv /\ CountInv => TurnsAreCounted
  <2> SUFFICES ASSUME RouterInv, CountInv, NEW e \in Events,
                      {r \in started : EventOf[r] = e} # {}
               PROVE  /\ events[e] # None
                      /\ Cardinality({r \in started : EventOf[r] = e}) <= events[e].attempts
    BY DEF TurnsAreCounted
  <2> DEFINE turns == {r \in started : EventOf[r] = e}
  <2>1. turns \subseteq Turns(e)
    BY DEF Turns, RouterInv, RouterTypeOK
  <2>2. Turns(e) # {} /\ events[e] # None
    BY <2>1, NoRecordNoTurns
  <2>3. IsFiniteSet(Turns(e)) /\ Cardinality(Turns(e)) <= events[e].attempts
    BY <2>2 DEF CountInv
  <2>4. IsFiniteSet(turns) /\ Cardinality(turns) <= Cardinality(Turns(e))
    BY <2>1, <2>3, FS_Subset
  <2>5. Cardinality(turns) \in Nat /\ Cardinality(Turns(e)) \in Nat /\ events[e].attempts \in Nat
    BY <2>2, <2>3, <2>4, FS_CardinalityType DEF RouterInv, RouterTypeOK, Record
  <2>6. Cardinality(turns) <= events[e].attempts
    BY <2>3, <2>4, <2>5
  <2>7. QED
    BY <2>2, <2>6
<1>2. QED
  BY <1>1, AttemptInvariants, PTL

(* Two attempts at one event are in flight only where the claim admits it: *)
(* one of them may duplicate, a retry reopened the event, or a failed      *)
(* attempt did, by the first of its two marks.                             *)
THEOREM OneAttempt == AloneSpec => []OneAttemptUnlessReopened
<1>1. OverlapInv => OneAttemptUnlessReopened
  BY DEF OverlapInv, OneAttemptUnlessReopened, Excused, Reopened, ReopenPc
<1>2. QED
  BY <1>1, AttemptInvariants, PTL
=============================================================================
