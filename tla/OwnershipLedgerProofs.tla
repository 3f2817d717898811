----------------------- MODULE OwnershipLedgerProofs -----------------------
(***************************************************************************)
(* Proofs about OwnershipLedger, for any number of jobs, calls and         *)
(* processes: types, what the flock protects, that every write is a move   *)
(* the promise of Ownership admits, and what follows for the owners.       *)
(***************************************************************************)
EXTENDS OwnershipLedger, TLAPS

CallPc == {"idle", "entered", "locked", "write", "leave", "ended", "killed"}

CallRecord == [pc       : CallPc,
               seen     : Ledger,
               expected : State \cup {None},
               record   : Record \cup {None},
               answer   : {"ok", "error", None}]

-----------------------------------------------------------------------------
(* Types.                                                                  *)

LEMMA EmptyIsLedger == Empty \in Ledger
BY DEF Empty, Ledger

LEMMA IdleIsCall == Idle \in CallRecord
BY EmptyIsLedger DEF Idle, CallRecord, CallPc

LEMMA TypeInit == LedgerInit => LedgerTypeOK
<1> SUFFICES ASSUME LedgerInit PROVE LedgerTypeOK
  OBVIOUS
<1>1. call \in [Calls -> CallRecord]
  BY IdleIsCall DEF LedgerInit
<1> QED
  BY <1>1, EmptyIsLedger DEF LedgerInit, LedgerTypeOK, CallRecord, CallPc

(* What the steps make of the record of a call.                            *)
LEMMA CallTypes ==
  ASSUME NEW r \in CallRecord, NEW pc \in CallPc,
         NEW expected \in State \cup {None}, NEW record \in Record \cup {None},
         NEW seen \in Ledger, NEW answer \in {"ok", "error", None}
  PROVE  /\ [r EXCEPT !.pc = pc] \in CallRecord
         /\ [r EXCEPT !.pc = pc, !.answer = answer] \in CallRecord
         /\ [r EXCEPT !.pc = pc, !.seen = seen] \in CallRecord
         /\ [r EXCEPT !.pc = pc, !.seen = seen, !.answer = answer] \in CallRecord
         /\ [r EXCEPT !.pc = pc, !.seen = seen, !.expected = expected,
                      !.record = record] \in CallRecord
BY DEF CallRecord

(* A write puts the record it decided on into the copy it read.            *)
LEMMA ReplacedType ==
  ASSUME LedgerTypeOK, NEW c \in Calls, call[c].record \in Record
  PROVE  Replaced(c) \in Ledger
BY CallsAreTyped DEF LedgerTypeOK, Replaced, Ledger

LEMMA DecidedType ==
  ASSUME LedgerTypeOK, NEW c \in Calls, NEW target \in State, ledger[JobOf[c]] # None
  PROVE  /\ ledger[JobOf[c]] \in Record
         /\ [ledger[JobOf[c]] EXCEPT !.state = target] \in Record
         /\ [ledger[JobOf[c]] EXCEPT !.state = target].state = target
         /\ [ledger[JobOf[c]] EXCEPT !.state = target].backend = ledger[JobOf[c]].backend
BY CallsAreTyped DEF LedgerTypeOK, Ledger, Record

(* The call that is about to write has decided on a record.                *)
Decided == \A c \in Calls : call[c].pc = "write" => call[c].record \in Record

TypeInv == LedgerTypeOK /\ Decided

LEMMA CallStep ==
  ASSUME TypeInv, NEW c \in Calls, NEW r \in CallRecord, call' = [call EXCEPT ![c] = r],
         r.pc = "write" => r.record \in Record
  PROVE  call' \in [Calls -> CallRecord] /\ Decided'
<1>1. call \in [Calls -> CallRecord]
  BY DEF TypeInv, LedgerTypeOK, CallRecord, CallPc
<1> QED
  BY <1>1 DEF TypeInv, Decided

LEMMA TypeFromParts ==
  ASSUME ledger' \in Ledger, call' \in [Calls -> CallRecord], Decided',
         entered' \in [Instances -> Calls \cup {None}], flocked' \in Calls \cup {None}
  PROVE  TypeInv'
BY DEF TypeInv, LedgerTypeOK, CallRecord, CallPc

LEMMA TypeParts ==
  ASSUME TypeInv
  PROVE  /\ ledger \in Ledger
         /\ call \in [Calls -> CallRecord]
         /\ entered \in [Instances -> Calls \cup {None}]
         /\ flocked \in Calls \cup {None}
         /\ \A c \in Calls : /\ [entered EXCEPT ![InstanceOf[c]] = None]
                                  \in [Instances -> Calls \cup {None}]
                             /\ [entered EXCEPT ![InstanceOf[c]] = c]
                                  \in [Instances -> Calls \cup {None}]
BY DEF TypeInv, LedgerTypeOK, CallRecord, CallPc

(* The steps that take and release the locks.                              *)
LEMMA TypeLocks ==
  ASSUME TypeInv, NEW c \in Calls,
         Enter(c) \/ Flock(c) \/ OpenFails(c) \/ Unlock(c)
  PROVE  TypeInv'
<1>0. call[c] \in CallRecord
  BY TypeParts, EmptyIsLedger
<1>1. CASE Enter(c)
  <2>1. [call[c] EXCEPT !.pc = "entered"] \in CallRecord
    BY <1>0, CallTypes, EmptyIsLedger DEF CallPc
  <2>2. call' = [call EXCEPT ![c] = [call[c] EXCEPT !.pc = "entered"]]
    BY <1>1, TypeParts DEF Enter
  <2>3. [call[c] EXCEPT !.pc = "entered"].pc = "entered"
    BY <1>0 DEF CallRecord
  <2>4. call' \in [Calls -> CallRecord] /\ Decided'
    BY <2>1, <2>2, <2>3, CallStep
  <2> QED
    BY <1>1, <2>4, TypeParts, TypeFromParts DEF Enter
<1>2. CASE Flock(c)
  <2>1. [call[c] EXCEPT !.pc = "locked"] \in CallRecord
    BY <1>0, CallTypes, EmptyIsLedger DEF CallPc
  <2>2. call' = [call EXCEPT ![c] = [call[c] EXCEPT !.pc = "locked"]]
    BY <1>2, TypeParts DEF Flock
  <2>3. [call[c] EXCEPT !.pc = "locked"].pc = "locked"
    BY <1>0 DEF CallRecord
  <2>4. call' \in [Calls -> CallRecord] /\ Decided'
    BY <2>1, <2>2, <2>3, CallStep
  <2> QED
    BY <1>2, <2>4, TypeParts, TypeFromParts DEF Flock
<1>3. CASE OpenFails(c)
  <2>1. [call[c] EXCEPT !.pc = "ended", !.answer = "error"] \in CallRecord
    BY <1>0, CallTypes, EmptyIsLedger DEF CallPc
  <2>2. call' = [call EXCEPT ![c] = [call[c] EXCEPT !.pc = "ended", !.answer = "error"]]
    BY <1>3, TypeParts DEF OpenFails
  <2>3. [call[c] EXCEPT !.pc = "ended", !.answer = "error"].pc = "ended"
    BY <1>0 DEF CallRecord
  <2>4. call' \in [Calls -> CallRecord] /\ Decided'
    BY <2>1, <2>2, <2>3, CallStep
  <2> QED
    BY <1>3, <2>4, TypeParts, TypeFromParts DEF OpenFails
<1>4. CASE Unlock(c)
  <2>1. [call[c] EXCEPT !.pc = "ended"] \in CallRecord
    BY <1>0, CallTypes, EmptyIsLedger DEF CallPc
  <2>2. call' = [call EXCEPT ![c] = [call[c] EXCEPT !.pc = "ended"]]
    BY <1>4, TypeParts DEF Unlock
  <2>3. [call[c] EXCEPT !.pc = "ended"].pc = "ended"
    BY <1>0 DEF CallRecord
  <2>4. call' \in [Calls -> CallRecord] /\ Decided'
    BY <2>1, <2>2, <2>3, CallStep
  <2> QED
    BY <1>4, <2>4, TypeParts, TypeFromParts DEF Unlock, Unlocked
<1> QED
  BY <1>1, <1>2, <1>3, <1>4

LEMMA RefusedType ==
  /\ [Idle EXCEPT !.pc = "leave", !.answer = "error"] \in CallRecord
  /\ [Idle EXCEPT !.pc = "leave", !.answer = "error"].pc = "leave"
<1>1. "leave" \in CallPc /\ "error" \in {"ok", "error", None}
  BY DEF CallPc
<1>2. [Idle EXCEPT !.pc = "leave", !.answer = "error"] \in CallRecord
  BY <1>1, IdleIsCall, CallTypes, EmptyIsLedger
<1> QED
  BY <1>2 DEF Idle

LEMMA RefuseStep ==
  ASSUME TypeInv, NEW c \in Calls, Refuse(c)
  PROVE  call' \in [Calls -> CallRecord] /\ Decided'
<1>1. call' = [call EXCEPT ![c] = [Idle EXCEPT !.pc = "leave", !.answer = "error"]]
  BY DEF Refuse
<1> QED
  BY <1>1, RefusedType, CallStep

LEMMA AskStep ==
  ASSUME TypeInv, NEW c \in Calls, NEW expected \in State \cup {None}, NEW record \in Record,
         Ask(c, expected, record)
  PROVE  call' \in [Calls -> CallRecord] /\ Decided'
<1> DEFINE r == [call[c] EXCEPT !.pc = "write", !.seen = ledger, !.expected = expected,
                               !.record = record]
<1>1. call[c] \in CallRecord /\ "write" \in CallPc /\ ledger \in Ledger
  BY TypeParts DEF CallPc
<1>2. r \in CallRecord
  BY <1>1, CallTypes
<1>3. call' = [call EXCEPT ![c] = r]
  BY TypeParts DEF Ask
<1>4. r.record = record
  BY <1>1 DEF CallRecord
<1> HIDE DEF r
<1> QED
  BY <1>2, <1>3, <1>4, CallStep

(* The steps that read the ledger and decide.                              *)
LEMMA TypeReads ==
  ASSUME TypeInv, NEW c \in Calls, CreateRead(c) \/ TransitionRead(c)
  PROVE  TypeInv'
<1>1. call' \in [Calls -> CallRecord] /\ Decided'
  <2>1. CASE CreateRead(c)
    <3>1. PICK record \in Record :
            IF Current(c) = None THEN Ask(c, None, record) ELSE Refuse(c)
      BY <2>1, HandoffsAreRecords DEF CreateRead
    <3> QED
      BY <3>1, AskStep, RefuseStep
  <2>2. CASE TransitionRead(c)
    <3>1. PICK expected \in State, target \in State, backend \in Backend \cup {None} :
            IF /\ Current(c) # None
               /\ Swappable(Current(c), expected, target)
               /\ OwnerKept(Current(c), target, backend)
              THEN Ask(c, expected, [Current(c) EXCEPT !.state = target])
              ELSE Refuse(c)
      BY <2>2 DEF TransitionRead
    <3>2. CASE Current(c) # None /\ Ask(c, expected, [Current(c) EXCEPT !.state = target])
      <4>1. [Current(c) EXCEPT !.state = target] \in Record
        BY <3>2, DecidedType DEF Current, TypeInv
      <4> QED
        BY <3>2, <4>1, AskStep
    <3> QED
      BY <3>1, <3>2, RefuseStep
  <2> QED
    BY <2>1, <2>2
<1>2. UNCHANGED <<ledger, entered, flocked>>
  BY DEF CreateRead, TransitionRead
<1> QED
  BY <1>1, <1>2, TypeParts, TypeFromParts

LEMMA AnswerStep ==
  ASSUME TypeInv, NEW c \in Calls, NEW answer \in {"ok", "error"}, Answer(c, answer)
  PROVE  call' \in [Calls -> CallRecord] /\ Decided'
<1> DEFINE r == [call[c] EXCEPT !.pc = "leave", !.seen = Empty, !.answer = answer]
<1>1. call[c] \in CallRecord /\ "leave" \in CallPc
  BY TypeParts DEF CallPc
<1>2. r \in CallRecord
  BY <1>1, CallTypes, EmptyIsLedger
<1>3. call' = [call EXCEPT ![c] = r]
  BY TypeParts DEF Answer
<1>4. r.pc = "leave"
  BY <1>1 DEF CallRecord
<1> HIDE DEF r
<1> QED
  BY <1>2, <1>3, <1>4, CallStep

LEMMA TypeWrites ==
  ASSUME TypeInv, NEW c \in Calls, WriteLedger(c) \/ WriteFails(c)
  PROVE  TypeInv'
<1>1. call' \in [Calls -> CallRecord] /\ Decided'
  BY AnswerStep DEF WriteLedger, WriteFails
<1>2. Replaced(c) \in Ledger
  BY ReplacedType DEF WriteLedger, WriteFails, TypeInv, Decided
<1>3. ledger' \in Ledger /\ UNCHANGED <<entered, flocked>>
  BY <1>2, TypeParts DEF WriteLedger, WriteFails
<1> QED
  BY <1>1, <1>3, TypeParts, TypeFromParts

LEMMA TypeKill ==
  ASSUME TypeInv, NEW i \in Instances, KillInstance(i)
  PROVE  TypeInv'
<1> DEFINE dead(c) == [call[c] EXCEPT !.pc = "killed", !.seen = Empty]
<1>1. \A c \in Calls : call[c] \in CallRecord /\ dead(c) \in CallRecord /\ dead(c).pc = "killed"
  <2> TAKE c \in Calls
  <2>1. call[c] \in CallRecord
    BY TypeParts
  <2>2. dead(c) \in CallRecord
    BY <2>1, CallTypes, EmptyIsLedger DEF CallPc
  <2> QED
    BY <2>1, <2>2 DEF CallRecord
<1>2. call' = [c \in Calls |-> IF InstanceOf[c] = i /\ call[c].pc # "ended" THEN dead(c)
                                                                            ELSE call[c]]
  BY DEF KillInstance
<1> HIDE DEF dead
<1>3. call' \in [Calls -> CallRecord] /\ Decided'
  BY <1>1, <1>2 DEF TypeInv, Decided
<1>4. entered' \in [Instances -> Calls \cup {None}]
  BY TypeParts DEF KillInstance
<1>5. flocked' \in Calls \cup {None}
  BY TypeParts DEF KillInstance
<1>6. ledger' \in Ledger
  BY TypeParts DEF KillInstance
<1> QED
  BY <1>3, <1>4, <1>5, <1>6, TypeFromParts

LEMMA TypeStep == TypeInv /\ [LedgerNext]_ledgerVars => TypeInv'
<1> SUFFICES ASSUME TypeInv, [LedgerNext]_ledgerVars PROVE TypeInv'
  OBVIOUS
<1>1. CASE \E c \in Calls : Enter(c) \/ Continue(c) \/ OpenFails(c) \/ WriteFails(c)
  BY <1>1, TypeLocks, TypeReads, TypeWrites DEF Continue
<1>2. CASE \E i \in Instances : KillInstance(i)
  BY <1>2, TypeKill
<1>3. CASE UNCHANGED ledgerVars
  BY <1>3 DEF ledgerVars, TypeInv, LedgerTypeOK, Decided
<1> QED
  BY <1>1, <1>2, <1>3 DEF LedgerNext

LEMMA TypeInvHolds == LedgerSpec => []TypeInv
<1>1. LedgerInit => TypeInv
  <2>1. LedgerInit => Decided
    BY DEF LedgerInit, Decided, Idle
  <2> QED
    BY <2>1, TypeInit DEF TypeInv
<1> QED
  BY <1>1, TypeStep, PTL DEF LedgerSpec

(* The file and every call have their types, for any number of calls, jobs *)
(* and processes, whatever fails or is killed (v05_backend.py, 154-223).   *)
THEOREM LedgerTypes == LedgerSpec => []LedgerTypeOK
<1>1. TypeInv => LedgerTypeOK
  BY DEF TypeInv
<1> QED
  BY <1>1, TypeInvHolds, PTL

-----------------------------------------------------------------------------
(* What the flock protects.                                                *)

(* Only the holder of the flock is between reading and leaving.            *)
Held == \A c \in Calls : call[c].pc \in {"locked", "write", "leave"} => flocked = c

(* A record that a call may put in the place of another: any in the place  *)
(* of none, the next of the same owner in the place of one.                *)
Admitted(current, record) ==
  current # None =>
    /\ record.backend = current.backend
    /\ record.state = current.state \/ record.state \in OwnershipTransitions[current.state]
    /\ Background(record.state) => record.backend = BackendOf(record.state)

(* The call that is about to write: its copy is the file, its record is    *)
(* admitted there, and a transfer expects the state that is there.         *)
Ready(c) ==
  /\ call[c].seen = ledger
  /\ Admitted(ledger[JobOf[c]], call[c].record)
  /\ c \in Transitions => /\ ledger[JobOf[c]] # None
                          /\ call[c].expected = ledger[JobOf[c]].state

WritersReady == \A c \in Calls : call[c].pc = "write" => Ready(c)

LockInv == TypeInv /\ Held /\ WritersReady

LEMMA OneHolder ==
  ASSUME LockInv, NEW c \in Calls, NEW d \in Calls,
         call[c].pc \in {"locked", "write", "leave"},
         call[d].pc \in {"locked", "write", "leave"}
  PROVE  c = d
BY DEF LockInv, Held

(* A step that begins no write and keeps the file keeps the writers ready. *)
LEMMA WritersFrame ==
  ASSUME LockInv, ledger' = ledger,
         \A d \in Calls : call'[d].pc = "write" => call'[d] = call[d]
  PROVE  WritersReady'
BY DEF LockInv, WritersReady, Ready

LEMMA CallOf ==
  ASSUME TypeInv, NEW c \in Calls, NEW r, call' = [call EXCEPT ![c] = r]
  PROVE  call'[c] = r /\ \A d \in Calls \ {c} : call'[d] = call[d]
BY TypeParts

LEMMA LockLocks ==
  ASSUME LockInv, NEW c \in Calls, Enter(c) \/ Flock(c) \/ OpenFails(c) \/ Unlock(c)
  PROVE  Held' /\ WritersReady'
<1>0. call[c] \in CallRecord
  BY TypeParts DEF LockInv
<1>1. CASE Enter(c)
  <2>1. call' = [call EXCEPT ![c] = [call[c] EXCEPT !.pc = "entered"]]
    BY <1>1, TypeParts DEF Enter, LockInv
  <2>0. [call[c] EXCEPT !.pc = "entered"].pc = "entered"
    BY <1>0 DEF CallRecord
  <2>2. call'[c].pc = "entered" /\ \A d \in Calls \ {c} : call'[d] = call[d]
    BY <2>0, <2>1, CallOf DEF LockInv
  <2>3. Held'
    BY <1>1, <2>2 DEF LockInv, Held, Enter
  <2> QED
    BY <1>1, <2>2, <2>3, WritersFrame DEF Enter
<1>2. CASE Flock(c)
  <2>1. call' = [call EXCEPT ![c] = [call[c] EXCEPT !.pc = "locked"]]
    BY <1>2, TypeParts DEF Flock, LockInv
  <2>0. [call[c] EXCEPT !.pc = "locked"].pc = "locked"
    BY <1>0 DEF CallRecord
  <2>2. call'[c].pc = "locked" /\ \A d \in Calls \ {c} : call'[d] = call[d]
    BY <2>0, <2>1, CallOf DEF LockInv
  <2>3. \A d \in Calls : call[d].pc \notin {"locked", "write", "leave"}
    BY <1>2, NoneIsNothing DEF LockInv, Held, Flock
  <2>4. Held'
    BY <1>2, <2>2, <2>3 DEF Held, Flock
  <2> QED
    BY <1>2, <2>2, <2>4, WritersFrame DEF Flock
<1>3. CASE OpenFails(c)
  <2>1. call' = [call EXCEPT ![c] = [call[c] EXCEPT !.pc = "ended", !.answer = "error"]]
    BY <1>3, TypeParts DEF OpenFails, LockInv
  <2>0. [call[c] EXCEPT !.pc = "ended", !.answer = "error"].pc = "ended"
    BY <1>0 DEF CallRecord
  <2>2. call'[c].pc = "ended" /\ \A d \in Calls \ {c} : call'[d] = call[d]
    BY <2>0, <2>1, CallOf DEF LockInv
  <2>3. Held'
    BY <1>3, <2>2 DEF LockInv, Held, OpenFails
  <2> QED
    BY <1>3, <2>2, <2>3, WritersFrame DEF OpenFails
<1>4. CASE Unlock(c)
  <2>1. call' = [call EXCEPT ![c] = [call[c] EXCEPT !.pc = "ended"]]
    BY <1>4, TypeParts DEF Unlock, LockInv
  <2>0. [call[c] EXCEPT !.pc = "ended"].pc = "ended"
    BY <1>0 DEF CallRecord
  <2>2. call'[c].pc = "ended" /\ \A d \in Calls \ {c} : call'[d] = call[d]
    BY <2>0, <2>1, CallOf DEF LockInv
  <2>3. \A d \in Calls \ {c} : call[d].pc \notin {"locked", "write", "leave"}
    BY <1>4, OneHolder DEF Unlock
  <2>4. Held'
    BY <2>2, <2>3 DEF Held
  <2> QED
    BY <1>4, <2>2, <2>4, WritersFrame DEF Unlock
<1> QED
  BY <1>1, <1>2, <1>3, <1>4

(* What a read decides, under the lock, is admitted.                       *)
LEMMA ReadDecides ==
  ASSUME LockInv, NEW c \in Calls, (c \in Creates /\ CreateRead(c)) \/ TransitionRead(c)
  PROVE  /\ \A d \in Calls \ {c} : call'[d] = call[d]
         /\ \/ call'[c].pc = "leave"
            \/ call'[c].pc = "write" /\ Ready(c)'
<1>0. call[c] \in CallRecord /\ ledger' = ledger /\ TypeInv
  BY TypeParts DEF LockInv, CreateRead, TransitionRead
<1>1. ASSUME Refuse(c)
      PROVE  call'[c].pc = "leave" /\ \A d \in Calls \ {c} : call'[d] = call[d]
  <2>1. call' = [call EXCEPT ![c] = [Idle EXCEPT !.pc = "leave", !.answer = "error"]]
    BY <1>1 DEF Refuse
  <2> QED
    BY <2>1, <1>0, CallOf, RefusedType
<1>2. ASSUME NEW expected, NEW record, Ask(c, expected, record)
      PROVE  /\ \A d \in Calls \ {c} : call'[d] = call[d]
             /\ call'[c].pc = "write" /\ call'[c].seen = ledger
             /\ call'[c].expected = expected /\ call'[c].record = record
  <2> DEFINE r == [call[c] EXCEPT !.pc = "write", !.seen = ledger, !.expected = expected,
                                 !.record = record]
  <2>1. call' = [call EXCEPT ![c] = r]
    BY <1>2, <1>0, TypeParts DEF Ask
  <2>2. r.pc = "write" /\ r.seen = ledger /\ r.expected = expected /\ r.record = record
    BY <1>0 DEF CallRecord
  <2> HIDE DEF r
  <2> QED
    BY <2>1, <2>2, <1>0, CallOf
<1>3. CASE c \in Creates /\ CreateRead(c)
  <2>1. PICK record \in Record :
          IF Current(c) = None THEN Ask(c, None, record) ELSE Refuse(c)
    BY <1>3, HandoffsAreRecords DEF CreateRead
  <2>2. CASE Current(c) = None /\ Ask(c, None, record)
    <3>1. c \notin Transitions
      BY <1>3, CallsAreDistinct
    <3>2. Admitted(ledger[JobOf[c]], record)
      BY <2>2 DEF Admitted, Current
    <3> QED
      BY <1>0, <1>2, <2>2, <3>1, <3>2 DEF Ready
  <2> QED
    BY <2>1, <2>2, <1>1
<1>4. CASE TransitionRead(c)
  <2>1. PICK expected \in State, target \in State, backend \in Backend \cup {None} :
          IF /\ Current(c) # None
             /\ Swappable(Current(c), expected, target)
             /\ OwnerKept(Current(c), target, backend)
            THEN Ask(c, expected, [Current(c) EXCEPT !.state = target])
            ELSE Refuse(c)
    BY <1>4 DEF TransitionRead
  <2>2. CASE /\ Current(c) # None
             /\ Swappable(Current(c), expected, target)
             /\ OwnerKept(Current(c), target, backend)
             /\ Ask(c, expected, [Current(c) EXCEPT !.state = target])
    <3> DEFINE record == [Current(c) EXCEPT !.state = target]
    <3>1. record.state = target /\ record.backend = Current(c).backend
      BY <2>2, <1>0, DecidedType DEF Current, TypeInv
    <3>2. Current(c).state = expected
      BY <2>2 DEF Swappable
    <3>3. Background(target) => Current(c).backend = BackendOf(target)
      BY <2>2, NoneIsNothing DEF OwnerKept, BackendOf, Backend
    <3>4. target = expected \/ target \in OwnershipTransitions[expected]
      BY <2>2 DEF Swappable
    <3>5. Ask(c, expected, record)
      BY <2>2
    <3> HIDE DEF record
    <3>6. Admitted(Current(c), record)
      BY <2>2, <3>1, <3>2, <3>3, <3>4 DEF Admitted
    <3> QED
      BY <1>0, <1>2, <2>2, <3>2, <3>5, <3>6 DEF Ready, Current
  <2> QED
    BY <2>1, <2>2, <1>1
<1> QED
  BY <1>3, <1>4

LEMMA LockReads ==
  ASSUME LockInv, NEW c \in Calls, (c \in Creates /\ CreateRead(c)) \/ TransitionRead(c)
  PROVE  Held' /\ WritersReady'
<1>1. call[c].pc = "locked" /\ UNCHANGED <<ledger, flocked>>
  BY DEF CreateRead, TransitionRead
<1>2. \A d \in Calls \ {c} : call'[d].pc \notin {"locked", "write", "leave"}
  BY <1>1, ReadDecides, OneHolder
<1>3. flocked' = c
  BY <1>1 DEF LockInv, Held
<1>4. Held'
  BY <1>2, <1>3 DEF Held
<1>5. WritersReady'
  BY <1>2, ReadDecides DEF WritersReady
<1> QED
  BY <1>4, <1>5

LEMMA LockWrites ==
  ASSUME LockInv, NEW c \in Calls, WriteLedger(c) \/ WriteFails(c)
  PROVE  Held' /\ WritersReady'
<1>1. call[c].pc = "write" /\ UNCHANGED flocked
  BY DEF WriteLedger, WriteFails
<1>2. PICK answer : Answer(c, answer)
  BY DEF WriteLedger, WriteFails
<1>3. call' = [call EXCEPT ![c] = [call[c] EXCEPT !.pc = "leave", !.seen = Empty,
                                                  !.answer = answer]]
  BY <1>2, TypeParts DEF Answer, LockInv
<1>4. call[c] \in CallRecord
  BY TypeParts DEF LockInv
<1>0. [call[c] EXCEPT !.pc = "leave", !.seen = Empty, !.answer = answer].pc = "leave"
  BY <1>4 DEF CallRecord
<1>5. call'[c].pc = "leave" /\ \A d \in Calls \ {c} : call'[d] = call[d]
  BY <1>0, <1>3, CallOf DEF LockInv
<1>6. \A d \in Calls \ {c} : call'[d].pc \notin {"locked", "write", "leave"}
  BY <1>1, <1>5, OneHolder
<1>7. flocked' = c
  BY <1>1 DEF LockInv, Held
<1> QED
  BY <1>5, <1>6, <1>7 DEF Held, WritersReady

LEMMA LockKill ==
  ASSUME LockInv, NEW i \in Instances, KillInstance(i)
  PROVE  Held' /\ WritersReady'
<1>1. \A c \in Calls : call[c] \in CallRecord
  BY TypeParts DEF LockInv
<1>2. \A c \in Calls : call'[c] = IF InstanceOf[c] = i /\ call[c].pc # "ended"
                                    THEN [call[c] EXCEPT !.pc = "killed", !.seen = Empty]
                                    ELSE call[c]
  BY DEF KillInstance
<1>3. \A c \in Calls : \/ call'[c] = call[c] /\ (InstanceOf[c] # i \/ call[c].pc = "ended")
                       \/ call'[c].pc = "killed"
  <2>1. \A c \in Calls : [call[c] EXCEPT !.pc = "killed", !.seen = Empty].pc = "killed"
    BY <1>1 DEF CallRecord
  <2> QED
    BY <1>2, <2>1
<1>4. Held'
  BY <1>3 DEF LockInv, Held, KillInstance
<1> QED
  BY <1>3, <1>4, WritersFrame DEF KillInstance

LEMMA LockStep == LockInv /\ [LedgerNext]_ledgerVars => LockInv'
<1> SUFFICES ASSUME LockInv, [LedgerNext]_ledgerVars PROVE LockInv'
  OBVIOUS
<1>1. TypeInv'
  BY TypeStep DEF LockInv
<1>2. CASE \E c \in Calls : Enter(c) \/ Continue(c) \/ OpenFails(c) \/ WriteFails(c)
  <2>1. PICK c \in Calls : Enter(c) \/ Continue(c) \/ OpenFails(c) \/ WriteFails(c)
    BY <1>2
  <2>2. Held' /\ WritersReady'
    BY <2>1, LockLocks, LockReads, LockWrites DEF Continue
  <2> QED
    BY <1>1, <2>2 DEF LockInv
<1>3. CASE \E i \in Instances : KillInstance(i)
  BY <1>1, <1>3, LockKill DEF LockInv
<1>4. CASE UNCHANGED ledgerVars
  BY <1>1, <1>4 DEF ledgerVars, LockInv, Held, WritersReady, Ready
<1> QED
  BY <1>2, <1>3, <1>4 DEF LedgerNext

LEMMA LockInvHolds == LedgerSpec => []LockInv
<1>1. LedgerInit => LockInv
  <2>1. LedgerInit => TypeInv
    BY TypeInit DEF TypeInv, LedgerInit, Decided, Idle
  <2> QED
    BY <2>1 DEF LockInv, LedgerInit, Held, WritersReady, Idle
<1> QED
  BY <1>1, LockStep, PTL DEF LedgerSpec

-----------------------------------------------------------------------------
(* Every write is an admitted move of one job.                             *)

Moves(j, record) ==
  /\ Admitted(ledger[j], record)
  /\ ledger' = [ledger EXCEPT ![j] = record]

LEMMA WriteMoves ==
  ASSUME LockInv, NEW c \in Calls, WriteLedger(c) \/ WriteFails(c)
  PROVE  /\ JobOf[c] \in Jobs /\ call[c].record \in Record
         /\ ledger' = ledger \/ Moves(JobOf[c], call[c].record)
<1>1. call[c].pc = "write"
  BY DEF WriteLedger, WriteFails
<1>2. Ready(c) /\ call[c].record \in Record
  BY <1>1 DEF LockInv, WritersReady, TypeInv, Decided
<1>3. Replaced(c) = [ledger EXCEPT ![JobOf[c]] = call[c].record]
  BY <1>2 DEF Ready, Replaced
<1> QED
  BY <1>2, <1>3, CallsAreTyped DEF WriteLedger, WriteFails, Moves, Ready

LEMMA StepMoves ==
  ASSUME LockInv, [LedgerNext]_ledgerVars
  PROVE  \/ ledger' = ledger
         \/ \E j \in Jobs, record \in Record : Moves(j, record)
<1>1. ASSUME NEW c \in Calls, Enter(c) \/ Continue(c) \/ OpenFails(c)
      PROVE  ledger' = ledger \/ WriteLedger(c)
  BY <1>1 DEF Enter, Continue, OpenFails, Flock, Unlock, CreateRead, TransitionRead
<1>2. ASSUME NEW i \in Instances, KillInstance(i)
      PROVE  ledger' = ledger
  BY <1>2 DEF KillInstance
<1>3. CASE UNCHANGED ledgerVars
  BY <1>3 DEF ledgerVars
<1> QED
  BY <1>1, <1>2, <1>3, WriteMoves DEF LedgerNext

LEMMA AfterMove ==
  ASSUME TypeInv, NEW j \in Jobs, NEW record \in Record, Moves(j, record)
  PROVE  /\ ledger'[j] = record
         /\ \A k \in Jobs \ {j} : ledger'[k] = ledger[k]
         /\ DOMAIN ledger' = Jobs
BY TypeParts DEF Moves, Ledger

-----------------------------------------------------------------------------
(* The ledger implements the promise of Ownership.                         *)

OwnerOf(j) == IF ledger[j] = None THEN None ELSE ledger[j].backend
StageAt(j) == IF ledger[j] = None THEN "none" ELSE StageOf(ledger[j].state)

Owners == [j \in Jobs |-> OwnerOf(j)]
Stages == [j \in Jobs |-> StageAt(j)]

LEMMA NotNone == \A r \in Record : r # None
BY NoneIsNothing

(* Stage by stage: where a state of the transition table leads.            *)
LEMMA StageMoves ==
  ASSUME NEW s \in State, NEW t \in OwnershipTransitions[s]
  PROVE  /\ t \in State
         /\ \/ StageOf(s) = "foreground" /\ StageOf(t) = "foreground"
            \/ StageOf(s) = "foreground" /\ StageOf(t) = "background" /\ Background(t)
            \/ StageOf(s) \in {"foreground", "background"} /\ StageOf(t) = "settling"
            \/ StageOf(s) \in {"foreground", "background", "settling"} /\ StageOf(t) = "over"
BY DEF State, OwnershipTransitions, StageOf, Background

LEMMA MoveMaps ==
  ASSUME TypeInv, NEW j \in Jobs, NEW record \in Record, Moves(j, record)
  PROVE  /\ Owners' = [Owners EXCEPT ![j] = record.backend]
         /\ Stages' = [Stages EXCEPT ![j] = StageOf(record.state)]
<1>1. record # None
  BY NotNone
<1>2. OwnerOf(j)' = record.backend /\ StageAt(j)' = StageOf(record.state)
  BY <1>1, AfterMove DEF OwnerOf, StageAt
<1>3. \A k \in Jobs \ {j} : OwnerOf(k)' = OwnerOf(k) /\ StageAt(k)' = StageAt(k)
  BY AfterMove DEF OwnerOf, StageAt
<1> HIDE DEF OwnerOf, StageAt
<1>4. Owners' = [Owners EXCEPT ![j] = record.backend]
  BY <1>2, <1>3 DEF Owners
<1>5. Stages' = [Stages EXCEPT ![j] = StageOf(record.state)]
  BY <1>2, <1>3 DEF Stages
<1> QED
  BY <1>4, <1>5

(* A move of the promise, in the words of the mapping.                     *)
LEMMA MappedVars ==
  ASSUME NEW j \in Jobs, NEW from, NEW to
  PROVE  Abstract!Move(j, from, to) <=>
           Stages[j] \in from /\ Stages' = [Stages EXCEPT ![j] = to]
BY DEF Abstract!Move, Owners, Stages, OwnerOf, StageAt

LEMMA MapsInit == LedgerInit => Abstract!OwnershipInit
BY DEF LedgerInit, Abstract!OwnershipInit, Empty

LEMMA MapsStep ==
  ASSUME TypeInv, NEW j \in Jobs, NEW record \in Record, Moves(j, record)
  PROVE  [Abstract!OwnershipNext]_(Abstract!ownershipVars)
<1>1. /\ Owners' = [Owners EXCEPT ![j] = record.backend]
      /\ Stages' = [Stages EXCEPT ![j] = StageOf(record.state)]
  BY MoveMaps
<1>2. record.backend \in Backend /\ record.state \in State
  BY DEF Record
<1>3. CASE ledger[j] = None
  <2>1. Stages[j] = "none"
    BY <1>3 DEF Stages, StageAt
  <2>2. StageOf(record.state) \in Abstract!Stage \ {"none"}
    BY <1>2 DEF StageOf, Abstract!Stage
  <2>3. Abstract!Own(j, record.backend, StageOf(record.state))
    BY <1>1, <2>1, MappedVars DEF Abstract!Own, Owners, OwnerOf
  <2> QED
    BY <1>2, <2>2, <2>3 DEF Abstract!OwnershipNext
<1>4. CASE ledger[j] # None
  <2>1. ledger[j] \in Record
    BY <1>4, TypeParts DEF Ledger
  <2>2. /\ Stages[j] = StageOf(ledger[j].state)
        /\ Owners[j] = record.backend
        /\ ledger[j].state \in State
    BY <1>4, <2>1 DEF Stages, StageAt, Owners, OwnerOf, Moves, Admitted, Record
  <2>3. Owners' = Owners
    BY <1>1, <2>2 DEF Owners
  <2>4. CASE StageOf(record.state) = Stages[j]
    <3>1. Stages' = Stages
      BY <1>1, <2>4 DEF Stages
    <3>2. UNCHANGED Abstract!ownershipVars
      BY <2>3, <3>1 DEF Abstract!ownershipVars, Owners, Stages, OwnerOf, StageAt
    <3> QED
      BY <3>2
  <2>5. CASE StageOf(record.state) # Stages[j]
    <3>1. record.state \in OwnershipTransitions[ledger[j].state]
      BY <1>4, <2>2, <2>5 DEF Moves, Admitted
    <3>2. \/ Stages[j] = "foreground" /\ StageOf(record.state) = "background"
               /\ Background(record.state)
          \/ Stages[j] \in {"foreground", "background"} /\ StageOf(record.state) = "settling"
          \/ /\ Stages[j] \in {"foreground", "background", "settling"}
             /\ StageOf(record.state) = "over"
      BY <2>2, <2>5, <3>1, StageMoves
    <3>3. CASE Stages[j] = "foreground" /\ StageOf(record.state) = "background"
                 /\ Background(record.state)
      <4>1. Owners[j] \in {"THREAD_NATIVE_TERMINAL", "SANDBOX_DESCENDANT_SUPERVISOR"}
        BY <1>4, <2>2, <3>3 DEF Moves, Admitted, BackendOf
      <4>2. Abstract!Detach(j)
        BY <1>1, <2>3, <3>3, <4>1, MappedVars DEF Abstract!Detach, Owners, OwnerOf
      <4> QED
        BY <4>2 DEF Abstract!OwnershipNext
    <3>4. CASE Stages[j] \in {"foreground", "background"} /\ StageOf(record.state) = "settling"
      <4>1. Abstract!Settle(j)
        BY <1>1, <2>3, <3>4, MappedVars DEF Abstract!Settle, Owners, OwnerOf
      <4> QED
        BY <4>1 DEF Abstract!OwnershipNext
    <3>5. CASE /\ Stages[j] \in {"foreground", "background", "settling"}
               /\ StageOf(record.state) = "over"
      <4>1. Abstract!Finish(j)
        BY <1>1, <2>3, <3>5, MappedVars DEF Abstract!Finish, Owners, OwnerOf
      <4> QED
        BY <4>1 DEF Abstract!OwnershipNext
    <3> QED
      BY <3>2, <3>3, <3>4, <3>5
  <2> QED
    BY <2>4, <2>5
<1> QED
  BY <1>3, <1>4

(* The refinement: whatever calls do under their locks, and wherever they  *)
(* fail or are killed, the file moves as Ownership promises, one job at a  *)
(* time, owners never change, and the background is entered once, by a     *)
(* backend that can take it (v05_backend.py, 175-223).                     *)
THEOREM LedgerImplementsOwnership == LedgerSpec => OneOwner
<1>1. LockInv /\ [LedgerNext]_ledgerVars => [Abstract!OwnershipNext]_(Abstract!ownershipVars)
  <2> SUFFICES ASSUME LockInv, [LedgerNext]_ledgerVars
               PROVE  [Abstract!OwnershipNext]_(Abstract!ownershipVars)
    OBVIOUS
  <2>1. CASE ledger' = ledger
    BY <2>1 DEF Abstract!ownershipVars
  <2>2. CASE \E j \in Jobs, record \in Record : Moves(j, record)
    BY <2>2, MapsStep DEF LockInv
  <2> QED
    BY <2>1, <2>2, StepMoves
<1> QED
  BY <1>1, MapsInit, LockInvHolds, PTL DEF LedgerSpec, OneOwner, Abstract!OwnershipSpec

-----------------------------------------------------------------------------
(* Owners in the background.                                               *)

(* A transition that moves a job into the background moves it into that of *)
(* its own backend, for every ledger: the comparison is made under the     *)
(* lock its write is made under (v05_backend.py, 205-221).  A job whose    *)
(* first record is in the background already was compared with nothing.    *)
THEOREM TransfersAreOwners == LedgerSpec => TransfersReachOwners
<1> DEFINE Owned ==
      \A j \in Jobs :
        /\ ledger[j] # None /\ ledger'[j].state # ledger[j].state
        /\ Background(ledger'[j].state)
        => ledger'[j].backend = BackendOf(ledger'[j].state)
<1>1. ASSUME LockInv, [LedgerNext]_ledgerVars PROVE Owned
  <2>1. CASE ledger' = ledger
    BY <2>1
  <2>2. ASSUME NEW k \in Jobs, NEW record \in Record, Moves(k, record)
        PROVE  Owned
    <3>1. ledger'[k] = record /\ \A j \in Jobs \ {k} : ledger'[j] = ledger[j]
      BY <1>1, <2>2, AfterMove DEF LockInv
    <3>2. ledger[k] # None /\ Background(record.state) => record.backend = BackendOf(record.state)
      BY <2>2 DEF Moves, Admitted
    <3> QED
      BY <3>1, <3>2
  <2> QED
    BY <1>1, <2>1, <2>2, StepMoves
<1>2. LockInv /\ [LedgerNext]_ledgerVars => [Owned]_ledgerVars
  BY <1>1
<1>3. TransfersReachOwners <=> [][Owned]_ledgerVars
  BY DEF TransfersReachOwners
<1> HIDE DEF Owned
<1> QED
  BY <1>2, <1>3, LockInvHolds, PTL DEF LedgerSpec

-----------------------------------------------------------------------------
(* One winner: a state that a transfer left is never come back to.         *)

Rank(s) ==
  CASE s = "FOREGROUND"                                      -> 0
    [] s = "HANDOFF_PENDING"                                 -> 1
    [] s \in {"NATIVE_BACKGROUND", "SUPERVISOR_BACKGROUND"}  -> 2
    [] s = "COMPLETING"                                      -> 3
    [] OTHER                                                 -> 4

LEMMA RankRises ==
  ASSUME NEW s \in State, NEW t \in OwnershipTransitions[s]
  PROVE  t \in State /\ Rank(t) > Rank(s)
BY DEF State, OwnershipTransitions, Rank

LEMMA RankIsNat == \A s \in State : Rank(s) \in Nat
BY DEF State, Rank

(* The call was told that it took its job out of the state it expected.    *)
Won(c) == call[c].answer = "ok" /\ call[c].record.state # call[c].expected

(* The job of a winner has gone further than the winner found it.          *)
Left(c) ==
  /\ call[c].expected \in State
  /\ ledger[JobOf[c]] # None
  /\ Rank(ledger[JobOf[c]].state) > Rank(call[c].expected)

Unanswered ==
  \A c \in Calls : call[c].pc \in {"idle", "entered", "locked", "write"} =>
                     call[c].answer # "ok"

WinInv == Unanswered /\ OneWinner /\ \A c \in Transitions : Won(c) => Left(c)

(* What a call was told and asked is kept once it is told.                 *)
Kept(c) == /\ call'[c].answer = call[c].answer
           /\ call'[c].expected = call[c].expected
           /\ call'[c].record = call[c].record

LEMMA ToldStep ==
  ASSUME LockInv, Unanswered, [LedgerNext]_ledgerVars
  PROVE  /\ Unanswered'
         /\ \/ \A c \in Calls : call'[c].answer = "ok" => Kept(c)
            \/ \E d \in Calls : /\ WriteLedger(d)
                                /\ \A c \in Calls : call'[c].answer = "ok" => Kept(c) \/ c = d
                                /\ call'[d].expected = call[d].expected
                                /\ call'[d].record = call[d].record
<1>0. call \in [Calls -> CallRecord]
  BY TypeParts DEF LockInv
<1>1. ASSUME NEW d \in Calls, NEW pc,
             call' = [call EXCEPT ![d].pc = pc],
             pc \in {"entered", "locked"} => call[d].answer # "ok"
      PROVE  /\ \A c \in Calls : call'[c].answer = call[c].answer /\ Kept(c)
             /\ pc \in {"entered", "locked", "leave", "ended", "killed"} => Unanswered'
  BY <1>0, <1>1 DEF CallRecord, Unanswered, Kept
<1>2. ASSUME NEW d \in Calls, Enter(d) \/ Flock(d) \/ Unlock(d)
      PROVE  Unanswered' /\ \A c \in Calls : Kept(c)
  <2>1. CASE Enter(d)
    BY <2>1, <1>1 DEF Enter, Unanswered
  <2>2. CASE Flock(d)
    BY <2>2, <1>1 DEF Flock, Unanswered
  <2>3. CASE Unlock(d)
    BY <2>3, <1>1 DEF Unlock, Unanswered
  <2> QED
    BY <1>2, <2>1, <2>2, <2>3
<1>3. ASSUME NEW d \in Calls, NEW r,
             call' = [call EXCEPT ![d] = r], r.answer # "ok"
      PROVE  Unanswered' /\ \A c \in Calls : call'[c].answer = "ok" => Kept(c)
  BY <1>0, <1>3 DEF Unanswered, Kept
<1>4. ASSUME NEW d \in Calls, OpenFails(d) \/ CreateRead(d) \/ TransitionRead(d) \/ WriteFails(d)
      PROVE  Unanswered' /\ \A c \in Calls : call'[c].answer = "ok" => Kept(c)
  <2>1. CASE OpenFails(d)
    <3>1. [call[d] EXCEPT !.pc = "ended", !.answer = "error"].answer = "error"
      BY <1>0 DEF CallRecord
    <3> QED
      BY <2>1, <3>1, <1>3 DEF OpenFails
  <2>2. ASSUME NEW expected, NEW record,
               Refuse(d) \/ Ask(d, expected, record), call[d].answer # "ok"
        PROVE  Unanswered' /\ \A c \in Calls : call'[c].answer = "ok" => Kept(c)
    <3>1. [Idle EXCEPT !.pc = "leave", !.answer = "error"].answer # "ok"
      BY DEF Idle
    <3>2. [call[d] EXCEPT !.pc = "write", !.seen = ledger,
                          !.expected = expected, !.record = record].answer # "ok"
      BY <1>0, <2>2 DEF CallRecord
    <3> QED
      BY <2>2, <3>1, <3>2, <1>3 DEF Refuse, Ask
  <2>3. CASE CreateRead(d)
    BY <2>3, <2>2 DEF CreateRead, Unanswered
  <2>4. CASE TransitionRead(d)
    BY <2>4, <2>2 DEF TransitionRead, Unanswered
  <2>5. CASE WriteFails(d)
    <3>1. [call[d] EXCEPT !.pc = "leave", !.seen = Empty, !.answer = "error"].answer # "ok"
      BY <1>0 DEF CallRecord
    <3> QED
      BY <2>5, <3>1, <1>3 DEF WriteFails, Answer
  <2> QED
    BY <1>4, <2>1, <2>3, <2>4, <2>5
<1>5. ASSUME NEW d \in Calls, WriteLedger(d)
      PROVE  /\ Unanswered'
             /\ \A c \in Calls : call'[c].answer = "ok" => Kept(c) \/ c = d
             /\ call'[d].expected = call[d].expected
             /\ call'[d].record = call[d].record
  <2> DEFINE r == [call[d] EXCEPT !.pc = "leave", !.seen = Empty, !.answer = "ok"]
  <2>1. r.pc = "leave" /\ r.expected = call[d].expected /\ r.record = call[d].record
    BY <1>0 DEF CallRecord
  <2>2. call' = [call EXCEPT ![d] = r]
    BY <1>5 DEF WriteLedger, Answer
  <2> HIDE DEF r
  <2> QED
    BY <1>0, <2>1, <2>2 DEF Unanswered, Kept
<1>6. ASSUME NEW i \in Instances, KillInstance(i)
      PROVE  Unanswered' /\ \A c \in Calls : Kept(c)
  <2>1. \A c \in Calls : call'[c] = call[c] \/ call'[c] = [call[c] EXCEPT !.pc = "killed", !.seen = Empty]
    BY <1>6 DEF KillInstance
  <2>2. \A c \in Calls : LET r == [call[c] EXCEPT !.pc = "killed", !.seen = Empty]
                         IN  /\ r.pc = "killed" /\ r.answer = call[c].answer
                             /\ r.expected = call[c].expected /\ r.record = call[c].record
    BY <1>0 DEF CallRecord
  <2> QED
    BY <1>0, <2>1, <2>2 DEF Unanswered, Kept
<1>7. CASE UNCHANGED ledgerVars
  BY <1>7 DEF ledgerVars, Unanswered, Kept
<1> QED
  BY <1>2, <1>4, <1>5, <1>6, <1>7 DEF LedgerNext, Continue

(* The file only moves forward.                                            *)
LEMMA RankStep ==
  ASSUME LockInv, [LedgerNext]_ledgerVars, NEW j \in Jobs, ledger[j] # None
  PROVE  ledger'[j] # None /\ Rank(ledger'[j].state) >= Rank(ledger[j].state)
<1>1. ledger[j] \in Record /\ ledger[j].state \in State
  BY TypeParts DEF LockInv, Ledger, Record
<1>2. CASE ledger' = ledger
  BY <1>1, <1>2, RankIsNat
<1>3. ASSUME NEW k \in Jobs, NEW record \in Record, Moves(k, record)
      PROVE  ledger'[j] # None /\ Rank(ledger'[j].state) >= Rank(ledger[j].state)
  <2>1. ledger'[k] = record /\ (k # j => ledger'[j] = ledger[j])
    BY <1>3, AfterMove DEF LockInv
  <2>2. k = j => record.state = ledger[j].state \/ record.state \in OwnershipTransitions[ledger[j].state]
    BY <1>3 DEF Moves, Admitted
  <2>3. record.state \in State /\ record # None
    BY NotNone DEF Record
  <2> QED
    BY <1>1, <2>1, <2>2, <2>3, RankIsNat, RankRises
<1> QED
  BY <1>2, <1>3, StepMoves

(* The write of a transfer that leaves the state it expected.              *)
LEMMA WinnerLeaves ==
  ASSUME LockInv, NEW d \in Transitions, WriteLedger(d),
         call[d].record.state # call[d].expected
  PROVE  /\ ledger[JobOf[d]] # None
         /\ call[d].expected = ledger[JobOf[d]].state
         /\ call[d].expected \in State
         /\ ledger'[JobOf[d]] # None
         /\ Rank(ledger'[JobOf[d]].state) > Rank(call[d].expected)
<1>0. d \in Calls /\ JobOf[d] \in Jobs
  BY CallsAreTyped DEF Calls
<1>1. Ready(d) /\ call[d].record \in Record
  BY <1>0 DEF LockInv, WritersReady, TypeInv, Decided, WriteLedger
<1>2. ledger[JobOf[d]] # None /\ call[d].expected = ledger[JobOf[d]].state
  BY <1>1 DEF Ready
<1>3. ledger[JobOf[d]] \in Record /\ call[d].expected \in State
  BY <1>0, <1>2, TypeParts DEF LockInv, Ledger, Record
<1>4. call[d].record.state \in OwnershipTransitions[call[d].expected]
  BY <1>1, <1>2 DEF Ready, Admitted
<1>5. ledger'[JobOf[d]] = call[d].record
  BY <1>0, <1>1, TypeParts DEF LockInv, WriteLedger, Replaced, Ready, Ledger
<1> QED
  BY <1>1, <1>2, <1>3, <1>4, <1>5, RankRises, NotNone

LEMMA WinStep ==
  ASSUME LockInv, WinInv, [LedgerNext]_ledgerVars
  PROVE  WinInv'
<1>a. Unanswered
  BY DEF WinInv
<1>0. \A c \in Transitions : c \in Calls /\ JobOf[c] \in Jobs
  BY CallsAreTyped DEF Calls
<1> USE DEF WinInv
<1>1. Unanswered'
  BY <1>a, ToldStep
<1>2. ASSUME NEW c \in Transitions, Won(c), Kept(c)
      PROVE  Left(c)'
  <2>1. Left(c)
    BY <1>2
  <2>2. Rank(ledger'[JobOf[c]].state) >= Rank(ledger[JobOf[c]].state) /\ ledger'[JobOf[c]] # None
    BY <1>0, <2>1, RankStep DEF Left
  <2>3. ledger[JobOf[c]].state \in State /\ ledger'[JobOf[c]].state \in State
    <3>1. LockInv'
      BY LockStep
    <3> QED
      <4>1. TypeInv'
        BY <3>1 DEF LockInv
      <4> QED
        BY <1>0, <2>1, <2>2, <4>1 DEF Left, TypeInv, LedgerTypeOK, Ledger, Record, LockInv
  <2> QED
    BY <1>2, <2>1, <2>2, <2>3, RankIsNat DEF Left, Kept
<1>3. CASE \A c \in Calls : call'[c].answer = "ok" => Kept(c)
  <2>1. \A c \in Transitions : Won(c)' => Won(c) /\ Kept(c)
    BY <1>0, <1>3 DEF Won, Kept
  <2>2. OneWinner'
    BY <1>0, <2>1 DEF OneWinner, Won, Kept
  <2> QED
    BY <1>1, <1>2, <2>1, <2>2
<1>4. ASSUME NEW d \in Calls, WriteLedger(d),
             \A c \in Calls : call'[c].answer = "ok" => Kept(c) \/ c = d,
             call'[d].expected = call[d].expected, call'[d].record = call[d].record
      PROVE  WinInv'
  <2>1. \A c \in Transitions : Won(c)' => c = d \/ (Won(c) /\ Kept(c))
    BY <1>0, <1>4 DEF Won, Kept
  <2>2. d \in Transitions /\ Won(d)' =>
          /\ Left(d)'
          /\ \A c \in Transitions : Won(c) /\ JobOf[c] = JobOf[d] => call[c].expected # call[d].expected
    <3> SUFFICES ASSUME d \in Transitions, Won(d)'
                 PROVE  /\ Left(d)'
                        /\ \A c \in Transitions : Won(c) /\ JobOf[c] = JobOf[d] =>
                             call[c].expected # call[d].expected
      OBVIOUS
    <3>1. call[d].record.state # call[d].expected
      BY <1>4 DEF Won
    <3>2. Left(d)'
      BY <1>4, <3>1, WinnerLeaves DEF Left
    <3>3. \A c \in Transitions : Won(c) /\ JobOf[c] = JobOf[d] => call[c].expected # call[d].expected
      BY <1>4, <3>1, WinnerLeaves, RankIsNat DEF Left
    <3> QED
      BY <3>2, <3>3
  <2>3. \A c \in Transitions : Won(c)' => Left(c)'
    BY <1>2, <2>1, <2>2
  <2>4. ASSUME NEW c \in Transitions, NEW e \in Transitions, Won(c)', Won(e)',
               JobOf[c] = JobOf[e], call'[c].expected = call'[e].expected
        PROVE  c = e
    <3>1. CASE c # d /\ e # d
      BY <2>1, <2>4, <3>1 DEF OneWinner, Won, Kept
    <3>2. CASE c = d \/ e = d
      BY <1>4, <2>1, <2>2, <2>4, <3>2 DEF Kept
    <3> QED
      BY <3>1, <3>2
  <2>5. OneWinner'
    BY <2>4 DEF OneWinner, Won
  <2> QED
    BY <1>1, <2>3, <2>5
<1> QED
  BY <1>a, <1>3, <1>4, ToldStep

(* "one winner and one CAS rejection", for any number of processes and     *)
(* calls: two calls told that they took a job out of the same state are    *)
(* the same call (v05_backend.py, 196-223).                                *)
THEOREM OneWinnerHolds == LedgerSpec => []OneWinner
<1>1. LedgerInit => WinInv
  BY NoneIsNothing DEF LedgerInit, WinInv, Unanswered, OneWinner, Won, Idle, Calls
<1> QED
  BY <1>1, WinStep, LockInvHolds, PTL DEF LedgerSpec, WinInv
=============================================================================
