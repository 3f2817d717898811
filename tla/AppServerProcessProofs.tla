----------------------- MODULE AppServerProcessProofs -----------------------
(***************************************************************************)
(* Invariants of AppServerProcess!AppSpec for any number of requests,      *)
(* spawned processes and restarts.                                         *)
(***************************************************************************)
EXTENDS AppServerProcess, TLAPS

(* The owner has stopped or replaced what it no longer calls its process.  *)
OwnerInv ==
  /\ process \in {0, spawned}
  /\ owner.pc \in {"reap", "join"} => process # 0 /\ closed
  /\ owner.pc = "join" => process \notin alive
  /\ owner.pc = "start" => process = 0
  /\ owner.pc = "idle" => state # "RESTARTING"
  /\ owner.pc = "spawn" => state # "STOPPED"
  /\ state = "STOPPED" => process = 0
  /\ spawned # 0 /\ process = 0 => closed
  /\ spawned # 0 /\ closed => spawned \in shut

(* Nothing belongs to a process that was not spawned yet.                  *)
Unspawned ==
  /\ \A g \in Spawns : g > spawned =>
       pc[Reader(g)] = "none" /\ pc[Monitor(g)] = "none" /\ g \notin alive \cup shut
  /\ \A c \in Calls : to[c] <= spawned
  /\ \A c \in Calls : pc[c] \in {"write", "wait"} \cup CrashPc => to[c] # 0

(* A monitor takes no process for crashed that runs.                       *)
MonitorIsRight == \A g \in Spawns : pc[Monitor(g)] \in CrashPc => g \notin alive

(* Stop joins the threads of what it closed, or leaves its reader blocked. *)
StopJoins ==
  /\ \A g \in shut :
       pc[Monitor(g)] = "done" \/ (g = process /\ owner.pc \in {"reap", "join"})
  /\ spawned # 0 /\ process = 0 =>
       pc[Monitor(spawned)] = "done" /\ pc[Reader(spawned)] \notin CrashPc

(* The table holds the requests that have begun and not ended.             *)
TableInv ==
  \A c \in Calls :
    /\ c \in pending <=> pc[c] \notin {"idle", "register", "ended"}
    /\ outcome[c] = "unsent" => pc[c] \in {"pop", "ended"}

(* Of an earlier process that does not linger no thread acts any more.     *)
NothingLeft ==
  \A g \in Spawns \ lingering : g < spawned =>
    /\ pc[Reader(g)] = "done" /\ pc[Monitor(g)] = "done"
    /\ \A c \in Calls : to[c] = g => pc[c] \notin {"write"} \cup CrashPc

(* What a watcher reported after a request entered the table reached it.   *)
Expecting == {"capture", "write", "wait"}

AllAreTold ==
  \A c \in Calls, g \in Spawns :
    /\ pc[c] \in Expecting
    /\ g \notin shut \cup before[c]
    /\ g = spawned \/ lingering = {}
    /\ Reported(g)
    => mailbox[c] # "empty"

(* A server that runs where the next may be spawned was accused.           *)
NextMayStart == owner.pc = "spawn" \/ (state = "CRASHED" /\ owner.pc # "initializing")

StraysInv ==
  /\ \A g \in alive \cap shut : g = process /\ owner.pc = "reap"
  /\ \A g \in alive :
       /\ g < spawned \/ NextMayStart
       /\ \A h \in lingering : h >= g
       => Accused(g)

(* The reader has one answer in its hand.                                  *)
HandsInv ==
  /\ \A g \in Spawns : \A c, d \in holding[g] : c = d
  /\ WaitersMissNoAnswer

Invs ==
  /\ OwnerInv /\ Unspawned /\ MonitorIsRight /\ StopJoins /\ TableInv
  /\ NothingLeft /\ AllAreTold /\ StraysInv

AppInv == AppTypeOK /\ Invs /\ HandsInv

-----------------------------------------------------------------------------
(* Names.                                                                  *)

LEMMA Names ==
  /\ \A g \in Spawns : Reader(g) \in Watchers /\ Monitor(g) \in Watchers
  /\ \A t \in Watchers : \E g \in Spawns : t = Reader(g) \/ t = Monitor(g)
  /\ \A g, h \in Spawns : Reader(g) # Monitor(h)
  /\ \A g, h \in Spawns : g # h => Reader(g) # Reader(h) /\ Monitor(g) # Monitor(h)
  /\ \A c \in Calls : c \notin Watchers
<1>1. \A g \in Spawns : Reader(g) \in Watchers /\ Monitor(g) \in Watchers
  BY DEF Watchers, Reader, Monitor
<1>2. \A t \in Watchers : \E g \in Spawns : t = Reader(g) \/ t = Monitor(g)
  BY DEF Watchers, Reader, Monitor
<1>3. \A g, h \in Spawns : Reader(g) # Monitor(h)
  BY DEF Reader, Monitor
<1>4. \A g, h \in Spawns : g # h => Reader(g) # Reader(h) /\ Monitor(g) # Monitor(h)
  BY DEF Reader, Monitor
<1>5. \A g \in Spawns : Initialize(g) \notin Watchers
  BY DEF Initialize, Watchers
<1>6. \A c \in Calls : c \notin Watchers
  BY <1>5, RequestsAreNoWatchers DEF Calls
<1>7. QED
  BY <1>1, <1>2, <1>3, <1>4, <1>6

Places == WatcherPc \cup CallPc
Threads == Watchers \cup Calls

LEMMA ThreadGoes ==
  ASSUME AppTypeOK, NEW t \in Threads, NEW place \in Places, Goes(t, place)
  PROVE  /\ pc' \in [Threads -> Places]
         /\ pc'[t] = place
         /\ \A o \in Threads \ {t} : pc'[o] = pc[o]
BY DEF AppTypeOK, Goes, Threads, Places

LEMMA OwnerMoves ==
  ASSUME AppTypeOK,
         NEW place \in {"idle", "start", "spawn", "initializing", "await", "ready",
                        "stop", "reap", "join"},
         OwnerGoes(place)
  PROVE  /\ owner' \in [pc   : {"idle", "start", "spawn", "initializing", "await", "ready",
                                "stop", "reap", "join"},
                        next : {"idle", "start"}]
         /\ owner'.pc = place /\ owner'.next = owner.next
BY DEF AppTypeOK, OwnerGoes

-----------------------------------------------------------------------------
(* The steps of the threads, by what they do to what is shared.            *)

Moves(t, from, place) ==
  /\ t \in Threads /\ place \in Places /\ pc[t] = from
  /\ Goes(t, place)
  /\ UNCHANGED <<ownerVars, alive, shut>>

(* A thread sets the state only to CRASHED, and only in _mark_crashed.     *)
SetsState(from) == state' = state \/ (from = "crash_set" /\ state' = "CRASHED")

Fills == \A c \in Calls : mailbox[c] # "empty" => mailbox'[c] # "empty"
Tells == \A c \in pending : mailbox'[c] # "empty"

(* A step of a thread that watches the process g.                          *)
WatcherStep(t, g, from, place) ==
  /\ Moves(t, from, place) /\ SetsState(from) /\ Fills
  /\ from \notin {"none", "done"}
  /\ from \in CrashPc => place \in CrashPc \cup {"done"}
  /\ place \in CrashPc => from \in CrashPc \/ (~closed /\ (t = Monitor(g) => g \notin alive))
  /\ place = "done" => closed \/ Tells
  /\ UNCHANGED <<to, pending, before, outcome>>

(* A step of the thread that makes the call c.                             *)
AboutProcess == {"write", "wait"} \cup CrashPc

CallStep(c, from, place) ==
  /\ Moves(c, from, place) /\ SetsState(from)
  /\ from # "ended" /\ place # "idle" /\ (from = "wait" => place = "pop")
  /\ place \in CrashPc => from \in CrashPc \cup {"write"}
  /\ from \in CrashPc => place \in CrashPc \cup {"pop"}
  /\ from = "capture" => place \in {"write", "pop"}
  /\ place \in Expecting => from \in Expecting \cup {"register"}
  /\ IF from = "capture"
       THEN to' = [to EXCEPT ![c] = process] /\ (place = "write" => process # 0)
       ELSE to' = to /\ (place # "write")
                     /\ (place \in AboutProcess => from \in AboutProcess)
  /\ CASE from = "register" -> /\ pending' = pending \cup {c} /\ place = "capture"
                               /\ before' = [before EXCEPT ![c] = {g \in Spawns : Reported(g)}]
       [] from = "pop"      -> /\ pending' = pending \ {c} /\ place = "ended"
                               /\ before' = [before EXCEPT ![c] = {}]
       [] OTHER             -> /\ UNCHANGED <<pending, before>> /\ place # "ended"
                               /\ place = "register" <=> from = "idle"
  /\ CASE place = "pop"     -> /\ \E o \in {"answer", "crash", "timeout", "unsent"} :
                                    outcome' = [outcome EXCEPT ![c] = o]
                               /\ from \in CrashPc => outcome'[c] = "unsent"
       [] OTHER             -> outcome' = outcome
  /\ \A o \in Calls \ {c} : mailbox[o] # "empty" => mailbox'[o] # "empty"
  /\ from = "wait" \/ Fills

(* The owner's steps other than Spawn, and the server's: no thread moves.  *)
StillStep ==
  /\ alive' \subseteq alive
  /\ shut \subseteq shut' /\ shut' \subseteq shut \cup {process} /\ 0 \notin shut' \ shut
  /\ UNCHANGED <<spawned, lingering, pc, to, pending, mailbox, before, outcome>>

(* _mark_crashed, whoever runs it: done, or pop, is where it returns.      *)
Returns(t) == IF Watcher(t) THEN "done" ELSE "pop"

Unsent(t) == outcome' = IF Watcher(t) THEN outcome ELSE [outcome EXCEPT ![t] = "unsent"]

CrashStep(t, from, place) ==
  /\ Moves(t, from, place) /\ SetsState(from) /\ Fills
  /\ from \in CrashPc
  /\ \/ place \in CrashPc /\ UNCHANGED outcome
     \/ place = Returns(t) /\ Unsent(t) /\ Tells
  /\ UNCHANGED <<to, pending, before>>

LEMMA CrashPlaces ==
  /\ CrashPc \subseteq WatcherPc /\ CrashPc \subseteq CallPc /\ CrashPc \subseteq Places
  /\ \A place \in {"none", "read", "put", "poll", "done", "idle", "register", "capture",
                   "write", "wait", "pop", "ended"} :
       place \in Places /\ place \notin CrashPc
BY DEF CrashPc, WatcherPc, CallPc, Places

LEMMA ToldFills ==
  ASSUME AppTypeOK, mailbox' = Told
  PROVE  Fills /\ Tells
BY DEF AppTypeOK, Told, Fills, Tells

LEMMA CrashMarks ==
  ASSUME AppTypeOK, NEW t \in Threads, Crash(t)
  PROVE  \E from, place \in Places : CrashStep(t, from, place)
<1>0. Returns(t) \in Places /\ CrashPc \subseteq Places
  BY CrashPlaces DEF Returns
<1> DEFINE Same == UNCHANGED <<ownerVars, alive, shut, to, pending, before>>
<1>1. CASE CrashRead(t)
  <2>1. PICK place \in {"crash_tell", "crash_set"} : Goes(t, place)
    BY <1>1 DEF CrashRead
  <2>2. Same /\ UNCHANGED <<state, mailbox, outcome>> /\ pc[t] = "crash_read"
    BY <1>1 DEF CrashRead, serverVars, callVars
  <2>3. place \in CrashPc /\ "crash_read" \in CrashPc
    BY DEF CrashPc
  <2>4. CrashStep(t, "crash_read", place)
    BY <1>0, <2>1, <2>2, <2>3 DEF CrashStep, Moves, SetsState, Fills
  <2>5. QED
    BY <1>0, <2>3, <2>4
<1>2. CASE CrashSet(t)
  <2>1. /\ Same /\ UNCHANGED <<mailbox, outcome>>
        /\ pc[t] = "crash_set" /\ Goes(t, "crash_tell") /\ state' = "CRASHED"
    BY <1>2 DEF CrashSet, serverVars, callVars
  <2>2. "crash_set" \in CrashPc /\ "crash_tell" \in CrashPc
    BY DEF CrashPc
  <2>3. CrashStep(t, "crash_set", "crash_tell")
    BY <1>0, <2>1, <2>2 DEF CrashStep, Moves, SetsState, Fills
  <2>4. QED
    BY <1>0, <2>2, <2>3
<1>3. CASE CrashTell(t)
  <2>1. /\ Same /\ UNCHANGED state /\ Unsent(t)
        /\ pc[t] = "crash_tell" /\ Goes(t, Returns(t)) /\ mailbox' = Told
    BY <1>3 DEF CrashTell, Return, Returns, Unsent, serverVars
  <2>2. "crash_tell" \in CrashPc
    BY DEF CrashPc
  <2>3. CrashStep(t, "crash_tell", Returns(t))
    BY <1>0, <2>1, <2>2, ToldFills DEF CrashStep, Moves, SetsState
  <2>4. QED
    BY <1>0, <2>2, <2>3
<1>4. QED
  BY <1>1, <1>2, <1>3 DEF Crash

LEMMA WatcherKinds ==
  ASSUME AppTypeOK, NEW g \in Spawns, WatcherSteps(g)
  PROVE  \E t \in {Reader(g), Monitor(g)}, from, place \in Places :
           WatcherStep(t, g, from, place)
<1>0. /\ Reader(g) \in Threads /\ Monitor(g) \in Threads
      /\ Reader(g) \in Watchers /\ Monitor(g) \in Watchers /\ Reader(g) # Monitor(g)
  BY Names DEF Threads
<1>1. CASE ReadLine(g)
  <2>1. PICK place \in {"read", "put"} : Goes(Reader(g), place)
    <3>1. pc[Reader(g)] = "read" => (pc' = pc => Goes(Reader(g), "read"))
      BY <1>0 DEF AppTypeOK, Goes
    <3>2. QED
      BY <1>1, <3>1 DEF ReadLine
  <2>2. /\ pc[Reader(g)] = "read"
        /\ UNCHANGED <<state, ownerVars, alive, shut, to, pending, mailbox, before, outcome>>
    BY <1>1 DEF ReadLine, callVars
  <2>3. WatcherStep(Reader(g), g, "read", place)
    BY <1>0, <2>1, <2>2, CrashPlaces DEF WatcherStep, Moves, SetsState, Fills
  <2>4. QED
    BY <2>1, <2>3, CrashPlaces
<1>2. CASE Put(g)
  <2>1. /\ pc[Reader(g)] = "put" /\ Goes(Reader(g), "read")
        /\ UNCHANGED <<state, ownerVars, alive, shut, to, pending, before, outcome>>
    BY <1>2 DEF Put, serverVars
  <2>2. Fills
    <3>1. PICK c \in holding[g] : mailbox' = [mailbox EXCEPT ![c] = "answer"]
      BY <1>2 DEF Put
    <3>2. QED
      BY <3>1 DEF Fills, AppTypeOK
  <2>3. WatcherStep(Reader(g), g, "put", "read")
    BY <1>0, <2>1, <2>2, CrashPlaces DEF WatcherStep, Moves, SetsState
  <2>4. QED
    BY <2>3, CrashPlaces
<1>3. CASE EndOfFile(g) \/ ReadFails(g) \/ Poll(g)
  <2>1. PICK t \in {Reader(g), Monitor(g)}, from \in {"read", "poll"} :
          /\ pc[t] = from
          /\ MarkCrashed(t)
          /\ t = Monitor(g) => g \notin alive \/ closed
    BY <1>0, <1>3 DEF EndOfFile, ReadFails, Poll
  <2>2. UNCHANGED <<state, ownerVars, alive, shut, to, pending, mailbox, before>>
    BY <1>3 DEF EndOfFile, ReadFails, Poll, serverVars
  <2>3. /\ t \in Threads /\ Watcher(t)
        /\ from \notin {"none", "done"} /\ from \notin CrashPc
    BY <1>0, CrashPlaces DEF Watcher
  <2>4. PICK place \in {"done", "crash_read"} :
          /\ Goes(t, place)
          /\ place = "done" <=> closed
    BY <2>1, <2>3 DEF MarkCrashed, Return
  <2>5. outcome' = outcome
    BY <2>1, <2>3 DEF MarkCrashed, Return
  <2>6. /\ place \in Places
        /\ place \in CrashPc => ~closed
    BY <2>4, CrashPlaces DEF CrashPc
  <2>7. WatcherStep(t, g, from, place)
    BY <2>1, <2>2, <2>3, <2>4, <2>5, <2>6 DEF WatcherStep, Moves, SetsState, Fills
  <2>8. QED
    BY <2>3, <2>6, <2>7, CrashPlaces
<1>4. ASSUME NEW t \in {Reader(g), Monitor(g)}, Crash(t)
      PROVE  \E from, place \in Places : WatcherStep(t, g, from, place)
  <2>1. t \in Threads /\ Watcher(t)
    BY <1>0 DEF Watcher
  <2>2. PICK from, place \in Places : CrashStep(t, from, place)
    BY <1>4, <2>1, CrashMarks
  <2>3. Returns(t) = "done" /\ "none" \notin CrashPc /\ "done" \notin CrashPc
    BY <2>1, CrashPlaces DEF Returns
  <2>4. WatcherStep(t, g, from, place)
    BY <2>1, <2>2, <2>3 DEF WatcherStep, CrashStep, Unsent
  <2>5. QED
    BY <2>4
<1>5. QED
  BY <1>1, <1>2, <1>3, <1>4 DEF WatcherSteps

LEMMA CallKinds ==
  ASSUME AppTypeOK, NEW c \in Calls, Ask(c) \/ CallContinues(c)
  PROVE  \E from, place \in Places : CallStep(c, from, place)
<1>0. c \in Threads /\ ~Watcher(c) /\ Returns(c) = "pop"
  BY Names DEF Threads, Watcher, Returns
<1> USE DEF SetsState
<1>1. CASE Ask(c)
  <2>1. /\ pc[c] = "idle" /\ Goes(c, "register")
        /\ UNCHANGED <<state, ownerVars, alive, shut, to, pending, mailbox, before, outcome>>
    BY <1>1 DEF Ask, serverVars, callVars
  <2>2. CallStep(c, "idle", "register")
    BY <1>0, <2>1, CrashPlaces DEF CallStep, Moves, Fills, AboutProcess, Expecting
  <2>3. QED
    BY <2>2, CrashPlaces
<1>2. CASE Register(c)
  <2>1. /\ pc[c] = "register" /\ Goes(c, "capture") /\ pending' = pending \cup {c}
        /\ before' = [before EXCEPT ![c] = {g \in Spawns : Reported(g)}]
        /\ UNCHANGED <<state, ownerVars, alive, shut, to, mailbox, outcome>>
    BY <1>2 DEF Register, serverVars
  <2>2. CallStep(c, "register", "capture")
    BY <1>0, <2>1, CrashPlaces DEF CallStep, Moves, Fills, AboutProcess, Expecting
  <2>3. QED
    BY <2>2, CrashPlaces
<1>3. CASE Capture(c)
  <2>1. PICK place \in {"pop", "write"} :
          /\ Goes(c, place)
          /\ place = "write" => process # 0 /\ outcome' = outcome
          /\ place = "pop" => outcome' = [outcome EXCEPT ![c] = "unsent"]
    BY <1>3 DEF Capture
  <2>2. /\ pc[c] = "capture" /\ to' = [to EXCEPT ![c] = process]
        /\ UNCHANGED <<state, ownerVars, alive, shut, pending, mailbox, before>>
    BY <1>3 DEF Capture, serverVars
  <2>3. CallStep(c, "capture", place)
    BY <1>0, <2>1, <2>2, CrashPlaces DEF CallStep, Moves, Fills, AboutProcess, Expecting
  <2>4. QED
    BY <2>1, <2>3, CrashPlaces
<1>4. CASE WriteLine(c)
  <2>1. PICK place \in {"pop", "wait", "crash_read"} :
          /\ Goes(c, place)
          /\ place = "pop" => outcome' = [outcome EXCEPT ![c] = "unsent"]
          /\ place # "pop" => outcome' = outcome
    BY <1>0, <1>4 DEF WriteLine, Return, MarkCrashed
  <2>2. /\ pc[c] = "write"
        /\ UNCHANGED <<state, ownerVars, alive, shut, to, pending, mailbox, before>>
    BY <1>4 DEF WriteLine
  <2>3. place \in Places /\ "crash_read" \in CrashPc
    BY CrashPlaces DEF CrashPc
  <2>4. CallStep(c, "write", place)
    BY <1>0, <2>1, <2>2, <2>3, CrashPlaces
       DEF CallStep, Moves, Fills, AboutProcess, Expecting
  <2>5. QED
    BY <2>3, <2>4, CrashPlaces
<1>5. CASE Crash(c)
  <2>1. PICK from, place \in Places : CrashStep(c, from, place)
    BY <1>0, <1>5, CrashMarks
  <2>2. from \in CrashPc /\ place \in CrashPc \cup {"pop"}
    BY <1>0, <2>1 DEF CrashStep
  <2>3. /\ place = "pop" => outcome' = [outcome EXCEPT ![c] = "unsent"]
        /\ place # "pop" => outcome' = outcome
    BY <1>0, <2>1, CrashPlaces DEF CrashStep, Unsent
  <2>4. Moves(c, from, place) /\ SetsState(from) /\ Fills /\ UNCHANGED <<to, pending, before>>
    BY <2>1 DEF CrashStep
  <2>5. place = "pop" => outcome'[c] = "unsent"
    BY <2>3 DEF AppTypeOK
  <2>6. CallStep(c, from, place)
    BY <2>2, <2>3, <2>4, <2>5, CrashPlaces DEF CallStep, AboutProcess, Fills, Expecting
  <2>7. QED
    BY <2>6
<1>6. CASE Take(c)
  <2>1. /\ pc[c] = "wait" /\ Goes(c, "pop") /\ mailbox' = [mailbox EXCEPT ![c] = "empty"]
        /\ outcome' = [outcome EXCEPT ![c] = mailbox[c]] /\ mailbox[c] # "empty"
        /\ UNCHANGED <<state, ownerVars, alive, shut, to, pending, before>>
    BY <1>6 DEF Take, serverVars
  <2>2. \A o \in Calls \ {c} : mailbox'[o] = mailbox[o]
    BY <2>1 DEF AppTypeOK
  <2>3. mailbox[c] \in {"answer", "crash"}
    BY <2>1 DEF AppTypeOK
  <2>4. CallStep(c, "wait", "pop")
    BY <1>0, <2>1, <2>2, <2>3, CrashPlaces DEF CallStep, Moves, AboutProcess, Expecting
  <2>5. QED
    BY <2>4, CrashPlaces
<1>7. CASE Timeout(c)
  <2>1. /\ pc[c] = "wait" /\ Goes(c, "pop") /\ outcome' = [outcome EXCEPT ![c] = "timeout"]
        /\ UNCHANGED <<state, ownerVars, alive, shut, to, pending, mailbox, before>>
    BY <1>7 DEF Timeout, serverVars
  <2>2. CallStep(c, "wait", "pop")
    BY <1>0, <2>1, CrashPlaces DEF CallStep, Moves, Fills, AboutProcess, Expecting
  <2>3. QED
    BY <2>2, CrashPlaces
<1>8. CASE Pop(c)
  <2>1. /\ pc[c] = "pop" /\ Goes(c, "ended") /\ pending' = pending \ {c}
        /\ before' = [before EXCEPT ![c] = {}]
        /\ UNCHANGED <<state, ownerVars, alive, shut, to, mailbox, outcome>>
    BY <1>8 DEF Pop, serverVars
  <2>2. CallStep(c, "pop", "ended")
    BY <1>0, <2>1, CrashPlaces DEF CallStep, Moves, Fills, AboutProcess, Expecting
  <2>3. QED
    BY <2>2, CrashPlaces
<1>9. QED
  BY <1>1, <1>2, <1>3, <1>4, <1>5, <1>6, <1>7, <1>8 DEF CallContinues

-----------------------------------------------------------------------------
(* The steps of the threads that watch keep the invariants.                *)

LEMMA Numbers ==
  ASSUME AppTypeOK
  PROVE  /\ spawned \in 0..MaxSpawns /\ process \in 0..MaxSpawns
         /\ MaxSpawns \in Nat /\ spawned \in Nat /\ process \in Nat
         /\ spawned # 0 => spawned \in Spawns
         /\ \A c \in Calls : to[c] \in Nat /\ (to[c] # 0 => to[c] \in Spawns)
         /\ \A g \in Spawns : g \in Nat /\ g # 0
BY BoundsAreNat DEF AppTypeOK, Spawns

(* A thread that only moves leaves alone what the owner keeps.             *)
LEMMA MovesOwner ==
  ASSUME AppTypeOK, OwnerInv, NEW from, SetsState(from),
         UNCHANGED <<ownerVars, alive, shut>>
  PROVE  OwnerInv'
BY DEF OwnerInv, SetsState, ownerVars

(* Who sets the state to CRASHED, if nothing lingers, is of the last       *)
(* process.                                                                *)
LEMMA Lasts ==
  ASSUME AppTypeOK, Invs, NEW g \in alive, ~(g < spawned)
  PROVE  g = spawned /\ g \in Spawns /\ g # 0
<1>1. g \in Spawns /\ ~(g > spawned)
  BY DEF AppTypeOK, Invs, Unspawned
<1>2. QED
  BY <1>1, Numbers

LEMMA WatcherInvs ==
  ASSUME AppTypeOK, Invs, NEW g \in Spawns, NEW t \in {Reader(g), Monitor(g)},
         NEW from, NEW place, WatcherStep(t, g, from, place)
  PROVE  Invs'
<1>1. /\ t \in Watchers /\ t \in Threads /\ pc[t] = from
      /\ from \notin {"none", "done"}
  BY Names DEF WatcherStep, Moves
<1>2. /\ pc'[t] = place
      /\ \A o \in Threads \ {t} : pc'[o] = pc[o]
      /\ UNCHANGED <<owner, process, spawned, closed, lingering, alive, shut, to, pending,
                     before, outcome>>
  BY <1>1, ThreadGoes DEF WatcherStep, Moves, ownerVars
<1>3. \A c \in Calls : c \in Threads /\ c # t /\ pc'[c] = pc[c]
  BY <1>1, <1>2, Names DEF Threads
<1>4. \A h \in Spawns :
        /\ Reader(h) \in Threads /\ Monitor(h) \in Threads
        /\ Reader(h) # t => pc'[Reader(h)] = pc[Reader(h)]
        /\ Monitor(h) # t => pc'[Monitor(h)] = pc[Monitor(h)]
        /\ Reader(h) = t \/ Monitor(h) = t => h = g
        /\ ~(Reader(h) = t /\ Monitor(h) = t)
  BY <1>2, Names DEF Threads
<1>5. OwnerInv'
  BY MovesOwner DEF WatcherStep, Moves, Invs
<1>6. g <= spawned
  <2>1. ~(g > spawned)
    BY <1>1 DEF Invs, Unspawned
  <2>2. QED
    BY <2>1, Numbers
<1>7. Unspawned'
  <2>1. Unspawned
    BY DEF Invs
  <2>2. \A h \in Spawns : h > spawned => Reader(h) # t /\ Monitor(h) # t
    BY <1>4, <1>6, Numbers
  <2>3. QED
    BY <1>2, <1>3, <1>4, <2>1, <2>2 DEF Unspawned
<1>8. MonitorIsRight'
  <2>1. MonitorIsRight
    BY DEF Invs
  <2>2. t = Monitor(g) /\ place \in CrashPc => g \notin alive
    BY <1>1, <2>1 DEF WatcherStep, MonitorIsRight
  <2>3. QED
    BY <1>2, <1>4, <2>1, <2>2 DEF MonitorIsRight
<1>9. StopJoins'
  <2>1. StopJoins
    BY DEF Invs
  <2>2. \A h \in shut : h \in Spawns
    BY DEF AppTypeOK
  <2>3. \A h \in shut : pc[Monitor(h)] = "done" => pc'[Monitor(h)] = "done"
    BY <1>1, <1>4, <2>2
  <2>4. ASSUME spawned # 0, process = 0
        PROVE  pc'[Monitor(spawned)] = "done" /\ pc'[Reader(spawned)] \notin CrashPc
    <3>1. /\ pc[Monitor(spawned)] = "done" /\ pc[Reader(spawned)] \notin CrashPc
          /\ spawned \in Spawns /\ closed
      BY <2>1, <2>4, Numbers DEF StopJoins, Invs, OwnerInv
    <3>2. Monitor(spawned) # t
      BY <1>1, <3>1
    <3>3. CASE Reader(spawned) = t
      <4>1. place \notin CrashPc
        BY <1>1, <3>1, <3>3 DEF WatcherStep
      <4>2. QED
        BY <1>2, <1>4, <3>1, <3>2, <3>3, <4>1
    <3>4. CASE Reader(spawned) # t
      BY <1>4, <3>1, <3>2, <3>4
    <3>5. QED
      BY <3>3, <3>4
  <2>5. QED
    BY <1>2, <2>1, <2>3, <2>4 DEF StopJoins
<1>10. TableInv'
  BY <1>2, <1>3 DEF Invs, TableInv
<1>11. NothingLeft'
  <2>1. NothingLeft
    BY DEF Invs
  <2>2. \A h \in Spawns \ lingering : h < spawned => h # g
    BY <1>1, <2>1 DEF NothingLeft
  <2>3. QED
    BY <1>2, <1>3, <1>4, <2>1, <2>2 DEF NothingLeft
<1>12. AllAreTold'
  <2>1. SUFFICES ASSUME NEW c \in Calls, NEW h \in Spawns, pc[c] \in Expecting,
                        h \notin shut \cup before[c],
                        h = spawned \/ lingering = {},
                        Reported(h)'
                 PROVE  mailbox'[c] # "empty"
    BY <1>2, <1>3 DEF AllAreTold
  <2>2. c \in pending
    BY <2>1 DEF Invs, TableInv, Expecting
  <2>3. CASE Reported(h)
    <3>1. mailbox[c] # "empty"
      BY <2>1, <2>3 DEF Invs, AllAreTold
    <3>2. QED
      BY <3>1 DEF WatcherStep, Fills
  <2>4. CASE ~Reported(h)
    <3>1. h = g /\ place = "done"
      BY <1>2, <1>4, <2>1, <2>4 DEF Reported
    <3>2. ~closed
      <4>1. h = spawned
        <5>1. ~(lingering = {} /\ h < spawned)
          BY <1>1, <3>1 DEF Invs, NothingLeft
        <5>2. QED
          BY <1>6, <2>1, <3>1, <5>1, Numbers
      <4>2. QED
        BY <2>1, <4>1, Numbers DEF Invs, OwnerInv
    <3>3. Tells
      BY <3>1, <3>2 DEF WatcherStep
    <3>4. QED
      BY <2>2, <3>3 DEF Tells
  <2>5. QED
    BY <2>3, <2>4
<1>13. StraysInv'
  <2>1. StraysInv /\ NothingLeft
    BY DEF Invs
  <2>2. ASSUME NEW h \in alive, Accused(h)
        PROVE  Accused(h)'
    <3>1. h \in Spawns
      BY DEF AppTypeOK
    <3>2. pc[Reader(h)] \in CrashPc \cup {"done"} => pc'[Reader(h)] \in CrashPc \cup {"done"}
      BY <1>1, <1>2, <1>4, <3>1 DEF WatcherStep
    <3>3. QED
      BY <1>2, <1>3, <2>2, <3>2 DEF Accused
  <2>3. ASSUME NEW h \in alive, h < spawned \/ NextMayStart', \A l \in lingering : l >= h
        PROVE  Accused(h)
    <3>1. CASE h < spawned \/ NextMayStart
      BY <2>1, <2>3, <3>1 DEF StraysInv
    <3>2. CASE ~(h < spawned \/ NextMayStart)
      <4>1. h = spawned /\ h \in Spawns
        BY <3>2, Lasts
      <4>2. from = "crash_set" /\ from \in CrashPc
        BY <1>2, <2>3, <3>2 DEF WatcherStep, SetsState, NextMayStart, CrashPc
      <4>3. ~(g < spawned)
        <5>1. SUFFICES ASSUME g < spawned
                       PROVE  FALSE
          OBVIOUS
        <5>2. g \notin lingering
          BY <2>3, <4>1, <5>1, Numbers DEF AppTypeOK
        <5>3. QED
          BY <1>1, <2>1, <5>1, <5>2 DEF NothingLeft
      <4>4. g = h
        BY <1>6, <4>1, <4>3, Numbers
      <4>5. t # Monitor(g)
        BY <1>1, <4>2, <4>4 DEF Invs, MonitorIsRight
      <4>6. QED
        BY <1>1, <4>2, <4>4, <4>5 DEF Accused
    <3>3. QED
      BY <3>1, <3>2
  <2>4. QED
    BY <1>2, <2>1, <2>2, <2>3 DEF StraysInv
<1>14. QED
  BY <1>5, <1>7, <1>8, <1>9, <1>10, <1>11, <1>12, <1>13 DEF Invs

-----------------------------------------------------------------------------
(* The steps of the calls keep the invariants.                             *)

LEMMA CallInvs ==
  ASSUME AppTypeOK, Invs, NEW c \in Calls,
         NEW from, NEW place, CallStep(c, from, place)
  PROVE  Invs'
<1>1. c \in Threads /\ pc[c] = from /\ Moves(c, from, place)
  BY DEF CallStep, Moves
<1>2. /\ pc'[c] = place
      /\ \A o \in Threads \ {c} : pc'[o] = pc[o]
      /\ UNCHANGED <<owner, process, spawned, closed, lingering, alive, shut>>
  BY <1>1, ThreadGoes DEF CallStep, Moves, ownerVars
<1>3. \A h \in Spawns :
        pc'[Reader(h)] = pc[Reader(h)] /\ pc'[Monitor(h)] = pc[Monitor(h)]
  BY <1>2, Names DEF Threads
<1>4. \A o \in Calls \ {c} : pc'[o] = pc[o] /\ to'[o] = to[o] /\ before'[o] = before[o]
                             /\ outcome'[o] = outcome[o]
  <2>1. \A o \in Calls \ {c} : to'[o] = to[o]
    BY DEF CallStep, AppTypeOK
  <2>2. \A o \in Calls \ {c} : before'[o] = before[o]
    BY DEF CallStep, AppTypeOK
  <2>3. \A o \in Calls \ {c} : outcome'[o] = outcome[o]
    BY DEF CallStep, AppTypeOK
  <2>4. QED
    BY <1>2, <2>1, <2>2, <2>3 DEF Threads
<1>5. to'[c] = IF from = "capture" THEN process ELSE to[c]
  BY DEF CallStep, AppTypeOK
<1>6. OwnerInv'
  BY <1>1, MovesOwner DEF CallStep, Moves, Invs
<1>7. /\ Unspawned /\ MonitorIsRight /\ TableInv /\ StopJoins /\ NothingLeft
      /\ AllAreTold /\ StraysInv /\ process \in {0, spawned}
  BY DEF Invs, OwnerInv
<1>p. /\ place \in CrashPc => from # "capture"
      /\ place \in AboutProcess => to'[c] # 0
      /\ place \in {"write"} \cup CrashPc =>
           from \in {"write"} \cup CrashPc \/ (from = "capture" /\ place = "write")
  <2>1. place \in CrashPc => from # "capture"
    BY CrashPlaces DEF CallStep
  <2>2. CASE from = "capture"
    BY <1>5, <2>1, <2>2, CrashPlaces DEF CallStep, AboutProcess, Expecting
  <2>3. CASE from # "capture"
    <3>1. place \in AboutProcess => from \in AboutProcess
      BY <2>3 DEF CallStep
    <3>2. from \in AboutProcess => to[c] # 0
      BY <1>1, <1>7 DEF Unspawned, AboutProcess
    <3>3. place \in {"write"} \cup CrashPc => from \in {"write"} \cup CrashPc
      BY <2>3 DEF CallStep
    <3>4. QED
      BY <1>5, <2>1, <2>3, <3>1, <3>2, <3>3
  <2>4. QED
    BY <2>2, <2>3
<1>8. Unspawned'
  <2>1. to'[c] <= spawned
    BY <1>5, <1>7, Numbers DEF Unspawned
  <2>2. QED
    BY <1>2, <1>3, <1>4, <1>7, <1>p, <2>1 DEF Unspawned, AboutProcess
<1>9. MonitorIsRight'
  BY <1>2, <1>3, <1>7 DEF MonitorIsRight
<1>10. StopJoins'
  <2>1. shut \subseteq Spawns
    BY DEF AppTypeOK
  <2>2. QED
    BY <1>2, <1>3, <1>7, <2>1, Numbers DEF StopJoins
<1>11. TableInv'
  <2>0. pending \subseteq Calls /\ outcome \in [Calls -> {"none", "answer", "crash", "timeout", "unsent"}]
    BY DEF AppTypeOK
  <2>1. c \in pending' <=> place \notin {"idle", "register", "ended"}
    BY <1>1, <1>7, CrashPlaces DEF CallStep, TableInv, Expecting
  <2>2. \A o \in Calls \ {c} : o \in pending' <=> o \in pending
    BY DEF CallStep
  <2>3. outcome'[c] = "unsent" => place \in {"pop", "ended"}
    <3>1. CASE place = "pop"
      BY <3>1
    <3>2. CASE place # "pop"
      <4>1. outcome' = outcome
        BY <3>2 DEF CallStep
      <4>2. outcome[c] = "unsent" => from = "pop"
        BY <1>1, <1>7 DEF CallStep, TableInv
      <4>3. from = "pop" => place = "ended"
        BY DEF CallStep
      <4>4. QED
        BY <4>1, <4>2, <4>3
    <3>3. QED
      BY <3>1, <3>2
  <2>4. QED
    BY <1>2, <1>4, <1>7, <2>1, <2>2, <2>3 DEF TableInv
<1>12. NothingLeft'
  <2>1. \A h \in Spawns \ lingering : h < spawned /\ to'[c] = h =>
          place \notin {"write"} \cup CrashPc
    <3>1. CASE from = "capture"
      BY <1>5, <1>7, <1>p, <3>1, Numbers DEF AboutProcess
    <3>2. CASE from # "capture"
      BY <1>1, <1>5, <1>7, <1>p, <3>2 DEF NothingLeft
    <3>3. QED
      BY <3>1, <3>2
  <2>2. QED
    BY <1>2, <1>3, <1>4, <1>7, <2>1 DEF NothingLeft
<1>13. AllAreTold'
  <2>1. SUFFICES ASSUME NEW o \in Calls, NEW h \in Spawns, pc'[o] \in Expecting,
                        h \notin shut \cup before'[o],
                        h = spawned \/ lingering = {},
                        Reported(h)
                 PROVE  mailbox'[o] # "empty"
    BY <1>2, <1>3 DEF AllAreTold, Reported
  <2>2. CASE o = c
    <3>1. from # "register"
      BY <2>1, <2>2 DEF CallStep, AppTypeOK
    <3>2. from \in Expecting /\ from \notin {"wait", "pop"} /\ before' = before
      BY <1>2, <2>1, <2>2, <3>1 DEF CallStep, Expecting
    <3>3. mailbox[c] # "empty"
      BY <1>1, <1>7, <2>1, <2>2, <3>2 DEF AllAreTold
    <3>4. QED
      BY <2>2, <3>2, <3>3 DEF CallStep, Fills
  <2>3. CASE o # c
    <3>1. pc[o] \in Expecting /\ before'[o] = before[o]
      BY <1>4, <2>1, <2>3
    <3>2. mailbox[o] # "empty"
      BY <1>7, <2>1, <3>1 DEF AllAreTold
    <3>3. QED
      BY <2>3, <3>2 DEF CallStep
  <2>4. QED
    BY <2>2, <2>3
<1>14. StraysInv'
  <2>1. ASSUME NEW h \in alive, Accused(h)
        PROVE  Accused(h)'
    <3>1. h \in Spawns /\ h # 0
      BY Numbers DEF AppTypeOK
    <3>2. CASE pc[Reader(h)] \in CrashPc \cup {"done"}
      BY <1>3, <3>1, <3>2 DEF Accused
    <3>3. CASE \E o \in Calls : to[o] = h /\ (pc[o] \in CrashPc \/ outcome[o] = "unsent")
      <4>1. PICK o \in Calls : to[o] = h /\ (pc[o] \in CrashPc \/ outcome[o] = "unsent")
        BY <3>3
      <4>2. CASE o # c
        BY <1>4, <4>1, <4>2 DEF Accused
      <4>3. CASE o = c /\ from \in CrashPc
        <5>1. to'[c] = h
          BY <1>5, <4>1, <4>3, CrashPlaces
        <5>2. place \in CrashPc \/ place = "pop"
          BY <4>3 DEF CallStep
        <5>3. QED
          BY <1>2, <4>3, <5>1, <5>2 DEF CallStep, Accused
      <4>4. CASE o = c /\ from \notin CrashPc
        <5>1. outcome[c] = "unsent" /\ from = "pop"
          BY <1>1, <1>7, <4>1, <4>4 DEF TableInv, CallStep
        <5>2. place = "ended" /\ to' = to
          BY <5>1 DEF CallStep
        <5>3. outcome' = outcome
          BY <5>2 DEF CallStep
        <5>4. QED
          BY <4>1, <4>4, <5>1, <5>2, <5>3 DEF Accused
      <4>5. QED
        BY <4>2, <4>3, <4>4
    <3>4. QED
      BY <2>1, <3>2, <3>3 DEF Accused
  <2>2. ASSUME NEW h \in alive, h < spawned \/ NextMayStart', \A l \in lingering : l >= h
        PROVE  Accused(h)
    <3>1. CASE h < spawned \/ NextMayStart
      BY <1>7, <2>2, <3>1 DEF StraysInv
    <3>2. CASE ~(h < spawned \/ NextMayStart)
      <4>1. h = spawned /\ h \in Spawns
        BY <3>2, Lasts
      <4>2. from = "crash_set" /\ from \in CrashPc
        BY <1>2, <2>2, <3>2 DEF CallStep, SetsState, NextMayStart, CrashPc
      <4>3. to[c] \in Spawns /\ to[c] <= spawned
        BY <1>1, <1>7, <4>2, Numbers DEF Unspawned
      <4>4. ~(to[c] < spawned)
        <5>1. SUFFICES ASSUME to[c] < spawned
                       PROVE  FALSE
          OBVIOUS
        <5>2. to[c] \notin lingering
          BY <2>2, <4>1, <4>3, <5>1, Numbers DEF AppTypeOK
        <5>3. QED
          BY <1>1, <1>7, <4>2, <4>3, <5>1, <5>2 DEF NothingLeft
      <4>5. to[c] = h
        BY <4>1, <4>3, <4>4, Numbers
      <4>6. QED
        BY <1>1, <4>2, <4>5 DEF Accused
    <3>3. QED
      BY <3>1, <3>2
  <2>3. QED
    BY <1>2, <1>7, <2>1, <2>2 DEF StraysInv
<1>15. QED
  BY <1>6, <1>8, <1>9, <1>10, <1>11, <1>12, <1>13, <1>14 DEF Invs


-----------------------------------------------------------------------------
(* The steps of the owner and of the server keep the invariants.           *)

LEMMA StillInvs ==
  ASSUME AppTypeOK, Invs, StillStep
  PROVE  Unspawned' /\ MonitorIsRight' /\ TableInv' /\ AllAreTold'
<1>1. /\ Unspawned /\ MonitorIsRight /\ TableInv /\ AllAreTold
      /\ process \in {0, spawned}
  BY DEF Invs, OwnerInv
<1>2. \A g \in Spawns : g > spawned => g \notin shut'
  BY <1>1, Numbers DEF StillStep, Unspawned, Spawns
<1>3. Unspawned'
  BY <1>1, <1>2 DEF StillStep, Unspawned
<1>4. MonitorIsRight'
  BY <1>1 DEF StillStep, MonitorIsRight
<1>5. TableInv'
  BY <1>1 DEF StillStep, TableInv
<1>6. AllAreTold'
  BY <1>1 DEF StillStep, AllAreTold, Reported
<1>7. QED
  BY <1>3, <1>4, <1>5, <1>6

(* A still step of the owner, or one that it does not take part in.        *)
OwnerSteps ==
  \/ Start \/ SpawnFails \/ Initializing \/ Initialized \/ Ready \/ StopCall \/ RestartCall
  \/ Stop \/ Reap \/ Join

LEMMA OwnerIsStill ==
  ASSUME AppTypeOK, OwnerSteps
  PROVE  StillStep
<1>1. CASE \/ Start \/ SpawnFails \/ Initializing \/ Initialized \/ Ready \/ StopCall
           \/ RestartCall \/ Join
  BY <1>1 DEF Start, SpawnFails, Initializing, Initialized, Ready, StopCall, RestartCall,
              Join, StillStep, serverVars, callVars
<1>2. CASE Stop
  BY <1>2 DEF Stop, StillStep, callVars
<1>3. CASE Reap
  BY <1>3 DEF Reap, Dies, StillStep, callVars
<1>4. QED
  BY <1>1, <1>2, <1>3 DEF OwnerSteps

Rest == NothingLeft /\ StopJoins /\ StraysInv

(* Of a process that is accused nothing changes while no thread moves.     *)
LEMMA StillStrays ==
  ASSUME AppTypeOK, StraysInv,
         alive' \subseteq alive, UNCHANGED <<spawned, lingering, pc, to, outcome>>,
         \A g \in alive' \cap shut' : g = process' /\ owner'.pc = "reap",
         \A g \in alive' : NextMayStart' => NextMayStart \/ g < spawned
  PROVE  StraysInv'
<1>1. \A g \in Spawns : Accused(g) => Accused(g)'
  BY DEF Accused
<1>2. \A g \in alive : g \in Spawns
  BY DEF AppTypeOK
<1>3. ASSUME NEW g \in alive', g < spawned' \/ NextMayStart', \A h \in lingering' : h >= g
      PROVE  Accused(g)'
  <2>1. g < spawned \/ NextMayStart
    BY <1>3
  <2>2. Accused(g)
    BY <1>3, <2>1 DEF StraysInv
  <2>3. QED
    BY <1>1, <1>2, <2>2
<1>4. QED
  BY <1>3 DEF StraysInv

(* Only the process that stop waits for runs with its stdin closed.        *)
LEMMA NotReaping ==
  ASSUME StraysInv, owner.pc # "reap"
  PROVE  alive \cap shut = {}
BY DEF StraysInv

LEMMA StartInvs ==
  ASSUME AppTypeOK, Invs, Start
  PROVE  OwnerInv' /\ Rest'
<1>1. /\ UNCHANGED <<process, spawned, closed, lingering, alive, shut, pc, to, outcome>>
      /\ owner.pc \in {"start", "idle"}
      /\ owner.pc = "start" \/ Startable
  BY DEF Start, OwnerAt, serverVars, callVars
<1>2. /\ OwnerInv /\ NothingLeft /\ StopJoins /\ StraysInv /\ alive \cap shut = {}
  BY <1>1, NotReaping DEF Invs
<1>3. CASE Startable
  <2>1. state' = "STARTING" /\ owner'.pc = "spawn"
    BY <1>3, OwnerMoves DEF Start
  <2>2. OwnerInv'
    BY <1>1, <1>2, <2>1 DEF OwnerInv
  <2>3. ASSUME NEW g \in alive'
        PROVE  NextMayStart \/ g < spawned
    <3>1. SUFFICES ASSUME ~(g < spawned), state # "CRASHED"
                   PROVE  FALSE
      BY <1>1 DEF NextMayStart
    <3>2. g \in alive /\ g = spawned /\ spawned # 0
      BY <1>1, <2>3, <3>1, Lasts
    <3>3. process = 0
      BY <1>1, <1>2, <1>3, <3>1 DEF Startable, OwnerInv
    <3>4. spawned \in shut
      BY <1>2, <3>2, <3>3 DEF OwnerInv
    <3>5. QED
      BY <1>2, <3>2, <3>4
  <2>4. StraysInv'
    BY <1>1, <1>2, <2>3, StillStrays
  <2>5. NothingLeft' /\ StopJoins'
    BY <1>1, <1>2, <2>1 DEF NothingLeft, StopJoins
  <2>6. QED
    BY <2>2, <2>4, <2>5 DEF Rest
<1>4. CASE ~Startable
  <2>1. state' = state /\ owner'.pc = "idle"
    BY <1>4, OwnerMoves DEF Start
  <2>2. OwnerInv'
    BY <1>1, <1>2, <1>4, <2>1 DEF OwnerInv, Startable
  <2>3. ~NextMayStart'
    BY <1>4, <2>1 DEF NextMayStart, Startable
  <2>4. StraysInv'
    BY <1>1, <1>2, <2>3, StillStrays
  <2>5. NothingLeft' /\ StopJoins'
    BY <1>1, <1>2, <2>1 DEF NothingLeft, StopJoins
  <2>6. QED
    BY <2>2, <2>4, <2>5 DEF Rest
<1>5. QED
  BY <1>3, <1>4

LEMMA CallsInvs ==
  ASSUME AppTypeOK, Invs,
         SpawnFails \/ Initializing \/ Initialized \/ Ready \/ StopCall \/ RestartCall
  PROVE  OwnerInv' /\ Rest'
<1>1. /\ UNCHANGED <<process, spawned, closed, lingering, alive, shut, pc, to, outcome>>
      /\ owner.pc \in {"idle", "spawn", "initializing", "await", "ready"}
  BY DEF SpawnFails, Initializing, Initialized, Ready, StopCall, RestartCall, OwnerAt,
         serverVars, callVars
<1>2. \/ owner'.pc = "idle" /\ state' \in {"FAILED", "READY"}
      \/ owner'.pc \in {"await", "ready", "stop"} /\ state' \in {"INITIALIZING", "FAILED", "RESTARTING"}
      \/ owner'.pc \in {"ready", "stop"} /\ state' = state /\ owner.pc # "initializing"
  <2>1. CASE SpawnFails \/ Ready
    BY <2>1, OwnerMoves DEF SpawnFails, Ready
  <2>2. CASE Initializing
    BY <2>2, OwnerMoves DEF Initializing
  <2>3. CASE Initialized
    BY <2>3, OwnerMoves DEF Initialized, OwnerAt
  <2>4. CASE StopCall \/ RestartCall
    BY <2>4 DEF StopCall, RestartCall, OwnerAt
  <2>5. QED
    BY <2>1, <2>2, <2>3, <2>4
<1>3. OwnerInv /\ NothingLeft /\ StopJoins /\ StraysInv /\ alive \cap shut = {}
  BY <1>1, NotReaping DEF Invs
<1>4. OwnerInv'
  BY <1>1, <1>2, <1>3 DEF OwnerInv
<1>5. NextMayStart' => NextMayStart
  BY <1>2 DEF NextMayStart
<1>6. StraysInv'
  BY <1>1, <1>3, <1>5, StillStrays
<1>7. NothingLeft' /\ StopJoins'
  BY <1>1, <1>2, <1>3 DEF NothingLeft, StopJoins
<1>8. QED
  BY <1>4, <1>6, <1>7 DEF Rest

LEMMA StopInvs ==
  ASSUME AppTypeOK, Invs, Stop
  PROVE  OwnerInv' /\ Rest'
<1>1. /\ UNCHANGED <<process, spawned, lingering, alive, pc, to, outcome>>
      /\ owner.pc = "stop"
  BY DEF Stop, OwnerAt, callVars
<1>2. OwnerInv /\ NothingLeft /\ StopJoins /\ StraysInv /\ alive \cap shut = {}
  BY <1>1, NotReaping DEF Invs
<1>3. NothingLeft'
  BY <1>1, <1>2 DEF NothingLeft
<1>4. CASE process = 0
  <2>1. /\ UNCHANGED <<closed, shut>>
        /\ \/ owner'.pc = "start" /\ state' = "RESTARTING"
           \/ owner'.pc = "idle" /\ state' = "STOPPED"
    BY <1>4 DEF Stop, Stopped, OwnerGoes, AppTypeOK
  <2>2. OwnerInv'
    BY <1>1, <1>2, <1>4, <2>1 DEF OwnerInv
  <2>3. ~NextMayStart'
    BY <2>1 DEF NextMayStart
  <2>4. StraysInv'
    BY <1>1, <1>2, <2>1, <2>3, StillStrays
  <2>5. StopJoins'
    BY <1>1, <1>2, <1>4, <2>1 DEF StopJoins
  <2>6. QED
    BY <1>3, <2>2, <2>4, <2>5 DEF Rest
<1>5. CASE process # 0
  <2>1. closed' = TRUE /\ shut' = shut \cup {process} /\ owner'.pc = "reap" /\ state' = state
    BY <1>5, OwnerMoves DEF Stop
  <2>2. process = spawned
    BY <1>2, <1>5 DEF OwnerInv
  <2>3. OwnerInv'
    BY <1>1, <1>2, <1>5, <2>1, <2>2 DEF OwnerInv
  <2>4. NextMayStart' => NextMayStart
    BY <1>1, <2>1 DEF NextMayStart
  <2>5. \A g \in alive' \cap shut' : g = process' /\ owner'.pc = "reap"
    BY <1>1, <1>2, <2>1
  <2>6. StraysInv'
    BY <1>1, <1>2, <2>4, <2>5, StillStrays
  <2>7. StopJoins'
    BY <1>1, <1>2, <1>5, <2>1 DEF StopJoins
  <2>8. QED
    BY <1>3, <2>3, <2>6, <2>7 DEF Rest
<1>6. QED
  BY <1>4, <1>5

LEMMA ReapInvs ==
  ASSUME AppTypeOK, Invs, Reap
  PROVE  OwnerInv' /\ Rest'
<1>1. /\ UNCHANGED <<state, process, spawned, lingering, closed, shut, pc, to, outcome>>
      /\ owner.pc = "reap" /\ owner'.pc = "join"
      /\ alive' = alive \ {process}
  BY OwnerMoves DEF Reap, Dies, OwnerAt, callVars
<1>2. OwnerInv /\ NothingLeft /\ StopJoins /\ StraysInv
  BY DEF Invs
<1>3. OwnerInv'
  BY <1>1, <1>2 DEF OwnerInv
<1>4. NextMayStart' => NextMayStart
  BY <1>1 DEF NextMayStart
<1>5. alive' \subseteq alive /\ alive' \cap shut' = {}
  BY <1>1, <1>2 DEF StraysInv
<1>6. StraysInv'
  BY <1>1, <1>2, <1>4, <1>5, StillStrays
<1>7. NothingLeft' /\ StopJoins'
  BY <1>1, <1>2 DEF NothingLeft, StopJoins
<1>8. QED
  BY <1>3, <1>6, <1>7 DEF Rest

LEMMA JoinInvs ==
  ASSUME AppTypeOK, Invs, Join
  PROVE  OwnerInv' /\ Rest'
<1>1. /\ UNCHANGED <<spawned, lingering, closed, alive, shut, pc, to, outcome>>
      /\ owner.pc = "join" /\ process' = 0
      /\ \/ owner'.pc = "start" /\ state' = "RESTARTING"
         \/ owner'.pc = "idle" /\ state' = "STOPPED"
      /\ pc[Monitor(process)] = "done"
      /\ pc[Reader(process)] \in {"done", "read", "put"}
  BY DEF Join, Stopped, OwnerGoes, AppTypeOK, OwnerAt, Blocked, serverVars, callVars
<1>2. OwnerInv /\ NothingLeft /\ StopJoins /\ StraysInv /\ alive \cap shut = {}
  BY <1>1, NotReaping DEF Invs
<1>3. process = spawned /\ process # 0 /\ process \notin alive /\ closed
  BY <1>1, <1>2 DEF OwnerInv
<1>4. OwnerInv'
  BY <1>1, <1>2, <1>3 DEF OwnerInv
<1>5. ~NextMayStart'
  BY <1>1 DEF NextMayStart
<1>6. StraysInv'
  BY <1>1, <1>2, <1>5, StillStrays
<1>7. NothingLeft'
  BY <1>1, <1>2 DEF NothingLeft
<1>8. StopJoins'
  BY <1>1, <1>2, <1>3, CrashPlaces DEF StopJoins
<1>9. QED
  BY <1>4, <1>6, <1>7, <1>8 DEF Rest

(* The server answers, or a process or a child of one ends.                *)
ServerSteps ==
  \/ \E g \in Spawns : ServerDies(g) \/ HolderEnds(g)
  \/ \E c \in Calls : ServerAnswers(c)

LEMMA ServerInvs ==
  ASSUME AppTypeOK, Invs, ServerSteps
  PROVE  StillStep /\ OwnerInv' /\ Rest'
<1>1. /\ UNCHANGED <<state, owner, process, spawned, lingering, closed, shut, pc, to, outcome>>
      /\ alive' \subseteq alive
  BY DEF ServerSteps, ServerDies, Dies, HolderEnds, ServerAnswers, ownerVars, callVars
<1>2. StillStep
  BY <1>1 DEF ServerSteps, ServerDies, Dies, HolderEnds, ServerAnswers, StillStep, callVars
<1>3. OwnerInv /\ NothingLeft /\ StopJoins /\ StraysInv
  BY DEF Invs
<1>4. OwnerInv' /\ NothingLeft' /\ StopJoins'
  BY <1>1, <1>3 DEF OwnerInv, NothingLeft, StopJoins
<1>5. NextMayStart' => NextMayStart
  BY <1>1 DEF NextMayStart
<1>6. \A g \in alive' \cap shut' : g = process' /\ owner'.pc = "reap"
  BY <1>1, <1>3 DEF StraysInv
<1>7. StraysInv'
  BY <1>1, <1>3, <1>5, <1>6, StillStrays
<1>8. QED
  BY <1>2, <1>4, <1>7 DEF Rest

LEMMA SpawnInvs ==
  ASSUME AppTypeOK, Invs, Spawn
  PROVE  Invs'
<1> DEFINE n == spawned + 1
<1>1. /\ n \in Spawns /\ n \in Nat /\ n # 0 /\ spawned < n
      /\ \A g \in Spawns : g > n => g > spawned
      /\ \A g \in Spawns : g < n <=> g \in 1..spawned
      /\ \A g \in Spawns : g <= spawned => g # n
  BY Numbers DEF Spawn, Spawns
<1>2. /\ spawned' = n /\ process' = n /\ closed' = FALSE /\ alive' = alive \cup {n}
      /\ lingering' = lingering \cup {g \in 1..spawned : LeftBehind(g)}
      /\ owner.pc = "spawn" /\ owner'.pc = "initializing"
      /\ UNCHANGED <<state, shut, to, pending, mailbox, before, outcome>>
  BY OwnerMoves DEF Spawn, OwnerAt, callVars
<1>3. /\ pc'[Reader(n)] = "read" /\ pc'[Monitor(n)] = "poll"
      /\ \A t \in Threads : t # Reader(n) /\ t # Monitor(n) => pc'[t] = pc[t]
  <2>1. Reader(n) \in Threads /\ Monitor(n) \in Threads /\ Reader(n) # Monitor(n)
    BY <1>1, Names DEF Threads
  <2>2. pc \in [Threads -> Places]
    BY DEF AppTypeOK, Threads, Places
  <2>3. pc' = [pc EXCEPT ![Reader(n)] = "read", ![Monitor(n)] = "poll"]
    BY <1>2 DEF Spawn
  <2>4. QED
    BY <2>1, <2>2, <2>3
<1>4. /\ \A c \in Calls : pc'[c] = pc[c]
      /\ \A g \in Spawns : g # n =>
           pc'[Reader(g)] = pc[Reader(g)] /\ pc'[Monitor(g)] = pc[Monitor(g)]
  BY <1>1, <1>3, Names DEF Threads
<1>5. /\ OwnerInv /\ Unspawned /\ MonitorIsRight /\ StopJoins /\ TableInv /\ AllAreTold
      /\ StraysInv /\ alive \cap shut = {}
      /\ \A c \in Calls : to[c] <= spawned /\ to[c] # n /\ to[c] \in Nat
  BY <1>1, <1>2, Numbers, NotReaping DEF Invs, Unspawned
<1> HIDE DEF n
<1>6. n \notin alive \cup shut
  BY <1>1, <1>5, Numbers DEF Unspawned
<1>7. OwnerInv'
  BY <1>1, <1>2, <1>5 DEF OwnerInv
<1>8. Unspawned'
  <2>1. \A g \in Spawns : g > n => g # n
    BY <1>1 DEF Spawns
  <2>2. \A c \in Calls : to[c] <= n
    BY <1>1, <1>5, Numbers
  <2>3. QED
    BY <1>1, <1>2, <1>4, <1>5, <2>1, <2>2 DEF Unspawned
<1>9. MonitorIsRight'
  BY <1>2, <1>3, <1>4, <1>5, CrashPlaces DEF MonitorIsRight
<1>10. StopJoins'
  <2>1. shut \subseteq Spawns
    BY DEF AppTypeOK
  <2>2. QED
    BY <1>1, <1>2, <1>4, <1>5, <1>6, <2>1 DEF StopJoins
<1>11. TableInv'
  BY <1>2, <1>4, <1>5 DEF TableInv
<1>12. NothingLeft'
  <2>1. ASSUME NEW g \in Spawns \ lingering', g < n
        PROVE  /\ pc'[Reader(g)] = "done" /\ pc'[Monitor(g)] = "done"
               /\ \A c \in Calls : to[c] = g => pc'[c] \notin {"write"} \cup CrashPc
    <3>1. ~LeftBehind(g) /\ g # n
      BY <1>1, <1>2, <2>1, Numbers DEF Spawns
    <3>2. g \in shut => pc[Monitor(g)] = "done"
      BY <1>2, <1>5 DEF StopJoins
    <3>3. /\ pc[Reader(g)] = "done" /\ pc[Monitor(g)] = "done"
          /\ \A c \in Calls : to[c] = g => pc[c] \notin {"write"} \cup CrashPc
      BY <3>1, <3>2 DEF LeftBehind
    <3>4. QED
      BY <1>4, <2>1, <3>1, <3>3
  <2>2. QED
    BY <1>2, <2>1 DEF NothingLeft
<1>13. AllAreTold'
  <2>1. SUFFICES ASSUME NEW c \in Calls, NEW g \in Spawns, pc[c] \in Expecting,
                        g \notin shut \cup before[c],
                        g = n \/ lingering' = {},
                        pc'[Reader(g)] = "done" \/ pc'[Monitor(g)] = "done"
                 PROVE  mailbox[c] # "empty"
    BY <1>2, <1>4 DEF AllAreTold, Reported
  <2>2. lingering = {} /\ g # n
    BY <1>2, <1>3, <2>1
  <2>3. Reported(g)
    BY <1>4, <2>1, <2>2 DEF Reported
  <2>4. QED
    BY <1>5, <2>1, <2>2, <2>3 DEF AllAreTold
<1>14. StraysInv'
  <2>1. \A g \in alive' \cap shut' : g = process' /\ owner'.pc = "reap"
    BY <1>2, <1>5, <1>6
  <2>2. ASSUME NEW g \in alive', g < n \/ NextMayStart', \A h \in lingering' : h >= g
        PROVE  Accused(g)'
    <3>1. g \in Spawns /\ g < n /\ g # n
      BY <1>1, <1>2, <2>2, Numbers DEF NextMayStart, AppTypeOK, Spawns
    <3>2. g \in alive /\ \A h \in lingering : h >= g
      BY <1>2, <2>2, <3>1
    <3>3. Accused(g)
      BY <1>2, <1>5, <3>2 DEF StraysInv, NextMayStart
    <3>4. QED
      BY <1>2, <1>4, <3>1, <3>3 DEF Accused
  <2>3. QED
    BY <1>2, <2>1, <2>2 DEF StraysInv
<1>15. QED
  BY <1>7, <1>8, <1>9, <1>10, <1>11, <1>12, <1>13, <1>14 DEF Invs

-----------------------------------------------------------------------------
(* No answer is lost on its way.                                           *)

(* What is on its way moves on only to the mailbox of its caller.          *)
LEMMA HandsAreKept ==
  ASSUME HandsInv,
         inbox \cup pipe \subseteq inbox' \cup pipe', holding' = holding,
         \A c \in Calls :
           pc'[c] = "wait" =>
             \/ c \in inbox'
             \/ /\ pc[c] = "wait" /\ to'[c] = to[c]
                /\ pc[Reader(to[c])] = "put" => pc'[Reader(to[c])] = "put"
                /\ mailbox[c] # "empty" => mailbox'[c] # "empty"
  PROVE  HandsInv'
BY DEF HandsInv, WaitersMissNoAnswer

(* The steps of the threads that leave the pipe and the hands alone.       *)
LEMMA WatcherHands ==
  ASSUME AppTypeOK, Invs, HandsInv, NEW g \in Spawns, WatcherSteps(g)
  PROVE  HandsInv'
<1>0. /\ Reader(g) \in Threads /\ Monitor(g) \in Threads
      /\ \A c \in Calls : c \in Threads /\ c # Reader(g) /\ c # Monitor(g)
      /\ \A h \in Spawns : Reader(h) \in Threads /\ Reader(h) # Monitor(g)
                           /\ (h # g => Reader(h) # Reader(g))
      /\ holding \in [Spawns -> SUBSET Calls] /\ pc \in [Threads -> Places]
      /\ mailbox \in [Calls -> {"empty", "answer", "crash"}]
  BY Names DEF AppTypeOK, Threads, Places
<1>1. \A c \in Calls : pc[c] = "wait" => to[c] \in Spawns /\ c \in pending
  BY Numbers DEF Invs, Unspawned, TableInv
<1>2. CASE ReadLine(g)
  <2>1. PICK d \in pipe :
          /\ to[d] = g /\ pipe' = pipe \ {d} /\ inbox' = inbox /\ pc[Reader(g)] = "read"
          /\ UNCHANGED <<to, mailbox>>
          /\ IF d \in pending
               THEN holding' = [holding EXCEPT ![g] = {d}] /\ Goes(Reader(g), "put")
               ELSE UNCHANGED <<holding, pc>>
    BY <1>2 DEF ReadLine, callVars
  <2>2. CASE d \in pending
    <3>1. /\ holding' = [holding EXCEPT ![g] = {d}]
          /\ pc' = [pc EXCEPT ![Reader(g)] = "put"]
      BY <2>1, <2>2 DEF Goes
    <3>2. /\ pc'[Reader(g)] = "put" /\ d \in holding'[g]
          /\ \A c \in Calls : pc'[c] = pc[c]
          /\ \A h \in Spawns \ {g} : pc'[Reader(h)] = pc[Reader(h)] /\ holding'[h] = holding[h]
      BY <1>0, <3>1
    <3>3. \A h \in Spawns : \A c, e \in holding'[h] : c = e
      BY <1>0, <3>1 DEF HandsInv
    <3>4. ASSUME NEW c \in Calls, pc'[c] = "wait"
          PROVE  \/ c \in inbox' \cup pipe'
                 \/ pc'[Reader(to[c])] = "put" /\ c \in holding'[to[c]]
                 \/ mailbox'[c] # "empty"
      <4>1. pc[c] = "wait" /\ to[c] \in Spawns
        BY <1>1, <3>2, <3>4
      <4>2. CASE c = d
        BY <2>1, <3>2, <4>2
      <4>3. CASE c # d
        BY <2>1, <3>2, <4>1, <4>3 DEF HandsInv, WaitersMissNoAnswer
      <4>4. QED
        BY <4>2, <4>3
    <3>5. QED
      BY <2>1, <3>3, <3>4 DEF HandsInv, WaitersMissNoAnswer
  <2>3. CASE d \notin pending
    BY <1>1, <2>1, <2>3 DEF HandsInv, WaitersMissNoAnswer
  <2>4. QED
    BY <2>2, <2>3
<1>3. CASE Put(g)
  <2>1. PICK d \in holding[g] : mailbox' = [mailbox EXCEPT ![d] = "answer"]
    BY <1>3 DEF Put
  <2>2. /\ holding' = [holding EXCEPT ![g] = {}] /\ pc' = [pc EXCEPT ![Reader(g)] = "read"]
        /\ UNCHANGED <<inbox, pipe, to>>
    BY <1>3 DEF Put, Goes, serverVars
  <2>3. /\ d \in Calls /\ mailbox'[d] # "empty" /\ \A c \in holding[g] : c = d
        /\ \A c \in Calls : pc'[c] = pc[c] /\ (mailbox[c] # "empty" => mailbox'[c] # "empty")
        /\ \A h \in Spawns \ {g} : pc'[Reader(h)] = pc[Reader(h)] /\ holding'[h] = holding[h]
        /\ holding'[g] = {}
    BY <1>0, <2>1, <2>2 DEF HandsInv
  <2>4. \A h \in Spawns : \A c, e \in holding'[h] : c = e
    BY <2>3 DEF HandsInv
  <2>5. ASSUME NEW c \in Calls, pc'[c] = "wait"
        PROVE  \/ c \in inbox \cup pipe
               \/ pc'[Reader(to[c])] = "put" /\ c \in holding'[to[c]]
               \/ mailbox'[c] # "empty"
    <3>1. pc[c] = "wait" /\ to[c] \in Spawns
      BY <1>1, <2>3, <2>5
    <3>2. CASE to[c] = g
      BY <2>3, <3>1, <3>2 DEF HandsInv, WaitersMissNoAnswer
    <3>3. CASE to[c] # g
      BY <2>3, <3>1, <3>3 DEF HandsInv, WaitersMissNoAnswer
    <3>4. QED
      BY <3>2, <3>3
  <2>6. QED
    BY <2>2, <2>4, <2>5 DEF HandsInv, WaitersMissNoAnswer
<1>4. CASE EndOfFile(g) \/ ReadFails(g) \/ Poll(g) \/ Crash(Reader(g)) \/ Crash(Monitor(g))
  <2>1. PICK t \in {Reader(g), Monitor(g)}, place \in Places :
          /\ pc[t] # "put" /\ Goes(t, place)
          /\ UNCHANGED <<to, inbox, pipe, holding>> /\ Fills
    <3>1. CASE EndOfFile(g) \/ ReadFails(g) \/ Poll(g)
      <4>1. PICK t \in {Reader(g), Monitor(g)} : MarkCrashed(t) /\ pc[t] # "put"
        BY <3>1 DEF EndOfFile, ReadFails, Poll
      <4>2. UNCHANGED <<to, inbox, pipe, holding, mailbox>>
        BY <3>1 DEF EndOfFile, ReadFails, Poll, serverVars
      <4>3. Watcher(t)
        BY Names DEF Watcher
      <4>4. PICK place \in {"done", "crash_read"} : Goes(t, place)
        BY <4>1, <4>3 DEF MarkCrashed, Return
      <4>5. place \in Places /\ Fills
        BY <4>2, CrashPlaces DEF CrashPc, Fills
      <4>6. QED
        BY <4>1, <4>2, <4>4, <4>5
    <3>2. ASSUME NEW t \in {Reader(g), Monitor(g)}, Crash(t)
          PROVE  \E place \in Places :
                   /\ pc[t] # "put" /\ Goes(t, place)
                   /\ UNCHANGED <<to, inbox, pipe, holding>> /\ Fills
      <4>1. PICK from, place \in Places : CrashStep(t, from, place)
        BY <1>0, <3>2, CrashMarks
      <4>2. pc[t] # "put" /\ Goes(t, place) /\ Fills /\ to' = to
        BY <4>1, CrashPlaces DEF CrashStep, Moves
      <4>3. UNCHANGED <<inbox, pipe, holding>>
        BY <3>2 DEF Crash, CrashRead, CrashSet, CrashTell, serverVars
      <4>4. QED
        BY <4>2, <4>3
    <3>3. QED
      BY <1>4, <3>1, <3>2
  <2>2. pc' = [pc EXCEPT ![t] = place]
    BY <2>1 DEF Goes
  <2>3. /\ \A c \in Calls : pc'[c] = pc[c]
        /\ \A h \in Spawns : pc[Reader(h)] = "put" => pc'[Reader(h)] = "put"
    BY <1>0, <2>1, <2>2
  <2>4. QED
    BY <1>1, <2>1, <2>3, HandsAreKept DEF Fills
<1>5. QED
  BY <1>2, <1>3, <1>4 DEF WatcherSteps

LEMMA CallHands ==
  ASSUME AppTypeOK, Invs, HandsInv, NEW c \in Calls, Ask(c) \/ CallContinues(c)
  PROVE  HandsInv'
<1>1. PICK from, place \in Places : CallStep(c, from, place)
  BY CallKinds
<1>2. /\ pc[c] = from /\ pc'[c] = place
      /\ \A o \in Calls \ {c} : pc'[o] = pc[o] /\ to'[o] = to[o]
      /\ \A h \in Spawns : pc'[Reader(h)] = pc[Reader(h)]
  <2>1. c \in Threads /\ pc[c] = from /\ Goes(c, place)
    BY <1>1 DEF CallStep, Moves
  <2>2. pc'[c] = place /\ \A o \in Threads \ {c} : pc'[o] = pc[o]
    BY <2>1, ThreadGoes
  <2>3. \A o \in Calls \ {c} : to'[o] = to[o]
    BY <1>1 DEF CallStep, AppTypeOK
  <2>4. QED
    BY <2>1, <2>2, <2>3, Names DEF Threads
<1>3. /\ inbox \subseteq inbox' /\ UNCHANGED <<pipe, holding>>
      /\ pc'[c] = "wait" => c \in inbox'
  <2>1. CASE WriteLine(c)
    <3>1. pc'[c] # "wait" \/ c \in inbox'
      <4>1. c \in Threads /\ Returns(c) # "wait"
        BY DEF Threads, Returns
      <4>2. pc' = [pc EXCEPT ![c] = "pop"] \/ pc' = [pc EXCEPT ![c] = "crash_read"] \/ c \in inbox'
        BY <2>1, Names DEF WriteLine, Return, MarkCrashed, Goes, Watcher
      <4>3. QED
        BY <4>1, <4>2 DEF AppTypeOK, Threads
    <3>2. QED
      BY <2>1, <3>1 DEF WriteLine
  <2>2. CASE Ask(c) \/ Register(c) \/ Capture(c) \/ Crash(c) \/ Take(c) \/ Timeout(c) \/ Pop(c)
    <3>1. UNCHANGED <<inbox, pipe, holding>>
      BY <2>2 DEF Ask, Register, Capture, Crash, CrashRead, CrashSet, CrashTell, Take,
                  Timeout, Pop, serverVars
    <3>2. \E p \in {"register", "capture", "pop", "write", "crash_set", "crash_tell", "ended"} :
             Goes(c, p)
      BY <2>2, Names DEF Ask, Register, Capture, Crash, CrashRead, CrashSet, CrashTell, Return,
                  Watcher, Take, Timeout, Pop
    <3>3. pc'[c] # "wait"
      BY <3>2 DEF Goes, AppTypeOK
    <3>4. QED
      BY <3>1, <3>3
  <2>3. QED
    BY <2>1, <2>2 DEF CallContinues
<1>4. \A o \in Calls \ {c} : mailbox[o] # "empty" => mailbox'[o] # "empty"
  BY <1>1 DEF CallStep
<1>5. \A o \in Calls : pc[o] = "wait" => to[o] \in Spawns
  BY Numbers DEF Invs, Unspawned
<1>6. QED
  BY <1>2, <1>3, <1>4, <1>5, HandsAreKept

LEMMA OwnerHands ==
  ASSUME AppTypeOK, Invs, HandsInv, OwnerSteps \/ Spawn \/ ServerSteps \/ UNCHANGED appVars
  PROVE  HandsInv'
<1>1. \A o \in Calls : pc[o] = "wait" => to[o] \in Spawns /\ to[o] <= spawned
  BY Numbers DEF Invs, Unspawned
<1>2. CASE OwnerSteps
  <2>1. UNCHANGED <<inbox, pipe, holding>>
    BY <1>2 DEF OwnerSteps, Start, SpawnFails, Initializing, Initialized, Ready, StopCall,
                RestartCall, Stop, Reap, Join, serverVars
  <2>2. UNCHANGED <<pc, to, mailbox>>
    BY <1>2, OwnerIsStill DEF StillStep
  <2>3. QED
    BY <2>1, <2>2, HandsAreKept
<1>3. CASE Spawn
  <2>1. UNCHANGED <<inbox, pipe, holding, to, mailbox>>
    BY <1>3 DEF Spawn, callVars
  <2>2. /\ spawned + 1 \in Spawns
        /\ \A h \in Spawns : h <= spawned => h # spawned + 1
    BY <1>3, Numbers DEF Spawn, Spawns
  <2>3. pc' = [pc EXCEPT ![Reader(spawned + 1)] = "read", ![Monitor(spawned + 1)] = "poll"]
    BY <1>3 DEF Spawn
  <2>4. pc \in [Threads -> Places]
    BY DEF AppTypeOK, Threads, Places
  <2>5. /\ \A o \in Calls : pc'[o] = pc[o]
        /\ \A h \in Spawns : h <= spawned => pc'[Reader(h)] = pc[Reader(h)]
    BY <2>2, <2>3, <2>4, Names DEF Threads
  <2>6. QED
    BY <1>1, <2>1, <2>5, HandsAreKept
<1>4. CASE ServerSteps
  <2>1. UNCHANGED <<pc, to, mailbox, holding>> /\ inbox \cup pipe \subseteq inbox' \cup pipe'
    BY <1>4 DEF ServerSteps, ServerDies, HolderEnds, ServerAnswers, callVars
  <2>2. QED
    BY <2>1, HandsAreKept
<1>5. CASE UNCHANGED appVars
  <2>1. UNCHANGED <<pc, to, mailbox, holding, inbox, pipe>>
    BY <1>5 DEF appVars, serverVars, callVars
  <2>2. QED
    BY <2>1, HandsAreKept
<1>6. QED
  BY <1>2, <1>3, <1>4, <1>5

-----------------------------------------------------------------------------
(* Types.                                                                  *)

Outcomes == {"none", "answer", "crash", "timeout", "unsent"}

LEMMA OwnerTypes ==
  ASSUME AppTypeOK, OwnerSteps \/ Spawn
  PROVE  AppTypeOK'
<1> DEFINE OwnerRun == [pc   : {"idle", "start", "spawn", "initializing", "await", "ready",
                                "stop", "reap", "join"},
                        next : {"idle", "start"}]
<1>0. owner \in OwnerRun /\ state \in Lifecycle
  BY DEF AppTypeOK
<1>1. owner' \in OwnerRun /\ state' \in Lifecycle
  <2>1. CASE Start \/ SpawnFails \/ Initializing \/ Initialized \/ Ready \/ Spawn
    BY <1>0, <2>1, OwnerMoves
       DEF Start, SpawnFails, Initializing, Initialized, Ready, Spawn, Lifecycle
  <2>2. CASE StopCall \/ RestartCall
    BY <1>0, <2>2 DEF StopCall, RestartCall, Lifecycle
  <2>3. CASE Stop \/ Reap \/ Join
    BY <1>0, <2>3, OwnerMoves DEF Stop, Reap, Join, Stopped, Lifecycle, OwnerGoes
  <2>4. QED
    BY <2>1, <2>2, <2>3 DEF OwnerSteps
<1>2. /\ process' \in 0..MaxSpawns /\ spawned' \in 0..MaxSpawns /\ closed' \in BOOLEAN
      /\ restarts' \in 0..MaxRestarts /\ alive' \subseteq Spawns /\ lingering' \subseteq Spawns
      /\ shut' \subseteq Spawns
  <2>1. CASE Spawn
    <3>1. spawned + 1 \in 0..MaxSpawns /\ spawned + 1 \in Spawns /\ 1..spawned \subseteq Spawns
      BY <2>1, Numbers DEF Spawn, Spawns
    <3>2. QED
      BY <2>1, <3>1 DEF Spawn, AppTypeOK
  <2>2. CASE RestartCall
    <3>1. restarts + 1 \in 0..MaxRestarts
      BY <2>2, BoundsAreNat DEF RestartCall, MayRestart, AppTypeOK
    <3>2. QED
      BY <2>2, <3>1 DEF RestartCall, AppTypeOK, serverVars
  <2>3. CASE Stop
    <3>1. process # 0 => process \in Spawns
      BY Numbers DEF Spawns
    <3>2. closed' \in BOOLEAN /\ shut' \subseteq Spawns
      BY <2>3, <3>1 DEF Stop, AppTypeOK
    <3>3. QED
      BY <2>3, <3>2 DEF Stop, AppTypeOK
  <2>4. CASE Reap
    BY <2>4 DEF Reap, Dies, AppTypeOK
  <2>5. CASE Join
    BY <2>5, Numbers DEF Join, AppTypeOK, serverVars
  <2>6. CASE Start \/ SpawnFails \/ Initializing \/ Initialized \/ Ready \/ StopCall
    BY <2>6 DEF Start, SpawnFails, Initializing, Initialized, Ready, StopCall, AppTypeOK,
                serverVars
  <2>7. QED
    BY <2>1, <2>2, <2>3, <2>4, <2>5, <2>6 DEF OwnerSteps
<1>3. pc' \in [Threads -> Places]
  <2>1. pc \in [Threads -> Places] /\ {"read", "poll"} \subseteq Places
    BY DEF AppTypeOK, Threads, Places, WatcherPc
  <2>2. CASE Spawn
    BY <2>1, <2>2 DEF Spawn
  <2>3. CASE OwnerSteps
    BY <2>1, <2>3, OwnerIsStill DEF StillStep
  <2>4. QED
    BY <2>2, <2>3
<1>4. held' \subseteq Spawns /\ UNCHANGED <<inbox, pipe, callVars, holding>>
  <2>1. CASE Reap
    BY <2>1, Numbers DEF Reap, Dies, AppTypeOK
  <2>2. CASE Spawn \/ Stop
    BY <2>2 DEF Spawn, Stop, AppTypeOK
  <2>3. CASE \/ Start \/ SpawnFails \/ Initializing \/ Initialized \/ Ready \/ StopCall
             \/ RestartCall \/ Join
    BY <2>3 DEF Start, SpawnFails, Initializing, Initialized, Ready, StopCall, RestartCall,
                Join, AppTypeOK, serverVars
  <2>4. QED
    BY <2>1, <2>2, <2>3 DEF OwnerSteps
<1>5. QED
  BY <1>1, <1>2, <1>3, <1>4 DEF AppTypeOK, callVars, Threads, Places

LEMMA CrashTypes ==
  ASSUME AppTypeOK, NEW t \in Threads, Crash(t)
  PROVE  AppTypeOK'
<1>1. /\ state \in Lifecycle /\ "CRASHED" \in Lifecycle
      /\ mailbox \in [Calls -> {"empty", "answer", "crash"}]
      /\ outcome \in [Calls -> Outcomes]
  BY DEF AppTypeOK, Lifecycle, Outcomes
<1>2. PICK from, place \in Places : CrashStep(t, from, place)
  BY CrashMarks
<1>3. pc' \in [Threads -> Places]
  BY <1>2, ThreadGoes DEF CrashStep, Moves
<1>4. state' \in Lifecycle
  BY <1>1, <1>2 DEF CrashStep, SetsState
<1>5. outcome' \in [Calls -> Outcomes]
  BY <1>1 DEF Crash, CrashRead, CrashSet, CrashTell, Return, Outcomes, callVars
<1>6. mailbox' \in [Calls -> {"empty", "answer", "crash"}]
  BY <1>1 DEF Crash, CrashRead, CrashSet, CrashTell, Told, callVars
<1>7. UNCHANGED <<ownerVars, serverVars, to, pending, before, holding>>
  BY DEF Crash, CrashRead, CrashSet, CrashTell, callVars
<1>8. QED
  BY <1>3, <1>4, <1>5, <1>6, <1>7
     DEF AppTypeOK, Threads, Places, Outcomes, ownerVars, serverVars

LEMMA WatcherTypes ==
  ASSUME AppTypeOK, NEW g \in Spawns, WatcherSteps(g)
  PROVE  AppTypeOK'
<1>0. Reader(g) \in Threads /\ Monitor(g) \in Threads
  BY Names DEF Threads
<1>1. CASE ReadLine(g)
  <2>1. pc' \in [Threads -> Places]
    BY <1>1 DEF ReadLine, Goes, AppTypeOK, Threads, Places, WatcherPc
  <2>2. holding' \in [Spawns -> SUBSET Calls] /\ pipe' \subseteq Calls
    BY <1>1 DEF ReadLine, AppTypeOK
  <2>3. UNCHANGED <<state, ownerVars, alive, shut, held, inbox, callVars>>
    BY <1>1 DEF ReadLine
  <2>4. QED
    BY <2>1, <2>2, <2>3 DEF AppTypeOK, Threads, Places, ownerVars, callVars
<1>2. CASE Put(g)
  <2>1. pc' \in [Threads -> Places]
    BY <1>2 DEF Put, Goes, AppTypeOK, Threads, Places, WatcherPc
  <2>2. /\ holding' \in [Spawns -> SUBSET Calls]
        /\ mailbox' \in [Calls -> {"empty", "answer", "crash"}]
    BY <1>2 DEF Put, AppTypeOK
  <2>3. UNCHANGED <<state, ownerVars, serverVars, to, pending, outcome, before>>
    BY <1>2 DEF Put
  <2>4. QED
    BY <2>1, <2>2, <2>3 DEF AppTypeOK, Threads, Places, ownerVars, serverVars
<1>3. CASE EndOfFile(g) \/ ReadFails(g) \/ Poll(g)
  <2>1. PICK t \in {Reader(g), Monitor(g)} : MarkCrashed(t)
    BY <1>3 DEF EndOfFile, ReadFails, Poll
  <2>2. Watcher(t) /\ t \in Threads
    BY <1>0, Names DEF Watcher
  <2>3. PICK place \in {"done", "crash_read"} : Goes(t, place) /\ outcome' = outcome
    BY <2>1, <2>2 DEF MarkCrashed, Return
  <2>4. place \in Places
    BY <2>3, CrashPlaces DEF CrashPc
  <2>5. pc' \in [Threads -> Places]
    BY <2>2, <2>3, <2>4, ThreadGoes
  <2>6. UNCHANGED <<state, ownerVars, serverVars, to, pending, mailbox, before, holding>>
    BY <1>3 DEF EndOfFile, ReadFails, Poll
  <2>7. QED
    BY <2>3, <2>5, <2>6 DEF AppTypeOK, Threads, Places, ownerVars, serverVars
<1>4. QED
  BY <1>0, <1>1, <1>2, <1>3, CrashTypes DEF WatcherSteps

LEMMA CallTypes ==
  ASSUME AppTypeOK, NEW c \in Calls, Ask(c) \/ CallContinues(c)
  PROVE  AppTypeOK'
<1>0. c \in Threads
  BY DEF Threads
<1>1. CASE Crash(c)
  BY <1>0, <1>1, CrashTypes
<1>2. CASE ~Crash(c)
  <2>1. PICK from, place \in Places : CallStep(c, from, place)
    BY CallKinds
  <2>2. pc' \in [Threads -> Places]
    BY <2>1, ThreadGoes DEF CallStep, Moves
  <2> DEFINE Step == \/ Ask(c) \/ Register(c) \/ Capture(c) \/ WriteLine(c) \/ Take(c)
                     \/ Timeout(c) \/ Pop(c)
  <2>3. Step
    BY <1>2 DEF CallContinues
  <2>4. to' \in [Calls -> 0..MaxSpawns] /\ pending' \subseteq Calls
    BY <2>1 DEF CallStep, AppTypeOK
  <2>5. before' \in [Calls -> SUBSET Spawns] /\ inbox' \subseteq Calls
    BY <2>3 DEF Ask, Register, Capture, WriteLine, Take, Timeout, Pop, AppTypeOK, callVars,
                serverVars
  <2>6. mailbox' \in [Calls -> {"empty", "answer", "crash"}]
    BY <2>3 DEF Ask, Register, Capture, WriteLine, Take, Timeout, Pop, AppTypeOK, callVars
  <2>7. outcome' \in [Calls -> Outcomes]
    <3>1. outcome \in [Calls -> Outcomes] /\ mailbox \in [Calls -> {"empty", "answer", "crash"}]
      BY DEF AppTypeOK, Outcomes
    <3>2. QED
      BY <2>3, <3>1 DEF Ask, Register, Capture, WriteLine, MarkCrashed, Return, Take, Timeout,
                        Pop, Outcomes, callVars
  <2>8. UNCHANGED <<state, ownerVars, alive, shut, held, pipe, holding>>
    BY <2>3 DEF Ask, Register, Capture, WriteLine, Take, Timeout, Pop, serverVars
  <2>9. QED
    BY <2>2, <2>4, <2>5, <2>6, <2>7, <2>8 DEF AppTypeOK, Threads, Places, Outcomes, ownerVars
<1>3. QED
  BY <1>1, <1>2

LEMMA ServerTypes ==
  ASSUME AppTypeOK, ServerSteps
  PROVE  AppTypeOK'
<1>1. /\ alive' \subseteq Spawns /\ held' \subseteq Spawns
      /\ inbox' \subseteq Calls /\ pipe' \subseteq Calls
  BY DEF ServerSteps, ServerDies, Dies, HolderEnds, ServerAnswers, AppTypeOK
<1>2. UNCHANGED <<state, ownerVars, shut, pc, callVars, holding>>
  BY DEF ServerSteps, ServerDies, Dies, HolderEnds, ServerAnswers
<1>3. QED
  BY <1>1, <1>2 DEF AppTypeOK, ownerVars, callVars

-----------------------------------------------------------------------------
LEMMA AppInvStep == AppInv /\ [AppNext]_appVars => AppInv'
<1> SUFFICES ASSUME AppInv, [AppNext]_appVars
             PROVE  AppInv'
  OBVIOUS
<1>0. AppTypeOK /\ Invs /\ HandsInv
  BY DEF AppInv
<1>1. CASE OwnerSteps
  <2>1. OwnerInv' /\ Rest'
    BY <1>0, <1>1, StartInvs, CallsInvs, StopInvs, ReapInvs, JoinInvs DEF OwnerSteps
  <2>2. Invs'
    BY <1>0, <1>1, <2>1, OwnerIsStill, StillInvs DEF Invs, Rest
  <2>3. QED
    BY <1>0, <1>1, <2>2, OwnerTypes, OwnerHands DEF AppInv
<1>2. CASE Spawn
  BY <1>0, <1>2, SpawnInvs, OwnerTypes, OwnerHands DEF AppInv
<1>3. CASE ServerSteps
  <2>1. Invs'
    BY <1>0, <1>3, ServerInvs, StillInvs DEF Invs, Rest
  <2>2. QED
    BY <1>0, <1>3, <2>1, ServerTypes, OwnerHands DEF AppInv
<1>4. ASSUME NEW g \in Spawns, WatcherSteps(g)
      PROVE  AppInv'
  <2>1. Invs'
    BY <1>0, <1>4, WatcherKinds, WatcherInvs
  <2>2. QED
    BY <1>0, <1>4, <2>1, WatcherTypes, WatcherHands DEF AppInv
<1>5. ASSUME NEW c \in Calls, Ask(c) \/ CallContinues(c)
      PROVE  AppInv'
  <2>1. Invs'
    BY <1>0, <1>5, CallKinds, CallInvs
  <2>2. QED
    BY <1>0, <1>5, <2>1, CallTypes, CallHands DEF AppInv
<1>6. CASE UNCHANGED appVars
  <2>1. AppTypeOK'
    BY <1>0, <1>6 DEF AppTypeOK, appVars, ownerVars, serverVars, callVars
  <2>2. StillStep
    BY <1>6 DEF StillStep, appVars, ownerVars, serverVars, callVars
  <2>3. UNCHANGED <<state, owner, process, spawned, closed, lingering, alive, shut, pc, to,
                    outcome>>
    BY <1>6 DEF appVars, ownerVars, serverVars, callVars
  <2>4. OwnerInv' /\ NothingLeft' /\ StopJoins' /\ StraysInv'
    BY <1>0, <2>3 DEF Invs, OwnerInv, NothingLeft, StopJoins, StraysInv, NextMayStart, Accused
  <2>5. QED
    BY <1>0, <1>6, <2>1, <2>2, <2>4, StillInvs, OwnerHands DEF AppInv, Invs
<1>7. QED
  BY <1>1, <1>2, <1>3, <1>4, <1>5, <1>6
     DEF AppNext, OwnerCalls, OwnerContinues, OwnerSteps, ServerSteps

LEMMA AppInvInit == AppInit => AppInv
<1> SUFFICES ASSUME AppInit
             PROVE  AppInv
  OBVIOUS
<1>1. /\ \A g \in Spawns : pc[Reader(g)] = "none" /\ pc[Monitor(g)] = "none"
      /\ \A c \in Calls : pc[c] = "idle" /\ to[c] = 0
  BY Names DEF AppInit
<1>2. AppTypeOK
  <2>1. 0 \in 0..MaxSpawns /\ 0 \in 0..MaxRestarts
    BY BoundsAreNat
  <2>2. /\ pc \in [Watchers \cup Calls -> WatcherPc \cup CallPc]
        /\ to \in [Calls -> 0..MaxSpawns]
        /\ holding \in [Spawns -> SUBSET Calls]
        /\ before \in [Calls -> SUBSET Spawns]
        /\ mailbox \in [Calls -> {"empty", "answer", "crash"}]
        /\ outcome \in [Calls -> {"none", "answer", "crash", "timeout", "unsent"}]
    BY <2>1 DEF AppInit, WatcherPc, CallPc
  <2>3. QED
    BY <2>1, <2>2 DEF AppInit, AppTypeOK, Lifecycle
<1>3. OwnerInv /\ Unspawned /\ MonitorIsRight
  <2>1. OwnerInv
    BY DEF AppInit, OwnerInv
  <2>2. Unspawned
    <3>1. \A c \in Calls : pc[c] \notin {"write", "wait"} \cup CrashPc
      BY <1>1, CrashPlaces
    <3>2. spawned = 0 /\ alive = {} /\ shut = {}
      BY DEF AppInit
    <3>3. \A c \in Calls : to[c] <= spawned
      BY <1>1, <3>2
    <3>4. QED
      BY <1>1, <3>1, <3>2, <3>3 DEF Unspawned
  <2>3. MonitorIsRight
    BY <1>1, CrashPlaces DEF MonitorIsRight
  <2>4. QED
    BY <2>1, <2>2, <2>3
<1>4. StopJoins /\ TableInv /\ StraysInv
  BY <1>1 DEF AppInit, StopJoins, TableInv, StraysInv
<1>5. NothingLeft /\ AllAreTold
  BY <1>1 DEF AppInit, NothingLeft, AllAreTold, Expecting, Spawns
<1>6. HandsInv
  BY <1>1 DEF AppInit, HandsInv, WaitersMissNoAnswer
<1>7. QED
  BY <1>2, <1>3, <1>4, <1>5, <1>6 DEF AppInv, Invs

THEOREM AppInvariant == AppSpec => []AppInv
BY AppInvInit, AppInvStep, PTL DEF AppSpec

(* app_server_process.py: the fields of the object and its threads keep    *)
(* their types, for any number of spawns and restarts within the bounds.   *)
THEOREM AppTypesAreKept == AppSpec => []AppTypeOK
<1>1. AppInv => AppTypeOK
  BY DEF AppInv
<1>2. QED
  BY <1>1, AppInvariant, PTL

(* app_server_process.py:request and _reader_loop: while a caller waits,   *)
(* its answer is still to come, on its way, or in its mailbox.             *)
THEOREM NoWaiterIsPassedBy == AppSpec => []WaitersMissNoAnswer
<1>1. AppInv => WaitersMissNoAnswer
  BY DEF AppInv, HandsInv
<1>2. QED
  BY <1>1, AppInvariant, PTL

(* app_server_process.py:start and stop: a server that runs beside a later *)
(* one was not stopped, and its reader or a write to it took it for        *)
(* crashed, unless something of a process before it was left behind.       *)
THEOREM StraysAreAccused == AppSpec => []StraysWereAccused
<1>1. ASSUME AppInv, NEW g \in alive, g < spawned
      PROVE  g \notin shut /\ ((\A h \in lingering : h >= g) => Accused(g))
  <2>1. StraysInv /\ process \in {0, spawned} /\ g # 0
    BY <1>1, Numbers DEF AppInv, Invs, OwnerInv, AppTypeOK
  <2>2. process # g
    BY <1>1, <2>1, Numbers DEF AppInv, AppTypeOK
  <2>3. QED
    BY <1>1, <2>1, <2>2 DEF StraysInv
<1>2. AppInv => StraysWereAccused
  BY <1>1 DEF StraysWereAccused
<1>3. QED
  BY <1>2, AppInvariant, PTL

(* app_server_process.py:_mark_crashed: what a thread that watches a       *)
(* process reports, when it ends, reaches every request that was in the    *)
(* table and still waits.                                                  *)
THEOREM WaitersAreTold == AppSpec => []CrashReachesWaiters
<1>1. ASSUME AppInv, NEW c \in Calls, pc[c] = "wait", to[c] \notin shut \cup before[c],
             to[c] = spawned \/ lingering = {}, Reported(to[c])
      PROVE  mailbox[c] # "empty"
  <2>1. AllAreTold /\ to[c] \in Spawns
    BY <1>1, Numbers DEF AppInv, Invs, Unspawned
  <2>2. pc[c] \in Expecting
    BY <1>1 DEF Expecting
  <2>3. QED
    BY <1>1, <2>1, <2>2 DEF AllAreTold
<1>2. AppInv => CrashReachesWaiters
  BY <1>1 DEF CrashReachesWaiters
<1>3. QED
  BY <1>2, AppInvariant, PTL

(* app_server_process.py:_mark_crashed and stop: unless something was left *)
(* behind, a state becomes CRASHED by the reader of the current process,   *)
(* by its monitor once it has ended, or by a call that could not write.    *)
THEOREM CrashIsTheCurrentOnes == AppSpec => CrashIsOfTheCurrent
<1> DEFINE Theirs == \/ process # 0 /\ pc[Reader(process)] = "crash_set"
                     \/ process \in Spawns \ alive /\ pc[Monitor(process)] = "crash_set"
                     \/ \E c \in Calls : pc[c] = "crash_set"
<1>1. ASSUME AppInv, [AppNext]_appVars, state # "CRASHED", state' = "CRASHED", lingering = {}
      PROVE  Theirs
  <2>0. AppTypeOK /\ Invs
    BY <1>1 DEF AppInv
  <2>1. PICK t \in Threads : Crash(t)
    <3>1. CASE OwnerSteps \/ Spawn
      BY <1>1, <3>1
         DEF OwnerSteps, Start, SpawnFails, Initializing, Initialized, Ready, StopCall,
             RestartCall, Stop, Stopped, Reap, Join, Spawn
    <3>2. CASE ServerSteps \/ UNCHANGED appVars
      BY <1>1, <3>2 DEF ServerSteps, ServerDies, HolderEnds, ServerAnswers, appVars
    <3>3. ASSUME NEW g \in Spawns, WatcherSteps(g)
          PROVE  Crash(Reader(g)) \/ Crash(Monitor(g))
      BY <1>1, <3>3 DEF WatcherSteps, ReadLine, Put, EndOfFile, ReadFails, Poll
    <3>4. ASSUME NEW c \in Calls, Ask(c) \/ CallContinues(c)
          PROVE  Crash(c)
      BY <1>1, <3>4
         DEF CallContinues, Ask, Register, Capture, WriteLine, Take, Timeout, Pop
    <3>5. QED
      BY <1>1, <3>1, <3>2, <3>3, <3>4, Names
         DEF AppNext, OwnerCalls, OwnerContinues, OwnerSteps, ServerSteps, Threads
  <2>2. pc[t] = "crash_set" /\ "crash_set" \in CrashPc
    BY <1>1, <2>1 DEF Crash, CrashRead, CrashSet, CrashTell, CrashPc
  <2>3. CASE t \in Calls
    BY <2>2, <2>3
  <2>4. ASSUME NEW g \in Spawns, t \in {Reader(g), Monitor(g)}
        PROVE  Theirs
    <3>1. ~(g > spawned) /\ ~(g < spawned)
      <4>1. pc[Reader(g)] \notin {"none", "done"} \/ pc[Monitor(g)] \notin {"none", "done"}
        BY <2>2, <2>4
      <4>2. ~(g > spawned)
        BY <2>0, <2>2, <2>4, CrashPlaces DEF Invs, Unspawned
      <4>3. ~(g < spawned)
        BY <1>1, <2>0, <2>2, <2>4 DEF Invs, NothingLeft
      <4>4. QED
        BY <4>2, <4>3
    <3>2. g = spawned /\ spawned # 0
      BY <2>0, <3>1, Numbers
    <3>3. process # 0
      BY <2>0, <2>2, <2>4, <3>2 DEF Invs, StopJoins
    <3>4. process = g
      BY <2>0, <3>2, <3>3 DEF Invs, OwnerInv
    <3>5. CASE t = Reader(g)
      BY <2>2, <3>3, <3>4, <3>5
    <3>6. CASE t = Monitor(g)
      BY <2>0, <2>2, <3>4, <3>6 DEF Invs, MonitorIsRight
    <3>7. QED
      BY <2>4, <3>5, <3>6
  <2>5. QED
    BY <2>3, <2>4, Names DEF Threads
<1>2. AppInv /\ [AppNext]_appVars =>
        [state # "CRASHED" /\ state' = "CRASHED" /\ lingering = {} => Theirs]_appVars
  BY <1>1
<1>3. QED
  BY <1>2, AppInvariant, PTL DEF AppSpec, CrashIsOfTheCurrent
=============================================================================
