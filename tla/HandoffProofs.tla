---------------------------- MODULE HandoffProofs ----------------------------
(***************************************************************************)
(* Proofs about Handoff, for any number of turns and threads, any buffer   *)
(* and any number of unrelated notifications: types, bindings, ends and    *)
(* markers that are not missed, and no continuation in a running turn.     *)
(***************************************************************************)
EXTENDS Handoff, TLAPS

Place == {"none", "built", "search", "closed", "short", "record", "close", "interrupt", "raced",
          "wait", "update", "handed", "continue", "route", "done", "raised"}

(* The places of a controller whose handoff is in the registry.            *)
Recorded == {"close", "interrupt", "raced", "wait", "update", "handed", "continue", "route"}

Binding == [turn : Turns, phase : Phase]

WorldTypeOK ==
  /\ turn     \in [Turns -> {"none", "active", "closing", "closed"}]
  /\ launcher \in [Turns -> {"none", "polling", "detach", "print", "returned", "killed"}]
  /\ job      \in [Turns -> {"none", "running", "result", "lost"}]
  /\ marked   \subseteq Turns
  /\ others   \in [Threads -> 0..MaxOthers]
  /\ lost     \subseteq Threads

NotesTypeOK ==
  /\ notes \in [Threads -> Seq(Note)]
  /\ \A h \in Threads : Len(notes[h]) <= MaxEvents

ControlTypeOK ==
  /\ ctl      \in [Turns -> Controller]
  /\ registry \in [Threads -> [Turns -> Binding \cup {None}]]
  /\ news     \subseteq Turns

LEMMA TypeParts == HandoffTypeOK <=> WorldTypeOK /\ NotesTypeOK /\ ControlTypeOK
BY DEF HandoffTypeOK, WorldTypeOK, NotesTypeOK, ControlTypeOK, Binding

(* What a controller knows from where it is.                               *)
HoldsJob(u) ==
  /\ ctl[u].pc \in Recorded \cup {"record"} => ctl[u].job \in Turns
  /\ ctl[u].pc \in Recorded => registry[ThreadOf[u]][ctl[u].job] \in Binding
  /\ ctl[u].pc \in {"wait", "update"} => ctl[u].phase \in Phase

TypeInv ==
  /\ WorldTypeOK /\ NotesTypeOK /\ ControlTypeOK
  /\ \A u \in Turns : HoldsJob(u)

-----------------------------------------------------------------------------
(* What the steps do to a controller.                                      *)

(* Only the controller of u changes, and what it knew of older jobs stays. *)
Moved(u) ==
  /\ ctl' \in [Turns -> Controller]
  /\ \A v \in Turns \ {u} : ctl'[v] = ctl[v]
  /\ ctl'[u].known = ctl[u].known

LEMMA GoesMoves ==
  ASSUME ControlTypeOK, NEW u \in Turns, NEW place \in Place, Goes(u, place)
  PROVE  /\ Moved(u)
         /\ ctl'[u].pc = place /\ ctl'[u].job = ctl[u].job
         /\ ctl'[u].phase = ctl[u].phase /\ ctl'[u].index = ctl[u].index
BY DEF ControlTypeOK, Controller, Place, Goes, Moved

(* The shapes of a change of the controller of u.                          *)
LEMMA RecordMoves ==
  ASSUME ControlTypeOK, NEW u \in Turns, NEW r \in Controller, r.known = ctl[u].known,
         ctl' = [ctl EXCEPT ![u] = r]
  PROVE  Moved(u) /\ ctl'[u] = r
BY DEF ControlTypeOK, Moved

LEMMA FoundMoves ==
  ASSUME ControlTypeOK, NEW u \in Turns, NEW j \in Turns, Found(u, j)
  PROVE  Moved(u) /\ ctl'[u].pc = "record" /\ ctl'[u].job = j
<1> DEFINE r == [ctl[u] EXCEPT !.pc = "record", !.job = j, !.phase = "HANDOFF_REQUESTED"]
<1>1. ctl[u] \in Controller
  BY DEF ControlTypeOK
<1>2. r \in Controller
  BY <1>1 DEF Controller, Phase
<1>3. r.known = ctl[u].known /\ r.pc = "record" /\ r.job = j
  BY <1>1 DEF Controller
<1>4. ctl' = [ctl EXCEPT ![u] = r]
  BY DEF Found, ControlTypeOK
<1> HIDE DEF r
<1> QED
  BY <1>2, <1>3, <1>4, RecordMoves

LEMMA PhaseMoves ==
  ASSUME ControlTypeOK, NEW u \in Turns, NEW place \in Place, NEW phase \in Phase,
         ctl' = [ctl EXCEPT ![u].pc = place, ![u].phase = phase]
  PROVE  /\ Moved(u) /\ ctl'[u].pc = place /\ ctl'[u].job = ctl[u].job
         /\ ctl'[u].phase = phase
<1> DEFINE r == [ctl[u] EXCEPT !.pc = place, !.phase = phase]
<1>1. ctl[u] \in Controller
  BY DEF ControlTypeOK
<1>2. r \in Controller
  BY <1>1 DEF Controller, Place
<1>3. r.known = ctl[u].known /\ r.pc = place /\ r.job = ctl[u].job /\ r.phase = phase
  BY <1>1 DEF Controller
<1>4. ctl' = [ctl EXCEPT ![u] = r]
  BY DEF ControlTypeOK
<1> HIDE DEF r
<1> QED
  BY <1>2, <1>3, <1>4, RecordMoves

LEMMA WaitMoves ==
  ASSUME ControlTypeOK, NEW u \in Turns, NEW phase \in Phase,
         ctl' = [ctl EXCEPT ![u].pc = "wait", ![u].phase = phase, ![u].index = 0]
  PROVE  /\ Moved(u) /\ ctl'[u].pc = "wait" /\ ctl'[u].job = ctl[u].job
         /\ ctl'[u].phase = phase /\ ctl'[u].index = 0
<1> DEFINE r == [ctl[u] EXCEPT !.pc = "wait", !.phase = phase, !.index = 0]
<1>1. ctl[u] \in Controller /\ 0 \in 0..MaxEvents
  BY LengthsAreNat DEF ControlTypeOK
<1>2. r \in Controller
  BY <1>1 DEF Controller
<1>3. /\ r.known = ctl[u].known /\ r.pc = "wait" /\ r.job = ctl[u].job /\ r.phase = phase
      /\ r.index = 0
  BY <1>1 DEF Controller
<1>4. ctl' = [ctl EXCEPT ![u] = r]
  BY DEF ControlTypeOK
<1> HIDE DEF r
<1> QED
  BY <1>2, <1>3, <1>4, RecordMoves

LEMMA IndexMoves ==
  ASSUME ControlTypeOK, NEW u \in Turns, NEW n \in 0..MaxEvents,
         ctl' = [ctl EXCEPT ![u].index = n]
  PROVE  /\ Moved(u) /\ ctl'[u].pc = ctl[u].pc /\ ctl'[u].job = ctl[u].job
         /\ ctl'[u].phase = ctl[u].phase /\ ctl'[u].index = n
BY DEF ControlTypeOK, Controller, Moved

(* A step of the controller of u keeps what the others hold, if it keeps   *)
(* the bindings there are.                                                 *)
LEMMA OthersHold ==
  ASSUME TypeInv, NEW u \in Turns, Moved(u), HoldsJob(u)',
         \A h \in Threads, j \in Turns : registry[h][j] \in Binding => registry'[h][j] \in Binding
  PROVE  \A v \in Turns : HoldsJob(v)'
<1> SUFFICES ASSUME NEW v \in Turns, v # u PROVE HoldsJob(v)'
  OBVIOUS
<1>1. HoldsJob(v) /\ ctl'[v] = ctl[v] /\ ThreadOf[v] \in Threads
  BY TurnsHaveThreads DEF TypeInv, Moved
<1> QED
  BY <1>1 DEF HoldsJob, Recorded

LEMMA UpdateKeeps ==
  ASSUME ControlTypeOK, NEW u \in Turns, NEW phase \in Phase, ctl[u].job \in Turns,
         registry[ThreadOf[u]][ctl[u].job] \in Binding, UpdateHandoff(u, phase)
  PROVE  /\ registry' \in [Threads -> [Turns -> Binding \cup {None}]]
         /\ \A h \in Threads, j \in Turns :
              registry[h][j] \in Binding => registry'[h][j] \in Binding
         /\ \A h \in Threads, j \in Turns :
              registry[h][j] # None => registry'[h][j].turn = registry[h][j].turn
<1> DEFINE h0 == ThreadOf[u]
           j0 == ctl[u].job
           new == [registry[h0][j0] EXCEPT !.phase = phase]
<1>1. h0 \in Threads /\ j0 \in Turns
  BY TurnsHaveThreads
<1>2. new \in Binding /\ new.turn = registry[h0][j0].turn
  BY DEF Binding
<1>3. registry' = [registry EXCEPT ![h0] = [registry[h0] EXCEPT ![j0] = new]]
  BY <1>1 DEF UpdateHandoff, ControlTypeOK
<1>4. registry \in [Threads -> [Turns -> Binding \cup {None}]]
  BY DEF ControlTypeOK
<1> HIDE DEF new, h0, j0
<1>5. registry'[h0] = [registry[h0] EXCEPT ![j0] = new]
  BY <1>1, <1>3, <1>4
<1>6. \A h \in Threads \ {h0} : registry'[h] = registry[h]
  BY <1>3, <1>4
<1>7. registry'[h0][j0] = new /\ \A j \in Turns \ {j0} : registry'[h0][j] = registry[h0][j]
  BY <1>1, <1>4, <1>5
<1>8. registry' \in [Threads -> [Turns -> Binding \cup {None}]]
  BY <1>1, <1>2, <1>3, <1>4
<1> QED
  BY <1>2, <1>6, <1>7, <1>8

-----------------------------------------------------------------------------
(* Types.                                                                  *)

LEMMA NotifyType ==
  ASSUME NotesTypeOK, NEW h \in Threads, NEW kind, NEW u, [kind |-> kind, turn |-> u] \in Note,
         Notify(h, kind, u)
  PROVE  /\ NotesTypeOK'
         /\ lost' \in {lost, lost \cup {h}}
<1> DEFINE note == [kind |-> kind, turn |-> u]
           kept == IF Len(notes[h]) = MaxEvents THEN Tail(notes[h]) ELSE notes[h]
<1>1. notes[h] \in Seq(Note) /\ Len(notes[h]) \in Nat /\ Len(notes[h]) <= MaxEvents
  BY DEF NotesTypeOK
<1>2. MaxEvents \in Nat /\ MaxEvents > 0
  BY LengthsAreNat
<1>3. kept \in Seq(Note) /\ Len(kept) \in Nat /\ Len(kept) < MaxEvents
  <2>1. CASE Len(notes[h]) = MaxEvents
    <3>1. notes[h] # <<>>
      BY <1>1, <1>2, <2>1
    <3>2. Tail(notes[h]) \in Seq(Note) /\ Len(Tail(notes[h])) = Len(notes[h]) - 1
      BY <1>1, <3>1
    <3> QED
      BY <1>1, <1>2, <2>1, <3>2
  <2>2. CASE Len(notes[h]) # MaxEvents
    BY <1>1, <1>2, <2>2
  <2> QED
    BY <2>1, <2>2
<1>4. notes' = [notes EXCEPT ![h] = Append(kept, note)]
  BY DEF Notify
<1> HIDE DEF kept, note
<1>5. note \in Note
  BY DEF note
<1>6. Append(kept, note) \in Seq(Note) /\ Len(Append(kept, note)) <= MaxEvents
  BY <1>2, <1>3, <1>5
<1>7. NotesTypeOK'
  BY <1>4, <1>6 DEF NotesTypeOK
<1> QED
  BY <1>7 DEF Notify

LEMMA NoteTypes ==
  ASSUME NEW u \in Turns
  PROVE  /\ [kind |-> "marker", turn |-> u] \in Note /\ [kind |-> "completed", turn |-> u] \in Note
         /\ [kind |-> "other", turn |-> None] \in Note
BY DEF Note

LEMMA InitTypes == HandoffInit => TypeInv
<1> SUFFICES ASSUME HandoffInit PROVE TypeInv
  OBVIOUS
<1>1. WorldTypeOK
  BY LengthsAreNat DEF HandoffInit, WorldTypeOK
<1>2. NotesTypeOK
  <2>1. <<>> \in Seq(Note) /\ Len(<<>>) = 0
    OBVIOUS
  <2> QED
    BY <2>1, LengthsAreNat DEF HandoffInit, NotesTypeOK
<1>3. ControlTypeOK
  <2>1. [pc |-> "none", known |-> {}, job |-> None, phase |-> None, index |-> 0] \in Controller
    BY LengthsAreNat DEF Controller
  <2> QED
    BY <2>1 DEF HandoffInit, ControlTypeOK
<1>4. \A u \in Turns : HoldsJob(u)
  BY DEF HandoffInit, HoldsJob, Recorded
<1> QED
  BY <1>1, <1>2, <1>3, <1>4 DEF TypeInv

LEMMA PrepareMoves ==
  ASSUME ControlTypeOK, NEW u \in Turns, Prepare(u)
  PROVE  /\ ctl' \in [Turns -> Controller]
         /\ \A v \in Turns \ {u} : ctl'[v] = ctl[v]
         /\ Build(u) => ctl'[u].pc = "built" /\ ctl'[u].known = {v \in Turns : job[v] # "none"}
         /\ StartTurn(u) => ctl'[u].pc = "search" /\ ctl'[u].known = ctl[u].known
<1>1. ctl[u] \in Controller
  BY DEF ControlTypeOK
<1>2. CASE Build(u)
  <2> DEFINE r == [ctl[u] EXCEPT !.pc = "built", !.known = {v \in Turns : job[v] # "none"}]
  <2>1. r \in Controller
    BY <1>1 DEF Controller
  <2>2. r.pc = "built" /\ r.known = {v \in Turns : job[v] # "none"}
    BY <1>1 DEF Controller
  <2>3. ctl' = [ctl EXCEPT ![u] = r] /\ ~StartTurn(u)
    BY <1>2 DEF Build, StartTurn, ControlTypeOK
  <2> HIDE DEF r
  <2> QED
    BY <2>1, <2>2, <2>3 DEF ControlTypeOK
<1>3. CASE StartTurn(u)
  <2>1. Goes(u, "search") /\ ~Build(u)
    BY <1>3 DEF StartTurn, Build, Goes
  <2> QED
    BY <2>1, GoesMoves DEF Moved, Place
<1> QED
  BY <1>2, <1>3 DEF Prepare

LEMMA PrepareTypes ==
  ASSUME TypeInv, NEW u \in Turns, Prepare(u)
  PROVE  TypeInv'
<1> USE DEF TypeInv
<1>1. WorldTypeOK'
  BY DEF Prepare, Build, StartTurn, worldVars, WorldTypeOK
<1>2. NotesTypeOK'
  BY DEF Prepare, Build, StartTurn, worldVars, NotesTypeOK
<1>3. /\ ctl' \in [Turns -> Controller] /\ \A v \in Turns \ {u} : ctl'[v] = ctl[v]
      /\ ctl'[u].pc \in {"built", "search"}
  BY PrepareMoves DEF Prepare
<1>4. registry' = registry /\ news' = news
  BY DEF Prepare, Build, StartTurn
<1>5. ControlTypeOK'
  BY <1>3, <1>4 DEF ControlTypeOK
<1>6. \A v \in Turns : HoldsJob(v)'
  BY <1>3, <1>4 DEF HoldsJob, Recorded
<1> QED
  BY <1>1, <1>2, <1>5, <1>6

(* What a step of the world, once the turn is under way, changes.           *)
LEMMA WorldTypes ==
  ASSUME TypeInv, NEW u \in Turns, World(u), ~Prepare(u)
  PROVE  TypeInv'
<1> USE DEF TypeInv
<1>1. ThreadOf[u] \in Threads
  BY TurnsHaveThreads
<1>2. ctl' = ctl /\ registry' = registry
  BY DEF World, Launch, Threshold, WriteMarker, PrintMarker, PrintResult, KillLauncher, JobEnds,
         TurnCloses, Controls
<1>3. ControlTypeOK'
  <2>1. news' \in {news, news \cup {u}}
    BY DEF World, Launch, Threshold, WriteMarker, PrintMarker, PrintResult, KillLauncher,
           JobEnds, TurnCloses, Controls
  <2> QED
    BY <1>2, <2>1 DEF ControlTypeOK
<1>4. NotesTypeOK' /\ lost' \in {lost, lost \cup {ThreadOf[u]}}
  <2>1. CASE PrintMarker(u)
    BY <1>1, <2>1, NoteTypes, NotifyType DEF PrintMarker
  <2>2. CASE TurnCloses(u)
    BY <1>1, <2>2, NoteTypes, NotifyType DEF TurnCloses
  <2>3. CASE ~PrintMarker(u) /\ ~TurnCloses(u)
    BY <2>3 DEF World, Launch, Threshold, WriteMarker, PrintResult, KillLauncher, JobEnds,
                NotesTypeOK
  <2> QED
    BY <2>1, <2>2, <2>3
<1>5. WorldTypeOK'
  <2>1. turn' \in [Turns -> {"none", "active", "closing", "closed"}]
    BY DEF World, Launch, Threshold, WriteMarker, PrintMarker, PrintResult, KillLauncher,
           JobEnds, TurnCloses, WorldTypeOK
  <2>2. launcher' \in [Turns -> {"none", "polling", "detach", "print", "returned", "killed"}]
    BY DEF World, Launch, Threshold, WriteMarker, PrintMarker, PrintResult, KillLauncher,
           JobEnds, TurnCloses, WorldTypeOK
  <2>3. job' \in [Turns -> {"none", "running", "result", "lost"}]
    BY DEF World, Launch, Threshold, WriteMarker, PrintMarker, PrintResult, KillLauncher,
           JobEnds, TurnCloses, WorldTypeOK
  <2>4. marked' \subseteq Turns /\ others' = others
    BY DEF World, Launch, Threshold, WriteMarker, PrintMarker, PrintResult, KillLauncher,
           JobEnds, TurnCloses, WorldTypeOK
  <2> QED
    BY <1>1, <1>4, <2>1, <2>2, <2>3, <2>4 DEF WorldTypeOK
<1>6. \A v \in Turns : HoldsJob(v)'
  BY <1>2 DEF HoldsJob
<1> QED
  BY <1>3, <1>4, <1>5, <1>6

LEMMA OtherTypes ==
  ASSUME TypeInv, NEW h \in Threads, OtherNote(h)
  PROVE  TypeInv'
<1> USE DEF TypeInv
<1>1. [kind |-> "other", turn |-> None] \in Note
  BY DEF Note
<1>2. NotesTypeOK' /\ lost' \in {lost, lost \cup {h}}
  BY <1>1, NotifyType DEF OtherNote
<1>3. WorldTypeOK'
  <2>1. others' = [others EXCEPT ![h] = @ + 1] /\ others[h] < MaxOthers
    BY DEF OtherNote
  <2>2. others' \in [Threads -> 0..MaxOthers]
    BY <2>1, LengthsAreNat DEF WorldTypeOK
  <2> QED
    BY <1>2, <2>2 DEF OtherNote, WorldTypeOK
<1>4. ctl' = ctl /\ registry' = registry /\ news' = news
  BY DEF OtherNote, Controls
<1>5. ControlTypeOK' /\ \A v \in Turns : HoldsJob(v)'
  BY <1>4 DEF ControlTypeOK, HoldsJob
<1> QED
  BY <1>2, <1>3, <1>5

(* What a step of a controller leaves alone, and how it treats bindings.   *)
Controlled ==
  /\ notes' = notes /\ launcher' = launcher /\ job' = job /\ marked' = marked
  /\ others' = others /\ lost' = lost

BindingsKept ==
  /\ registry' \in [Threads -> [Turns -> Binding \cup {None}]]
  /\ \A h \in Threads, j \in Turns :
       registry[h][j] \in Binding => registry'[h][j] \in Binding
  /\ \A h \in Threads, j \in Turns :
       registry[h][j] # None => registry'[h][j].turn = registry[h][j].turn

LEMMA SameBindings ==
  ASSUME ControlTypeOK, registry' = registry
  PROVE  BindingsKept
BY DEF ControlTypeOK, BindingsKept

LEMMA PhaseBindings ==
  ASSUME TypeInv, NEW u \in Turns, NEW phase \in Phase, ctl[u].pc \in Recorded,
         UpdateHandoff(u, phase)
  PROVE  BindingsKept
<1>1. ctl[u].job \in Turns /\ registry[ThreadOf[u]][ctl[u].job] \in Binding
  BY DEF TypeInv, HoldsJob
<1> QED
  BY <1>1, UpdateKeeps DEF TypeInv, BindingsKept

LEMMA RaiseHolds ==
  ASSUME TypeInv, NEW u \in Turns, NEW place \in {"raised", "done", "search", "closed", "short"},
         Goes(u, place)
  PROVE  Moved(u) /\ ctl'[u].pc = place /\ HoldsJob(u)'
<1>1. Moved(u) /\ ctl'[u].pc = place
  BY GoesMoves DEF TypeInv, Place
<1> QED
  BY <1>1 DEF HoldsJob, Recorded

LEMMA SearchMoves ==
  ASSUME TypeInv, NEW u \in Turns, Search(u)
  PROVE  /\ Moved(u) /\ HoldsJob(u)' /\ BindingsKept /\ Controlled
         /\ \/ ctl'[u].pc = "record"
            \/ ctl'[u].pc = "closed" /\ StoredMarkers(u) = {}
<1>1. Controlled /\ BindingsKept
  BY SameBindings DEF Search, worldVars, Controlled, TypeInv
<1>2. ASSUME NEW j \in Turns, Found(u, j)
      PROVE  Moved(u) /\ HoldsJob(u)' /\ ctl'[u].pc = "record"
  <2>1. Moved(u) /\ ctl'[u].pc = "record" /\ ctl'[u].job = j
    BY <1>2, FoundMoves DEF TypeInv
  <2> QED
    BY <2>1 DEF HoldsJob, Recorded
<1>3. StoredMarkers(u) \subseteq Turns
  BY DEF StoredMarkers, TypeInv, WorldTypeOK
<1>4. ASSUME StoredMarkers(u) = {}, Goes(u, "closed")
      PROVE  Moved(u) /\ HoldsJob(u)' /\ ctl'[u].pc = "closed"
  BY <1>4, RaiseHolds
<1> QED
  BY <1>1, <1>2, <1>3, <1>4 DEF Search

LEMMA RecordMovesOn ==
  ASSUME TypeInv, NEW u \in Turns, RecordHandoff(u)
  PROVE  /\ Moved(u) /\ HoldsJob(u)' /\ BindingsKept /\ Controlled
         /\ ctl'[u].pc \in {"close", "raised"}
<1> DEFINE h0 == ThreadOf[u]
           j0 == ctl[u].job
           new == [turn |-> u, phase |-> "HANDOFF_REQUESTED"]
<1>1. Controlled
  BY DEF RecordHandoff, worldVars, Controlled
<1>2. CASE Raise(u) /\ registry' = registry
  BY <1>1, <1>2, RaiseHolds, SameBindings DEF Raise, TypeInv
<1>3. CASE /\ Bindable(h0, j0, u) /\ Goes(u, "close")
           /\ registry' = [registry EXCEPT ![h0][j0] = new]
  <2>1. Moved(u) /\ ctl'[u].pc = "close" /\ ctl'[u].job = j0
    BY <1>3, GoesMoves DEF TypeInv, Place
  <2>2. h0 \in Threads /\ j0 \in Turns /\ new \in Binding
    BY TurnsHaveThreads DEF TypeInv, HoldsJob, Binding, Phase, RecordHandoff, At
  <2>3. registry \in [Threads -> [Turns -> Binding \cup {None}]]
    BY DEF TypeInv, ControlTypeOK
  <2>4. registry[h0][j0] # None => registry[h0][j0].turn = new.turn
    BY <1>3 DEF Bindable
  <2> HIDE DEF h0, j0, new
  <2>5. registry' = [registry EXCEPT ![h0] = [registry[h0] EXCEPT ![j0] = new]]
    BY <1>3, <2>2, <2>3
  <2>6. /\ registry'[h0][j0] = new /\ \A j \in Turns \ {j0} : registry'[h0][j] = registry[h0][j]
        /\ \A h \in Threads \ {h0} : registry'[h] = registry[h]
    BY <2>2, <2>3, <2>5
  <2>7. registry' \in [Threads -> [Turns -> Binding \cup {None}]]
    BY <2>2, <2>3, <2>5
  <2>8. BindingsKept
    BY <2>2, <2>4, <2>6, <2>7 DEF BindingsKept
  <2>9. HoldsJob(u)'
    <3>1. registry'[ThreadOf[u]][ctl'[u].job] \in Binding
      BY <2>1, <2>2, <2>6 DEF h0
    <3> QED
      BY <2>1, <2>2, <3>1 DEF HoldsJob, Recorded
  <2> QED
    BY <1>1, <2>1, <2>8, <2>9
<1> QED
  BY <1>2, <1>3 DEF RecordHandoff

(* A controller that goes on with the job it recorded.                     *)
LEMMA StillHolds ==
  ASSUME TypeInv, NEW u \in Turns, ctl[u].pc \in Recorded, BindingsKept,
         ctl'[u].job = ctl[u].job,
         ctl'[u].pc \in {"wait", "update"} => ctl'[u].phase \in Phase
  PROVE  HoldsJob(u)'
<1>1. ctl[u].job \in Turns /\ registry[ThreadOf[u]][ctl[u].job] \in Binding
      /\ ThreadOf[u] \in Threads
  BY TurnsHaveThreads DEF TypeInv, HoldsJob
<1>2. registry'[ThreadOf[u]][ctl'[u].job] \in Binding
  BY <1>1 DEF BindingsKept
<1> QED
  BY <1>1, <1>2 DEF HoldsJob

LEMMA CloseMoves ==
  ASSUME TypeInv, NEW u \in Turns, CloseTurn(u)
  PROVE  /\ Moved(u) /\ HoldsJob(u)' /\ BindingsKept /\ Controlled
         /\ \/ ctl'[u].pc = "update" /\ Seen(u, "completed")
            \/ ctl'[u].pc = "interrupt"
<1>1. Controlled /\ BindingsKept /\ ctl[u].pc \in Recorded
  BY SameBindings DEF CloseTurn, worldVars, Controlled, TypeInv, At, Recorded
<1>2. CASE Seen(u, "completed")
  <2>1. /\ Moved(u) /\ ctl'[u].pc = "update" /\ ctl'[u].job = ctl[u].job
        /\ ctl'[u].phase = "HANDOFF_TURN_CLOSED" /\ "HANDOFF_TURN_CLOSED" \in Phase
    <3>1. ctl' = [ctl EXCEPT ![u].pc = "update", ![u].phase = "HANDOFF_TURN_CLOSED"]
      BY <1>2 DEF CloseTurn
    <3>2. "update" \in Place /\ "HANDOFF_TURN_CLOSED" \in Phase
      BY DEF Place, Phase
    <3> QED
      BY <3>1, <3>2, PhaseMoves DEF TypeInv
  <2> QED
    BY <1>1, <1>2, <2>1, StillHolds
<1>3. CASE ~Seen(u, "completed")
  <2>1. Moved(u) /\ ctl'[u].pc = "interrupt" /\ ctl'[u].job = ctl[u].job
    BY <1>3, GoesMoves DEF CloseTurn, TypeInv, Place
  <2> QED
    BY <1>1, <2>1, StillHolds
<1> QED
  BY <1>2, <1>3

LEMMA InterruptMoves ==
  ASSUME TypeInv, NEW u \in Turns, Interrupt(u)
  PROVE  /\ Moved(u) /\ HoldsJob(u)' /\ BindingsKept /\ Controlled
         /\ ctl'[u].pc = "wait" /\ ctl'[u].index = 0
<1>1. Controlled /\ BindingsKept /\ ctl[u].pc \in Recorded
  BY SameBindings DEF Interrupt, Controlled, TypeInv, At, Recorded
<1>2. "TURN_INTERRUPTED" \in Phase
  BY DEF Phase
<1>3. /\ Moved(u) /\ ctl'[u].pc = "wait" /\ ctl'[u].job = ctl[u].job
      /\ ctl'[u].phase = "TURN_INTERRUPTED" /\ ctl'[u].index = 0
  BY <1>2, WaitMoves DEF Interrupt, TypeInv
<1> QED
  BY <1>1, <1>2, <1>3, StillHolds

LEMMA RacedMoves ==
  ASSUME TypeInv, NEW u \in Turns, Raced(u)
  PROVE  /\ Moved(u) /\ HoldsJob(u)' /\ BindingsKept /\ Controlled
         /\ \/ ctl'[u].pc = "wait" /\ ctl'[u].index = 0
            \/ ctl'[u].pc = "raised"
<1>1. Controlled /\ BindingsKept /\ ctl[u].pc \in Recorded
  BY SameBindings DEF Raced, worldVars, Controlled, TypeInv, At, Recorded
<1>2. CASE ctl' = [ctl EXCEPT ![u].pc = "wait", ![u].phase = "HANDOFF_TURN_CLOSED",
                              ![u].index = 0]
  <2>1. "HANDOFF_TURN_CLOSED" \in Phase
    BY DEF Phase
  <2>2. /\ Moved(u) /\ ctl'[u].pc = "wait" /\ ctl'[u].job = ctl[u].job
        /\ ctl'[u].phase = "HANDOFF_TURN_CLOSED" /\ ctl'[u].index = 0
    BY <1>2, <2>1, WaitMoves DEF TypeInv
  <2> QED
    BY <1>1, <2>1, <2>2, StillHolds
<1>3. CASE Raise(u)
  BY <1>1, <1>3, RaiseHolds DEF Raise
<1> QED
  BY <1>2, <1>3 DEF Raced

LEMMA WaitMovesOn ==
  ASSUME TypeInv, NEW u \in Turns, WaitTurn(u)
  PROVE  /\ Moved(u) /\ HoldsJob(u)' /\ BindingsKept /\ Controlled
         /\ \/ ctl'[u].pc = "update" /\ CompletionUnread(u)
            \/ /\ ctl'[u].pc = "wait" /\ ~CompletionUnread(u)
               /\ ctl'[u].index = Len(notes[ThreadOf[u]])
<1>1. Controlled /\ BindingsKept /\ ctl[u].pc \in Recorded /\ ctl[u].pc = "wait"
      /\ ctl[u].phase \in Phase
  BY SameBindings DEF WaitTurn, worldVars, Controlled, TypeInv, At, Recorded, HoldsJob
<1>2. CASE CompletionUnread(u)
  <2>1. /\ Moved(u) /\ ctl'[u].pc = "update" /\ ctl'[u].job = ctl[u].job
        /\ ctl'[u].phase = ctl[u].phase
    BY <1>2, GoesMoves DEF WaitTurn, TypeInv, Place
  <2> QED
    BY <1>1, <1>2, <2>1, StillHolds
<1>3. CASE ~CompletionUnread(u)
  <2>1. Len(notes[ThreadOf[u]]) \in 0..MaxEvents
    <3>1. ThreadOf[u] \in Threads /\ notes[ThreadOf[u]] \in Seq(Note)
      BY TurnsHaveThreads DEF TypeInv, NotesTypeOK
    <3> QED
      BY <3>1, LengthsAreNat DEF TypeInv, NotesTypeOK
  <2>2. ctl' = [ctl EXCEPT ![u].index = Len(notes[ThreadOf[u]])]
    BY <1>3 DEF WaitTurn
  <2>3. /\ Moved(u) /\ ctl'[u].pc = ctl[u].pc /\ ctl'[u].job = ctl[u].job
        /\ ctl'[u].phase = ctl[u].phase /\ ctl'[u].index = Len(notes[ThreadOf[u]])
    BY <2>1, <2>2, IndexMoves DEF TypeInv
  <2> QED
    BY <1>1, <1>3, <2>3, StillHolds
<1> QED
  BY <1>2, <1>3

(* The steps that go on from a handoff that returned.                      *)
LEMMA HandedMoves ==
  ASSUME TypeInv, NEW u \in Turns, ctl[u].pc \in Recorded \ {"wait"},
         NEW phase \in Phase, UpdateHandoff(u, phase),
         NEW place \in {"handed", "continue", "route", "done", "raised"}, Goes(u, place)
  PROVE  Moved(u) /\ HoldsJob(u)' /\ BindingsKept /\ ctl'[u].pc = place
<1>1. BindingsKept
  BY PhaseBindings
<1>2. Moved(u) /\ ctl'[u].pc = place /\ ctl'[u].job = ctl[u].job
  BY GoesMoves DEF TypeInv, Place
<1> QED
  BY <1>1, <1>2, StillHolds

(* The places that follow the end of the turn.                             *)
Over == {"update", "handed", "continue", "route"}

(* What every step of a controller does.                                   *)
LEMMA ControlSteps ==
  ASSUME TypeInv, NEW u \in Turns, Control(u) \/ TimesOut(u)
  PROVE  /\ Moved(u) /\ HoldsJob(u)' /\ BindingsKept /\ Controlled
         /\ news' = IF Search(u) THEN news \ {u} ELSE news
         /\ turn' \in [Turns -> {"none", "active", "closing", "closed"}]
         /\ \A v \in Turns : turn'[v] = "closed" <=> turn[v] = "closed"
         /\ \A v \in Turns : turn'[v] = "none" <=> turn[v] = "none"
         /\ ctl'[u].pc # "none"
         /\ ctl'[u].pc \in Over => ctl[u].pc \in Over \/ Seen(u, "completed") \/ CompletionUnread(u)
         /\ ctl'[u].pc \in {"closed", "short"} =>
              \/ Search(u) /\ StoredMarkers(u) = {}
              \/ ~Search(u) /\ ctl[u].pc = "closed"
         /\ ctl'[u].pc = "wait" =>
              \/ ctl'[u].index = 0
              \/ /\ ~CompletionUnread(u) /\ ctl[u].pc = "wait"
                 /\ ctl'[u].index = Len(notes[ThreadOf[u]])
<1> DEFINE Shape ==
      /\ Moved(u) /\ HoldsJob(u)' /\ BindingsKept /\ Controlled
      /\ ctl'[u].pc # "none"
      /\ ctl'[u].pc \in Over => ctl[u].pc \in Over \/ Seen(u, "completed") \/ CompletionUnread(u)
      /\ ctl'[u].pc \in {"closed", "short"} =>
           \/ Search(u) /\ StoredMarkers(u) = {}
           \/ ~Search(u) /\ ctl[u].pc = "closed"
      /\ ctl'[u].pc = "wait" =>
           \/ ctl'[u].index = 0
           \/ /\ ~CompletionUnread(u) /\ ctl[u].pc = "wait"
              /\ ctl'[u].index = Len(notes[ThreadOf[u]])
<1>1. CASE Search(u)
  <2>1. Shape
    BY <1>1, SearchMoves DEF Over
  <2>2. news' = news \ {u} /\ turn' = turn
    BY <1>1 DEF Search, worldVars
  <2> QED
    BY <1>1, <2>1, <2>2 DEF TypeInv, WorldTypeOK
<1>2. CASE CheckClosed(u)
  <2>1. /\ Moved(u) /\ HoldsJob(u)' /\ ctl'[u].pc \in {"short", "search"}
        /\ ctl[u].pc = "closed"
    BY <1>2, RaiseHolds DEF CheckClosed, At
  <2>2. Controlled /\ BindingsKept /\ turn' = turn /\ news' = news
    BY <1>2, SameBindings DEF CheckClosed, worldVars, Controlled, TypeInv
  <2>3. ~Search(u)
    BY <2>1 DEF Search, At
  <2>4. Shape
    BY <2>1, <2>2, <2>3 DEF Over
  <2> QED
    BY <2>2, <2>3, <2>4 DEF TypeInv, WorldTypeOK
<1>3. CASE CheckResults(u)
  <2>1. /\ Moved(u) /\ HoldsJob(u)' /\ ctl'[u].pc \in {"done", "raised"}
        /\ ctl[u].pc = "short"
    BY <1>3, RaiseHolds DEF CheckResults, Raise, At
  <2>2. Controlled /\ BindingsKept /\ turn' = turn /\ news' = news
    BY <1>3, SameBindings DEF CheckResults, worldVars, Controlled, TypeInv
  <2>3. ~Search(u)
    BY <2>1 DEF Search, At
  <2>4. Shape
    BY <2>1, <2>2 DEF Over
  <2> QED
    BY <2>2, <2>3, <2>4 DEF TypeInv, WorldTypeOK
<1>4. CASE RecordHandoff(u)
  <2>1. turn' = turn /\ news' = news /\ ~Search(u)
    BY <1>4 DEF RecordHandoff, worldVars, Search, At
  <2>2. Shape
    BY <1>4, RecordMovesOn DEF Over
  <2> QED
    BY <2>1, <2>2 DEF TypeInv, WorldTypeOK
<1>5. CASE CloseTurn(u)
  <2>1. turn' = turn /\ news' = news /\ ~Search(u)
    BY <1>5 DEF CloseTurn, worldVars, Search, At
  <2>2. Shape
    BY <1>5, CloseMoves DEF Over
  <2> QED
    BY <2>1, <2>2 DEF TypeInv, WorldTypeOK
<1>6. CASE Interrupt(u)
  <2>1. news' = news /\ ~Search(u)
    BY <1>6 DEF Interrupt, Search, At
  <2>2. turn' = [turn EXCEPT ![u] = "closing"] /\ turn[u] = "active"
    BY <1>6 DEF Interrupt
  <2>3. Shape
    BY <1>6, InterruptMoves DEF Over
  <2> QED
    BY <2>1, <2>2, <2>3 DEF TypeInv, WorldTypeOK
<1>7. CASE InterruptFails(u)
  <2>1. news' = news /\ ~Search(u) /\ Controlled /\ BindingsKept /\ ctl[u].pc \in Recorded
    BY <1>7, SameBindings DEF InterruptFails, Search, At, Controlled, TypeInv, Recorded
  <2>2. turn' \in {turn, [turn EXCEPT ![u] = IF @ = "active" THEN "closing" ELSE @]}
    BY <1>7 DEF InterruptFails
  <2>3. /\ Moved(u) /\ ctl'[u].pc \in {"raced", "raised"} /\ ctl'[u].job = ctl[u].job
    BY <1>7, GoesMoves DEF InterruptFails, Raise, TypeInv, Place
  <2>4. Shape
    BY <2>1, <2>3, StillHolds DEF Over
  <2> QED
    BY <2>1, <2>2, <2>4 DEF TypeInv, WorldTypeOK
<1>8. CASE Raced(u)
  <2>1. turn' = turn /\ news' = news /\ ~Search(u)
    BY <1>8 DEF Raced, worldVars, Search, At
  <2>2. Shape
    BY <1>8, RacedMoves DEF Over
  <2> QED
    BY <2>1, <2>2 DEF TypeInv, WorldTypeOK
<1>9. CASE WaitTurn(u)
  <2>1. turn' = turn /\ news' = news /\ ~Search(u) /\ ctl[u].pc = "wait"
    BY <1>9 DEF WaitTurn, worldVars, Search, At
  <2>2. Shape
    BY <1>9, <2>1, WaitMovesOn DEF Over
  <2> QED
    BY <2>1, <2>2 DEF TypeInv, WorldTypeOK
<1>10. CASE \/ HandoffReturns(u) \/ WaitForJob(u) \/ StartContinuation(u) \/ Routed(u)
  <2>1. turn' = turn /\ news' = news /\ ~Search(u) /\ ctl[u].pc \in Over /\ Controlled
    BY <1>10 DEF HandoffReturns, WaitForJob, StartContinuation, Routed, worldVars, Search, At,
                 Over, Controlled
  <2>2. ctl[u].pc \in Recorded \ {"wait"}
    BY <2>1 DEF Over, Recorded
  <2>3. /\ {"JOB_COMPLETED", "CONTINUATION_STARTED", "CONTINUATION_COMPLETED", "FAILED"}
             \subseteq Phase
        /\ ctl[u].pc = "update" => ctl[u].phase \in Phase
    BY DEF Phase, TypeInv, HoldsJob
  <2>4. \/ \E phase \in Phase, place \in {"handed", "continue", "route", "done", "raised"} :
              UpdateHandoff(u, phase) /\ Goes(u, place)
        \/ registry' = registry /\ Goes(u, "raised")
    <3>1. CASE HandoffReturns(u)
      BY <2>3, <3>1 DEF HandoffReturns, At
    <3>2. CASE WaitForJob(u)
      BY <2>3, <3>2 DEF WaitForJob
    <3>3. CASE StartContinuation(u)
      BY <2>3, <3>3 DEF StartContinuation
    <3>4. CASE Routed(u)
      BY <2>3, <3>4 DEF Routed, Raise
    <3> QED
      BY <1>10, <3>1, <3>2, <3>3, <3>4
  <2>5. /\ Moved(u) /\ HoldsJob(u)' /\ BindingsKept
        /\ ctl'[u].pc \in {"handed", "continue", "route", "done", "raised"}
    <3>1. CASE registry' = registry /\ Goes(u, "raised")
      BY <3>1, RaiseHolds, SameBindings DEF TypeInv
    <3> QED
      BY <2>2, <2>4, <3>1, HandedMoves
  <2>6. Shape
    BY <2>1, <2>5
  <2> QED
    BY <2>1, <2>6 DEF TypeInv, WorldTypeOK
<1>11. CASE TimesOut(u) \/ RegistryFails(u)
  <2>1. Goes(u, "raised") /\ UNCHANGED <<worldVars, registry, news>>
    BY <1>11 DEF TimesOut, HandoffTimesOut, WaitTimesOut, JobTimesOut, RegistryFails, Raise
  <2>2. Controlled /\ BindingsKept /\ turn' = turn /\ news' = news
    BY <2>1, SameBindings DEF worldVars, Controlled, TypeInv
  <2>3. Moved(u) /\ ctl'[u].pc = "raised" /\ HoldsJob(u)'
    BY <2>1, RaiseHolds
  <2>4. ~Search(u)
    <3>1. ASSUME Search(u) PROVE FALSE
      BY <2>3, <3>1, SearchMoves
    <3> QED
      BY <3>1
  <2>5. Shape
    BY <2>2, <2>3 DEF Over
  <2> QED
    BY <2>2, <2>4, <2>5 DEF TypeInv, WorldTypeOK
<1> QED
  BY <1>1, <1>2, <1>3, <1>4, <1>5, <1>6, <1>7, <1>8, <1>9, <1>10, <1>11 DEF Control

LEMMA ControlTypes ==
  ASSUME TypeInv, NEW u \in Turns, Control(u) \/ TimesOut(u)
  PROVE  TypeInv'
<1>1. /\ Moved(u) /\ HoldsJob(u)' /\ BindingsKept /\ Controlled
      /\ news' = IF Search(u) THEN news \ {u} ELSE news
      /\ turn' \in [Turns -> {"none", "active", "closing", "closed"}]
  BY ControlSteps
<1>2. WorldTypeOK'
  BY <1>1 DEF TypeInv, WorldTypeOK, Controlled
<1>3. NotesTypeOK'
  BY <1>1 DEF TypeInv, NotesTypeOK, Controlled
<1>4. ControlTypeOK'
  BY <1>1 DEF TypeInv, ControlTypeOK, Moved, BindingsKept
<1>5. \A v \in Turns : HoldsJob(v)'
  BY <1>1, OthersHold DEF BindingsKept
<1> QED
  BY <1>2, <1>3, <1>4, <1>5 DEF TypeInv

LEMMA TypeStep == TypeInv /\ [HandoffNext]_handoffVars => TypeInv'
<1> SUFFICES ASSUME TypeInv, [HandoffNext]_handoffVars PROVE TypeInv'
  OBVIOUS
<1>1. CASE UNCHANGED handoffVars
  BY <1>1 DEF handoffVars, worldVars, TypeInv, WorldTypeOK, NotesTypeOK, ControlTypeOK, HoldsJob
<1>2. ASSUME NEW u \in Turns, World(u) PROVE TypeInv'
  BY <1>2, PrepareTypes, WorldTypes
<1>3. ASSUME NEW u \in Turns, Control(u) \/ TimesOut(u) PROVE TypeInv'
  BY <1>3, ControlTypes
<1>4. ASSUME NEW h \in Threads, OtherNote(h) PROVE TypeInv'
  BY <1>4, OtherTypes
<1> QED
  BY <1>1, <1>2, <1>3, <1>4 DEF HandoffNext

LEMMA TypeInvHolds == HandoffSpec => []TypeInv
BY InitTypes, TypeStep, PTL DEF HandoffSpec

(* Turns, launchers, jobs, buffers, controllers and records have their     *)
(* types, and no buffer is longer than its bound, for any number of turns  *)
(* and threads (handoff.py, 353-571).                                      *)
THEOREM HandoffTypes == HandoffSpec => []HandoffTypeOK
<1>1. TypeInv => HandoffTypeOK
  BY TypeParts DEF TypeInv
<1> QED
  BY <1>1, TypeInvHolds, PTL

(* A job that a thread's record binds to a turn stays bound to it.         *)
THEOREM BindingsHold == HandoffSpec => BindingIsKept
<1> DEFINE Kept == \A h \in Threads, j \in Turns :
                     registry[h][j] # None => registry'[h][j].turn = registry[h][j].turn
<1>1. TypeInv /\ [HandoffNext]_handoffVars => [Kept]_handoffVars
  <2> SUFFICES ASSUME TypeInv, HandoffNext PROVE Kept
    BY DEF HandoffNext
  <2>1. CASE registry' = registry
    BY <2>1
  <2>2. ASSUME NEW u \in Turns, World(u) PROVE Kept
    BY <2>1, <2>2 DEF World, Prepare, Build, StartTurn, Launch, Threshold, WriteMarker,
                      PrintMarker, PrintResult, KillLauncher, JobEnds, TurnCloses, Controls
  <2>3. ASSUME NEW u \in Turns, Control(u) \/ TimesOut(u) PROVE Kept
    BY <2>3, ControlSteps DEF BindingsKept
  <2>4. ASSUME NEW h \in Threads, OtherNote(h) PROVE Kept
    BY <2>1, <2>4 DEF OtherNote, Controls
  <2> QED
    BY <2>2, <2>3, <2>4 DEF HandoffNext
<1> QED
  BY <1>1, TypeInvHolds, PTL DEF HandoffSpec, BindingIsKept

-----------------------------------------------------------------------------
(* What the buffers say.                                                   *)

LEMMA NotifyNotes ==
  ASSUME NotesTypeOK, NEW h \in Threads, NEW kind, NEW u, [kind |-> kind, turn |-> u] \in Note,
         Notify(h, kind, u)
  PROVE  /\ \A k \in Threads : \A i \in DOMAIN notes'[k] :
              \/ notes'[k][i] = [kind |-> kind, turn |-> u]
              \/ \E n \in DOMAIN notes[k] : notes'[k][i] = notes[k][n]
         /\ \A k \in Threads \ {h} : notes'[k] = notes[k] /\ (k \in lost' <=> k \in lost)
         /\ h \notin lost' =>
              /\ h \notin lost
              /\ Len(notes'[h]) = Len(notes[h]) + 1
              /\ notes'[h][Len(notes[h]) + 1] = [kind |-> kind, turn |-> u]
              /\ \A i \in 1..Len(notes[h]) : notes'[h][i] = notes[h][i]
<1> DEFINE note == [kind |-> kind, turn |-> u]
           full == Len(notes[h]) = MaxEvents
           kept == IF full THEN Tail(notes[h]) ELSE notes[h]
<1>1. notes[h] \in Seq(Note) /\ Len(notes[h]) \in Nat /\ note \in Note
  BY DEF NotesTypeOK
<1>2. notes \in [Threads -> Seq(Note)]
  BY DEF NotesTypeOK
<1>3. full => notes[h] # <<>>
  BY <1>1, LengthsAreNat
<1>4. kept \in Seq(Note)
  BY <1>1, <1>3
<1>5. \A i \in 1..Len(kept) : \E n \in 1..Len(notes[h]) : kept[i] = notes[h][n]
  <2>1. CASE full
    <3>1. Len(Tail(notes[h])) = Len(notes[h]) - 1
          /\ \A i \in 1..Len(notes[h]) - 1 : Tail(notes[h])[i] = notes[h][i + 1]
      BY <1>1, <1>3, <2>1
    <3>2. kept = Tail(notes[h])
      BY <2>1
    <3> HIDE DEF kept, full
    <3>3. ASSUME NEW i \in 1..Len(kept)
          PROVE  kept[i] = notes[h][i + 1] /\ i + 1 \in 1..Len(notes[h])
      <4>1. i \in 1..Len(notes[h]) - 1
        BY <3>1, <3>2
      <4> QED
        BY <1>1, <3>1, <3>2, <4>1
    <3> QED
      BY <3>3
  <2>2. CASE ~full
    BY <2>2
  <2> QED
    BY <2>1, <2>2
<1>6. notes' = [notes EXCEPT ![h] = Append(kept, note)]
  BY DEF Notify
<1>7. lost' = IF full THEN lost \cup {h} ELSE lost
  BY DEF Notify
<1>8. ~full => kept = notes[h]
  OBVIOUS
<1> HIDE DEF kept, note, full
<1>9. notes'[h] = Append(kept, note) /\ \A k \in Threads \ {h} : notes'[k] = notes[k]
  BY <1>2, <1>6
<1>10. \A i \in DOMAIN notes'[h] : notes'[h][i] = note \/ \E n \in DOMAIN notes[h] : notes'[h][i] = notes[h][n]
  <2> SUFFICES ASSUME NEW i \in DOMAIN notes'[h]
               PROVE notes'[h][i] = note \/ \E n \in DOMAIN notes[h] : notes'[h][i] = notes[h][n]
    OBVIOUS
  <2>1. /\ DOMAIN notes'[h] = 1..Len(kept) + 1 /\ Len(kept) \in Nat
        /\ DOMAIN notes[h] = 1..Len(notes[h])
    BY <1>1, <1>4, <1>9
  <2>2. CASE i = Len(kept) + 1
    BY <1>1, <1>4, <1>9, <2>2
  <2>3. CASE i # Len(kept) + 1
    <3>1. i \in 1..Len(kept)
      BY <2>1, <2>3
    <3>2. notes'[h][i] = kept[i]
      BY <1>1, <1>4, <1>9, <3>1
    <3> QED
      BY <1>5, <2>1, <3>1, <3>2
  <2> QED
    BY <2>2, <2>3
<1>11. h \notin lost' =>
         /\ h \notin lost
         /\ Len(notes'[h]) = Len(notes[h]) + 1
         /\ notes'[h][Len(notes[h]) + 1] = note
         /\ \A i \in 1..Len(notes[h]) : notes'[h][i] = notes[h][i]
  <2> SUFFICES ASSUME h \notin lost'
      PROVE /\ h \notin lost
            /\ Len(notes'[h]) = Len(notes[h]) + 1
            /\ notes'[h][Len(notes[h]) + 1] = note
            /\ \A i \in 1..Len(notes[h]) : notes'[h][i] = notes[h][i]
    OBVIOUS
  <2>1. ~full /\ h \notin lost
    BY <1>7
  <2>2. notes'[h] = Append(notes[h], note)
    BY <1>8, <1>9, <2>1
  <2> QED
    BY <1>1, <2>1, <2>2
<1>12. \A k \in Threads \ {h} : k \in lost' <=> k \in lost
  BY <1>7
<1>13. \A k \in Threads : \A i \in DOMAIN notes'[k] :
         notes'[k][i] = note \/ \E n \in DOMAIN notes[k] : notes'[k][i] = notes[k][n]
  BY <1>9, <1>10
<1> QED
  BY <1>9, <1>11, <1>12, <1>13 DEF note

(* An end that was notified is an end.                                     *)
NotesTrue ==
  \A h \in Threads : \A i \in DOMAIN notes[h] :
    notes[h][i].kind = "completed" => turn[notes[h][i].turn] = "closed"

OverClosed == \A u \in Turns : ctl[u].pc \in Over => turn[u] = "closed"

EndInv == TypeInv /\ NotesTrue /\ OverClosed

LEMMA SeenIsClosed ==
  ASSUME EndInv, NEW u \in Turns, Seen(u, "completed") \/ CompletionUnread(u)
  PROVE  turn[u] = "closed"
<1>1. ThreadOf[u] \in Threads
  BY TurnsHaveThreads
<1>2. PICK i \in DOMAIN notes[ThreadOf[u]] :
         notes[ThreadOf[u]][i] = [kind |-> "completed", turn |-> u]
  BY DEF Seen, CompletionUnread, Unread
<1>3. notes[ThreadOf[u]][i].kind = "completed" /\ notes[ThreadOf[u]][i].turn = u
  BY <1>2
<1> QED
  BY <1>1, <1>3 DEF EndInv, NotesTrue

(* A turn that is over stays over, and what is notified of it is true.     *)
LEMMA NotesStayTrue ==
  ASSUME EndInv, NEW h \in Threads, NEW kind, NEW u, [kind |-> kind, turn |-> u] \in Note,
         Notify(h, kind, u), kind = "completed" => turn'[u] = "closed",
         \A v \in Turns : turn[v] = "closed" => turn'[v] = "closed"
  PROVE  NotesTrue'
<1> SUFFICES ASSUME NEW k \in Threads, NEW i \in DOMAIN notes'[k],
                    notes'[k][i].kind = "completed"
             PROVE  turn'[notes'[k][i].turn] = "closed"
  BY DEF NotesTrue
<1>1. CASE notes'[k][i] = [kind |-> kind, turn |-> u]
  BY <1>1
<1>2. ASSUME NEW n \in DOMAIN notes[k], notes'[k][i] = notes[k][n]
      PROVE  turn'[notes'[k][i].turn] = "closed"
  <2>1. notes[k][n] \in Note
    BY DEF EndInv, TypeInv, NotesTypeOK
  <2>2. notes[k][n].turn \in Turns
    BY <1>2, <2>1 DEF Note
  <2>3. turn[notes[k][n].turn] = "closed"
    BY <1>2 DEF EndInv, NotesTrue
  <2> QED
    BY <1>2, <2>2, <2>3
<1> QED
  BY <1>1, <1>2, NotifyNotes DEF EndInv, TypeInv

LEMMA SameNotesTrue ==
  ASSUME EndInv, notes' = notes, \A v \in Turns : turn[v] = "closed" => turn'[v] = "closed"
  PROVE  NotesTrue'
<1> SUFFICES ASSUME NEW k \in Threads, NEW i \in DOMAIN notes[k], notes[k][i].kind = "completed"
             PROVE  turn'[notes[k][i].turn] = "closed"
  BY DEF NotesTrue
<1>1. notes[k][i] \in Note
  BY DEF EndInv, TypeInv, NotesTypeOK
<1>2. notes[k][i].turn \in Turns
  BY <1>1 DEF Note
<1> QED
  BY <1>2 DEF EndInv, NotesTrue

(* What a step of the world does to turns and controllers.                 *)
LEMMA WorldSteps ==
  ASSUME TypeInv, NEW u \in Turns, World(u)
  PROVE  /\ \A v \in Turns : turn[v] = "closed" => turn'[v] = "closed"
         /\ \A v \in Turns : turn'[v] = "none" => turn[v] = "none"
         /\ \A v \in Turns : ctl'[v] = ctl[v] \/ (v = u /\ ctl'[v].pc \in {"built", "search"})
         /\ ~Prepare(u) => ctl' = ctl /\ \A v \in Turns : turn[v] = "none" => turn'[v] = "none"
<1>1. CASE Prepare(u)
  <2>1. turn' = turn \/ (turn' = [turn EXCEPT ![u] = "active"] /\ turn[u] = "none")
    BY <1>1 DEF Prepare, Build, StartTurn, worldVars
  <2>2. (\A v \in Turns \ {u} : ctl'[v] = ctl[v]) /\ ctl'[u].pc \in {"built", "search"}
    BY <1>1, PrepareMoves DEF TypeInv, Prepare
  <2>3. \A v \in Turns : (turn[v] = "closed" => turn'[v] = "closed")
                       /\ (turn'[v] = "none" => turn[v] = "none")
    BY <2>1 DEF TypeInv, WorldTypeOK
  <2> QED
    BY <1>1, <2>2, <2>3
<1>2. CASE TurnCloses(u)
  <2>1. turn' = [turn EXCEPT ![u] = "closed"] /\ turn[u] # "none" /\ ctl' = ctl
    BY <1>2 DEF TurnCloses, Controls
  <2>2. \A v \in Turns : (turn[v] = "closed" => turn'[v] = "closed")
                       /\ (turn'[v] = "none" <=> turn[v] = "none")
    BY <2>1 DEF TypeInv, WorldTypeOK
  <2> QED
    BY <2>1, <2>2
<1>3. CASE ~Prepare(u) /\ ~TurnCloses(u)
  <2>1. turn' = turn /\ ctl' = ctl
    BY <1>3 DEF World, Launch, Threshold, WriteMarker, PrintMarker, PrintResult, KillLauncher,
                JobEnds, Controls
  <2> QED
    BY <2>1
<1> QED
  BY <1>1, <1>2, <1>3

LEMMA EndStep == EndInv /\ [HandoffNext]_handoffVars => EndInv'
<1> SUFFICES ASSUME EndInv, [HandoffNext]_handoffVars PROVE EndInv'
  OBVIOUS
<1>1. TypeInv /\ TypeInv'
  BY TypeStep DEF EndInv
<1>2. CASE UNCHANGED handoffVars
  BY <1>1, <1>2 DEF handoffVars, worldVars, EndInv, NotesTrue, OverClosed
<1>3. ASSUME NEW u \in Turns, World(u) PROVE EndInv'
  <2>1. /\ \A v \in Turns : turn[v] = "closed" => turn'[v] = "closed"
        /\ \A v \in Turns : ctl'[v] = ctl[v] \/ (v = u /\ ctl'[v].pc \in {"built", "search"})
    BY <1>1, <1>3, WorldSteps
  <2>2. NotesTrue'
    <3>1. CASE PrintMarker(u)
      BY <2>1, <3>1, NoteTypes, NotesStayTrue, TurnsHaveThreads DEF PrintMarker
    <3>2. CASE TurnCloses(u)
      <4>1. turn'[u] = "closed"
        BY <1>1, <3>2 DEF TurnCloses, TypeInv, WorldTypeOK
      <4> QED
        BY <2>1, <3>2, <4>1, NoteTypes, NotesStayTrue, TurnsHaveThreads DEF TurnCloses
    <3>3. CASE ~PrintMarker(u) /\ ~TurnCloses(u)
      <4>1. notes' = notes
        BY <1>3, <3>3 DEF World, Prepare, Build, StartTurn, worldVars, Launch, Threshold,
                          WriteMarker, PrintResult, KillLauncher, JobEnds
      <4> QED
        BY <2>1, <4>1, SameNotesTrue
    <3> QED
      BY <3>1, <3>2, <3>3
  <2>3. OverClosed'
    BY <2>1 DEF EndInv, OverClosed, Over
  <2> QED
    BY <1>1, <2>2, <2>3 DEF EndInv
<1>4. ASSUME NEW u \in Turns, Control(u) \/ TimesOut(u) PROVE EndInv'
  <2>1. /\ Moved(u) /\ Controlled
        /\ \A v \in Turns : turn'[v] = "closed" <=> turn[v] = "closed"
        /\ ctl'[u].pc \in Over => ctl[u].pc \in Over \/ Seen(u, "completed") \/ CompletionUnread(u)
    BY <1>1, <1>4, ControlSteps
  <2>2. NotesTrue'
    BY <2>1, SameNotesTrue DEF Controlled
  <2>3. OverClosed'
    <3> SUFFICES ASSUME NEW v \in Turns, ctl'[v].pc \in Over PROVE turn[v] = "closed"
      BY <2>1 DEF OverClosed
    <3>1. CASE v # u
      BY <2>1, <3>1 DEF EndInv, OverClosed, Moved
    <3>2. CASE v = u
      BY <2>1, <3>2, SeenIsClosed DEF EndInv, OverClosed
    <3> QED
      BY <3>1, <3>2
  <2> QED
    BY <1>1, <2>2, <2>3 DEF EndInv
<1>5. ASSUME NEW h \in Threads, OtherNote(h) PROVE EndInv'
  <2>1. turn' = turn /\ ctl' = ctl /\ Notify(h, "other", None)
    BY <1>5 DEF OtherNote, Controls
  <2>2. [kind |-> "other", turn |-> None] \in Note
    BY DEF Note
  <2>3. NotesTrue'
    BY <2>1, <2>2, NotesStayTrue
  <2>4. OverClosed'
    BY <2>1 DEF EndInv, OverClosed
  <2> QED
    BY <1>1, <2>3, <2>4 DEF EndInv
<1> QED
  BY <1>2, <1>3, <1>4, <1>5 DEF HandoffNext

LEMMA EndInvHolds == HandoffSpec => []EndInv
<1>1. HandoffInit => EndInv
  <2> SUFFICES ASSUME HandoffInit PROVE NotesTrue /\ OverClosed
    BY InitTypes DEF EndInv
  <2>1. \A h \in Threads : DOMAIN notes[h] = {}
    BY DEF HandoffInit
  <2>2. \A u \in Turns : ctl[u].pc = "none"
    BY DEF HandoffInit
  <2> QED
    BY <2>1, <2>2 DEF NotesTrue, OverClosed, Over
<1> QED
  BY <1>1, EndStep, PTL DEF HandoffSpec

(* No controller waits for its job, or continues the thread, while its own *)
(* turn runs, whoever wins the race of interrupt and completion.           *)
THEOREM ContinuationsWait == HandoffSpec => []NoContinuationInTurn
<1>1. EndInv => NoContinuationInTurn
  BY DEF EndInv, OverClosed, Over, NoContinuationInTurn
<1> QED
  BY <1>1, EndInvHolds, PTL

-----------------------------------------------------------------------------
(* Markers.                                                                *)

MarkerInv ==
  \A u \in Turns :
    /\ u \notin ctl[u].known
    /\ ctl[u].pc = "none" => turn[u] = "none"
    /\ turn[u] = "none" => job[u] = "none"
    /\ ctl[u].pc \in {"closed", "short"} /\ u \in marked => u \in news

LEMMA MarkerStep == TypeInv /\ MarkerInv /\ [HandoffNext]_handoffVars => MarkerInv'
<1> SUFFICES ASSUME TypeInv, MarkerInv, [HandoffNext]_handoffVars PROVE MarkerInv'
  OBVIOUS
<1>1. CASE UNCHANGED handoffVars
  BY <1>1 DEF handoffVars, worldVars, MarkerInv
<1>2. ASSUME NEW u \in Turns, Prepare(u) PROVE MarkerInv'
  <2>1. UNCHANGED <<job, marked, news>>
    BY <1>2 DEF Prepare, Build, StartTurn, worldVars
  <2>2. /\ \A v \in Turns \ {u} : ctl'[v] = ctl[v]
        /\ Build(u) => ctl'[u].pc = "built" /\ ctl'[u].known = {v \in Turns : job[v] # "none"}
        /\ StartTurn(u) => ctl'[u].pc = "search" /\ ctl'[u].known = ctl[u].known
    BY <1>2, PrepareMoves DEF TypeInv
  <2>3. CASE Build(u)
    <3>1. turn' = turn /\ job[u] = "none"
      BY <2>3 DEF Build, worldVars, MarkerInv
    <3> QED
      BY <2>1, <2>2, <2>3, <3>1 DEF MarkerInv
  <2>4. CASE StartTurn(u)
    <3>1. turn' = [turn EXCEPT ![u] = "active"]
      BY <2>4 DEF StartTurn
    <3> QED
      BY <2>1, <2>2, <2>4, <3>1 DEF MarkerInv, TypeInv, WorldTypeOK
  <2> QED
    BY <1>2, <2>3, <2>4 DEF Prepare
<1>3. ASSUME NEW u \in Turns, World(u), ~Prepare(u) PROVE MarkerInv'
  <2>1. ctl' = ctl /\ \A v \in Turns : turn'[v] = "none" <=> turn[v] = "none"
    BY <1>3, WorldSteps
  <2>2. \A v \in Turns : turn'[v] = "none" => job'[v] = "none"
    <3>1. CASE Launch(u)
      BY <3>1 DEF Launch, MarkerInv, TypeInv, WorldTypeOK
    <3>2. CASE JobEnds(u)
      BY <3>2 DEF JobEnds, MarkerInv, TypeInv, WorldTypeOK
    <3>3. CASE ~Launch(u) /\ ~JobEnds(u)
      <4>1. job' = job
        BY <1>3, <3>3 DEF World, Threshold, WriteMarker, PrintMarker, PrintResult, KillLauncher,
                          TurnCloses
      <4> QED
        BY <2>1, <4>1 DEF MarkerInv
    <3> QED
      BY <3>1, <3>2, <3>3
  <2>3. \A v \in Turns : ctl'[v].pc \in {"closed", "short"} /\ v \in marked' => v \in news'
    <3>1. CASE WriteMarker(u)
      BY <2>1, <3>1 DEF WriteMarker, MarkerInv
    <3>2. CASE ~WriteMarker(u)
      <4>1. marked' = marked /\ news' = news
        BY <1>3, <3>2 DEF World, Launch, Threshold, PrintMarker, PrintResult, KillLauncher, JobEnds,
                          TurnCloses, Controls
      <4> QED
        BY <2>1, <4>1 DEF MarkerInv
    <3> QED
      BY <3>1, <3>2
  <2> QED
    BY <2>1, <2>2, <2>3 DEF MarkerInv
<1>4. ASSUME NEW u \in Turns, Control(u) \/ TimesOut(u) PROVE MarkerInv'
  <2>1. /\ Moved(u) /\ Controlled
        /\ news' = IF Search(u) THEN news \ {u} ELSE news
        /\ \A v \in Turns : turn'[v] = "none" <=> turn[v] = "none"
        /\ ctl'[u].pc # "none"
        /\ ctl'[u].pc \in {"closed", "short"} =>
              \/ Search(u) /\ StoredMarkers(u) = {}
              \/ ~Search(u) /\ ctl[u].pc = "closed"
    BY <1>4, ControlSteps
  <2>2. job' = job /\ marked' = marked
    BY <2>1 DEF Controlled
  <2>3. \A v \in Turns : /\ v \notin ctl'[v].known
                         /\ ctl'[v].pc = "none" => turn'[v] = "none"
                         /\ turn'[v] = "none" => job'[v] = "none"
    BY <2>1, <2>2 DEF Moved, MarkerInv
  <2>4. ASSUME NEW v \in Turns, ctl'[v].pc \in {"closed", "short"}, v \in marked
        PROVE  v \in news'
    <3>1. CASE v # u
      BY <2>1, <2>4, <3>1 DEF Moved, MarkerInv
    <3>2. CASE v = u /\ Search(u)
      BY <2>1, <2>4, <3>2 DEF MarkerInv, StoredMarkers
    <3>3. CASE v = u /\ ~Search(u)
      BY <2>1, <2>4, <3>3 DEF MarkerInv
    <3> QED
      BY <3>1, <3>2, <3>3
  <2> QED
    BY <2>2, <2>3, <2>4 DEF MarkerInv
<1>5. ASSUME NEW h \in Threads, OtherNote(h) PROVE MarkerInv'
  BY <1>5 DEF OtherNote, Controls, MarkerInv
<1> QED
  BY <1>1, <1>2, <1>3, <1>4, <1>5 DEF HandoffNext

(* A controller never says that its turn had no marker when its command    *)
(* wrote one before the last search.                                       *)
THEOREM MarkersFound == HandoffSpec => MarkerIsNotMissed
<1>1. HandoffInit => MarkerInv
  <2> SUFFICES ASSUME HandoffInit, NEW u \in Turns
      PROVE  /\ u \notin ctl[u].known /\ job[u] = "none" /\ turn[u] = "none"
             /\ ctl[u].pc \notin {"closed", "short"}
    BY DEF MarkerInv
  <2>1. ctl[u].known = {} /\ ctl[u].pc = "none" /\ job[u] = "none" /\ turn[u] = "none"
    BY DEF HandoffInit
  <2> QED
    BY <2>1
<1>2. HandoffSpec => []MarkerInv
  BY <1>1, MarkerStep, TypeInvHolds, PTL DEF HandoffSpec
<1> DEFINE Said == \A u \in Turns :
                     At(u, "short") /\ ctl'[u].pc = "raised" /\ u \in marked => u \in news
<1>3. MarkerInv => Said
  BY DEF MarkerInv, At
<1>4. MarkerInv /\ [HandoffNext]_handoffVars => [Said]_handoffVars
  BY <1>3
<1> QED
  BY <1>2, <1>4, PTL DEF HandoffSpec, MarkerIsNotMissed

-----------------------------------------------------------------------------
(* Waits.                                                                  *)

Ending(u) == [kind |-> "completed", turn |-> u]

(* What the wait for the end of u has passed is in the buffer, and is not  *)
(* the end of u.                                                           *)
NothingPassed(u) ==
  \A i \in 1..ctl[u].index :
    i \in DOMAIN notes[ThreadOf[u]] /\ notes[ThreadOf[u]][i] # Ending(u)

WaitInv ==
  \A u \in Turns : ThreadOf[u] \notin lost =>
    /\ turn[u] = "closed" => Seen(u, "completed")
    /\ ctl[u].pc = "wait" => NothingPassed(u)

LEMMA EndIsAhead ==
  ASSUME TypeInv, WaitInv, NEW u \in Turns, ctl[u].pc = "wait", turn[u] = "closed",
         ThreadOf[u] \notin lost
  PROVE  CompletionUnread(u)
<1>1. PICK i \in DOMAIN notes[ThreadOf[u]] : notes[ThreadOf[u]][i] = Ending(u)
  BY DEF WaitInv, Seen, Ending
<1>2. i \notin 1..ctl[u].index
  BY <1>1 DEF WaitInv, NothingPassed
<1>3. i \in Nat /\ i > 0 /\ ctl[u].index \in Nat
  BY <1>1, TurnsHaveThreads, LengthsAreNat
     DEF TypeInv, NotesTypeOK, ControlTypeOK, Controller
<1>4. i > ctl[u].index
  BY <1>2, <1>3
<1> QED
  BY <1>1, <1>4 DEF CompletionUnread, Unread, Ending

(* A notification that drops none is appended: what a wait has passed and  *)
(* what it will see stay where they are.                                   *)
LEMMA NotifyWaits ==
  ASSUME TypeInv, WaitInv, NEW h \in Threads, NEW kind, NEW w,
         [kind |-> kind, turn |-> w] \in Note, Notify(h, kind, w), ctl' = ctl,
         \A v \in Turns : turn'[v] = "closed" =>
            turn[v] = "closed" \/ (v = w /\ kind = "completed" /\ h = ThreadOf[w])
  PROVE  WaitInv'
<1> SUFFICES ASSUME NEW u \in Turns, ThreadOf[u] \notin lost'
             PROVE  /\ turn'[u] = "closed" => Seen(u, "completed")'
                    /\ ctl[u].pc = "wait" => NothingPassed(u)'
  BY DEF WaitInv
<1> DEFINE k == ThreadOf[u]
<1>1. k \in Threads /\ notes[k] \in Seq(Note)
  BY TurnsHaveThreads DEF TypeInv, NotesTypeOK
<1>2. NotesTypeOK
  BY DEF TypeInv
<1>3. CASE k # h
  <2>1. notes'[k] = notes[k] /\ k \notin lost
    BY <1>1, <1>2, <1>3, NotifyNotes
  <2>2. turn'[u] = "closed" => turn[u] = "closed"
    BY <1>3
  <2> QED
    BY <2>1, <2>2 DEF WaitInv, Seen, NothingPassed
<1>4. CASE k = h
  <2>1. /\ k \notin lost
        /\ Len(notes'[k]) = Len(notes[k]) + 1
        /\ notes'[k][Len(notes[k]) + 1] = [kind |-> kind, turn |-> w]
        /\ \A i \in 1..Len(notes[k]) : notes'[k][i] = notes[k][i]
    BY <1>2, <1>4, NotifyNotes
  <2>2. NotesTypeOK'
    BY <1>2, NotifyType
  <2>3. /\ notes'[k] \in Seq(Note)
        /\ Len(notes[k]) \in Nat
        /\ DOMAIN notes[k] = 1..Len(notes[k])
    BY <1>1, <2>2 DEF NotesTypeOK
  <2>4. /\ DOMAIN notes'[k] = 1..Len(notes[k]) + 1
        /\ Len(notes[k]) + 1 \in DOMAIN notes'[k]
        /\ \A i \in DOMAIN notes[k] : i \in DOMAIN notes'[k]
    BY <2>1, <2>3
  <2>5. Seen(u, "completed") => Seen(u, "completed")'
    BY <2>1, <2>3, <2>4 DEF Seen
  <2>6. (u = w /\ kind = "completed") => Seen(u, "completed")'
    BY <2>1, <2>4 DEF Seen
  <2>7. NothingPassed(u) => NothingPassed(u)'
    BY <2>1, <2>3, <2>4 DEF NothingPassed, Ending
  <2> QED
    BY <2>1, <2>5, <2>6, <2>7 DEF WaitInv
<1> QED
  BY <1>3, <1>4

LEMMA WaitStep == TypeInv /\ WaitInv /\ [HandoffNext]_handoffVars => WaitInv'
<1> SUFFICES ASSUME TypeInv, WaitInv, [HandoffNext]_handoffVars PROVE WaitInv'
  OBVIOUS
<1>1. CASE UNCHANGED handoffVars
  BY <1>1 DEF handoffVars, worldVars, WaitInv, Seen, NothingPassed
<1>2. ASSUME NEW u \in Turns, World(u) PROVE WaitInv'
  <2>1. ThreadOf[u] \in Threads
    BY TurnsHaveThreads
  <2>2. CASE PrintMarker(u)
    BY <2>1, <2>2, NoteTypes, NotifyWaits DEF PrintMarker, Controls
  <2>3. CASE TurnCloses(u)
    <3>1. \A v \in Turns : turn'[v] = "closed" => turn[v] = "closed" \/ v = u
      BY <2>3 DEF TurnCloses, TypeInv, WorldTypeOK
    <3> QED
      BY <2>1, <2>3, <3>1, NoteTypes, NotifyWaits DEF TurnCloses, Controls
  <2>4. CASE ~PrintMarker(u) /\ ~TurnCloses(u)
    <3>1. notes' = notes /\ lost' = lost
      BY <1>2, <2>4 DEF World, Prepare, Build, StartTurn, worldVars, Launch, Threshold,
                        WriteMarker, PrintResult, KillLauncher, JobEnds
    <3>2. \A v \in Turns : turn'[v] = "closed" => turn[v] = "closed"
      BY <1>2, <2>4 DEF World, Prepare, Build, StartTurn, worldVars, Launch, Threshold,
                        WriteMarker, PrintResult, KillLauncher, JobEnds, TypeInv, WorldTypeOK
    <3>3. \A v \in Turns : ctl'[v].pc = "wait" => ctl'[v] = ctl[v]
      BY <1>2, WorldSteps
    <3> QED
      BY <3>1, <3>2, <3>3 DEF WaitInv, Seen, NothingPassed
  <2> QED
    BY <2>2, <2>3, <2>4
<1>3. ASSUME NEW u \in Turns, Control(u) \/ TimesOut(u) PROVE WaitInv'
  <2>1. /\ Moved(u) /\ notes' = notes /\ lost' = lost
        /\ \A v \in Turns : turn'[v] = "closed" <=> turn[v] = "closed"
    BY <1>3, ControlSteps DEF Controlled
  <2>2. ctl'[u].pc = "wait" =>
           \/ ctl'[u].index = 0
           \/ /\ ~CompletionUnread(u) /\ ctl[u].pc = "wait"
              /\ ctl'[u].index = Len(notes[ThreadOf[u]])
    BY <1>3, ControlSteps
  <2>3. ASSUME NEW v \in Turns, v # u, ctl'[v].pc = "wait", ThreadOf[v] \notin lost
        PROVE  NothingPassed(v)'
    BY <2>1, <2>3 DEF Moved, WaitInv, NothingPassed
  <2>4. ASSUME ctl'[u].pc = "wait", ThreadOf[u] \notin lost PROVE NothingPassed(u)'
    <3>1. CASE ctl'[u].index = 0
      BY <3>1 DEF NothingPassed
    <3>2. CASE /\ ~CompletionUnread(u) /\ ctl[u].pc = "wait"
               /\ ctl'[u].index = Len(notes[ThreadOf[u]])
      <4>1. /\ DOMAIN notes[ThreadOf[u]] = 1..Len(notes[ThreadOf[u]])
            /\ ctl[u].index \in Nat
        BY TurnsHaveThreads, LengthsAreNat
           DEF TypeInv, NotesTypeOK, ControlTypeOK, Controller
      <4> SUFFICES ASSUME NEW i \in 1..Len(notes[ThreadOf[u]]),
                          notes[ThreadOf[u]][i] = Ending(u)
                   PROVE  FALSE
        BY <2>1, <3>2, <4>1 DEF NothingPassed
      <4>2. i \in 1..ctl[u].index
        <5>1. ~(i > ctl[u].index)
          BY <3>2, <4>1 DEF CompletionUnread, Unread, Ending
        <5> QED
          BY <4>1, <5>1
      <4> QED
        BY <2>4, <3>2, <4>2 DEF WaitInv, NothingPassed
    <3> QED
      BY <2>2, <2>4, <3>1, <3>2
  <2> QED
    BY <2>1, <2>3, <2>4 DEF WaitInv, Seen
<1>4. ASSUME NEW h \in Threads, OtherNote(h) PROVE WaitInv'
  <2>1. turn' = turn /\ ctl' = ctl /\ Notify(h, "other", None)
    BY <1>4 DEF OtherNote, Controls
  <2>2. [kind |-> "other", turn |-> None] \in Note
    BY DEF Note
  <2> QED
    BY <2>1, <2>2, NotifyWaits
<1> QED
  BY <1>1, <1>2, <1>3, <1>4 DEF HandoffNext

(* A wait for a turn that is over times out only if the buffer dropped a   *)
(* notification of the thread.                                             *)
THEOREM EndsSeen == HandoffSpec => WaitMissesOnlyDropped
<1>1. HandoffInit => WaitInv
  <2> SUFFICES ASSUME HandoffInit, NEW u \in Turns
      PROVE  turn[u] = "none" /\ ctl[u].pc = "none"
    BY DEF WaitInv
  <2> QED
    BY DEF HandoffInit
<1>2. HandoffSpec => []WaitInv
  BY <1>1, WaitStep, TypeInvHolds, PTL DEF HandoffSpec
<1> DEFINE Excused == \A u \in Turns :
              At(u, "wait") /\ ctl'[u].pc = "raised" /\ turn[u] = "closed" => ThreadOf[u] \in lost
<1>3. TypeInv /\ WaitInv /\ [HandoffNext]_handoffVars => [Excused]_handoffVars
  <2> SUFFICES ASSUME TypeInv, WaitInv, HandoffNext, NEW u \in Turns, ctl[u].pc = "wait",
                      ctl'[u].pc = "raised", turn[u] = "closed", ThreadOf[u] \notin lost
               PROVE  FALSE
    BY DEF At
  <2>1. CompletionUnread(u)
    BY EndIsAhead
  <2>2. ASSUME NEW v \in Turns, World(v) PROVE FALSE
    BY <2>2, WorldSteps
  <2>3. ASSUME NEW v \in Turns, v # u, Control(v) \/ TimesOut(v) PROVE FALSE
    BY <2>3, ControlSteps DEF Moved
  <2>4. CASE WaitTurn(u)
    BY <2>4, WaitMovesOn
  <2>5. CASE WaitTimesOut(u)
    BY <2>1, <2>5 DEF WaitTimesOut
  <2>6. CASE ~WaitTurn(u) /\ ~WaitTimesOut(u) /\ (Control(u) \/ TimesOut(u))
    BY <2>6 DEF Control, TimesOut, Search, CheckClosed, CheckResults, RecordHandoff, CloseTurn,
                Interrupt, InterruptFails, Raced, HandoffReturns, WaitForJob, StartContinuation,
                Routed, RegistryFails, HandoffTimesOut, JobTimesOut, At
  <2>7. ASSUME NEW h \in Threads, OtherNote(h) PROVE FALSE
    BY <2>7 DEF OtherNote, Controls
  <2> QED
    BY <2>2, <2>3, <2>4, <2>5, <2>6, <2>7 DEF HandoffNext
<1> QED
  BY <1>2, <1>3, TypeInvHolds, PTL DEF HandoffSpec, WaitMissesOnlyDropped
=============================================================================
