---------------------------- MODULE Runner_proofs ----------------------------
(***************************************************************************)
(* What Runner keeps whatever the number of operators, loops and turns:    *)
(* it is well typed, and an ended run stays ended.  As long as no two      *)
(* commands overlap, a run has one driver, memory and the row agree at     *)
(* rest, the row moves along the lifecycle's graph, the context is held to *)
(* the end, the store never has a reason to refuse a turn's record, and no *)
(* failure leaves a run in play with nothing at work on it and nothing     *)
(* said.                                                                   *)
(***************************************************************************)
EXTENDS Runner, WellFoundedInduction, TLAPS

(* The turn an actor works on is a real one, and from its quicksave on it  *)
(* has a save on record; what TypeOK needs to be inductive.                *)
TurnOK(f, saved) ==
  /\ f.pc \notin {"idle", "top", "failing", "noting"} => f.turn \in Turns
  /\ f.pc \notin {"idle", "top", "boundary", "failing", "noting"} =>
       f.turn \in saved

TurnInv == \A a \in Actors : TurnOK(proc[a], saves)

TypeInv == TypeOK /\ TurnInv

Rows == [lifecycle : RL!LifecycleState,
         resolution : RL!StopResolution \cup {"none"}]

-----------------------------------------------------------------------------
(* What the helpers of the module return. *)

(* The states and the resolutions the actions name. *)
LEMMA States ==
  /\ {"preparing", "playing", "paused", "interrupted", "resuming", "finished",
      "failed"} \subseteq RL!LifecycleState
  /\ {"turn_reached", "victory", "defeat", "operator_stop",
      "unrecoverable_failure"} \subseteq RL!StopResolution
BY DEF RL!LifecycleState, RL!StopResolution

(* What update_run stores is a row. *)
LEMMA StoredRow ==
  ASSUME NEW to \in RL!LifecycleState, NEW res \in RL!StopResolution \cup {"none"},
         TypeOK, StoreRow(to, res)
  PROVE  row' \in Rows
BY DEF TypeOK, StoreRow, Merged, Rows

(* The frame At builds, field by field. *)
LEMMA AtFrame ==
  ASSUME NEW pc \in ProcPC, NEW t \in 0 .. MaxTurn, NEW from \in 0 .. MaxTurn,
         NEW external \in BOOLEAN
  PROVE  /\ At(pc, t, from, external) \in Frames
         /\ At(pc, t, from, external).pc = pc
         /\ At(pc, t, from, external).turn = t
         /\ At(pc, t, from, external).run = "playing"
         /\ At(pc, t, from, external).external = external
BY DEF At, Frames, RL!LifecycleState

(* The frames that carry no turn. *)
LEMMA Frame0 ==
  ASSUME NEW pc \in {"idle", "top", "failing", "noting"}, NEW external \in BOOLEAN
  PROVE  /\ At(pc, 0, 0, external) \in Frames
         /\ At(pc, 0, 0, external).pc = pc
         /\ TurnOK(At(pc, 0, 0, external), saves')
BY AtFrame, ConstantsOK DEF ProcPC, TurnOK

(* An actor is given a frame, the others keep theirs. *)
LEMMA FrameSet ==
  ASSUME TypeInv, NEW a \in Actors, NEW f \in Frames, TurnOK(f, saves'),
         proc' = [proc EXCEPT ![a] = f], saves \subseteq saves'
  PROVE  proc' \in [Actors -> Frames] /\ TurnInv'
BY DEF TypeInv, TypeOK, TurnInv, TurnOK

(* An actor moves on in the same frame, perhaps with another Run in hand. *)
LEMMA FrameMoved ==
  ASSUME TypeInv, NEW a \in Actors, NEW pc \in ProcPC,
         NEW run \in RL!LifecycleState \cup {"unknown"}, NEW fails \in Nat,
         proc[a].turn \in Turns \cap saves',
         proc' = [proc EXCEPT ![a].pc = pc, ![a].run = run, ![a].fails = fails],
         saves \subseteq saves'
  PROVE  proc' \in [Actors -> Frames] /\ TurnInv'
<1>1. [[[proc[a] EXCEPT !.pc = pc] EXCEPT !.run = run] EXCEPT !.fails = fails]
        \in Frames
  BY DEF TypeInv, TypeOK, Frames
<1>3. proc' \in [Actors -> Frames]
  BY <1>1 DEF TypeInv, TypeOK
<1>2. TurnInv'
  BY DEF TypeInv, TypeOK, TurnInv, TurnOK, Frames
<1> QED BY <1>2, <1>3

(* Goto is FrameMoved with nothing else changed. *)
LEMMA FrameGoto ==
  ASSUME TypeInv, NEW a \in Actors, NEW pc \in ProcPC,
         proc[a].turn \in Turns \cap saves', Goto(a, pc), saves \subseteq saves'
  PROVE  proc' \in [Actors -> Frames] /\ TurnInv'
<1>1. proc' \in [Actors -> Frames]
  BY DEF TypeInv, TypeOK, Frames, Goto
<1>2. TurnInv'
  BY DEF TypeInv, TypeOK, TurnInv, TurnOK, Frames, Goto
<1> QED BY <1>1, <1>2

(* No actor moves. *)
LEMMA FrameKept ==
  ASSUME TypeInv, UNCHANGED proc, saves \subseteq saves'
  PROVE  proc' \in [Actors -> Frames] /\ TurnInv'
BY DEF TypeInv, TypeOK, TurnInv, TurnOK

(* A coroutine or a handler returns. *)
LEMMA ReturnFrame ==
  ASSUME TypeInv, NEW a \in Actors, Return(a), saves \subseteq saves'
  PROVE  proc' \in [Actors -> Frames] /\ TurnInv'
BY Frame0, FrameSet DEF Return, Idle

(* The play loop catches an exception. *)
LEMMA RaiseFrame ==
  ASSUME TypeInv, NEW a \in Actors, Raise(a), saves \subseteq saves'
  PROVE  proc' \in [Actors -> Frames] /\ TurnInv'
BY Frame0, FrameSet DEF Raise

(* Whoever drives a recovery catches its exception. *)
LEMMA RecoveryRaisesFrame ==
  ASSUME TypeInv, NEW a \in Actors, NEW external \in BOOLEAN,
         RecoveryRaises(a, external), saves \subseteq saves'
  PROVE  proc' \in [Actors -> Frames] /\ TurnInv'
<1> DEFINE pc == IF a \in Loops THEN "failing" ELSE "noting"
           f == At(pc, 0, 0, a \in Loops /\ external)
<1>1. f \in Frames /\ TurnOK(f, saves')
  BY Frame0
<1>2. proc' = [proc EXCEPT ![a] = f]
  BY DEF RecoveryRaises
<1> HIDE DEF f
<1> QED BY <1>1, <1>2, FrameSet

(* The loop a command schedules. *)
LEMMA LoopFrame ==
  ASSUME TypeInv, NEW l \in Loops, proc' = [proc EXCEPT ![l] = AtTop],
         saves \subseteq saves'
  PROVE  proc' \in [Actors -> Frames] /\ TurnInv'
BY Frame0, FrameSet DEF AtTop, Actors

(* An actor moves on with another Run in hand. *)
LEMMA RunMoved ==
  ASSUME TypeInv, NEW a \in Actors, NEW pc \in ProcPC,
         NEW run \in RL!LifecycleState \cup {"unknown"},
         proc[a].turn \in Turns \cap saves',
         proc' = [proc EXCEPT ![a].pc = pc, ![a].run = run], saves \subseteq saves'
  PROVE  proc' \in [Actors -> Frames] /\ TurnInv'
<1>1. [[proc[a] EXCEPT !.pc = pc] EXCEPT !.run = run] \in Frames
  BY DEF TypeInv, TypeOK, Frames
<1>2. proc' \in [Actors -> Frames]
  BY <1>1 DEF TypeInv, TypeOK
<1>3. TurnInv'
  BY DEF TypeInv, TypeOK, TurnInv, TurnOK, Frames
<1> QED BY <1>2, <1>3

(* A finished rewind returns as the loop it schedules starts. *)
LEMMA TwoFrames ==
  ASSUME TypeInv, NEW p \in Operators, NEW l \in Loops,
         proc' = [proc EXCEPT ![p] = Idle, ![l] = AtTop], saves \subseteq saves'
  PROVE  proc' \in [Actors -> Frames] /\ TurnInv'
<1>1. /\ Idle \in Frames /\ TurnOK(Idle, saves')
      /\ AtTop \in Frames /\ TurnOK(AtTop, saves')
  BY Frame0 DEF Idle, AtTop
<1>2. proc' \in [Actors -> Frames]
  BY <1>1 DEF TypeInv, TypeOK, Actors
<1>3. TurnInv'
  BY <1>1 DEF TypeInv, TypeOK, TurnInv, TurnOK, Actors
<1> QED BY <1>2, <1>3

(* evaluate_stop answers with a resolution or with none. *)
LEMMA Resolved ==
  ASSUME NEW t, NEW outcome \in {"none", "victory", "defeat"}
  PROVE  EvaluateStop(t, outcome) \in RL!StopResolution \cup {"none"}
BY DEF EvaluateStop, RL!StopResolution

-----------------------------------------------------------------------------
(* The initial state is well typed. *)
LEMMA TypeInit == Init => TypeInv
<1> SUFFICES ASSUME Init PROVE TypeInv
  OBVIOUS
<1>1. proc \in [Actors -> Frames] /\ TurnInv
  <2>1. Idle \in Frames /\ Idle.pc = "idle"
    BY Frame0 DEF Idle
  <2> QED BY <2>1 DEF Init, TurnInv, TurnOK
<1>2. row \in Rows
  BY DEF Init, Rows, RL!LifecycleState
<1>3. turn \in 0 .. MaxTurn
  BY ConstantsOK DEF Init
<1> QED BY <1>1, <1>2, <1>3 DEF Init, TypeInv, TypeOK, Rows

(* Every step keeps the types. *)
LEMMA TypeStep == TypeInv /\ [Next]_vars => TypeInv'
<1> SUFFICES ASSUME TypeInv, [Next]_vars PROVE TypeInv'
  OBVIOUS
<1>1. ASSUME NEW first \in FirstTurns, NEW l \in Loops, Begin(first, l) PROVE TypeInv'
  <2>1. proc' \in [Actors -> Frames] /\ TurnInv'
    BY <1>1, LoopFrame DEF Begin, records
  <2>2. row' \in Rows
    BY <1>1, States, ConstantsOK, StoredRow DEF Begin, requests, records, TypeInv,
       TypeOK, Rows
  <2> QED BY <1>1, <2>1, <2>2, States, ConstantsOK
             DEF Begin, requests, records, TypeInv, TypeOK, Rows
<1>2. ASSUME FailPreparation PROVE TypeInv'
  <2>1. proc' \in [Actors -> Frames] /\ TurnInv'
    BY <1>2, FrameKept DEF FailPreparation, records
  <2>2. row' \in Rows
    BY <1>2, States, StoredRow
       DEF FailPreparation, Injected, requests, records, TypeInv, TypeOK, Rows
  <2>3. mem' \in RL!LifecycleState \cup {"unknown"} /\ turn' \in 0 .. MaxTurn
    BY <1>2, States DEF FailPreparation, Injected, requests, records, TypeInv, TypeOK
  <2>4. /\ pauseReq' \in BOOLEAN /\ stopReq' \in BOOLEAN /\ held' \in BOOLEAN
        /\ lastError' \in {"none", "handled", "resume_failed", "unexpected"}
    BY <1>2 DEF FailPreparation, Injected, requests, records, TypeInv, TypeOK
  <2>5. /\ saves' \subseteq Turns /\ absent' \subseteq saves'
        /\ authoritative' \subseteq Turns /\ lineage' \subseteq Turns
    BY <1>2 DEF FailPreparation, Injected, requests, records, TypeInv, TypeOK
  <2>6. failedInARow' \in Nat /\ faults' \in Nat
    BY <1>2 DEF FailPreparation, Injected, requests, records, TypeInv, TypeOK
  <2> QED BY <2>1, <2>2, <2>3, <2>4, <2>5, <2>6 DEF TypeInv, TypeOK, Rows
<1>3. ASSUME NEW p \in Operators, RequestPause(p) PROVE TypeInv'
  <2>1. proc' \in [Actors -> Frames] /\ TurnInv'
    BY <1>3, FrameKept DEF RequestPause, records
  <2>2. row' \in Rows
    BY <1>3 DEF RequestPause, records, TypeInv, TypeOK, Rows
  <2> QED BY <1>3, <2>1, <2>2, States DEF RequestPause, records, TypeInv, TypeOK, Rows
<1>4. ASSUME NEW p \in Operators, NEW l \in FreeSlots, Resume(p, l) PROVE TypeInv'
  <2>1. proc' \in [Actors -> Frames] /\ TurnInv'
    BY <1>4, LoopFrame DEF Resume, FreeSlots, records
  <2>2. row' \in Rows
    BY <1>4, States, StoredRow DEF Resume, records, TypeInv, TypeOK, Rows
  <2> QED BY <1>4, <2>1, <2>2, States DEF Resume, records, TypeInv, TypeOK, Rows
<1>5. ASSUME NEW p \in Operators, WithdrawPause(p) PROVE TypeInv'
  <2>1. proc' \in [Actors -> Frames] /\ TurnInv'
    BY <1>5, FrameKept DEF WithdrawPause, records
  <2>2. row' \in Rows
    BY <1>5 DEF WithdrawPause, records, TypeInv, TypeOK, Rows
  <2> QED BY <1>5, <2>1, <2>2, States DEF WithdrawPause, records, TypeInv, TypeOK, Rows
<1>6. ASSUME NEW p \in Operators, RequestStop(p) PROVE TypeInv'
  <2>1. proc' \in [Actors -> Frames] /\ TurnInv'
    BY <1>6, FrameKept DEF RequestStop, records
  <2>2. row' \in Rows
    BY <1>6 DEF RequestStop, records, TypeInv, TypeOK, Rows
  <2> QED BY <1>6, <2>1, <2>2, States DEF RequestStop, records, TypeInv, TypeOK, Rows
<1>7. ASSUME NEW p \in Operators, NEW t \in Turns, ResumeFrom(p, t) PROVE TypeInv'
  <2>1. proc' \in [Actors -> Frames] /\ TurnInv'
    <3>1. t \in 0 .. MaxTurn /\ turn \in 0 .. MaxTurn
      BY ConstantsOK DEF Turns, TypeInv, TypeOK
    <3>2. At("accepted", t, turn, FALSE) \in Frames
      BY <3>1, AtFrame DEF ProcPC
    <3>3. TurnOK(At("accepted", t, turn, FALSE), saves')
      BY <1>7 DEF ResumeFrom, records, At, TurnOK
    <3> QED BY <1>7, <3>2, <3>3, FrameSet DEF ResumeFrom, records, Actors
  <2>2. row' \in Rows
    BY <1>7 DEF ResumeFrom, requests, records, TypeInv, TypeOK, Rows
  <2> QED BY <1>7, <2>1, <2>2, States DEF ResumeFrom, requests, records, TypeInv,
     TypeOK, Rows
<1>8. ASSUME NEW p \in Operators, TakeSnapshot(p) PROVE TypeInv'
  <2>1. proc' \in [Actors -> Frames] /\ TurnInv'
    <3>1. p \in Actors /\ proc[p] \in Frames /\ proc[p].turn \in saves /\ proc[p].turn \in Turns
      BY <1>8 DEF TakeSnapshot, Actors, TypeInv, TypeOK, TurnInv, TurnOK
    <3>2. CASE Return(p)
      BY <1>8, <3>1, <3>2, ReturnFrame DEF TakeSnapshot, records
    <3>3. CASE proc' = [proc EXCEPT ![p].pc = "interrupting", ![p].run = "playing"]
      BY <1>8, <3>1, <3>3, RunMoved, States DEF TakeSnapshot, records, ProcPC
    <3>4. CASE proc' = [proc EXCEPT ![p].pc = "interrupting", ![p].run = mem]
      BY <1>8, <3>1, <3>4, RunMoved DEF TakeSnapshot, records, ProcPC, TypeInv, TypeOK
    <3> QED BY <1>8, <3>2, <3>3, <3>4 DEF TakeSnapshot
  <2>2. row' \in Rows
    BY <1>8, States, StoredRow DEF TakeSnapshot, requests, records, TypeInv, TypeOK, Rows
  <2> QED BY <1>8, <2>1, <2>2, States DEF TakeSnapshot, requests, records, TypeInv,
     TypeOK, Rows
<1>9. ASSUME NEW p \in Operators, NEW l \in FreeSlots, ReplayFrom(p, l) PROVE TypeInv'
  <2>1. proc' \in [Actors -> Frames] /\ TurnInv'
    <3>1. CASE Return(p)
      BY <1>9, <3>1, ReturnFrame DEF ReplayFrom, Actors
    <3>2. CASE proc' = [proc EXCEPT ![p] = Idle, ![l] = AtTop]
      BY <3>2, <1>9, TwoFrames DEF ReplayFrom, FreeSlots
    <3> QED BY <1>9, <3>1, <3>2 DEF ReplayFrom
  <2>2. row' \in Rows
    BY <1>9 DEF ReplayFrom, TypeInv, TypeOK, Rows
  <2>0. proc[p].turn \in Turns /\ proc[p].run \in RL!LifecycleState \cup {"unknown"}
    BY <1>9 DEF ReplayFrom, Frames, Actors, TypeInv, TypeOK, TurnInv, TurnOK
  <2>7. mem' = proc[p].run /\ (turn' = turn \/ turn' = proc[p].turn - 1)
    BY <1>9, ZenonT(30) DEF ReplayFrom
  <2>3. mem' \in RL!LifecycleState \cup {"unknown"} /\ turn' \in 0 .. MaxTurn
    BY <2>0, <2>7, ConstantsOK DEF Turns, TypeInv, TypeOK
  <2>4. /\ pauseReq' \in BOOLEAN /\ stopReq' \in BOOLEAN /\ held' \in BOOLEAN
        /\ lastError' \in {"none", "handled", "resume_failed", "unexpected"}
    BY <1>9 DEF ReplayFrom, TypeInv, TypeOK
  <2>5. /\ saves' \subseteq Turns /\ absent' \subseteq saves'
        /\ authoritative' \subseteq Turns /\ lineage' \subseteq Turns
    BY <2>0, <1>9 DEF ReplayFrom, TypeInv, TypeOK
  <2>6. failedInARow' \in Nat /\ faults' \in Nat
    BY <1>9 DEF ReplayFrom, TypeInv, TypeOK
  <2> QED BY <2>1, <2>2, <2>3, <2>4, <2>5, <2>6 DEF TypeInv, TypeOK, Rows
<1>10. ASSUME NEW p \in Operators, NoteResumeFailure(p) PROVE TypeInv'
  <2>1. proc' \in [Actors -> Frames] /\ TurnInv'
    BY <1>10, ReturnFrame DEF NoteResumeFailure, records, Actors
  <2>2. row' \in Rows
    BY <1>10 DEF NoteResumeFailure, requests, records, TypeInv, TypeOK, Rows
  <2> QED BY <1>10, <2>1, <2>2, States
             DEF NoteResumeFailure, requests, records, TypeInv, TypeOK, Rows
<1>11. ASSUME NEW l \in Loops, StopAtBoundary(l) PROVE TypeInv'
  <2>1. proc' \in [Actors -> Frames] /\ TurnInv'
    BY <1>11, ReturnFrame, RaiseFrame DEF StopAtBoundary, Finish, records, Actors
  <2>2. row' \in Rows
    BY <1>11, States, StoredRow
       DEF StopAtBoundary, Finish, requests, records, TypeInv, TypeOK, Rows
  <2> QED BY <1>11, <2>1, <2>2, States
             DEF StopAtBoundary, Finish, requests, records, TypeInv, TypeOK, Rows
<1>12. ASSUME NEW l \in Loops, PauseAtBoundary(l) PROVE TypeInv'
  <2>1. proc' \in [Actors -> Frames] /\ TurnInv'
    BY <1>12, ReturnFrame, RaiseFrame DEF PauseAtBoundary, records, Actors
  <2>2. row' \in Rows
    BY <1>12, States, StoredRow DEF PauseAtBoundary, requests, records, TypeInv,
       TypeOK, Rows
  <2> QED BY <1>12, <2>1, <2>2, States
             DEF PauseAtBoundary, requests, records, TypeInv, TypeOK, Rows
<1>13. ASSUME NEW l \in Loops, BeginTurn(l) PROVE TypeInv'
  <2>1. proc' \in [Actors -> Frames] /\ TurnInv'
    <3>1. turn + 1 \in Turns /\ turn + 1 \in 0 .. MaxTurn /\ 0 \in 0 .. MaxTurn
      BY <1>13, ConstantsOK DEF BeginTurn, Turns, TypeInv, TypeOK
    <3>2. At("boundary", turn + 1, 0, FALSE) \in Frames
      BY <3>1, AtFrame DEF ProcPC
    <3>3. TurnOK(At("boundary", turn + 1, 0, FALSE), saves')
      BY <3>1 DEF At, TurnOK
    <3> QED BY <1>13, <3>2, <3>3, FrameSet, ReturnFrame DEF BeginTurn, records, Actors
  <2>2. row' \in Rows
    BY <1>13 DEF BeginTurn, requests, records, TypeInv, TypeOK, Rows
  <2>3. mem' \in RL!LifecycleState \cup {"unknown"} /\ turn' \in 0 .. MaxTurn
    BY <1>13, ConstantsOK DEF BeginTurn, requests, records, TypeInv, TypeOK
  <2>4. /\ pauseReq' \in BOOLEAN /\ stopReq' \in BOOLEAN /\ held' \in BOOLEAN
        /\ lastError' \in {"none", "handled", "resume_failed", "unexpected"}
    BY <1>13 DEF BeginTurn, LastResort, requests, records, TypeInv, TypeOK
  <2>5. /\ saves' \subseteq Turns /\ absent' \subseteq saves'
        /\ authoritative' \subseteq Turns /\ lineage' \subseteq Turns
    BY <1>13 DEF BeginTurn, requests, records, TypeInv, TypeOK
  <2>6. failedInARow' \in Nat /\ faults' \in Nat
    BY <1>13 DEF BeginTurn, requests, records, TypeInv, TypeOK
  <2> QED BY <2>1, <2>2, <2>3, <2>4, <2>5, <2>6 DEF TypeInv, TypeOK, Rows
<1>14. ASSUME NEW l \in Loops, TakeQuicksave(l) PROVE TypeInv'
  <2>1. proc' \in [Actors -> Frames] /\ TurnInv'
    <3>1. l \in Actors /\ proc[l] \in Frames /\ proc[l].turn \in Turns
      BY <1>14 DEF TakeQuicksave, Actors, TypeInv, TypeOK, TurnInv, TurnOK
    <3>2. CASE Raise(l) /\ UNCHANGED saves
      BY <3>1, <3>2, RaiseFrame
    <3>3. CASE /\ saves' = saves \cup {proc[l].turn}
               /\ proc' = [proc EXCEPT ![l].pc = "cycle", ![l].run = mem]
      BY <3>1, <3>3, RunMoved DEF ProcPC, TypeInv, TypeOK
    <3> QED BY <1>14, <3>2, <3>3 DEF TakeQuicksave
  <2>2. row' \in Rows
    BY <1>14 DEF TakeQuicksave, NoFault, Injected, requests, TypeInv, TypeOK, Rows
  <2>0. proc[l].turn \in Turns /\ proc[l].run \in RL!LifecycleState \cup {"unknown"}
    BY <1>14 DEF TakeQuicksave, Frames, Actors, TypeInv, TypeOK, TurnInv, TurnOK
  <2>3. mem' \in RL!LifecycleState \cup {"unknown"} /\ turn' \in 0 .. MaxTurn
    BY <2>0, <1>14, States DEF TakeQuicksave, NoFault, Injected, requests, TypeInv, TypeOK
  <2>4. /\ pauseReq' \in BOOLEAN /\ stopReq' \in BOOLEAN /\ held' \in BOOLEAN
        /\ lastError' \in {"none", "handled", "resume_failed", "unexpected"}
    BY <1>14 DEF TakeQuicksave, NoFault, Injected, requests, TypeInv, TypeOK
  <2>5. /\ saves' \subseteq Turns /\ absent' \subseteq saves'
        /\ authoritative' \subseteq Turns /\ lineage' \subseteq Turns
    BY <2>0, <1>14 DEF TakeQuicksave, NoFault, Injected, requests, TypeInv, TypeOK
  <2>6. failedInARow' \in Nat /\ faults' \in Nat
    BY <1>14 DEF TakeQuicksave, NoFault, Injected, requests, TypeInv, TypeOK
  <2> QED BY <2>1, <2>2, <2>3, <2>4, <2>5, <2>6 DEF TypeInv, TypeOK, Rows
<1>15. ASSUME NEW l \in Loops, TurnRaises(l) PROVE TypeInv'
  <2>1. proc' \in [Actors -> Frames] /\ TurnInv'
    BY <1>15, RaiseFrame DEF TurnRaises, records, Actors
  <2>2. row' \in Rows
    BY <1>15 DEF TurnRaises, Injected, requests, records, TypeInv, TypeOK, Rows
  <2> QED BY <1>15, <2>1, <2>2, States
             DEF TurnRaises, Injected, requests, records, TypeInv, TypeOK, Rows
<1>16. ASSUME NEW l \in Loops, TurnRaisesUnexpected(l) PROVE TypeInv'
  <2>1. proc' \in [Actors -> Frames] /\ TurnInv'
    BY <1>16, ReturnFrame DEF TurnRaisesUnexpected, records, Actors
  <2>2. row' \in Rows
    BY <1>16 DEF TurnRaisesUnexpected, Injected, requests, records, TypeInv, TypeOK, Rows
  <2> QED BY <1>16, <2>1, <2>2, States
             DEF TurnRaisesUnexpected, LastResort, Injected, requests, records,
                 TypeInv, TypeOK, Rows
<1>17. ASSUME NEW l \in Loops, AbandonAttempt(l) PROVE TypeInv'
  <2>1. proc' \in [Actors -> Frames] /\ TurnInv'
    <3>1. l \in Actors /\ proc[l].turn \in Turns \cap saves
      BY <1>17 DEF AbandonAttempt, Actors, TypeInv, TurnInv, TurnOK
    <3> QED BY <1>17, <3>1, FrameGoto DEF AbandonAttempt, records, ProcPC
  <2>2. row' \in Rows
    BY <1>17 DEF AbandonAttempt, Injected, requests, records, TypeInv, TypeOK, Rows
  <2> QED BY <1>17, <2>1, <2>2, States
             DEF AbandonAttempt, Injected, requests, records, TypeInv, TypeOK, Rows
<1>18. ASSUME NEW l \in Loops, PersistTurn(l) PROVE TypeInv'
  <2>1. proc' \in [Actors -> Frames] /\ TurnInv'
    <3>1. l \in Actors /\ proc[l].turn \in Turns \cap saves
      BY <1>18 DEF PersistTurn, Actors, TypeInv, TurnInv, TurnOK
    <3> QED BY <1>18, <3>1, FrameGoto, RaiseFrame DEF PersistTurn, ProcPC
  <2>2. row' \in Rows
    BY <1>18 DEF PersistTurn, NoFault, Injected, requests, TypeInv, TypeOK, Rows
  <2>0. proc[l].turn \in Turns /\ proc[l].run \in RL!LifecycleState \cup {"unknown"}
    BY <1>18 DEF PersistTurn, Frames, Actors, TypeInv, TypeOK, TurnInv, TurnOK
  <2>3. mem' \in RL!LifecycleState \cup {"unknown"} /\ turn' \in 0 .. MaxTurn
    BY <2>0, <1>18, States DEF PersistTurn, NoFault, Injected, requests, TypeInv, TypeOK
  <2>4. /\ pauseReq' \in BOOLEAN /\ stopReq' \in BOOLEAN /\ held' \in BOOLEAN
        /\ lastError' \in {"none", "handled", "resume_failed", "unexpected"}
    BY <1>18 DEF PersistTurn, NoFault, Injected, requests, TypeInv, TypeOK
  <2>5. /\ saves' \subseteq Turns /\ absent' \subseteq saves'
        /\ authoritative' \subseteq Turns /\ lineage' \subseteq Turns
    BY <2>0, <1>18 DEF PersistTurn, NoFault, Injected, requests, TypeInv, TypeOK
  <2>6. failedInARow' \in Nat /\ faults' \in Nat
    BY <1>18 DEF PersistTurn, NoFault, Injected, requests, TypeInv, TypeOK
  <2> QED BY <2>1, <2>2, <2>3, <2>4, <2>5, <2>6 DEF TypeInv, TypeOK, Rows
<1>19. ASSUME NEW l \in Loops, EvaluateOutcome(l) PROVE TypeInv'
  <2>1. proc' \in [Actors -> Frames] /\ TurnInv'
    BY <1>19, ReturnFrame, RaiseFrame, LoopFrame DEF EvaluateOutcome, records, Actors
  <2>2. row' \in Rows
    BY <1>19, States, Resolved, StoredRow
       DEF EvaluateOutcome, NoFault, Injected, requests, records, TypeInv, TypeOK, Rows
  <2>0. proc[l].run \in RL!LifecycleState \cup {"unknown"}
    BY <1>19 DEF EvaluateOutcome, Frames, Actors, TypeInv, TypeOK, TurnInv, TurnOK
  <2>3. mem' \in RL!LifecycleState \cup {"unknown"} /\ turn' \in 0 .. MaxTurn
    BY <2>0, <1>19, States, Resolved
       DEF EvaluateOutcome, NoFault, Injected, requests, records, TypeInv, TypeOK
  <2>4. /\ pauseReq' \in BOOLEAN /\ stopReq' \in BOOLEAN /\ held' \in BOOLEAN
        /\ lastError' \in {"none", "handled", "resume_failed", "unexpected"}
    BY <1>19 DEF EvaluateOutcome, NoFault, Injected, requests, records, TypeInv, TypeOK
  <2>5. /\ saves' \subseteq Turns /\ absent' \subseteq saves'
        /\ authoritative' \subseteq Turns /\ lineage' \subseteq Turns
    BY <2>0, <1>19 DEF EvaluateOutcome, NoFault, Injected, requests, records, TypeInv,
       TypeOK
  <2>6. failedInARow' \in Nat /\ faults' \in Nat
    BY <1>19 DEF EvaluateOutcome, NoFault, Injected, requests, records, TypeInv, TypeOK
  <2> QED BY <2>1, <2>2, <2>3, <2>4, <2>5, <2>6 DEF TypeInv, TypeOK, Rows
<1>20. ASSUME NEW l \in Loops, HandleRunFailure(l) PROVE TypeInv'
  <2>1. proc' \in [Actors -> Frames] /\ TurnInv'
    BY <1>20, ReturnFrame DEF HandleRunFailure, records, Actors
  <2>2. row' \in Rows
    BY <1>20, States, StoredRow DEF HandleRunFailure, requests, records, TypeInv,
       TypeOK, Rows
  <2> QED BY <1>20, <2>1, <2>2, States
             DEF HandleRunFailure, LastResort, requests, records, TypeInv, TypeOK, Rows
<1>21. ASSUME NEW a \in Actors, Interrupt(a) PROVE TypeInv'
  <2>1. proc' \in [Actors -> Frames] /\ TurnInv'
    <3>1. a \in Actors /\ proc[a].turn \in Turns \cap saves
      BY <1>21 DEF Interrupt, Actors, TypeInv, TurnInv, TurnOK
    <3> QED BY <1>21, <3>1, FrameGoto, RecoveryRaisesFrame DEF Interrupt, records, ProcPC
  <2>2. row' \in Rows
    BY <1>21, States, StoredRow DEF Interrupt, requests, records, TypeInv, TypeOK, Rows
  <2> QED BY <1>21, <2>1, <2>2, States DEF Interrupt, requests, records, TypeInv,
     TypeOK, Rows
<1>22. ASSUME NEW a \in Actors, EnterResuming(a) PROVE TypeInv'
  <2>1. proc' \in [Actors -> Frames] /\ TurnInv'
    <3>1. a \in Actors /\ proc[a].turn \in Turns \cap saves
      BY <1>22 DEF EnterResuming, Actors, TypeInv, TurnInv, TurnOK
    <3> QED BY <1>22, <3>1, FrameGoto, RecoveryRaisesFrame DEF EnterResuming, records,
       ProcPC
  <2>2. row' \in Rows
    BY <1>22, States, StoredRow DEF EnterResuming, requests, records, TypeInv, TypeOK, Rows
  <2> QED BY <1>22, <2>1, <2>2, States DEF EnterResuming, requests, records, TypeInv,
     TypeOK, Rows
<1>23. ASSUME NEW a \in Actors, LoadSucceeds(a) PROVE TypeInv'
  <2>1. proc' \in [Actors -> Frames] /\ TurnInv'
    <3>1. a \in Actors /\ proc[a].turn \in Turns \cap saves /\ saves' = saves
      BY <1>23 DEF LoadSucceeds, records, Actors, TypeInv, TurnInv, TurnOK
    <3>2. CASE Raise(a)
      BY <3>1, <3>2, RaiseFrame
    <3>3. ASSUME NEW pc \in {"cycle", "superseding"},
                 proc' = [proc EXCEPT ![a].pc = pc, ![a].run = "playing", ![a].fails = 0]
          PROVE  proc' \in [Actors -> Frames] /\ TurnInv'
      <5>1. pc \in ProcPC
        BY DEF ProcPC
      <5>2. "playing" \in RL!LifecycleState \cup {"unknown"}
        BY States
      <5> HIDE DEF RL!LifecycleState
      <5> QED BY <3>1, <3>3, <5>1, <5>2, FrameMoved
    <3> QED BY <1>23, <3>2, <3>3 DEF LoadSucceeds
  <2>2. row' \in Rows
    BY <1>23, States, StoredRow
       DEF LoadSucceeds, NoFault, Injected, requests, records, TypeInv, TypeOK, Rows
  <2> QED BY <1>23, <2>1, <2>2, States
             DEF LoadSucceeds, NoFault, Injected, requests, records, TypeInv, TypeOK, Rows
<1>24. ASSUME NEW a \in Actors, LoadFails(a) PROVE TypeInv'
  <2>1. proc' \in [Actors -> Frames] /\ TurnInv'
    BY <1>24, RecoveryRaisesFrame DEF LoadFails, records
  <2>2. row' \in Rows
    BY <1>24, States, StoredRow
       DEF LoadFails, NoFault, Injected, requests, records, TypeInv, TypeOK, Rows
  <2> QED BY <1>24, <2>1, <2>2, States
             DEF LoadFails, NoFault, Injected, requests, records, TypeInv, TypeOK, Rows
<1>25. ASSUME NEW a \in Actors, SaveFoundMissing(a) PROVE TypeInv'
  <2>1. proc' \in [Actors -> Frames] /\ TurnInv'
    BY <1>25, RecoveryRaisesFrame DEF SaveFoundMissing
  <2>2. row' \in Rows
    BY <1>25, States, StoredRow
       DEF SaveFoundMissing, NoFault, Injected, requests, TypeInv, TypeOK, Rows
  <2>0. proc[a].turn \in saves /\ proc[a].run \in RL!LifecycleState \cup {"unknown"}
    BY <1>25 DEF SaveFoundMissing, Frames, Actors, TypeInv, TypeOK, TurnInv, TurnOK
  <2>3. mem' \in RL!LifecycleState \cup {"unknown"} /\ turn' \in 0 .. MaxTurn
    BY <2>0, <1>25, States DEF SaveFoundMissing, NoFault, Injected, requests, TypeInv,
       TypeOK
  <2>4. /\ pauseReq' \in BOOLEAN /\ stopReq' \in BOOLEAN /\ held' \in BOOLEAN
        /\ lastError' \in {"none", "handled", "resume_failed", "unexpected"}
    BY <1>25 DEF SaveFoundMissing, NoFault, Injected, requests, TypeInv, TypeOK
  <2>5. /\ saves' \subseteq Turns /\ absent' \subseteq saves'
        /\ authoritative' \subseteq Turns /\ lineage' \subseteq Turns
    BY <2>0, <1>25 DEF SaveFoundMissing, NoFault, Injected, requests, TypeInv, TypeOK
  <2>6. failedInARow' \in Nat /\ faults' \in Nat
    BY <1>25 DEF SaveFoundMissing, NoFault, Injected, requests, TypeInv, TypeOK
  <2> QED BY <2>1, <2>2, <2>3, <2>4, <2>5, <2>6 DEF TypeInv, TypeOK, Rows
<1>26. ASSUME ReleaseContext PROVE TypeInv'
  <2>1. proc' \in [Actors -> Frames] /\ TurnInv'
    BY <1>26, FrameKept DEF ReleaseContext, records
  <2>2. row' \in Rows
    BY <1>26 DEF ReleaseContext, NoFault, Injected, requests, records, TypeInv, TypeOK, Rows
  <2>3. mem' \in RL!LifecycleState \cup {"unknown"} /\ turn' \in 0 .. MaxTurn
    BY <1>26, States DEF ReleaseContext, NoFault, Injected, requests, records, TypeInv,
       TypeOK
  <2>4. /\ pauseReq' \in BOOLEAN /\ stopReq' \in BOOLEAN /\ held' \in BOOLEAN
        /\ lastError' \in {"none", "handled", "resume_failed", "unexpected"}
    BY <1>26 DEF ReleaseContext, NoFault, Injected, requests, records, TypeInv, TypeOK
  <2>5. /\ saves' \subseteq Turns /\ absent' \subseteq saves'
        /\ authoritative' \subseteq Turns /\ lineage' \subseteq Turns
    BY <1>26 DEF ReleaseContext, NoFault, Injected, requests, records, TypeInv, TypeOK
  <2>6. failedInARow' \in Nat /\ faults' \in Nat
    BY <1>26 DEF ReleaseContext, ClientGone, NoFault, Injected, requests, records,
       TypeInv, TypeOK
  <2> QED BY <2>1, <2>2, <2>3, <2>4, <2>5, <2>6 DEF TypeInv, TypeOK, Rows
<1>27. ASSUME NEW t \in Turns, Branch(t) PROVE TypeInv'
  <2>1. proc' \in [Actors -> Frames] /\ TurnInv'
    BY <1>27, FrameKept DEF Branch
  <2>2. row' \in Rows
    BY <1>27 DEF Branch, Injected, requests, TypeInv, TypeOK, Rows
  <2> QED BY <1>27, <2>1, <2>2, States
             DEF Branch, Injected, requests, records, TypeInv, TypeOK, Rows
<1>28. ASSUME UNCHANGED vars PROVE TypeInv'
  <2>1. proc' \in [Actors -> Frames] /\ TurnInv'
    BY <1>28, FrameKept DEF vars
  <2>2. row' \in Rows
    BY <1>28 DEF vars, TypeInv, TypeOK, Rows
  <2> QED BY <1>28, <2>1, <2>2, States DEF vars, requests, records, TypeInv, TypeOK, Rows
<1> QED
  BY <1>1, <1>2, <1>3, <1>4, <1>5, <1>6, <1>7, <1>8, <1>9, <1>10, <1>11, <1>12, <1>13,
     <1>14,
     <1>15, <1>16, <1>17, <1>18, <1>19, <1>20, <1>21, <1>22, <1>23, <1>24, <1>25, <1>26, <1>27,
     <1>28
  DEF Next, Start, Command, Continue, LoopStep, RecoveryStep, Environment, Actors

(* Every state of the specification is well typed. *)
THEOREM TypeCorrect == Spec => []TypeOK
<1>1. TypeInv => TypeOK
  BY DEF TypeInv
<1> QED BY <1>1, TypeInit, TypeStep, PTL DEF Spec

-----------------------------------------------------------------------------
(* A run mem does not know has no loop and no command at work; nobody holds *)
(* a Run that is not one; and a run that ended without a resolution failed *)
(* its preparation and was never played.                                   *)
Known ==
  /\ mem = "unknown" => AtRest
  /\ \A a \in Actors : proc[a].run # "unknown"
  /\ row.lifecycle \in RL!TERMINAL_STATES /\ row.resolution = "none" =>
       mem = "failed" /\ AtRest

(* The writes of the row: nothing, the preparation's outcome, an end with  *)
(* its resolution, or a state the store accepts for a run at work.         *)
RowWrite ==
  \/ UNCHANGED row
  \/ /\ row.lifecycle = "preparing"
     /\ \/ StoreRow("playing", "none")
        \/ StoreRow("failed", "none") /\ mem = "unknown" /\ FailPreparation
  \/ \E to \in RL!TERMINAL_STATES, res \in RL!StopResolution : StoreRow(to, res)
  \/ \E to \in RL!LifecycleState \ RL!TERMINAL_STATES :
       StoreAccepts(to, "none") /\ StoreRow(to, "none") /\ (mem = "paused" \/ ~AtRest)

(* The states a run at work is put in are not terminal ... *)
LEMMA NotTerminal ==
  {"playing", "paused", "interrupted", "resuming"}
     \subseteq RL!LifecycleState \ RL!TERMINAL_STATES
BY DEF RL!LifecycleState, RL!TERMINAL_STATES

(* ... and the terminal ones are these two. *)
LEMMA Terminal == {"finished", "failed"} = RL!TERMINAL_STATES
BY DEF RL!TERMINAL_STATES

(* What can still happen to a run nobody works on. *)
LEMMA Quiet ==
  ASSUME AtRest, mem \in {"unknown", "failed"}, [Next]_vars
  PROVE  UNCHANGED <<mem, row, proc>> \/ (mem = "unknown" /\ Start)
<1> USE DEF AtRest, Busy, Actors
<1>1. ASSUME NEW first \in FirstTurns, NEW l \in Loops, Begin(first, l)
      PROVE  mem = "unknown" /\ Start
  BY <1>1 DEF Begin, Start
<1>2. ASSUME FailPreparation PROVE mem = "unknown" /\ Start
  BY <1>2 DEF FailPreparation, Start
<1>3. ASSUME NEW p \in Operators, RequestPause(p) PROVE FALSE
  BY <1>3 DEF RequestPause
<1>4. ASSUME NEW p \in Operators, NEW l \in FreeSlots, Resume(p, l) PROVE FALSE
  BY <1>4 DEF Resume
<1>5. ASSUME NEW p \in Operators, WithdrawPause(p) PROVE FALSE
  BY <1>5 DEF WithdrawPause
<1>6. ASSUME NEW p \in Operators, RequestStop(p) PROVE FALSE
  BY <1>6 DEF RequestStop, RL!TERMINAL_STATES
<1>7. ASSUME NEW p \in Operators, NEW t \in Turns, ResumeFrom(p, t) PROVE FALSE
  BY <1>7 DEF ResumeFrom, Rewindable
<1>8. ASSUME NEW p \in Operators, TakeSnapshot(p) PROVE FALSE
  BY <1>8 DEF TakeSnapshot
<1>9. ASSUME NEW p \in Operators, NEW l \in FreeSlots, ReplayFrom(p, l) PROVE FALSE
  BY <1>9 DEF ReplayFrom
<1>10. ASSUME NEW p \in Operators, NoteResumeFailure(p) PROVE FALSE
  BY <1>10 DEF NoteResumeFailure
<1>11. ASSUME NEW l \in Loops, StopAtBoundary(l) PROVE FALSE
  BY <1>11 DEF StopAtBoundary
<1>12. ASSUME NEW l \in Loops, PauseAtBoundary(l) PROVE FALSE
  BY <1>12 DEF PauseAtBoundary
<1>13. ASSUME NEW l \in Loops, BeginTurn(l) PROVE FALSE
  BY <1>13 DEF BeginTurn
<1>14. ASSUME NEW l \in Loops, TakeQuicksave(l) PROVE FALSE
  BY <1>14 DEF TakeQuicksave
<1>15. ASSUME NEW l \in Loops, TurnRaises(l) PROVE FALSE
  BY <1>15 DEF TurnRaises
<1>16. ASSUME NEW l \in Loops, TurnRaisesUnexpected(l) PROVE FALSE
  BY <1>16 DEF TurnRaisesUnexpected
<1>17. ASSUME NEW l \in Loops, AbandonAttempt(l) PROVE FALSE
  BY <1>17 DEF AbandonAttempt
<1>18. ASSUME NEW l \in Loops, PersistTurn(l) PROVE FALSE
  BY <1>18 DEF PersistTurn
<1>19. ASSUME NEW l \in Loops, EvaluateOutcome(l) PROVE FALSE
  BY <1>19 DEF EvaluateOutcome
<1>20. ASSUME NEW l \in Loops, HandleRunFailure(l) PROVE FALSE
  BY <1>20 DEF HandleRunFailure, RL!TERMINAL_STATES
<1>21. ASSUME NEW a \in Actors, Interrupt(a) PROVE FALSE
  BY <1>21 DEF Interrupt
<1>22. ASSUME NEW a \in Actors, EnterResuming(a) PROVE FALSE
  BY <1>22 DEF EnterResuming
<1>23. ASSUME NEW a \in Actors, LoadSucceeds(a) PROVE FALSE
  BY <1>23 DEF LoadSucceeds
<1>24. ASSUME NEW a \in Actors, LoadFails(a) PROVE FALSE
  BY <1>24 DEF LoadFails
<1>25. ASSUME NEW a \in Actors, SaveFoundMissing(a) PROVE FALSE
  BY <1>25 DEF SaveFoundMissing
<1>26. ASSUME ReleaseContext PROVE UNCHANGED <<mem, row, proc>>
  BY <1>26 DEF ReleaseContext
<1>27. ASSUME NEW t \in Turns, Branch(t) PROVE UNCHANGED <<mem, row, proc>>
  BY <1>27 DEF Branch
<1>28. ASSUME UNCHANGED vars PROVE UNCHANGED <<mem, row, proc>>
  BY <1>28 DEF vars
<1> QED
  BY <1>1, <1>2, <1>3, <1>4, <1>5, <1>6, <1>7, <1>8, <1>9, <1>10, <1>11, <1>12, <1>13,
     <1>14,
     <1>15, <1>16, <1>17, <1>18, <1>19, <1>20, <1>21, <1>22, <1>23, <1>24, <1>25, <1>26, <1>27,
     <1>28
  DEF Next, Start, Command, Continue, LoopStep, RecoveryStep, Environment, Actors

(* Every step writes the row in one of those ways. *)
LEMMA RowWrites ==
  ASSUME TypeInv, Known, [Next]_vars
  PROVE  RowWrite
<1>1. ASSUME NEW first \in FirstTurns, NEW l \in Loops, Begin(first, l) PROVE RowWrite
  BY <1>1 DEF RowWrite, Begin
<1>2. ASSUME FailPreparation PROVE RowWrite
  BY <1>2 DEF RowWrite, FailPreparation
<1>3. ASSUME NEW p \in Operators, RequestPause(p) PROVE RowWrite
  BY <1>3 DEF RowWrite, RequestPause
<1>4. ASSUME NEW p \in Operators, NEW l \in FreeSlots, Resume(p, l) PROVE RowWrite
  BY <1>4, NotTerminal, Terminal, States DEF RowWrite, Resume, AtRest, Busy, Actors
<1>5. ASSUME NEW p \in Operators, WithdrawPause(p) PROVE RowWrite
  BY <1>5 DEF RowWrite, WithdrawPause
<1>6. ASSUME NEW p \in Operators, RequestStop(p) PROVE RowWrite
  BY <1>6 DEF RowWrite, RequestStop
<1>7. ASSUME NEW p \in Operators, NEW t \in Turns, ResumeFrom(p, t) PROVE RowWrite
  BY <1>7 DEF RowWrite, ResumeFrom
<1>8. ASSUME NEW p \in Operators, TakeSnapshot(p) PROVE RowWrite
  BY <1>8, NotTerminal, Terminal, States DEF RowWrite, TakeSnapshot, AtRest, Busy, Actors
<1>9. ASSUME NEW p \in Operators, NEW l \in FreeSlots, ReplayFrom(p, l) PROVE RowWrite
  BY <1>9 DEF RowWrite, ReplayFrom
<1>10. ASSUME NEW p \in Operators, NoteResumeFailure(p) PROVE RowWrite
  BY <1>10 DEF RowWrite, NoteResumeFailure
<1>11. ASSUME NEW l \in Loops, StopAtBoundary(l) PROVE RowWrite
  BY <1>11, NotTerminal, Terminal, States
     DEF RowWrite, StopAtBoundary, Finish, AtRest, Busy, Actors
<1>12. ASSUME NEW l \in Loops, PauseAtBoundary(l) PROVE RowWrite
  BY <1>12, NotTerminal, Terminal, States DEF RowWrite, PauseAtBoundary, AtRest, Busy,
     Actors
<1>13. ASSUME NEW l \in Loops, BeginTurn(l) PROVE RowWrite
  BY <1>13 DEF RowWrite, BeginTurn
<1>14. ASSUME NEW l \in Loops, TakeQuicksave(l) PROVE RowWrite
  BY <1>14 DEF RowWrite, TakeQuicksave
<1>15. ASSUME NEW l \in Loops, TurnRaises(l) PROVE RowWrite
  BY <1>15 DEF RowWrite, TurnRaises
<1>16. ASSUME NEW l \in Loops, TurnRaisesUnexpected(l) PROVE RowWrite
  BY <1>16 DEF RowWrite, TurnRaisesUnexpected
<1>17. ASSUME NEW l \in Loops, AbandonAttempt(l) PROVE RowWrite
  BY <1>17 DEF RowWrite, AbandonAttempt
<1>18. ASSUME NEW l \in Loops, PersistTurn(l) PROVE RowWrite
  BY <1>18 DEF RowWrite, PersistTurn
<1>19. ASSUME NEW l \in Loops, EvaluateOutcome(l) PROVE RowWrite
  BY <1>19, Resolved, Terminal, States DEF RowWrite, EvaluateOutcome
<1>20. ASSUME NEW l \in Loops, HandleRunFailure(l) PROVE RowWrite
  BY <1>20, NotTerminal, Terminal, States DEF RowWrite, HandleRunFailure, AtRest, Busy,
     Actors
<1>21. ASSUME NEW a \in Actors, Interrupt(a) PROVE RowWrite
  BY <1>21, NotTerminal, Terminal, States DEF RowWrite, Interrupt, AtRest, Busy, Actors
<1>22. ASSUME NEW a \in Actors, EnterResuming(a) PROVE RowWrite
  BY <1>22, NotTerminal, Terminal, States DEF RowWrite, EnterResuming, AtRest, Busy, Actors
<1>23. ASSUME NEW a \in Actors, LoadSucceeds(a) PROVE RowWrite
  BY <1>23, NotTerminal, Terminal, States DEF RowWrite, LoadSucceeds, AtRest, Busy, Actors
<1>24. ASSUME NEW a \in Actors, LoadFails(a) PROVE RowWrite
  BY <1>24, NotTerminal, Terminal, States DEF RowWrite, LoadFails, AtRest, Busy, Actors
<1>25. ASSUME NEW a \in Actors, SaveFoundMissing(a) PROVE RowWrite
  BY <1>25, NotTerminal, Terminal, States DEF RowWrite, SaveFoundMissing, AtRest, Busy,
     Actors
<1>26. ASSUME ReleaseContext PROVE RowWrite
  BY <1>26 DEF RowWrite, ReleaseContext
<1>27. ASSUME NEW t \in Turns, Branch(t) PROVE RowWrite
  BY <1>27 DEF RowWrite, Branch
<1>28. ASSUME UNCHANGED vars PROVE RowWrite
  BY <1>28 DEF RowWrite, vars
<1> QED
  BY <1>1, <1>2, <1>3, <1>4, <1>5, <1>6, <1>7, <1>8, <1>9, <1>10, <1>11, <1>12, <1>13,
     <1>14,
     <1>15, <1>16, <1>17, <1>18, <1>19, <1>20, <1>21, <1>22, <1>23, <1>24, <1>25, <1>26, <1>27,
     <1>28
  DEF Next, Start, Command, Continue, LoopStep, RecoveryStep, Environment, Actors

(* Once mem knows the run it goes on knowing it. *)
LEMMA MemKnown ==
  ASSUME TypeInv, Known, [Next]_vars
  PROVE  /\ mem' = "unknown" => mem = "unknown"
         /\ \A a \in Actors : proc'[a].run # "unknown"
<1>1. ASSUME NEW first \in FirstTurns, NEW l \in Loops, Begin(first, l)
      PROVE  /\ mem' = "unknown" => mem = "unknown"
             /\ \A a1 \in Actors : proc'[a1].run # "unknown"
  BY <1>1 DEF Begin, AtTop, At, Known, TypeInv, TypeOK, Frames, Actors, AtRest, Busy
<1>2. ASSUME FailPreparation
      PROVE  /\ mem' = "unknown" => mem = "unknown"
             /\ \A a1 \in Actors : proc'[a1].run # "unknown"
  BY <1>2 DEF FailPreparation, Known, TypeInv, TypeOK, Frames, Actors, AtRest, Busy
<1>3. ASSUME NEW p \in Operators, RequestPause(p)
      PROVE  /\ mem' = "unknown" => mem = "unknown"
             /\ \A a1 \in Actors : proc'[a1].run # "unknown"
  BY <1>3 DEF RequestPause, Known, TypeInv, TypeOK, Frames, Actors, AtRest, Busy
<1>4. ASSUME NEW p \in Operators, NEW l \in FreeSlots, Resume(p, l)
      PROVE  /\ mem' = "unknown" => mem = "unknown"
             /\ \A a1 \in Actors : proc'[a1].run # "unknown"
  BY <1>4 DEF Resume, AtTop, At, FreeSlots, Known, TypeInv, TypeOK, Frames, Actors,
     AtRest, Busy
<1>5. ASSUME NEW p \in Operators, WithdrawPause(p)
      PROVE  /\ mem' = "unknown" => mem = "unknown"
             /\ \A a1 \in Actors : proc'[a1].run # "unknown"
  BY <1>5 DEF WithdrawPause, Known, TypeInv, TypeOK, Frames, Actors, AtRest, Busy
<1>6. ASSUME NEW p \in Operators, RequestStop(p)
      PROVE  /\ mem' = "unknown" => mem = "unknown"
             /\ \A a1 \in Actors : proc'[a1].run # "unknown"
  BY <1>6 DEF RequestStop, Known, TypeInv, TypeOK, Frames, Actors, AtRest, Busy
<1>7. ASSUME NEW p \in Operators, NEW t \in Turns, ResumeFrom(p, t)
      PROVE  /\ mem' = "unknown" => mem = "unknown"
             /\ \A a1 \in Actors : proc'[a1].run # "unknown"
  BY <1>7 DEF ResumeFrom, At, Known, TypeInv, TypeOK, Frames, Actors, AtRest, Busy
<1>8. ASSUME NEW p \in Operators, TakeSnapshot(p)
      PROVE  /\ mem' = "unknown" => mem = "unknown"
             /\ \A a1 \in Actors : proc'[a1].run # "unknown"
  BY <1>8
     DEF TakeSnapshot, Return, At, Idle, RL!LifecycleState, Known, TypeInv, TypeOK,
         Frames, Actors,
         AtRest, Busy
<1>9. ASSUME NEW p \in Operators, NEW l \in FreeSlots, ReplayFrom(p, l)
      PROVE  /\ mem' = "unknown" => mem = "unknown"
             /\ \A a1 \in Actors : proc'[a1].run # "unknown"
  BY <1>9
     DEF ReplayFrom, Return, Idle, At, AtTop, FreeSlots, Known, TypeInv, TypeOK,
         Frames, Actors,
         AtRest, Busy
<1>10. ASSUME NEW p \in Operators, NoteResumeFailure(p)
      PROVE  /\ mem' = "unknown" => mem = "unknown"
             /\ \A a1 \in Actors : proc'[a1].run # "unknown"
  BY <1>10
     DEF NoteResumeFailure, Return, Idle, At, RL!LifecycleState, Known, TypeInv,
         TypeOK, Frames,
         Actors, AtRest, Busy
<1>11. ASSUME NEW l \in Loops, StopAtBoundary(l)
      PROVE  /\ mem' = "unknown" => mem = "unknown"
             /\ \A a1 \in Actors : proc'[a1].run # "unknown"
  BY <1>11
     DEF StopAtBoundary, Finish, Return, Raise, At, Idle, Known, TypeInv, TypeOK,
         Frames, Actors,
         AtRest, Busy
<1>12. ASSUME NEW l \in Loops, PauseAtBoundary(l)
      PROVE  /\ mem' = "unknown" => mem = "unknown"
             /\ \A a1 \in Actors : proc'[a1].run # "unknown"
  BY <1>12
     DEF PauseAtBoundary, Return, Raise, At, Idle, Known, TypeInv, TypeOK, Frames,
         Actors, AtRest,
         Busy
<1>13. ASSUME NEW l \in Loops, BeginTurn(l)
      PROVE  /\ mem' = "unknown" => mem = "unknown"
             /\ \A a1 \in Actors : proc'[a1].run # "unknown"
  BY <1>13 DEF BeginTurn, At, Return, Idle, Known, TypeInv, TypeOK, Frames, Actors,
     AtRest, Busy
<1>14. ASSUME NEW l \in Loops, TakeQuicksave(l)
      PROVE  /\ mem' = "unknown" => mem = "unknown"
             /\ \A a1 \in Actors : proc'[a1].run # "unknown"
  BY <1>14
     DEF TakeQuicksave, Raise, At, RL!LifecycleState, Known, TypeInv, TypeOK, Frames,
         Actors,
         AtRest, Busy
<1>15. ASSUME NEW l \in Loops, TurnRaises(l)
      PROVE  /\ mem' = "unknown" => mem = "unknown"
             /\ \A a1 \in Actors : proc'[a1].run # "unknown"
  BY <1>15 DEF TurnRaises, Raise, At, Known, TypeInv, TypeOK, Frames, Actors, AtRest, Busy
<1>16. ASSUME NEW l \in Loops, TurnRaisesUnexpected(l)
      PROVE  /\ mem' = "unknown" => mem = "unknown"
             /\ \A a1 \in Actors : proc'[a1].run # "unknown"
  BY <1>16
     DEF TurnRaisesUnexpected, Return, Idle, At, Known, TypeInv, TypeOK, Frames,
         Actors, AtRest,
         Busy
<1>17. ASSUME NEW l \in Loops, AbandonAttempt(l)
      PROVE  /\ mem' = "unknown" => mem = "unknown"
             /\ \A a1 \in Actors : proc'[a1].run # "unknown"
  BY <1>17 DEF AbandonAttempt, Goto, Known, TypeInv, TypeOK, Frames, Actors, AtRest, Busy
<1>18. ASSUME NEW l \in Loops, PersistTurn(l)
      PROVE  /\ mem' = "unknown" => mem = "unknown"
             /\ \A a1 \in Actors : proc'[a1].run # "unknown"
  BY <1>18 DEF PersistTurn, Raise, Goto, At, Known, TypeInv, TypeOK, Frames, Actors,
     AtRest, Busy
<1>19. ASSUME NEW l \in Loops, EvaluateOutcome(l)
      PROVE  /\ mem' = "unknown" => mem = "unknown"
             /\ \A a1 \in Actors : proc'[a1].run # "unknown"
  BY <1>19
     DEF EvaluateOutcome, Return, Raise, AtTop, Idle, At, Known, TypeInv, TypeOK,
         Frames, Actors,
         AtRest, Busy
<1>20. ASSUME NEW l \in Loops, HandleRunFailure(l)
      PROVE  /\ mem' = "unknown" => mem = "unknown"
             /\ \A a1 \in Actors : proc'[a1].run # "unknown"
  BY <1>20
     DEF HandleRunFailure, Return, Idle, At, RL!LifecycleState, Known, TypeInv, TypeOK,
         Frames,
         Actors, AtRest, Busy
<1>21. ASSUME NEW a \in Actors, Interrupt(a)
      PROVE  /\ mem' = "unknown" => mem = "unknown"
             /\ \A a1 \in Actors : proc'[a1].run # "unknown"
  BY <1>21
     DEF Interrupt, Goto, RecoveryRaises, At, Known, TypeInv, TypeOK, Frames, Actors,
         AtRest, Busy
<1>22. ASSUME NEW a \in Actors, EnterResuming(a)
      PROVE  /\ mem' = "unknown" => mem = "unknown"
             /\ \A a1 \in Actors : proc'[a1].run # "unknown"
  BY <1>22
     DEF EnterResuming, Goto, RecoveryRaises, At, Known, TypeInv, TypeOK, Frames,
         Actors, AtRest,
         Busy
<1>23. ASSUME NEW a \in Actors, LoadSucceeds(a)
      PROVE  /\ mem' = "unknown" => mem = "unknown"
             /\ \A a1 \in Actors : proc'[a1].run # "unknown"
  BY <1>23 DEF LoadSucceeds, Raise, At, Known, TypeInv, TypeOK, Frames, Actors, AtRest, Busy
<1>24. ASSUME NEW a \in Actors, LoadFails(a)
      PROVE  /\ mem' = "unknown" => mem = "unknown"
             /\ \A a1 \in Actors : proc'[a1].run # "unknown"
  BY <1>24 DEF LoadFails, RecoveryRaises, At, Known, TypeInv, TypeOK, Frames, Actors,
     AtRest, Busy
<1>25. ASSUME NEW a \in Actors, SaveFoundMissing(a)
      PROVE  /\ mem' = "unknown" => mem = "unknown"
             /\ \A a1 \in Actors : proc'[a1].run # "unknown"
  BY <1>25
     DEF SaveFoundMissing, RecoveryRaises, At, Known, TypeInv, TypeOK, Frames, Actors,
         AtRest, Busy
<1>26. ASSUME ReleaseContext
      PROVE  /\ mem' = "unknown" => mem = "unknown"
             /\ \A a1 \in Actors : proc'[a1].run # "unknown"
  BY <1>26 DEF ReleaseContext, Known, TypeInv, TypeOK, Frames, Actors, AtRest, Busy
<1>27. ASSUME NEW t \in Turns, Branch(t)
      PROVE  /\ mem' = "unknown" => mem = "unknown"
             /\ \A a1 \in Actors : proc'[a1].run # "unknown"
  BY <1>27 DEF Branch, Known, TypeInv, TypeOK, Frames, Actors, AtRest, Busy
<1>28. ASSUME UNCHANGED vars
      PROVE  /\ mem' = "unknown" => mem = "unknown"
             /\ \A a1 \in Actors : proc'[a1].run # "unknown"
  BY <1>28 DEF vars, Known, TypeInv, TypeOK, Frames, Actors, AtRest, Busy
<1> QED
  BY <1>1, <1>2, <1>3, <1>4, <1>5, <1>6, <1>7, <1>8, <1>9, <1>10, <1>11, <1>12, <1>13,
     <1>14,
     <1>15, <1>16, <1>17, <1>18, <1>19, <1>20, <1>21, <1>22, <1>23, <1>24, <1>25, <1>26, <1>27,
     <1>28
  DEF Next, Start, Command, Continue, LoopStep, RecoveryStep, Environment, Actors

(* Known holds at the start. *)
LEMMA KnownInit == Init => Known
BY DEF Init, Known, AtRest, Busy, Idle, At, RL!TERMINAL_STATES

(* Every step keeps Known. *)
LEMMA KnownStep == TypeInv /\ Known /\ [Next]_vars => Known'
<1> SUFFICES ASSUME TypeInv, Known, [Next]_vars PROVE Known'
  OBVIOUS
<1>1. mem' = "unknown" => AtRest'
  BY MemKnown, Quiet DEF Known, AtRest, Busy, Start, Begin, FailPreparation
<1>2. ASSUME row'.lifecycle \in RL!TERMINAL_STATES, row'.resolution = "none"
      PROVE  mem' = "failed" /\ AtRest'
  <2>1. CASE UNCHANGED row
    <3>1. mem = "failed" /\ AtRest
      BY <1>2, <2>1 DEF Known
    <3> QED BY <3>1, Quiet DEF AtRest, Busy
  <2>2. CASE FailPreparation
    BY <2>2 DEF Known, FailPreparation, AtRest, Busy
  <2>3. CASE row.lifecycle = "preparing" /\ StoreRow("playing", "none")
    BY <1>2, <2>3 DEF StoreRow, RL!TERMINAL_STATES
  <2>4. CASE \E to \in RL!TERMINAL_STATES, res \in RL!StopResolution : StoreRow(to, res)
    BY <1>2, <2>4 DEF StoreRow, Merged, RL!StopResolution
  <2>5. CASE \E to \in RL!LifecycleState \ RL!TERMINAL_STATES : StoreRow(to, "none")
    BY <1>2, <2>5 DEF StoreRow
  <2> QED BY <2>1, <2>2, <2>3, <2>4, <2>5, RowWrites DEF RowWrite
<1> QED BY <1>1, <1>2, MemKnown DEF Known

(* A run that ended does not start again in one step. *)
LEMMA StaysEnded ==
  ASSUME TypeInv, Known, [Next]_vars, row.lifecycle \in RL!TERMINAL_STATES
  PROVE  row'.lifecycle \in RL!TERMINAL_STATES
<1>1. row.lifecycle # "preparing"
  BY DEF RL!TERMINAL_STATES
<1>2. CASE \E to \in RL!TERMINAL_STATES, res \in RL!StopResolution : StoreRow(to, res)
  BY <1>2 DEF StoreRow
<1>3. CASE \E to \in RL!LifecycleState \ RL!TERMINAL_STATES :
             StoreAccepts(to, "none") /\ (mem = "paused" \/ ~AtRest)
  <2>1. row.resolution # "none"
    BY <1>3 DEF Known
  <2> QED BY <1>3, <2>1 DEF StoreAccepts, Merged, RL!ValidRun
<1> QED BY <1>1, <1>2, <1>3, RowWrites DEF RowWrite

(* Whoever writes the row, from however stale a copy and with any number   *)
(* of commands in flight, a run that ended stays ended.                    *)
THEOREM EndsForGood == Spec => TerminalStaysTerminal
<1>1. TypeInv /\ Known /\ [Next]_vars =>
        [row.lifecycle \in RL!TERMINAL_STATES =>
           row'.lifecycle \in RL!TERMINAL_STATES]_vars
  BY StaysEnded
<1> QED BY <1>1, TypeInit, TypeStep, KnownInit, KnownStep, PTL
        DEF Spec, TerminalStaysTerminal

-----------------------------------------------------------------------------
(* With commands taken one at a time, whoever drives the run drives it     *)
(* alone; a loop is at work only on a run that memory calls playing, and   *)
(* the Run in hand once a turn has begun or a rewind has loaded is playing.*)
Driver ==
  /\ OneDriver
  /\ \A l \in Loops : Busy(l) => mem = "playing"
  /\ \A a \in Actors :
       proc[a].pc \in {"cycle", "decide", "superseding"} => proc[a].run = "playing"

OneCommand == \A p, q \in Operators : p = q

(* Driver holds at the start. *)
LEMMA DriverInit == Init => Driver
BY DEF Init, Driver, OneDriver, Busy, Idle, At, Actors

(* Every step keeps Driver, if no two commands overlap. *)
LEMMA DriverStep ==
  ASSUME OneCommand
  PROVE  TypeInv /\ Known /\ Driver /\ [Next]_vars => Driver'
<1> SUFFICES ASSUME TypeInv, Known, Driver, [Next]_vars PROVE Driver'
  OBVIOUS
<1>0. /\ proc \in [Actors -> Frames]
      /\ \A a \in Actors : a \in Loops <=> a \notin Operators
  BY ConstantsOK DEF TypeInv, TypeOK, Actors
<1> USE DEF Driver, OneDriver, Busy
<1>1. ASSUME NEW first \in FirstTurns, NEW l \in Loops, Begin(first, l) PROVE Driver'
  BY <1>0, <1>1 DEF Begin, AtTop, At, Frames, Actors, OneCommand, Known, AtRest
<1>2. ASSUME FailPreparation PROVE Driver'
  BY <1>0, <1>2 DEF FailPreparation, Frames, Actors, OneCommand, Known, AtRest
<1>3. ASSUME NEW p \in Operators, RequestPause(p) PROVE Driver'
  BY <1>0, <1>3 DEF RequestPause, Frames, Actors, OneCommand, Known, AtRest
<1>4. ASSUME NEW p \in Operators, NEW l \in FreeSlots, Resume(p, l) PROVE Driver'
  BY <1>0, <1>4 DEF Resume, AtTop, At, FreeSlots, Frames, Actors, OneCommand, Known, AtRest
<1>5. ASSUME NEW p \in Operators, WithdrawPause(p) PROVE Driver'
  BY <1>0, <1>5 DEF WithdrawPause, Frames, Actors, OneCommand, Known, AtRest
<1>6. ASSUME NEW p \in Operators, RequestStop(p) PROVE Driver'
  BY <1>0, <1>6 DEF RequestStop, Frames, Actors, OneCommand, Known, AtRest
<1>7. ASSUME NEW p \in Operators, NEW t \in Turns, ResumeFrom(p, t) PROVE Driver'
  BY <1>0, <1>7 DEF ResumeFrom, Rewindable, At, Frames, Actors, OneCommand, Known, AtRest
<1>8. ASSUME NEW p \in Operators, TakeSnapshot(p) PROVE Driver'
  BY <1>0, <1>8 DEF TakeSnapshot, Return, At, Idle, Frames, Actors, OneCommand, Known,
     AtRest
<1>9. ASSUME NEW p \in Operators, NEW l \in FreeSlots, ReplayFrom(p, l) PROVE Driver'
  BY <1>0, <1>9
     DEF ReplayFrom, Return, Idle, At, AtTop, FreeSlots, Frames, Actors, OneCommand,
         Known, AtRest
<1>10. ASSUME NEW p \in Operators, NoteResumeFailure(p) PROVE Driver'
  BY <1>0, <1>10 DEF NoteResumeFailure, Return, Idle, At, Frames, Actors, OneCommand,
     Known, AtRest
<1>11. ASSUME NEW l \in Loops, StopAtBoundary(l) PROVE Driver'
  BY <1>0, <1>11
     DEF StopAtBoundary, Finish, Return, Raise, At, Idle, Frames, Actors, OneCommand,
         Known, AtRest
<1>12. ASSUME NEW l \in Loops, PauseAtBoundary(l) PROVE Driver'
  BY <1>0, <1>12
     DEF PauseAtBoundary, Return, Raise, At, Idle, Frames, Actors, OneCommand, Known, AtRest
<1>13. ASSUME NEW l \in Loops, BeginTurn(l) PROVE Driver'
  BY <1>0, <1>13 DEF BeginTurn, At, Return, Idle, Frames, Actors, OneCommand, Known, AtRest
<1>14. ASSUME NEW l \in Loops, TakeQuicksave(l) PROVE Driver'
  BY <1>0, <1>14 DEF TakeQuicksave, Raise, At, Frames, Actors, OneCommand, Known, AtRest
<1>15. ASSUME NEW l \in Loops, TurnRaises(l) PROVE Driver'
  BY <1>0, <1>15 DEF TurnRaises, Raise, At, Frames, Actors, OneCommand, Known, AtRest
<1>16. ASSUME NEW l \in Loops, TurnRaisesUnexpected(l) PROVE Driver'
  BY <1>0, <1>16
     DEF TurnRaisesUnexpected, Return, Idle, At, Frames, Actors, OneCommand, Known, AtRest
<1>17. ASSUME NEW l \in Loops, AbandonAttempt(l) PROVE Driver'
  BY <1>0, <1>17 DEF AbandonAttempt, Goto, Frames, Actors, OneCommand, Known, AtRest
<1>18. ASSUME NEW l \in Loops, PersistTurn(l) PROVE Driver'
  BY <1>0, <1>18 DEF PersistTurn, Raise, Goto, At, Frames, Actors, OneCommand, Known, AtRest
<1>19. ASSUME NEW l \in Loops, EvaluateOutcome(l) PROVE Driver'
  BY <1>0, <1>19
     DEF EvaluateOutcome, Return, Raise, AtTop, Idle, At, Frames, Actors, OneCommand,
         Known, AtRest
<1>20. ASSUME NEW l \in Loops, HandleRunFailure(l) PROVE Driver'
  BY <1>0, <1>20 DEF HandleRunFailure, Return, Idle, At, Frames, Actors, OneCommand,
     Known, AtRest
<1>21. ASSUME NEW a \in Actors, Interrupt(a) PROVE Driver'
  BY <1>0, <1>21 DEF Interrupt, Goto, RecoveryRaises, At, Frames, Actors, OneCommand,
     Known, AtRest
<1>22. ASSUME NEW a \in Actors, EnterResuming(a) PROVE Driver'
  BY <1>0, <1>22
     DEF EnterResuming, Goto, RecoveryRaises, At, Frames, Actors, OneCommand, Known, AtRest
<1>23. ASSUME NEW a \in Actors, LoadSucceeds(a) PROVE Driver'
  BY <1>0, <1>23 DEF LoadSucceeds, Raise, At, Frames, Actors, OneCommand, Known, AtRest
<1>24. ASSUME NEW a \in Actors, LoadFails(a) PROVE Driver'
  BY <1>0, <1>24 DEF LoadFails, RecoveryRaises, At, Frames, Actors, OneCommand, Known,
     AtRest
<1>25. ASSUME NEW a \in Actors, SaveFoundMissing(a) PROVE Driver'
  BY <1>0, <1>25
     DEF SaveFoundMissing, RecoveryRaises, At, Frames, Actors, OneCommand, Known, AtRest
<1>26. ASSUME ReleaseContext PROVE Driver'
  BY <1>0, <1>26 DEF ReleaseContext, Frames, Actors, OneCommand, Known, AtRest
<1>27. ASSUME NEW t \in Turns, Branch(t) PROVE Driver'
  BY <1>0, <1>27 DEF Branch, Frames, Actors, OneCommand, Known, AtRest
<1>28. ASSUME UNCHANGED vars PROVE Driver'
  BY <1>0, <1>28 DEF vars, Frames, Actors, OneCommand, Known, AtRest
<1> QED
  BY <1>1, <1>2, <1>3, <1>4, <1>5, <1>6, <1>7, <1>8, <1>9, <1>10, <1>11, <1>12, <1>13,
     <1>14,
     <1>15, <1>16, <1>17, <1>18, <1>19, <1>20, <1>21, <1>22, <1>23, <1>24, <1>25, <1>26, <1>27,
     <1>28
  DEF Next, Start, Command, Continue, LoopStep, RecoveryStep, Environment, Actors

(* With commands taken one at a time a run never has two drivers: neither  *)
(* two play loops nor a loop and a rewind (resume_from's refusal, FR-004). *)
THEOREM SingleDriver == ASSUME OneCommand PROVE Spec => []OneDriver
<1>1. Driver => OneDriver
  BY DEF Driver
<1>2. TypeInv /\ Known /\ Driver /\ [Next]_vars => Driver'
  BY DriverStep
<1> QED BY <1>1, <1>2, TypeInit, TypeStep, KnownInit, KnownStep, DriverInit, PTL DEF Spec

-----------------------------------------------------------------------------
(* While nothing is at work, or a rewind has only been accepted, memory    *)
(* and the row agree unless the last-resort handler had to give up; a      *)
(* rewind that has loaded its save has put the row back to playing.        *)
Agree ==
  /\ /\ \A a \in Actors : proc[a].pc \in {"idle", "accepted"}
     /\ mem # "unknown" /\ lastError # "unexpected"
     => mem = row.lifecycle
  /\ \A a \in Actors : proc[a].pc = "superseding" => row.lifecycle = "playing"
  /\ row.lifecycle \notin RL!TERMINAL_STATES => row.resolution = "none"

(* Agree holds at the start. *)
LEMMA AgreeInit == Init => Agree
BY DEF Init, Agree, Idle, At, Actors

(* Every step keeps Agree. *)
LEMMA AgreeStep ==
  ASSUME OneCommand
  PROVE  TypeInv /\ Known /\ Driver /\ Agree /\ [Next]_vars => Agree'
<1> SUFFICES ASSUME TypeInv, Known, Driver, Agree, [Next]_vars PROVE Agree'
  OBVIOUS
<1>0. /\ proc \in [Actors -> Frames]
      /\ row \in [lifecycle : RL!LifecycleState, resolution : RL!StopResolution \cup {"none"}]
      /\ \A a \in Actors : a \in Loops <=> a \notin Operators
  BY ConstantsOK DEF TypeInv, TypeOK, Actors
<1> USE DEF Agree, Driver, OneDriver, Busy
<1>1. ASSUME NEW first \in FirstTurns, NEW l \in Loops, Begin(first, l) PROVE Agree'
  BY <1>0, <1>1, States
     DEF Begin, AtTop, At, StoreRow, Merged, RL!TERMINAL_STATES, Frames, Actors,
         OneCommand, Known,
         AtRest
<1>2. ASSUME FailPreparation PROVE Agree'
  BY <1>0, <1>2, States
     DEF FailPreparation, StoreRow, Merged, RL!TERMINAL_STATES, Frames, Actors,
         OneCommand, Known,
         AtRest
<1>3. ASSUME NEW p \in Operators, RequestPause(p) PROVE Agree'
  BY <1>0, <1>3 DEF RequestPause, Frames, Actors, OneCommand, Known, AtRest
<1>4. ASSUME NEW p \in Operators, NEW l \in FreeSlots, Resume(p, l) PROVE Agree'
  BY <1>0, <1>4, States
     DEF Resume, AtTop, At, FreeSlots, StoreRow, StoreAccepts, Merged, RL!ValidRun,
         RL!TERMINAL_STATES, Frames, Actors, OneCommand, Known, AtRest
<1>5. ASSUME NEW p \in Operators, WithdrawPause(p) PROVE Agree'
  BY <1>0, <1>5 DEF WithdrawPause, Frames, Actors, OneCommand, Known, AtRest
<1>6. ASSUME NEW p \in Operators, RequestStop(p) PROVE Agree'
  BY <1>0, <1>6 DEF RequestStop, Frames, Actors, OneCommand, Known, AtRest
<1>7. ASSUME NEW p \in Operators, NEW t \in Turns, ResumeFrom(p, t) PROVE Agree'
  BY <1>0, <1>7 DEF ResumeFrom, At, Frames, Actors, OneCommand, Known, AtRest
<1>8. ASSUME NEW p \in Operators, TakeSnapshot(p) PROVE Agree'
  BY <1>0, <1>8, States
     DEF TakeSnapshot, Return, At, Idle, StoreRow, StoreAccepts, Merged, RL!ValidRun,
         RL!TERMINAL_STATES, Frames, Actors, OneCommand, Known, AtRest
<1>9. ASSUME NEW p \in Operators, NEW l \in FreeSlots, ReplayFrom(p, l) PROVE Agree'
  BY <1>0, <1>9
     DEF ReplayFrom, Return, Idle, At, AtTop, FreeSlots, Frames, Actors, OneCommand,
         Known, AtRest
<1>10. ASSUME NEW p \in Operators, NoteResumeFailure(p) PROVE Agree'
  BY <1>0, <1>10 DEF NoteResumeFailure, Return, Idle, At, Frames, Actors, OneCommand,
     Known, AtRest
<1>11. ASSUME NEW l \in Loops, StopAtBoundary(l) PROVE Agree'
  BY <1>0, <1>11, States
     DEF StopAtBoundary, Finish, Return, Raise, At, Idle, StoreRow, Merged,
         RL!TERMINAL_STATES,
         Frames, Actors, OneCommand, Known, AtRest
<1>12. ASSUME NEW l \in Loops, PauseAtBoundary(l) PROVE Agree'
  BY <1>0, <1>12, States
     DEF PauseAtBoundary, Return, Raise, At, Idle, StoreRow, StoreAccepts, Merged,
         RL!ValidRun,
         RL!TERMINAL_STATES, Frames, Actors, OneCommand, Known, AtRest
<1>13. ASSUME NEW l \in Loops, BeginTurn(l) PROVE Agree'
  BY <1>0, <1>13 DEF BeginTurn, LastResort, At, Return, Idle, Frames, Actors,
     OneCommand, Known, AtRest
<1>14. ASSUME NEW l \in Loops, TakeQuicksave(l) PROVE Agree'
  BY <1>0, <1>14 DEF TakeQuicksave, Raise, At, Frames, Actors, OneCommand, Known, AtRest
<1>15. ASSUME NEW l \in Loops, TurnRaises(l) PROVE Agree'
  BY <1>0, <1>15 DEF TurnRaises, Raise, At, Frames, Actors, OneCommand, Known, AtRest
<1>16. ASSUME NEW l \in Loops, TurnRaisesUnexpected(l) PROVE Agree'
  BY <1>0, <1>16
     DEF TurnRaisesUnexpected, LastResort, Return, Idle, At, Frames, Actors,
         OneCommand, Known, AtRest
<1>17. ASSUME NEW l \in Loops, AbandonAttempt(l) PROVE Agree'
  BY <1>0, <1>17 DEF AbandonAttempt, Goto, Frames, Actors, OneCommand, Known, AtRest
<1>18. ASSUME NEW l \in Loops, PersistTurn(l) PROVE Agree'
  BY <1>0, <1>18 DEF PersistTurn, Raise, Goto, At, Frames, Actors, OneCommand, Known, AtRest
<1>19. ASSUME NEW l \in Loops, EvaluateOutcome(l) PROVE Agree'
  BY <1>0, <1>19, States
     DEF EvaluateOutcome, Return, Raise, AtTop, Idle, At, StoreRow, Merged,
         RL!TERMINAL_STATES,
         Frames, Actors, OneCommand, Known, AtRest
<1>20. ASSUME NEW l \in Loops, HandleRunFailure(l) PROVE Agree'
  BY <1>0, <1>20, States
     DEF HandleRunFailure, LastResort, Return, Idle, At, StoreRow, StoreAccepts,
         Merged, RL!ValidRun,
         RL!TERMINAL_STATES, Frames, Actors, OneCommand, Known, AtRest
<1>21. ASSUME NEW a \in Actors, Interrupt(a) PROVE Agree'
  BY <1>0, <1>21, States
     DEF Interrupt, Goto, RecoveryRaises, At, StoreRow, StoreAccepts, Merged, RL!ValidRun,
         RL!TERMINAL_STATES, Frames, Actors, OneCommand, Known, AtRest
<1>22. ASSUME NEW a \in Actors, EnterResuming(a) PROVE Agree'
  BY <1>0, <1>22, States
     DEF EnterResuming, Goto, RecoveryRaises, At, StoreRow, StoreAccepts, Merged,
         RL!ValidRun,
         RL!TERMINAL_STATES, Frames, Actors, OneCommand, Known, AtRest
<1>23. ASSUME NEW a \in Actors, LoadSucceeds(a) PROVE Agree'
  BY <1>0, <1>23, States
     DEF LoadSucceeds, Raise, At, StoreRow, StoreAccepts, Merged, RL!ValidRun,
         RL!TERMINAL_STATES,
         Frames, Actors, OneCommand, Known, AtRest
<1>24. ASSUME NEW a \in Actors, LoadFails(a) PROVE Agree'
  BY <1>0, <1>24, States
     DEF LoadFails, RecoveryRaises, At, StoreRow, StoreAccepts, Merged, RL!ValidRun,
         RL!TERMINAL_STATES, Frames, Actors, OneCommand, Known, AtRest
<1>25. ASSUME NEW a \in Actors, SaveFoundMissing(a) PROVE Agree'
  BY <1>0, <1>25, States
     DEF SaveFoundMissing, RecoveryRaises, At, StoreRow, Merged, RL!TERMINAL_STATES, Frames,
         Actors, OneCommand, Known, AtRest
<1>26. ASSUME ReleaseContext PROVE Agree'
  BY <1>0, <1>26 DEF ReleaseContext, Frames, Actors, OneCommand, Known, AtRest
<1>27. ASSUME NEW t \in Turns, Branch(t) PROVE Agree'
  BY <1>0, <1>27 DEF Branch, Frames, Actors, OneCommand, Known, AtRest
<1>28. ASSUME UNCHANGED vars PROVE Agree'
  BY <1>0, <1>28 DEF vars, Frames, Actors, OneCommand, Known, AtRest
<1> QED
  BY <1>1, <1>2, <1>3, <1>4, <1>5, <1>6, <1>7, <1>8, <1>9, <1>10, <1>11, <1>12, <1>13,
     <1>14,
     <1>15, <1>16, <1>17, <1>18, <1>19, <1>20, <1>21, <1>22, <1>23, <1>24, <1>25, <1>26, <1>27,
     <1>28
  DEF Next, Start, Command, Continue, LoopStep, RecoveryStep, Environment, Actors

(* With commands taken one at a time, whatever ends the play, memory and   *)
(* the stored row agree once nothing runs, for any recovery limit.         *)
THEOREM Agreement == ASSUME OneCommand PROVE Spec => []AgreeAtRest
<1>1. TypeInv /\ Agree => AgreeAtRest
  BY DEF TypeInv, TypeOK, Agree, AgreeAtRest, AtRest, Busy
<1>2. TypeInv /\ Known /\ Driver /\ [Next]_vars => Driver'
  BY DriverStep
<1>3. TypeInv /\ Known /\ Driver /\ Agree /\ [Next]_vars => Agree'
  BY AgreeStep
<1> QED BY <1>1, <1>2, <1>3, TypeInit, TypeStep, KnownInit, KnownStep, DriverInit,
           AgreeInit, PTL DEF Spec

-----------------------------------------------------------------------------
(* When no recovery is retried, the row can be read off the position of    *)
(* whoever drives the run.                                                 *)
RowOf(f, life, m) ==
  CASE f.pc \in {"top", "boundary", "cycle", "decide", "superseding"} ->
         life = "playing"
    [] f.pc = "interrupting" ->
         life = f.run /\ f.run \in {"playing", "interrupted", "resuming"}
    [] f.pc = "accepted" -> m \in {"paused", "interrupted", "resuming"}
    [] f.pc = "resuming" -> life = "interrupted"
    [] f.pc = "loading" -> life = "resuming"
    [] f.pc = "failing" ->
         life = IF f.external THEN "failed" ELSE "playing"
    [] OTHER -> TRUE

InStep ==
  /\ \A a \in Actors : RowOf(proc[a], row.lifecycle, mem)
  /\ (\A a \in Actors : proc[a].pc \in {"idle", "accepted"}) =>
       row.lifecycle = IF mem = "unknown" THEN "preparing" ELSE mem
  /\ row.lifecycle \notin RL!TERMINAL_STATES => row.resolution = "none"

(* InStep holds at the start. *)
LEMMA InStepInit == Init => InStep
BY DEF Init, InStep, RowOf, Idle, At, Actors

(* The engine fails the run: whoever drove it is told. *)
LEMMA EngineFailed ==
  ASSUME NEW a \in Actors, proc \in [Actors -> Frames], RecoveryRaises(a, TRUE)
  PROVE  /\ \A b \in Actors : b # a => proc'[b] = proc[b]
         /\ proc'[a].pc = IF a \in Loops THEN "failing" ELSE "noting"
         /\ RowOf(proc'[a], "failed", mem)
<1>1. proc'[a] = At(IF a \in Loops THEN "failing" ELSE "noting", 0, 0, a \in Loops)
  BY DEF RecoveryRaises
<1>2. \A b \in Actors : b # a => proc'[b] = proc[b]
  BY DEF RecoveryRaises
<1>3. CASE a \in Loops
  <2>1. proc'[a] = At("failing", 0, 0, TRUE)
    BY <1>1, <1>3, Zenon
  <2>2. proc'[a].pc = "failing" /\ proc'[a].external
    BY <2>1 DEF At
  <2> QED BY <1>2, <1>3, <2>2 DEF RowOf
<1>4. CASE a \notin Loops
  <2>1. proc'[a].pc = "noting"
    BY <1>1, <1>4 DEF At
  <2> QED BY <1>2, <1>4, <2>1 DEF RowOf
<1> QED BY <1>3, <1>4

RowMoves ==
  \/ row' = row
  \/ \E to \in RL!LifecycleState, res \in RL!StopResolution \cup {"none"} :
       RL!Transition(to, res)

(* Every step keeps InStep, and moves the row along the graph. *)
LEMMA InStepStep ==
  ASSUME OneCommand, RecoveryAttemptLimit = 1
  PROVE  TypeInv /\ Known /\ Driver /\ InStep /\ [Next]_vars => InStep' /\ RowMoves
<1> SUFFICES ASSUME TypeInv, Known, Driver, InStep, [Next]_vars
             PROVE  InStep' /\ RowMoves
  OBVIOUS
<1>0. /\ proc \in [Actors -> Frames]
      /\ row \in [lifecycle : RL!LifecycleState, resolution : RL!StopResolution \cup {"none"}]
      /\ \A a \in Actors : a \in Loops <=> a \notin Operators
  BY ConstantsOK DEF TypeInv, TypeOK, Actors
<1> USE DEF InStep, RowOf, Driver, OneDriver, Busy
<1>1. ASSUME NEW first \in FirstTurns, NEW l \in Loops, Begin(first, l) PROVE InStep' /\ RowMoves
  <2>1. InStep'
    BY <1>0, <1>1, States
       DEF Begin, AtTop, At, StoreRow, Merged, RL!TERMINAL_STATES, Frames, Actors,
           OneCommand,
           Known, AtRest
  <2>2. RowMoves
    BY <1>0, <1>1, States, Resolved
       DEF RowMoves, OneCommand, Begin, AtTop, At, StoreRow, Merged, RL!ValidRun,
           RL!TERMINAL_STATES, RL!Transition, RL!IsLegalTransition,
           RL!LEGAL_TRANSITIONS, Frames,
           Actors, Known, AtRest
  <2> QED BY <2>1, <2>2
<1>2. ASSUME FailPreparation PROVE InStep' /\ RowMoves
  <2>1. InStep'
    BY <1>0, <1>2, States
       DEF FailPreparation, StoreRow, Merged, RL!TERMINAL_STATES, Frames, Actors,
           OneCommand,
           Known, AtRest
  <2>2. RowMoves
    BY <1>0, <1>2, States, Resolved
       DEF RowMoves, OneCommand, FailPreparation, StoreRow, Merged, RL!ValidRun,
           RL!TERMINAL_STATES, RL!Transition, RL!IsLegalTransition,
           RL!LEGAL_TRANSITIONS, Frames,
           Actors, Known, AtRest
  <2> QED BY <2>1, <2>2
<1>3. ASSUME NEW p \in Operators, RequestPause(p) PROVE InStep' /\ RowMoves
  <2>1. InStep'
    BY <1>0, <1>3 DEF RequestPause, Frames, Actors, OneCommand, Known, AtRest
  <2>2. RowMoves
    BY <1>0, <1>3 DEF RowMoves, OneCommand, RequestPause, Frames, Actors, Known, AtRest
  <2> QED BY <2>1, <2>2
<1>4. ASSUME NEW p \in Operators, NEW l \in FreeSlots, Resume(p, l) PROVE InStep' /\ RowMoves
  <2>1. InStep'
    BY <1>0, <1>4, States
       DEF Resume, AtTop, At, FreeSlots, StoreRow, StoreAccepts, Merged, RL!ValidRun,
           RL!TERMINAL_STATES, Frames, Actors, OneCommand, Known, AtRest
  <2>2. RowMoves
    BY <1>0, <1>4, States, Resolved
       DEF RowMoves, OneCommand, Resume, AtTop, At, FreeSlots, StoreRow, StoreAccepts,
           Merged,
           RL!ValidRun, RL!TERMINAL_STATES, RL!Transition, RL!IsLegalTransition,
           RL!LEGAL_TRANSITIONS, Frames, Actors, Known, AtRest
  <2> QED BY <2>1, <2>2
<1>5. ASSUME NEW p \in Operators, WithdrawPause(p) PROVE InStep' /\ RowMoves
  <2>1. InStep'
    BY <1>0, <1>5 DEF WithdrawPause, Frames, Actors, OneCommand, Known, AtRest
  <2>2. RowMoves
    BY <1>0, <1>5 DEF RowMoves, OneCommand, WithdrawPause, Frames, Actors, Known, AtRest
  <2> QED BY <2>1, <2>2
<1>6. ASSUME NEW p \in Operators, RequestStop(p) PROVE InStep' /\ RowMoves
  <2>1. InStep'
    BY <1>0, <1>6 DEF RequestStop, Frames, Actors, OneCommand, Known, AtRest
  <2>2. RowMoves
    BY <1>0, <1>6 DEF RowMoves, OneCommand, RequestStop, Frames, Actors, Known, AtRest
  <2> QED BY <2>1, <2>2
<1>7. ASSUME NEW p \in Operators, NEW t \in Turns, ResumeFrom(p, t) PROVE InStep' /\ RowMoves
  <2>1. InStep'
    BY <1>0, <1>7 DEF ResumeFrom, Rewindable, At, Frames, Actors, OneCommand, Known, AtRest
  <2>2. RowMoves
    BY <1>0, <1>7 DEF RowMoves, OneCommand, ResumeFrom, At, Frames, Actors, Known, AtRest
  <2> QED BY <2>1, <2>2
<1>8. ASSUME NEW p \in Operators, TakeSnapshot(p) PROVE InStep' /\ RowMoves
  <2>1. InStep'
    BY <1>0, <1>8, States
       DEF TakeSnapshot, Return, At, Idle, StoreRow, StoreAccepts, Merged, RL!ValidRun,
           RL!TERMINAL_STATES, Frames, Actors, OneCommand, Known, AtRest
  <2>2. RowMoves
    BY <1>0, <1>8, States, Resolved
       DEF RowMoves, OneCommand, TakeSnapshot, Return, At, Idle, StoreRow,
           StoreAccepts, Merged,
           RL!ValidRun, RL!TERMINAL_STATES, RL!Transition, RL!IsLegalTransition,
           RL!LEGAL_TRANSITIONS, Frames, Actors, Known, AtRest
  <2> QED BY <2>1, <2>2
<1>9. ASSUME NEW p \in Operators, NEW l \in FreeSlots, ReplayFrom(p, l) PROVE InStep' /\ RowMoves
  <2>1. InStep'
    BY <1>0, <1>9
       DEF ReplayFrom, Return, Idle, At, AtTop, FreeSlots, Frames, Actors, OneCommand,
           Known,
           AtRest
  <2>2. RowMoves
    BY <1>0, <1>9
       DEF RowMoves, OneCommand, ReplayFrom, Return, Idle, At, AtTop, FreeSlots,
           Frames, Actors,
           Known, AtRest
  <2> QED BY <2>1, <2>2
<1>10. ASSUME NEW p \in Operators, NoteResumeFailure(p) PROVE InStep' /\ RowMoves
  <2>1. InStep'
    BY <1>0, <1>10, States
       DEF NoteResumeFailure, Return, Idle, At, RL!LifecycleState, Frames, Actors,
           OneCommand,
           Known, AtRest
  <2>2. RowMoves
    BY <1>0, <1>10, States, Resolved
       DEF RowMoves, OneCommand, NoteResumeFailure, Return, Idle, At, RL!LifecycleState,
           RL!Transition, RL!IsLegalTransition, RL!LEGAL_TRANSITIONS, Frames, Actors,
           Known, AtRest
  <2> QED BY <2>1, <2>2
<1>11. ASSUME NEW l \in Loops, StopAtBoundary(l) PROVE InStep' /\ RowMoves
  <2>1. InStep'
    BY <1>0, <1>11, States
       DEF StopAtBoundary, Finish, Return, Raise, At, Idle, StoreRow, Merged,
           RL!TERMINAL_STATES,
           Frames, Actors, OneCommand, Known, AtRest
  <2>2. RowMoves
    BY <1>0, <1>11, States, Resolved
       DEF RowMoves, OneCommand, StopAtBoundary, Finish, Return, Raise, At, Idle,
           StoreRow, Merged,
           RL!ValidRun, RL!TERMINAL_STATES, RL!Transition, RL!IsLegalTransition,
           RL!LEGAL_TRANSITIONS, Frames, Actors, Known, AtRest
  <2> QED BY <2>1, <2>2
<1>12. ASSUME NEW l \in Loops, PauseAtBoundary(l) PROVE InStep' /\ RowMoves
  <2>1. InStep'
    BY <1>0, <1>12, States
       DEF PauseAtBoundary, Return, Raise, At, Idle, StoreRow, StoreAccepts, Merged,
           RL!ValidRun,
           RL!TERMINAL_STATES, Frames, Actors, OneCommand, Known, AtRest
  <2>2. RowMoves
    BY <1>0, <1>12, States, Resolved
       DEF RowMoves, OneCommand, PauseAtBoundary, Return, Raise, At, Idle, StoreRow,
           StoreAccepts,
           Merged, RL!ValidRun, RL!TERMINAL_STATES, RL!Transition, RL!IsLegalTransition,
           RL!LEGAL_TRANSITIONS, Frames, Actors, Known, AtRest
  <2> QED BY <2>1, <2>2
<1>13. ASSUME NEW l \in Loops, BeginTurn(l) PROVE InStep' /\ RowMoves
  <2>1. InStep'
    BY <1>0, <1>13 DEF BeginTurn, At, Return, Idle, Frames, Actors, OneCommand, Known,
       AtRest
  <2>2. RowMoves
    BY <1>0, <1>13
       DEF RowMoves, OneCommand, BeginTurn, At, Return, Idle, Frames, Actors, Known, AtRest
  <2> QED BY <2>1, <2>2
<1>14. ASSUME NEW l \in Loops, TakeQuicksave(l) PROVE InStep' /\ RowMoves
  <2>1. InStep'
    BY <1>0, <1>14 DEF TakeQuicksave, Raise, At, Frames, Actors, OneCommand, Known, AtRest
  <2>2. RowMoves
    BY <1>0, <1>14
       DEF RowMoves, OneCommand, TakeQuicksave, Raise, At, Frames, Actors, Known, AtRest
  <2> QED BY <2>1, <2>2
<1>15. ASSUME NEW l \in Loops, TurnRaises(l) PROVE InStep' /\ RowMoves
  <2>1. InStep'
    BY <1>0, <1>15 DEF TurnRaises, Raise, At, Frames, Actors, OneCommand, Known, AtRest
  <2>2. RowMoves
    BY <1>0, <1>15 DEF RowMoves, OneCommand, TurnRaises, Raise, At, Frames, Actors,
       Known, AtRest
  <2> QED BY <2>1, <2>2
<1>16. ASSUME NEW l \in Loops, TurnRaisesUnexpected(l) PROVE InStep' /\ RowMoves
  <2>1. InStep'
    BY <1>0, <1>16
       DEF TurnRaisesUnexpected, Return, Idle, At, Frames, Actors, OneCommand, Known, AtRest
  <2>2. RowMoves
    BY <1>0, <1>16
       DEF RowMoves, OneCommand, TurnRaisesUnexpected, Return, Idle, At, Frames,
           Actors, Known,
           AtRest
  <2> QED BY <2>1, <2>2
<1>17. ASSUME NEW l \in Loops, AbandonAttempt(l) PROVE InStep' /\ RowMoves
  <2>1. InStep'
    BY <1>0, <1>17 DEF AbandonAttempt, Goto, Frames, Actors, OneCommand, Known, AtRest
  <2>2. RowMoves
    BY <1>0, <1>17 DEF RowMoves, OneCommand, AbandonAttempt, Goto, Frames, Actors,
       Known, AtRest
  <2> QED BY <2>1, <2>2
<1>18. ASSUME NEW l \in Loops, PersistTurn(l) PROVE InStep' /\ RowMoves
  <2>1. InStep'
    BY <1>0, <1>18 DEF PersistTurn, Raise, Goto, At, Frames, Actors, OneCommand, Known,
       AtRest
  <2>2. RowMoves
    BY <1>0, <1>18
       DEF RowMoves, OneCommand, PersistTurn, Raise, Goto, At, Frames, Actors, Known, AtRest
  <2> QED BY <2>1, <2>2
<1>19. ASSUME NEW l \in Loops, EvaluateOutcome(l) PROVE InStep' /\ RowMoves
  <2>1. InStep'
    BY <1>0, <1>19, States
       DEF EvaluateOutcome, Return, Raise, AtTop, Idle, At, StoreRow, Merged,
           RL!TERMINAL_STATES,
           Frames, Actors, OneCommand, Known, AtRest
  <2>2. RowMoves
    BY <1>0, <1>19, States, Resolved
       DEF RowMoves, OneCommand, EvaluateOutcome, Return, Raise, AtTop, Idle, At,
           StoreRow, Merged,
           RL!ValidRun, RL!TERMINAL_STATES, RL!Transition, RL!IsLegalTransition,
           RL!LEGAL_TRANSITIONS, Frames, Actors, Known, AtRest
  <2> QED BY <2>1, <2>2
<1>20. ASSUME NEW l \in Loops, HandleRunFailure(l) PROVE InStep' /\ RowMoves
  <2>1. InStep'
    BY <1>0, <1>20, States
       DEF HandleRunFailure, Return, Idle, At, StoreRow, StoreAccepts, Merged, RL!ValidRun,
           RL!TERMINAL_STATES, Frames, Actors, OneCommand, Known, AtRest
  <2>2. RowMoves
    BY <1>0, <1>20, States, Resolved
       DEF RowMoves, OneCommand, HandleRunFailure, Return, Idle, At, StoreRow, StoreAccepts,
           Merged, RL!ValidRun, RL!TERMINAL_STATES, RL!Transition, RL!IsLegalTransition,
           RL!LEGAL_TRANSITIONS, Frames, Actors, Known, AtRest
  <2> QED BY <2>1, <2>2
<1>21. ASSUME NEW a \in Actors, Interrupt(a) PROVE InStep' /\ RowMoves
  <2>1. InStep'
    BY <1>0, <1>21, States
       DEF Interrupt, Goto, RecoveryRaises, At, StoreRow, StoreAccepts, Merged, RL!ValidRun,
           RL!TERMINAL_STATES, Frames, Actors, OneCommand, Known, AtRest
  <2>2. RowMoves
    BY <1>0, <1>21, States, Resolved
       DEF RowMoves, OneCommand, Interrupt, Goto, RecoveryRaises, At, StoreRow,
           StoreAccepts,
           Merged, RL!ValidRun, RL!TERMINAL_STATES, RL!Transition, RL!IsLegalTransition,
           RL!LEGAL_TRANSITIONS, Frames, Actors, Known, AtRest
  <2> QED BY <2>1, <2>2
<1>22. ASSUME NEW a \in Actors, EnterResuming(a) PROVE InStep' /\ RowMoves
  <2>1. InStep'
    BY <1>0, <1>22, States
       DEF EnterResuming, Goto, RecoveryRaises, At, StoreRow, StoreAccepts, Merged,
           RL!ValidRun,
           RL!TERMINAL_STATES, Frames, Actors, OneCommand, Known, AtRest
  <2>2. RowMoves
    BY <1>0, <1>22, States, Resolved
       DEF RowMoves, OneCommand, EnterResuming, Goto, RecoveryRaises, At, StoreRow,
           StoreAccepts,
           Merged, RL!ValidRun, RL!TERMINAL_STATES, RL!Transition, RL!IsLegalTransition,
           RL!LEGAL_TRANSITIONS, Frames, Actors, Known, AtRest
  <2> QED BY <2>1, <2>2
<1>23. ASSUME NEW a \in Actors, LoadSucceeds(a) PROVE InStep' /\ RowMoves
  <2>1. InStep'
    BY <1>0, <1>23, States
       DEF LoadSucceeds, Raise, At, StoreRow, StoreAccepts, Merged, RL!ValidRun,
           RL!TERMINAL_STATES, Frames, Actors, OneCommand, Known, AtRest
  <2>2. RowMoves
    BY <1>0, <1>23, States, Resolved
       DEF RowMoves, OneCommand, LoadSucceeds, Raise, At, StoreRow, StoreAccepts, Merged,
           RL!ValidRun, RL!TERMINAL_STATES, RL!Transition, RL!IsLegalTransition,
           RL!LEGAL_TRANSITIONS, Frames, Actors, Known, AtRest
  <2> QED BY <2>1, <2>2
<1>24. ASSUME NEW a \in Actors, LoadFails(a) PROVE InStep' /\ RowMoves
  <2>0. LimitReached(proc[a].fails + 1)
    BY <1>0 DEF Frames, Actors, LimitReached
  <2>1. /\ RecoveryRaises(a, TRUE) /\ StoreRow("failed", "unrecoverable_failure")
        /\ mem' = mem /\ proc[a].pc = "loading"
    BY <2>0, <1>24, Zenon DEF LoadFails
  <2>2. row' = [lifecycle |-> "failed", resolution |-> "unrecoverable_failure"]
    BY <2>1 DEF StoreRow, Merged
  <2>3. InStep'
    <3>1. /\ \A b \in Actors : b # a => proc'[b] = proc[b] /\ proc[b].pc = "idle"
          /\ proc'[a].pc \in {"failing", "noting"}
          /\ RowOf(proc'[a], "failed", mem)
      BY <1>0, <2>1, EngineFailed DEF Actors
    <3>2. row'.lifecycle = "failed" /\ mem' = mem
      BY <2>1, <2>2
    <3> QED BY <3>1, <3>2 DEF RL!TERMINAL_STATES
  <2>4. RowMoves
    BY <1>0, <2>1, <2>2, States
       DEF RowMoves, RL!Transition, RL!IsLegalTransition, RL!LEGAL_TRANSITIONS, RL!ValidRun,
           RL!TERMINAL_STATES
  <2> QED BY <2>3, <2>4
<1>25. ASSUME NEW a \in Actors, SaveFoundMissing(a) PROVE InStep' /\ RowMoves
  <2>0. LimitReached(proc[a].fails + 1)
    BY <1>0 DEF Frames, Actors, LimitReached
  <2>1. /\ RecoveryRaises(a, TRUE) /\ StoreRow("failed", "unrecoverable_failure")
        /\ mem' = mem /\ proc[a].pc = "loading"
    BY <2>0, <1>25, Zenon DEF SaveFoundMissing
  <2>2. row' = [lifecycle |-> "failed", resolution |-> "unrecoverable_failure"]
    BY <2>1 DEF StoreRow, Merged
  <2>3. InStep'
    <3>1. /\ \A b \in Actors : b # a => proc'[b] = proc[b] /\ proc[b].pc = "idle"
          /\ proc'[a].pc \in {"failing", "noting"}
          /\ RowOf(proc'[a], "failed", mem)
      BY <1>0, <2>1, EngineFailed DEF Actors
    <3>2. row'.lifecycle = "failed" /\ mem' = mem
      BY <2>1, <2>2
    <3> QED BY <3>1, <3>2 DEF RL!TERMINAL_STATES
  <2>4. RowMoves
    BY <1>0, <2>1, <2>2, States
       DEF RowMoves, RL!Transition, RL!IsLegalTransition, RL!LEGAL_TRANSITIONS, RL!ValidRun,
           RL!TERMINAL_STATES
  <2> QED BY <2>3, <2>4
<1>26. ASSUME ReleaseContext PROVE InStep' /\ RowMoves
  <2>1. InStep'
    BY <1>0, <1>26 DEF ReleaseContext, Frames, Actors, OneCommand, Known, AtRest
  <2>2. RowMoves
    BY <1>0, <1>26 DEF RowMoves, OneCommand, ReleaseContext, Frames, Actors, Known, AtRest
  <2> QED BY <2>1, <2>2
<1>27. ASSUME NEW t \in Turns, Branch(t) PROVE InStep' /\ RowMoves
  <2>1. InStep'
    BY <1>0, <1>27 DEF Branch, Frames, Actors, OneCommand, Known, AtRest
  <2>2. RowMoves
    BY <1>0, <1>27 DEF RowMoves, OneCommand, Branch, Frames, Actors, Known, AtRest
  <2> QED BY <2>1, <2>2
<1>28. ASSUME UNCHANGED vars PROVE InStep' /\ RowMoves
  <2>1. InStep'
    BY <1>0, <1>28 DEF vars, Frames, Actors, OneCommand, Known, AtRest
  <2>2. RowMoves
    BY <1>0, <1>28 DEF RowMoves, OneCommand, vars, Frames, Actors, Known, AtRest
  <2> QED BY <2>1, <2>2
<1> QED
  BY <1>1, <1>2, <1>3, <1>4, <1>5, <1>6, <1>7, <1>8, <1>9, <1>10, <1>11, <1>12, <1>13,
     <1>14,
     <1>15, <1>16, <1>17, <1>18, <1>19, <1>20, <1>21, <1>22, <1>23, <1>24, <1>25, <1>26, <1>27,
     <1>28
  DEF Next, Start, Command, Continue, LoopStep, RecoveryStep, Environment, Actors

(* With commands taken one at a time and a recovery limit of one, every    *)
(* write of the row is a legal transition of the run's lifecycle: Runner   *)
(* implements RunLifecycle.                                                *)
THEOREM RowImplements ==
  ASSUME OneCommand, RecoveryAttemptLimit = 1
  PROVE  Spec => RowFollowsGraph
<1>1. Init => RL!RowInit
  BY DEF Init, RL!RowInit
<1>2. TypeInv /\ Known /\ Driver /\ InStep /\ [Next]_vars => [RL!RowNext]_(RL!rowVars)
  BY InStepStep DEF RowMoves, RL!RowNext, RL!rowVars
<1>3. TypeInv /\ Known /\ Driver /\ [Next]_vars => Driver'
  BY DriverStep
<1>4. TypeInv /\ Known /\ Driver /\ InStep /\ [Next]_vars => InStep'
  BY InStepStep
<1> QED BY <1>1, <1>2, <1>3, <1>4, TypeInit, TypeStep, KnownInit, KnownStep, DriverInit,
           InStepInit, PTL DEF Spec, RowFollowsGraph, RL!RowSpec
-----------------------------------------------------------------------------
(* Who gives the run's context up: no action but these three. *)
LEMMA GivesUp ==
  ASSUME [Next]_vars, held, ~held'
  PROVE  FailPreparation \/ ReleaseContext \/ \E l \in Loops : EvaluateOutcome(l)
<1>1. ASSUME NEW first \in FirstTurns, NEW l \in Loops, Begin(first, l) PROVE FALSE
  BY <1>1 DEF Begin
<1>3. ASSUME NEW p \in Operators, RequestPause(p) PROVE FALSE
  BY <1>3 DEF RequestPause
<1>4. ASSUME NEW p \in Operators, NEW l \in FreeSlots, Resume(p, l) PROVE FALSE
  BY <1>4 DEF Resume
<1>5. ASSUME NEW p \in Operators, WithdrawPause(p) PROVE FALSE
  BY <1>5 DEF WithdrawPause
<1>6. ASSUME NEW p \in Operators, RequestStop(p) PROVE FALSE
  BY <1>6 DEF RequestStop
<1>7. ASSUME NEW p \in Operators, NEW t \in Turns, ResumeFrom(p, t) PROVE FALSE
  BY <1>7 DEF ResumeFrom
<1>8. ASSUME NEW p \in Operators, TakeSnapshot(p) PROVE FALSE
  BY <1>8 DEF TakeSnapshot
<1>9. ASSUME NEW p \in Operators, NEW l \in FreeSlots, ReplayFrom(p, l) PROVE FALSE
  BY <1>9 DEF ReplayFrom
<1>10. ASSUME NEW p \in Operators, NoteResumeFailure(p) PROVE FALSE
  BY <1>10 DEF NoteResumeFailure
<1>11. ASSUME NEW l \in Loops, StopAtBoundary(l) PROVE FALSE
  BY <1>11 DEF StopAtBoundary
<1>12. ASSUME NEW l \in Loops, PauseAtBoundary(l) PROVE FALSE
  BY <1>12 DEF PauseAtBoundary
<1>13. ASSUME NEW l \in Loops, BeginTurn(l) PROVE FALSE
  BY <1>13 DEF BeginTurn
<1>14. ASSUME NEW l \in Loops, TakeQuicksave(l) PROVE FALSE
  BY <1>14 DEF TakeQuicksave
<1>15. ASSUME NEW l \in Loops, TurnRaises(l) PROVE FALSE
  BY <1>15 DEF TurnRaises
<1>16. ASSUME NEW l \in Loops, TurnRaisesUnexpected(l) PROVE FALSE
  BY <1>16 DEF TurnRaisesUnexpected
<1>17. ASSUME NEW l \in Loops, AbandonAttempt(l) PROVE FALSE
  BY <1>17 DEF AbandonAttempt
<1>18. ASSUME NEW l \in Loops, PersistTurn(l) PROVE FALSE
  BY <1>18 DEF PersistTurn
<1>20. ASSUME NEW l \in Loops, HandleRunFailure(l) PROVE FALSE
  BY <1>20 DEF HandleRunFailure
<1>21. ASSUME NEW a \in Actors, Interrupt(a) PROVE FALSE
  BY <1>21 DEF Interrupt
<1>22. ASSUME NEW a \in Actors, EnterResuming(a) PROVE FALSE
  BY <1>22 DEF EnterResuming
<1>23. ASSUME NEW a \in Actors, LoadSucceeds(a) PROVE FALSE
  BY <1>23 DEF LoadSucceeds
<1>24. ASSUME NEW a \in Actors, LoadFails(a) PROVE FALSE
  BY <1>24 DEF LoadFails
<1>25. ASSUME NEW a \in Actors, SaveFoundMissing(a) PROVE FALSE
  BY <1>25 DEF SaveFoundMissing
<1>27. ASSUME NEW t \in Turns, Branch(t) PROVE FALSE
  BY <1>27 DEF Branch
<1>28. ASSUME UNCHANGED vars PROVE FALSE
  BY <1>28 DEF vars
<1> QED
  BY <1>1, <1>3, <1>4, <1>5, <1>6, <1>7, <1>8, <1>9, <1>10, <1>11, <1>12, <1>13, <1>14,
     <1>15,
     <1>16, <1>17, <1>18, <1>20, <1>21, <1>22, <1>23, <1>24, <1>25, <1>27, <1>28
  DEF Next, Start, Command, Continue, LoopStep, RecoveryStep, Environment, Actors

(* With commands taken one at a time, and no sweep of a run whose client   *)
(* merely disconnected, the client and the claim are given up only by a    *)
(* run that has ended.                                                     *)
THEOREM HeldToTheEnd ==
  ASSUME OneCommand, "sweep" \notin FaultKinds
  PROVE  Spec => []HeldUntilTerminal
<1>1. Init => HeldUntilTerminal
  BY DEF Init, HeldUntilTerminal
<1>2. TypeInv /\ Known /\ Driver /\ HeldUntilTerminal /\ [Next]_vars => HeldUntilTerminal'
  <2> SUFFICES ASSUME TypeInv, Known, Driver, HeldUntilTerminal, [Next]_vars, ~held'
               PROVE  row'.lifecycle \in RL!TERMINAL_STATES
    BY DEF HeldUntilTerminal
  <2>1. CASE ~held
    BY <2>1, StaysEnded DEF HeldUntilTerminal
  <2>2. CASE FailPreparation
    BY <2>2, Terminal DEF FailPreparation, StoreRow
  <2>3. CASE held /\ ReleaseContext
    BY <2>3 DEF ReleaseContext, ClientGone, Injected
  <2>4. ASSUME NEW l \in Loops, held, EvaluateOutcome(l)
        PROVE  row'.lifecycle \in RL!TERMINAL_STATES
    <3>1. proc[l].run = "playing"
      BY <2>4 DEF Driver, EvaluateOutcome, Actors
    <3>2. RL!IsLegalTransition("playing", "finished")
      BY DEF RL!IsLegalTransition, RL!LEGAL_TRANSITIONS
    <3>3. \E res : StoreRow("finished", res)
      BY <2>4, <3>1, <3>2, Zenon DEF EvaluateOutcome
    <3> QED BY <3>3, Terminal DEF StoreRow
  <2> QED BY <2>1, <2>2, <2>3, <2>4, GivesUp DEF TypeInv, TypeOK
<1>3. TypeInv /\ Known /\ Driver /\ [Next]_vars => Driver'
  BY DriverStep
<1> QED BY <1>1, <1>2, <1>3, TypeInit, TypeStep, KnownInit, KnownStep, DriverInit,
           PTL DEF Spec

-----------------------------------------------------------------------------
(* Where the turn being played is the loop's own. *)
AtTurn == {"boundary", "cycle", "interrupting", "resuming", "loading"}

(* Every authoritative record lies at or before the current turn, has its  *)
(* turn's save beside it, and is not that of the turn in play.             *)
Slots ==
  /\ mem = "unknown" => authoritative = {}
  /\ authoritative \subseteq saves
  /\ \A t \in authoritative : t <= turn
  /\ \A l \in Loops : proc[l].pc \in AtTurn \cup {"decide"} => proc[l].turn = turn
  /\ \A l \in Loops : proc[l].pc \in AtTurn \ {"boundary"} => turn \in saves
  /\ SlotFree

(* The greatest of finitely many turns is one of them and the greatest. *)
LEMMA MaxOfTurns ==
  ASSUME NEW S, S \subseteq 0 .. MaxTurn, S # {}
  PROVE  MaxOf(S) \in S /\ \A y \in S : y <= MaxOf(S)
<1> DEFINE T == {MaxTurn - s : s \in S}
<1>0. MaxTurn \in Nat
  BY ConstantsOK
<1>1. T \subseteq Nat /\ T # {}
  <2>1. \A s \in S : MaxTurn - s \in Nat
    BY <1>0
  <2> QED  BY <2>1
<1>2. PICK t \in T : \A y \in T : ~(<<y, t>> \in OpToRel(<, Nat))
  BY <1>1, NatLessThanWellFounded, WFMin
<1>3. PICK m \in S : t = MaxTurn - m
  OBVIOUS
<1>4. ASSUME NEW y \in S PROVE y <= m
  <2>1. ~(MaxTurn - y < MaxTurn - m)
    BY <1>1, <1>2, <1>3 DEF OpToRel
  <2> QED  BY <1>0, <2>1
<1> QED  BY <1>4 DEF MaxOf

(* A rewind supersedes every record from its turn on. *)
LEMMA Supersedes ==
  ASSUME TypeInv, Slots, NEW p \in Operators, NEW l \in FreeSlots, ReplayFrom(p, l)
  PROVE  /\ authoritative' \subseteq authoritative
         /\ proc[p].turn \in 0 .. MaxTurn
         /\ turn' = turn \/ (turn' = proc[p].turn - 1 /\ \A t \in authoritative' : t <= turn')
<1> DEFINE S == saves \cup {proc[p].from, proc[p].turn}
           from == proc[p].turn
<1>1. /\ S \subseteq 0 .. MaxTurn /\ S # {}
      /\ from \in 0 .. MaxTurn
      /\ \A t \in authoritative : t \in S /\ t \in Nat
  <2>1. proc[p].from \in 0 .. MaxTurn /\ from \in 0 .. MaxTurn
    BY DEF TypeInv, TypeOK, Actors, Frames
  <2>2. saves \subseteq 0 .. MaxTurn
    BY ConstantsOK DEF TypeInv, TypeOK, Turns
  <2>3. \A t \in authoritative : t \in S /\ t \in Nat
    BY <2>2 DEF Slots
  <2> QED BY <2>1, <2>2, <2>3
<1>2. MaxOf(S) \in 0 .. MaxTurn /\ \A y \in S : y <= MaxOf(S)
  BY <1>1, MaxOfTurns
<1>3. LastReplayed(p) = MaxOf(S)
  BY DEF LastReplayed
<1> DEFINE doomed == authoritative \cap (from .. LastReplayed(p))
<1>4. \A t \in authoritative \ doomed : t <= from - 1
  <2> SUFFICES ASSUME NEW t \in authoritative, t \notin doomed PROVE t <= from - 1
    OBVIOUS
  <2>1. t \in Nat /\ t <= MaxOf(S) /\ from \in Nat /\ MaxOf(S) \in Nat
    BY <1>1, <1>2
  <2>2. ~(t \in from .. MaxOf(S))
    BY <1>3
  <2> HIDE DEF S
  <2> QED BY <2>1, <2>2
<1> HIDE DEF S
<1>5. CASE doomed \cap lineage = {}
  BY <1>1, <1>4, <1>5 DEF ReplayFrom
<1>6. CASE doomed \cap lineage # {}
  BY <1>1, <1>6 DEF ReplayFrom
<1> QED BY <1>5, <1>6

(* Slots holds at the start. *)
LEMMA SlotsInit == Init => Slots
BY DEF Init, Slots, SlotFree, AtTurn, Idle, At, Actors

(* Every step keeps Slots. *)
LEMMA SlotsStep ==
  ASSUME OneCommand
  PROVE  TypeInv /\ Known /\ Driver /\ Slots /\ [Next]_vars => Slots'
<1> SUFFICES ASSUME TypeInv, Known, Driver, Slots, [Next]_vars PROVE Slots'
  OBVIOUS
<1>0. /\ proc \in [Actors -> Frames] /\ turn \in 0 .. MaxTurn /\ MaxTurn \in Nat
      /\ saves \subseteq Turns /\ authoritative \subseteq saves
      /\ \A a \in Actors : a \in Loops <=> a \notin Operators
      /\ \A t \in Turns : t \in Nat
      /\ mem' = "unknown" => mem = "unknown"
  BY ConstantsOK, MemKnown DEF TypeInv, TypeOK, Actors, Turns, Slots
<1> USE DEF Slots, SlotFree, AtTurn, Driver, OneDriver, Busy
<1>1. ASSUME NEW first \in FirstTurns, NEW l \in Loops, Begin(first, l) PROVE Slots'
  BY <1>0, <1>1, ConstantsOK
     DEF Begin, AtTop, At, records
<1>2. ASSUME FailPreparation PROVE Slots'
  BY <1>0, <1>2 DEF FailPreparation, records
<1>3. ASSUME NEW p \in Operators, RequestPause(p) PROVE Slots'
  BY <1>0, <1>3 DEF RequestPause, records
<1>4. ASSUME NEW p \in Operators, NEW l \in FreeSlots, Resume(p, l) PROVE Slots'
  BY <1>0, <1>4 DEF Resume, AtTop, At, records
<1>5. ASSUME NEW p \in Operators, WithdrawPause(p) PROVE Slots'
  BY <1>0, <1>5 DEF WithdrawPause, records
<1>6. ASSUME NEW p \in Operators, RequestStop(p) PROVE Slots'
  BY <1>0, <1>6 DEF RequestStop, records
<1>7. ASSUME NEW p \in Operators, NEW t \in Turns, ResumeFrom(p, t) PROVE Slots'
  BY <1>0, <1>7 DEF ResumeFrom, At, records
<1>8. ASSUME NEW p \in Operators, TakeSnapshot(p) PROVE Slots'
  BY <1>0, <1>8
     DEF TakeSnapshot, Return, At, records, Actors
<1>9. ASSUME NEW p \in Operators, NEW l \in FreeSlots, ReplayFrom(p, l) PROVE Slots'
  <2>1. /\ authoritative' \subseteq authoritative
        /\ saves' = saves
        /\ \A t \in authoritative' : t <= turn'
    BY <1>0, <1>9, Supersedes DEF ReplayFrom
  <2>2. \A k \in Loops : proc[k].pc = "idle"
    BY <1>0, <1>9 DEF ReplayFrom, Actors
  <2>3. \A k \in Loops : proc'[k].pc \in {"idle", "top"}
    BY <1>0, <1>9, <2>2 DEF ReplayFrom, Return, At, AtTop, Actors
  <2> QED BY <1>0, <1>9, <2>1, <2>3
<1>10. ASSUME NEW p \in Operators, NoteResumeFailure(p) PROVE Slots'
  BY <1>0, <1>10
     DEF NoteResumeFailure, Return, records
<1>11. ASSUME NEW l \in Loops, StopAtBoundary(l) PROVE Slots'
  BY <1>0, <1>11
     DEF StopAtBoundary, Finish, Return, Raise, At, Idle, records, Actors
<1>12. ASSUME NEW l \in Loops, PauseAtBoundary(l) PROVE Slots'
  BY <1>0, <1>12
     DEF PauseAtBoundary, Return, Raise, At, Idle, records, Actors
<1>13. ASSUME NEW l \in Loops, BeginTurn(l) PROVE Slots'
  BY <1>0, <1>13
     DEF BeginTurn, At, Return, Idle, records, Actors
<1>14. ASSUME NEW l \in Loops, TakeQuicksave(l) PROVE Slots'
  BY <1>0, <1>14 DEF TakeQuicksave, Raise, At, Frames, Actors
<1>15. ASSUME NEW l \in Loops, TurnRaises(l) PROVE Slots'
  BY <1>0, <1>15 DEF TurnRaises, Raise, At, records
<1>16. ASSUME NEW l \in Loops, TurnRaisesUnexpected(l) PROVE Slots'
  BY <1>0, <1>16
     DEF TurnRaisesUnexpected, Return, Idle, At, records
<1>17. ASSUME NEW l \in Loops, AbandonAttempt(l) PROVE Slots'
  BY <1>0, <1>17 DEF AbandonAttempt, Goto, records
<1>18. ASSUME NEW l \in Loops, PersistTurn(l) PROVE Slots'
  BY <1>0, <1>18
     DEF PersistTurn, Raise, Goto, At, Frames, Actors
<1>19. ASSUME NEW l \in Loops, EvaluateOutcome(l) PROVE Slots'
  BY <1>0, <1>19
     DEF EvaluateOutcome, Return, Raise, AtTop, Idle, At, records, Actors
<1>20. ASSUME NEW l \in Loops, HandleRunFailure(l) PROVE Slots'
  BY <1>0, <1>20
     DEF HandleRunFailure, Return, Idle, At, records
<1>21. ASSUME NEW a \in Actors, Interrupt(a) PROVE Slots'
  BY <1>0, <1>21
     DEF Interrupt, Goto, RecoveryRaises, At, records, Frames, Actors
<1>22. ASSUME NEW a \in Actors, EnterResuming(a) PROVE Slots'
  BY <1>0, <1>22
     DEF EnterResuming, Goto, RecoveryRaises, At, records, Frames, Actors
<1>23. ASSUME NEW a \in Actors, LoadSucceeds(a) PROVE Slots'
  BY <1>0, <1>23 DEF LoadSucceeds, Raise, At, records, Frames, Actors
<1>24. ASSUME NEW a \in Actors, LoadFails(a) PROVE Slots'
  BY <1>0, <1>24
     DEF LoadFails, RecoveryRaises, At, records, Actors
<1>25. ASSUME NEW a \in Actors, SaveFoundMissing(a) PROVE Slots'
  BY <1>0, <1>25
     DEF SaveFoundMissing, RecoveryRaises, At
<1>26. ASSUME ReleaseContext PROVE Slots'
  BY <1>0, <1>26 DEF ReleaseContext, records
<1>27. ASSUME NEW t \in Turns, Branch(t) PROVE Slots'
  BY <1>0, <1>27 DEF Branch
<1>28. ASSUME UNCHANGED vars PROVE Slots'
  BY <1>0, <1>28 DEF vars
<1> QED
  BY <1>1, <1>2, <1>3, <1>4, <1>5, <1>6, <1>7, <1>8, <1>9, <1>10, <1>11, <1>12,
     <1>13, <1>14,
     <1>15, <1>16, <1>17, <1>18, <1>19, <1>20, <1>21, <1>22, <1>23, <1>24, <1>25, <1>26, <1>27,
     <1>28
  DEF Next, Start, Command, Continue, LoopStep, RecoveryStep, Environment, Actors

(* With commands taken one at a time, the record slot of the turn being    *)
(* played is free, whatever was rewound, refused or branched before.       *)
THEOREM SlotAlwaysFree == ASSUME OneCommand PROVE Spec => []SlotFree
<1>1. Slots => SlotFree
  BY DEF Slots
<1>2. TypeInv /\ Known /\ Driver /\ [Next]_vars => Driver'
  BY DriverStep
<1>3. TypeInv /\ Known /\ Driver /\ Slots /\ [Next]_vars => Slots'
  BY SlotsStep
<1> QED BY <1>1, <1>2, <1>3, TypeInit, TypeStep, KnownInit, KnownStep, DriverInit,
           SlotsInit, PTL DEF Spec

-----------------------------------------------------------------------------
(* How far the one at work has brought the row, and what it works from. *)
WorksFrom(f, life, m) ==
  CASE f.pc = "accepted" -> m \in {"paused", "interrupted", "resuming"}
    [] f.pc = "interrupting" ->
         f.run = "playing" \/ (f.run \in {"interrupted", "resuming"} /\ life = f.run)
    [] f.pc = "resuming" -> life = "interrupted"
    [] f.pc = "loading" -> life = "resuming"
    [] f.pc = "noting" -> life # "playing"
    [] OTHER -> TRUE

Waiting == \A a \in Actors : proc[a].pc \in {"idle", "accepted"}

(* A run in play has something at work on it or shows the last-resort      *)
(* error; one a failed rewind left half-recovered is so on record too; and *)
(* no branch has been taken off it.                                        *)
Played ==
  /\ Waiting /\ mem = "playing" => lastError = "unexpected"
  /\ Waiting /\ mem \in {"interrupted", "resuming"} => row.lifecycle = mem
  /\ \A a \in Actors : WorksFrom(proc[a], row.lifecycle, mem)
  /\ lineage = {}

(* Played holds at the start. *)
LEMMA PlayedInit == Init => Played
BY DEF Init, Played, WorksFrom, Idle, At

(* Every step keeps Played, if no branch is taken off the run meanwhile. *)
LEMMA PlayedStep ==
  ASSUME OneCommand, "branch" \notin FaultKinds
  PROVE  TypeInv /\ Known /\ Driver /\ Agree /\ Played /\ [Next]_vars => Played'
<1> SUFFICES ASSUME TypeInv, Known, Driver, Agree, Played, [Next]_vars PROVE Played'
  OBVIOUS
<1>0. /\ proc \in [Actors -> Frames]
      /\ row \in [lifecycle : RL!LifecycleState, resolution : RL!StopResolution \cup {"none"}]
      /\ \A a \in Actors : a \in Loops <=> a \notin Operators
      /\ "branch" \notin FaultKinds
  BY ConstantsOK DEF TypeInv, TypeOK, Actors
<1> USE DEF Played, Waiting, WorksFrom, Driver, OneDriver, Busy
<1>1. ASSUME NEW first \in FirstTurns, NEW l \in Loops, Begin(first, l) PROVE Played'
  BY <1>0, <1>1 DEF Begin, AtTop, At, records, Actors, Known, AtRest
<1>2. ASSUME FailPreparation PROVE Played'
  BY <1>0, <1>2 DEF FailPreparation, records, Known, AtRest
<1>3. ASSUME NEW p \in Operators, RequestPause(p) PROVE Played'
  BY <1>0, <1>3 DEF RequestPause, records
<1>4. ASSUME NEW p \in Operators, NEW l \in FreeSlots, Resume(p, l) PROVE Played'
  BY <1>0, <1>4, States
     DEF Resume, AtTop, At, FreeSlots, records, Actors, OneCommand
<1>5. ASSUME NEW p \in Operators, WithdrawPause(p) PROVE Played'
  BY <1>0, <1>5 DEF WithdrawPause, records
<1>6. ASSUME NEW p \in Operators, RequestStop(p) PROVE Played'
  BY <1>0, <1>6 DEF RequestStop, records
<1>7. ASSUME NEW p \in Operators, NEW t \in Turns, ResumeFrom(p, t) PROVE Played'
  BY <1>0, <1>7 DEF ResumeFrom, Rewindable, At, records
<1>8. ASSUME NEW p \in Operators, TakeSnapshot(p) PROVE Played'
  BY <1>0, <1>8, States
     DEF TakeSnapshot, Return, At, Idle, records, Frames, Actors
<1>9. ASSUME NEW p \in Operators, NEW l \in FreeSlots, ReplayFrom(p, l) PROVE Played'
  BY <1>0, <1>9
     DEF ReplayFrom, Idle, At, AtTop, FreeSlots, Actors
<1>10. ASSUME NEW p \in Operators, NoteResumeFailure(p) PROVE Played'
  BY <1>0, <1>10
     DEF NoteResumeFailure, Return, Idle, At, records, Actors
<1>11. ASSUME NEW l \in Loops, StopAtBoundary(l) PROVE Played'
  BY <1>0, <1>11, States
     DEF StopAtBoundary, Finish, Return, Raise, At, Idle, records, Actors
<1>12. ASSUME NEW l \in Loops, PauseAtBoundary(l) PROVE Played'
  BY <1>0, <1>12, States
     DEF PauseAtBoundary, Return, Raise, At, Idle, records, Actors
<1>13. ASSUME NEW l \in Loops, BeginTurn(l) PROVE Played'
  BY <1>0, <1>13
     DEF BeginTurn, At, Return, Idle, LastResort, records
<1>14. ASSUME NEW l \in Loops, TakeQuicksave(l) PROVE Played'
  BY <1>0, <1>14 DEF TakeQuicksave, Raise, At, Frames, OneCommand
<1>15. ASSUME NEW l \in Loops, TurnRaises(l) PROVE Played'
  BY <1>0, <1>15 DEF TurnRaises, Raise, At, records
<1>16. ASSUME NEW l \in Loops, TurnRaisesUnexpected(l) PROVE Played'
  BY <1>0, <1>16
     DEF TurnRaisesUnexpected, Return, Idle, At, LastResort, records
<1>17. ASSUME NEW l \in Loops, AbandonAttempt(l) PROVE Played'
  BY <1>0, <1>17 DEF AbandonAttempt, Goto, records
<1>18. ASSUME NEW l \in Loops, PersistTurn(l) PROVE Played'
  BY <1>0, <1>18
     DEF PersistTurn, Raise, Goto, At, Frames
<1>19. ASSUME NEW l \in Loops, EvaluateOutcome(l) PROVE Played'
  BY <1>0, <1>19, States
     DEF EvaluateOutcome, Return, Raise, AtTop, Idle, At, records, Actors
<1>20. ASSUME NEW l \in Loops, HandleRunFailure(l) PROVE Played'
  BY <1>0, <1>20, States
     DEF HandleRunFailure, Return, Idle, At, LastResort, RL!TERMINAL_STATES, records, Actors
<1>21. ASSUME NEW a \in Actors, Interrupt(a) PROVE Played'
  BY <1>0, <1>21, States
     DEF Interrupt, Goto, RecoveryRaises, At, StoreRow, StoreAccepts, Merged,
         RL!ValidRun, RL!TERMINAL_STATES, Agree, records, Frames
<1>22. ASSUME NEW a \in Actors, EnterResuming(a) PROVE Played'
  BY <1>0, <1>22, States
     DEF EnterResuming, Goto, RecoveryRaises, StoreRow, StoreAccepts, Merged,
         RL!ValidRun, RL!TERMINAL_STATES, Agree, records, Frames
<1>23. ASSUME NEW a \in Actors, LoadSucceeds(a) PROVE Played'
  BY <1>0, <1>23, States
     DEF LoadSucceeds, Raise, At, StoreRow, Merged, RL!ValidRun, RL!TERMINAL_STATES,
         Agree, records, Frames
<1>24. ASSUME NEW a \in Actors, LoadFails(a) PROVE Played'
  BY <1>0, <1>24, States
     DEF LoadFails, RecoveryRaises, At, StoreRow, records
<1>25. ASSUME NEW a \in Actors, SaveFoundMissing(a) PROVE Played'
  BY <1>0, <1>25, States
     DEF SaveFoundMissing, RecoveryRaises, At, StoreRow
<1>26. ASSUME ReleaseContext PROVE Played'
  BY <1>0, <1>26 DEF ReleaseContext, records
<1>27. ASSUME NEW t \in Turns, Branch(t) PROVE Played'
  BY <1>0, <1>27 DEF Branch, Injected
<1>28. ASSUME UNCHANGED vars PROVE Played'
  BY <1>0, <1>28 DEF vars
<1> QED
  BY <1>1, <1>2, <1>3, <1>4, <1>5, <1>6, <1>7, <1>8, <1>9, <1>10, <1>11, <1>12,
     <1>13, <1>14,
     <1>15, <1>16, <1>17, <1>18, <1>19, <1>20, <1>21, <1>22, <1>23, <1>24, <1>25, <1>26, <1>27,
     <1>28
  DEF Next, Start, Command, Continue, LoopStep, RecoveryStep, Environment, Actors

(* With commands taken one at a time and no branch taken off the run while *)
(* it is rewound, a run that says it is playing is being played, or shows  *)
(* why it is not (_play_run's docstring).                                  *)
THEOREM NeverStranded ==
  ASSUME OneCommand, "branch" \notin FaultKinds
  PROVE  Spec => []NoSilentStrand
<1>1. Played => NoSilentStrand
  BY DEF Played, NoSilentStrand, Waiting, AtRest, Busy
<1>2. TypeInv /\ Known /\ Driver /\ [Next]_vars => Driver'
  BY DriverStep
<1>3. TypeInv /\ Known /\ Driver /\ Agree /\ [Next]_vars => Agree'
  BY AgreeStep
<1>4. TypeInv /\ Known /\ Driver /\ Agree /\ Played /\ [Next]_vars => Played'
  BY PlayedStep
<1> QED BY <1>1, <1>2, <1>3, <1>4, TypeInit, TypeStep, KnownInit, KnownStep, DriverInit,
           AgreeInit, PlayedInit, PTL DEF Spec
=============================================================================
